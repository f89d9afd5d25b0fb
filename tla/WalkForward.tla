---------------------------- MODULE WalkForward -----------------------------
(***************************************************************************)
(* The backtester as it is used: one run over the whole data (the command  *)
(* line), or a walk-forward analysis that fits every window on its         *)
(* training slice, one run per parameter set, and evaluates the best one   *)
(* on the test slice.  The objective is the total return.                  *)
(***************************************************************************)
EXTENDS Backtest, WalkSplits

CONSTANTS Cases,   \* jobs: a bar file, the regime series to attach (<<>> for
                   \* none), a BacktestConfig and a WfaConfig (None for one run)
          Combos   \* number of parameter sets in the grid

VARIABLES whole,    \* the market data loaded
          labels,   \* the regime series attached to it
          wfa,      \* WfaConfig, or None
          job,      \* what is running: kind, window and parameter set
          best,     \* best fit of the window so far: parameter set and score
          results,  \* of the windows evaluated so far
          report    \* the aggregate, or the metrics of a single run

vars == <<runVars, whole, labels, wfa, job, best, results, report>>
plan == <<whole, labels, wfa>>

Job(kind, k, c) == [kind |-> kind, window |-> k, combo |-> c]
NoFit == [combo |-> 0, score |-> 0]
Splits == generate_splits(Len(timeline(whole)), wfa)
Stamp(i) == timeline(whole)[i + 1]     \* positions count from zero

(* _fit_window and _evaluate_window: the slices they run on.  A test run   *)
(* sees warmup bars of earlier history and trades from the test start.     *)
TrainSlice(k) ==
  slice_time(whole, Stamp(Splits[k].train_start), Stamp(Splits[k].train_end - 1))

TestSlice(k) ==
  LET early == Splits[k].test_start - wfa.warmup
  IN  slice_time(whole, Stamp(IF early < 0 THEN 0 ELSE early),
                 Stamp(Splits[k].test_end - 1))

TradingStart_None(k) == None
TradingStart(k) == Stamp(Splits[k].test_start)

-----------------------------------------------------------------------------
(* Loading refuses bad files; then a single run, or the first fit.         *)
Loads(rows, ls) ==
  LET d == from_bars(rows) IN IF ls = <<>> THEN d ELSE with_regimes(d, ls)

Accepted(d) ==
  /\ DataOK(d) /\ ConfigOK(cfg) /\ Combos > 0
  /\ \/ wfa = None
     \/ /\ SplitsOK(wfa)
        /\ generate_splits(Len(timeline(d)), wfa) # <<>>
        /\ assert_no_leakage(generate_splits(Len(timeline(d)), wfa), wfa)

Init ==
  /\ \E c \in Cases : /\ cfg = c.cfg /\ wfa = c.wfa /\ labels = c.labels
                       /\ whole = Loads(c.rows, c.labels)
  /\ data = whole /\ start = None /\ at = 1
  /\ state = NewState(cfg.initial_cash) /\ curve = <<>>
  /\ best = NoFit /\ results = <<>> /\ report = None
  /\ job = IF Accepted(whole) THEN Job(IF wfa = None THEN "main" ELSE "plan", 1, 1)
           ELSE Job("failed", 0, 0)

Plan ==
  /\ job.kind = "plan"
  /\ Begin(TrainSlice(job.window), cfg, None)
  /\ job' = [job EXCEPT !.kind = "fit"]
  /\ best' = NoFit
  /\ UNCHANGED <<plan, results, report>>

Running == job.kind \in {"main", "fit", "test"}

(* The loop of the run in progress.                                        *)
Step ==
  /\ Running /\ (WarmUp \/ Event)
  /\ UNCHANGED <<plan, job, best, results, report>>

Fails ==
  /\ Running
  /\ \/ EventRaises
     \/ ~More /\ ~MetricsOK /\ UNCHANGED runVars
  /\ job' = Job("failed", 0, 0)
  /\ UNCHANGED <<plan, best, results, report>>

FinishMain ==
  /\ job.kind = "main" /\ ~More /\ MetricsOK
  /\ report' = compute_metrics(curve, state.trades)
  /\ job' = Job("done", 0, 0)
  /\ UNCHANGED <<runVars, plan, best, results>>

(* A fit ends.  The first parameter set with the highest score is kept;    *)
(* after the last one the window is evaluated.                             *)
FinishFit ==
  /\ job.kind = "fit" /\ ~More /\ MetricsOK
  /\ LET score == Last(curve).equity
     IN  best' = IF best.combo = 0 \/ score > best.score
                 THEN [combo |-> job.combo, score |-> score] ELSE best
  /\ IF job.combo < Combos
     THEN /\ job' = [job EXCEPT !.combo = @ + 1]
          /\ Begin(TrainSlice(job.window), cfg, None)
     ELSE /\ job' = [job EXCEPT !.kind = "test", !.combo = best'.combo]
          /\ Begin(TestSlice(job.window), cfg, TradingStart(job.window))
  /\ UNCHANGED <<plan, results, report>>

(* _aggregate: the periods and round trips of all windows, by regime.      *)
aggregate(rs) ==
  LET pooled == FlattenSeq([k \in DOMAIN rs |-> rs[k].regimes])
      traded == FlattenSeq([k \in DOMAIN rs |-> rs[k].trades])
      split == regime_breakdown(pooled, traded, wfa.min_regime_periods)
  IN  [n_windows |-> Len(rs), n_configurations |-> Combos * Len(rs), regimes |-> split,
       missing |-> {l \in HMM_STATES : split[l].n_periods = 0}]

(* A window's result: each period, from one equity point to the next, is   *)
(* filed under the regime at its start.                                    *)
Result ==
  [points |-> {curve[i].ts : i \in DOMAIN curve}, combo |-> job.combo,
   regimes |-> [i \in 1..Len(curve) - 1 |-> curve[i].regime],
   trades |-> state.trades, metrics |-> compute_metrics(curve, state.trades)]

FinishTest ==
  /\ job.kind = "test" /\ ~More /\ MetricsOK
  /\ results' = Append(results, Result)
  /\ IF job.window < Len(Splits)
     THEN job' = Job("plan", job.window + 1, 1) /\ UNCHANGED report
     ELSE job' = Job("done", 0, 0) /\ report' = aggregate(results')
  /\ UNCHANGED <<runVars, plan, best>>

Next == Plan \/ Step \/ Fails \/ FinishMain \/ FinishFit \/ FinishTest
Spec == Init /\ [][Next]_vars

-----------------------------------------------------------------------------
(* Nothing trades on what was not known: a fill comes strictly after the   *)
(* bar its order was decided on and no sooner than the order's latency,    *)
(* its regime label was stamped by the time of the decision, and all       *)
(* orders of a symbol together take no more of a bar than the              *)
(* participation cap.                                                      *)
FillsCausal ==
  \A k \in DOMAIN state.fills :
    LET f == state.fills[k]
        bar == BarsAt(f.symbol, f.ts)[1]
        beside == {j \in DOMAIN state.fills :
                     state.fills[j].symbol = f.symbol /\ state.fills[j].ts = f.ts}
    IN  /\ f.ts > f.signal_ts /\ f.ts >= f.signal_ts + cfg.latency
        /\ labels # <<>> => \/ f.regime = "REGIME_UNKNOWN"
                            \/ \E i \in DOMAIN labels :
                                 labels[i].ts <= f.signal_ts /\ labels[i].label = f.regime
        /\ SumOver(beside, LAMBDA j : state.fills[j].qty) * 100
             <= bar.volume * cfg.participation

(* The out-of-sample statistics are out of sample: a window contributes    *)
(* exactly its test points, whatever warm-up history it was given and      *)
(* however sparse its symbols are; no point is counted in two windows; and *)
(* no fill of a test run was decided before the test began or on data that *)
(* the fit of the same window had seen.                                    *)
OutOfSample ==
  /\ \A k \in DOMAIN results :
       /\ results[k].points = {Stamp(i) : i \in Splits[k].test_start .. Splits[k].test_end - 1}
       /\ results[k].metrics.n_periods = wfa.test_size - 1
       /\ \A j \in DOMAIN results : j # k => results[j].points \cap results[k].points = {}
  /\ job.kind = "test" =>
       \A k \in DOMAIN state.fills :
         /\ state.fills[k].signal_ts >= Stamp(Splits[job.window].test_start)
         /\ state.fills[k].signal_ts \notin Instants(TrainSlice(job.window))

(* The report says what happened.  The drawdown reported is the longest    *)
(* time from a high to the first return to it, or to the end; the periods  *)
(* by regime are all the out-of-sample periods, each once; and a regime    *)
(* the data never showed is listed as missing and as insufficient          *)
(* evidence, never as passed.                                              *)
ReportTrue ==
  /\ MetricsOK =>
       LET Below(i, j) == \A m \in i + 1..j : curve[m].equity < curve[i].equity
           falls == {<<i, j>> \in (DOMAIN curve) \X (DOMAIN curve) :
                       /\ i < j /\ curve[i].equity = Peak(curve, i)
                       /\ IF j = Len(curve) /\ curve[j].equity < curve[i].equity
                          THEN Below(i, j)
                          ELSE i + 1 < j /\ Below(i, j - 1)}
           longest == compute_metrics(curve, state.trades).drawdown
       IN  /\ \A f \in falls : f[2] - f[1] <= longest
           /\ longest > 0 => \E f \in falls : f[2] - f[1] = longest
  /\ job.kind = "done" /\ wfa # None =>
       LET split == report.regimes
       IN  /\ SumOver(DOMAIN split, LAMBDA l : split[l].n_periods)
                = Len(Splits) * (wfa.test_size - 1)
           /\ \A l \in report.missing : split[l].insufficient /\ split[l].n_periods = 0
           /\ HMM_STATES \subseteq DOMAIN split
=============================================================================
