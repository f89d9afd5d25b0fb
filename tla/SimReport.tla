----------------------------- MODULE SimReport ------------------------------
(***************************************************************************)
(* What is reported about a run: the statistics of its equity curve and    *)
(* round trips that are counts, sums and stretches.  The ratios (Sharpe,   *)
(* Sortino, annualised figures) need real numbers and are left out.        *)
(***************************************************************************)
EXTENDS Integers, Sequences, FiniteSetsExt

HMM_STATES ==
  {"TRENDING_BULL", "TRENDING_BEAR", "HIGH_VOL_CHOP", "LOW_VOL_CHOP", "CRISIS"}

Peak(c, i) == Max({c[j].equity : j \in 1..i})
Underwater(c, i) == c[i].equity < Peak(c, i)

(* A drawdown starts at i; it lasts until the first point that is no       *)
(* longer under water, or to the end of the curve.                         *)
Starts(c) == {i \in 2..Len(c) : Underwater(c, i) /\ ~Underwater(c, i - 1)}
Recovery(c, i) ==
  LET back == {j \in i + 1..Len(c) : ~Underwater(c, j)}
  IN  IF back = {} THEN Len(c) ELSE Min(back)

(* The longest underwater stretch, measured from the peak to the recovery. *)
max_drawdown_FromFirstLow(c) ==
  IF Starts(c) = {} THEN 0 ELSE Max({Recovery(c, i) - i : i \in Starts(c)})

max_drawdown(c) ==
  IF Starts(c) = {} THEN 0 ELSE Max({Recovery(c, i) - (i - 1) : i \in Starts(c)})

net_pnl(t) == t.gross - t.fees

(* Winning round trips, and what was won and lost after fees.              *)
trade_stats(trades) ==
  LET won == {k \in DOMAIN trades : net_pnl(trades[k]) > 0}
      lost == {k \in DOMAIN trades : net_pnl(trades[k]) < 0}
  IN  [hits |-> Cardinality(won), n_trades |-> Len(trades),
       wins |-> MapThenSumSet(LAMBDA k : net_pnl(trades[k]), won),
       losses |-> MapThenSumSet(LAMBDA k : -net_pnl(trades[k]), lost)]

compute_metrics(c, trades) ==
  [n_periods |-> Len(c) - 1, drawdown |-> max_drawdown(c), trades |-> trade_stats(trades),
   exposed |-> Cardinality({i \in DOMAIN c : c[i].gross > 0})]

(* Every HMM state is reported, observed or not; REGIME_UNKNOWN only when  *)
(* a period fell under it.                                                 *)
regime_breakdown(regimes, trades, min_periods) ==
  LET Periods(l) == Cardinality({i \in DOMAIN regimes : regimes[i] = l})
      reported == HMM_STATES \cup {l \in {"REGIME_UNKNOWN"} : Periods(l) > 0}
  IN  [l \in reported |->
         [n_periods |-> Periods(l),
          n_trades |-> Cardinality({k \in DOMAIN trades : trades[k].regime = l}),
          insufficient |-> Periods(l) < min_periods]]
=============================================================================
