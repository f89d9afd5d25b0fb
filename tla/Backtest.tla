------------------------------ MODULE Backtest ------------------------------
(***************************************************************************)
(* The event loop of the backtester over a set of bars.  Market data is a  *)
(* function from symbols to sequences of bars; the strategy is any program *)
(* that returns orders, here a choice among Plays at every instant, and    *)
(* the latency jitter is any value of its range.                           *)
(***************************************************************************)
EXTENDS SimExecution, SimReport

CONSTANTS Plays,     \* the sequences of order intents a strategy may return
          Alphabet   \* the symbols in sorted order

ASSUME PlaysAssumption == \A p \in Plays : \A k \in DOMAIN p : IntentOK(p[k])

VARIABLES data,     \* the market data of the run
          cfg,      \* BacktestConfig
          start,    \* trading_start_ts_ns, or None
          at,       \* position in the merged timeline
          state,    \* _RunState: portfolio, marks, pending, fills, ...
          curve     \* equity points recorded so far

runVars == <<data, cfg, start, at, state, curve>>

-----------------------------------------------------------------------------
(* Market data.                                                            *)

(* MarketData.from_bars and from_frame: rows in any order, grouped by      *)
(* symbol and sorted by time.                                              *)
from_bars(rows) ==
  [s \in {rows[i].symbol : i \in DOMAIN rows} |->
     SortSeq(SelectSeq(rows, LAMBDA b : b.symbol = s), LAMBDA a, b : a.ts < b.ts)]

(* SymbolSeries._validate: two bars of one instant are refused.            *)
validate(series) ==
  /\ series # <<>>
  /\ \A i \in DOMAIN series :
       /\ series[i].open > 0 /\ series[i].close > 0 /\ series[i].volume >= 0
       /\ i > 1 => series[i - 1].ts < series[i].ts

DataOK(d) == DOMAIN d # {} /\ \A s \in DOMAIN d : validate(d[s])

Instants(d) == UNION {{d[s][i].ts : i \in DOMAIN d[s]} : s \in DOMAIN d}
timeline(d) ==
  LET I == Instants(d)
  IN  [k \in 1..Cardinality(I) |->
         CHOOSE t \in I : Cardinality({u \in I : u < t}) = k - 1]

(* The label in force at t: the last one stamped t or earlier, and of two  *)
(* with one stamp the later in the list.                                   *)
AsOf(labels, t) ==
  LET known == {i \in DOMAIN labels : labels[i].ts <= t}
      Before(j, i) == \/ labels[j].ts < labels[i].ts
                      \/ labels[j].ts = labels[i].ts /\ j <= i
  IN  IF known = {} THEN "REGIME_UNKNOWN"
      ELSE labels[CHOOSE i \in known : \A j \in known : Before(j, i)].label

with_regimes(d, labels) ==
  [s \in DOMAIN d |->
     [i \in DOMAIN d[s] |-> [d[s][i] EXCEPT !.regime = AsOf(labels, d[s][i].ts)]]]

(* Bars from first to last, both included; a symbol that has none there is *)
(* not part of the slice.                                                  *)
slice_time(d, first, last) ==
  LET part(s) == SelectSeq(d[s], LAMBDA b : first <= b.ts /\ b.ts <= last)
  IN  [s \in {t \in DOMAIN d : part(t) # <<>>} |-> part(s)]

-----------------------------------------------------------------------------
(* One event of PointInTimeFeed.events: the bars stamped now, and what a   *)
(* strategy can see, the bars up to now.                                   *)

Now == timeline(data)[at]

BarsAt(s, ts) == SelectSeq(data[s], LAMBDA b : b.ts = ts)
NewBars == [s \in {t \in DOMAIN data : BarsAt(t, Now) # <<>>} |-> BarsAt(s, Now)[1]]
history(s) == SelectSeq(data[s], LAMBDA b : b.ts <= Now)

update_marks(marks, bars) == [s \in DOMAIN bars |-> bars[s].close] @@ marks

NewState(cash) ==
  [portfolio |-> NewPortfolio(cash), marks |-> <<>>, pending |-> <<>>, fills |-> <<>>,
   trades |-> <<>>, rejections |-> <<>>, abstained |-> <<>>, asked |-> <<>>]

(* run_backtest begins over d, trading from time t on.                     *)
Begin(d, c, t) ==
  /\ data' = d /\ cfg' = c /\ start' = t
  /\ at' = 1 /\ state' = NewState(c.initial_cash) /\ curve' = <<>>

Expired(o, ts) == o.expires # None /\ ts > o.expires

Eligible_NoLatency(o, bars, ts) == o.symbol \in DOMAIN bars /\ ts > o.created

Eligible(o, bars, ts) ==
  o.symbol \in DOMAIN bars /\ ts > o.created /\ ts >= o.eligible

(* One order's turn.  w holds the state, the orders that stay open and the *)
(* capacity already used of each bar.                                      *)
Turn(w, o, bars, ts) ==
  LET st == w.state
      s == o.symbol
      position == IF s \in Held(st.portfolio) THEN st.portfolio.positions[s].quantity ELSE 0
      used == IF s \in DOMAIN w.used THEN w.used[s] ELSE 0
      capacity == (bars[s].volume * cfg.participation) \div 100 - used
      a == attempt_fill(o, bars[s], capacity, position, st.portfolio.cash, cfg)
      booked == apply_fill(st.portfolio, a.fill[1])
  IN  CASE Expired(o, ts) ->
             [w EXCEPT !.state.rejections = Append(@, Refused(o, ts, "expired"))]
        [] ~Expired(o, ts) /\ ~Eligible(o, bars, ts) ->
             [w EXCEPT !.open = Append(@, o)]
        [] OTHER ->
             [state |-> [st EXCEPT
                !.rejections = @ \o a.rejection,
                !.fills = @ \o a.fill,
                !.portfolio = IF a.fill = <<>> THEN @ ELSE booked.portfolio,
                !.trades = IF a.fill = <<>> THEN @ ELSE @ \o booked.closed],
              used |-> IF a.fill = <<>> THEN w.used
                       ELSE (s :> used + a.fill[1].qty) @@ w.used,
              open |-> w.open \o a.order]

process_pending(st, bars, ts) ==
  LET first == [state |-> st, used |-> <<>>, open |-> <<>>]
      last == FoldLeft(LAMBDA w, o : Turn(w, o, bars, ts), first, st.pending)
  IN  [last.state EXCEPT !.pending = last.open]

(* One intent of the strategy: abstained, refused for want of a price, or  *)
(* queued to arrive after the latency.  asked records the order ids given  *)
(* out (next_order_id) with the quantity asked for.                        *)
Enqueue1(st, i, delay) ==
  LET seen == history(i.symbol)
      id == Len(st.asked) + 1
      ttl == IF i.valid_for # None THEN i.valid_for ELSE cfg.default_ttl
      order == [id |-> id, symbol |-> i.symbol, side |-> i.side,
                price_limit |-> i.price_limit, created |-> Now,
                eligible |-> Now + cfg.latency + delay,
                expires |-> IF ttl = None THEN None ELSE Now + ttl,
                decision_price |-> Last(seen).close, remaining |-> i.quantity,
                regime |-> Last(seen).regime]
      numbered == [st EXCEPT !.asked = Append(@, i.quantity)]
      refusal == [id |-> id, symbol |-> i.symbol, ts |-> Now,
                  reason |-> "no_market_data", quantity |-> i.quantity]
  IN  CASE i.abstains /\ cfg.omega -> [st EXCEPT !.abstained = Append(@, i)]
        [] ~(i.abstains /\ cfg.omega) /\ seen = <<>> ->
             [numbered EXCEPT !.rejections = Append(@, refusal)]
        [] OTHER -> [numbered EXCEPT !.pending = Append(@, order)]

enqueue(st, play, delays) ==
  FoldLeft(LAMBDA s, k : Enqueue1(s, play[k], delays[k]), st, [k \in DOMAIN play |-> k])

(* The regime a point is filed under: that of the chosen symbol, or of the *)
(* first symbol that has a bar at this instant.                            *)
event_regime(bars) ==
  IF cfg.regime_symbol # None
  THEN IF cfg.regime_symbol \in DOMAIN bars THEN bars[cfg.regime_symbol].regime
       ELSE "REGIME_UNKNOWN"
  ELSE bars[SelectSeq(Alphabet, LAMBDA s : s \in DOMAIN bars)[1]].regime

Point(st) == [ts |-> Now, equity |-> equity(st.portfolio, st.marks),
              gross |-> gross_exposure(st.portfolio, st.marks),
              regime |-> event_regime(NewBars)]

More == at <= Len(timeline(data))
Trading == IF start = None THEN TRUE ELSE Now >= start

-----------------------------------------------------------------------------
(* Before trading_start the bars are only revealed.                        *)
WarmUp ==
  /\ More /\ ~Trading
  /\ state' = [state EXCEPT !.marks = update_marks(@, NewBars)]
  /\ at' = at + 1
  /\ UNCHANGED <<data, cfg, start, curve>>

Filled ==
  process_pending([state EXCEPT !.marks = update_marks(@, NewBars)], NewBars, Now)

(* The rest of an iteration of run_backtest: fills, the accounting check,  *)
(* the equity point, then the strategy's orders.                           *)
Event ==
  /\ More /\ Trading
  /\ check_invariants(Filled.portfolio, Filled.marks)
  /\ \E play \in Plays :
       /\ \A k \in DOMAIN play : play[k].symbol \in DOMAIN data
       /\ \E delays \in [DOMAIN play -> 0..cfg.jitter] :
            state' = enqueue(Filled, play, delays)
  /\ curve' = Append(curve, Point(Filled))
  /\ at' = at + 1
  /\ UNCHANGED <<data, cfg, start>>

(* The run raises: the books do not reconcile, or the strategy names a     *)
(* symbol the data does not have.                                          *)
EventRaises ==
  /\ More /\ Trading
  /\ \/ ~check_invariants(Filled.portfolio, Filled.marks)
     \/ \E play \in Plays : \E k \in DOMAIN play : play[k].symbol \notin DOMAIN data
  /\ UNCHANGED runVars

(* compute_metrics at the end: two points, all of them positive.           *)
MetricsOK == Len(curve) >= 2 /\ \A i \in DOMAIN curve : curve[i].equity > 0

-----------------------------------------------------------------------------
(* Properties of a run.                                                    *)

SumOver(S, q(_)) == MapThenSumSet(q, S)
FillsOf(id) == {k \in DOMAIN state.fills : state.fills[k].id = id}
RefusalsOf(id) == {k \in DOMAIN state.rejections : state.rejections[k].id = id}
OpenOf(id) == {k \in DOMAIN state.pending : state.pending[k].id = id}

(* No order is lost, doubled or half forgotten, however it was filled in   *)
(* parts, expired or was refused: what was filled, what was refused and    *)
(* what is still open add up to what was asked, and an order that was      *)
(* refused is not open.                                                    *)
OrdersConserved ==
  \A id \in DOMAIN state.asked :
    /\ SumOver(FillsOf(id), LAMBDA k : state.fills[k].qty)
         + SumOver(RefusalsOf(id), LAMBDA k : state.rejections[k].quantity)
         + SumOver(OpenOf(id), LAMBDA k : state.pending[k].remaining)
       = state.asked[id]
    /\ Cardinality(RefusalsOf(id)) + Cardinality(OpenOf(id)) <= 1

(* The books reconcile through partial fills, averaging and flips: no      *)
(* event is stopped by check_invariants, every completed round trip earned *)
(* what it received minus what it paid and closed what it opened, and the  *)
(* P&L and the fees of round trips and open positions add up to the        *)
(* portfolio's.                                                            *)
BooksReconcile ==
  LET p == state.portfolio
      closed == DOMAIN state.trades
      Gain(t) == IF t.direction = "LONG" THEN t.received - t.paid ELSE t.paid - t.received
  IN  /\ More => check_invariants(Filled.portfolio, Filled.marks)
      /\ \A k \in closed :
           /\ state.trades[k].quantity = state.trades[k].exit_qty
           /\ Absolute(Gain(state.trades[k]) - state.trades[k].gross) <= Tolerance
      /\ \A s \in Held(p) : LET q == p.positions[s] IN
           /\ q.quantity # 0
           /\ q.entry_qty - q.exit_qty = Absolute(q.quantity)
      /\ SumOver(closed, LAMBDA k : state.trades[k].gross)
           + SumOver(Held(p), LAMBDA s : p.positions[s].realised_gross) = p.realised
      /\ SumOver(closed, LAMBDA k : state.trades[k].fees)
           + SumOver(Held(p), LAMBDA s : p.positions[s].fees) = p.fees
=============================================================================
