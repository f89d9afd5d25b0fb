---------------------------- MODULE SimPortfolio ----------------------------
(***************************************************************************)
(* The books of the backtester: a portfolio is a value, and a fill makes a *)
(* new one.  Money is counted in small units, so an average cost is a      *)
(* quotient that loses a fraction of a unit, as the Decimal quotient of    *)
(* the code loses digits; Tolerance is what the code allows for that.      *)
(***************************************************************************)
EXTENDS Integers, Sequences, SequencesExt, FiniteSetsExt, TLC

CONSTANT Tolerance          \* EQUITY_TOLERANCE

Absolute(x) == IF x < 0 THEN -x ELSE x
Lesser(a, b) == IF a <= b THEN a ELSE b

signed_quantity(f) == IF f.side = "BUY" THEN f.qty ELSE -f.qty

NewPortfolio(cash) ==
  [initial_cash |-> cash, cash |-> cash, positions |-> <<>>, realised |-> 0,
   fees |-> 0, signed_notional |-> 0, traded_notional |-> 0]

open_position(f, qty, fee) ==
  [quantity |-> IF signed_quantity(f) > 0 THEN qty ELSE -qty,
   avg_cost |-> f.price, opened |-> f.ts, regime |-> f.regime, entry_qty |-> qty,
   entry_notional |-> qty * f.price, exit_qty |-> 0, exit_notional |-> 0,
   realised_gross |-> 0, fees |-> fee]

trade_from(f, pos, direction) ==
  [symbol |-> f.symbol, direction |-> direction, entry_ts |-> pos.opened,
   exit_ts |-> f.ts, quantity |-> pos.entry_qty, exit_qty |-> pos.exit_qty,
   paid |-> pos.entry_notional, received |-> pos.exit_notional,
   gross |-> pos.realised_gross, fees |-> pos.fees, regime |-> pos.regime]

increase_KeepsAverage(pos, f) ==
  [pos EXCEPT !.quantity = @ + signed_quantity(f), !.entry_qty = @ + f.qty,
              !.entry_notional = @ + f.qty * f.price, !.fees = @ + f.fee]

increase(pos, f) ==
  LET held == Absolute(pos.quantity)
  IN  [pos EXCEPT !.quantity = @ + signed_quantity(f),
                  !.avg_cost = (held * @ + f.qty * f.price) \div (held + f.qty),
                  !.entry_qty = @ + f.qty,
                  !.entry_notional = @ + f.qty * f.price,
                  !.fees = @ + f.fee]

(* What a fill against the position leaves of it (nothing, what remains,   *)
(* or a position the other way), what it realises and the round trip it    *)
(* completes.  The fee is shared between the closed and the opened part.   *)
reduce(pos, f) ==
  LET direction == IF pos.quantity > 0 THEN 1 ELSE -1
      close == Lesser(f.qty, Absolute(pos.quantity))
      gain == close * (f.price - pos.avg_cost) * direction
      fee_close == (f.fee * close) \div f.qty
      updated == [pos EXCEPT !.quantity = @ + signed_quantity(f),
                             !.exit_qty = @ + close,
                             !.exit_notional = @ + close * f.price,
                             !.realised_gross = @ + gain,
                             !.fees = @ + fee_close]
      trade == trade_from(f, updated, IF direction > 0 THEN "LONG" ELSE "SHORT")
      leftover == f.qty - close
  IN  IF Absolute(pos.quantity) > close
      THEN [left |-> <<updated>>, gain |-> gain, closed |-> <<>>]
      ELSE [left |-> IF leftover = 0 THEN <<>>
                     ELSE <<open_position(f, leftover, f.fee - fee_close)>>,
            gain |-> gain, closed |-> <<trade>>]

Held(p) == DOMAIN p.positions

apply_fill(p, f) ==
  LET q == signed_quantity(f)
      pos == p.positions[f.symbol]
      r == IF f.symbol \notin Held(p)
           THEN [left |-> <<open_position(f, f.qty, f.fee)>>, gain |-> 0, closed |-> <<>>]
           ELSE IF (pos.quantity > 0) = (q > 0)
           THEN [left |-> <<increase(pos, f)>>, gain |-> 0, closed |-> <<>>]
           ELSE reduce(pos, f)
      others == [s \in Held(p) \ {f.symbol} |-> p.positions[s]]
  IN  [portfolio |->
         [p EXCEPT !.cash = @ - q * f.price - f.fee,
                   !.positions = IF r.left = <<>> THEN others
                                 ELSE (f.symbol :> r.left[1]) @@ others,
                   !.realised = @ + r.gain,
                   !.fees = @ + f.fee,
                   !.signed_notional = @ + q * f.price,
                   !.traded_notional = @ + f.qty * f.price],
       closed |-> r.closed]

Mark(p, marks, s) == IF s \in DOMAIN marks THEN marks[s] ELSE p.positions[s].avg_cost

unrealised_pnl(p, marks) ==
  MapThenSumSet(LAMBDA s : p.positions[s].quantity
                             * (Mark(p, marks, s) - p.positions[s].avg_cost), Held(p))

gross_exposure(p, marks) ==
  MapThenSumSet(LAMBDA s : Absolute(p.positions[s].quantity) * Mark(p, marks, s), Held(p))

equity(p, marks) ==
  p.cash + MapThenSumSet(LAMBDA s : p.positions[s].quantity * Mark(p, marks, s), Held(p))

check_invariants(p, marks) ==
  /\ p.cash = p.initial_cash - p.signed_notional - p.fees
  /\ Absolute(equity(p, marks)
       - (p.initial_cash + p.realised + unrealised_pnl(p, marks) - p.fees)) <= Tolerance
=============================================================================
