-------------------------- MODULE MC_ControlState --------------------------
(***************************************************************************)
(* A small instance of ControlState for TLC: two symbols; half units       *)
(* (Unit 2) and quarter basis points (BpsBase 4), so that every product    *)
(* can be off by a fraction; days of two ticks.                            *)
(***************************************************************************)
EXTENDS ControlState, TLC

CONSTANT r1

Sigs ==
  LET buy(s, q, l) == [sym |-> s, side |-> "buy", qty |-> q, limit |-> l, omega |-> 2,
                       regime |-> "calm", created |-> 1, until |-> 9]
  IN  ("a1" :> buy("A", 2, 3)) @@ ("b1" :> [buy("B", 1, 0) EXCEPT !.until = 2])
        @@ ("s1" :> [buy("A", 1, 0) EXCEPT !.side = "sell"])

TheCaps == ("A" :> [qty |-> 2, notional |-> 3, position |-> 2])
             @@ ("B" :> [qty |-> 2, notional |-> 1, position |-> 2])

Price(m, age) == [mid |-> m, adv |-> 8, at |-> age, stale |-> FALSE]
Regime(l, age) == [label |-> l, confidence |-> 2, at |-> age]

\* The feed's usual push, and a late one of another price.
TheBatches ==
  {[prices |-> ("A" :> Price(3, 0)) @@ ("B" :> Price(1, 0)) ,
    labels |-> "A" :> Regime("calm", 0), universe |-> Regime("calm", 0)],
   [prices |-> "A" :> Price(4, 1), labels |-> <<>>,
    universe |-> Regime("calm", 9)]}

Three == [capacity |-> 3, refill |-> 1]
Two   == [capacity |-> 2, refill |-> 1]
=============================================================================
