-------------------------- MODULE MC_ExecutionMotor --------------------------
(* Small instances of ExecutionMotor: a good order per id, a dearer one when *)
(* the motor's own quote is above the limit, and one call for every check    *)
(* that refuses.                                                            *)
EXTENDS ExecutionMotor, TLC

Good(i) == [rpc |-> "ExecuteWithContext", signal |-> i, order |-> i, wellformed |-> TRUE,
            context |-> "bound", promoted |-> TRUE, attested |-> TRUE, side |-> "BUY",
            timing |-> "ok", direct |-> TRUE, qty |-> 1, limit |-> 1, stop |-> 0,
            quote |-> 0, venues |-> TRUE]

MCGood == {Good(i) : i \in Ids}

MCRequests ==
  MCGood \cup UNION {
    { [Good(i) EXCEPT !.rpc = "Execute"], [Good(i) EXCEPT !.wellformed = FALSE],
      [Good(i) EXCEPT !.context = "missing"], [Good(i) EXCEPT !.context = "mismatch"],
      [Good(i) EXCEPT !.promoted = FALSE], [Good(i) EXCEPT !.attested = FALSE],
      [Good(i) EXCEPT !.side = "SELL_SHORT"], [Good(i) EXCEPT !.timing = "future"],
      [Good(i) EXCEPT !.timing = "expired"], [Good(i) EXCEPT !.direct = FALSE],
      [Good(i) EXCEPT !.limit = 0], [Good(i) EXCEPT !.quote = 2], [Good(i) EXCEPT !.quote = 3],
      [Good(i) EXCEPT !.venues = FALSE] } : i \in Ids}

MCSymmetry == Permutations(Workers) \cup Permutations(Ids)
=============================================================================
