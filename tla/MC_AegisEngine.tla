--------------------------- MODULE MC_AegisEngine ---------------------------
(***************************************************************************)
(* Small instances of AegisEngine for TLC.                                 *)
(***************************************************************************)
EXTENDS AegisEngine, TLC

CONSTANTS b, b2, c1, c2

\* b and b2 are two payloads under one signal id.
MCIdOf == (b :> "B") @@ (b2 :> "B")
Early  == [s \in Signals |-> 1]
Never  == [s \in Signals |-> MaxTime + 1]

CallSymmetry == Permutations(Calls)

=============================================================================
