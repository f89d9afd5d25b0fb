----------------------------- MODULE AttestOnce -----------------------------
(***************************************************************************)
(* What the replay protection of Aegis promises its callers: whatever      *)
(* happens to a signal - retries, deadlines, holds, failing disks,         *)
(* restarts - the attestations that callers ever receive for one payload   *)
(* are copies of a single one (state/replay.rs, control C07).              *)
(***************************************************************************)
CONSTANT Signals

VARIABLE given      \* [Signals -> the attestations callers received]

Init == given = [s \in Signals |-> {}]

\* A caller receives attestation a for signal s.
Grant(s, a) ==
  /\ given[s] \subseteq {a}
  /\ given' = [given EXCEPT ![s] = {a}]

Next == \E s \in Signals : \E a \in given'[s] : Grant(s, a)

Spec == Init /\ [][Next]_given

=============================================================================
