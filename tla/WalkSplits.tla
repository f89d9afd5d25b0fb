----------------------------- MODULE WalkSplits -----------------------------
(***************************************************************************)
(* The windows of a walk-forward analysis, in positions of the timeline,   *)
(* ends exclusive.  w is a WfaConfig.                                      *)
(***************************************************************************)
EXTENDS Integers, FiniteSets, Sequences

WfaConfigs ==
  [train_size : Nat, test_size : Nat, step : Nat, anchored : BOOLEAN,
   embargo : Int, purge : Int, warmup : Nat, min_regime_periods : Nat]

(* What generate_splits refuses.                                           *)
SplitsOK(w) ==
  /\ w.embargo >= 0 /\ w.purge >= 0
  /\ w.train_size - w.purge >= 3 /\ w.test_size >= 2
  /\ w.step >= w.test_size

window(w, k) ==
  LET a == IF w.anchored THEN 0 ELSE k * w.step
      b == w.train_size + k * w.step
  IN  [train_start |-> a, train_end |-> b - w.purge,
       test_start |-> b + w.embargo, test_end |-> b + w.embargo + w.test_size]

(* The windows that end within n samples; a longer k never fits again.     *)
generate_splits(n, w) ==
  LET fitting == {k \in 0..n : window(w, k).test_end <= n}
  IN  [i \in 1..Cardinality(fitting) |-> window(w, i - 1)]

assert_no_leakage(splits, w) ==
  /\ \A i \in DOMAIN splits :
       /\ splits[i].train_end <= splits[i].test_start
       /\ splits[i].train_start < splits[i].train_end
       /\ splits[i].test_start - splits[i].train_end >= w.purge + w.embargo
  /\ \A i \in DOMAIN splits :
       i + 1 \in DOMAIN splits => splits[i + 1].test_start >= splits[i].test_end
=============================================================================
