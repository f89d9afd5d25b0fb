------------------------------ MODULE MC_Feeds ------------------------------
EXTENDS Feeds

(* A file of another symbol. *)
MCStrays == {[for |-> "BBB", at |-> 0, whole |-> TRUE]}

(* Snapshots of one symbol are enough for their watermark. *)
MCPayloads == {[symbol |-> "AAA", ok |-> TRUE, is_stale |-> FALSE, warmup |-> FALSE]}
=============================================================================
