----------------------------- MODULE FeedClock -----------------------------
(* What the detector, the bridge and Aegis share: the symbols and a clock. *)
EXTENDS Integers, FiniteSets
CONSTANTS Symbols, MaxTime   \* MaxTime bounds the clock
VARIABLE now
Time == 0..MaxTime
=============================================================================
