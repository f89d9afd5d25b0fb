----------------------------- MODULE KillLevels -----------------------------
(***************************************************************************)
(* The kill-switch levels of aegis.proto, shared by Aegis (which latches   *)
(* them) and by every component that obeys them.                           *)
(***************************************************************************)
EXTENDS Integers

NORMAL    == 0
SOFT      == 1
LOGIC     == 2
DEAD_MANS == 3
HARD      == 4
PHYSICAL  == 5

Levels == NORMAL..PHYSICAL

\* KillSwitchLevel::from_wire + unwrap_or(HARD): an integer that is no level
\* of this build is read as HARD.
LevelEnum(raw) == IF raw \in Levels THEN raw ELSE HARD

=============================================================================
