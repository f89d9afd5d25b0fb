---------------------------- MODULE MC_KillWatch ----------------------------
(***************************************************************************)
(* Small instances of KillWatch for TLC.                                   *)
(***************************************************************************)
EXTENDS KillWatch
=============================================================================
