---------------------------- MODULE MC_Exposure ----------------------------
(***************************************************************************)
(* Small instances of Exposure for TLC: orders of one or two units against *)
(* a limit one of them can reach and two of them exceed.                   *)
(***************************************************************************)
EXTENDS Exposure, TLC

TwoBuysOneSell == ("b1" :> 2) @@ ("b2" :> 1) @@ ("s1" :> 1)

=============================================================================
