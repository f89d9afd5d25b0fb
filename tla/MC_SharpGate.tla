---------------------------- MODULE MC_SharpGate ----------------------------
(* Two of the six signatures, one proposer who may also sign, and two      *)
(* spellings of one signer that the database takes for two persons.        *)
EXTENDS SharpGate, TLC

CONSTANTS g1, g2

ThePipeline == <<"DRAFT", "COMPLIANCE", "PROMOTED">>
TheNames == {"ann", "strasse", "Strasse", "bea"}
TheFold == [n \in TheNames |-> IF n = "Strasse" THEN "strasse" ELSE n]
TheLower == [n \in TheNames |-> n]
TheAllowed == [s \in Stages |->
                 CASE s = "COMPLIANCE" -> {"strasse", "ann"}
                   [] s = "PROMOTED" -> {"strasse", "bea"}
                   [] OTHER -> {}]
GateSymmetry == Permutations(Gates)
=============================================================================
