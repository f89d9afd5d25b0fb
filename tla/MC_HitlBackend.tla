---------------------------- MODULE MC_HitlBackend ----------------------------
EXTENDS HitlBackend, TLC

CONSTANTS m1, ann, bob, vic

Roles == [o \in Operators |-> IF o = vic THEN "viewer" ELSE "approver"]
OneProcess == [o \in Orders |-> m1]
Approvers == Permutations({ann, bob})
=============================================================================
