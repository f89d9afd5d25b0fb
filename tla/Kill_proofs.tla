--------------------------- MODULE Kill_proofs ------------------------------
(***************************************************************************)
(* Proofs about the kill switch of Aegis, for every number of peers,       *)
(* people, latches, clock ticks and faults, and about the motor's watcher  *)
(* of it, for any number of orders, levels, outages and faults.            *)
(***************************************************************************)
EXTENDS KillSwitch, KillWatch, FiniteSetTheorems, WellFoundedInduction, TLAPS

-----------------------------------------------------------------------------
(* The operators on a KillState.                                           *)

\* The effective level is the strongest latch: it exists, bounds every latch and
\* is NORMAL only when no latch is stronger (mod.rs effective_level).
LEMMA LevelLemma ==
  ASSUME NEW L
  PROVE  /\ EffectiveLevel(L) \in Levels
         /\ \A l \in L : LevelEnum(l.level) <= EffectiveLevel(L)
         /\ EffectiveLevel(L) # NORMAL =>
              \E l \in L : LevelEnum(l.level) = EffectiveLevel(L)
<1> DEFINE Bound(r) == /\ \A l \in L : LevelEnum(l.level) <= r
                       /\ r # NORMAL => \E l \in L : LevelEnum(l.level) = r
<1>1. \A l \in L : LevelEnum(l.level) \in {0, 1, 2, 3, 4, 5}
  BY DEF LevelEnum, Levels, NORMAL, PHYSICAL, HARD
<1>2. \E r \in Levels : Bound(r)
  <2>1. CASE \E l \in L : LevelEnum(l.level) = 5
    BY <1>1, <2>1 DEF Levels, NORMAL, PHYSICAL
  <2>2. CASE \E l \in L : LevelEnum(l.level) = 4 /\ \A m \in L : LevelEnum(m.level) # 5
    BY <1>1, <2>2 DEF Levels, NORMAL, PHYSICAL
  <2>3. CASE \E l \in L : LevelEnum(l.level) = 3 /\ \A m \in L : LevelEnum(m.level) \notin {4, 5}
    BY <1>1, <2>3 DEF Levels, NORMAL, PHYSICAL
  <2>4. CASE \E l \in L : LevelEnum(l.level) = 2 /\ \A m \in L : LevelEnum(m.level) \notin {3, 4, 5}
    BY <1>1, <2>4 DEF Levels, NORMAL, PHYSICAL
  <2>5. CASE \E l \in L : LevelEnum(l.level) = 1 /\ \A m \in L : LevelEnum(m.level) \notin {2, 3, 4, 5}
    BY <1>1, <2>5 DEF Levels, NORMAL, PHYSICAL
  <2>6. CASE \A m \in L : LevelEnum(m.level) = 0
    BY <1>1, <2>6 DEF Levels, NORMAL, PHYSICAL
  <2> QED BY <1>1, <2>1, <2>2, <2>3, <2>4, <2>5, <2>6
<1> QED BY <1>2 DEF EffectiveLevel

\* A table that covers another has at least its level.
LEMMA LevelMonotone ==
  ASSUME NEW L, NEW M,
         \A l \in L : \E m \in M : LevelEnum(l.level) <= LevelEnum(m.level)
  PROVE  EffectiveLevel(L) <= EffectiveLevel(M)
<1>1. EffectiveLevel(M) \in Levels /\ EffectiveLevel(L) \in Levels
  BY LevelLemma
<1>2. \A m \in M : LevelEnum(m.level) <= EffectiveLevel(M)
  BY LevelLemma
<1>3. CASE EffectiveLevel(L) = NORMAL
  BY <1>1, <1>3 DEF Levels, NORMAL, PHYSICAL
<1>4. CASE EffectiveLevel(L) # NORMAL
  <2>1. PICK l \in L : LevelEnum(l.level) = EffectiveLevel(L)
    BY <1>4, LevelLemma
  <2>2. PICK m \in M : LevelEnum(l.level) <= LevelEnum(m.level)
    OBVIOUS
  <2>3. LevelEnum(m.level) \in Int
    BY DEF LevelEnum, Levels, NORMAL, PHYSICAL, HARD
  <2> QED BY <1>1, <1>2, <2>1, <2>2, <2>3 DEF Levels, NORMAL, PHYSICAL
<1> QED BY <1>3, <1>4

\* Nat is well-founded: a nonempty set of naturals has a least element.
LEMMA LeastNat ==
  ASSUME NEW S \in SUBSET Nat, S # {}
  PROVE  \E n \in S : \A m \in S : n <= m
<1>1. PICK x \in S : \A y \in S : ~ (<<y, x>> \in OpToRel(<, Nat))
  BY NatLessThanWellFounded, WFMin, Zenon
<1>2. \A y \in S : ~ (y < x)
  BY <1>1, Zenon DEF OpToRel
<1> QED BY <1>2

\* Some latch is the victim: the choice in Victim is never empty-handed.
LEMMA VictimExists ==
  ASSUME NEW L, L # {}, \A l \in L : l.id \in Nat /\ l.at \in Nat
  PROVE  Victim(L) \in L /\ \A l \in L : Weaker(Victim(L), l)
<1> DEFINE R == {LevelEnum(l.level) : l \in L}
<1>1. \A l \in L : LevelEnum(l.level) \in Nat
  BY DEF LevelEnum, Levels, NORMAL, PHYSICAL, HARD
<1>2. PICK r \in R : \A q \in R : r <= q
  BY <1>1, LeastNat
<1> DEFINE A == {l.at : l \in {x \in L : LevelEnum(x.level) = r}}
<1>3. PICK a \in A : \A b \in A : a <= b
  <2>1. A \in SUBSET Nat /\ A # {}
    OBVIOUS
  <2> QED BY <2>1, LeastNat
<1> DEFINE I == {l.id : l \in {x \in L : LevelEnum(x.level) = r /\ x.at = a}}
<1>4. PICK i \in I : \A j \in I : i <= j
  <2>1. I \in SUBSET Nat /\ I # {}
    OBVIOUS
  <2> QED BY <2>1, LeastNat
<1>5. PICK v \in L : LevelEnum(v.level) = r /\ v.at = a /\ v.id = i
  OBVIOUS
<1>6. \A l \in L : Weaker(v, l)
  <2> SUFFICES ASSUME NEW l \in L PROVE Weaker(v, l)
    OBVIOUS
  <2>1. r <= LevelEnum(l.level) /\ r \in Nat /\ LevelEnum(l.level) \in Nat
    BY <1>1, <1>2
  <2>2. LevelEnum(l.level) = r => a <= l.at /\ a \in Nat /\ l.at \in Nat
    BY <1>3
  <2>3. LevelEnum(l.level) = r /\ l.at = a => i <= l.id
    BY <1>4
  <2> QED BY <1>5, <2>1, <2>2, <2>3 DEF Weaker
<1> QED BY <1>6 DEF Victim

-----------------------------------------------------------------------------
(* A well-formed state: typed, within the cap, and its latches told apart by *)
(* trigger ids no later than state_seq.                                      *)

WellFormed(s) ==
  /\ IsState(s)
  /\ IsFiniteSet(s.latches)
  /\ Cardinality(s.latches) <= MaxLatches
  /\ \A l \in s.latches : l.id <= s.seq
  /\ \A a, b \in s.latches : a.id = b.id => a = b

\* What one state must keep of another for the level not to fall.
Covers(new, old) ==
  \A l \in old : \E m \in new : LevelEnum(l.level) <= LevelEnum(m.level)

\* Pushing a latch keeps the state well-formed, covers every latch that was there
\* even when one is evicted, and raises the level to the one asked for.
LEMMA LatchLemma ==
  ASSUME NEW k, WellFormed(k), NEW level \in Levels, NEW reason, NEW actor, NEW t \in Nat
  PROVE  /\ WellFormed(latch(k, level, reason, actor, t))
         /\ Covers(latch(k, level, reason, actor, t).latches, k.latches)
         /\ \E m \in latch(k, level, reason, actor, t).latches : LevelEnum(m.level) >= level
<1> DEFINE same   == {l \in k.latches : l.level = level /\ l.reason = reason /\ l.actor = actor}
           full   == Cardinality(k.latches) >= MaxLatches
           victim == Victim(k.latches)
           kept   == IF full THEN k.latches \ {victim} ELSE k.latches
           new    == [id |-> k.seq + 1, level |-> level, reason |-> reason, actor |-> actor, at |-> t]
           k2     == [latches |-> kept \cup {new}, seq |-> k.seq + 1, upd |-> t, hb |-> k.hb]
<1>1. k.seq \in Nat /\ k.hb \in Nat /\ k.upd \in Nat
      /\ k = [latches |-> k.latches, seq |-> k.seq, upd |-> k.upd, hb |-> k.hb]
      /\ \A l \in k.latches : l.id \in Nat /\ l.level \in Levels /\ l.at \in Nat
  BY DEF WellFormed, IsState
<1>2. IsFiniteSet(k.latches) /\ Cardinality(k.latches) \in Nat /\ Cardinality(k.latches) <= MaxLatches
  BY FS_CardinalityType DEF WellFormed
<1>3. \A l \in Levels : LevelEnum(l) = l
  BY DEF LevelEnum
<1>4. CASE same # {} \/ (full /\ LevelEnum(victim.level) > level)
  <2>1. latch(k, level, reason, actor, t) = k
    BY <1>4 DEF latch
  <2>2. Covers(k.latches, k.latches)
    BY <1>1, <1>3 DEF Covers, Levels, NORMAL, PHYSICAL
  <2>3. \E m \in k.latches : LevelEnum(m.level) >= level
    <3>1. CASE same # {}
      BY <3>1, <1>3 DEF Levels, NORMAL, PHYSICAL
    <3>2. CASE full /\ LevelEnum(victim.level) > level
      <4>1. k.latches # {}
        BY <3>2, <1>2, FS_EmptySet, KillSwitchAssumption
      <4>2. victim \in k.latches
        BY <4>1, <1>1, VictimExists
      <4> QED BY <4>2, <3>2, <1>1, <1>3 DEF Levels, NORMAL, PHYSICAL
    <3> QED BY <1>4, <3>1, <3>2
  <2> QED BY <2>1, <2>2, <2>3
<1>5. CASE same = {} /\ ~(full /\ LevelEnum(victim.level) > level)
  <2>1. latch(k, level, reason, actor, t) = k2
    <3>1. latch(k, level, reason, actor, t) = bump([k EXCEPT !.latches = kept \cup {new}], t)
      BY <1>5 DEF latch
    <3> QED BY <3>1, <1>1 DEF bump
  <2>2. new \notin k.latches
    BY <1>1 DEF WellFormed
  <2>3. /\ IsFiniteSet(kept) /\ Cardinality(kept) \in Nat /\ Cardinality(kept) < MaxLatches
    <3>1. CASE full
      <4>1. k.latches # {}
        BY <3>1, <1>2, FS_EmptySet, KillSwitchAssumption
      <4>2. victim \in k.latches
        BY <4>1, <1>1, VictimExists
      <4>3. IsFiniteSet(kept) /\ Cardinality(kept) = Cardinality(k.latches) - 1
        BY <3>1, <4>2, <1>2, FS_RemoveElement
      <4>4. Cardinality(kept) \in Nat
        BY <4>3, FS_CardinalityType
      <4> QED BY <4>3, <4>4, <1>2, <3>1, KillSwitchAssumption
    <3>2. CASE ~full
      BY <3>2, <1>2, KillSwitchAssumption
    <3> QED BY <3>1, <3>2
  <2>4. IsFiniteSet(kept \cup {new}) /\ Cardinality(kept \cup {new}) = Cardinality(kept) + 1
    BY <2>2, <2>3, FS_AddElement
  <2>5. IsState(k2)
    BY <1>1 DEF IsState
  <2>6. WellFormed(k2)
    <3>1. \A l \in kept : l \in k.latches
      OBVIOUS
    <3>2. \A l \in k.latches : l.id <= k.seq /\ l.id # new.id /\ l.id \in Nat
      BY <1>1 DEF WellFormed
    <3>3. \A l \in kept \cup {new} : l.id <= k.seq + 1
      BY <3>1, <3>2, <1>1
    <3>4. \A a, b \in kept \cup {new} : a.id = b.id => a = b
      BY <3>1, <3>2, <1>1 DEF WellFormed
    <3> QED BY <2>3, <2>4, <2>5, <3>3, <3>4, KillSwitchAssumption DEF WellFormed
  <2>7. Covers(kept \cup {new}, k.latches)
    <3> SUFFICES ASSUME NEW l \in k.latches
                 PROVE  \E m \in kept \cup {new} : LevelEnum(l.level) <= LevelEnum(m.level)
      BY DEF Covers
    <3>1. CASE l \in kept
      BY <3>1, <1>1, <1>3 DEF Levels, NORMAL, PHYSICAL
    <3>2. CASE l \notin kept
      <4>1. full /\ l = victim
        BY <3>2
      <4>2. LevelEnum(l.level) <= LevelEnum(new.level)
        BY <4>1, <1>5, <1>1, <1>3 DEF Levels, NORMAL, PHYSICAL
      <4> QED BY <4>2
    <3> QED BY <3>1, <3>2
  <2>8. \E m \in kept \cup {new} : LevelEnum(m.level) >= level
    <3>1. LevelEnum(new.level) = level /\ level \in Int /\ new \in kept \cup {new}
      BY <1>3 DEF Levels, NORMAL, PHYSICAL
    <3> HIDE DEF new, kept
    <3>2. LevelEnum(new.level) >= level
      BY <3>1
    <3> QED BY <3>1, <3>2
  <2> QED BY <2>1, <2>6, <2>7, <2>8
<1> QED BY <1>4, <1>5

\* trigger is latch at a known level, HARD when the wire level makes no sense.
LEMMA TriggerLemma ==
  ASSUME NEW k, WellFormed(k), NEW raw, NEW text, NEW actor, NEW t \in Nat
  PROVE  /\ WellFormed(trigger(k, raw, text, actor, t))
         /\ Covers(trigger(k, raw, text, actor, t).latches, k.latches)
         /\ raw = HARD => \E m \in trigger(k, raw, text, actor, t).latches : LevelEnum(m.level) >= HARD
<1>1. CASE raw \in Levels \ {NORMAL}
  BY <1>1, LatchLemma DEF trigger
<1>2. CASE raw \notin Levels \ {NORMAL}
  <2>1. HARD \in Levels
    BY DEF HARD, Levels, NORMAL, PHYSICAL
  <2> QED BY <1>2, <2>1, LatchLemma DEF trigger
<1> QED BY <1>1, <1>2

-----------------------------------------------------------------------------
(* The inductive invariant.                                                *)

DiskOK == disk \in {Missing, Corrupt} \/ WellFormed(disk)

\* What ties the file to the process: a save that returned Ok left the two equal,
\* and what is on disk while no process runs is at least what is owed.
Durable ==
  /\ up => ~damaged
  /\ up /\ synced => disk = ks
  /\ ~up /\ ~damaged /\ synced => EffectiveLevel(disk.latches) >= before
  /\ ~up /\ damaged => EmptyDir \/ ~Intact(disk) \/ EffectiveLevel(disk.latches) >= HARD

Inv == Types /\ WellFormed(ks) /\ DiskOK /\ Durable

\* Covering a table never lowers its level.
LEMMA CoversLevel ==
  ASSUME NEW L, NEW M, Covers(M, L)
  PROVE  /\ EffectiveLevel(M) >= EffectiveLevel(L)
         /\ EffectiveLevel(M) \in Levels /\ EffectiveLevel(L) \in Levels
BY LevelMonotone, LevelLemma DEF Covers, Levels, NORMAL, PHYSICAL

\* A table with a HARD latch is at HARD or above.
LEMMA HardLevel ==
  ASSUME NEW L, \E m \in L : LevelEnum(m.level) >= HARD
  PROVE  EffectiveLevel(L) >= HARD
<1>1. PICK m \in L : LevelEnum(m.level) >= HARD
  OBVIOUS
<1>2. LevelEnum(m.level) <= EffectiveLevel(L) /\ EffectiveLevel(L) \in Levels
  BY LevelLemma
<1>3. LevelEnum(m.level) \in Int
  BY DEF LevelEnum, Levels, NORMAL, PHYSICAL, HARD
<1> QED BY <1>1, <1>2, <1>3 DEF Levels, NORMAL, PHYSICAL, HARD

\* Covering is transitive: what survived two steps survived both.
LEMMA CoversTransitive ==
  ASSUME NEW A, NEW B, NEW C, Covers(B, A), Covers(C, B)
  PROVE  Covers(C, A)
<1>1. \A x : LevelEnum(x) \in Int
  BY DEF LevelEnum, Levels, NORMAL, PHYSICAL, HARD
<1> SUFFICES ASSUME NEW a \in A PROVE \E c \in C : LevelEnum(a.level) <= LevelEnum(c.level)
  BY DEF Covers
<1>2. PICK b \in B : LevelEnum(a.level) <= LevelEnum(b.level)
  BY DEF Covers
<1>3. PICK c \in C : LevelEnum(b.level) <= LevelEnum(c.level)
  BY DEF Covers
<1> QED BY <1>1, <1>2, <1>3

\* A table covers itself.
LEMMA CoversItself ==
  ASSUME NEW A
  PROVE  Covers(A, A)
<1>1. \A x : LevelEnum(x) \in Int
  BY DEF LevelEnum, Levels, NORMAL, PHYSICAL, HARD
<1> QED BY <1>1 DEF Covers

\* A first boot, and a start-up without usable state, are well-formed; the second
\* is at HARD.
LEMMA FreshLemma ==
  ASSUME NEW t \in Nat
  PROVE  /\ WellFormed(fresh(t))
         /\ WellFormed(fail_closed(t))
         /\ EffectiveLevel(fail_closed(t).latches) >= HARD
<1>1. WellFormed(fresh(t))
  BY FS_EmptySet, KillSwitchAssumption DEF WellFormed, fresh, IsState
<1>2. HARD \in Levels
  BY DEF HARD, Levels, NORMAL, PHYSICAL
<1>3. /\ WellFormed(fail_closed(t))
      /\ \E m \in fail_closed(t).latches : LevelEnum(m.level) >= HARD
  BY <1>1, <1>2, LatchLemma DEF fail_closed
<1> QED BY <1>1, <1>3, HardLevel

\* Counting a state up (bump) leaves its latches alone and keeps it well-formed.
LEMMA BumpLemma ==
  ASSUME NEW k, WellFormed(k), NEW t \in Nat
  PROVE  /\ WellFormed(heartbeat(k, t)) /\ heartbeat(k, t).latches = k.latches
         /\ WellFormed(from_persisted(k)) /\ from_persisted(k).latches = k.latches
<1>1. k.seq \in Nat /\ k.hb \in Nat /\ k.upd \in Nat
      /\ k = [latches |-> k.latches, seq |-> k.seq, upd |-> k.upd, hb |-> k.hb]
      /\ \A l \in k.latches : l.id \in Nat /\ l.level \in Levels /\ l.at \in Nat
  BY DEF WellFormed, IsState
<1>2. heartbeat(k, t) = [latches |-> k.latches, seq |-> k.seq + 1, upd |-> t, hb |-> t]
  <2>1. [k EXCEPT !.hb = t] = [latches |-> k.latches, seq |-> k.seq, upd |-> k.upd, hb |-> t]
    BY <1>1
  <2>2. heartbeat(k, t) = bump([k EXCEPT !.hb = t], t)
    BY DEF heartbeat
  <2> QED BY <1>1, <2>1, <2>2 DEF bump
<1>3. from_persisted(k) = [latches |-> k.latches, seq |-> k.seq, upd |-> k.upd,
                           hb |-> IF k.hb <= 0 THEN k.upd ELSE k.hb]
  BY <1>1 DEF from_persisted
<1>4. \A l \in k.latches : l.id <= k.seq /\ l.id <= k.seq + 1
  BY <1>1 DEF WellFormed
<1>5. WellFormed(heartbeat(k, t)) /\ heartbeat(k, t).latches = k.latches
  BY <1>1, <1>2, <1>4 DEF WellFormed, IsState
<1>6. WellFormed(from_persisted(k)) /\ from_persisted(k).latches = k.latches
  BY <1>1, <1>3, <1>4 DEF WellFormed, IsState
<1> QED BY <1>5, <1>6

\* The candidate of a reset is well-formed.
LEMMA RemoveLemma ==
  ASSUME NEW k, WellFormed(k), NEW t \in Nat, NEW id
  PROVE  /\ WellFormed(reset(k, id, t))
         /\ reset(k, id, t).latches = {x \in k.latches : x.id # id}
<1> DEFINE rest == {x \in k.latches : x.id # id}
           k2   == [latches |-> rest, seq |-> k.seq + 1, upd |-> t, hb |-> k.hb]
<1>1. k.seq \in Nat /\ k.hb \in Nat /\ k.upd \in Nat
      /\ k = [latches |-> k.latches, seq |-> k.seq, upd |-> k.upd, hb |-> k.hb]
      /\ \A l \in k.latches : l.id \in Nat /\ l.level \in Levels /\ l.at \in Nat /\ l.id <= k.seq + 1
  BY DEF WellFormed, IsState
<1>2. bump([k EXCEPT !.latches = rest], t) = k2
  <2> HIDE DEF rest
  <2> QED BY <1>1 DEF bump
<1>3. IsFiniteSet(k.latches) /\ Cardinality(k.latches) <= MaxLatches
  BY DEF WellFormed
<1>4. IsFiniteSet(rest) /\ Cardinality(rest) <= Cardinality(k.latches)
  BY <1>3, FS_Subset
<1>5. Cardinality(rest) <= MaxLatches
  BY <1>3, <1>4, FS_CardinalityType, KillSwitchAssumption
<1>6. WellFormed(k2)
  BY <1>1, <1>4, <1>5 DEF WellFormed, IsState
<1> QED BY <1>2, <1>6 DEF reset

-----------------------------------------------------------------------------
(* The steps.                                                              *)

\* A handler that persists: the new state is well-formed in memory and on disk,
\* covers the state it was given, and is on disk when the save returned Ok.
LEMMA PersistLemma ==
  ASSUME Inv, NEW k, WellFormed(k), NEW t \in Nat, NEW o \in SaveOutcomes,
         PersistOrForceHard(k, o, t)
  PROVE  /\ WellFormed(ks') /\ DiskOK' /\ Covers(ks'.latches, k.latches)
         /\ published'.level \in Levels /\ synced' \in BOOLEAN
         /\ synced' => disk' = ks'
         /\ ~synced' => EffectiveLevel(ks'.latches) >= HARD
<1>1. disk' = (IF o = "failed" THEN disk ELSE k) /\ synced' = (o = "ok")
  BY DEF PersistOrForceHard, Save
<1>2. DiskOK'
  BY <1>1 DEF Inv, DiskOK
<1>3. published'.level \in Levels
  <2>1. published' = [level |-> EffectiveLevel(ks'.latches), seq |-> ks'.seq]
    BY DEF PersistOrForceHard, Publish
  <2> QED BY <2>1, LevelLemma
<1>4. CASE o = "ok"
  <2>1. ks' = k
    BY <1>4 DEF PersistOrForceHard
  <2> QED BY <1>1, <1>2, <1>3, <1>4, <2>1, CoversItself
<1>5. CASE o # "ok"
  <2>1. ks' = trigger(k, HARD, "state store write failed", STORE_FAILURE_ACTOR, t)
    BY <1>5 DEF PersistOrForceHard
  <2>2. /\ WellFormed(ks') /\ Covers(ks'.latches, k.latches)
        /\ \E m \in ks'.latches : LevelEnum(m.level) >= HARD
    BY <2>1, TriggerLemma
  <2>3. EffectiveLevel(ks'.latches) >= HARD
    BY <2>2, HardLevel
  <2> QED BY <1>1, <1>2, <1>3, <1>5, <2>2, <2>3
<1> QED BY <1>4, <1>5

\* What every handler that is not a reset shares.
KeepsLevel ==
  /\ Inv'
  /\ Covers(ks'.latches, ks.latches)

\* Every clock reading a call may hold is a natural number.
LEMMA ReadingsNat ==
  ASSUME Inv
  PROVE  Readings \subseteq Nat
BY DEF Inv, Types, Readings

\* A trigger keeps the invariant and never lowers the level (controller.rs trigger).
LEMMA TriggerStep ==
  ASSUME Inv, NEW p \in Peers, NEW x \in Texts, NEW raw \in RawLevels, NEW t \in Readings,
         NEW o \in SaveOutcomes, Trigger(p, x, raw, t, o)
  PROVE  KeepsLevel
<1>1. t \in Nat /\ WellFormed(ks)
  BY ReadingsNat DEF Inv
<1> DEFINE k == trigger(ks, raw, x, p, t)
<1>2. WellFormed(k) /\ Covers(k.latches, ks.latches)
  BY <1>1, TriggerLemma
<1>3. PersistOrForceHard(k, o, t)
  BY DEF Trigger
<1> HIDE DEF k
<1>4. /\ WellFormed(ks') /\ DiskOK' /\ Covers(ks'.latches, k.latches)
      /\ published'.level \in Levels /\ synced' \in BOOLEAN /\ (synced' => disk' = ks')
  BY <1>1, <1>2, <1>3, PersistLemma
<1>5. Covers(ks'.latches, ks.latches)
  BY <1>2, <1>4, CoversTransitive
<1>6. up /\ UNCHANGED <<now, up, booted, poisoned, warned, others, allowFresh, before, damaged, hbSeq>>
  BY DEF Trigger, Serving
<1>7. Types'
  BY <1>4, <1>6 DEF Inv, Types, DiskOK, WellFormed, Intact
<1>8. Durable'
  BY <1>4, <1>6 DEF Inv, Durable
<1> QED BY <1>4, <1>5, <1>7, <1>8 DEF KeepsLevel, Inv

\* A heartbeat keeps the invariant and the level (controller.rs heartbeat).
LEMMA HeartbeatStep ==
  ASSUME Inv, NEW t \in Readings, NEW o \in SaveOutcomes, Heartbeat(t, o)
  PROVE  KeepsLevel
<1>1. t \in Nat /\ WellFormed(ks)
  BY ReadingsNat DEF Inv
<1> DEFINE k == heartbeat(ks, t)
<1>2. WellFormed(k) /\ k.latches = ks.latches
  BY <1>1, BumpLemma
<1>3. PersistOrForceHard(k, o, t)
  BY DEF Heartbeat
<1> HIDE DEF k
<1>4. /\ WellFormed(ks') /\ DiskOK' /\ Covers(ks'.latches, k.latches)
      /\ published'.level \in Levels /\ synced' \in BOOLEAN /\ (synced' => disk' = ks')
  BY <1>1, <1>2, <1>3, PersistLemma
<1>6. /\ up /\ UNCHANGED <<now, up, booted, poisoned, others, allowFresh, before, damaged>>
      /\ warned' = FALSE /\ hbSeq' \in Nat
  <2>1. hbSeq' = ks.seq + 1 /\ ks.seq \in Nat
    BY <1>1 DEF Heartbeat, WellFormed, IsState
  <2> QED BY <2>1 DEF Heartbeat, Serving
<1>7. Types'
  BY <1>4, <1>6 DEF Inv, Types, DiskOK, WellFormed, Intact
<1>8. Durable'
  BY <1>4, <1>6 DEF Inv, Durable
<1> QED BY <1>2, <1>4, <1>7, <1>8 DEF KeepsLevel, Inv

\* The dead-man's tick that trips keeps the invariant and never lowers the level.
LEMMA TickTripStep ==
  ASSUME Inv, NEW t \in Readings, NEW o \in SaveOutcomes, TickTrip(t, o)
  PROVE  KeepsLevel
<1>1. t \in Nat /\ WellFormed(ks) /\ DEAD_MANS \in Levels
  BY ReadingsNat DEF Inv, DEAD_MANS, Levels, NORMAL, PHYSICAL
<1> DEFINE k == latch(ks, DEAD_MANS, <<"operator heartbeat missed">>, HEARTBEAT_ACTOR, t)
<1>2. WellFormed(k) /\ Covers(k.latches, ks.latches)
  BY <1>1, LatchLemma
<1>3. PersistOrForceHard(k, o, t)
  BY DEF TickTrip
<1> HIDE DEF k
<1>4. /\ WellFormed(ks') /\ DiskOK' /\ Covers(ks'.latches, k.latches)
      /\ published'.level \in Levels /\ synced' \in BOOLEAN /\ (synced' => disk' = ks')
  BY <1>1, <1>2, <1>3, PersistLemma
<1>5. Covers(ks'.latches, ks.latches)
  BY <1>2, <1>4, CoversTransitive
<1>6. up /\ UNCHANGED <<now, up, booted, poisoned, warned, others, allowFresh, before, damaged, hbSeq>>
  BY DEF TickTrip, Serving
<1>7. Types'
  BY <1>4, <1>6 DEF Inv, Types, DiskOK, WellFormed, Intact
<1>8. Durable'
  BY <1>4, <1>6 DEF Inv, Durable
<1> QED BY <1>4, <1>5, <1>7, <1>8 DEF KeepsLevel, Inv

\* The dead-man's tick that warns keeps the invariant and the level.
LEMMA TickWarnStep ==
  ASSUME Inv, NEW t \in Readings, NEW o \in SaveOutcomes, TickWarn(t, o)
  PROVE  KeepsLevel
<1>1. t \in Nat /\ WellFormed(ks)
  BY ReadingsNat DEF Inv
<1>3. PersistOrForceHard(ks, o, t)
  BY DEF TickWarn
<1>4. /\ WellFormed(ks') /\ DiskOK' /\ Covers(ks'.latches, ks.latches)
      /\ published'.level \in Levels /\ synced' \in BOOLEAN /\ (synced' => disk' = ks')
  BY <1>1, <1>3, PersistLemma
<1>6. up /\ UNCHANGED <<now, up, booted, poisoned, others, allowFresh, before, damaged, hbSeq>>
      /\ warned' = TRUE
  BY DEF TickWarn, Serving
<1>7. Types'
  BY <1>4, <1>6 DEF Inv, Types, DiskOK, WellFormed, Intact
<1>8. Durable'
  BY <1>4, <1>6 DEF Inv, Durable
<1> QED BY <1>4, <1>7, <1>8 DEF KeepsLevel, Inv

\* Seats are held by different people: two seats in a role, and seats in two
\* roles, are different signers (reset.rs seats).
LEMMA SeatsLemma ==
  ASSUME NEW a \in Seq(VerifiedApproval)
  PROVE  /\ \A r \in Roles : Seats(a, r) >= 1 => \E i \in DOMAIN a : i \in FirstSignatures(a, r)
         /\ \A r \in Roles : Seats(a, r) >= 2 =>
              \E i, j \in FirstSignatures(a, r) : a[i].who # a[j].who
         /\ \A i \in FirstSignatures(a, "operator"), j \in FirstSignatures(a, "compliance") :
              a[i].who # a[j].who
<1>1. DOMAIN a = 1..Len(a) /\ Len(a) \in Nat
  OBVIOUS
<1>2. IsFiniteSet(1..Len(a))
  BY <1>1, FS_Interval
<1>3. \A r \in Roles : IsFiniteSet(FirstSignatures(a, r))
  BY <1>1, <1>2, FS_Subset DEF FirstSignatures
<1>4. ASSUME NEW r \in Roles, Seats(a, r) >= 1
      PROVE  \E i \in DOMAIN a : i \in FirstSignatures(a, r)
  <2>1. FirstSignatures(a, r) # {}
    <3> SUFFICES ASSUME FirstSignatures(a, r) = {} PROVE FALSE
      OBVIOUS
    <3>1. Seats(a, r) = 0
      BY FS_EmptySet DEF Seats
    <3> QED BY <1>4, <3>1
  <2> QED BY <2>1 DEF FirstSignatures
<1>5. \A r \in Roles : \A i, j \in FirstSignatures(a, r) : i # j => a[i].who # a[j].who
  <2> SUFFICES ASSUME NEW r \in Roles, NEW i \in FirstSignatures(a, r),
                      NEW j \in FirstSignatures(a, r), i # j
               PROVE  a[i].who # a[j].who
    OBVIOUS
  <2>1. CASE i < j
    <3>1. i \in 1..(j - 1)
      BY <1>1, <2>1 DEF FirstSignatures
    <3> QED BY <3>1 DEF FirstSignatures
  <2>2. CASE j < i
    <3>1. j \in 1..(i - 1)
      BY <1>1, <2>2 DEF FirstSignatures
    <3> QED BY <3>1 DEF FirstSignatures
  <2> QED BY <1>1, <2>1, <2>2 DEF FirstSignatures
<1>6. ASSUME NEW r \in Roles, Seats(a, r) >= 2
      PROVE  \E i, j \in FirstSignatures(a, r) : a[i].who # a[j].who
  <2>1. \E i, j \in FirstSignatures(a, r) : i # j
    <3> SUFFICES ASSUME \A i, j \in FirstSignatures(a, r) : i = j PROVE FALSE
      OBVIOUS
    <3>1. FirstSignatures(a, r) # {}
      <4> SUFFICES ASSUME FirstSignatures(a, r) = {} PROVE FALSE
        OBVIOUS
      <4>1. Seats(a, r) = 0
        BY FS_EmptySet DEF Seats
      <4> QED BY <1>6, <4>1
    <3>2. PICK i : FirstSignatures(a, r) = {i}
      BY <3>1
    <3>3. Cardinality(FirstSignatures(a, r)) = 1
      BY <3>2, FS_Singleton
    <3> QED BY <3>3, <1>6 DEF Seats
  <2> QED BY <2>1, <1>5
<1>7. ASSUME NEW i \in FirstSignatures(a, "operator"), NEW j \in FirstSignatures(a, "compliance")
      PROVE  a[i].who # a[j].who
  <2>1. i # j
    BY DEF FirstSignatures
  <2>2. CASE i < j
    <3>1. i \in 1..(j - 1)
      BY <1>1, <2>2 DEF FirstSignatures
    <3> QED BY <3>1 DEF FirstSignatures
  <2>3. CASE j < i
    <3>1. j \in 1..(i - 1)
      BY <1>1, <2>3 DEF FirstSignatures
    <3> QED BY <3>1 DEF FirstSignatures
  <2> QED BY <1>1, <2>1, <2>2, <2>3 DEF FirstSignatures
<1> QED BY <1>4, <1>6, <1>7

\* The signatures that authorise a reset come from enough different people.
LEMMA AuthorityLemma ==
  ASSUME NEW l, NEW hb, NEW a \in Seq(VerifiedApproval), NEW root, Authorized(l, hb, a, root),
         NEW r, r.level = LevelEnum(l.level), r.root = root,
         r.ops = Signers(a, "operator"), r.comp = Signers(a, "compliance")
  PROVE  Sufficient(r)
<1>1. \A role \in Roles : \A i \in FirstSignatures(a, role) : a[i].who \in Signers(a, role)
  BY DEF FirstSignatures, Signers
<1>2. "operator" \in Roles /\ "compliance" \in Roles
  BY DEF Roles
<1>3. LevelEnum(l.level) \in {0, 1, 2, 3, 4, 5}
  BY DEF LevelEnum, Levels, NORMAL, PHYSICAL, HARD
<1>4. ASSUME Seats(a, "operator") >= 1
      PROVE  \E p \in r.ops : TRUE
  BY <1>1, <1>2, <1>4, SeatsLemma
<1>5. ASSUME Seats(a, "operator") >= 2
      PROVE  \E p, q \in r.ops : p # q
  BY <1>1, <1>2, <1>5, SeatsLemma
<1>6. ASSUME Seats(a, "operator") >= 2, Seats(a, "compliance") >= 1
      PROVE  \E p, q \in r.ops, c \in r.comp : p # q /\ p # c /\ q # c
  <2>1. PICK i, j \in FirstSignatures(a, "operator") : a[i].who # a[j].who
    BY <1>2, <1>6, SeatsLemma
  <2>2. PICK c \in FirstSignatures(a, "compliance") : TRUE
    BY <1>2, <1>6, SeatsLemma
  <2>3. a[i].who # a[c].who /\ a[j].who # a[c].who
    BY SeatsLemma
  <2> QED BY <1>1, <1>2, <2>1, <2>2, <2>3
<1> DEFINE need == Requirement(LevelEnum(l.level))
<1>7. /\ Seats(a, "operator") >= need.operators
      /\ Seats(a, "compliance") >= need.compliance
      /\ need.root => root
  BY DEF Authorized
<1>8. CASE LevelEnum(l.level) \in {SOFT, DEAD_MANS}
  <2>1. need.operators = 1
    BY <1>8 DEF Requirement
  <2> QED BY <1>4, <1>7, <1>8, <2>1 DEF Sufficient, SOFT, LOGIC, DEAD_MANS
<1>9. CASE LevelEnum(l.level) = LOGIC
  <2>1. LevelEnum(l.level) \notin {SOFT, DEAD_MANS}
    BY <1>9 DEF SOFT, LOGIC, DEAD_MANS
  <2>2. need.operators = 2 /\ need.root
    BY <2>1 DEF Requirement
  <2> QED BY <1>5, <1>7, <1>9, <2>2 DEF Sufficient, SOFT, LOGIC, DEAD_MANS
<1>10. CASE LevelEnum(l.level) \notin {SOFT, LOGIC, DEAD_MANS}
  <2>1. need.operators = 2 /\ need.compliance = 1 /\ need.root
    BY <1>10 DEF Requirement
  <2> QED BY <1>6, <1>7, <1>10, <2>1 DEF Sufficient
<1> QED BY <1>8, <1>9, <1>10

\* A reset keeps the invariant; only an authorised one lowers the level (controller.rs reset).
LEMMA ResetStep ==
  ASSUME Inv, NEW m \in ks.latches, NEW a \in Requests, NEW root \in BOOLEAN, NEW t \in Readings,
         NEW auditOk \in BOOLEAN, NEW o \in SaveOutcomes, Reset(m.id, a, root, t, auditOk, o)
  PROVE  /\ Inv'
         /\ \/ ks' = ks
            \/ /\ lastReset' # NoReset
               /\ Sufficient(lastReset')
               /\ EffectiveLevel(ks'.latches) < EffectiveLevel(ks.latches)
                    => lastReset'.level = EffectiveLevel(ks.latches)
<1>1. t \in Nat /\ WellFormed(ks) /\ a \in Seq(VerifiedApproval)
  BY ReadingsNat, KillSwitchAssumption DEF Inv
<1> DEFINE cand == reset(ks, m.id, t)
<1>2. WellFormed(cand) /\ cand.latches = {x \in ks.latches : x.id # m.id}
  BY <1>1, RemoveLemma
<1>3. PICK l \in ks.latches :
        /\ l.id = m.id
        /\ Authorized(l, ks.hb, a, root)
        /\ Save(cand, o)
        /\ IF o = "ok"
           THEN /\ ks' = cand
                /\ Publish(cand)
                /\ lastReset' = [level |-> LevelEnum(l.level), at |-> l.at, id |-> m.id,
                                 ops |-> Signers(a, "operator"),
                                 comp |-> Signers(a, "compliance"), root |-> root]
           ELSE UNCHANGED <<ks, published>>
  BY DEF Reset
<1> HIDE DEF cand
<1>4. up /\ UNCHANGED <<now, up, booted, poisoned, warned, others, allowFresh, before, damaged, hbSeq>>
  BY DEF Reset, Serving
<1>5. disk' = (IF o = "failed" THEN disk ELSE cand) /\ synced' = (o = "ok")
  BY <1>3 DEF Save
<1>6. DiskOK'
  BY <1>2, <1>5 DEF Inv, DiskOK
<1>7. CASE o = "ok"
  <2>1. ks' = cand /\ disk' = cand /\ synced'
    BY <1>3, <1>5, <1>7
  <2>2. published'.level \in Levels
    BY <1>3, <1>7, LevelLemma DEF Publish
  <2>3. Types'
    BY <1>2, <1>4, <1>5, <2>1, <2>2 DEF Inv, Types, WellFormed
  <2>4. Durable'
    BY <1>4, <2>1 DEF Inv, Durable
  <2>5. Sufficient(lastReset')
    BY <1>1, <1>3, <1>7, AuthorityLemma
  <2>6. lastReset' # NoReset
    <3>2. \E p \in lastReset'.ops : TRUE
      BY <2>5 DEF Sufficient
    <3> QED BY <3>2 DEF NoReset
  <2>7. ASSUME EffectiveLevel(ks'.latches) < EffectiveLevel(ks.latches)
        PROVE  lastReset'.level = EffectiveLevel(ks.latches)
    <3>1. EffectiveLevel(ks.latches) \in Levels /\ EffectiveLevel(ks'.latches) \in Levels
      BY LevelLemma
    <3>2. EffectiveLevel(ks.latches) # NORMAL
      BY <2>7, <3>1 DEF Levels, NORMAL, PHYSICAL
    <3>3. PICK s \in ks.latches : LevelEnum(s.level) = EffectiveLevel(ks.latches)
      BY <3>2, LevelLemma
    <3>4. CASE s.id # m.id
      <4>1. s \in ks'.latches
        BY <3>4, <1>2, <2>1
      <4>2. LevelEnum(s.level) <= EffectiveLevel(ks'.latches)
        BY <4>1, LevelLemma
      <4> QED BY <2>7, <3>1, <3>3, <4>2 DEF Levels, NORMAL, PHYSICAL
    <3>5. CASE s.id = m.id
      <4>1. s = l
        BY <3>5, <1>1, <1>3 DEF WellFormed
      <4> QED BY <3>3, <4>1, <1>3, <1>7
    <3> QED BY <3>4, <3>5
  <2> QED BY <1>2, <1>6, <2>1, <2>3, <2>4, <2>5, <2>6, <2>7 DEF Inv
<1>8. CASE o # "ok"
  <2>1. ks' = ks /\ published' = published /\ synced' = FALSE
    BY <1>3, <1>5, <1>8
  <2>2. Types'
    BY <1>4, <1>6, <2>1 DEF Inv, Types, DiskOK, WellFormed, Intact
  <2>3. Durable'
    BY <1>4, <2>1 DEF Inv, Durable
  <2> QED BY <1>1, <1>6, <2>1, <2>2, <2>3 DEF Inv
<1> QED BY <1>7, <1>8

\* What the store gives a starting process: well-formed, and at least the level
\* that is owed.
LEMMA LoadedLemma ==
  ASSUME Inv, ~up, MayStart, NEW t \in Nat
  PROVE  /\ WellFormed(Loaded(t))
         /\ Intact(disk) => Loaded(t).latches = disk.latches
         /\ ~Intact(disk) /\ ~EmptyDir => EffectiveLevel(Loaded(t).latches) >= HARD
<1>1. CASE Intact(disk)
  <2>1. WellFormed(disk)
    BY <1>1 DEF Inv, DiskOK, Intact
  <2>2. Loaded(t) = from_persisted(disk)
    BY <1>1 DEF Loaded
  <2> QED BY <1>1, <2>1, <2>2, BumpLemma
<1>2. CASE ~Intact(disk)
  BY <1>2, FreshLemma DEF Loaded
<1> QED BY <1>1, <1>2

Owed == IF damaged THEN HARD ELSE IF synced THEN before ELSE NORMAL

\* A start comes up at the level that is owed, unless an operator allowed a new directory.
LEMMA OwedLemma ==
  ASSUME Inv, ~up, NEW t \in Nat, MayStart
  PROVE  \/ EffectiveLevel(Loaded(t).latches) >= Owed
         \/ EmptyDir /\ (Production => allowFresh)
<1>1. CASE EmptyDir
  BY <1>1 DEF MayStart
<1>2. CASE ~EmptyDir /\ ~Intact(disk)
  <2>1. EffectiveLevel(Loaded(t).latches) >= HARD /\ EffectiveLevel(Loaded(t).latches) \in Levels
    BY <1>2, LoadedLemma, LevelLemma
  <2>2. CASE damaged
    BY <2>1, <2>2 DEF Owed
  <2>3. CASE ~damaged /\ synced
    <3>1. disk.latches = {}
      BY <1>2 DEF Intact, Missing, Corrupt
    <3>2. EffectiveLevel({}) = NORMAL
      BY LevelLemma
    <3>3. EffectiveLevel(disk.latches) >= before /\ before \in Levels
      BY <2>3 DEF Inv, Durable, Types
    <3> QED BY <2>1, <2>3, <3>1, <3>2, <3>3 DEF Owed, Levels, NORMAL, PHYSICAL, HARD
  <2>4. CASE ~damaged /\ ~synced
    BY <2>1, <2>4 DEF Owed, Levels, NORMAL, PHYSICAL
  <2> QED BY <2>2, <2>3, <2>4
<1>3. CASE ~EmptyDir /\ Intact(disk)
  <2>1. Loaded(t).latches = disk.latches /\ EffectiveLevel(disk.latches) \in Levels
    BY <1>3, LoadedLemma, LevelLemma
  <2>2. CASE damaged
    BY <1>3, <2>1, <2>2 DEF Owed, Inv, Durable
  <2>3. CASE ~damaged /\ synced
    BY <2>1, <2>3 DEF Owed, Inv, Durable
  <2>4. CASE ~damaged /\ ~synced
    BY <2>1, <2>4 DEF Owed, Levels, NORMAL, PHYSICAL
  <2> QED BY <2>2, <2>3, <2>4
<1> QED BY <1>1, <1>2, <1>3

\* Starting keeps the invariant, and comes up at the level that is owed.
LEMMA StartStep ==
  ASSUME Inv, NEW t \in Nat, NEW o \in SaveOutcomes, NEW o2 \in SaveOutcomes,
         NEW walOk \in BOOLEAN, NEW lost \in BOOLEAN, Start(t, o, walOk, lost, o2)
  PROVE  /\ Inv'
         /\ up' => \/ EffectiveLevel(ks'.latches) >= Owed
                   \/ EmptyDir /\ (Production => allowFresh)
<1> DEFINE ld == Loaded(t)
           k  == Initial(t, o)
           d  == IF o # "failed" THEN ld ELSE IF disk = Corrupt THEN Missing ELSE disk
           k2 == trigger(k, HARD, "start-up: state unavailable", STARTUP_ACTOR, t)
           k3 == trigger(k2, HARD, "state store write failed", STORE_FAILURE_ACTOR, t)
<1>1. ~up /\ MayStart
  BY DEF Start
<1>2. WellFormed(ld)
  BY <1>1, LoadedLemma
<1>3. WellFormed(k) /\ Covers(k.latches, ld.latches) /\ (o = "ok" => k = ld)
  BY <1>2, TriggerLemma, CoversItself DEF Initial
<1>4. WellFormed(k2) /\ Covers(k2.latches, k.latches)
  <2> HIDE DEF k
  <2> QED BY <1>3, TriggerLemma
<1>5. WellFormed(k3) /\ Covers(k3.latches, k2.latches)
  <2> HIDE DEF k2
  <2> QED BY <1>4, TriggerLemma
<1>6. d \in {Missing, Corrupt} \/ WellFormed(d)
  BY <1>2 DEF Inv, DiskOK
<1>7. /\ lastReset' = NoReset /\ warned' = FALSE /\ poisoned' = FALSE
      /\ UNCHANGED <<now, allowFresh, audited>>
  BY DEF Start
<1>8. CASE walOk \/ ~AuditMandatory
  <2>1. /\ IF lost
           THEN /\ disk' = IF o2 = "failed" THEN d ELSE k2
                /\ synced' = (o2 = "ok")
                /\ ks' = IF o2 = "ok" THEN k2 ELSE k3
           ELSE /\ disk' = d
                /\ synced' = (o = "ok")
                /\ ks' = k
        /\ Publish(ks') /\ up' = TRUE /\ booted' = t
        /\ others' = (others \/ disk = Corrupt \/ walOk)
        /\ before' = NORMAL /\ damaged' = FALSE
        /\ hbSeq' = IF Intact(disk) THEN hbSeq ELSE 0
    BY <1>8 DEF Start
  <2> HIDE DEF k, k2, k3, ld
  <2>2. WellFormed(ks') /\ Covers(ks'.latches, ld.latches)
    BY <1>3, <1>4, <1>5, <2>1, CoversTransitive
  <2>3. DiskOK'
    BY <1>4, <1>6, <2>1 DEF DiskOK
  <2>4. synced' => disk' = ks'
    BY <1>3, <2>1
  <2>5. published'.level \in Levels
    BY <2>1, LevelLemma DEF Publish
  <2>6. Types'
    <3>1. synced' \in BOOLEAN /\ others' \in BOOLEAN /\ hbSeq' \in Nat /\ before' \in Levels
      <4>1. synced' \in BOOLEAN
        BY <2>1, Zenon
      <4>2. others' \in BOOLEAN
        BY <2>1, Zenon
      <4>3. hbSeq' \in Nat
        BY <2>1 DEF Inv, Types
      <4>4. before' \in Levels
        BY <2>1 DEF Levels, NORMAL, PHYSICAL
      <4> QED BY <4>1, <4>2, <4>3, <4>4
    <3>2. IsState(ks') /\ (Intact(disk') => IsState(disk'))
      BY <2>2, <2>3 DEF DiskOK, WellFormed, Intact
    <3> QED BY <1>7, <2>1, <2>5, <3>1, <3>2 DEF Inv, Types
  <2>7. Durable'
    BY <2>1, <2>4 DEF Durable
  <2>8. \/ EffectiveLevel(ks'.latches) >= Owed
        \/ EmptyDir /\ (Production => allowFresh)
    <3>1. EffectiveLevel(ks'.latches) >= EffectiveLevel(ld.latches)
          /\ EffectiveLevel(ks'.latches) \in Levels /\ EffectiveLevel(ld.latches) \in Levels
      BY <2>2, CoversLevel
    <3>2. Owed \in Levels
      BY DEF Owed, Inv, Types, Levels, NORMAL, HARD, PHYSICAL
    <3>3. \/ EffectiveLevel(ld.latches) >= Owed
          \/ EmptyDir /\ (Production => allowFresh)
      BY <1>1, OwedLemma DEF ld
    <3> QED BY <3>1, <3>2, <3>3 DEF Levels, NORMAL, PHYSICAL
  <2> QED BY <2>2, <2>3, <2>6, <2>7, <2>8 DEF Inv
<1>9. CASE ~(walOk \/ ~AuditMandatory)
  <2>1. /\ disk' = d
        /\ others' = (others \/ disk = Corrupt)
        /\ before' = (IF EmptyDir THEN NORMAL ELSE before)
        /\ damaged' = (damaged /\ ~EmptyDir)
        /\ UNCHANGED <<ks, published, up, booted, synced, hbSeq>>
    BY <1>9 DEF Start
  <2>2. DiskOK'
    BY <1>6, <2>1 DEF DiskOK
  <2>3. Types'
    <3>1. others' \in BOOLEAN /\ damaged' \in BOOLEAN /\ before' \in Levels
      BY <2>1 DEF Inv, Types, Levels, NORMAL, PHYSICAL
    <3>2. Intact(disk') => IsState(disk')
      BY <2>2 DEF DiskOK, WellFormed, Intact
    <3> QED BY <1>7, <2>1, <3>1, <3>2 DEF Inv, Types
  <2>4. EffectiveLevel(d.latches) \in Levels /\ EffectiveLevel(disk.latches) \in Levels
        /\ EffectiveLevel({}) = NORMAL /\ before \in Levels
    BY LevelLemma DEF Inv, Types
  <2>5. ~Intact(disk) => disk.latches = {}
    BY DEF Intact, Missing, Corrupt
  <2>6. ASSUME ~damaged', synced' PROVE EffectiveLevel(disk'.latches) >= before'
    <3>1. CASE EmptyDir
      BY <2>1, <2>4, <3>1 DEF Levels, NORMAL, PHYSICAL
    <3>2. CASE ~EmptyDir
      <4>1. ~damaged /\ synced /\ EffectiveLevel(disk.latches) >= before /\ before' = before
        BY <1>1, <2>1, <2>6, <3>2 DEF Inv, Durable
      <4>2. CASE Intact(disk)
        <5>1. d.latches = disk.latches
          BY <4>2, <1>1, LoadedLemma DEF Intact
        <5> QED BY <2>1, <4>1, <5>1
      <4>3. CASE ~Intact(disk)
        BY <2>1, <2>4, <2>5, <4>1, <4>3 DEF Levels, NORMAL, PHYSICAL
      <4> QED BY <4>2, <4>3
    <3> QED BY <3>1, <3>2
  <2>7. ASSUME damaged' PROVE ~Intact(disk') \/ EffectiveLevel(disk'.latches) >= HARD
    <3>1. damaged /\ ~EmptyDir
      BY <2>1, <2>7
    <3>2. CASE Intact(disk)
      <4>1. d.latches = disk.latches
        BY <3>2, <1>1, LoadedLemma DEF Intact
      <4>2. EffectiveLevel(disk.latches) >= HARD
        BY <3>1, <3>2, <1>1 DEF Inv, Durable
      <4> QED BY <2>1, <4>1, <4>2
    <3>3. CASE ~Intact(disk) /\ o # "failed"
      <4>1. EffectiveLevel(ld.latches) >= HARD
        BY <3>1, <3>3, <1>1, LoadedLemma
      <4> QED BY <2>1, <3>3, <4>1
    <3>4. CASE ~Intact(disk) /\ o = "failed"
      BY <2>1, <3>4 DEF Intact
    <3> QED BY <3>2, <3>3, <3>4
  <2>8. Durable'
    BY <1>1, <2>1, <2>6, <2>7 DEF Durable
  <2>9. WellFormed(ks') /\ ~up'
    BY <1>1, <2>1 DEF Inv
  <2> QED BY <2>2, <2>3, <2>8, <2>9 DEF Inv
<1> QED BY <1>8, <1>9

\* A crash keeps the invariant: what was owed is still on disk.
LEMMA CrashStep ==
  ASSUME Inv, Crash
  PROVE  Inv' /\ ~up'
<1>1. WellFormed(fresh(0))
  BY FreshLemma
<1>2. EffectiveLevel(ks.latches) \in Levels
  BY LevelLemma
<1>3. /\ up /\ up' = FALSE /\ before' = EffectiveLevel(ks.latches) /\ ks' = fresh(0)
      /\ published' = [level |-> NORMAL, seq |-> 0] /\ booted' = 0 /\ warned' = FALSE
      /\ poisoned' = FALSE
      /\ UNCHANGED <<now, disk, others, allowFresh, synced, damaged, hbSeq>>
  BY DEF Crash
<1>4. WellFormed(ks') /\ DiskOK'
  BY <1>1, <1>3 DEF Inv, DiskOK
<1>5. published'.level \in Levels
  BY <1>3 DEF Levels, NORMAL, PHYSICAL
<1>6. Types'
  BY <1>2, <1>3, <1>4, <1>5 DEF Inv, Types, WellFormed
<1>7. Durable'
  BY <1>2, <1>3 DEF Inv, Durable, Levels, NORMAL, PHYSICAL
<1> QED BY <1>3, <1>4, <1>6, <1>7 DEF Inv

\* Losing or damaging a file keeps the invariant.
LEMMA DamageStep ==
  ASSUME Inv, Damage
  PROVE  Inv' /\ ~up'
<1>1. ~up /\ UNCHANGED <<now, up, booted, poisoned, ks, warned, published, synced, before, hbSeq>>
  BY DEF Damage
<1>2. ~Intact(Missing) /\ ~Intact(Corrupt)
  BY DEF Intact
<1>3. CASE disk' \in {Corrupt, Missing} /\ damaged' = TRUE /\ others' \in BOOLEAN /\ UNCHANGED allowFresh
  <2>1. DiskOK' /\ ~Intact(disk')
    BY <1>2, <1>3 DEF DiskOK
  <2>2. Types'
    BY <1>1, <1>3, <2>1 DEF Inv, Types
  <2>3. Durable'
    BY <1>1, <1>3, <2>1 DEF Durable
  <2> QED BY <1>1, <2>1, <2>2, <2>3 DEF Inv
<1>4. CASE allowFresh' = ~allowFresh /\ UNCHANGED <<disk, others, damaged>>
  <2>1. Types'
    BY <1>1, <1>4 DEF Inv, Types
  <2>2. Durable' /\ DiskOK' /\ WellFormed(ks')
    BY <1>1, <1>4 DEF Inv, Durable, DiskOK, EmptyDir
  <2> QED BY <1>1, <2>1, <2>2 DEF Inv
<1> QED BY <1>3, <1>4 DEF Damage, Inv, Types

\* Poisoning, the clock and stuttering keep the invariant and the table.
LEMMA QuietStep ==
  ASSUME Inv, Poison \/ ClockAdvance \/ UNCHANGED vars
  PROVE  Inv' /\ up' = up /\ ks' = ks
<1>1. UNCHANGED <<up, booted, ks, warned, published, disk, others, allowFresh, synced, before,
                  damaged, hbSeq>>
  BY DEF Poison, ClockAdvance, vars
<1>2. now' \in Nat /\ poisoned' \in BOOLEAN
  <2>1. now' = now \/ now' = now + 1
    BY DEF Poison, ClockAdvance, vars
  <2>2. poisoned' = poisoned \/ poisoned' = TRUE
    BY DEF Poison, ClockAdvance, vars
  <2>3. now \in Nat /\ poisoned \in BOOLEAN
    BY DEF Inv, Types
  <2>4. now' \in Nat
    BY <2>1, <2>3
  <2>5. poisoned' \in BOOLEAN
    BY <2>2, <2>3, Zenon
  <2> QED BY <2>4, <2>5
<1>3. Types'
  BY <1>1, <1>2 DEF Inv, Types
<1>4. Durable' /\ DiskOK' /\ WellFormed(ks')
  BY <1>1 DEF Inv, Durable, DiskOK, EmptyDir
<1> QED BY <1>1, <1>3, <1>4 DEF Inv

\* The initial states satisfy the invariant.
LEMMA InitInv == Init => Inv
<1> SUFFICES ASSUME Init PROVE Inv
  OBVIOUS
<1>1. WellFormed(ks) /\ ks = fresh(0)
  BY FreshLemma DEF Init
<1>2. EffectiveLevel({}) = NORMAL
  BY LevelLemma
<1>3. Types
  <2>1. ~Intact(disk)
    BY DEF Init, Intact
  <2>2. published.level \in Levels /\ before \in Levels
    BY DEF Init, Levels, NORMAL, PHYSICAL
  <2> QED BY <1>1, <2>1, <2>2 DEF Init, Types, WellFormed
<1>4. DiskOK
  BY DEF Init, DiskOK
<1>5. Durable
  BY <1>2 DEF Init, Durable, Missing, NORMAL
<1> QED BY <1>1, <1>3, <1>4, <1>5 DEF Inv

\* What one step may do to the level of a running process.
LevelStep ==
  (up /\ up' /\ EffectiveLevel(ks'.latches) < EffectiveLevel(ks.latches))
     => /\ lastReset' # NoReset
        /\ lastReset'.level = EffectiveLevel(ks.latches)
        /\ Sufficient(lastReset')

\* What a start must come up with.
OwedStep ==
  (~up /\ up') =>
     \/ EffectiveLevel(ks'.latches) >=
          (IF damaged THEN HARD ELSE IF synced THEN before ELSE NORMAL)
     \/ EmptyDir /\ (Production => allowFresh)

\* A table that covers the old one allows the step: the level did not fall.
LEMMA KeepsLevelStep ==
  ASSUME KeepsLevel
  PROVE  LevelStep
<1>1. EffectiveLevel(ks'.latches) >= EffectiveLevel(ks.latches)
      /\ EffectiveLevel(ks'.latches) \in Levels /\ EffectiveLevel(ks.latches) \in Levels
  BY CoversLevel DEF KeepsLevel
<1> QED BY <1>1 DEF LevelStep, Levels, NORMAL, PHYSICAL

\* A step that leaves the table alone leaves the level alone.
LEMMA SameLevelStep ==
  ASSUME ks' = ks
  PROVE  LevelStep
<1>1. EffectiveLevel(ks.latches) \in Levels
  BY LevelLemma
<1> QED BY <1>1 DEF LevelStep, Levels, NORMAL, PHYSICAL

\* Every step keeps the invariant.
LEMMA NextInv ==
  ASSUME Inv, [Next]_vars
  PROVE  Inv' /\ LevelStep /\ OwedStep
<1>1. CASE \E p \in Peers, x \in Texts, raw \in RawLevels, t \in Readings, o \in SaveOutcomes :
             Trigger(p, x, raw, t, o)
  <2>1. KeepsLevel
    BY <1>1, TriggerStep
  <2>2. up
    BY <1>1 DEF Trigger, Serving
  <2> QED BY <2>1, <2>2, KeepsLevelStep DEF KeepsLevel, OwedStep
<1>2. CASE \E t \in Readings, o \in SaveOutcomes : Heartbeat(t, o)
  <2>1. KeepsLevel
    BY <1>2, HeartbeatStep
  <2>2. up
    BY <1>2 DEF Heartbeat, Serving
  <2> QED BY <2>1, <2>2, KeepsLevelStep DEF KeepsLevel, OwedStep
<1>3. CASE \E t \in Readings, o \in SaveOutcomes : TickTrip(t, o)
  <2>1. KeepsLevel
    BY <1>3, TickTripStep
  <2>2. up
    BY <1>3 DEF TickTrip, Serving
  <2> QED BY <2>1, <2>2, KeepsLevelStep DEF KeepsLevel, OwedStep
<1>4. CASE \E t \in Readings, o \in SaveOutcomes : TickWarn(t, o)
  <2>1. KeepsLevel
    BY <1>4, TickWarnStep
  <2>2. up
    BY <1>4 DEF TickWarn, Serving
  <2> QED BY <2>1, <2>2, KeepsLevelStep DEF KeepsLevel, OwedStep
<1>5. CASE \E l \in ks.latches, approvals \in Requests, root \in BOOLEAN, t \in Readings,
              auditOk \in BOOLEAN, o \in SaveOutcomes : Reset(l.id, approvals, root, t, auditOk, o)
  <2>1. /\ Inv'
        /\ \/ ks' = ks
           \/ /\ lastReset' # NoReset
              /\ Sufficient(lastReset')
              /\ EffectiveLevel(ks'.latches) < EffectiveLevel(ks.latches)
                   => lastReset'.level = EffectiveLevel(ks.latches)
    BY <1>5, ResetStep
  <2>2. up
    BY <1>5 DEF Reset, Serving
  <2>3. LevelStep
    BY <2>1, SameLevelStep DEF LevelStep
  <2> QED BY <2>1, <2>2, <2>3 DEF OwedStep
<1>6. CASE \E t \in {now} \cup {z \in {0} : "clock" \in Faults}, o, o2 \in SaveOutcomes,
              walOk, lost \in BOOLEAN :
             /\ "wal" \in Faults \/ walOk
             /\ "lost" \in Faults \/ ~lost
             /\ Start(t, o, walOk, lost, o2)
  <2>1. now \in Nat
    BY DEF Inv, Types
  <2>2. PICK t \in Nat, o \in SaveOutcomes, o2 \in SaveOutcomes, walOk \in BOOLEAN, lost \in BOOLEAN :
          Start(t, o, walOk, lost, o2)
    BY <1>6, <2>1
  <2>3. /\ Inv'
        /\ up' => \/ EffectiveLevel(ks'.latches) >= Owed
                  \/ EmptyDir /\ (Production => allowFresh)
    BY <2>2, StartStep
  <2>4. ~up
    BY <2>2 DEF Start
  <2> QED BY <2>3, <2>4 DEF LevelStep, OwedStep, Owed
<1>7. CASE Crash
  BY <1>7, CrashStep DEF LevelStep, OwedStep
<1>8. CASE Damage
  BY <1>8, DamageStep DEF LevelStep, OwedStep
<1>9. CASE Poison \/ ClockAdvance \/ UNCHANGED vars
  <2>1. Inv' /\ up' = up /\ ks' = ks
    BY <1>9, QuietStep
  <2> QED BY <2>1, SameLevelStep DEF OwedStep
<1> QED BY <1>1, <1>2, <1>3, <1>4, <1>5, <1>6, <1>7, <1>8, <1>9 DEF Next

-----------------------------------------------------------------------------
(* The theorems.                                                           *)

\* The inductive invariant holds: types, well-formed latch tables in memory and on
\* disk, and the tie between the file and the process.
THEOREM Invariance == Spec => []Inv
<1>1. Init => Inv
  BY InitInv
<1>2. Inv /\ [Next]_vars => Inv'
  BY NextInv
<1> QED BY <1>1, <1>2, PTL DEF Spec

\* For every cap, the latch table stays within it in memory and on disk, through
\* eviction, failed saves and restarts (mod.rs latch, store.rs decode).
LEMMA TableBounded == Spec => []LatchTableBounded
<1>1. Inv => LatchTableBounded
  <2> SUFFICES ASSUME Inv PROVE LatchTableBounded
    OBVIOUS
  <2>1. Cardinality(ks.latches) <= MaxLatches
    BY DEF Inv, WellFormed
  <2>2. CASE WellFormed(disk)
    BY <2>1, <2>2 DEF LatchTableBounded, WellFormed
  <2>3. CASE disk \in {Missing, Corrupt}
    <3>1. disk.latches = {}
      BY <2>3 DEF Missing, Corrupt
    <3>2. Cardinality(disk.latches) = 0
      BY <3>1, FS_EmptySet
    <3> QED BY <2>1, <3>2, KillSwitchAssumption DEF LatchTableBounded
  <2> QED BY <2>2, <2>3 DEF Inv, DiskOK
<1> QED BY <1>1, Invariance, PTL

\* Type correctness of the kill switch, the cap of the latch table included, for
\* every cap and through eviction, failed saves and restarts (mod.rs, store.rs).
THEOREM TypeCorrect == Spec => []TypeOK
<1>1. Inv => Types
  BY DEF Inv
<1>2. Types /\ LatchTableBounded => TypeOK
  BY DEF TypeOK
<1> QED BY <1>1, <1>2, Invariance, TableBounded, PTL

\* The level of a running process falls only by a reset that enough different
\* people signed, whatever the cap, the trips and the failures (mod.rs, reset.rs,
\* controller.rs).
THEOREM LevelFalls == Spec => LevelFallsOnlyByReset
<1>1. Inv /\ [Next]_vars =>
        [(up /\ up' /\ EffectiveLevel(ks'.latches) < EffectiveLevel(ks.latches))
           => /\ lastReset' # NoReset
              /\ lastReset'.level = EffectiveLevel(ks.latches)
              /\ Sufficient(lastReset')]_vars
  BY NextInv DEF LevelStep
<1> QED BY <1>1, Invariance, PTL DEF Spec, LevelFallsOnlyByReset

\* A process comes up at the level it owes, for every sequence of crashes, failed
\* saves and damage to the state directory (store.rs load, controller.rs start).
THEOREM StartsOwed == Spec => StartsAtOwedLevel
<1>1. Inv /\ [Next]_vars =>
        [(~up /\ up') =>
           \/ EffectiveLevel(ks'.latches) >=
                (IF damaged THEN HARD ELSE IF synced THEN before ELSE NORMAL)
           \/ EmptyDir /\ (Production => allowFresh)]_vars
  BY NextInv DEF OwedStep
<1> QED BY <1>1, Invariance, PTL DEF Spec, StartsAtOwedLevel

-----------------------------------------------------------------------------
(* How a latch leaves the table.                                           *)

\* new is old after pushes at the time t: what is new has a later id and that time,
\* and what left a full table left room for something at least as strong.
Pushed(new, old, t) ==
  /\ new.seq >= old.seq /\ new.hb = old.hb
  /\ Cardinality(new.latches) >= Cardinality(old.latches)
  /\ \A n \in new.latches \ old.latches : n.id > old.seq /\ n.at = t
  /\ \A l \in old.latches \ new.latches :
       /\ Cardinality(new.latches) = MaxLatches
       /\ \E n \in new.latches \ old.latches : LevelEnum(n.level) >= LevelEnum(l.level)

\* No push at all.
LEMMA PushedItself == ASSUME NEW k, WellFormed(k), NEW t PROVE Pushed(k, k, t)
<1>1. k.seq \in Nat /\ Cardinality(k.latches) \in Nat
  BY FS_CardinalityType DEF WellFormed, IsState
<1> QED BY <1>1 DEF Pushed

\* One push (mod.rs latch).
LEMMA LatchPushed ==
  ASSUME NEW k, WellFormed(k), NEW level \in Levels, NEW reason, NEW actor, NEW t \in Nat
  PROVE  Pushed(latch(k, level, reason, actor, t), k, t)
<1> DEFINE same   == {l \in k.latches : l.level = level /\ l.reason = reason /\ l.actor = actor}
           full   == Cardinality(k.latches) >= MaxLatches
           victim == Victim(k.latches)
           kept   == IF full THEN k.latches \ {victim} ELSE k.latches
           new    == [id |-> k.seq + 1, level |-> level, reason |-> reason, actor |-> actor, at |-> t]
           k2     == [latches |-> kept \cup {new}, seq |-> k.seq + 1, upd |-> t, hb |-> k.hb]
<1>1. k.seq \in Nat /\ k.hb \in Nat /\ k.upd \in Nat
      /\ k = [latches |-> k.latches, seq |-> k.seq, upd |-> k.upd, hb |-> k.hb]
      /\ \A l \in k.latches : l.id \in Nat /\ l.level \in Levels /\ l.at \in Nat
  BY DEF WellFormed, IsState
<1>2. IsFiniteSet(k.latches) /\ Cardinality(k.latches) \in Nat /\ Cardinality(k.latches) <= MaxLatches
  BY FS_CardinalityType DEF WellFormed
<1>3. CASE same # {} \/ (full /\ LevelEnum(victim.level) > level)
  <2>1. latch(k, level, reason, actor, t) = k
    BY <1>3 DEF latch
  <2> QED BY <2>1, PushedItself
<1>4. CASE same = {} /\ ~(full /\ LevelEnum(victim.level) > level)
  <2>1. latch(k, level, reason, actor, t) = k2
    <3>1. latch(k, level, reason, actor, t) = bump([k EXCEPT !.latches = kept \cup {new}], t)
      BY <1>4 DEF latch
    <3> QED BY <3>1, <1>1 DEF bump
  <2>2. new \notin k.latches
    BY <1>1 DEF WellFormed
  <2>3. CASE full
    <3>1. k.latches # {}
      BY <2>3, <1>2, FS_EmptySet, KillSwitchAssumption
    <3>2. victim \in k.latches
      BY <3>1, <1>1, VictimExists
    <3>3. IsFiniteSet(kept) /\ Cardinality(kept) = Cardinality(k.latches) - 1
      BY <2>3, <3>2, <1>2, FS_RemoveElement
    <3>4. Cardinality(kept \cup {new}) = Cardinality(kept) + 1
      BY <2>2, <3>3, FS_AddElement
    <3>5. Cardinality(k2.latches) = Cardinality(k.latches) /\ Cardinality(k.latches) = MaxLatches
      <4>1. k2.latches = kept \cup {new}
        OBVIOUS
      <4>2. Cardinality(k.latches) = MaxLatches
        BY <1>2, <2>3, KillSwitchAssumption
      <4> HIDE DEF kept, new, k2
      <4> QED BY <1>2, <3>3, <3>4, <4>1, <4>2
    <3>6. \A l \in k.latches \ k2.latches : l = victim
      BY <2>3
    <3>7. LevelEnum(new.level) >= LevelEnum(victim.level)
      <4>1. LevelEnum(victim.level) \in Int /\ level \in Int /\ LevelEnum(level) = level
        BY DEF LevelEnum, Levels, NORMAL, PHYSICAL, HARD
      <4> QED BY <1>4, <2>3, <4>1
    <3>8. \A n \in k2.latches \ k.latches : n = new
      OBVIOUS
    <3>9. new \in k2.latches \ k.latches
      BY <2>2
    <3>10. k2.seq >= k.seq /\ k2.hb = k.hb /\ new.id > k.seq /\ new.at = t
      BY <1>1
    <3>11. Pushed(k2, k, t)
      <4> HIDE DEF k2, new, victim
      <4> QED BY <1>2, <3>5, <3>6, <3>7, <3>8, <3>9, <3>10 DEF Pushed
    <3> QED BY <2>1, <3>11
  <2>4. CASE ~full
    <3>1. k2.latches = k.latches \cup {new}
      BY <2>4
    <3>2. Cardinality(k2.latches) = Cardinality(k.latches) + 1
      BY <1>2, <2>2, <3>1, FS_AddElement
    <3>3. k2.seq >= k.seq /\ k2.hb = k.hb /\ new.id > k.seq /\ new.at = t
      BY <1>1
    <3>4. Pushed(k2, k, t)
      <4> HIDE DEF k2, new
      <4> QED BY <1>2, <3>1, <3>2, <3>3 DEF Pushed
    <3> QED BY <2>1, <3>4
  <2> QED BY <2>3, <2>4
<1> QED BY <1>3, <1>4

\* So does a trigger.
LEMMA TriggerPushed ==
  ASSUME NEW k, WellFormed(k), NEW raw, NEW text, NEW actor, NEW t \in Nat
  PROVE  Pushed(trigger(k, raw, text, actor, t), k, t)
<1>1. HARD \in Levels
  BY DEF HARD, Levels, NORMAL, PHYSICAL
<1> QED BY <1>1, LatchPushed DEF trigger

\* Two pushes in a row, even when the second evicts what the first put in.
LEMMA PushedTwice ==
  ASSUME NEW a, NEW b, NEW c, WellFormed(a), WellFormed(b), WellFormed(c), NEW t,
         Pushed(b, a, t), Pushed(c, b, t)
  PROVE  Pushed(c, a, t)
<1>1. /\ a.seq \in Nat /\ b.seq \in Nat /\ c.seq \in Nat
      /\ Cardinality(a.latches) \in Nat /\ Cardinality(b.latches) \in Nat
      /\ Cardinality(c.latches) \in Nat /\ Cardinality(c.latches) <= MaxLatches
      /\ MaxLatches \in Nat
      /\ \A l \in a.latches : l.id <= a.seq /\ l.id \in Nat
      /\ \A l \in c.latches : l.id \in Nat
  BY FS_CardinalityType, KillSwitchAssumption DEF WellFormed, IsState
<1>2. \A l : LevelEnum(l.level) \in Int
  BY DEF LevelEnum, Levels, NORMAL, PHYSICAL, HARD
<1>3. c.seq >= a.seq /\ c.hb = a.hb /\ Cardinality(c.latches) >= Cardinality(a.latches)
  BY <1>1 DEF Pushed
<1>4. ASSUME NEW n \in c.latches \ a.latches PROVE n.id > a.seq /\ n.at = t
  <2>1. CASE n \in b.latches
    BY <2>1 DEF Pushed
  <2>2. CASE n \notin b.latches
    <3>1. n.id > b.seq /\ n.at = t /\ b.seq >= a.seq /\ n.id \in Nat
      BY <1>1, <2>2 DEF Pushed
    <3> QED BY <1>1, <3>1
  <2> QED BY <2>1, <2>2
<1>5. ASSUME NEW n \in c.latches \ b.latches PROVE n \notin a.latches
  <2>1. n.id > b.seq /\ b.seq >= a.seq /\ n.id \in Nat
    BY <1>1 DEF Pushed
  <2> QED BY <1>1, <2>1
<1>6. ASSUME NEW l \in a.latches \ c.latches
      PROVE  /\ Cardinality(c.latches) = MaxLatches
             /\ \E n \in c.latches \ a.latches : LevelEnum(n.level) >= LevelEnum(l.level)
  <2>1. CASE l \in b.latches
    <3>1. PICK n \in c.latches \ b.latches : LevelEnum(n.level) >= LevelEnum(l.level)
      BY <2>1 DEF Pushed
    <3>2. Cardinality(c.latches) = MaxLatches
      BY <2>1 DEF Pushed
    <3> QED BY <1>5, <3>1, <3>2
  <2>2. CASE l \notin b.latches
    <3>1. Cardinality(b.latches) = MaxLatches
      BY <2>2 DEF Pushed
    <3>2. Cardinality(c.latches) = MaxLatches
      BY <1>1, <3>1 DEF Pushed
    <3>3. PICK m \in b.latches \ a.latches : LevelEnum(m.level) >= LevelEnum(l.level)
      BY <2>2 DEF Pushed
    <3>4. CASE m \in c.latches
      BY <3>2, <3>3, <3>4
    <3>5. CASE m \notin c.latches
      <4>1. PICK n \in c.latches \ b.latches : LevelEnum(n.level) >= LevelEnum(m.level)
        BY <3>5 DEF Pushed
      <4>2. LevelEnum(n.level) >= LevelEnum(l.level)
        BY <1>2, <3>3, <4>1
      <4> QED BY <1>5, <3>2, <4>1, <4>2
    <3> QED BY <3>4, <3>5
  <2> QED BY <2>1, <2>2
<1> QED BY <1>3, <1>4, <1>6 DEF Pushed

\* What persist_or_force_hard leaves in memory and in the file.
LEMMA PersistPushed ==
  ASSUME NEW k, WellFormed(k), NEW t \in Nat, NEW o, PersistOrForceHard(k, o, t)
  PROVE  Pushed(ks', k, t) /\ WellFormed(ks') /\ disk' \in {disk, k}
<1>1. ks' = k \/ ks' = trigger(k, HARD, "state store write failed", STORE_FAILURE_ACTOR, t)
  BY DEF PersistOrForceHard
<1>2. disk' \in {disk, k}
  BY DEF PersistOrForceHard, Save
<1> QED BY <1>1, <1>2, PushedItself, TriggerPushed, TriggerLemma

\* A trip and a warning push on the table, in memory first and then, perhaps, on disk.
LEMMA TripPushes ==
  ASSUME Inv, NEW t \in Readings, NEW o \in SaveOutcomes,
         \/ \E p \in Peers, x \in Texts, raw \in RawLevels : Trigger(p, x, raw, t, o)
         \/ TickTrip(t, o) \/ TickWarn(t, o)
  PROVE  /\ up /\ UNCHANGED <<now, up, hbSeq>>
         /\ \E k : /\ WellFormed(k) /\ Pushed(k, ks, t) /\ disk' \in {disk, k}
                   /\ WellFormed(ks') /\ Pushed(ks', k, t) /\ Pushed(ks', ks, t)
<1>1. t \in Nat /\ WellFormed(ks)
  BY ReadingsNat DEF Inv
<1>2. ASSUME NEW k, WellFormed(k), Pushed(k, ks, t), PersistOrForceHard(k, o, t)
      PROVE  \E q : /\ WellFormed(q) /\ Pushed(q, ks, t) /\ disk' \in {disk, q}
                    /\ WellFormed(ks') /\ Pushed(ks', q, t) /\ Pushed(ks', ks, t)
  <2>1. Pushed(ks', k, t) /\ WellFormed(ks') /\ disk' \in {disk, k}
    BY <1>1, <1>2, PersistPushed
  <2> DEFINE n == ks'
  <2>2. Pushed(n, k, t) /\ WellFormed(n)
    BY <2>1
  <2> HIDE DEF n
  <2>3. Pushed(n, ks, t)
    BY <1>1, <1>2, <2>2, PushedTwice
  <2> QED BY <1>2, <2>1, <2>3 DEF n
<1>3. CASE \E p \in Peers, x \in Texts, raw \in RawLevels : Trigger(p, x, raw, t, o)
  <2>1. PICK p \in Peers, x \in Texts, raw \in RawLevels : Trigger(p, x, raw, t, o)
    BY <1>3
  <2> DEFINE k == trigger(ks, raw, x, p, t)
  <2>2. WellFormed(k) /\ Pushed(k, ks, t)
    BY <1>1, TriggerLemma, TriggerPushed
  <2>3. PersistOrForceHard(k, o, t) /\ up /\ UNCHANGED <<now, up, hbSeq>>
    BY <2>1 DEF Trigger, Serving
  <2> HIDE DEF k
  <2> QED BY <1>2, <2>2, <2>3
<1>4. CASE TickTrip(t, o)
  <2> DEFINE k == latch(ks, DEAD_MANS, <<"operator heartbeat missed">>, HEARTBEAT_ACTOR, t)
  <2>1. DEAD_MANS \in Levels
    BY DEF DEAD_MANS, Levels, NORMAL, PHYSICAL
  <2>2. WellFormed(k) /\ Pushed(k, ks, t)
    BY <1>1, <2>1, LatchLemma, LatchPushed
  <2>3. PersistOrForceHard(k, o, t) /\ up /\ UNCHANGED <<now, up, hbSeq>>
    BY <1>4 DEF TickTrip, Serving
  <2> HIDE DEF k
  <2> QED BY <1>2, <2>2, <2>3
<1>5. CASE TickWarn(t, o)
  <2>1. PersistOrForceHard(ks, o, t) /\ up /\ UNCHANGED <<now, up, hbSeq>>
    BY <1>5 DEF TickWarn, Serving
  <2> QED BY <1>1, <1>2, <2>1, PushedItself
<1> QED BY <1>3, <1>4, <1>5

\* A heartbeat changes its own time and number, and a failed save may push.
LEMMA HeartbeatPushes ==
  ASSUME Inv, NEW t \in Readings, NEW o \in SaveOutcomes, Heartbeat(t, o)
  PROVE  /\ up /\ UNCHANGED <<now, up>> /\ hbSeq' = ks.seq + 1
         /\ \E k : /\ WellFormed(k) /\ k.latches = ks.latches /\ k.hb = t /\ k.seq = ks.seq + 1
                   /\ disk' \in {disk, k} /\ WellFormed(ks') /\ Pushed(ks', k, t)
<1>1. t \in Nat /\ WellFormed(ks)
  BY ReadingsNat DEF Inv
<1> DEFINE k == heartbeat(ks, t)
<1>2. WellFormed(k) /\ k.latches = ks.latches
  BY <1>1, BumpLemma
<1>3. k.hb = t /\ k.seq = ks.seq + 1
  <2>1. ks = [latches |-> ks.latches, seq |-> ks.seq, upd |-> ks.upd, hb |-> ks.hb]
    BY <1>1 DEF WellFormed, IsState
  <2> QED BY <2>1 DEF heartbeat, bump
<1>4. PersistOrForceHard(k, o, t) /\ up /\ UNCHANGED <<now, up>> /\ hbSeq' = ks.seq + 1
  BY DEF Heartbeat, Serving
<1> HIDE DEF k
<1> QED BY <1>1, <1>2, <1>3, <1>4, PersistPushed

\* A committed reset takes out the one latch it names, which was audited and, for a
\* dead-man's latch, is stamped earlier than the last heartbeat.
LEMMA ResetRemoves ==
  ASSUME Inv, NEW m \in ks.latches, NEW a \in Requests, NEW root \in BOOLEAN, NEW t \in Readings,
         NEW auditOk \in BOOLEAN, NEW o \in SaveOutcomes, Reset(m.id, a, root, t, auditOk, o)
  PROVE  /\ up /\ UNCHANGED <<now, up, hbSeq>>
         /\ \E c : /\ WellFormed(c) /\ c.latches = {x \in ks.latches : x.id # m.id}
                   /\ c.hb = ks.hb /\ c.seq = ks.seq + 1
                   /\ disk' \in {disk, c} /\ ks' \in {ks, c}
         /\ AuditMandatory => m.id \in audited'
         /\ m.level = DEAD_MANS => ks.hb > m.at
<1>1. t \in Nat /\ WellFormed(ks)
  BY ReadingsNat DEF Inv
<1> DEFINE c == reset(ks, m.id, t)
<1>2. WellFormed(c) /\ c.latches = {x \in ks.latches : x.id # m.id}
  BY <1>1, RemoveLemma
<1>3. c.hb = ks.hb /\ c.seq = ks.seq + 1
  <2>1. ks = [latches |-> ks.latches, seq |-> ks.seq, upd |-> ks.upd, hb |-> ks.hb]
    BY <1>1 DEF WellFormed, IsState
  <2> QED BY <2>1 DEF reset, bump
<1>4. PICK l \in ks.latches :
        /\ l.id = m.id
        /\ Authorized(l, ks.hb, a, root)
        /\ AuditPermits(auditOk)
        /\ audited' = IF auditOk THEN audited \cup {m.id} ELSE audited
        /\ Save(c, o)
        /\ IF o = "ok" THEN ks' = c ELSE UNCHANGED ks
  BY DEF Reset
<1> HIDE DEF c
<1>5. l = m
  BY <1>1, <1>4 DEF WellFormed
<1>6. ASSUME m.level = DEAD_MANS PROVE ks.hb > m.at
  <2>1. LevelEnum(m.level) = DEAD_MANS
    BY <1>6 DEF LevelEnum, DEAD_MANS, Levels, NORMAL, PHYSICAL
  <2>2. Requirement(LevelEnum(m.level)).hb
    BY <2>1 DEF Requirement
  <2> QED BY <1>4, <1>5, <2>2 DEF Authorized
<1>7. AuditMandatory => m.id \in audited'
  BY <1>4 DEF AuditPermits
<1>8. disk' \in {disk, c} /\ ks' \in {ks, c}
  BY <1>4 DEF Save
<1>9. up /\ UNCHANGED <<now, up, hbSeq>>
  BY DEF Reset, Serving
<1> QED BY <1>2, <1>3, <1>6, <1>7, <1>8, <1>9

\* What one step may take out of the table of a running process.
LeaveStep ==
  (AuditMandatory /\ up /\ up') =>
     \A l \in ks.latches \ ks'.latches :
        \/ l.id \in audited' /\ (l.level = DEAD_MANS => ks.hb > l.at)
        \/ /\ Cardinality(ks'.latches) = MaxLatches
           /\ \E n \in ks'.latches \ ks.latches : LevelEnum(n.level) >= LevelEnum(l.level)

\* Every step takes latches out that way.
LEMMA NextLeaves == ASSUME Inv, [Next]_vars PROVE LeaveStep
<1>1. CASE \E t \in Readings, o \in SaveOutcomes :
             \/ \E p \in Peers, x \in Texts, raw \in RawLevels : Trigger(p, x, raw, t, o)
             \/ TickTrip(t, o) \/ TickWarn(t, o)
  <2>1. PICK t \in Readings, o \in SaveOutcomes :
             \/ \E p \in Peers, x \in Texts, raw \in RawLevels : Trigger(p, x, raw, t, o)
             \/ TickTrip(t, o) \/ TickWarn(t, o)
    BY <1>1
  <2>2. Pushed(ks', ks, t)
    BY <2>1, TripPushes
  <2> QED BY <2>2 DEF LeaveStep, Pushed
<1>2. CASE \E t \in Readings, o \in SaveOutcomes : Heartbeat(t, o)
  <2>1. PICK t \in Readings, o \in SaveOutcomes : Heartbeat(t, o)
    BY <1>2
  <2>2. PICK k : k.latches = ks.latches /\ Pushed(ks', k, t)
    BY <2>1, HeartbeatPushes
  <2> QED BY <2>2 DEF LeaveStep, Pushed
<1>3. CASE \E l \in ks.latches, approvals \in Requests, root \in BOOLEAN, t \in Readings,
              auditOk \in BOOLEAN, o \in SaveOutcomes : Reset(l.id, approvals, root, t, auditOk, o)
  <2>1. PICK m \in ks.latches, a \in Requests, root \in BOOLEAN, t \in Readings,
             auditOk \in BOOLEAN, o \in SaveOutcomes : Reset(m.id, a, root, t, auditOk, o)
    BY <1>3
  <2>2. PICK c : c.latches = {x \in ks.latches : x.id # m.id} /\ ks' \in {ks, c}
    BY <2>1, ResetRemoves
  <2>3. /\ AuditMandatory => m.id \in audited'
        /\ m.level = DEAD_MANS => ks.hb > m.at
    BY <2>1, ResetRemoves
  <2>4. \A l \in ks.latches \ ks'.latches : l.id = m.id
    BY <2>2
  <2>5. \A l \in ks.latches : l.id = m.id => l = m
    BY DEF Inv, WellFormed
  <2> QED BY <2>3, <2>4, <2>5 DEF LeaveStep
<1>4. CASE ~up \/ ~up' \/ ks' = ks
  BY <1>4 DEF LeaveStep
<1>5. Poison \/ ClockAdvance \/ Damage \/ UNCHANGED vars => ks' = ks
  BY DEF Poison, ClockAdvance, Damage, vars
<1>6. Crash => ~up'
  BY DEF Crash
<1>7. \A t, o, walOk, lost, o2 : Start(t, o, walOk, lost, o2) => ~up
  BY DEF Start
<1> QED BY <1>1, <1>2, <1>3, <1>4, <1>5, <1>6, <1>7 DEF Next

\* However late the clock readings are applied: a latch leaves the table of a running
\* process by a reset that was audited first, and for a dead-man's latch stamped
\* earlier than a heartbeat, or evicted from a full table by one at least as strong.
LeavesOnRecord ==
  [][(AuditMandatory /\ up /\ up') =>
       \A l \in ks.latches \ ks'.latches :
          \/ l.id \in audited' /\ (l.level = DEAD_MANS => ks.hb > l.at)
          \/ /\ Cardinality(ks'.latches) = MaxLatches
             /\ \E n \in ks'.latches \ ks.latches : LevelEnum(n.level) >= LevelEnum(l.level)]_vars

\* That holds for every cap, every lag of the readings and every fault
\* (controller.rs reset, reset.rs authorize, mod.rs latch).
THEOREM LatchOnRecord == Spec => LeavesOnRecord
<1>1. Inv /\ [Next]_vars => LeaveStep
  BY NextLeaves
<1>2. Spec => [][LeaveStep]_vars
  BY <1>1, Invariance, PTL DEF Spec
<1> QED BY <1>2 DEF LeavesOnRecord, LeaveStep


-----------------------------------------------------------------------------
(* The heartbeat behind a reset, when clock readings are not late.         *)

\* A state s at the time n, when h is the number of the last heartbeat: its heartbeat
\* time is not ahead of the clock, and a dead-man's latch stamped before it is
\* numbered before it.
Timely(s, n, h) ==
  /\ 1 <= s.hb /\ s.hb <= n
  /\ \A l \in s.latches : l.level = DEAD_MANS /\ s.hb > l.at => h > l.id

\* The inductive invariant: memory and file are timely, and no latch in the file is
\* ahead of the numbering of the running process.
Ordered ==
  /\ 1 <= now
  /\ up => Timely(ks, now, hbSeq) /\ \A l \in disk.latches : l.id <= ks.seq
  /\ Intact(disk) => Timely(disk, now, hbSeq)

\* The clock cannot fail and is read under the mutex.
Prompt == MaxLag = 0 /\ "clock" \notin Faults

\* A prompt reading is the present.
LEMMA PromptReading == ASSUME Prompt, Inv, NEW t \in Readings PROVE t = now /\ t \in Nat
<1>1. now \in Nat /\ MaxLag = 0
  BY DEF Inv, Types, Prompt
<1>2. t \in (now - MaxLag)..now
  BY DEF Readings, Prompt
<1> QED BY <1>1, <1>2

\* A push at the present time keeps a state timely.
LEMMA PushTimely ==
  ASSUME NEW k, NEW q, NEW n \in Nat, NEW h, WellFormed(k), WellFormed(q),
         Timely(k, n, h), Pushed(q, k, n)
  PROVE  Timely(q, n, h)
<1>1. q.hb = k.hb /\ q.hb \in Nat /\ 1 <= q.hb /\ q.hb <= n
  BY DEF Pushed, Timely, WellFormed, IsState
<1>2. \A l \in q.latches \ k.latches : ~(q.hb > l.at)
  BY <1>1 DEF Pushed
<1> QED BY <1>1, <1>2 DEF Timely

\* A trip or a warning.
LEMMA TripOrdered ==
  ASSUME Prompt, Inv, Ordered, NEW t \in Readings, NEW o \in SaveOutcomes,
         \/ \E p \in Peers, x \in Texts, raw \in RawLevels : Trigger(p, x, raw, t, o)
         \/ TickTrip(t, o) \/ TickWarn(t, o)
  PROVE  Ordered'
<1>1. t = now /\ now \in Nat
  BY PromptReading DEF Inv, Types
<1>2. up /\ UNCHANGED <<now, up, hbSeq>>
  BY TripPushes
<1>3. PICK k : /\ WellFormed(k) /\ Pushed(k, ks, t) /\ disk' \in {disk, k}
               /\ WellFormed(ks') /\ Pushed(ks', k, t) /\ Pushed(ks', ks, t)
  BY TripPushes
<1> DEFINE n == ks'
<1>4. WellFormed(n) /\ Pushed(n, k, t) /\ Pushed(n, ks, t)
  BY <1>3
<1> HIDE DEF n
<1>5. Timely(ks, now, hbSeq) /\ WellFormed(ks)
  BY <1>2 DEF Ordered, Inv
<1>6. Timely(k, now, hbSeq) /\ Timely(n, now, hbSeq)
  BY <1>1, <1>3, <1>4, <1>5, PushTimely
<1>7. Intact(disk') => Timely(disk', now, hbSeq)
  BY <1>3, <1>6 DEF Ordered
<1>8. ASSUME NEW l \in disk'.latches PROVE l.id <= n.seq
  <2>1. ks.seq \in Nat /\ n.seq \in Nat /\ k.seq \in Nat /\ ks.seq <= n.seq /\ k.seq <= n.seq
    BY <1>3, <1>4, <1>5 DEF WellFormed, IsState, Pushed
  <2>2. CASE disk' = disk
    <3>1. l \in disk.latches /\ l.id <= ks.seq
      BY <1>2, <1>8, <2>2 DEF Ordered
    <3>2. WellFormed(disk)
      BY <3>1 DEF Inv, DiskOK, Missing, Corrupt
    <3>3. l.id \in Nat
      BY <3>1, <3>2 DEF WellFormed, IsState
    <3> QED BY <2>1, <3>1, <3>3
  <2>3. CASE disk' = k
    <3>1. l \in k.latches
      BY <1>8, <2>3
    <3>2. l.id \in Nat /\ l.id <= k.seq
      BY <1>3, <3>1 DEF WellFormed, IsState
    <3> QED BY <2>1, <3>2
  <2> QED BY <1>3, <2>2, <2>3
<1>9. 1 <= now'
  BY <1>2 DEF Ordered
<1> QED BY <1>2, <1>6, <1>7, <1>8, <1>9 DEF Ordered, n

\* A heartbeat is numbered after every latch there is.
LEMMA HeartbeatOrdered ==
  ASSUME Prompt, Inv, Ordered, NEW t \in Readings, NEW o \in SaveOutcomes, Heartbeat(t, o)
  PROVE  Ordered'
<1>1. t = now /\ now \in Nat /\ 1 <= now
  BY PromptReading DEF Inv, Types, Ordered
<1>2. up /\ UNCHANGED <<now, up>> /\ hbSeq' = ks.seq + 1
  BY HeartbeatPushes
<1>3. PICK k : /\ WellFormed(k) /\ k.latches = ks.latches /\ k.hb = t /\ k.seq = ks.seq + 1
               /\ disk' \in {disk, k} /\ WellFormed(ks') /\ Pushed(ks', k, t)
  BY HeartbeatPushes
<1> DEFINE n == ks'
           h == ks.seq + 1
<1>4. WellFormed(n) /\ Pushed(n, k, t) /\ ks.seq \in Nat /\ h \in Nat
  BY <1>3 DEF Inv, WellFormed, IsState
<1> HIDE DEF n
<1>5. \A l \in ks.latches : l.id \in Nat /\ l.id <= ks.seq
  BY DEF Inv, WellFormed, IsState
<1>6. \A l \in disk.latches : l.id \in Nat /\ l.id <= ks.seq
  <2>1. disk.latches # {} => WellFormed(disk)
    BY DEF Inv, DiskOK, Missing, Corrupt
  <2> QED BY <1>2, <2>1 DEF Ordered, WellFormed, IsState
<1>7. Timely(k, now, h)
  BY <1>1, <1>3, <1>4, <1>5 DEF Timely
<1>8. Timely(n, now, h)
  <2> HIDE DEF h
  <2> QED BY <1>1, <1>3, <1>4, <1>7, PushTimely
<1>9. Intact(disk) => Timely(disk, now, h)
  BY <1>4, <1>6 DEF Ordered, Timely
<1>10. Intact(disk') => Timely(disk', now, h)
  BY <1>3, <1>7, <1>9
<1>11. ASSUME NEW l \in disk'.latches PROVE l.id <= n.seq
  <2>1. n.seq \in Nat /\ ks.seq + 1 <= n.seq
    BY <1>3, <1>4 DEF WellFormed, IsState, Pushed
  <2>2. l \in disk.latches \/ l \in ks.latches
    BY <1>3, <1>11
  <2> QED BY <1>4, <1>5, <1>6, <2>1, <2>2
<1> QED BY <1>1, <1>2, <1>8, <1>10, <1>11 DEF Ordered, n

\* A reset takes a latch out of a timely state.
LEMMA ResetOrdered ==
  ASSUME Inv, Ordered, NEW m \in ks.latches, NEW a \in Requests, NEW root \in BOOLEAN,
         NEW t \in Readings, NEW auditOk \in BOOLEAN, NEW o \in SaveOutcomes,
         Reset(m.id, a, root, t, auditOk, o)
  PROVE  Ordered'
<1>1. up /\ UNCHANGED <<now, up, hbSeq>>
  BY ResetRemoves
<1>2. PICK c : /\ WellFormed(c) /\ c.latches = {x \in ks.latches : x.id # m.id}
               /\ c.hb = ks.hb /\ c.seq = ks.seq + 1
               /\ disk' \in {disk, c} /\ ks' \in {ks, c}
  BY ResetRemoves
<1>3. Timely(ks, now, hbSeq) /\ Timely(c, now, hbSeq)
  BY <1>1, <1>2 DEF Ordered, Timely
<1>4. \A l \in ks.latches : l.id \in Nat /\ l.id <= ks.seq
  BY DEF Inv, WellFormed, IsState
<1>5. \A l \in disk.latches : l.id \in Nat /\ l.id <= ks.seq
  <2>1. disk.latches # {} => WellFormed(disk)
    BY DEF Inv, DiskOK, Missing, Corrupt
  <2> QED BY <1>1, <2>1 DEF Ordered, WellFormed, IsState
<1>6. ks.seq \in Nat
  BY DEF Inv, WellFormed, IsState
<1>7. \A l \in disk'.latches : l.id <= ks'.seq
  <2>1. \A l \in disk'.latches : l \in disk.latches \/ l \in ks.latches
    BY <1>2
  <2>2. ks'.seq \in {ks.seq, ks.seq + 1}
    BY <1>2
  <2> QED BY <1>4, <1>5, <1>6, <2>1, <2>2
<1>8. Timely(ks', now, hbSeq) /\ (Intact(disk') => Timely(disk', now, hbSeq))
  BY <1>2, <1>3 DEF Ordered
<1> QED BY <1>1, <1>7, <1>8 DEF Ordered

\* A start takes the file as it is, or begins a new numbering at the present time.
LEMMA StartOrdered ==
  ASSUME Inv, Ordered, NEW o \in SaveOutcomes, NEW o2 \in SaveOutcomes,
         NEW walOk \in BOOLEAN, NEW lost \in BOOLEAN, Start(now, o, walOk, lost, o2)
  PROVE  Ordered'
<1> DEFINE ld == Loaded(now)
           k  == Initial(now, o)
           d  == IF o # "failed" THEN ld ELSE IF disk = Corrupt THEN Missing ELSE disk
           k2 == trigger(k, HARD, "start-up: state unavailable", STARTUP_ACTOR, now)
           k3 == trigger(k2, HARD, "state store write failed", STORE_FAILURE_ACTOR, now)
           g  == IF Intact(disk) THEN hbSeq ELSE 0
<1>1. ~up /\ MayStart /\ UNCHANGED now /\ now \in Nat /\ 1 <= now
  BY DEF Start, Inv, Types, Ordered
<1>2. WellFormed(ld)
  BY <1>1, LoadedLemma
<1>3. WellFormed(k) /\ Pushed(k, ld, now)
  <2>1. k = ld \/ k = trigger(ld, HARD, "initial persist failed", STORE_FAILURE_ACTOR, now)
    BY DEF Initial
  <2> HIDE DEF ld
  <2> QED BY <1>1, <1>2, <2>1, PushedItself, TriggerLemma, TriggerPushed
<1>4. WellFormed(k2) /\ Pushed(k2, k, now)
  <2> HIDE DEF k
  <2> QED BY <1>1, <1>3, TriggerLemma, TriggerPushed
<1>5. WellFormed(k3) /\ Pushed(k3, k2, now)
  <2> HIDE DEF k2
  <2> QED BY <1>1, <1>4, TriggerLemma, TriggerPushed
<1>6. Intact(disk) => ld = disk /\ Timely(disk, now, hbSeq)
  <2> SUFFICES ASSUME Intact(disk) PROVE ld = disk /\ Timely(disk, now, hbSeq)
    OBVIOUS
  <2>1. Timely(disk, now, hbSeq)
    BY DEF Ordered
  <2>2. disk.hb \in Nat /\ 1 <= disk.hb
    BY <2>1 DEF Inv, Types, IsState, Timely
  <2> QED BY <2>1, <2>2 DEF Loaded, from_persisted
<1>7. ASSUME NEW h, Intact(disk) => h = hbSeq PROVE Timely(ld, now, h)
  <2>1. CASE Intact(disk)
    BY <1>6, <1>7, <2>1
  <2>2. CASE ~Intact(disk)
    <3>1. WellFormed(fresh(now)) /\ WellFormed(fail_closed(now))
      BY <1>1, FreshLemma
    <3>2. Timely(fresh(now), now, h)
      BY <1>1 DEF Timely, fresh
    <3>3. Pushed(fail_closed(now), fresh(now), now)
      <4>1. HARD \in Levels
        BY DEF HARD, Levels, NORMAL, PHYSICAL
      <4> QED BY <1>1, <3>1, <4>1, LatchPushed DEF fail_closed
    <3>4. Timely(fail_closed(now), now, h)
      BY <1>1, <3>1, <3>2, <3>3, PushTimely
    <3> QED BY <2>2, <3>2, <3>4 DEF Loaded
  <2> QED BY <2>1, <2>2
<1>8. (d \in {ld, disk} \/ ~Intact(d)) /\ (Intact(d) => d = ld) /\ ~Intact(Missing)
  BY <1>6 DEF Intact
<1>9. \A s : ~Intact(s) => s.latches = {}
  BY DEF Intact, Missing, Corrupt
<1>10. CASE walOk \/ ~AuditMandatory
  <2>1. /\ up' = TRUE /\ hbSeq' = g
        /\ \/ disk' = d /\ ks' \in {k, k2, k3}
           \/ disk' = k2 /\ ks' \in {k2, k3}
    BY <1>10 DEF Start
  <2>2. Timely(ld, now, g)
    BY <1>7
  <2> HIDE DEF ld, k, d, k2, k3, g
  <2>3. Timely(k, now, g) /\ Timely(k2, now, g) /\ Timely(k3, now, g)
    <3>1. Timely(k, now, g)
      BY <1>1, <1>2, <1>3, <2>2, PushTimely
    <3>2. Timely(k2, now, g)
      BY <1>1, <1>3, <1>4, <3>1, PushTimely
    <3> QED BY <1>1, <1>4, <1>5, <3>1, <3>2, PushTimely
  <2>4. Intact(disk') => Timely(disk', now, g)
    BY <1>8, <2>1, <2>2, <2>3
  <2>5. /\ ld.seq \in Nat /\ k.seq \in Nat /\ k2.seq \in Nat /\ k3.seq \in Nat
        /\ ld.seq <= k.seq /\ k.seq <= k2.seq /\ k2.seq <= k3.seq
    BY <1>2, <1>3, <1>4, <1>5 DEF WellFormed, IsState, Pushed
  <2>6. /\ \A l \in ld.latches : l.id \in Nat /\ l.id <= ld.seq
        /\ \A l \in k2.latches : l.id \in Nat /\ l.id <= k2.seq
    BY <1>2, <1>4 DEF WellFormed, IsState
  <2>7. ASSUME NEW l \in disk'.latches PROVE l.id <= ks'.seq
    <3>1. CASE disk' = k2 /\ ks' \in {k2, k3}
      BY <2>1, <2>5, <2>6, <2>7, <3>1
    <3>2. CASE disk' = d
      <4>1. l \in ld.latches
        BY <1>8, <1>9, <2>7, <3>2
      <4> QED BY <2>1, <2>5, <2>6, <4>1
    <3> QED BY <2>1, <3>1, <3>2
  <2>8. Timely(ks', now, g)
    BY <2>1, <2>3
  <2> QED BY <1>1, <2>1, <2>4, <2>7, <2>8 DEF Ordered
<1>11. CASE ~(walOk \/ ~AuditMandatory)
  <2>1. disk' = d /\ UNCHANGED <<up, hbSeq>>
    BY <1>11 DEF Start
  <2>2. Timely(ld, now, hbSeq)
    BY <1>7
  <2> HIDE DEF ld, d
  <2>3. Intact(disk') => Timely(disk', now, hbSeq)
    BY <1>8, <2>1, <2>2
  <2> QED BY <1>1, <2>1, <2>3 DEF Ordered
<1> QED BY <1>10, <1>11

\* Every step keeps memory and file in that order.
LEMMA NextOrdered == ASSUME Prompt, Inv, Ordered, [Next]_vars PROVE Ordered'
<1>0. now \in Nat /\ 1 <= now
  BY DEF Inv, Types, Ordered
<1>1. CASE \E t \in Readings, o \in SaveOutcomes :
             \/ \E p \in Peers, x \in Texts, raw \in RawLevels : Trigger(p, x, raw, t, o)
             \/ TickTrip(t, o) \/ TickWarn(t, o)
  BY <1>1, TripOrdered
<1>2. CASE \E t \in Readings, o \in SaveOutcomes : Heartbeat(t, o)
  BY <1>2, HeartbeatOrdered
<1>3. CASE \E l \in ks.latches, approvals \in Requests, root \in BOOLEAN, t \in Readings,
              auditOk \in BOOLEAN, o \in SaveOutcomes : Reset(l.id, approvals, root, t, auditOk, o)
  BY <1>3, ResetOrdered
<1>4. CASE \E t \in {now} \cup {z \in {0} : "clock" \in Faults}, o, o2 \in SaveOutcomes,
              walOk, lost \in BOOLEAN : Start(t, o, walOk, lost, o2)
  BY <1>4, StartOrdered DEF Prompt
<1>5. CASE Crash
  BY <1>5 DEF Crash, Ordered
<1>6. CASE Damage
  BY <1>6 DEF Damage, Ordered, Intact
<1>7. CASE Poison \/ ClockAdvance \/ UNCHANGED vars
  <2>1. UNCHANGED <<up, ks, disk, hbSeq>> /\ now' \in {now, now + 1}
    BY <1>7 DEF Poison, ClockAdvance, vars
  <2>2. ASSUME NEW s, s.hb \in Nat, Timely(s, now, hbSeq) PROVE Timely(s, now', hbSeq)
    BY <1>0, <2>1, <2>2 DEF Timely
  <2>3. ks.hb \in Nat /\ (Intact(disk) => disk.hb \in Nat)
    BY DEF Inv, Types, IsState
  <2> QED BY <1>0, <2>1, <2>2, <2>3 DEF Ordered
<1> QED BY <1>1, <1>2, <1>3, <1>4, <1>5, <1>6, <1>7 DEF Next

\* With prompt readings, a dead-man's latch is reset only after a heartbeat that
\* Aegis applied after it, and every latch that leaves is accounted for, for every
\* cap and every crash, failed save and damage (controller.rs, reset.rs, mod.rs).
THEOREM LatchAccountable == ASSUME Prompt PROVE Spec => LatchLeavesAccountably
<1> DEFINE A == (AuditMandatory /\ up /\ up') =>
      \A l \in ks.latches \ ks'.latches :
         \/ l.id \in audited' /\ (l.level = DEAD_MANS => hbSeq > l.id)
         \/ /\ Cardinality(ks'.latches) = MaxLatches
            /\ \E n \in ks'.latches \ ks.latches : LevelEnum(n.level) >= LevelEnum(l.level)
<1>1. Init => Ordered
  BY DEF Init, Ordered, Intact
<1>2. Inv /\ Ordered /\ [Next]_vars => Ordered'
  BY NextOrdered
<1>3. Inv /\ Ordered /\ [Next]_vars => A
  <2> SUFFICES ASSUME Inv, Ordered, [Next]_vars PROVE A
    OBVIOUS
  <2>1. LeaveStep
    BY NextLeaves
  <2>2. up => \A l \in ks.latches : l.level = DEAD_MANS /\ ks.hb > l.at => hbSeq > l.id
    BY DEF Ordered, Timely
  <2> QED BY <2>1, <2>2 DEF LeaveStep
<1>4. Spec => [][A]_vars
  BY <1>1, <1>2, <1>3, Invariance, PTL DEF Spec
<1> QED BY <1>4 DEF LatchLeavesAccountably

-----------------------------------------------------------------------------
(* KillWatch: the hand-over of sweeps between the threads of the watcher   *)
(* loses no request.                                                       *)

\* NoLostWake is inductive once pc is known to be a function on the threads.
HandOver == DOMAIN pc = Threads /\ NoLostWake

\* Nothing is requested at the start.
LEMMA InitHandOver == WatchInit => HandOver
  BY DEF WatchInit, HandOver, NoLostWake

\* A step of a thread that leaves the slot and the event alone, and that neither
\* sets out from a wake-up nor takes the sweeper out of its hand-over, is harmless.
LEMMA QuietThread ==
  ASSUME HandOver, NEW t \in Threads, NEW l, Goto(t, l), UNCHANGED <<pending, wake>>,
         pc[t] # "wake", t = "sweep" => pc[t] \notin {"unset", "take", "exit"}
  PROVE  HandOver'
  BY DEF HandOver, NoLostWake, Goto, Threads

\* A step that leaves the hand-over's variables alone is harmless.
LEMMA QuietHandOver ==
  ASSUME HandOver, UNCHANGED <<pc, pending, wake>>
  PROVE  HandOver'
  BY DEF HandOver, NoLostWake

\* The steps of the stream thread.
LEMMA StreamHandOver == HandOver /\ StreamThread => HandOver'
<1> SUFFICES ASSUME HandOver, StreamThread PROVE HandOver'
  OBVIOUS
<1>0. "stream" \in Threads
  BY DEF Threads
<1>1. CASE BeginStream
  BY <1>0, <1>1, QuietThread DEF BeginStream, sweepVars
<1>2. CASE OpenStream
  BY <1>0, <1>2, QuietThread DEF OpenStream, sweepVars
<1>3. CASE PublishCall
  BY <1>0, <1>3, QuietThread DEF PublishCall, sweepVars
<1>4. CASE ReadState
  BY <1>0, <1>4, QuietThread, QuietHandOver DEF ReadState, sweepVars
<1>5. CASE ActOnLevel
  BY <1>0, <1>5, QuietThread DEF ActOnLevel, sweepVars
<1>6. CASE StreamFails
  BY <1>0, <1>6, QuietThread DEF StreamFails, sweepVars
<1>7. CASE StreamEnded
  BY <1>0, <1>7, QuietThread DEF StreamEnded, sweepVars
<1>8. CASE ClearCall
  BY <1>0, <1>8, QuietThread DEF ClearCall, sweepVars
<1>9. CASE MarkUnknown("stream")
  BY <1>0, <1>9, QuietThread DEF MarkUnknown, sweepVars
<1>10. CASE RequestSweep("stream")
  BY <1>0, <1>10 DEF RequestSweep, HandOver, NoLostWake, Goto, Threads
<1> QED
  BY <1>1, <1>2, <1>3, <1>4, <1>5, <1>6, <1>7, <1>8, <1>9, <1>10 DEF StreamThread

\* The steps of the sweeper: it clears the event before it empties the slot.
LEMMA SweepHandOver == HandOver /\ SweepThread => HandOver'
<1> SUFFICES ASSUME HandOver, SweepThread PROVE HandOver'
  OBVIOUS
<1>0. "sweep" \in Threads
  BY DEF Threads
<1>1. CASE Wait
  BY <1>0, <1>1 DEF Wait, HandOver, NoLostWake, Goto, Threads
<1>2. CASE TakeRequest
  BY <1>0, <1>2 DEF TakeRequest, HandOver, NoLostWake, Goto, Threads
<1>3. CASE SweepIfElevated
  BY <1>0, <1>3, QuietThread DEF SweepIfElevated, sweepVars
<1>4. CASE ListOrders
  BY <1>0, <1>4, QuietThread DEF ListOrders, sweepVars
<1>5. CASE CancelOrders
  BY <1>0, <1>5, QuietThread, QuietHandOver DEF CancelOrders, sweepVars
<1>6. CASE CheckLiveness
  BY <1>0, <1>6, QuietThread DEF CheckLiveness, sweepVars
<1>7. CASE Probe
  BY <1>0, <1>7, QuietThread DEF Probe, sweepVars
<1>8. CASE MarkUnknown("sweep")
  BY <1>0, <1>8, QuietThread DEF MarkUnknown, sweepVars
<1>9. CASE RequestSweep("sweep")
  BY <1>0, <1>9 DEF RequestSweep, HandOver, NoLostWake, Goto, Threads
<1>10. CASE GrabCall("sweep")
  BY <1>0, <1>10, QuietThread DEF GrabCall, sweepVars
<1>11. CASE CancelCall("sweep")
  BY <1>0, <1>11, QuietThread DEF CancelCall, sweepVars
<1> QED
  BY <1>1, <1>2, <1>3, <1>4, <1>5, <1>6, <1>7, <1>8, <1>9, <1>10, <1>11 DEF SweepThread

\* The steps of stop().
LEMMA MainHandOver == HandOver /\ MainThread => HandOver'
<1> SUFFICES ASSUME HandOver, MainThread PROVE HandOver'
  OBVIOUS
<1>0. "main" \in Threads
  BY DEF Threads
<1>1. CASE Stop
  BY <1>0, <1>1, QuietThread DEF Stop, sweepVars
<1>2. CASE GrabCall("main")
  BY <1>0, <1>2, QuietThread DEF GrabCall, sweepVars
<1>3. CASE CancelCall("main")
  BY <1>0, <1>3, QuietThread DEF CancelCall, sweepVars
<1>4. CASE RequestSweep("main")
  BY <1>0, <1>4 DEF RequestSweep, HandOver, NoLostWake, Goto, Threads
<1> QED
  BY <1>1, <1>2, <1>3, <1>4 DEF MainThread

\* Every step keeps the hand-over intact.
LEMMA NextHandOver == HandOver /\ [WatchNext]_watchVars => HandOver'
<1> SUFFICES ASSUME HandOver, [WatchNext]_watchVars PROVE HandOver'
  OBVIOUS
<1>1. ASSUME NEW l \in FeedLevels, AegisChange(l) PROVE HandOver'
  BY <1>1, QuietHandOver DEF AegisChange, sweepVars
<1>2. CASE Send
  BY <1>2, QuietHandOver DEF Send, sweepVars
<1>3. ASSUME NEW how, Outage(how) PROVE HandOver'
  BY <1>3, QuietHandOver DEF Outage, sweepVars
<1>4. ASSUME NEW l, NEW n, Restore(l, n) PROVE HandOver'
  BY <1>4, QuietHandOver DEF Restore, sweepVars
<1>5. ASSUME NEW o \in Orders, RequestThread(o) \/ Fill(o) PROVE HandOver'
  BY <1>5, QuietHandOver DEF RequestThread, Precheck, BeginSubmit, BrokerAnswers, Fill, sweepVars
<1>6. CASE UNCHANGED watchVars
  BY <1>6, QuietHandOver DEF watchVars, sweepVars
<1> QED
  BY <1>1, <1>2, <1>3, <1>4, <1>5, <1>6, StreamHandOver, SweepHandOver, MainHandOver DEF WatchNext

\* No requested sweep is left to the timer (kill_watch.py _request_sweep and
\* _sweep_loop).
THEOREM WakeNeverLost == WatchSpec => []NoLostWake
<1>1. HandOver => NoLostWake
  BY DEF HandOver
<1> QED
  BY <1>1, InitHandOver, NextHandOver, PTL DEF WatchSpec
=============================================================================
