----------------------------- MODULE KillSwitch -----------------------------
(***************************************************************************)
(* The Aegis kill switch: the latch state machine (killswitch/mod.rs), the *)
(* reset authority (reset.rs), its durable store (store.rs), the           *)
(* controller that owns them (controller.rs) and the part of start-up that *)
(* decides with which latches the process begins (app.rs).                 *)
(*                                                                         *)
(* Every handler of the controller holds the state mutex from its first    *)
(* read to its publication, so a handler is one action.  It reads the      *)
(* clock BEFORE it takes the mutex: the reading may be older than readings *)
(* already applied (Readings).  A save may fail before or after the rename *)
(* that replaces the state file (SaveOutcomes).  A trigger id is a uuid in *)
(* the code; here it is the state_seq the latch was pushed at, which is    *)
(* unique within one state and grows with the position in the Vec.         *)
(***************************************************************************)
EXTENDS KillLevels, FiniteSets, Sequences

CONSTANTS
  Peers,         \* actors that call TriggerKillSwitch (authenticated ids)
  Texts,         \* reasons they give
  RawLevels,     \* wire integers they send, known levels or not
  People,        \* registered approvers
  RolesOf,       \* [People -> SUBSET Roles], the identities file
  AuditMandatory,\* limits: audit_mandatory
  Production,    \* config: env.is_production()
  MaxLatches,    \* MAX_LATCHES (1024 in the code)
  Interval,      \* operator_heartbeat_interval
  WarnAfter,     \* operator_heartbeat_warn
  SaveOutcomes,  \* what a save may do, a subset of {"ok", "failed", "renamed"}
  MaxLag,        \* bound: how old a clock reading may be when it is applied
  Faults,        \* faults of the instance: "crash", "damage", "poison", "clock",
                 \*   "wal" (audit.wal unusable at start), "lost" (other state lost)
  MaxTime,       \* bound on the clock
  MaxSeq,        \* bound on state_seq
  Requests       \* the sequences of verified approvals reset requests carry

Roles == {"operator", "compliance"}

\* verify_approval: the signature names a registered person and a role that
\* person holds.
VerifiedApproval == {a \in [who : People, role : Roles] : a.role \in RolesOf[a.who]}

ASSUME KillSwitchAssumption ==
  /\ MaxLatches \in Nat \ {0}
  /\ Interval \in Nat /\ WarnAfter \in Nat /\ MaxLag \in Nat
  /\ MaxTime \in Nat /\ MaxSeq \in Nat
  /\ AuditMandatory \in BOOLEAN /\ Production \in BOOLEAN
  /\ RawLevels \subseteq Int
  /\ SaveOutcomes \subseteq {"ok", "failed", "renamed"}
  /\ RolesOf \in [People -> SUBSET Roles]
  /\ Requests \subseteq Seq(VerifiedApproval)

VARIABLES
  now,        \* the wall clock, in ticks, from 1
  up,         \* the Aegis process is running
  booted,     \* when it started
  poisoned,   \* the state mutex is poisoned (a holder panicked)
  ks,         \* KillState in memory: latches, state_seq, updated_at, last heartbeat
  warned,     \* KillSwitch.warned
  published,  \* the value in the WatchKillSwitchState channel
  disk,       \* kill_state.json: a KillState, or Missing or Corrupt
  others,     \* the state directory has entries besides the state file
  allowFresh, \* config: allow_fresh_state, set by the operator between runs
  synced,     \* history: the last save of this or the last process returned Ok
  before,     \* history: the level of the latches when the last process ended
  damaged,    \* history: the state file was lost or damaged since then
  hbSeq,      \* history: state_seq of the last operator heartbeat
  lastReset,  \* history: the reset this step committed, NoReset for other steps
  audited     \* history: trigger ids whose reset the audit sink has recorded

vars == <<now, up, booted, poisoned, ks, warned, published, disk, others,
          allowFresh, synced, before, damaged, hbSeq, lastReset, audited>>

-----------------------------------------------------------------------------
(* Values.                                                                 *)

HEARTBEAT_ACTOR     == "aegis/operator-heartbeat"
STARTUP_ACTOR       == "aegis/startup"
STORE_FAILURE_ACTOR == "aegis/state-store"

\* A state file that is absent or cannot be decoded; a negative sequence
\* number keeps both apart from every saved state.
Missing == [latches |-> {}, seq |-> -1, upd |-> 0, hb |-> 0]
Corrupt == [latches |-> {}, seq |-> -2, upd |-> 0, hb |-> 0]
Intact(d) == d # Missing /\ d # Corrupt

NoReset == [level |-> NORMAL, at |-> 0, id |-> 0, ops |-> {}, comp |-> {}, root |-> FALSE]

\* What a handler reads from the clock: any instant since the call began, or 0
\* (now_ns().unwrap_or(0)) when the clock cannot be read.
Readings ==
  {t \in (now - MaxLag)..now : t >= booted} \cup {t \in {0} : "clock" \in Faults}

-----------------------------------------------------------------------------
(* The latch state machine (mod.rs): operators on a KillState.             *)

\* effective_level: the strongest latch, NORMAL when there is none.
EffectiveLevel(latches) ==
  CHOOSE r \in Levels : /\ \A l \in latches : LevelEnum(l.level) <= r
                        /\ r # NORMAL => \E l \in latches : LevelEnum(l.level) = r

fresh(t) == [latches |-> {}, seq |-> 1, upd |-> t, hb |-> t]

from_persisted(s) == IF s.hb <= 0 THEN [s EXCEPT !.hb = s.upd] ELSE s

bump(k, t) == [latches |-> k.latches, seq |-> k.seq + 1, upd |-> t, hb |-> k.hb]

\* min_by_key((rank, latched_at)): the weakest, then oldest, then first pushed.
Weaker(a, b) ==
  \/ LevelEnum(a.level) < LevelEnum(b.level)
  \/ /\ LevelEnum(a.level) = LevelEnum(b.level)
     /\ \/ a.at < b.at
        \/ a.at = b.at /\ a.id <= b.id

Victim(latches) == CHOOSE v \in latches : \A l \in latches : Weaker(v, l)

\* latch: an identical trip changes nothing; at the cap the weakest latch makes
\* room unless it is stronger than the new one, which is then already covered.
latch(k, level, reason, actor, t) ==
  LET same    == {l \in k.latches : l.level = level /\ l.reason = reason /\ l.actor = actor}
      full    == Cardinality(k.latches) >= MaxLatches
      victim  == Victim(k.latches)
      kept    == IF full THEN k.latches \ {victim} ELSE k.latches
      new     == [id |-> k.seq + 1, level |-> level, reason |-> reason,
                  actor |-> actor, at |-> t]
  IN  IF same # {} \/ (full /\ LevelEnum(victim.level) > level)
      THEN k
      ELSE bump([k EXCEPT !.latches = kept \cup {new}], t)

\* trigger: level 0 and unknown levels are malformed and latch HARD, under a
\* reason that quotes the number.
trigger(k, raw, text, actor, t) ==
  IF raw \in Levels \ {NORMAL}
  THEN latch(k, raw, <<text>>, actor, t)
  ELSE latch(k, HARD, <<text, raw>>, actor, t)

fail_closed(t) == latch(fresh(t), HARD, <<"start-up fail-closed">>, STARTUP_ACTOR, t)

heartbeat(k, t) == bump([k EXCEPT !.hb = t], t)

\* reset, once it is authorised.
reset(k, id, t) == bump([k EXCEPT !.latches = {x \in @ : x.id # id}], t)

Deadline(k) == k.hb + Interval

\* Slip: any latch at all counts as "already tripped".
TickTrips_AnyLatch(k, t) == t > Deadline(k) /\ k.latches = {}

\* The two things a tick may do; the trip wins, a warning is given once.
TickTrips(k, t) == t > Deadline(k) /\ \A l \in k.latches : l.actor # HEARTBEAT_ACTOR
TickWarns(k, t) == t <= Deadline(k) /\ ~warned /\ t > k.hb + WarnAfter

-----------------------------------------------------------------------------
(* The reset authority (reset.rs).                                         *)

Requirement(level) ==
  [operators  |-> IF level \in {SOFT, DEAD_MANS} THEN 1 ELSE 2,
   compliance |-> IF level \in {SOFT, LOGIC, DEAD_MANS} THEN 0 ELSE 1,
   root       |-> level \notin {SOFT, DEAD_MANS},
   hb         |-> level = DEAD_MANS]

\* seats: one person counts once, in the first role seen.
FirstSignatures(approvals, role) ==
  {i \in DOMAIN approvals : /\ approvals[i].role = role
                            /\ \A j \in 1..(i - 1) : approvals[j].who # approvals[i].who}

\* Slip: one person who signs in two roles fills two seats.
Seats_PerSignature(approvals, role) ==
  Cardinality({a \in {approvals[i] : i \in DOMAIN approvals} : a.role = role})

Seats(approvals, role) == Cardinality(FirstSignatures(approvals, role))

\* The people who signed in a role, as the audit record names them.
Signers(approvals, role) ==
  {approvals[i].who : i \in {j \in DOMAIN approvals : approvals[j].role = role}}

\* Slip: a heartbeat at the instant of the latch counts as later.
Authorized_SameInstant(l, hb, approvals, root) ==
  LET need == Requirement(LevelEnum(l.level))
  IN  /\ Seats(approvals, "operator") >= need.operators
      /\ Seats(approvals, "compliance") >= need.compliance
      /\ need.root => root
      /\ need.hb => hb >= l.at

Authorized(l, hb, approvals, root) ==
  LET need == Requirement(LevelEnum(l.level))
  IN  /\ Seats(approvals, "operator") >= need.operators
      /\ Seats(approvals, "compliance") >= need.compliance
      /\ need.root => root
      /\ need.hb => hb > l.at

-----------------------------------------------------------------------------
(* The store and the controller.                                           *)

\* save: write a temporary file, rename it over the state file, fsync the
\* directory.  "renamed" is an error of that last fsync.
Save(k, outcome) ==
  /\ disk' = IF outcome = "failed" THEN disk ELSE k
  /\ synced' = (outcome = "ok")

Publish(k) == published' = [level |-> EffectiveLevel(k.latches), seq |-> k.seq]

\* persist_or_force_hard, then publish.
PersistOrForceHard(k, outcome, t) ==
  /\ Save(k, outcome)
  /\ ks' = IF outcome = "ok" THEN k
           ELSE trigger(k, HARD, "state store write failed", STORE_FAILURE_ACTOR, t)
  /\ Publish(ks')

\* state(), effective_level(): what the rest of Aegis reads.
CurrentLevel == IF poisoned THEN HARD ELSE EffectiveLevel(ks.latches)

Serving == up /\ ~poisoned /\ ks.seq + 2 <= MaxSeq

Trigger(peer, text, raw, t, outcome) ==
  /\ Serving
  /\ PersistOrForceHard(trigger(ks, raw, text, peer, t), outcome, t)
  /\ lastReset' = NoReset
  /\ UNCHANGED <<now, up, booted, poisoned, warned, others, allowFresh, before, damaged, hbSeq, audited>>

Heartbeat(t, outcome) ==
  /\ Serving
  /\ PersistOrForceHard(heartbeat(ks, t), outcome, t)
  /\ warned' = FALSE
  /\ hbSeq' = ks.seq + 1
  /\ lastReset' = NoReset
  /\ UNCHANGED <<now, up, booted, poisoned, others, allowFresh, before, damaged, audited>>

\* tick: nothing is saved or published when there is no event.
TickTrip(t, outcome) ==
  /\ Serving
  /\ TickTrips(ks, t)
  /\ PersistOrForceHard(
       latch(ks, DEAD_MANS, <<"operator heartbeat missed">>, HEARTBEAT_ACTOR, t), outcome, t)
  /\ lastReset' = NoReset
  /\ UNCHANGED <<now, up, booted, poisoned, warned, others, allowFresh, before, damaged, hbSeq, audited>>

TickWarn(t, outcome) ==
  /\ Serving
  /\ TickWarns(ks, t)
  /\ PersistOrForceHard(ks, outcome, t)
  /\ warned' = TRUE
  /\ lastReset' = NoReset
  /\ UNCHANGED <<now, up, booted, poisoned, others, allowFresh, before, damaged, hbSeq, audited>>

AuditPermits(auditOk) == auditOk \/ ~AuditMandatory

\* reset: authorise on a copy, audit, persist, and only then commit.  auditOk
\* is whether the sink accepts the record.
Reset(id, approvals, root, t, auditOk, outcome) ==
  /\ Serving
  /\ \E l \in ks.latches :
       LET candidate == reset(ks, id, t)
       IN  /\ l.id = id
           /\ Authorized(l, ks.hb, approvals, root)
           /\ AuditPermits(auditOk)
           /\ audited' = IF auditOk THEN audited \cup {id} ELSE audited
           /\ Save(candidate, outcome)
           /\ IF outcome = "ok"
              THEN /\ ks' = candidate
                   /\ Publish(candidate)
                   /\ lastReset' = [level |-> LevelEnum(l.level), at |-> l.at, id |-> id,
                                    ops  |-> Signers(approvals, "operator"),
                                    comp |-> Signers(approvals, "compliance"),
                                    root |-> root]
              ELSE /\ UNCHANGED <<ks, published>>
                   /\ lastReset' = NoReset
  /\ UNCHANGED <<now, up, booted, poisoned, warned, others, allowFresh, before, damaged, hbSeq>>

\* A handler panics while it holds the mutex.
Poison ==
  /\ "poison" \in Faults
  /\ up /\ ~poisoned
  /\ poisoned' = TRUE
  /\ lastReset' = NoReset
  /\ UNCHANGED <<now, up, booted, ks, warned, published, disk, others, allowFresh, synced,
                 before, damaged, hbSeq, audited>>

-----------------------------------------------------------------------------
(* Start-up (KillController::start inside build_app) and the environment.  *)

\* build_app refuses an empty state directory in production unless allowed.
EmptyDir == disk = Missing /\ ~others
MayStart == EmptyDir /\ Production => allowFresh

\* Slip: a missing state file is always a first boot.
Loaded_MissingIsFresh(t) ==
  IF Intact(disk) THEN from_persisted(disk)
  ELSE IF disk = Missing THEN fresh(t) ELSE fail_closed(t)

\* FileKillStore::load; quarantine renames an undecodable file aside.
Loaded(t) ==
  IF Intact(disk) THEN from_persisted(disk)
  ELSE IF EmptyDir THEN fresh(t) ELSE fail_closed(t)

\* The HARD latch for a first save that failed.
Initial(t, outcome) ==
  IF outcome = "ok" THEN Loaded(t)
  ELSE trigger(Loaded(t), HARD, "initial persist failed", STORE_FAILURE_ACTOR, t)

Start(t, outcome, walOk, lost, outcome2) ==
  LET k  == Initial(t, outcome)
      d  == IF outcome # "failed" THEN Loaded(t)
            ELSE IF disk = Corrupt THEN Missing ELSE disk
      k2 == trigger(k, HARD, "start-up: state unavailable", STARTUP_ACTOR, t)
  IN  /\ ~up
      /\ MayStart
      /\ IF walOk \/ ~AuditMandatory
         THEN \* the replay log or the portfolio could not be read: kill.trigger(HARD)
              /\ IF lost
                 THEN /\ disk' = IF outcome2 = "failed" THEN d ELSE k2
                      /\ synced' = (outcome2 = "ok")
                      /\ ks' = IF outcome2 = "ok" THEN k2
                               ELSE trigger(k2, HARD, "state store write failed",
                                            STORE_FAILURE_ACTOR, t)
                 ELSE /\ disk' = d
                      /\ synced' = (outcome = "ok")
                      /\ ks' = k
              /\ ks'.seq <= MaxSeq
              /\ Publish(ks')
              /\ up' = TRUE
              /\ booted' = t
              /\ others' = (others \/ disk = Corrupt \/ walOk)
              /\ before' = NORMAL
              /\ damaged' = FALSE
              /\ hbSeq' = IF Intact(disk) THEN hbSeq ELSE 0
         ELSE \* audit.wal cannot be opened: the process exits
              /\ disk' = d
              /\ others' = (others \/ disk = Corrupt)
              /\ before' = IF EmptyDir THEN NORMAL ELSE before
              /\ damaged' = (damaged /\ ~EmptyDir)
              /\ UNCHANGED <<ks, published, up, booted, synced, hbSeq>>
      /\ lastReset' = NoReset
      /\ warned' = FALSE
      /\ poisoned' = FALSE
      /\ UNCHANGED <<now, allowFresh, audited>>

Crash ==
  /\ "crash" \in Faults
  /\ up
  /\ up' = FALSE
  /\ before' = EffectiveLevel(ks.latches)
  /\ ks' = fresh(0)
  /\ published' = [level |-> NORMAL, seq |-> 0]
  /\ booted' = 0
  /\ warned' = FALSE
  /\ poisoned' = FALSE
  /\ lastReset' = NoReset
  /\ UNCHANGED <<now, disk, others, allowFresh, synced, damaged, hbSeq, audited>>

\* While the process is down the state file may be damaged or deleted, the
\* directory emptied, and the operator may change allow_fresh_state.
Damage ==
  /\ "damage" \in Faults
  /\ ~up
  /\ \/ /\ Intact(disk)
        /\ disk' \in {Corrupt, Missing}
        /\ damaged' = TRUE
        /\ UNCHANGED <<others, allowFresh>>
     \/ /\ ~EmptyDir
        /\ disk' = Missing
        /\ others' = FALSE
        /\ damaged' = TRUE
        /\ UNCHANGED allowFresh
     \/ /\ allowFresh' = ~allowFresh
        /\ UNCHANGED <<disk, others, damaged>>
  /\ lastReset' = NoReset
  /\ UNCHANGED <<now, up, booted, poisoned, ks, warned, published, synced, before, hbSeq, audited>>

ClockAdvance ==
  /\ now < MaxTime
  /\ now' = now + 1
  /\ lastReset' = NoReset
  /\ UNCHANGED <<up, booted, poisoned, ks, warned, published, disk, others, allowFresh, synced,
                 before, damaged, hbSeq, audited>>

Init ==
  /\ now = 1
  /\ up = FALSE
  /\ booted = 0
  /\ poisoned = FALSE
  /\ ks = fresh(0)
  /\ warned = FALSE
  /\ published = [level |-> NORMAL, seq |-> 0]
  /\ disk = Missing
  /\ others = FALSE
  /\ allowFresh = TRUE
  /\ synced = TRUE
  /\ before = NORMAL
  /\ damaged = FALSE
  /\ hbSeq = 0
  /\ lastReset = NoReset
  /\ audited = {}

Next ==
  \/ \E p \in Peers, x \in Texts, raw \in RawLevels, t \in Readings, o \in SaveOutcomes :
       Trigger(p, x, raw, t, o)
  \/ \E t \in Readings, o \in SaveOutcomes : Heartbeat(t, o)
  \/ \E t \in Readings, o \in SaveOutcomes : TickTrip(t, o)
  \/ \E t \in Readings, o \in SaveOutcomes : TickWarn(t, o)
  \/ \E l \in ks.latches, approvals \in Requests, root \in BOOLEAN, t \in Readings,
        auditOk \in BOOLEAN, o \in SaveOutcomes : Reset(l.id, approvals, root, t, auditOk, o)
  \/ Poison
  \/ \E t \in {now} \cup {t \in {0} : "clock" \in Faults}, o, o2 \in SaveOutcomes,
        walOk, lost \in BOOLEAN :
       /\ "wal" \in Faults \/ walOk
       /\ "lost" \in Faults \/ ~lost
       /\ Start(t, o, walOk, lost, o2)
  \/ Crash
  \/ Damage
  \/ ClockAdvance

Spec == Init /\ [][Next]_vars

\* The ticker task runs once a second for as long as the process lives, and
\* reads the clock anew each time: a trip that stays due is taken.
FairTick == WF_vars(\E o \in SaveOutcomes : TickTrip(now, o))
FairSpec == Spec /\ FairTick

-----------------------------------------------------------------------------
(* Properties.                                                             *)

IsState(s) ==
  /\ s = [latches |-> s.latches, seq |-> s.seq, upd |-> s.upd, hb |-> s.hb]
  /\ s.seq \in Nat /\ s.upd \in Nat /\ s.hb \in Nat
  /\ \A l \in s.latches : l.id \in Nat /\ l.level \in Levels /\ l.at \in Nat

Types ==
  /\ now \in Nat /\ booted \in Nat /\ hbSeq \in Nat
  /\ up \in BOOLEAN /\ poisoned \in BOOLEAN /\ warned \in BOOLEAN /\ others \in BOOLEAN
  /\ allowFresh \in BOOLEAN /\ synced \in BOOLEAN /\ damaged \in BOOLEAN
  /\ IsState(ks)
  /\ Intact(disk) => IsState(disk)
  /\ published.level \in Levels
  /\ before \in Levels

LatchTableBounded ==
  /\ Cardinality(ks.latches) <= MaxLatches
  /\ Cardinality(disk.latches) <= MaxLatches

\* Type invariant of the module.  The latch table never outgrows its cap, in memory
\* or on disk: a state this process saves is never one the next process refuses as
\* "too many latches" (mod.rs latch, store.rs decode).
TypeOK == Types /\ LatchTableBounded

\* The three-person rule, said without seats: the signatures of a reset of
\* this level come from that many different people in those roles.
Sufficient(r) ==
  /\ r.level \in {SOFT, DEAD_MANS} => r.ops # {}
  /\ r.level = LOGIC => r.root /\ \E p, q \in r.ops : p # q
  /\ r.level \notin {SOFT, LOGIC, DEAD_MANS} =>
       r.root /\ \E p, q \in r.ops, c \in r.comp : p # q /\ p # c /\ q # c

\* In a running process the effective level falls only when a reset commits, and
\* then the reset removed a latch of the old level on the word of enough
\* different people: no trip, heartbeat, tick, eviction at the cap, failed save
\* or refused reset lowers it (mod.rs latch/tick/heartbeat, controller.rs reset).
LevelFallsOnlyByReset ==
  [][(up /\ up' /\ EffectiveLevel(ks'.latches) < EffectiveLevel(ks.latches))
       => /\ lastReset' # NoReset
          /\ lastReset'.level = EffectiveLevel(ks.latches)
          /\ Sufficient(lastReset')]_vars

\* A process comes up at least at the level it owes: HARD when the state file was
\* lost or damaged, the level of the last process when that one's last save
\* succeeded; only an empty directory, allowed by the operator in production,
\* starts without latches (store.rs load, controller.rs start, app.rs).
StartsAtOwedLevel ==
  [][(~up /\ up') =>
       \/ EffectiveLevel(ks'.latches) >=
            (IF damaged THEN HARD ELSE IF synced THEN before ELSE NORMAL)
       \/ EmptyDir /\ (Production => allowFresh)]_vars

\* A latch leaves the table of a running process in one of two ways: by a reset
\* the audit sink recorded first (when the limits make auditing mandatory), for a
\* dead-man's latch after a heartbeat that Aegis applied after it; or evicted from
\* a full table by a new latch at least as strong (controller.rs reset, reset.rs
\* authorize, mod.rs latch).
LatchLeavesAccountably ==
  [][(AuditMandatory /\ up /\ up') =>
       \A l \in ks.latches \ ks'.latches :
          \/ l.id \in audited' /\ (l.level = DEAD_MANS => hbSeq > l.id)
          \/ /\ Cardinality(ks'.latches) = MaxLatches
             /\ \E n \in ks'.latches \ ks.latches : LevelEnum(n.level) >= LevelEnum(l.level)]_vars

AtSeqBound == ks.seq + 2 > MaxSeq

\* A missed operator heartbeat trips the dead-man's latch: once the deadline is
\* past, the level reaches DEAD_MANS unless an operator heartbeat arrives or the
\* process stops (mod.rs tick, server.rs spawn_ticker).
DeadMansTrips ==
  (up /\ now > Deadline(ks))
     ~> \/ EffectiveLevel(ks.latches) >= DEAD_MANS
        \/ now <= Deadline(ks)
        \/ ~up \/ poisoned \/ AtSeqBound

=============================================================================
