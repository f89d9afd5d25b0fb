------------------------ MODULE AegisEngine_proofs ------------------------
(***************************************************************************)
(* Proofs about the Aegis decision engine: no failure, race or restart     *)
(* yields a second attestation for a payload, or one that is neither       *)
(* reserved nor audited, for any signals, calls, limits and faults.        *)
(*                                                                         *)
(* The argument follows an attestation from the moment it is KNOWN outside *)
(* the call that made it: delivered, in a reply under way, in a line of    *)
(* replay.log or in the replay map.  What is known about a signal id, and  *)
(* every hold that may still be released, CLAIMS the id up to a time; the  *)
(* replay store covers every claim until then, so a call that finds its id *)
(* free can sign without a rival.                                          *)
(***************************************************************************)
EXTENDS AegisEngine, TLAPS, SequenceTheorems, WellFoundedInduction

\* What the deployment has to grant.  A failed append leaves no whole line in
\* replay.log (state/replay.rs record), and the retention window outlasts a call
\* that waited for the mutex as well as the attestation it ends with.  The
\* shipped limits do by far (limits.rs: age 5 s, skew 250 ms, validity 5 s,
\* retention 24 h; config.rs: a submission waits 100 ms, another call 2 s);
\* validate() asks less.
Prudent ==
  /\ "written" \notin LogOutcomes
  /\ Retention >= MaxAge + Skew + 2 * MaxWait
  /\ Retention >= Ttl + MaxWait

-----------------------------------------------------------------------------
(* Types.                                                                  *)

Pcs   == {"idle", "waiting", "done"} \cup Locked
Atts  == [n : Nat, exp : Nat]
Decs  == [st : {"rejected", "approved", "held"}, att : Atts, hold : Nat]
CallT == [pc : Pcs, kind : {"submit", "resolve"}, sig : Signals, at : Nat,
          gone : BOOLEAN, dec : Decs, keep : BOOLEAN]
HoldT == [id : Nat, sig : Signals, exp : Nat]
RecT  == [sig : Signals, dec : Decs, at : Nat]

TypeOK ==
  /\ now \in Nat /\ up \in BOOLEAN /\ poisoned \in BOOLEAN /\ replayOpen \in BOOLEAN
  /\ bookOk \in BOOLEAN /\ torn \in BOOLEAN /\ fresh \in Nat /\ level \in Levels
  /\ call \in [Calls -> CallT]
  /\ holds \subseteq HoldT
  /\ replay \in [DOMAIN replay -> RecT]
  /\ DOMAIN replay \subseteq Ids
  /\ log \in [Ids -> Seq(RecT)]
  /\ book \in [DOMAIN book -> Nat] /\ bookFile \in [DOMAIN bookFile -> Nat]
  /\ audited \subseteq Nat /\ delivered \in [Signals -> SUBSET Atts]

-----------------------------------------------------------------------------
(* The inductive invariant.                                                *)

\* The engine mutex: at most one call has it, nobody while it is poisoned, and
\* whoever waits for it and was not given up read the clock at most MaxWait ago.
LockInv ==
  /\ \A c \in Calls : call[c].pc # "idle" => up /\ call[c].at <= now
  /\ \A c \in Calls : call[c].pc \in Locked => ~poisoned
  /\ \A c, d \in Calls : call[c].pc \in Locked /\ call[d].pc \in Locked => c = d
  /\ \A c \in Calls : call[c].pc = "waiting" /\ ~Cancelled(c) => now <= call[c].at + MaxWait
  /\ ~up => holds = {}
  /\ \A c \in Calls : call[c].pc = "signing" => call[c].dec.st = "rejected"
  /\ \A c \in Calls : call[c].pc \in {"reserving", "committed"} => call[c].dec.st = "approved"

\* The last moment at which a call may find s young enough (C06), counted from
\* the reading a waiting call took.
Deadline(s) == CreatedAt[s] + MaxAge + MaxWait

\* A call or a record r grants s an attestation.
Grants(r, s) == r.sig = s /\ r.dec.st = "approved"

\* The attestations of s that a caller has or may get without a new decision.
Known(s) ==
  delivered[s]
  \cup {call[c].dec.att : c \in {d \in Calls : call[d].pc = "done" /\ Grants(call[d], s)}}
  \cup {log[IdOf[s]][i].dec.att : i \in {j \in DOMAIN log[IdOf[s]] : Grants(log[IdOf[s]][j], s)}}
  \cup {replay[id].dec.att : id \in {k \in DOMAIN replay : k = IdOf[s] /\ Grants(replay[k], s)}}

\* The call that made hold h still has the mutex: nobody can release h yet.
Pending(h) == \E c \in Calls : /\ call[c].pc \in Locked
                               /\ call[c].dec.st = "held"
                               /\ call[c].dec.hold = h.id

\* Times up to which an id must not be decided anew: because of an attestation
\* that is known, or of a hold.
KClaims(id) ==
  {Deadline(s) : s \in {q \in Signals : IdOf[q] = id /\ Known(q) # {}}}
  \cup UNION {{a.exp : a \in Known(s)} : s \in {q \in Signals : IdOf[q] = id}}

HClaims(id) ==
  {Deadline(h.sig) : h \in {g \in holds : ~poisoned /\ IdOf[g.sig] = id /\ ~Pending(g)}}

Claims(id) == KClaims(id) \cup HClaims(id)

\* The replay store remembers id up to u: in the last line of the id, and in the
\* map of a running engine whose log could be read.
InLog(id, u)   == log[id] # <<>> /\ log[id][Len(log[id])].at + Retention >= u
InMap(id, u)   == id \in DOMAIN replay /\ replay[id].at + Retention >= u
Covered(id, u) == u < now \/ (InLog(id, u) /\ (up /\ replayOpen => InMap(id, u)))

\* A reservation of id lasts until e, in portfolio.json and in memory.
Backs(id, e) ==
  /\ id \in DOMAIN bookFile /\ bookFile[id] >= e
  /\ up /\ bookOk => id \in DOMAIN book /\ book[id] >= e

\* One attestation per payload, on the audit record, reserved until it expires.
OneAttestation == \A s \in Signals : \A a, b0 \in Known(s) : a = b0
Audited == AuditMandatory => \A s \in Signals : \A a \in Known(s) : a.n \in audited
Backed == \A s \in Signals : \A a \in Known(s) : a.exp < now \/ Backs(IdOf[s], a.exp)

\* The replay store covers every claim, and no claim reaches past the window of a
\* call that has the mutex: its purge drops nothing that is still needed.
ClaimsCovered == \A id \in Ids : \A u \in Claims(id) : Covered(id, u)
ClaimsBounded == \A id \in Ids : \A u \in Claims(id) :
   /\ u + MaxWait <= now + Retention
   /\ \A c \in Calls : call[c].pc \in Locked => u <= call[c].at + Retention

\* A hold whose signal may still pass C06 is the only live claim on its id.
HoldsAlone ==
  ~poisoned => \A h \in holds : now <= Deadline(h.sig) =>
     /\ \A u \in KClaims(IdOf[h.sig]) : u < now
     /\ \A g \in holds : IdOf[g.sig] = IdOf[h.sig] /\ now <= Deadline(g.sig) => g = h

\* Hold ids are not reused, and a call about to report a hold reports its own.
HoldIds ==
  /\ \A h \in holds : h.id <= fresh
  /\ \A c \in Calls : call[c].pc \in Locked /\ call[c].dec.st = "held" =>
       /\ call[c].keep
       /\ CreatedAt[call[c].sig] <= call[c].at + Skew
       /\ \A h \in holds : h.id = call[c].dec.hold => h.sig = call[c].sig

\* A call on its way to an approval has no rival on its id, and what it has done
\* so far stands: the reservation after the commit, the record after the audit.
Approver(c) == call[c].pc \in Locked /\ (call[c].pc = "signing" \/ call[c].dec.st = "approved")

ApproverInv == \A c \in Calls, s \in Signals : Approver(c) /\ call[c].sig = s =>
  /\ call[c].keep
  /\ CreatedAt[s] <= call[c].at + Skew
  /\ Known(s) = {}
  /\ \A u \in KClaims(IdOf[s]) : u < now
  /\ \A h \in holds : IdOf[h.sig] = IdOf[s] => Deadline(h.sig) < now
  /\ call[c].dec.st = "approved" => call[c].dec.att.exp = call[c].at + Ttl
  /\ call[c].pc \in {"committed", "auditing", "recording"} =>
       bookOk /\ \A e \in {call[c].dec.att.exp} : Backs(IdOf[s], e)
  /\ call[c].pc = "recording" /\ AuditMandatory => call[c].dec.att.n \in audited

Inv == /\ OneAttestation /\ Audited /\ Backed /\ ClaimsCovered /\ ClaimsBounded
       /\ HoldsAlone /\ HoldIds /\ ApproverInv

IInv == TypeOK /\ LockInv /\ Inv


-----------------------------------------------------------------------------
(* Updates of a call.                                                      *)

Moved(c) ==
  /\ call' \in [Calls -> CallT]
  /\ \A q \in Calls : q # c => call'[q] = call[q]

Stays(c) == call'[c].kind = call[c].kind /\ call'[c].sig = call[c].sig
            /\ call'[c].at = call[c].at /\ call'[c].gone = call[c].gone

\* Goto moves one call on and leaves the rest of it alone.
LEMMA GotoStep ==
  ASSUME call \in [Calls -> CallT], NEW c \in Calls, NEW pc \in Pcs, Goto(c, pc)
  PROVE  Moved(c) /\ Stays(c) /\ call'[c].pc = pc
         /\ call'[c].dec = call[c].dec /\ call'[c].keep = call[c].keep
  BY DEF Goto, Moved, Stays, CallT

\* Decide moves one call on with a decision and whether to record it.
LEMMA DecideStep ==
  ASSUME call \in [Calls -> CallT], NEW c \in Calls, NEW pc \in Pcs,
         NEW d \in Decs, NEW k \in BOOLEAN, Decide(c, pc, d, k)
  PROVE  Moved(c) /\ Stays(c) /\ call'[c].pc = pc /\ call'[c].dec = d /\ call'[c].keep = k
  BY DEF Decide, Moved, Stays, CallT

\* The three decisions, and what they carry.
LEMMA DecisionTypes ==
  /\ Rejected \in Decs /\ Rejected.st = "rejected"
  /\ \A att \in Atts : /\ Approved(att) \in Decs /\ Approved(att).st = "approved"
                       /\ Approved(att).att = att
  /\ \A h \in Nat : Held(h) \in Decs /\ Held(h).st = "held" /\ Held(h).hold = h
  BY DEF Rejected, Approved, Held, Decs, Atts, NoAtt

\* An idle call is a call.
LEMMA IdleType == Idle \in CallT /\ Idle.pc = "idle" /\ Idle.dec = Rejected /\ Idle.sig \in Signals
  <1>1. (CHOOSE s \in Signals : TRUE) \in Signals
    BY EngineAssumption
  <1> QED
    BY <1>1, DecisionTypes DEF Idle, CallT, Pcs

\* A call begins waiting, or is done at once with a rejection.
LEMMA BeginStep ==
  ASSUME TypeOK, NEW c \in Calls, NEW kind \in {"submit", "resolve"}, NEW s \in Signals,
         Begin(c, kind, s)
  PROVE  /\ Moved(c) /\ call'[c].sig = s /\ call'[c].kind = kind /\ call'[c].dec = Rejected
         /\ \/ call'[c].pc = "waiting" /\ call'[c].at = now
            \/ call'[c].pc = "done" /\ call'[c].at = Idle.at
  <1> DEFINE w == [Idle EXCEPT !.pc = "waiting", !.kind = kind, !.sig = s, !.at = now]
             x == [Idle EXCEPT !.pc = "done", !.kind = kind, !.sig = s]
  <1>1. /\ w \in CallT /\ w.pc = "waiting" /\ w.kind = kind /\ w.sig = s /\ w.at = now
        /\ w.dec = Idle.dec
    BY IdleType DEF CallT, TypeOK, Pcs
  <1>2. /\ x \in CallT /\ x.pc = "done" /\ x.kind = kind /\ x.sig = s /\ x.at = Idle.at
        /\ x.dec = Idle.dec
    BY IdleType DEF CallT, TypeOK, Pcs
  <1>3. call' = [call EXCEPT ![c] = w] \/ call' = [call EXCEPT ![c] = x]
    BY DEF Begin
  <1> HIDE DEF w, x
  <1>4. call \in [Calls -> CallT]
    BY DEF TypeOK
  <1> QED
    BY <1>1, <1>2, <1>3, <1>4, IdleType DEF Moved

\* What the branch on the evaluation leaves: the call holds the mutex, with the
\* hold it made, if any, as the decision.
LEMMA BranchStep ==
  ASSUME TypeOK, NEW c \in Calls, NEW kind \in {"submit", "resolve"}, NEW s \in Signals,
         NEW t \in Nat, NEW o, NEW k \in BOOLEAN, NEW others \in SUBSET HoldT,
         Branch(c, kind, s, t, o, k, others)
  PROVE  /\ Moved(c) /\ call'[c].sig = s /\ call'[c].kind = kind /\ call'[c].keep = k
         /\ call'[c].at = call[c].at
         /\ \/ /\ call'[c].pc = "auditing" /\ call'[c].dec = Rejected
               /\ holds' = others /\ fresh' = fresh
            \/ /\ call'[c].pc = "signing" /\ call'[c].dec = Rejected /\ o = "approved"
               /\ holds' = others /\ fresh' = fresh
            \/ /\ call'[c].pc = "auditing" /\ call'[c].dec = Held(fresh + 1) /\ o = "held"
               /\ holds' = others \cup {[id |-> fresh + 1, sig |-> s, exp |-> HoldExpiry(s, t)]}
               /\ fresh' = fresh + 1
  <1> DEFINE to(pc, d) ==
        [call[c] EXCEPT !.kind = kind, !.sig = s, !.pc = pc, !.dec = d, !.keep = k]
  <1>1. call \in [Calls -> CallT] /\ fresh \in Nat
    BY DEF TypeOK
  <1>2. ASSUME NEW pc \in Pcs, NEW d \in Decs
        PROVE  /\ to(pc, d) \in CallT /\ to(pc, d).pc = pc /\ to(pc, d).dec = d
               /\ to(pc, d).sig = s /\ to(pc, d).kind = kind /\ to(pc, d).keep = k
               /\ to(pc, d).at = call[c].at
    BY <1>1 DEF CallT
  <1>3. \/ /\ call' = [call EXCEPT ![c] = to("auditing", Rejected)]
           /\ holds' = others /\ fresh' = fresh
        \/ /\ call' = [call EXCEPT ![c] = to("signing", Rejected)] /\ o = "approved"
           /\ holds' = others /\ fresh' = fresh
        \/ /\ call' = [call EXCEPT ![c] = to("auditing", Held(fresh + 1))] /\ o = "held"
           /\ holds' = others \cup {[id |-> fresh + 1, sig |-> s, exp |-> HoldExpiry(s, t)]}
           /\ fresh' = fresh + 1
    BY DEF Branch
  <1>4. "auditing" \in Pcs /\ "signing" \in Pcs /\ Rejected \in Decs /\ Held(fresh + 1) \in Decs
    BY <1>1, DecisionTypes DEF Pcs, Locked
  <1> HIDE DEF to
  <1>5. ASSUME NEW pc \in Pcs, NEW d \in Decs, call' = [call EXCEPT ![c] = to(pc, d)]
        PROVE  /\ Moved(c) /\ call'[c].sig = s /\ call'[c].kind = kind /\ call'[c].keep = k
               /\ call'[c].at = call[c].at /\ call'[c].pc = pc /\ call'[c].dec = d
    BY <1>1, <1>2, <1>5 DEF Moved
  <1> QED
    BY <1>3, <1>4, <1>5

-----------------------------------------------------------------------------
(* The replay store.                                                       *)

\* A replay record and its fields.
LEMMA RecordType ==
  ASSUME NEW s \in Signals, NEW d \in Decs, NEW t \in Nat
  PROVE  /\ Record(s, d, t) \in RecT
         /\ Record(s, d, t).sig = s /\ Record(s, d, t).dec = d /\ Record(s, d, t).at = t
  BY DEF Record, RecT

\* What a write of the store does to one id: a line is appended only for a signal
\* of S, the map gains only records of S and loses only what the window no longer
\* keeps.
LogMoves(S, d, t) ==
  /\ log' \in [Ids -> Seq(RecT)]
  /\ replay' \in [DOMAIN replay' -> RecT] /\ DOMAIN replay' \subseteq Ids
  /\ torn' \in BOOLEAN
  /\ \A id \in Ids :
       \/ log'[id] = log[id]
       \/ \E s \in S : IdOf[s] = id /\ log'[id] = Append(log[id], Record(s, d, t))
  /\ \A id \in DOMAIN replay' :
       \/ id \in DOMAIN replay /\ replay'[id] = replay[id]
       \/ \E s \in S : IdOf[s] = id /\ replay'[id] = Record(s, d, t)
  /\ \A id \in DOMAIN replay : id \in DOMAIN replay' \/ ~Retained(replay[id], t)

\* FileReplayStore::record moves the store as LogMoves says.
LEMMA LogStep ==
  ASSUME TypeOK, NEW S \in SUBSET Signals, NEW d \in Decs, NEW t \in Nat, NEW outcome,
         LogRecords(S, d, t, outcome)
  PROVE  LogMoves(S, d, t)
  <1> DEFINE with(os)  == {s \in S : replayOpen /\ outcome[s] \in os}
             of(T, id) == CHOOSE s \in T : IdOf[s] = id
             ids(T)    == {IdOf[s] : s \in T}
             lines     == with({"ok", "written"})
             ok        == with({"ok"})
             kept      == {id \in DOMAIN replay : Retained(replay[id], t)}
  <1>1. /\ log' = [id \in Ids |-> IF id \in ids(lines)
                                  THEN Append(log[id], Record(of(lines, id), d, t))
                                  ELSE log[id]]
        /\ torn' = (torn \/ with({"torn"}) # {})
        /\ replay' = IF ok = {} THEN replay
                     ELSE [id \in kept \cup ids(ok) |->
                             IF id \in ids(ok) THEN Record(of(ok, id), d, t) ELSE replay[id]]
    BY DEF LogRecords
  <1>2. ASSUME NEW T \in SUBSET S, NEW id \in ids(T)
        PROVE  of(T, id) \in T /\ IdOf[of(T, id)] = id
    <2>1. PICK s \in T : IdOf[s] = id
      OBVIOUS
    <2> QED
      BY <2>1
  <1>3. /\ lines \subseteq S /\ ok \subseteq S
    OBVIOUS
  <1>4. ids(ok) \subseteq Ids /\ kept \subseteq DOMAIN replay
    BY <1>3 DEF Ids
  <1>5. \A T \in SUBSET S : \A id \in ids(T) : Record(of(T, id), d, t) \in RecT
    BY <1>2, RecordType
  <1> HIDE DEF lines, ok, kept, of, ids, with
  <1>6. log' \in [Ids -> Seq(RecT)]
    <2>1. \A id \in Ids : log[id] \in Seq(RecT)
      BY DEF TypeOK
    <2>2. \A id \in Ids : id \in ids(lines) =>
             Append(log[id], Record(of(lines, id), d, t)) \in Seq(RecT)
      BY <2>1, <1>3, <1>5, AppendProperties
    <2> QED
      BY <1>1, <2>1, <2>2
  <1>7. \A id \in Ids :
              \/ log'[id] = log[id]
              \/ \E s \in S : /\ IdOf[s] = id
                              /\ log'[id] = Append(log[id], Record(s, d, t))
    <2> SUFFICES ASSUME NEW id \in Ids, log'[id] # log[id]
                 PROVE  \E s \in S : /\ IdOf[s] = id
                                     /\ log'[id] = Append(log[id], Record(s, d, t))
      OBVIOUS
    <2>1. id \in ids(lines) /\ log'[id] = Append(log[id], Record(of(lines, id), d, t))
      BY <1>1
    <2>2. of(lines, id) \in lines /\ IdOf[of(lines, id)] = id
      BY <2>1, <1>2, <1>3
    <2> QED
      BY <2>1, <2>2, <1>3
  <1>8. CASE ok = {}
    BY <1>1, <1>6, <1>7, <1>8 DEF TypeOK, LogMoves
  <1>9. CASE ok # {}
    <2>1. replay' = [id \in kept \cup ids(ok) |->
                       IF id \in ids(ok) THEN Record(of(ok, id), d, t) ELSE replay[id]]
      BY <1>1, <1>9
    <2>2. DOMAIN replay' = kept \cup ids(ok)
      BY <2>1
    <2>3. \A id \in DOMAIN replay' :
              \/ id \in DOMAIN replay /\ replay'[id] = replay[id]
              \/ \E s \in S : /\ IdOf[s] = id
                              /\ replay'[id] = Record(s, d, t)
      <3> SUFFICES ASSUME NEW id \in ids(ok)
                   PROVE  \E s \in S : /\ IdOf[s] = id
                                       /\ replay'[id] = Record(s, d, t)
        BY <2>1, <2>2, <1>4
      <3>1. replay'[id] = Record(of(ok, id), d, t)
        BY <2>1
      <3> QED
        BY <3>1, <1>2, <1>3
    <2>4. replay' \in [DOMAIN replay' -> RecT] /\ DOMAIN replay' \subseteq Ids
      <3>1. \A id \in DOMAIN replay : replay[id] \in RecT
        BY DEF TypeOK
      <3>2. \A id \in kept \cup ids(ok) :
               (IF id \in ids(ok) THEN Record(of(ok, id), d, t) ELSE replay[id]) \in RecT
        BY <3>1, <1>3, <1>4, <1>5
      <3> QED
        BY <2>1, <2>2, <3>2, <1>4 DEF TypeOK
    <2>5. \A id \in DOMAIN replay : id \in DOMAIN replay' \/ ~Retained(replay[id], t)
      BY <2>2 DEF kept
    <2> QED
      BY <1>1, <1>6, <1>7, <2>3, <2>4, <2>5 DEF LogMoves
  <1> QED
    BY <1>8, <1>9

\* So does leaving the store alone.
LEMMA LogStill ==
  ASSUME TypeOK, UNCHANGED <<replay, log>>, torn' \in BOOLEAN, NEW S, NEW d, NEW t
  PROVE  LogMoves(S, d, t)
  BY DEF TypeOK, LogMoves

-----------------------------------------------------------------------------
(* The reservations.                                                       *)

\* Keep restricts a function.
LEMMA KeepStep ==
  ASSUME NEW f, f \in [DOMAIN f -> Nat], NEW S
  PROVE  /\ Keep(f, S) \in [DOMAIN Keep(f, S) -> Nat]
         /\ DOMAIN Keep(f, S) = DOMAIN f \cap S
         /\ \A x \in DOMAIN f \cap S : Keep(f, S)[x] = f[x]
  BY DEF Keep

\* Insert adds or replaces one entry.
LEMMA InsertStep ==
  ASSUME NEW f, f \in [DOMAIN f -> Nat], NEW k, NEW v \in Nat
  PROVE  /\ Insert(f, k, v) \in [DOMAIN Insert(f, k, v) -> Nat]
         /\ DOMAIN Insert(f, k, v) = DOMAIN f \cup {k}
         /\ Insert(f, k, v)[k] = v
         /\ \A x \in DOMAIN f : x # k => Insert(f, k, v)[x] = f[x]
  BY DEF Insert

\* expire_reservations keeps every reservation that has not ended at t.
LEMMA UnexpiredStep ==
  ASSUME NEW b, b \in [DOMAIN b -> Nat], NEW t
  PROVE  /\ Unexpired(b, t) \in [DOMAIN Unexpired(b, t) -> Nat]
         /\ DOMAIN Unexpired(b, t) \subseteq DOMAIN b
         /\ \A x \in DOMAIN b : b[x] >= t =>
              x \in DOMAIN Unexpired(b, t) /\ Unexpired(b, t)[x] = b[x]
  BY KeepStep DEF Unexpired

\* A non-empty set of positions has a last one.
LEMMA LargestIndex ==
  ASSUME NEW n \in Nat, NEW T \in SUBSET (1..n), T # {}
  PROVE  \E i \in T : \A j \in T : j <= i
  <1> DEFINE D == {n - i : i \in T}
  <1> DEFINE R == OpToRel(<, Nat)
  <1>1. D \subseteq Nat
    <2>1. \A i \in T : n - i \in Nat
      OBVIOUS
    <2> QED
      BY <2>1
  <1>2. D # {}
    OBVIOUS
  <1>a. \E m \in D : \A k \in D : ~(<<k, m>> \in R)
    <2> HIDE DEF D
    <2> QED
      BY <1>1, <1>2, NatLessThanWellFounded, WFMin
  <1>b. PICK m \in D : \A k \in D : ~(<<k, m>> \in R)
    BY <1>a
  <1>c. \A k \in D : m <= k
    <2>1. R = {p \in Nat \X Nat : p[1] < p[2]}
      BY Zenon DEF OpToRel
    <2> HIDE DEF D, R
    <2>2. \A k \in D : k < m => <<k, m>> \in R
      BY <1>1, <1>b, <2>1
    <2>3. \A k \in D : ~(k < m)
      BY <1>b, <2>2, Zenon
    <2> QED
      BY <1>1, <1>b, <2>3
  <1>3. PICK i \in T : m = n - i
    BY <1>b
  <1>4. ASSUME NEW j \in T
        PROVE  j <= i
    <2>1. n - j \in D
      OBVIOUS
    <2> QED
      BY <2>1, <1>c, <1>3
  <1> QED
    BY <1>3, <1>4

\* What a restart loads for an id is one of its lines, within the window; it is
\* the last line if that one is within the window.
LEMMA LoadedStep ==
  ASSUME TypeOK, NEW t \in Nat
  PROVE  /\ Loaded(t) \in [DOMAIN Loaded(t) -> RecT]
         /\ DOMAIN Loaded(t) = LoadedIds(t) /\ LoadedIds(t) \subseteq Ids
         /\ \A id \in LoadedIds(t) : \E i \in DOMAIN log[id] : Loaded(t)[id] = log[id][i]
         /\ \A id \in Ids :
              log[id] # <<>> /\ Retained(log[id][Len(log[id])], t) =>
                id \in LoadedIds(t) /\ Loaded(t)[id] = log[id][Len(log[id])]
  <1> DEFINE top(id) == CHOOSE i \in LoadedLines(id, t) : \A j \in LoadedLines(id, t) : j <= i
  <1>1. ASSUME NEW id \in Ids
        PROVE  /\ log[id] \in Seq(RecT) /\ Len(log[id]) \in Nat
               /\ DOMAIN log[id] = 1..Len(log[id])
               /\ \A i \in DOMAIN log[id] : log[id][i] \in RecT
    <2>1. log[id] \in Seq(RecT)
      BY DEF TypeOK
    <2> QED
      BY <2>1, LenProperties, ElementOfSeq
  <1>2. ASSUME NEW id \in LoadedIds(t)
        PROVE  /\ id \in Ids /\ top(id) \in LoadedLines(id, t)
               /\ \A j \in LoadedLines(id, t) : j <= top(id)
    <2>1. id \in Ids /\ LoadedLines(id, t) # {}
      BY DEF LoadedIds
    <2>2. LoadedLines(id, t) \in SUBSET (1..Len(log[id]))
      BY <2>1, <1>1 DEF LoadedLines
    <2>3. \E i \in LoadedLines(id, t) : \A j \in LoadedLines(id, t) : j <= i
      BY <2>1, <2>2, <1>1, LargestIndex
    <2> QED
      BY <2>1, <2>3
  <1>3. Loaded(t) = [id \in LoadedIds(t) |-> log[id][top(id)]]
    BY DEF Loaded
  <1> HIDE DEF top
  <1>4. \A id \in LoadedIds(t) : top(id) \in DOMAIN log[id] /\ log[id][top(id)] \in RecT
    BY <1>1, <1>2 DEF LoadedLines
  <1>5. LoadedIds(t) \subseteq Ids
    BY DEF LoadedIds
  <1>6. ASSUME NEW id \in Ids, log[id] # <<>>, Retained(log[id][Len(log[id])], t)
        PROVE  id \in LoadedIds(t) /\ Loaded(t)[id] = log[id][Len(log[id])]
    <2>1. Len(log[id]) \in 1..Len(log[id])
      BY <1>1, <1>6, EmptySeq
    <2>2. Len(log[id]) \in LoadedLines(id, t)
      BY <1>1, <1>6, <2>1 DEF LoadedLines
    <2>3. id \in LoadedIds(t)
      BY <2>2 DEF LoadedIds
    <2>4. top(id) = Len(log[id])
      BY <2>2, <2>3, <1>1, <1>2, <1>4
    <2> QED
      BY <2>3, <2>4, <1>3
  <1> QED
    BY <1>3, <1>4, <1>5, <1>6

\* A hold expires at a time.
LEMMA HoldExpiryType ==
  ASSUME NEW s \in Signals, NEW t \in Nat
  PROVE  HoldExpiry(s, t) \in Nat
  BY EngineAssumption DEF HoldExpiry, MinOf

\* Finalize's record of one decision: made, with the map and the file agreeing,
\* or refused, with nothing changed in either.
LEMMA LogOneStep ==
  ASSUME TypeOK, NEW s \in Signals, NEW d \in Decs, NEW t \in Nat, NEW o \in LogOutcomes,
         o # "written", LogRecord(s, d, t, o)
  PROVE  \/ /\ replayOpen /\ o = "ok"
            /\ IdOf[s] \in DOMAIN replay' /\ replay'[IdOf[s]] = Record(s, d, t)
            /\ log'[IdOf[s]] = Append(log[IdOf[s]], Record(s, d, t))
         \/ /\ ~(replayOpen /\ o = "ok")
            /\ replay' = replay /\ log' = log
  <1> DEFINE outcome == [x \in {s} |-> o]
             lines == {x \in {s} : replayOpen /\ outcome[x] \in {"ok", "written"}}
             ok == {x \in {s} : replayOpen /\ outcome[x] \in {"ok"}}
             ids(T) == {IdOf[x] : x \in T}
             of(T, id) == CHOOSE x \in T : IdOf[x] = id
             kept == {id \in DOMAIN replay : Retained(replay[id], t)}
  <1>1. /\ log' = [id \in Ids |-> IF id \in ids(lines)
                                  THEN Append(log[id], Record(of(lines, id), d, t))
                                  ELSE log[id]]
        /\ replay' = IF ok = {} THEN replay
                     ELSE [id \in kept \cup ids(ok) |->
                             IF id \in ids(ok) THEN Record(of(ok, id), d, t) ELSE replay[id]]
    BY DEF LogRecord, LogRecords
  <1>2. outcome[s] = o /\ IdOf[s] \in Ids
    BY DEF Ids
  <1>3. CASE replayOpen /\ o = "ok"
    <2>1. lines = {s} /\ ok = {s}
      BY <1>2, <1>3
    <2>2. ids({s}) = {IdOf[s]} /\ of({s}, IdOf[s]) = s
      OBVIOUS
    <2> HIDE DEF lines, ok, ids, of, kept
    <2> QED
      BY <1>1, <1>2, <1>3, <2>1, <2>2
  <1>4. CASE ~(replayOpen /\ o = "ok")
    <2>1. lines = {} /\ ok = {}
      BY <1>2, <1>4
    <2>2. ids({}) = {}
      OBVIOUS
    <2> HIDE DEF lines, ok, ids, of, kept
    <2>3. log' = [id \in Ids |-> log[id]]
      BY <1>1, <2>1, <2>2
    <2> QED
      BY <1>1, <1>4, <2>1, <2>3 DEF TypeOK
  <1> QED
    BY <1>3, <1>4

-----------------------------------------------------------------------------
(* What the two entries do, case by case.                                  *)

NewHold(s, t) == [id |-> fresh + 1, sig |-> s, exp |-> HoldExpiry(s, t)]

\* What acquiring the mutex does for a submission: abandoned, answered from the
\* replay map, rejected, or on its way with its id free in the map.
LEMMA EnterSubmitStep ==
  ASSUME TypeOK, NEW c \in Calls, EnterSubmit(c)
  PROVE  /\ Moved(c) /\ call'[c].sig = call[c].sig /\ call'[c].kind = call[c].kind
         /\ call'[c].at = call[c].at
         /\ \/ /\ call'[c].pc = "done" /\ call'[c].dec = Rejected
               /\ holds' = holds /\ fresh' = fresh
            \/ /\ call'[c].pc = "done" /\ ReplayHit(call[c].sig)
               /\ call'[c].dec = replay[IdOf[call[c].sig]].dec
               /\ holds' = holds /\ fresh' = fresh
            \/ /\ ~poisoned /\ ~Cancelled(c)
               /\ call'[c].pc = "auditing" /\ call'[c].dec = Rejected
               /\ holds' = holds /\ fresh' = fresh
            \/ /\ ~poisoned /\ ~Cancelled(c) /\ Fresh(call[c].sig, call[c].at) /\ bookOk
               /\ replayOpen /\ IdOf[call[c].sig] \notin DOMAIN replay
               /\ call'[c].keep
               /\ \/ /\ call'[c].pc = "signing" /\ call'[c].dec = Rejected
                     /\ holds' = holds /\ fresh' = fresh
                  \/ /\ call'[c].pc = "auditing" /\ call'[c].dec = Held(fresh + 1)
                     /\ holds' = holds \cup {NewHold(call[c].sig, call[c].at)}
                     /\ fresh' = fresh + 1
  <1> DEFINE s == call[c].sig
             t == call[c].at
             v == Verdict(s)
  <1>1. /\ call \in [Calls -> CallT] /\ s \in Signals /\ t \in Nat /\ holds \in SUBSET HoldT
        /\ call[c].kind = "submit" /\ "done" \in Pcs /\ Rejected \in Decs
    BY DecisionTypes DEF TypeOK, CallT, EnterSubmit, Pcs
  <1>2. CASE poisoned \/ Cancelled(c)
    <2>1. Decide(c, "done", Rejected, FALSE) /\ holds' = holds /\ fresh' = fresh
      BY <1>2 DEF EnterSubmit
    <2> QED
      BY <2>1, <1>1, DecideStep DEF Stays
  <1>3. CASE ~(poisoned \/ Cancelled(c)) /\ replayOpen /\ ReplayHit(s)
    <2>1. Decide(c, "done", replay[IdOf[s]].dec, FALSE) /\ holds' = holds /\ fresh' = fresh
      BY <1>3 DEF EnterSubmit
    <2>2. replay[IdOf[s]].dec \in Decs
      <3>1. replay[IdOf[s]] \in RecT
        BY <1>3 DEF TypeOK, ReplayHit
      <3> QED
        BY <3>1 DEF RecT
    <2>3. /\ Moved(c) /\ Stays(c) /\ call'[c].pc = "done"
          /\ call'[c].dec = replay[IdOf[s]].dec
      <3> DEFINE d == replay[IdOf[s]].dec
      <3>1. d \in Decs /\ FALSE \in BOOLEAN /\ Decide(c, "done", d, FALSE)
        BY <2>1, <2>2
      <3> HIDE DEF d
      <3>2. Moved(c) /\ Stays(c) /\ call'[c].pc = "done" /\ call'[c].dec = d
        BY <3>1, <1>1, DecideStep
      <3> QED
        BY <3>2 DEF d
    <2> QED
      BY <2>1, <2>3, <1>3 DEF Stays
  <1>4. CASE ~(poisoned \/ Cancelled(c)) /\ ~(replayOpen /\ ReplayHit(s))
    <2>1. PICK o \in Conclusions("submit", s, t, v) :
             Branch(c, "submit", s, t, o, v = "new", holds)
      BY <1>4 DEF EnterSubmit
    <2>2. o \in {"approved", "held"} => Fresh(s, t) /\ v = "new" /\ bookOk
      BY <2>1 DEF Conclusions
    <2>3. v = "new" => replayOpen /\ IdOf[s] \notin DOMAIN replay
      BY DEF Verdict
    <2>4. (v = "new") \in BOOLEAN
      OBVIOUS
    <2> HIDE DEF s, t, v
    <2>5. /\ Moved(c) /\ call'[c].sig = s /\ call'[c].kind = "submit"
          /\ call'[c].keep = (v = "new") /\ call'[c].at = call[c].at
          /\ \/ /\ call'[c].pc = "auditing" /\ call'[c].dec = Rejected
                /\ holds' = holds /\ fresh' = fresh
             \/ /\ call'[c].pc = "signing" /\ call'[c].dec = Rejected /\ o = "approved"
                /\ holds' = holds /\ fresh' = fresh
             \/ /\ call'[c].pc = "auditing" /\ call'[c].dec = Held(fresh + 1) /\ o = "held"
                /\ holds' = holds \cup {NewHold(s, t)}
                /\ fresh' = fresh + 1
      BY <2>1, <2>4, <1>1, BranchStep DEF NewHold
    <2> QED
      BY <2>2, <2>3, <2>5, <1>1, <1>4 DEF s, t, v
  <1> QED
    BY <1>2, <1>3, <1>4

\* Lapsed holds have signals.
LEMMA LapsedSigs ==
  ASSUME TypeOK, NEW t
  PROVE  {h.sig : h \in Lapsed(t)} \in SUBSET Signals
  BY DEF TypeOK, Lapsed, HoldT

\* What acquiring the mutex does for a release: lapsed holds are recorded as
\* rejections, and at most one other hold is taken out of the table.
LEMMA EnterResolveStep ==
  ASSUME TypeOK, NEW c \in Calls, NEW outcome, EnterResolve(c, outcome)
  PROVE  /\ Moved(c) /\ call'[c].kind = call[c].kind /\ call'[c].kind = "resolve"
         /\ call'[c].at = call[c].at /\ fresh' = fresh
         /\ LogMoves({h.sig : h \in Lapsed(call[c].at)}, Rejected, call[c].at)
         /\ holds' \subseteq holds
         /\ \/ /\ call'[c].pc = "done" /\ call'[c].dec = Rejected
               /\ call'[c].sig = call[c].sig
            \/ \E h \in holds :
               /\ ~poisoned
               /\ call'[c].sig = h.sig /\ call'[c].keep /\ call'[c].dec = Rejected
               /\ holds' \subseteq holds \ {h}
               /\ \/ call'[c].pc = "auditing"
                  \/ call'[c].pc = "signing" /\ Fresh(h.sig, call[c].at) /\ bookOk
  <1> DEFINE t == call[c].at
             left == holds \ Lapsed(t)
             sigs == {h.sig : h \in Lapsed(t)}
  <1>1. /\ call \in [Calls -> CallT] /\ t \in Nat /\ holds \in SUBSET HoldT
        /\ call[c].kind = "resolve" /\ "done" \in Pcs /\ Rejected \in Decs
    BY DecisionTypes DEF TypeOK, CallT, EnterResolve, Pcs
  <1>2. left \subseteq holds /\ sigs \in SUBSET Signals
    BY LapsedSigs
  <1>3. CASE poisoned
    <2>1. Decide(c, "done", Rejected, FALSE) /\ UNCHANGED <<holds, replay, log, torn, fresh>>
      BY <1>3 DEF EnterResolve
    <2>2. torn' \in BOOLEAN
      BY <2>1 DEF TypeOK
    <2> QED
      BY <2>1, <2>2, <1>1, DecideStep, LogStill DEF Stays
  <1>4. CASE ~poisoned /\ ExpireHolds(t, outcome) /\ Decide(c, "done", Rejected, FALSE)
             /\ UNCHANGED fresh
    <2>1. LogRecords(sigs, Rejected, t, outcome) /\ holds' = left
      BY <1>4 DEF ExpireHolds
    <2>2. LogMoves(sigs, Rejected, t)
      BY <2>1, <1>1, <1>2, LogStep
    <2> QED
      BY <2>1, <2>2, <1>1, <1>2, <1>4, DecideStep DEF Stays
  <1>5. CASE /\ ~poisoned
             /\ LogRecords(sigs, Rejected, t, outcome)
             /\ \E h \in left :
                  \/ Branch(c, "resolve", h.sig, t, "rejected", TRUE, left \ {h})
                  \/ \E o \in Conclusions("release", h.sig, t, "new") :
                       Branch(c, "resolve", h.sig, t, o, TRUE, left \ {h})
    <2>1. LogMoves(sigs, Rejected, t)
      BY <1>5, <1>1, <1>2, LogStep
    <2>2. PICK h \in left, o \in {"rejected", "approved"} :
            /\ Branch(c, "resolve", h.sig, t, o, TRUE, left \ {h})
            /\ o = "approved" => Fresh(h.sig, t) /\ bookOk
      BY <1>5 DEF Conclusions
    <2>3. h \in holds /\ h.sig \in Signals /\ left \ {h} \in SUBSET HoldT
          /\ left \ {h} \subseteq holds \ {h}
      BY <1>1, <1>2 DEF HoldT
    <2> HIDE DEF left, sigs, t
    <2>4. /\ Moved(c) /\ call'[c].sig = h.sig /\ call'[c].kind = "resolve" /\ call'[c].keep
          /\ call'[c].at = call[c].at /\ call'[c].dec = Rejected
          /\ holds' = left \ {h} /\ fresh' = fresh
          /\ call'[c].pc = "auditing" \/ (call'[c].pc = "signing" /\ o = "approved")
      <3>1. TRUE \in BOOLEAN /\ "resolve" \in {"submit", "resolve"}
        OBVIOUS
      <3>2. /\ Moved(c) /\ call'[c].sig = h.sig /\ call'[c].kind = "resolve"
            /\ call'[c].keep = TRUE
            /\ call'[c].at = call[c].at
            /\ \/ /\ call'[c].pc = "auditing" /\ call'[c].dec = Rejected
                  /\ holds' = left \ {h} /\ fresh' = fresh
               \/ /\ call'[c].pc = "signing" /\ call'[c].dec = Rejected /\ o = "approved"
                  /\ holds' = left \ {h} /\ fresh' = fresh
               \/ o = "held"
        BY <2>2, <2>3, <1>1, <3>1, BranchStep
      <3> QED
        BY <2>2, <3>2
    <2> QED
      BY <2>1, <2>2, <2>3, <2>4, <1>1, <1>5 DEF sigs, t
  <1> QED
    BY <1>3, <1>4, <1>5 DEF EnterResolve

-----------------------------------------------------------------------------
(* What the other steps of a call do.                                      *)

\* approve(), up to the signature: a rejection, or a new attestation.
LEMMA SignStep ==
  ASSUME TypeOK, NEW c \in Calls, Sign(c)
  PROVE  /\ Moved(c) /\ Stays(c)
         /\ \/ /\ call'[c].pc = "auditing" /\ call'[c].dec \in {Rejected, call[c].dec}
               /\ fresh' = fresh
            \/ /\ call'[c].pc = "reserving" /\ call'[c].keep = call[c].keep
               /\ call'[c].dec = Approved([n |-> fresh + 1, exp |-> call[c].at + Ttl])
               /\ fresh' = fresh + 1
  <1> DEFINE att == [n |-> fresh + 1, exp |-> call[c].at + Ttl]
  <1>1. /\ call \in [Calls -> CallT] /\ "auditing" \in Pcs /\ "reserving" \in Pcs
        /\ Rejected \in Decs /\ FALSE \in BOOLEAN /\ call[c].keep \in BOOLEAN
        /\ fresh \in Nat /\ call[c].at \in Nat
    BY DecisionTypes DEF TypeOK, Pcs, Locked, CallT
  <1>a. att \in Atts
    BY <1>1, EngineAssumption DEF Atts
  <1>2. Approved(att) \in Decs
    BY <1>a, DecisionTypes
  <1>3. \/ Goto(c, "auditing") /\ fresh' = fresh
        \/ Decide(c, "auditing", Rejected, FALSE) /\ fresh' = fresh
        \/ Decide(c, "reserving", Approved(att), call[c].keep) /\ fresh' = fresh + 1
    BY DEF Sign
  <1> HIDE DEF att
  <1>4. CASE Goto(c, "auditing") /\ fresh' = fresh
    BY <1>1, <1>4, GotoStep
  <1>5. CASE Decide(c, "auditing", Rejected, FALSE) /\ fresh' = fresh
    BY <1>1, <1>5, DecideStep
  <1>6. CASE Decide(c, "reserving", Approved(att), call[c].keep) /\ fresh' = fresh + 1
    <2>1. /\ Moved(c) /\ Stays(c) /\ call'[c].pc = "reserving" /\ call'[c].keep = call[c].keep
          /\ call'[c].dec = Approved(att)
      BY <1>1, <1>2, <1>6, DecideStep
    <2> QED
      BY <2>1, <1>6 DEF att
  <1> QED
    BY <1>3, <1>4, <1>5, <1>6

Candidate(c) == Insert(Unexpired(book, call[c].at), IdOf[call[c].sig], call[c].dec.att.exp)

\* reserve(): committed with the reservation in memory and file, or rejected.
LEMMA ReserveStep ==
  ASSUME TypeOK, NEW c \in Calls, NEW o, Reserve(c, o)
  PROVE  /\ Moved(c) /\ Stays(c)
         /\ \/ /\ call'[c].pc = "auditing" /\ call'[c].dec = Rejected /\ book' = book
               /\ bookFile' = bookFile \/ (bookOk /\ bookFile' = Candidate(c))
            \/ /\ call'[c].pc = "committed" /\ call'[c].dec = call[c].dec
               /\ call'[c].keep = call[c].keep /\ bookOk
               /\ book' = Candidate(c) /\ bookFile' = Candidate(c)
  <1>1. /\ call \in [Calls -> CallT] /\ "auditing" \in Pcs /\ "committed" \in Pcs
        /\ Rejected \in Decs /\ FALSE \in BOOLEAN /\ call[c].keep \in BOOLEAN
    BY DecisionTypes DEF TypeOK, Pcs, Locked, CallT
  <1>2. \/ /\ \E k \in BOOLEAN : Decide(c, "auditing", Rejected, k)
           /\ book' = book
           /\ bookFile' = bookFile \/ (bookOk /\ bookFile' = Candidate(c))
        \/ /\ Goto(c, "committed") /\ bookOk
           /\ book' = Candidate(c) /\ bookFile' = Candidate(c)
    BY <1>1 DEF Reserve, SaveBook, Candidate
  <1>3. ASSUME NEW k \in BOOLEAN, Decide(c, "auditing", Rejected, k)
        PROVE  Moved(c) /\ Stays(c) /\ call'[c].pc = "auditing" /\ call'[c].dec = Rejected
    BY <1>1, <1>3, DecideStep
  <1>4. ASSUME Goto(c, "committed")
        PROVE  /\ Moved(c) /\ Stays(c) /\ call'[c].pc = "committed"
               /\ call'[c].dec = call[c].dec /\ call'[c].keep = call[c].keep
    BY <1>1, <1>4, GotoStep
  <1> QED
    BY <1>2, <1>3, <1>4

Released(c) == Keep(book, DOMAIN book \ {IdOf[call[c].sig]})

\* approve(), last look: on with the reservation, or rejected and given back.
LEMMA CommitStep ==
  ASSUME TypeOK, NEW c \in Calls, NEW o, Commit(c, o)
  PROVE  /\ Moved(c) /\ Stays(c) /\ call'[c].pc = "auditing"
         /\ \/ /\ call'[c].dec = call[c].dec /\ call'[c].keep = call[c].keep
               /\ book' = book /\ bookFile' = bookFile
            \/ /\ call'[c].dec = Rejected
               /\ book' \in {book, Released(c)} /\ bookFile' \in {bookFile, Released(c)}
  <1>1. /\ call \in [Calls -> CallT] /\ "auditing" \in Pcs
        /\ Rejected \in Decs /\ FALSE \in BOOLEAN
    BY DecisionTypes DEF TypeOK, Pcs, Locked
  <1>2. \/ /\ Decide(c, "auditing", Rejected, FALSE)
           /\ book' \in {book, Released(c)} /\ bookFile' \in {bookFile, Released(c)}
        \/ Goto(c, "auditing") /\ book' = book /\ bookFile' = bookFile
    BY DEF Commit, SaveBook, Released
  <1>3. ASSUME Decide(c, "auditing", Rejected, FALSE)
        PROVE  Moved(c) /\ Stays(c) /\ call'[c].pc = "auditing" /\ call'[c].dec = Rejected
    BY <1>1, <1>3, DecideStep
  <1>4. ASSUME Goto(c, "auditing")
        PROVE  /\ Moved(c) /\ Stays(c) /\ call'[c].pc = "auditing"
               /\ call'[c].dec = call[c].dec /\ call'[c].keep = call[c].keep
    BY <1>1, <1>4, GotoStep
  <1> QED
    BY <1>2, <1>3, <1>4

\* finalize(), first half: on the record where that is mandatory, or rejected.
LEMMA AuditStep ==
  ASSUME TypeOK, NEW c \in Calls, NEW ok \in BOOLEAN, Audit(c, ok)
  PROVE  /\ Moved(c) /\ Stays(c) /\ call'[c].keep = call[c].keep
         /\ call'[c].pc = IF call[c].keep THEN "recording" ELSE "done"
         /\ audited \subseteq audited' /\ audited' \subseteq Nat
         /\ \/ /\ call'[c].dec = call[c].dec /\ holds' = holds
               /\ AuditMandatory => call[c].dec.att.n \in audited'
            \/ /\ call'[c].dec = Rejected /\ holds' = WithoutHold(call[c].dec)
  <1> DEFINE next == IF call[c].keep THEN "recording" ELSE "done"
  <1>1. /\ call \in [Calls -> CallT] /\ next \in Pcs
        /\ Rejected \in Decs /\ call[c].keep \in BOOLEAN /\ call[c].dec.att.n \in Nat
    BY DecisionTypes DEF TypeOK, Pcs, Locked, CallT, Decs, Atts
  <1>2. audited' = IF ok THEN audited \cup {call[c].dec.att.n} ELSE audited
    BY DEF Audit
  <1>3. audited \subseteq audited' /\ audited' \subseteq Nat
    BY <1>1, <1>2 DEF TypeOK
  <1>4. \/ /\ ok \/ ~AuditMandatory
           /\ Goto(c, next) /\ holds' = holds
        \/ Decide(c, next, Rejected, call[c].keep) /\ holds' = WithoutHold(call[c].dec)
    BY DEF Audit
  <1> HIDE DEF next
  <1>5. CASE (ok \/ ~AuditMandatory) /\ Goto(c, next) /\ holds' = holds
    <2>1. AuditMandatory => call[c].dec.att.n \in audited'
      BY <1>2, <1>5, EngineAssumption
    <2>2. /\ Moved(c) /\ Stays(c) /\ call'[c].pc = next
          /\ call'[c].dec = call[c].dec /\ call'[c].keep = call[c].keep
      BY <1>1, <1>5, GotoStep
    <2> QED
      BY <2>1, <2>2, <1>3, <1>5 DEF next
  <1>6. CASE Decide(c, next, Rejected, call[c].keep) /\ holds' = WithoutHold(call[c].dec)
    <2>1. /\ Moved(c) /\ Stays(c) /\ call'[c].pc = next
          /\ call'[c].dec = Rejected /\ call'[c].keep = call[c].keep
      BY <1>1, <1>6, DecideStep
    <2> QED
      BY <2>1, <1>3, <1>6 DEF next
  <1> QED
    BY <1>4, <1>5, <1>6

\* finalize(), second half: recorded, or rejected and the hold dropped.
LEMMA FinalizeStep ==
  ASSUME TypeOK, NEW c \in Calls, NEW o, Finalize(c, o)
  PROVE  /\ Moved(c) /\ Stays(c) /\ call'[c].pc = "done"
         /\ LogMoves({call[c].sig}, call[c].dec, call[c].at)
         /\ \/ /\ replayOpen /\ o = "ok" /\ call'[c].dec = call[c].dec /\ holds' = holds
            \/ /\ ~(replayOpen /\ o = "ok")
               /\ call'[c].dec = Rejected /\ holds' = WithoutHold(call[c].dec)
  <1>1. /\ call \in [Calls -> CallT] /\ "done" \in Pcs /\ Rejected \in Decs /\ FALSE \in BOOLEAN
        /\ call[c].sig \in Signals /\ call[c].dec \in Decs /\ call[c].at \in Nat
    BY DecisionTypes DEF TypeOK, Pcs, CallT
  <1>2. LogMoves({call[c].sig}, call[c].dec, call[c].at)
    BY <1>1, LogStep DEF Finalize, LogRecord
  <1>3. \/ replayOpen /\ o = "ok" /\ Goto(c, "done") /\ holds' = holds
        \/ /\ ~(replayOpen /\ o = "ok") /\ Decide(c, "done", Rejected, FALSE)
           /\ holds' = WithoutHold(call[c].dec)
    BY DEF Finalize
  <1>4. CASE replayOpen /\ o = "ok" /\ Goto(c, "done") /\ holds' = holds
    <2>1. Moved(c) /\ Stays(c) /\ call'[c].pc = "done" /\ call'[c].dec = call[c].dec
      BY <1>1, <1>4, GotoStep
    <2> QED
      BY <2>1, <1>2, <1>4
  <1>5. CASE /\ ~(replayOpen /\ o = "ok") /\ Decide(c, "done", Rejected, FALSE)
             /\ holds' = WithoutHold(call[c].dec)
    <2>1. Moved(c) /\ Stays(c) /\ call'[c].pc = "done" /\ call'[c].dec = Rejected
      BY <1>1, <1>5, DecideStep
    <2> QED
      BY <2>1, <1>2, <1>5
  <1> QED
    BY <1>3, <1>4, <1>5

\* A reply delivers the attestation of an approval or nothing.
LEMMA ReplyStep ==
  ASSUME TypeOK, NEW c \in Calls, Reply(c)
  PROVE  /\ Moved(c) /\ call'[c] = Idle
         /\ delivered' \in [Signals -> SUBSET Atts]
         /\ \/ delivered' = delivered
            \/ /\ call[c].dec.st = "approved"
               /\ delivered' = [delivered EXCEPT ![call[c].sig] = @ \cup {call[c].dec.att}]
  <1>1. /\ call \in [Calls -> CallT] /\ call[c].sig \in Signals /\ call[c].dec.att \in Atts
        /\ delivered \in [Signals -> SUBSET Atts] /\ delivered[call[c].sig] \in SUBSET Atts
    BY DEF TypeOK, CallT, Decs
  <1>2. call' = [call EXCEPT ![c] = Idle]
    BY DEF Reply
  <1>3. Moved(c) /\ call'[c] = Idle
    BY <1>1, <1>2, IdleType DEF Moved
  <1>4. \/ delivered' = delivered
        \/ /\ call[c].dec.st = "approved"
           /\ delivered' = [delivered EXCEPT ![call[c].sig] = @ \cup {call[c].dec.att}]
    BY DEF Reply
  <1>5. delivered' \in [Signals -> SUBSET Atts]
    BY <1>1, <1>4
  <1> QED
    BY <1>3, <1>4, <1>5

\* A worker that panics ends its call with an error.
LEMMA PanicStep ==
  ASSUME TypeOK, NEW c \in Calls, Panic(c)
  PROVE  Moved(c) /\ Stays(c) /\ call'[c].pc = "done" /\ call'[c].dec = Rejected
  <1>1. /\ call \in [Calls -> CallT] /\ "done" \in Pcs /\ Rejected \in Decs /\ FALSE \in BOOLEAN
        /\ Decide(c, "done", Rejected, FALSE)
    BY DecisionTypes DEF TypeOK, Pcs, Panic
  <1> QED
    BY <1>1, DecideStep

\* A caller that gives up changes nothing but the token.
LEMMA GiveUpStep ==
  ASSUME TypeOK, NEW c \in Calls, GiveUp(c)
  PROVE  /\ Moved(c) /\ call'[c].pc = call[c].pc /\ call'[c].kind = call[c].kind
         /\ call'[c].sig = call[c].sig /\ call'[c].at = call[c].at /\ call'[c].gone = TRUE
         /\ call'[c].dec = call[c].dec /\ call'[c].keep = call[c].keep
  BY DEF TypeOK, GiveUp, Moved, CallT

-----------------------------------------------------------------------------
(* Types.                                                                  *)

\* Expiring holds writes rejections for them and removes them.
LEMMA ExpireStep ==
  ASSUME TypeOK, NEW t \in Nat, NEW o, ExpireHolds(t, o)
  PROVE  /\ LogMoves({h.sig : h \in Lapsed(t)}, Rejected, t)
         /\ holds' \subseteq holds
  BY LapsedSigs, LogStep, DecisionTypes DEF ExpireHolds

\* The readings of the ticker are times at most MaxWait old.
LEMMA ReadingsNat == TypeOK => Readings \subseteq Nat /\ \A t \in Readings : t <= now /\ now <= t + MaxWait
  <1> SUFFICES ASSUME TypeOK, NEW t \in Readings PROVE t \in Nat /\ t <= now /\ now <= t + MaxWait
    OBVIOUS
  <1>1. now \in Nat /\ MaxWait \in Nat
    BY EngineAssumption DEF TypeOK
  <1>2. t \in Int /\ now - MaxWait <= t /\ t <= now /\ t >= 1
    BY <1>1 DEF Readings
  <1> QED BY <1>1, <1>2

\* The initial state is well typed.
LEMMA TypeInit == Init => TypeOK
  <1> SUFFICES ASSUME Init PROVE TypeOK
    OBVIOUS
  <1>1. call \in [Calls -> CallT]
    BY IdleType DEF Init
  <1>2. log \in [Ids -> Seq(RecT)]
    BY DEF Init
  <1>3. level \in Levels
    BY DEF Init, Levels, NORMAL, PHYSICAL
  <1> QED
    BY <1>1, <1>2, <1>3 DEF Init, TypeOK


\* Every step keeps the types.
LEMMA TypeNext == TypeOK /\ [Next]_vars => TypeOK'
  <1> SUFFICES ASSUME TypeOK, [Next]_vars PROVE TypeOK'
    OBVIOUS
  <1>1. ASSUME NEW c \in Calls, NEW k \in {"submit", "resolve"}, NEW s \in Signals, Begin(c, k, s)
        PROVE  TypeOK'
    BY <1>1, BeginStep DEF Begin, TypeOK, Moved
  <1>2. ASSUME NEW c \in Calls, GiveUp(c)
        PROVE  TypeOK'
    BY <1>2, GiveUpStep DEF GiveUp, TypeOK, Moved
  <1>3. ASSUME NEW c \in Calls, EnterSubmit(c)
        PROVE  TypeOK'
    <2>1. call[c].sig \in Signals /\ call[c].at \in Nat /\ fresh \in Nat /\ holds \subseteq HoldT
      BY DEF TypeOK, CallT
    <2>2. NewHold(call[c].sig, call[c].at) \in HoldT
      BY <2>1, HoldExpiryType DEF NewHold, HoldT
    <2>3. holds' \subseteq HoldT /\ fresh' \in Nat
      BY <1>3, <2>1, <2>2, EnterSubmitStep
    <2>4. call' \in [Calls -> CallT]
      BY <1>3, EnterSubmitStep DEF Moved
    <2> QED
      BY <1>3, <2>3, <2>4 DEF EnterSubmit, TypeOK
  <1>4. ASSUME NEW c \in Calls, NEW o, EnterResolve(c, o)
        PROVE  TypeOK'
    BY <1>4, EnterResolveStep DEF EnterResolve, TypeOK, Moved, LogMoves
  <1>5. ASSUME NEW c \in Calls, Sign(c)
        PROVE  TypeOK'
    <2>1. call' \in [Calls -> CallT] /\ (fresh' = fresh \/ fresh' = fresh + 1)
      BY <1>5, SignStep DEF Moved
    <2> QED
      BY <1>5, <2>1 DEF Sign, TypeOK
  <1>6. ASSUME NEW c \in Calls, NEW o, Reserve(c, o)
        PROVE  TypeOK'
    <2>1. call[c].dec.att.exp \in Nat /\ book \in [DOMAIN book -> Nat]
      BY DEF TypeOK, CallT, Decs, Atts
    <2>2. Candidate(c) \in [DOMAIN Candidate(c) -> Nat]
      BY <2>1, InsertStep, UnexpiredStep DEF Candidate
    <2>3. /\ call' \in [Calls -> CallT] /\ book' \in [DOMAIN book' -> Nat]
          /\ bookFile' \in [DOMAIN bookFile' -> Nat]
      BY <1>6, <2>1, <2>2, ReserveStep DEF TypeOK, Moved
    <2> QED
      BY <1>6, <2>3 DEF Reserve, TypeOK
  <1>7. ASSUME NEW c \in Calls, NEW o, Commit(c, o)
        PROVE  TypeOK'
    <2>1. Released(c) \in [DOMAIN Released(c) -> Nat]
      BY KeepStep DEF Released, TypeOK
    <2>2. /\ call' \in [Calls -> CallT] /\ book' \in [DOMAIN book' -> Nat]
          /\ bookFile' \in [DOMAIN bookFile' -> Nat]
      BY <1>7, <2>1, CommitStep DEF TypeOK, Moved
    <2> QED
      BY <1>7, <2>2 DEF Commit, TypeOK
  <1>8. ASSUME NEW c \in Calls, NEW ok \in BOOLEAN, Audit(c, ok)
        PROVE  TypeOK'
    BY <1>8, AuditStep DEF Audit, TypeOK, Moved, WithoutHold
  <1>9. ASSUME NEW c \in Calls, NEW o, Finalize(c, o)
        PROVE  TypeOK'
    BY <1>9, FinalizeStep DEF Finalize, TypeOK, Moved, WithoutHold, LogMoves
  <1>10. ASSUME NEW c \in Calls, Reply(c)
         PROVE  TypeOK'
    BY <1>10, ReplyStep DEF Reply, TypeOK, Moved
  <1>11. ASSUME NEW t \in Readings, NEW o, Maintenance(t, o)
         PROVE  TypeOK'
    <2>1. Unexpired(book, t) \in [DOMAIN Unexpired(book, t) -> Nat]
      BY UnexpiredStep DEF TypeOK
    <2>2. t \in Nat
      BY ReadingsNat
    <2>3. LogMoves({h.sig : h \in Lapsed(t)}, Rejected, t) /\ holds' \subseteq holds
      BY <1>11, <2>2, ExpireStep DEF Maintenance
    <2> QED
      BY <1>11, <2>1, <2>3 DEF Maintenance, TypeOK, LogMoves
  <1>12. ASSUME NEW t \in Readings, NEW o, ListHolds(t, o)
         PROVE  TypeOK'
    <2>1. t \in Nat
      BY ReadingsNat
    <2>2. LogMoves({h.sig : h \in Lapsed(t)}, Rejected, t) /\ holds' \subseteq holds
      BY <1>12, <2>1, ExpireStep DEF ListHolds
    <2> QED
      BY <1>12, <2>2 DEF ListHolds, TypeOK, LogMoves
  <1>13. ASSUME KillChange
         PROVE  TypeOK'
    BY <1>13, EngineAssumption DEF KillChange, TypeOK
  <1>14. ASSUME NEW c \in Calls, Panic(c)
         PROVE  TypeOK'
    BY <1>14, PanicStep DEF Panic, TypeOK, Moved
  <1>15. ASSUME Crash
         PROVE  TypeOK'
    <2>1. call' \in [Calls -> CallT]
      BY <1>15, IdleType DEF Crash
    <2>2. replay' \in [DOMAIN replay' -> RecT] /\ DOMAIN replay' \subseteq Ids
          /\ book' \in [DOMAIN book' -> Nat]
      BY <1>15 DEF Crash, Keep
    <2> QED
      BY <1>15, <2>1, <2>2 DEF Crash, TypeOK
  <1>16. ASSUME NEW opens \in BOOLEAN, NEW loads \in BOOLEAN, Start(opens, loads)
         PROVE  TypeOK'
    <2>1. replay' \in [DOMAIN replay' -> RecT] /\ DOMAIN replay' \subseteq Ids
      <3>1. /\ Loaded(now) \in [DOMAIN Loaded(now) -> RecT]
            /\ DOMAIN Loaded(now) \subseteq Ids
        BY LoadedStep DEF TypeOK
      <3>2. replay' = Loaded(now) \/ replay' = Keep(replay, {})
        BY <1>16 DEF Start
      <3> QED
        BY <3>1, <3>2 DEF Keep
    <2>2. log' \in [Ids -> Seq(RecT)]
      <3>1. Loaded(now) \in [DOMAIN Loaded(now) -> RecT]
        BY LoadedStep DEF TypeOK
      <3>2. \A r \in RecT : <<r>> \in Seq(RecT)
        OBVIOUS
      <3>3. <<>> \in Seq(RecT)
        OBVIOUS
      <3>4. \/ log' = [id \in Ids |-> IF id \in DOMAIN Loaded(now) THEN <<Loaded(now)[id]>> ELSE <<>>]
            \/ log' = log
        BY <1>16 DEF Start
      <3> QED
        BY <3>1, <3>2, <3>3, <3>4 DEF TypeOK
    <2>3. book' \in [DOMAIN book' -> Nat]
      BY <1>16 DEF Start, Keep, TypeOK
    <2>4. level' \in Levels
      BY <1>16 DEF Start, TypeOK, Levels, HARD, NORMAL, PHYSICAL
    <2>5. replayOpen' \in BOOLEAN /\ up' \in BOOLEAN /\ poisoned' \in BOOLEAN /\ bookOk' \in BOOLEAN
      BY <1>16 DEF Start
    <2> QED
      BY <1>16, <2>1, <2>2, <2>3, <2>4, <2>5 DEF Start, TypeOK
  <1>17. ASSUME ClockAdvance
         PROVE  TypeOK'
    BY <1>17 DEF ClockAdvance, TypeOK
  <1>18. ASSUME UNCHANGED vars
         PROVE  TypeOK'
    BY <1>18 DEF vars, TypeOK
  <1> QED
    BY <1>1, <1>2, <1>3, <1>4, <1>5, <1>6, <1>7, <1>8, <1>9, <1>10, <1>11, <1>12, <1>13, <1>14,
       <1>15, <1>16, <1>17, <1>18, EngineAssumption, IdleType DEF Next

-----------------------------------------------------------------------------
(* The mutex.                                                              *)

\* A step of call c alone keeps LockInv if what becomes of c respects it.
LEMMA LockMove ==
  ASSUME TypeOK, LockInv, NEW c \in Calls, Moved(c), up, now' = now, up' = up,
         call'[c].pc # "idle" => call'[c].at <= now,
         poisoned' = poisoned \/ call[c].pc \in Locked,
         call'[c].pc \in Locked => ~poisoned' /\ (call[c].pc \in Locked \/ LockFree),
         call'[c].pc = "waiting" => Cancelled(c)' \/ now <= call'[c].at + MaxWait,
         call'[c].pc = "signing" => call'[c].dec.st = "rejected",
         call'[c].pc \in {"reserving", "committed"} => call'[c].dec.st = "approved"
  PROVE  LockInv'
  <1>1. \A q \in Calls : q # c => call'[q] = call[q]
    BY DEF Moved
  <1>2. \A q \in Calls : q # c => (Cancelled(q)' <=> Cancelled(q))
    BY <1>1 DEF Cancelled
  <1>3. (\A q \in Calls : call[q].pc # "idle" => up /\ call[q].at <= now)'
    BY <1>1 DEF LockInv
  <1>4. (\A q \in Calls : call[q].pc \in Locked => ~poisoned)'
    BY <1>1 DEF LockInv, Locked
  <1>5. (\A q, d \in Calls : call[q].pc \in Locked /\ call[d].pc \in Locked => q = d)'
    BY <1>1 DEF LockInv, LockFree
  <1>6. (\A q \in Calls : call[q].pc = "waiting" /\ ~Cancelled(q) => now <= call[q].at + MaxWait)'
    BY <1>1, <1>2 DEF LockInv
  <1>7. (\A q \in Calls : call[q].pc = "signing" => call[q].dec.st = "rejected")'
    BY <1>1 DEF LockInv
  <1>8. (\A q \in Calls : call[q].pc \in {"reserving", "committed"} => call[q].dec.st = "approved")'
    BY <1>1 DEF LockInv
  <1> QED
    BY <1>3, <1>4, <1>5, <1>6, <1>7, <1>8 DEF LockInv

\* Initially nobody has the mutex.
LEMMA LockInit == Init => LockInv
  <1> SUFFICES ASSUME Init PROVE LockInv
    OBVIOUS
  <1>1. \A c \in Calls : call[c] = Idle
    BY DEF Init
  <1>2. \A c \in Calls : call[c].pc = "idle" /\ call[c].pc \notin Locked
    BY <1>1, IdleType DEF Locked
  <1> QED
    BY <1>2 DEF LockInv, Init

\* Every step keeps LockInv.
LEMMA LockNext == TypeOK /\ LockInv /\ [Next]_vars => LockInv'
  <1> SUFFICES ASSUME TypeOK, LockInv, [Next]_vars PROVE LockInv'
    OBVIOUS
  <1>0. \A c \in Calls : call[c].pc # "idle" => up /\ call[c].at <= now
    BY DEF LockInv
  <1>a. /\ "idle" \notin Locked /\ "waiting" \notin Locked /\ "done" \notin Locked
        /\ {"signing", "reserving", "committed", "auditing", "recording"} \subseteq Locked
    BY DEF Locked
  <1>b. \A c \in Calls : call[c].pc \in Locked => ~poisoned
    BY DEF LockInv
  <1>c. /\ Rejected.st = "rejected"
        /\ \A e \in Nat, m \in Nat : Approved([n |-> m, exp |-> e]).st = "approved"
    BY DEF Rejected, Approved
  <1>d. now \in Nat /\ MaxWait \in Nat /\ fresh \in Nat /\ Ttl \in Nat
        /\ \A c \in Calls : call[c].at \in Nat
    BY EngineAssumption DEF TypeOK, CallT
  <1>1. ASSUME NEW c \in Calls, NEW k \in {"submit", "resolve"}, NEW s \in Signals, Begin(c, k, s)
        PROVE  LockInv'
    <2>1. up /\ up' = up /\ now' = now /\ poisoned' = poisoned
      BY <1>1 DEF Begin
    <2>2. /\ Moved(c)
          /\ \/ call'[c].pc = "waiting" /\ call'[c].at = now
             \/ call'[c].pc = "done" /\ call'[c].at = Idle.at
      BY <1>1, BeginStep
    <2>3. Idle.at = 0
      BY DEF Idle
    <2> QED
      BY <2>1, <2>2, <2>3, <1>a, <1>d, LockMove
  <1>2. ASSUME NEW c \in Calls, GiveUp(c)
        PROVE  LockInv'
    <2>1. up' = up /\ now' = now /\ poisoned' = poisoned /\ call[c].pc # "idle"
      BY <1>2 DEF GiveUp
    <2>2. /\ Moved(c) /\ call'[c].pc = call[c].pc /\ call'[c].kind = call[c].kind
          /\ call'[c].at = call[c].at /\ call'[c].gone = TRUE /\ call'[c].dec = call[c].dec
      BY <1>2, GiveUpStep
    <2>3. call[c].pc = "waiting" => Cancelled(c)' \/ now <= call[c].at + MaxWait
      BY <2>2 DEF LockInv, Cancelled
    <2>4. /\ call[c].pc = "signing" => call[c].dec.st = "rejected"
          /\ call[c].pc \in {"reserving", "committed"} => call[c].dec.st = "approved"
      BY DEF LockInv
    <2> QED
      BY <2>1, <2>2, <2>3, <2>4, <1>0, <1>b, LockMove
  <1>3. ASSUME NEW c \in Calls, EnterSubmit(c)
        PROVE  LockInv'
    <2>1. /\ up' = up /\ now' = now /\ poisoned' = poisoned /\ call[c].pc = "waiting" /\ LockFree
      BY <1>3 DEF EnterSubmit
    <2>2. /\ Moved(c) /\ call'[c].at = call[c].at
          /\ \/ call'[c].pc = "done"
             \/ ~poisoned /\ call'[c].pc = "auditing"
             \/ ~poisoned /\ call'[c].pc = "signing" /\ call'[c].dec = Rejected
      BY <1>3, EnterSubmitStep
    <2> QED
      BY <2>1, <2>2, <1>0, <1>a, <1>c, LockMove
  <1>4. ASSUME NEW c \in Calls, NEW o, EnterResolve(c, o)
        PROVE  LockInv'
    <2>1. /\ up' = up /\ now' = now /\ poisoned' = poisoned /\ call[c].pc = "waiting" /\ LockFree
      BY <1>4 DEF EnterResolve
    <2>2. /\ Moved(c) /\ call'[c].at = call[c].at
          /\ \/ call'[c].pc = "done"
             \/ ~poisoned /\ call'[c].pc = "auditing"
             \/ ~poisoned /\ call'[c].pc = "signing" /\ call'[c].dec = Rejected
      BY <1>4, EnterResolveStep
    <2> QED
      BY <2>1, <2>2, <1>0, <1>a, <1>c, LockMove
  <1>5. ASSUME NEW c \in Calls, Sign(c)
        PROVE  LockInv'
    <2>1. up' = up /\ now' = now /\ poisoned' = poisoned /\ call[c].pc = "signing"
      BY <1>5 DEF Sign
    <2>2. /\ Moved(c) /\ call'[c].at = call[c].at
          /\ \/ call'[c].pc = "auditing"
             \/ /\ call'[c].pc = "reserving"
                /\ call'[c].dec = Approved([n |-> fresh + 1, exp |-> call[c].at + Ttl])
      BY <1>5, SignStep DEF Stays
    <2>3. Approved([n |-> fresh + 1, exp |-> call[c].at + Ttl]).st = "approved"
      BY <1>c, <1>d
    <2> QED
      BY <2>1, <2>2, <2>3, <1>0, <1>a, <1>b, LockMove
  <1>6. ASSUME NEW c \in Calls, NEW o, Reserve(c, o)
        PROVE  LockInv'
    <2>1. up' = up /\ now' = now /\ poisoned' = poisoned /\ call[c].pc = "reserving"
      BY <1>6 DEF Reserve
    <2>2. /\ Moved(c) /\ call'[c].at = call[c].at
          /\ \/ call'[c].pc = "auditing"
             \/ call'[c].pc = "committed" /\ call'[c].dec = call[c].dec
      BY <1>6, ReserveStep DEF Stays
    <2>3. call[c].dec.st = "approved"
      BY <2>1 DEF LockInv
    <2> QED
      BY <2>1, <2>2, <2>3, <1>0, <1>a, <1>b, LockMove
  <1>7. ASSUME NEW c \in Calls, NEW o, Commit(c, o)
        PROVE  LockInv'
    <2>1. up' = up /\ now' = now /\ poisoned' = poisoned /\ call[c].pc = "committed"
      BY <1>7 DEF Commit
    <2>2. Moved(c) /\ call'[c].at = call[c].at /\ call'[c].pc = "auditing"
      BY <1>7, CommitStep DEF Stays
    <2> QED
      BY <2>1, <2>2, <1>0, <1>a, <1>b, LockMove
  <1>8. ASSUME NEW c \in Calls, NEW ok \in BOOLEAN, Audit(c, ok)
        PROVE  LockInv'
    <2>1. up' = up /\ now' = now /\ poisoned' = poisoned /\ call[c].pc = "auditing"
      BY <1>8 DEF Audit
    <2>2. Moved(c) /\ call'[c].at = call[c].at /\ call'[c].pc \in {"recording", "done"}
      BY <1>8, AuditStep DEF Stays
    <2> QED
      BY <2>1, <2>2, <1>0, <1>a, <1>b, LockMove
  <1>9. ASSUME NEW c \in Calls, NEW o, Finalize(c, o)
        PROVE  LockInv'
    <2>1. up' = up /\ now' = now /\ poisoned' = poisoned /\ call[c].pc = "recording"
      BY <1>9 DEF Finalize
    <2>2. Moved(c) /\ call'[c].at = call[c].at /\ call'[c].pc = "done"
      BY <1>9, FinalizeStep DEF Stays
    <2> QED
      BY <2>1, <2>2, <1>0, <1>a, <1>b, LockMove
  <1>10. ASSUME NEW c \in Calls, Reply(c)
         PROVE  LockInv'
    <2>1. up' = up /\ now' = now /\ poisoned' = poisoned /\ call[c].pc = "done"
      BY <1>10 DEF Reply
    <2>2. Moved(c) /\ call'[c].pc = "idle"
      BY <1>10, ReplyStep, IdleType
    <2> QED
      BY <2>1, <2>2, <1>0, <1>a, <1>b, LockMove
  <1>11. ASSUME NEW t \in Readings, NEW o, Maintenance(t, o) \/ ListHolds(t, o)
         PROVE  LockInv'
    <2>1. UNCHANGED <<now, up, poisoned, call>> /\ up
      BY <1>11 DEF Maintenance, ListHolds
    <2> QED
      BY <2>1 DEF LockInv, Cancelled
  <1>12. ASSUME KillChange
         PROVE  LockInv'
    BY <1>12 DEF KillChange, LockInv, Cancelled
  <1>13. ASSUME NEW c \in Calls, Panic(c)
         PROVE  LockInv'
    <2>1. up' = up /\ now' = now /\ call[c].pc \in Locked
      BY <1>13 DEF Panic
    <2>2. Moved(c) /\ call'[c].at = call[c].at /\ call'[c].pc = "done"
      BY <1>13, PanicStep DEF Stays
    <2> QED
      BY <2>1, <2>2, <1>0, <1>a, <1>b, LockMove
  <1>14. ASSUME Crash
         PROVE  LockInv'
    <2>1. \A c \in Calls : call'[c] = Idle
      BY <1>14 DEF Crash
    <2>2. \A c \in Calls : call'[c].pc = "idle"
      BY <2>1, IdleType
    <2> QED
      BY <1>14, <2>2, <1>a DEF Crash, LockInv
  <1>15. ASSUME NEW opens \in BOOLEAN, NEW loads \in BOOLEAN, Start(opens, loads)
         PROVE  LockInv'
    <2>1. ~up /\ up' /\ UNCHANGED <<now, call, holds>>
      BY <1>15 DEF Start
    <2>2. \A c \in Calls : call[c].pc = "idle"
      BY <2>1, <1>0
    <2> QED
      BY <2>1, <2>2, <1>a DEF LockInv
  <1>16. ASSUME ClockAdvance
         PROVE  LockInv'
    <2>1. /\ now' = now + 1 /\ UNCHANGED <<up, poisoned, call, holds>>
          /\ \A c \in Calls : call[c].pc = "waiting" /\ ~Cancelled(c) => now < call[c].at + MaxWait
      BY <1>16 DEF ClockAdvance
    <2>2. \A c \in Calls : call[c].pc = "waiting" /\ ~Cancelled(c) => now + 1 <= call[c].at + MaxWait
      BY <2>1, <1>d
    <2>3. \A c \in Calls : call[c].pc # "idle" => up /\ call[c].at <= now + 1
      BY <1>0, <1>d
    <2>4. \A c \in Calls : Cancelled(c)' <=> Cancelled(c)
      BY <2>1 DEF Cancelled
    <2> QED
      BY <2>1, <2>2, <2>3, <2>4 DEF LockInv
  <1>17. ASSUME UNCHANGED vars
         PROVE  LockInv'
    BY <1>17 DEF vars, LockInv, Cancelled
  <1> QED
    BY <1>1, <1>2, <1>3, <1>4, <1>5, <1>6, <1>7, <1>8, <1>9, <1>10, <1>11, <1>12, <1>13, <1>14,
       <1>15, <1>16, <1>17, EngineAssumption, IdleType DEF Next

-----------------------------------------------------------------------------
(* Attestations that are known somewhere, and the claims they make.        *)

\* Membership in Known, spelled out.
LEMMA KnownIs ==
  ASSUME NEW s \in Signals, NEW a
  PROVE  a \in Known(s) <=>
           \/ a \in delivered[s]
           \/ \E c \in Calls : call[c].pc = "done" /\ Grants(call[c], s) /\ call[c].dec.att = a
           \/ \E i \in DOMAIN log[IdOf[s]] : /\ Grants(log[IdOf[s]][i], s)
                                             /\ log[IdOf[s]][i].dec.att = a
           \/ /\ IdOf[s] \in DOMAIN replay /\ Grants(replay[IdOf[s]], s)
              /\ replay[IdOf[s]].dec.att = a
  BY DEF Known

\* The same after a step.
LEMMA KnownIsNext ==
  ASSUME NEW s \in Signals, NEW a
  PROVE  a \in Known(s)' <=>
           \/ a \in delivered'[s]
           \/ \E c \in Calls : call'[c].pc = "done" /\ Grants(call'[c], s) /\ call'[c].dec.att = a
           \/ \E i \in DOMAIN log'[IdOf[s]] : /\ Grants(log'[IdOf[s]][i], s)
                                              /\ log'[IdOf[s]][i].dec.att = a
           \/ /\ IdOf[s] \in DOMAIN replay' /\ Grants(replay'[IdOf[s]], s)
              /\ replay'[IdOf[s]].dec.att = a
  BY DEF Known, Grants

\* What is known are attestations.
LEMMA KnownType ==
  ASSUME TypeOK, NEW s \in Signals
  PROVE  Known(s) \subseteq Atts
  <1>1. delivered[s] \subseteq Atts
    BY DEF TypeOK
  <1>2. \A c \in Calls : call[c].dec.att \in Atts
    BY DEF TypeOK, CallT, Decs
  <1>3. IdOf[s] \in Ids
    BY DEF Ids
  <1>4. \A i \in DOMAIN log[IdOf[s]] : log[IdOf[s]][i].dec.att \in Atts
    <2>1. log[IdOf[s]] \in Seq(RecT)
      BY <1>3 DEF TypeOK
    <2>2. \A i \in DOMAIN log[IdOf[s]] : log[IdOf[s]][i] \in RecT
      BY <2>1, LenProperties, ElementOfSeq
    <2> QED
      BY <2>2 DEF RecT, Decs
  <1>5. IdOf[s] \in DOMAIN replay => replay[IdOf[s]].dec.att \in Atts
    <2>1. IdOf[s] \in DOMAIN replay => replay[IdOf[s]] \in RecT
      BY DEF TypeOK
    <2> QED
      BY <2>1 DEF RecT, Decs
  <1> QED
    BY <1>1, <1>2, <1>4, <1>5, KnownIs

NoNewKnown == \A s \in Signals : Known(s)' \subseteq Known(s)

\* A step that delivers nothing, writes no approval to the store and lets no call
\* end with an approval that was not known before makes no attestation known.
LEMMA KnownStep ==
  ASSUME TypeOK, NEW S \in SUBSET Signals, NEW d \in Decs, d.st # "approved", NEW t \in Nat,
         LogMoves(S, d, t), delivered' = delivered,
         \A c \in Calls : \/ call'[c] = call[c]
                          \/ call'[c].pc # "done"
                          \/ call'[c].dec.st # "approved"
                          \/ call'[c].dec.att \in Known(call'[c].sig)
  PROVE  NoNewKnown
  <1> SUFFICES ASSUME NEW s \in Signals, NEW a \in Known(s)'
               PROVE  a \in Known(s)
    BY DEF NoNewKnown
  <1> DEFINE id == IdOf[s]
  <1>0. id \in Ids /\ log[id] \in Seq(RecT) /\ log'[id] \in Seq(RecT)
    BY DEF Ids, TypeOK, LogMoves
  <1>1. CASE a \in delivered'[s]
    BY <1>1, KnownIs
  <1>2. ASSUME NEW c \in Calls, call'[c].pc = "done", Grants(call'[c], s), call'[c].dec.att = a
        PROVE  a \in Known(s)
    <2>1. call'[c].sig = s /\ call'[c].dec.st = "approved"
      BY <1>2 DEF Grants
    <2>2. CASE call'[c] = call[c]
      BY <1>2, <2>2, KnownIs
    <2> QED
      BY <1>2, <2>1, <2>2
  <1>3. ASSUME NEW x \in S, Grants(Record(x, d, t), s)
        PROVE  FALSE
    BY <1>3, RecordType DEF Grants
  <1>4. ASSUME NEW i \in DOMAIN log'[id], Grants(log'[id][i], s), log'[id][i].dec.att = a
        PROVE  a \in Known(s)
    <2>1. CASE log'[id] = log[id]
      BY <1>4, <2>1, KnownIs
    <2>2. CASE \E x \in S : IdOf[x] = id /\ log'[id] = Append(log[id], Record(x, d, t))
      <3>1. PICK x \in S : log'[id] = Append(log[id], Record(x, d, t))
        BY <2>2
      <3>2. Record(x, d, t) \in RecT
        BY RecordType
      <3>3. /\ Len(log'[id]) = Len(log[id]) + 1
            /\ \A j \in 1..Len(log[id]) : log'[id][j] = log[id][j]
            /\ log'[id][Len(log[id]) + 1] = Record(x, d, t)
        BY <3>1, <3>2, <1>0, AppendProperties
      <3>4. /\ DOMAIN log'[id] = 1..Len(log'[id]) /\ DOMAIN log[id] = 1..Len(log[id])
            /\ Len(log[id]) \in Nat
        BY <1>0, LenProperties
      <3> HIDE DEF id
      <3>5. i = Len(log[id]) + 1 \/ i \in 1..Len(log[id])
        BY <1>4, <3>3, <3>4
      <3>6. i \in 1..Len(log[id])
        BY <1>3, <1>4, <3>1, <3>3, <3>5
      <3>7. i \in DOMAIN log[id] /\ Grants(log[id][i], s) /\ log[id][i].dec.att = a
        BY <1>4, <3>3, <3>4, <3>6
      <3> QED
        BY <3>7, KnownIs DEF id
    <2> QED
      BY <2>1, <2>2, <1>0 DEF LogMoves
  <1>5. ASSUME id \in DOMAIN replay', Grants(replay'[id], s), replay'[id].dec.att = a
        PROVE  a \in Known(s)
    <2>1. CASE id \in DOMAIN replay /\ replay'[id] = replay[id]
      BY <1>5, <2>1, KnownIs
    <2>2. CASE \E x \in S : replay'[id] = Record(x, d, t)
      BY <1>3, <1>5, <2>2
    <2> QED
      BY <1>5, <2>1, <2>2 DEF LogMoves
  <1> QED
    BY <1>1, <1>2, <1>4, <1>5, KnownIsNext

\* Membership in KClaims, spelled out.
LEMMA KClaimsIs ==
  ASSUME NEW id, NEW u
  PROVE  u \in KClaims(id) <=>
           \E s \in Signals : /\ IdOf[s] = id
                              /\ \/ Known(s) # {} /\ u = Deadline(s)
                                 \/ \E a \in Known(s) : u = a.exp
  <1> HIDE DEF Deadline
  <1> QED
    BY DEF KClaims

\* The same after a step.
LEMMA KClaimsIsNext ==
  ASSUME NEW id, NEW u
  PROVE  u \in KClaims(id)' <=>
           \E s \in Signals : /\ IdOf[s] = id
                              /\ \/ Known(s)' # {} /\ u = Deadline(s)
                                 \/ \E a \in Known(s)' : u = a.exp
  <1>1. \A s \in Signals : Deadline(s)' = Deadline(s)
    BY DEF Deadline
  <1> QED
    BY <1>1 DEF KClaims

\* Membership in HClaims, spelled out.
LEMMA HClaimsIs ==
  ASSUME NEW id, NEW u
  PROVE  u \in HClaims(id) <=>
           \E h \in holds : ~poisoned /\ IdOf[h.sig] = id /\ ~Pending(h) /\ u = Deadline(h.sig)
  BY DEF HClaims

\* The same after a step.
LEMMA HClaimsIsNext ==
  ASSUME NEW id, NEW u
  PROVE  u \in HClaims(id)' <=>
           \E h \in holds' : ~poisoned' /\ IdOf[h.sig] = id /\ ~Pending(h)' /\ u = Deadline(h.sig)
  BY DEF HClaims, Pending, Deadline

\* Deadlines are times.
LEMMA DeadlineType == \A s \in Signals : Deadline(s) \in Nat
  BY EngineAssumption DEF Deadline

\* Claims are times.
LEMMA ClaimsType ==
  ASSUME TypeOK, NEW id
  PROVE  Claims(id) \subseteq Nat /\ KClaims(id) \subseteq Claims(id)
  <1>1. KClaims(id) \subseteq Nat
    <2>1. \A s \in Signals : \A a \in Known(s) : a.exp \in Nat
      BY KnownType DEF Atts
    <2> QED
      BY <2>1, DeadlineType, KClaimsIs
  <1>2. HClaims(id) \subseteq Nat
    <2>1. \A h \in holds : h.sig \in Signals
      BY DEF TypeOK, HoldT
    <2> QED
      BY <2>1, DeadlineType, HClaimsIs
  <1> QED
    BY <1>1, <1>2 DEF Claims

HoldsQuiet ==
  \A h \in holds' : ~poisoned' /\ ~Pending(h)' => h \in holds /\ ~poisoned /\ ~Pending(h)

NoNewClaims == \A id \in Ids : Claims(id)' \subseteq Claims(id)

\* Without new attestations there are no new claims of attestations.
LEMMA KClaimsShrink ==
  ASSUME NoNewKnown, NEW id
  PROVE  KClaims(id)' \subseteq KClaims(id)
  BY KClaimsIs, KClaimsIsNext DEF NoNewKnown

\* And no new claims at all, if no further hold becomes releasable.
LEMMA ClaimsShrink == NoNewKnown /\ HoldsQuiet => NoNewClaims
  <1> SUFFICES ASSUME NoNewKnown, HoldsQuiet, NEW id \in Ids
               PROVE  Claims(id)' \subseteq Claims(id)
    BY DEF NoNewClaims
  <1>1. KClaims(id)' \subseteq KClaims(id)
    BY KClaimsShrink
  <1>2. HClaims(id)' \subseteq HClaims(id)
    BY HClaimsIs, HClaimsIsNext DEF HoldsQuiet
  <1> QED
    BY <1>1, <1>2 DEF Claims

\* A write of the store at a reading that outlasts the claim keeps it covered.
LEMMA CoverStep ==
  ASSUME TypeOK, NEW S \in SUBSET Signals, NEW d \in Decs, NEW t \in Nat, LogMoves(S, d, t),
         t <= now, UNCHANGED <<now, up, replayOpen>>,
         NEW id \in Ids, NEW u \in Nat, u <= t + Retention, Covered(id, u)
  PROVE  Covered(id, u)'
  <1>0. now \in Nat /\ Retention \in Nat
    BY EngineAssumption DEF TypeOK
  <1> SUFFICES ASSUME ~(u < now)
               PROVE  InLog(id, u)' /\ (up /\ replayOpen => InMap(id, u)')
    BY DEF Covered
  <1>1. InLog(id, u) /\ (up /\ replayOpen => InMap(id, u))
    BY DEF Covered
  <1>2. \A s \in S : Record(s, d, t) \in RecT /\ Record(s, d, t).at = t
    BY RecordType
  <1>3. InLog(id, u)'
    <2>1. CASE log'[id] = log[id]
      BY <1>1, <2>1 DEF InLog
    <2>2. ASSUME NEW s \in S, log'[id] = Append(log[id], Record(s, d, t))
          PROVE  InLog(id, u)'
      <3>1. log[id] \in Seq(RecT)
        BY DEF TypeOK
      <3>2. log'[id] # <<>> /\ log'[id][Len(log'[id])] = Record(s, d, t)
        BY <3>1, <2>2, <1>2, AppendProperties
      <3> QED
        BY <3>2, <1>2 DEF InLog
    <2> QED
      BY <2>1, <2>2 DEF LogMoves
  <1>4. ASSUME up, replayOpen
        PROVE  InMap(id, u)'
    <2>1. id \in DOMAIN replay /\ replay[id].at + Retention >= u
      BY <1>1, <1>4 DEF InMap
    <2>2. replay[id].at \in Nat
      BY <2>1 DEF TypeOK, RecT
    <2>3. Retained(replay[id], t)
      BY <2>1, <2>2, <1>0 DEF Retained
    <2>4. id \in DOMAIN replay'
      BY <2>1, <2>3 DEF LogMoves
    <2>5. replay'[id] = replay[id] \/ \E s \in S : replay'[id] = Record(s, d, t)
      BY <2>4 DEF LogMoves
    <2> QED
      BY <2>1, <2>4, <2>5, <1>2 DEF InMap
  <1> QED
    BY <1>3, <1>4

\* What is covered stays covered while the store and the clock stand still.
LEMMA CoverStill ==
  ASSUME UNCHANGED <<log, replay, up, replayOpen>>, now' = now, NEW id, NEW u, Covered(id, u)
  PROVE  Covered(id, u)'
  BY DEF Covered, InLog, InMap

\* ClaimsCovered after a step without new claims that keeps the old ones covered.
LEMMA CoveredStep ==
  ASSUME ClaimsCovered, NoNewClaims,
         \A id \in Ids : \A u \in Claims(id) : Covered(id, u) => Covered(id, u)'
  PROVE  ClaimsCovered'
  BY DEF ClaimsCovered, NoNewClaims, Ids

\* Claims stay within reach of every call that has the mutex or just got it.
LEMMA BoundedStep ==
  ASSUME TypeOK, ClaimsBounded, NoNewClaims, now' \in Nat, now <= now',
         \A c \in Calls : call'[c].at \in Nat,
         \A c \in Calls : call'[c].pc \in Locked =>
            \/ call[c].pc \in Locked /\ call'[c].at = call[c].at
            \/ now <= call'[c].at + MaxWait
  PROVE  ClaimsBounded'
  <1> SUFFICES ASSUME NEW id \in Ids, NEW u \in Claims(id)'
               PROVE  /\ u + MaxWait <= now' + Retention
                      /\ \A c \in Calls : call'[c].pc \in Locked => u <= call'[c].at + Retention
    BY DEF ClaimsBounded, Ids
  <1>1. u \in Claims(id) /\ u \in Nat
    BY ClaimsType DEF NoNewClaims
  <1>2. /\ u + MaxWait <= now + Retention
        /\ \A c \in Calls : call[c].pc \in Locked => u <= call[c].at + Retention
    BY <1>1 DEF ClaimsBounded
  <1>3. now \in Nat /\ Retention \in Nat /\ MaxWait \in Nat
    BY EngineAssumption DEF TypeOK
  <1>4. u + MaxWait <= now' + Retention
    <2> DEFINE n == now'
    <2>1. n \in Nat /\ now <= n
      OBVIOUS
    <2> HIDE DEF n
    <2>2. u + MaxWait <= n + Retention
      BY <1>1, <1>2, <1>3, <2>1
    <2> QED
      BY <2>2 DEF n
  <1>5. ASSUME NEW c \in Calls, call'[c].pc \in Locked
        PROVE  u <= call'[c].at + Retention
    <2>1. call'[c].at \in Nat
      OBVIOUS
    <2>2. CASE call[c].pc \in Locked /\ call'[c].at = call[c].at
      BY <1>2, <2>2
    <2>3. CASE now <= call'[c].at + MaxWait
      <3> DEFINE at == call'[c].at
      <3>1. at \in Nat /\ now <= at + MaxWait /\ u + MaxWait <= now + Retention
        BY <2>1, <2>3, <1>2
      <3> HIDE DEF at
      <3>2. u <= at + Retention
        BY <3>1, <1>1, <1>3
      <3> QED
        BY <3>2 DEF at
    <2> QED
      BY <1>5, <2>2, <2>3
  <1> QED
    BY <1>4, <1>5

\* HoldsAlone after a step that makes nothing known and adds no hold.
LEMMA AloneStep ==
  ASSUME TypeOK, HoldsAlone, NoNewKnown, now' \in Nat, now <= now', holds' \subseteq holds,
         (poisoned => poisoned') \/ holds' = {}
  PROVE  HoldsAlone'
  <1> SUFFICES ASSUME ~poisoned', NEW h \in holds', now' <= Deadline(h.sig)
               PROVE  /\ \A u \in KClaims(IdOf[h.sig])' : u < now'
                      /\ \A g \in holds' : IdOf[g.sig] = IdOf[h.sig] /\ now' <= Deadline(g.sig)
                                             => g = h
    <2>1. \A s : Deadline(s)' = Deadline(s)
      BY DEF Deadline
    <2> QED
      BY <2>1 DEF HoldsAlone
  <1>1. now \in Nat /\ \A g \in holds : Deadline(g.sig) \in Nat
    BY DeadlineType DEF TypeOK, HoldT
  <1>2. /\ \A u \in KClaims(IdOf[h.sig]) : u < now
        /\ \A g \in holds : IdOf[g.sig] = IdOf[h.sig] /\ now <= Deadline(g.sig) => g = h
    BY <1>1 DEF HoldsAlone
  <1>3. KClaims(IdOf[h.sig])' \subseteq KClaims(IdOf[h.sig]) /\ KClaims(IdOf[h.sig]) \subseteq Nat
    BY KClaimsShrink, ClaimsType
  <1>4. \A u \in KClaims(IdOf[h.sig])' : u < now'
    BY <1>1, <1>2, <1>3
  <1> QED
    BY <1>1, <1>2, <1>4

\* One attestation, on the record, after a step that makes nothing known.
LEMMA AttestedStep ==
  ASSUME NoNewKnown, OneAttestation, Audited, audited \subseteq audited'
  PROVE  OneAttestation' /\ Audited'
  BY DEF NoNewKnown, OneAttestation, Audited

\* HoldIds after a step that adds no hold.
LEMMA HoldIdsStep ==
  ASSUME TypeOK, HoldIds, holds' \subseteq holds, fresh' \in Nat, fresh <= fresh',
         \A c \in Calls : call'[c].pc \in Locked /\ call'[c].dec.st = "held" =>
            /\ call[c].pc \in Locked /\ call'[c].dec = call[c].dec
            /\ call'[c].sig = call[c].sig /\ call'[c].at = call[c].at
            /\ call'[c].keep = call[c].keep
  PROVE  HoldIds'
  <1>1. \A h \in holds : h.id \in Nat
    BY DEF TypeOK, HoldT
  <1>2. (\A h \in holds : h.id <= fresh)'
    BY <1>1 DEF HoldIds, TypeOK
  <1>3. ASSUME NEW c \in Calls, call'[c].pc \in Locked, call'[c].dec.st = "held"
        PROVE  /\ call'[c].keep
               /\ CreatedAt[call'[c].sig] <= call'[c].at + Skew
               /\ \A h \in holds' : h.id = call'[c].dec.hold => h.sig = call'[c].sig
    BY <1>3 DEF HoldIds
  <1> QED
    BY <1>2, <1>3 DEF HoldIds

\* Backed after a step that keeps the reservations that still matter.
LEMMA BackedStep ==
  ASSUME TypeOK, Backed, NoNewKnown, now' \in Nat, now <= now',
         \A s \in Signals : \A a \in Known(s) :
            ~(a.exp < now') /\ Backs(IdOf[s], a.exp) => Backs(IdOf[s], a.exp)'
  PROVE  Backed'
  <1> SUFFICES ASSUME NEW s \in Signals, NEW a \in Known(s)'
               PROVE  a.exp < now' \/ Backs(IdOf[s], a.exp)'
    BY DEF Backed
  <1>1. a \in Known(s) /\ a.exp \in Nat
    BY KnownType DEF NoNewKnown, Atts
  <1>2. a.exp < now \/ Backs(IdOf[s], a.exp)
    BY <1>1 DEF Backed
  <1> QED
    BY <1>1, <1>2 DEF TypeOK

\* Reservations stand while the books stand still.
LEMMA BooksStill ==
  ASSUME UNCHANGED <<book, bookFile, up, bookOk>>, NEW id, NEW e, Backs(id, e)
  PROVE  Backs(id, e)'
  BY DEF Backs

\* What is true of a call on its way to an approval stays true while it keeps its
\* mutex, its signal and its reading of the clock.
LEMMA ApproverStep ==
  ASSUME TypeOK, ApproverInv, NoNewKnown, now' \in Nat, now <= now', holds' \subseteq holds,
         \A c \in Calls : Approver(c)' =>
           /\ Approver(c) /\ call'[c].sig = call[c].sig /\ call'[c].at = call[c].at
           /\ call'[c].keep = call[c].keep
           /\ \/ call'[c].dec = call[c].dec
              \/ call'[c].dec.att.exp = call[c].at + Ttl
           /\ call'[c].pc \in {"committed", "auditing", "recording"} =>
                bookOk' /\ \A s \in {call[c].sig}, e \in {call'[c].dec.att.exp} : Backs(IdOf[s], e)'
           /\ call'[c].pc = "recording" /\ AuditMandatory => call'[c].dec.att.n \in audited'
  PROVE  ApproverInv'
  <1> SUFFICES ASSUME NEW c \in Calls, NEW s \in Signals, Approver(c)', call'[c].sig = s
        PROVE  /\ call'[c].keep
               /\ CreatedAt[s] <= call'[c].at + Skew
               /\ Known(s)' = {}
               /\ \A u \in KClaims(IdOf[s])' : u < now'
               /\ \A h \in holds' : IdOf[h.sig] = IdOf[s] => Deadline(h.sig) < now'
               /\ call'[c].dec.st = "approved" => call'[c].dec.att.exp = call'[c].at + Ttl
               /\ call'[c].pc \in {"committed", "auditing", "recording"} =>
                    bookOk' /\ \A e \in {call'[c].dec.att.exp} : Backs(IdOf[s], e)'
               /\ call'[c].pc = "recording" /\ AuditMandatory => call'[c].dec.att.n \in audited'
    <2>1. \A x : Deadline(x)' = Deadline(x)
      BY DEF Deadline
    <2> QED
      BY <2>1 DEF ApproverInv
  <1>1. /\ Approver(c) /\ call[c].sig = s /\ call'[c].at = call[c].at
        /\ call'[c].keep = call[c].keep
        /\ call'[c].dec = call[c].dec \/ call'[c].dec.att.exp = call[c].at + Ttl
        /\ call'[c].pc \in {"committed", "auditing", "recording"} =>
             bookOk' /\ \A e \in {call'[c].dec.att.exp} : Backs(IdOf[s], e)'
        /\ call'[c].pc = "recording" /\ AuditMandatory => call'[c].dec.att.n \in audited'
    OBVIOUS
  <1>2. /\ call[c].keep
        /\ CreatedAt[s] <= call[c].at + Skew
        /\ Known(s) = {}
        /\ \A u \in KClaims(IdOf[s]) : u < now
        /\ \A h \in holds : IdOf[h.sig] = IdOf[s] => Deadline(h.sig) < now
        /\ call[c].dec.st = "approved" => call[c].dec.att.exp = call[c].at + Ttl
    BY <1>1 DEF ApproverInv
  <1>3. now \in Nat /\ (\A h \in holds : Deadline(h.sig) \in Nat) /\ KClaims(IdOf[s]) \subseteq Nat
    BY DeadlineType, ClaimsType DEF TypeOK, HoldT
  <1>4. Known(s)' = {}
    BY <1>2 DEF NoNewKnown
  <1>5. \A u \in KClaims(IdOf[s])' : u < now'
    BY <1>2, <1>3, KClaimsShrink
  <1>6. \A h \in holds' : IdOf[h.sig] = IdOf[s] => Deadline(h.sig) < now'
    BY <1>2, <1>3
  <1>7. call'[c].dec.st = "approved" => call'[c].dec.att.exp = call'[c].at + Ttl
    BY <1>1, <1>2
  <1> QED
    BY <1>1, <1>2, <1>4, <1>5, <1>6, <1>7

-----------------------------------------------------------------------------
(* The invariant, step by step.                                            *)

\* The invariant after any step that makes nothing known, makes no hold
\* releasable and begins no approval.
LEMMA MainStep ==
  ASSUME TypeOK, Inv, TypeOK', NoNewKnown, HoldsQuiet, now <= now', fresh <= fresh',
         holds' \subseteq holds, (poisoned => poisoned') \/ holds' = {}, audited \subseteq audited',
         \A id \in Ids : \A u \in Claims(id) : Covered(id, u) => Covered(id, u)',
         \A c \in Calls : call'[c].pc \in Locked =>
            \/ call[c].pc \in Locked /\ call'[c].at = call[c].at
            \/ now <= call'[c].at + MaxWait,
         \A c \in Calls : call'[c].pc \in Locked /\ call'[c].dec.st = "held" =>
            /\ call[c].pc \in Locked /\ call'[c].dec = call[c].dec
            /\ call'[c].sig = call[c].sig /\ call'[c].at = call[c].at
            /\ call'[c].keep = call[c].keep,
         \A c \in Calls : Approver(c)' =>
           /\ Approver(c) /\ call'[c].sig = call[c].sig /\ call'[c].at = call[c].at
           /\ call'[c].keep = call[c].keep
           /\ \/ call'[c].dec = call[c].dec
              \/ call'[c].dec.att.exp = call[c].at + Ttl
           /\ call'[c].pc \in {"committed", "auditing", "recording"} =>
                bookOk' /\ \A s \in {call[c].sig}, e \in {call'[c].dec.att.exp} : Backs(IdOf[s], e)'
           /\ call'[c].pc = "recording" /\ AuditMandatory => call'[c].dec.att.n \in audited',
         \A s \in Signals : \A a \in Known(s) :
            ~(a.exp < now') /\ Backs(IdOf[s], a.exp) => Backs(IdOf[s], a.exp)'
  PROVE  Inv'
  <1>1. now' \in Nat /\ fresh' \in Nat /\ \A c \in Calls : call'[c].at \in Nat
    BY DEF TypeOK, CallT
  <1>2. NoNewClaims
    BY ClaimsShrink
  <1>3. OneAttestation' /\ Audited'
    BY AttestedStep DEF Inv
  <1>4. Backed'
    BY <1>1, BackedStep DEF Inv
  <1>5. ClaimsCovered'
    BY <1>2, CoveredStep DEF Inv
  <1>6. ClaimsBounded'
    BY <1>1, <1>2, BoundedStep DEF Inv
  <1>7. HoldsAlone'
    BY <1>1, AloneStep DEF Inv
  <1>8. HoldIds'
    BY <1>1, HoldIdsStep DEF Inv
  <1>9. ApproverInv'
    BY <1>1, ApproverStep DEF Inv
  <1> QED
    BY <1>3, <1>4, <1>5, <1>6, <1>7, <1>8, <1>9 DEF Inv

\* A step of one call makes no hold releasable, unless it reports one.
LEMMA QuietMove ==
  ASSUME NEW c \in Calls, Moved(c), holds' \subseteq holds, poisoned => poisoned',
         call[c].pc \in Locked /\ call[c].dec.st = "held" =>
            \/ call'[c].pc \in Locked /\ call'[c].dec = call[c].dec
            \/ poisoned'
            \/ \A h \in holds' : h.id # call[c].dec.hold
  PROVE  HoldsQuiet
  <1> SUFFICES ASSUME NEW h \in holds', ~poisoned', ~Pending(h)', Pending(h)
               PROVE  FALSE
    BY DEF HoldsQuiet
  <1>1. PICK q \in Calls : call[q].pc \in Locked /\ call[q].dec.st = "held"
                           /\ call[q].dec.hold = h.id
    BY DEF Pending
  <1>2. CASE q = c
    BY <1>1, <1>2 DEF Pending
  <1>3. CASE q # c
    BY <1>1, <1>3 DEF Pending, Moved
  <1> QED
    BY <1>2, <1>3

\* A step of one call that touches neither the reservations nor, but for
\* rejections, the replay store.
LEMMA PlainStep ==
  ASSUME IInv, TypeOK', NEW c \in Calls, Moved(c), NoNewKnown,
         UNCHANGED <<now, up, replayOpen, book, bookOk, bookFile>>,
         fresh <= fresh', audited \subseteq audited', holds' \subseteq holds, poisoned => poisoned',
         \A id \in Ids : \A u \in Claims(id) : Covered(id, u) => Covered(id, u)',
         call[c].pc \in Locked /\ call[c].dec.st = "held" =>
            \/ call'[c].pc \in Locked /\ call'[c].dec = call[c].dec
            \/ poisoned'
            \/ \A h \in holds' : h.id # call[c].dec.hold,
         call'[c].pc \in Locked =>
            \/ call[c].pc \in Locked /\ call'[c].at = call[c].at
            \/ now <= call'[c].at + MaxWait,
         call'[c].pc \in Locked /\ call'[c].dec.st = "held" =>
            /\ call[c].pc \in Locked /\ call'[c].dec = call[c].dec
            /\ call'[c].sig = call[c].sig /\ call'[c].at = call[c].at
            /\ call'[c].keep = call[c].keep,
         Approver(c)' =>
           /\ Approver(c) /\ call'[c].sig = call[c].sig /\ call'[c].at = call[c].at
           /\ call'[c].keep = call[c].keep
           /\ \/ call'[c].dec = call[c].dec
              \/ call'[c].dec.att.exp = call[c].at + Ttl /\ call'[c].pc = "reserving"
           /\ call'[c].pc \in {"committed", "auditing", "recording"} =>
                call[c].pc \in {"committed", "auditing", "recording"}
           /\ call'[c].pc = "recording" /\ AuditMandatory => call'[c].dec.att.n \in audited'
  PROVE  Inv'
  <1>1. TypeOK /\ Inv /\ now \in Nat
    BY DEF IInv, TypeOK
  <1>2. HoldsQuiet
    BY QuietMove
  <1>3. \A q \in Calls : q # c => call'[q] = call[q]
    BY DEF Moved
  <1>4. \A id, e : Backs(id, e) => Backs(id, e)'
    BY BooksStill
  <1>5. \A q \in Calls : q # c => (Approver(q)' <=> Approver(q))
    BY <1>3 DEF Approver
  <1>6. ASSUME NEW q \in Calls, Approver(q),
               call[q].pc \in {"committed", "auditing", "recording"}
        PROVE  bookOk' /\ \A s \in {call[q].sig}, e \in {call[q].dec.att.exp} : Backs(IdOf[s], e)'
    <2>1. call[q].sig \in Signals
      BY <1>1 DEF TypeOK, CallT
    <2>2. bookOk /\ \A e \in {call[q].dec.att.exp} : Backs(IdOf[call[q].sig], e)
      BY <1>1, <1>6, <2>1 DEF Inv, ApproverInv
    <2> QED
      BY <2>2, <1>4
  <1>7. ASSUME NEW q \in Calls, Approver(q), call[q].pc = "recording", AuditMandatory
        PROVE  call[q].dec.att.n \in audited'
    <2>1. call[q].sig \in Signals
      BY <1>1 DEF TypeOK, CallT
    <2>2. call[q].dec.att.n \in audited
      BY <1>1, <1>7, <2>1 DEF Inv, ApproverInv
    <2> QED
      BY <2>2
  <1>8. ASSUME NEW q \in Calls, Approver(q)'
        PROVE  /\ Approver(q) /\ call'[q].sig = call[q].sig /\ call'[q].at = call[q].at
               /\ call'[q].keep = call[q].keep
               /\ \/ call'[q].dec = call[q].dec
                  \/ call'[q].dec.att.exp = call[q].at + Ttl
               /\ call'[q].pc \in {"committed", "auditing", "recording"} =>
                    bookOk' /\ \A s \in {call[q].sig}, e \in {call'[q].dec.att.exp} : Backs(IdOf[s], e)'
               /\ call'[q].pc = "recording" /\ AuditMandatory => call'[q].dec.att.n \in audited'
    <2>1. CASE q = c
      BY <1>6, <1>8, <2>1
    <2>2. CASE q # c
      BY <1>3, <1>5, <1>6, <1>7, <1>8, <2>2
    <2> QED
      BY <2>1, <2>2
  <1>9. \A q \in Calls : call'[q].pc \in Locked =>
            \/ call[q].pc \in Locked /\ call'[q].at = call[q].at
            \/ now <= call'[q].at + MaxWait
    BY <1>3
  <1>10. \A q \in Calls : call'[q].pc \in Locked /\ call'[q].dec.st = "held" =>
            /\ call[q].pc \in Locked /\ call'[q].dec = call[q].dec
            /\ call'[q].sig = call[q].sig /\ call'[q].at = call[q].at
            /\ call'[q].keep = call[q].keep
    BY <1>3
  <1>11. now <= now'
    BY <1>1
  <1> HIDE DEF Moved
  <1> QED
    BY <1>1, <1>2, <1>4, <1>8, <1>9, <1>10, <1>11, MainStep

\* A step of one call that leaves the store alone makes nothing known.
LEMMA StillKnown ==
  ASSUME TypeOK, NEW c \in Calls, Moved(c), UNCHANGED <<replay, log, delivered>>, TypeOK',
         call'[c].pc = "done" /\ call'[c].dec.st = "approved" =>
           call'[c].dec.att \in Known(call'[c].sig)
  PROVE  NoNewKnown
  <1>1. LogMoves({}, Rejected, 0) /\ {} \in SUBSET Signals
    BY LogStill DEF TypeOK
  <1>2. \A q \in Calls : \/ call'[q] = call[q]
                         \/ call'[q].pc # "done"
                         \/ call'[q].dec.st # "approved"
                         \/ call'[q].dec.att \in Known(call'[q].sig)
    BY DEF Moved
  <1> QED
    BY <1>1, <1>2, DecisionTypes, KnownStep

\* Where a call has the mutex.
LEMMA LockedPcs ==
  /\ "idle" \notin Locked /\ "waiting" \notin Locked /\ "done" \notin Locked
  /\ {"signing", "reserving", "committed", "auditing", "recording"} \subseteq Locked
  BY DEF Locked

\* The invariant, action by action: a call begins.
LEMMA BeginInv ==
  ASSUME IInv, TypeOK', NEW c \in Calls, NEW k \in {"submit", "resolve"}, NEW s \in Signals,
         Begin(c, k, s)
  PROVE  Inv'
  <1>1. /\ UNCHANGED <<now, up, poisoned, holds, replayOpen, replay, log, torn, book, bookOk,
                       bookFile, fresh, audited, delivered>>
        /\ call[c].pc = "idle"
    BY DEF Begin
  <1>2. Moved(c) /\ call'[c].dec = Rejected /\ call'[c].pc \in {"waiting", "done"}
    BY BeginStep DEF IInv
  <1>3. NoNewKnown
    BY <1>1, <1>2, DecisionTypes, StillKnown DEF IInv
  <1>4. call[c].pc \notin Locked /\ call'[c].pc \notin Locked /\ ~Approver(c)'
    BY <1>1, <1>2, LockedPcs DEF Approver
  <1>5. \A id \in Ids : \A u \in Claims(id) : Covered(id, u) => Covered(id, u)'
    BY <1>1, CoverStill
  <1>6. fresh <= fresh'
    BY <1>1 DEF IInv, TypeOK
  <1> QED
    BY <1>1, <1>2, <1>3, <1>4, <1>5, <1>6, PlainStep

\* A caller gives up.
LEMMA GiveUpInv ==
  ASSUME IInv, TypeOK', NEW c \in Calls, GiveUp(c)
  PROVE  Inv'
  <1>1. UNCHANGED <<now, up, poisoned, holds, replayOpen, replay, log, torn, book, bookOk,
                    bookFile, fresh, audited, delivered>>
    BY DEF GiveUp
  <1>2. /\ Moved(c) /\ call'[c].pc = call[c].pc /\ call'[c].sig = call[c].sig
        /\ call'[c].at = call[c].at /\ call'[c].dec = call[c].dec /\ call'[c].keep = call[c].keep
    BY GiveUpStep DEF IInv
  <1>3. NoNewKnown
    <2>1. call'[c].sig \in Signals /\ call[c].sig \in Signals
      BY <1>2 DEF IInv, TypeOK, CallT
    <2>2. call[c].pc = "done" /\ call[c].dec.st = "approved" =>
             call[c].dec.att \in Known(call[c].sig)
      BY <2>1, KnownIs DEF Grants
    <2> QED
      BY <1>1, <1>2, <2>2, StillKnown DEF IInv
  <1>4. Approver(c)' => Approver(c)
    BY <1>2 DEF Approver
  <1>5. \A id \in Ids : \A u \in Claims(id) : Covered(id, u) => Covered(id, u)'
    BY <1>1, CoverStill
  <1>6. fresh <= fresh'
    BY <1>1 DEF IInv, TypeOK
  <1>7. call[c].pc = "recording" /\ Approver(c) /\ AuditMandatory => call[c].dec.att.n \in audited'
    <2>1. call[c].sig \in Signals
      BY DEF IInv, TypeOK, CallT
    <2> QED
      BY <1>1, <2>1 DEF IInv, Inv, ApproverInv
  <1> QED
    BY <1>1, <1>2, <1>3, <1>4, <1>5, <1>6, <1>7, PlainStep

\* A call signs, or is stopped by the kill switch, its caller or the signer.
LEMMA SignInv ==
  ASSUME IInv, TypeOK', NEW c \in Calls, Sign(c)
  PROVE  Inv'
  <1>1. /\ UNCHANGED <<now, up, poisoned, holds, replayOpen, replay, log, torn, book, bookOk,
                       bookFile, audited, delivered>>
        /\ call[c].pc = "signing"
    BY DEF Sign
  <1>2. call[c].dec.st = "rejected"
    BY <1>1 DEF IInv, LockInv
  <1>3. /\ fresh \in Nat /\ call[c].at \in Nat /\ Ttl \in Nat
        /\ Rejected.st = "rejected"
    BY EngineAssumption, DecisionTypes DEF IInv, TypeOK, CallT
  <1>4. /\ Moved(c) /\ call'[c].sig = call[c].sig /\ call'[c].at = call[c].at
        /\ \/ /\ call'[c].pc = "auditing" /\ call'[c].dec.st = "rejected" /\ fresh' = fresh
           \/ /\ call'[c].pc = "reserving" /\ call'[c].keep = call[c].keep
              /\ call'[c].dec.st = "approved"
              /\ call'[c].dec.att.exp = call[c].at + Ttl /\ fresh' = fresh + 1
    <2>1. [n |-> fresh + 1, exp |-> call[c].at + Ttl] \in Atts
      BY <1>3 DEF Atts
    <2>2. /\ Approved([n |-> fresh + 1, exp |-> call[c].at + Ttl]).st = "approved"
          /\ Approved([n |-> fresh + 1, exp |-> call[c].at + Ttl]).att.exp = call[c].at + Ttl
      BY DEF Approved
    <2> QED
      BY <1>2, <1>3, <2>2, SignStep DEF IInv, Stays
  <1>5. NoNewKnown
    BY <1>1, <1>4, StillKnown DEF IInv
  <1>6. Approver(c) /\ call[c].pc \in Locked /\ call'[c].pc \in Locked
    BY <1>1, <1>4, LockedPcs DEF Approver
  <1>7. Approver(c)' => call'[c].pc = "reserving"
    BY <1>4 DEF Approver
  <1>8. \A id \in Ids : \A u \in Claims(id) : Covered(id, u) => Covered(id, u)'
    BY <1>1, CoverStill
  <1>9. fresh <= fresh'
    BY <1>3, <1>4
  <1> QED
    BY <1>1, <1>2, <1>4, <1>5, <1>6, <1>7, <1>8, <1>9, PlainStep

\* A decision is audited.
LEMMA AuditInv ==
  ASSUME IInv, TypeOK', NEW c \in Calls, NEW ok \in BOOLEAN, Audit(c, ok)
  PROVE  Inv'
  <1>1. /\ UNCHANGED <<now, up, poisoned, replayOpen, replay, log, torn, book, bookOk,
                       bookFile, fresh, delivered>>
        /\ call[c].pc = "auditing"
    BY DEF Audit
  <1>2. /\ Moved(c) /\ call'[c].sig = call[c].sig /\ call'[c].at = call[c].at
        /\ call'[c].keep = call[c].keep
        /\ call'[c].pc = IF call[c].keep THEN "recording" ELSE "done"
        /\ audited \subseteq audited'
        /\ \/ /\ call'[c].dec = call[c].dec /\ holds' = holds
              /\ AuditMandatory => call[c].dec.att.n \in audited'
           \/ /\ call'[c].dec = Rejected /\ holds' = WithoutHold(call[c].dec)
    BY AuditStep DEF IInv, Stays
  <1>3. call[c].pc \in Locked /\ "recording" \in Locked /\ "done" \notin Locked
    BY <1>1, LockedPcs
  <1>4. call[c].dec.st = "approved" => Approver(c) /\ call[c].keep
    <2>1. call[c].sig \in Signals
      BY DEF IInv, TypeOK, CallT
    <2> QED
      BY <1>3, <2>1 DEF IInv, Inv, ApproverInv, Approver
  <1>5. call[c].dec.st = "held" => call[c].keep
    BY <1>3 DEF IInv, Inv, HoldIds
  <1>6. NoNewKnown
    BY <1>1, <1>2, <1>4, DecisionTypes, StillKnown DEF IInv
  <1>7. Approver(c)' => Approver(c) /\ call'[c].dec = call[c].dec
                        /\ (AuditMandatory => call[c].dec.att.n \in audited')
    BY <1>2, <1>4, DecisionTypes DEF Approver
  <1>8. holds' \subseteq holds
    BY <1>2 DEF WithoutHold
  <1>9. call[c].dec.st = "held" =>
            \/ call'[c].pc \in Locked /\ call'[c].dec = call[c].dec
            \/ \A h \in holds' : h.id # call[c].dec.hold
    BY <1>2, <1>3, <1>5 DEF WithoutHold
  <1>10. call'[c].dec.st = "held" => call'[c].dec = call[c].dec
    BY <1>2, DecisionTypes
  <1>11. \A id \in Ids : \A u \in Claims(id) : Covered(id, u) => Covered(id, u)'
    BY <1>1, CoverStill
  <1>12. fresh <= fresh'
    BY <1>1 DEF IInv, TypeOK
  <1> QED
    BY <1>1, <1>2, <1>3, <1>6, <1>7, <1>8, <1>9, <1>10, <1>11, <1>12, PlainStep

\* A worker panics; the holds can no longer be released.
LEMMA PanicInv ==
  ASSUME IInv, TypeOK', NEW c \in Calls, Panic(c)
  PROVE  Inv'
  <1>1. /\ UNCHANGED <<now, up, holds, replayOpen, replay, log, torn, book, bookOk,
                       bookFile, fresh, audited, delivered>>
        /\ call[c].pc \in Locked /\ poisoned'
    BY DEF Panic
  <1>2. Moved(c) /\ call'[c].pc = "done" /\ call'[c].dec = Rejected
    BY PanicStep DEF IInv
  <1>3. NoNewKnown
    BY <1>1, <1>2, DecisionTypes, StillKnown DEF IInv
  <1>4. call'[c].pc \notin Locked /\ ~Approver(c)'
    BY <1>2, LockedPcs DEF Approver
  <1>5. \A id \in Ids : \A u \in Claims(id) : Covered(id, u) => Covered(id, u)'
    BY <1>1, CoverStill
  <1>6. fresh <= fresh'
    BY <1>1 DEF IInv, TypeOK
  <1> QED
    BY <1>1, <1>2, <1>3, <1>4, <1>5, <1>6, PlainStep

\* An answer only hands on what was known already.
LEMMA ReplyKnown ==
  ASSUME TypeOK, NEW c \in Calls, Reply(c)
  PROVE  /\ NoNewKnown
         /\ \A s \in Signals : \/ delivered'[s] = delivered[s]
                               \/ \E a \in Known(s) : delivered'[s] = delivered[s] \cup {a}
  <1>1. /\ Moved(c) /\ call'[c] = Idle
        /\ \/ delivered' = delivered
           \/ /\ call[c].dec.st = "approved"
              /\ delivered' = [delivered EXCEPT ![call[c].sig] = @ \cup {call[c].dec.att}]
    BY ReplyStep
  <1>2. UNCHANGED <<replay, log>> /\ call[c].pc = "done"
    BY DEF Reply
  <1>3. call[c].sig \in Signals /\ delivered \in [Signals -> SUBSET Atts]
    BY DEF TypeOK, CallT
  <1>4. ASSUME NEW s \in Signals
        PROVE  \/ delivered'[s] = delivered[s]
               \/ \E a \in Known(s) : delivered'[s] = delivered[s] \cup {a}
    <2>1. CASE delivered' = delivered
      BY <2>1
    <2>2. CASE /\ call[c].dec.st = "approved"
               /\ delivered' = [delivered EXCEPT ![call[c].sig] = @ \cup {call[c].dec.att}]
      <3>1. CASE s = call[c].sig
        <4>1. delivered'[s] = delivered[s] \cup {call[c].dec.att}
          BY <1>3, <2>2, <3>1
        <4>2. call[c].dec.att \in Known(s)
          BY <1>2, <2>2, <3>1, KnownIs DEF Grants
        <4> QED
          BY <4>1, <4>2
      <3>2. CASE s # call[c].sig
        BY <1>3, <2>2, <3>2
      <3> QED
        BY <3>1, <3>2
    <2> QED
      BY <1>1, <2>1, <2>2
  <1>5. ASSUME NEW s \in Signals, NEW a \in Known(s)'
        PROVE  a \in Known(s)
    <2>1. a \in delivered'[s] => a \in Known(s)
      BY <1>4, KnownIs
    <2>2. ASSUME NEW q \in Calls, call'[q].pc = "done", Grants(call'[q], s), call'[q].dec.att = a
          PROVE  a \in Known(s)
      <3>1. q # c
        BY <1>1, <2>2, IdleType
      <3>2. call'[q] = call[q]
        BY <1>1, <3>1 DEF Moved
      <3> QED
        BY <2>2, <3>2, KnownIs
    <2> QED
      BY <1>2, <2>1, <2>2, KnownIs, KnownIsNext
  <1> QED
    BY <1>4, <1>5 DEF NoNewKnown

\* A reply delivers what was known.
LEMMA ReplyInv ==
  ASSUME IInv, TypeOK', NEW c \in Calls, Reply(c)
  PROVE  Inv'
  <1>1. /\ UNCHANGED <<now, up, poisoned, holds, replayOpen, replay, log, torn, book, bookOk,
                       bookFile, fresh, audited>>
        /\ call[c].pc = "done"
    BY DEF Reply
  <1>2. Moved(c) /\ call'[c].pc = "idle"
    BY ReplyStep, IdleType DEF IInv
  <1>3. NoNewKnown
    BY ReplyKnown DEF IInv
  <1>4. call[c].pc \notin Locked /\ call'[c].pc \notin Locked /\ ~Approver(c)'
    BY <1>1, <1>2, LockedPcs DEF Approver
  <1>5. \A id \in Ids : \A u \in Claims(id) : Covered(id, u) => Covered(id, u)'
    BY <1>1, CoverStill
  <1>6. fresh <= fresh'
    BY <1>1 DEF IInv, TypeOK
  <1> QED
    BY <1>1, <1>2, <1>3, <1>4, <1>5, <1>6, PlainStep

\* A step that leaves the calls alone.
LEMMA RestStep ==
  ASSUME IInv, TypeOK', UNCHANGED <<call, delivered, poisoned, fresh, audited, bookOk>>,
         NEW S \in SUBSET Signals, NEW t \in Nat, LogMoves(S, Rejected, t),
         holds' \subseteq holds, now <= now',
         \A id \in Ids : \A u \in Claims(id) : Covered(id, u) => Covered(id, u)',
         LockFree \/ UNCHANGED <<book, bookFile, up>>,
         \A s \in Signals : \A a \in Known(s) :
            ~(a.exp < now') /\ Backs(IdOf[s], a.exp) => Backs(IdOf[s], a.exp)'
  PROVE  Inv'
  <1>1. TypeOK /\ Inv
    BY DEF IInv
  <1>2. NoNewKnown
    BY <1>1, DecisionTypes, KnownStep
  <1>3. HoldsQuiet
    BY DEF HoldsQuiet, Pending
  <1>4. \A c \in Calls : Approver(c)' <=> Approver(c)
    BY DEF Approver
  <1>5. ASSUME NEW c \in Calls, Approver(c),
               call[c].pc \in {"committed", "auditing", "recording"}
        PROVE  bookOk' /\ \A s \in {call[c].sig}, e \in {call[c].dec.att.exp} : Backs(IdOf[s], e)'
    <2>1. call[c].sig \in Signals /\ ~LockFree
      BY <1>1, <1>5 DEF TypeOK, CallT, Approver, LockFree
    <2>2. bookOk /\ \A e \in {call[c].dec.att.exp} : Backs(IdOf[call[c].sig], e)
      BY <1>1, <1>5, <2>1 DEF Inv, ApproverInv
    <2> QED
      BY <2>1, <2>2, BooksStill
  <1>6. ASSUME NEW c \in Calls, Approver(c), call[c].pc = "recording", AuditMandatory
        PROVE  call[c].dec.att.n \in audited
    <2>1. call[c].sig \in Signals
      BY <1>1 DEF TypeOK, CallT
    <2> QED
      BY <1>1, <1>6, <2>1 DEF Inv, ApproverInv
  <1>7. \A c \in Calls : Approver(c)' =>
           /\ Approver(c) /\ call'[c].sig = call[c].sig /\ call'[c].at = call[c].at
           /\ call'[c].keep = call[c].keep
           /\ \/ call'[c].dec = call[c].dec
              \/ call'[c].dec.att.exp = call[c].at + Ttl
           /\ call'[c].pc \in {"committed", "auditing", "recording"} =>
                bookOk' /\ \A s \in {call[c].sig}, e \in {call'[c].dec.att.exp} : Backs(IdOf[s], e)'
           /\ call'[c].pc = "recording" /\ AuditMandatory => call'[c].dec.att.n \in audited'
    BY <1>4, <1>5, <1>6
  <1>8. fresh <= fresh'
    BY <1>1 DEF TypeOK
  <1> QED
    BY <1>1, <1>2, <1>3, <1>7, <1>8, MainStep

\* The kill level changes, or nothing does.
LEMMA KillChangeInv ==
  ASSUME IInv, TypeOK', UNCHANGED <<now, up, poisoned, call, holds, replayOpen, replay, log, torn,
                                    book, bookOk, bookFile, fresh, audited, delivered>>
  PROVE  Inv'
  <1>1. LogMoves({}, Rejected, 0) /\ {} \in SUBSET Signals
    BY LogStill DEF IInv, TypeOK
  <1>2. \A id \in Ids : \A u \in Claims(id) : Covered(id, u) => Covered(id, u)'
    BY CoverStill
  <1>3. now <= now'
    BY DEF IInv, TypeOK
  <1>4. \A id, e : Backs(id, e) => Backs(id, e)'
    BY BooksStill
  <1> QED
    BY <1>1, <1>2, <1>3, <1>4, RestStep

\* Time passes: claims end, and none comes to life.
LEMMA ClockInv ==
  ASSUME IInv, TypeOK', ClockAdvance
  PROVE  Inv'
  <1>1. /\ now' = now + 1
        /\ UNCHANGED <<up, poisoned, call, holds, replayOpen, replay, log, torn,
                       book, bookOk, bookFile, fresh, audited, delivered>>
    BY DEF ClockAdvance
  <1>2. LogMoves({}, Rejected, 0) /\ {} \in SUBSET Signals
    BY <1>1, LogStill DEF IInv, TypeOK
  <1>3. now <= now' /\ now \in Nat
    BY <1>1 DEF IInv, TypeOK
  <1>4. ASSUME NEW id \in Ids, NEW u \in Claims(id), Covered(id, u)
        PROVE  Covered(id, u)'
    <2>1. u \in Nat
      BY ClaimsType DEF IInv
    <2>2. u < now => u < now'
      BY <2>1, <1>1, <1>3
    <2> QED
      BY <1>1, <1>4, <2>2 DEF Covered, InLog, InMap
  <1>5. \A id, e : Backs(id, e) => Backs(id, e)'
    BY <1>1, BooksStill
  <1> QED
    BY <1>1, <1>2, <1>3, <1>4, <1>5, RestStep

\* What maintenance and the hold queries share: rejections recorded at a reading
\* that every claim is within reach of.
LEMMA ReadingCovers ==
  ASSUME IInv, NEW S \in SUBSET Signals, NEW t \in Nat, LogMoves(S, Rejected, t),
         t <= now, now <= t + MaxWait, UNCHANGED <<now, up, replayOpen>>
  PROVE  \A id \in Ids : \A u \in Claims(id) : Covered(id, u) => Covered(id, u)'
  <1> SUFFICES ASSUME NEW id \in Ids, NEW u \in Claims(id), Covered(id, u)
               PROVE  Covered(id, u)'
    OBVIOUS
  <1>1. u \in Nat /\ now \in Nat /\ Retention \in Nat /\ MaxWait \in Nat
    BY ClaimsType, EngineAssumption DEF IInv, TypeOK
  <1>2. u + MaxWait <= now + Retention
    BY DEF IInv, Inv, ClaimsBounded
  <1>3. u <= t + Retention
    BY <1>1, <1>2
  <1> QED
    BY <1>1, <1>3, CoverStep, DecisionTypes DEF IInv

\* The ticker or a listing drops ended reservations and lapsed holds.
LEMMA MaintenanceInv ==
  ASSUME IInv, TypeOK', NEW t \in Readings, NEW o, Maintenance(t, o) \/ ListHolds(t, o)
  PROVE  Inv'
  <1>1. /\ UNCHANGED <<now, up, poisoned, call, replayOpen, bookOk, bookFile, fresh, audited,
                       delivered>>
        /\ LockFree /\ ExpireHolds(t, o)
        /\ book' = book \/ book' = Unexpired(book, t)
    BY DEF Maintenance, ListHolds
  <1>2. t \in Nat /\ t <= now /\ now <= t + MaxWait
    BY ReadingsNat DEF IInv
  <1>3. LogMoves({h.sig : h \in Lapsed(t)}, Rejected, t) /\ holds' \subseteq holds
    BY <1>1, <1>2, ExpireStep DEF IInv
  <1>4. {h.sig : h \in Lapsed(t)} \in SUBSET Signals
    BY LapsedSigs DEF IInv
  <1>5. \A id \in Ids : \A u \in Claims(id) : Covered(id, u) => Covered(id, u)'
    BY <1>1, <1>2, <1>3, <1>4, ReadingCovers
  <1>6. now <= now' /\ now \in Nat /\ book \in [DOMAIN book -> Nat]
    BY <1>1 DEF IInv, TypeOK
  <1>7. ASSUME NEW s \in Signals, NEW a \in Known(s), ~(a.exp < now'), Backs(IdOf[s], a.exp)
        PROVE  Backs(IdOf[s], a.exp)'
    <2>1. a.exp \in Nat
      BY KnownType DEF IInv, Atts
    <2>2. ASSUME IdOf[s] \in DOMAIN book, book[IdOf[s]] >= a.exp
          PROVE  IdOf[s] \in DOMAIN book' /\ book'[IdOf[s]] >= a.exp
      <3>1. book[IdOf[s]] >= t
        BY <2>1, <2>2, <1>1, <1>2, <1>6, <1>7
      <3>2. /\ IdOf[s] \in DOMAIN Unexpired(book, t)
            /\ Unexpired(book, t)[IdOf[s]] = book[IdOf[s]]
        BY <2>2, <3>1, <1>6, UnexpiredStep
      <3> QED
        BY <1>1, <2>2, <3>2
    <2> QED
      BY <1>1, <1>7, <2>2 DEF Backs
  <1> QED
    BY <1>1, <1>2, <1>3, <1>4, <1>5, <1>6, <1>7, RestStep

\* The process dies: what is known, reserved and covered is in the files.
LEMMA CrashInv ==
  ASSUME IInv, TypeOK', Crash
  PROVE  Inv'
  <1>1. /\ UNCHANGED <<now, poisoned, log, bookFile, fresh, audited, delivered>>
        /\ ~up' /\ holds' = {} /\ DOMAIN replay' = {}
    BY DEF Crash, Keep
  <1>2. \A c \in Calls : call'[c].pc = "idle"
    <2>1. \A c \in Calls : call'[c] = Idle
      BY DEF Crash
    <2> QED
      BY <2>1, IdleType
  <1>3. NoNewKnown
    <2> SUFFICES ASSUME NEW s \in Signals, NEW a \in Known(s)'
                 PROVE  a \in Known(s)
      BY DEF NoNewKnown
    <2> QED
      BY <1>1, <1>2, KnownIs, KnownIsNext
  <1>4. \A c \in Calls : call'[c].pc \notin Locked /\ ~Approver(c)'
    BY <1>2, LockedPcs DEF Approver
  <1>5. HoldsQuiet
    BY <1>1 DEF HoldsQuiet
  <1>6. \A id \in Ids : \A u \in Claims(id) : Covered(id, u) => Covered(id, u)'
    BY <1>1 DEF Covered, InLog
  <1>7. \A id, e : Backs(id, e) => Backs(id, e)'
    BY <1>1 DEF Backs
  <1>8. now <= now' /\ fresh <= fresh'
    BY <1>1 DEF IInv, TypeOK
  <1> QED
    BY <1>1, <1>3, <1>4, <1>5, <1>6, <1>7, <1>8, MainStep DEF IInv

\* A start loads every record a claim still needs.
LEMMA StartInv ==
  ASSUME IInv, TypeOK', NEW opens \in BOOLEAN, NEW loads \in BOOLEAN, Start(opens, loads)
  PROVE  Inv'
  <1> DEFINE L == Loaded(now)
  <1>1. /\ UNCHANGED <<now, call, holds, bookFile, fresh, audited, delivered>>
        /\ ~up /\ bookOk' = loads
        /\ loads => book' = bookFile
        /\ \/ /\ replay' = L
              /\ log' = [id \in Ids |-> IF id \in DOMAIN L THEN <<L[id]>> ELSE <<>>]
           \/ ~replayOpen' /\ DOMAIN replay' = {} /\ log' = log
    BY DEF Start, Keep
  <1>2. now \in Nat /\ Retention \in Nat
    BY EngineAssumption DEF IInv, TypeOK
  <1>3. /\ L \in [DOMAIN L -> RecT] /\ DOMAIN L \subseteq Ids
        /\ \A id \in DOMAIN L : \E i \in DOMAIN log[id] : L[id] = log[id][i]
        /\ \A id \in Ids :
             log[id] # <<>> /\ Retained(log[id][Len(log[id])], now) =>
               id \in DOMAIN L /\ L[id] = log[id][Len(log[id])]
    BY <1>2, LoadedStep DEF IInv
  <1> HIDE DEF L
  <1>4. holds = {} /\ \A c \in Calls : call[c].pc = "idle"
    BY <1>1 DEF IInv, LockInv
  <1>5. \A r : DOMAIN <<r>> = {1} /\ <<r>>[1] = r /\ Len(<<r>>) = 1 /\ <<r>> # <<>>
    OBVIOUS
  <1>6. NoNewKnown
    <2> SUFFICES ASSUME NEW s \in Signals, NEW a \in Known(s)'
                 PROVE  a \in Known(s)
      BY DEF NoNewKnown
    <2>1. IdOf[s] \in Ids
      BY DEF Ids
    <2>2. a \in delivered'[s] => a \in Known(s)
      BY <1>1, KnownIs
    <2>3. ASSUME NEW i \in DOMAIN log[IdOf[s]], Grants(log[IdOf[s]][i], s),
                 log[IdOf[s]][i].dec.att = a
          PROVE  a \in Known(s)
      BY <2>3, KnownIs
    <2>4. ASSUME IdOf[s] \in DOMAIN L, Grants(L[IdOf[s]], s), L[IdOf[s]].dec.att = a
          PROVE  a \in Known(s)
      <3>1. PICK i \in DOMAIN log[IdOf[s]] : L[IdOf[s]] = log[IdOf[s]][i]
        BY <1>3, <2>4
      <3> QED
        BY <2>3, <2>4, <3>1
    <2>5. ASSUME NEW i \in DOMAIN log'[IdOf[s]], Grants(log'[IdOf[s]][i], s),
                 log'[IdOf[s]][i].dec.att = a
          PROVE  a \in Known(s)
      <3>1. CASE log' = log
        BY <2>3, <2>5, <3>1
      <3>2. CASE log' = [id \in Ids |-> IF id \in DOMAIN L THEN <<L[id]>> ELSE <<>>]
        <4>1. log'[IdOf[s]] = IF IdOf[s] \in DOMAIN L THEN <<L[IdOf[s]]>> ELSE <<>>
          BY <2>1, <3>2
        <4>2. DOMAIN <<>> = {}
          OBVIOUS
        <4>3. IdOf[s] \in DOMAIN L /\ log'[IdOf[s]] = <<L[IdOf[s]]>>
          BY <2>5, <4>1, <4>2
        <4>4. log'[IdOf[s]][i] = L[IdOf[s]]
          BY <2>5, <4>3, <1>5
        <4> QED
          BY <2>4, <2>5, <4>3, <4>4
      <3> QED
        BY <1>1, <3>1, <3>2
    <2>6. ASSUME IdOf[s] \in DOMAIN replay', Grants(replay'[IdOf[s]], s),
                 replay'[IdOf[s]].dec.att = a
          PROVE  a \in Known(s)
      BY <1>1, <2>4, <2>6
    <2>7. \A c \in Calls : call'[c].pc # "done"
      BY <1>1, <1>4
    <2> QED
      BY <2>2, <2>5, <2>6, <2>7, KnownIsNext
  <1>7. \A c \in Calls : call'[c].pc \notin Locked /\ ~Approver(c)'
    BY <1>1, <1>4, LockedPcs DEF Approver
  <1>8. HoldsQuiet
    BY <1>1, <1>4 DEF HoldsQuiet
  <1>9. ASSUME NEW id \in Ids, NEW u \in Claims(id), Covered(id, u)
        PROVE  Covered(id, u)'
    <2>1. CASE u < now
      BY <1>1, <2>1 DEF Covered
    <2>2. CASE ~(u < now)
      <3>1. log[id] # <<>> /\ log[id][Len(log[id])].at + Retention >= u
        BY <1>9, <2>2 DEF Covered, InLog
      <3>2. log[id][Len(log[id])].at \in Nat /\ u \in Nat
        <4>1. log[id] \in Seq(RecT)
          BY DEF IInv, TypeOK
        <4>2. log[id][Len(log[id])] \in RecT
          BY <4>1, <3>1, EmptySeq, LenProperties, ElementOfSeq
        <4> QED
          BY <4>2, ClaimsType DEF RecT, IInv
      <3>3. Retained(log[id][Len(log[id])], now)
        BY <1>2, <2>2, <3>1, <3>2 DEF Retained
      <3>4. id \in DOMAIN L /\ L[id] = log[id][Len(log[id])]
        BY <1>3, <3>1, <3>3
      <3>5. CASE ~replayOpen' /\ log' = log
        BY <3>1, <3>5 DEF Covered, InLog
      <3>6. CASE /\ replay' = L
                 /\ log' = [x \in Ids |-> IF x \in DOMAIN L THEN <<L[x]>> ELSE <<>>]
        <4>1. log'[id] = <<L[id]>>
          BY <3>4, <3>6
        <4>2. log'[id] # <<>> /\ log'[id][Len(log'[id])] = L[id]
          BY <4>1, <1>5
        <4>3. InLog(id, u)' /\ InMap(id, u)'
          BY <3>1, <3>4, <3>6, <4>2 DEF InLog, InMap
        <4> QED
          BY <4>3 DEF Covered
      <3> QED
        BY <1>1, <3>5, <3>6
    <2> QED
      BY <2>1, <2>2
  <1>10. \A id, e : Backs(id, e) => Backs(id, e)'
    BY <1>1 DEF Backs
  <1>11. now <= now' /\ fresh <= fresh' /\ holds' = {}
    BY <1>1, <1>4 DEF IInv, TypeOK
  <1> QED
    BY <1>1, <1>6, <1>7, <1>8, <1>9, <1>10, <1>11, MainStep DEF IInv

\* A step of the call that has the mutex which only moves it on and changes the
\* reservations of its own signal id.
LEMMA BookStep ==
  ASSUME IInv, TypeOK', NEW c \in Calls, Moved(c), call[c].pc \in {"reserving", "committed"},
         call'[c].sig = call[c].sig, call'[c].at = call[c].at,
         UNCHANGED <<now, up, poisoned, holds, replayOpen, replay, log, torn, bookOk, fresh,
                     audited, delivered>>,
         call'[c].pc \in {"committed", "auditing"},
         call'[c].dec \in {Rejected, call[c].dec},
         call'[c].dec = call[c].dec =>
           /\ call'[c].keep = call[c].keep /\ bookOk
           /\ \A s \in {call[c].sig}, e \in {call[c].dec.att.exp} : Backs(IdOf[s], e)',
         \A s \in Signals : \A a \in Known(s) :
            IdOf[s] # IdOf[call[c].sig] /\ ~(a.exp < now) /\ Backs(IdOf[s], a.exp) => Backs(IdOf[s], a.exp)'
  PROVE  Inv'
  <1>1. TypeOK /\ Inv /\ LockInv /\ call[c].sig \in Signals
    BY DEF IInv, TypeOK, CallT
  <1>2. call[c].pc \in Locked /\ call'[c].pc \in Locked /\ call'[c].pc # "recording"
        /\ call'[c].pc # "done"
    BY LockedPcs
  <1>3. call[c].dec.st = "approved" /\ Approver(c)
    BY <1>1, <1>2 DEF LockInv, Approver
  <1>4. \A q \in Calls : q # c => call'[q] = call[q] /\ call[q].pc \notin Locked
    BY <1>1, <1>2 DEF LockInv, Moved
  <1>5. NoNewKnown
    BY <1>1, <1>2, StillKnown
  <1>6. HoldsQuiet
    BY <1>3, QuietMove
  <1>7. \A q \in Calls : Approver(q)' => q = c /\ call'[q].dec = call[c].dec
    <2>1. \A q \in Calls : q # c => ~Approver(q)'
      BY <1>4 DEF Approver
    <2>2. call'[c].dec = Rejected => ~Approver(c)'
      BY DecisionTypes DEF Approver
    <2> QED
      BY <2>1, <2>2
  <1>8. ASSUME NEW s \in Signals, NEW a \in Known(s), ~(a.exp < now'), Backs(IdOf[s], a.exp)
        PROVE  Backs(IdOf[s], a.exp)'
    <2>1. ASSUME IdOf[s] = IdOf[call[c].sig]
          PROVE  FALSE
      <3>1. a.exp \in KClaims(IdOf[call[c].sig])
        BY <2>1, KClaimsIs
      <3>2. \A u \in KClaims(IdOf[call[c].sig]) : u < now
        BY <1>1, <1>3 DEF Inv, ApproverInv
      <3> QED
        BY <1>8, <3>1, <3>2
    <2> QED
      BY <1>8, <2>1
  <1>9. \A q \in Calls : call'[q].pc \in Locked /\ call'[q].dec.st = "held" => FALSE
    BY <1>3, <1>4, DecisionTypes
  <1>10. \A id \in Ids : \A u \in Claims(id) : Covered(id, u) => Covered(id, u)'
    BY CoverStill
  <1>11. now <= now' /\ fresh <= fresh'
    BY <1>1 DEF TypeOK
  <1>12. \A q \in Calls : call'[q].pc \in Locked => call[q].pc \in Locked /\ call'[q].at = call[q].at
    BY <1>2, <1>4
  <1>13. \A q \in Calls : Approver(q)' =>
           /\ Approver(q) /\ call'[q].sig = call[q].sig /\ call'[q].at = call[q].at
           /\ call'[q].keep = call[q].keep
           /\ call'[q].dec = call[q].dec
           /\ call'[q].pc \in {"committed", "auditing", "recording"} =>
                bookOk' /\ \A s \in {call[q].sig}, e \in {call'[q].dec.att.exp} : Backs(IdOf[s], e)'
           /\ call'[q].pc = "recording" /\ AuditMandatory => call'[q].dec.att.n \in audited'
    <2> SUFFICES ASSUME Approver(c)', call'[c].dec = call[c].dec
                 PROVE /\ call'[c].keep = call[c].keep
                       /\ bookOk' /\ \A s \in {call[c].sig}, e \in {call'[c].dec.att.exp} : Backs(IdOf[s], e)'
      BY <1>2, <1>3, <1>7
    <2> QED
      OBVIOUS
  <1> QED
    BY <1>1, <1>5, <1>6, <1>8, <1>9, <1>10, <1>11, <1>12, <1>13, MainStep

\* A reservation is made; those of other ids that still matter stay.
LEMMA ReserveInv ==
  ASSUME IInv, TypeOK', NEW c \in Calls, NEW o, Reserve(c, o)
  PROVE  Inv'
  <1> DEFINE id == IdOf[call[c].sig]
             exp == call[c].dec.att.exp
             C == Candidate(c)
  <1>1. /\ UNCHANGED <<now, up, poisoned, holds, replayOpen, replay, log, torn, bookOk, fresh,
                       audited, delivered>>
        /\ call[c].pc = "reserving"
    BY DEF Reserve
  <1>2. /\ Moved(c) /\ call'[c].sig = call[c].sig /\ call'[c].at = call[c].at
        /\ \/ /\ call'[c].pc = "auditing" /\ call'[c].dec = Rejected /\ book' = book
              /\ bookFile' = bookFile \/ (bookOk /\ bookFile' = C)
           \/ /\ call'[c].pc = "committed" /\ call'[c].dec = call[c].dec
              /\ call'[c].keep = call[c].keep /\ bookOk
              /\ book' = C /\ bookFile' = C
    BY ReserveStep DEF IInv, Stays
  <1>3. /\ exp \in Nat /\ call[c].at \in Nat /\ now \in Nat /\ book \in [DOMAIN book -> Nat]
        /\ call[c].dec.st = "approved"
    BY <1>1 DEF IInv, TypeOK, LockInv, CallT, Decs, Atts
  <1>4. up /\ call[c].at <= now
    BY <1>1 DEF IInv, LockInv
  <1>5. /\ id \in DOMAIN C /\ C[id] = exp
        /\ \A x \in DOMAIN book : x # id /\ book[x] >= call[c].at =>
             x \in DOMAIN C /\ C[x] = book[x]
    <2> DEFINE U == Unexpired(book, call[c].at)
    <2>1. /\ U \in [DOMAIN U -> Nat]
          /\ \A x \in DOMAIN book : book[x] >= call[c].at => x \in DOMAIN U /\ U[x] = book[x]
      BY <1>3, UnexpiredStep
    <2> HIDE DEF U
    <2>2. C = Insert(U, id, exp)
      BY DEF Candidate, U
    <2> HIDE DEF C, id, exp
    <2>3. /\ DOMAIN C = DOMAIN U \cup {id} /\ C[id] = exp
          /\ \A x \in DOMAIN U : x # id => C[x] = U[x]
      BY <2>2 DEF Insert
    <2> QED
      BY <2>1, <2>3
  <1> HIDE DEF C
  <1>6. ASSUME call'[c].dec = call[c].dec
        PROVE  /\ call'[c].keep = call[c].keep /\ bookOk
               /\ \A s \in {call[c].sig}, e \in {call[c].dec.att.exp} : Backs(IdOf[s], e)'
    <2>1. call'[c].keep = call[c].keep /\ bookOk /\ book' = C /\ bookFile' = C
      BY <1>2, <1>3, <1>6, DecisionTypes
    <2>2. exp >= exp
      BY <1>3
    <2> QED
      BY <2>1, <2>2, <1>5 DEF Backs
  <1>7. ASSUME NEW s \in Signals, NEW a \in Known(s), IdOf[s] # id, ~(a.exp < now),
               Backs(IdOf[s], a.exp)
        PROVE  Backs(IdOf[s], a.exp)'
    <2>1. a.exp \in Nat
      BY KnownType DEF IInv, Atts
    <2>2. ASSUME bookOk
          PROVE  IdOf[s] \in DOMAIN C /\ C[IdOf[s]] >= a.exp
      <3>1. IdOf[s] \in DOMAIN book /\ book[IdOf[s]] >= a.exp
        BY <1>4, <1>7, <2>2 DEF Backs
      <3>2. book[IdOf[s]] >= call[c].at
        BY <3>1, <2>1, <1>3, <1>4, <1>7
      <3> QED
        BY <3>1, <3>2, <1>5, <1>7
    <2> QED
      BY <1>1, <1>2, <1>7, <2>2 DEF Backs
  <1> QED
    BY <1>1, <1>2, <1>6, <1>7, BookStep

\* A reservation is kept, or given back; no attestation of its id is alive.
LEMMA CommitInv ==
  ASSUME IInv, TypeOK', NEW c \in Calls, NEW o, Commit(c, o)
  PROVE  Inv'
  <1> DEFINE id == IdOf[call[c].sig]
             R == Released(c)
  <1>1. /\ UNCHANGED <<now, up, poisoned, holds, replayOpen, replay, log, torn, bookOk, fresh,
                       audited, delivered>>
        /\ call[c].pc = "committed"
    BY DEF Commit
  <1>2. /\ Moved(c) /\ call'[c].sig = call[c].sig /\ call'[c].at = call[c].at
        /\ call'[c].pc = "auditing"
        /\ \/ /\ call'[c].dec = call[c].dec /\ call'[c].keep = call[c].keep
              /\ book' = book /\ bookFile' = bookFile
           \/ /\ call'[c].dec = Rejected
              /\ book' \in {book, R} /\ bookFile' \in {bookFile, R}
    BY CommitStep DEF IInv, Stays
  <1>3. book \in [DOMAIN book -> Nat] /\ call[c].dec.st = "approved" /\ up /\ Approver(c)
        /\ call[c].sig \in Signals
    BY <1>1, LockedPcs DEF IInv, TypeOK, LockInv, Approver, CallT
  <1>4. bookOk /\ \A e \in {call[c].dec.att.exp} : Backs(id, e)
    BY <1>1, <1>3 DEF IInv, Inv, ApproverInv
  <1>5. \A x \in DOMAIN book : x # id => x \in DOMAIN R /\ R[x] = book[x]
    BY DEF Released, Keep
  <1> HIDE DEF R
  <1>6. ASSUME call'[c].dec = call[c].dec
        PROVE  /\ call'[c].keep = call[c].keep /\ bookOk
               /\ \A s \in {call[c].sig}, e \in {call[c].dec.att.exp} : Backs(IdOf[s], e)'
    <2>1. call'[c].keep = call[c].keep /\ book' = book /\ bookFile' = bookFile
      BY <1>2, <1>3, <1>6, DecisionTypes
    <2> QED
      BY <2>1, <1>1, <1>4, BooksStill
  <1>7. ASSUME NEW s \in Signals, NEW a \in Known(s), IdOf[s] # id, Backs(IdOf[s], a.exp)
        PROVE  Backs(IdOf[s], a.exp)'
    <2>1. IdOf[s] \in DOMAIN book /\ book[IdOf[s]] >= a.exp
      BY <1>3, <1>4, <1>7 DEF Backs
    <2>2. IdOf[s] \in DOMAIN R /\ R[IdOf[s]] >= a.exp
      BY <2>1, <1>5, <1>7
    <2> QED
      BY <1>1, <1>2, <1>7, <2>1, <2>2 DEF Backs
  <1> QED
    BY <1>1, <1>2, <1>6, <1>7, BookStep

\* When the store has no record of an id, no claim on that id is still running.
LEMMA NewIsFree ==
  ASSUME IInv, LockFree, up, replayOpen, ~poisoned, NEW s \in Signals, IdOf[s] \notin DOMAIN replay
  PROVE  /\ \A u \in KClaims(IdOf[s]) : u < now
         /\ \A h \in holds : IdOf[h.sig] = IdOf[s] => Deadline(h.sig) < now
  <1>1. IdOf[s] \in Ids
    BY DEF Ids
  <1>2. \A u \in Claims(IdOf[s]) : u < now
    BY <1>1 DEF IInv, Inv, ClaimsCovered, Covered, InMap
  <1>3. \A h \in holds : ~Pending(h)
    BY DEF LockFree, Pending
  <1>4. ASSUME NEW h \in holds, IdOf[h.sig] = IdOf[s]
        PROVE  Deadline(h.sig) \in HClaims(IdOf[s])
    BY <1>3, <1>4, HClaimsIs
  <1> QED
    BY <1>2, <1>4 DEF Claims

\* A signal that a call with a recent reading finds fresh has not met its deadline,
\* so no attestation of it is known while no claim on its id is running.
LEMMA FreshRuns ==
  ASSUME TypeOK, NEW s \in Signals, NEW t \in Nat, Fresh(s, t), now <= t + MaxWait
  PROVE  /\ now <= Deadline(s) /\ CreatedAt[s] <= t + Skew
         /\ (\A u \in KClaims(IdOf[s]) : u < now) => Known(s) = {}
  <1>1. now \in Nat /\ CreatedAt[s] \in Nat /\ MaxAge \in Nat /\ MaxWait \in Nat
    BY EngineAssumption DEF TypeOK
  <1>2. CreatedAt[s] <= t + Skew /\ t - CreatedAt[s] <= MaxAge
    BY DEF Fresh
  <1>3. now <= Deadline(s)
    BY <1>1, <1>2 DEF Deadline
  <1>4. Known(s) # {} => Deadline(s) \in KClaims(IdOf[s])
    BY KClaimsIs
  <1>5. Deadline(s) \in Nat
    BY DeadlineType
  <1> QED
    BY <1>1, <1>2, <1>3, <1>4, <1>5

\* What an entry into the mutex shares, whatever the conclusion.
LEMMA EnterStep ==
  ASSUME IInv, TypeOK', NEW c \in Calls, Moved(c), LockFree, NoNewKnown, HoldsQuiet,
         UNCHANGED <<now, up, replayOpen, book, bookOk, bookFile, audited>>,
         now <= call'[c].at + MaxWait,
         \A id \in Ids : \A u \in Claims(id) : Covered(id, u) => Covered(id, u)'
  PROVE  OneAttestation' /\ Audited' /\ Backed' /\ ClaimsCovered' /\ ClaimsBounded'
  <1>1. TypeOK /\ Inv /\ now \in Nat /\ now <= now' /\ now' \in Nat
        /\ \A q \in Calls : call'[q].at \in Nat
    BY DEF IInv, TypeOK, CallT
  <1>2. NoNewClaims
    BY ClaimsShrink
  <1>3. OneAttestation' /\ Audited'
    BY <1>1, AttestedStep DEF Inv
  <1>4. \A id, e : Backs(id, e) => Backs(id, e)'
    BY BooksStill
  <1>5. Backed'
    BY <1>1, <1>4, BackedStep DEF Inv
  <1>6. ClaimsCovered'
    BY <1>1, <1>2, CoveredStep DEF Inv
  <1>7. \A q \in Calls : call'[q].pc \in Locked => q = c
    BY DEF Moved, LockFree
  <1>8. ClaimsBounded'
    BY <1>1, <1>2, <1>7, BoundedStep DEF Inv
  <1> QED
    BY <1>3, <1>5, <1>6, <1>8

\* A call that goes on to sign starts out with its signal id to itself.
LEMMA NewApprover ==
  ASSUME TypeOK, NEW c \in Calls, Moved(c), LockFree, NoNewKnown, now' = now,
         call'[c].pc = "signing", call'[c].dec = Rejected, call'[c].keep,
         NEW s \in Signals, call'[c].sig = s, CreatedAt[s] <= call'[c].at + Skew,
         Known(s) = {}, \A u \in KClaims(IdOf[s]) : u < now,
         \A h \in holds' : IdOf[h.sig] = IdOf[s] => Deadline(h.sig) < now
  PROVE  ApproverInv'
  <1>1. \A q \in Calls : Approver(q)' => q = c
    BY DEF Approver, LockFree, Moved
  <1>2. Known(s)' = {} /\ \A u \in KClaims(IdOf[s])' : u < now'
    BY KClaimsShrink DEF NoNewKnown
  <1>3. \A x : Deadline(x)' = Deadline(x)
    BY DEF Deadline
  <1>4. call'[c].dec.st # "approved" /\ call'[c].pc \notin {"committed", "auditing", "recording"}
    BY DecisionTypes
  <1> QED
    BY <1>1, <1>2, <1>3, <1>4 DEF ApproverInv

\* A submission gets the mutex.  If its id is free in the map no claim on it is
\* alive, so an approval or a hold may begin.
LEMMA EnterSubmitInv ==
  ASSUME IInv, TypeOK', NEW c \in Calls, EnterSubmit(c)
  PROVE  Inv'
  <1> DEFINE s == call[c].sig
             t == call[c].at
  <1>1. /\ UNCHANGED <<now, up, poisoned, replayOpen, replay, log, torn, book, bookOk, bookFile,
                       audited, delivered>>
        /\ call[c].pc = "waiting" /\ LockFree
    BY DEF EnterSubmit
  <1>2. s \in Signals /\ t \in Nat /\ TypeOK /\ Inv /\ up /\ now \in Nat /\ fresh \in Nat
    BY <1>1 DEF IInv, TypeOK, CallT, LockInv
  <1>3. call[c].pc \notin Locked
    BY <1>1, LockedPcs
  <1>4. \A id \in Ids : \A u \in Claims(id) : Covered(id, u) => Covered(id, u)'
    BY <1>1, CoverStill
  <1>5. ~Cancelled(c) => now <= t + MaxWait
    BY <1>1 DEF IInv, LockInv
  <1>6. /\ Moved(c) /\ call'[c].sig = s /\ call'[c].at = t
        /\ \/ /\ call'[c].pc = "done" /\ call'[c].dec = Rejected
              /\ holds' = holds /\ fresh' = fresh
           \/ /\ call'[c].pc = "done" /\ ReplayHit(s)
              /\ call'[c].dec = replay[IdOf[s]].dec
              /\ holds' = holds /\ fresh' = fresh
           \/ /\ ~poisoned /\ ~Cancelled(c)
              /\ call'[c].pc = "auditing" /\ call'[c].dec = Rejected
              /\ holds' = holds /\ fresh' = fresh
           \/ /\ ~poisoned /\ ~Cancelled(c) /\ Fresh(s, t) /\ bookOk
              /\ replayOpen /\ IdOf[s] \notin DOMAIN replay
              /\ call'[c].keep
              /\ \/ /\ call'[c].pc = "signing" /\ call'[c].dec = Rejected
                    /\ holds' = holds /\ fresh' = fresh
                 \/ /\ call'[c].pc = "auditing" /\ call'[c].dec = Held(fresh + 1)
                    /\ holds' = holds \cup {NewHold(s, t)}
                    /\ fresh' = fresh + 1
    BY <1>2, EnterSubmitStep
  <1>7. call'[c].pc = "done" /\ call'[c].dec.st = "approved" =>
           call'[c].dec.att \in Known(call'[c].sig)
    <2>1. ReplayHit(s) /\ replay[IdOf[s]].dec.st = "approved" => replay[IdOf[s]].dec.att \in Known(s)
      BY <1>2, KnownIs DEF ReplayHit, Grants
    <2> QED
      BY <1>6, <2>1, DecisionTypes, LockedPcs
  <1>8. NoNewKnown
    BY <1>1, <1>2, <1>6, <1>7, StillKnown
  <1> HIDE DEF s, t
  <1>9. CASE /\ call'[c].pc = "done" \/ (call'[c].pc = "auditing" /\ ~Cancelled(c) /\ call'[c].dec = Rejected)
             /\ holds' = holds /\ fresh' = fresh
    <2>1. ~Approver(c)'
      BY <1>9, LockedPcs, DecisionTypes DEF Approver
    <2>2. ~(call'[c].pc \in Locked /\ call'[c].dec.st = "held")
      BY <1>9, LockedPcs, DecisionTypes
    <2>3. call'[c].pc \in Locked => now <= call'[c].at + MaxWait
      BY <1>9, <1>5, <1>6, LockedPcs
    <2>4. fresh <= fresh'
      BY <1>2, <1>9
    <2> QED
      BY <1>1, <1>3, <1>4, <1>6, <1>8, <1>9, <2>1, <2>2, <2>3, <2>4, PlainStep
  <1>10. CASE /\ ~poisoned /\ ~Cancelled(c) /\ Fresh(s, t)
              /\ replayOpen /\ IdOf[s] \notin DOMAIN replay /\ call'[c].keep
              /\ \/ /\ call'[c].pc = "signing" /\ call'[c].dec = Rejected
                    /\ holds' = holds /\ fresh' = fresh
                 \/ /\ call'[c].pc = "auditing" /\ call'[c].dec = Held(fresh + 1)
                    /\ holds' = holds \cup {NewHold(s, t)}
                    /\ fresh' = fresh + 1
    <2>1. /\ \A u \in KClaims(IdOf[s]) : u < now
          /\ \A h \in holds : IdOf[h.sig] = IdOf[s] => Deadline(h.sig) < now
      BY <1>1, <1>2, <1>10, NewIsFree
    <2>2. now <= Deadline(s) /\ CreatedAt[s] <= t + Skew /\ Known(s) = {}
      BY <1>2, <1>5, <1>10, <2>1, FreshRuns
    <2>3. now <= call'[c].at + MaxWait
      BY <1>5, <1>6, <1>10
    <2>4. CASE /\ call'[c].pc = "signing" /\ call'[c].dec = Rejected
               /\ holds' = holds /\ fresh' = fresh
      <3>1. HoldsQuiet
        BY <1>1, <1>3, <1>6, <2>4, QuietMove
      <3>2. OneAttestation' /\ Audited' /\ Backed' /\ ClaimsCovered' /\ ClaimsBounded'
        BY <1>1, <1>4, <1>6, <1>8, <2>3, <3>1, EnterStep
      <3>3. HoldsAlone'
        BY <1>1, <1>2, <1>8, <2>4, AloneStep DEF Inv
      <3>4. HoldIds'
        <4>1. \A q \in Calls : ~(call'[q].pc \in Locked /\ call'[q].dec.st = "held")
          BY <1>1, <1>6, <2>4, DecisionTypes DEF Moved, LockFree
        <4> QED
          BY <1>2, <2>4, <4>1, HoldIdsStep DEF Inv
      <3>5. ApproverInv'
        BY <1>1, <1>2, <1>6, <1>8, <1>10, <2>1, <2>2, <2>4, NewApprover
      <3> QED
        BY <3>2, <3>3, <3>4, <3>5 DEF Inv
    <2>5. CASE /\ call'[c].pc = "auditing" /\ call'[c].dec = Held(fresh + 1)
               /\ holds' = holds \cup {NewHold(s, t)} /\ fresh' = fresh + 1
      <3> DEFINE n == NewHold(s, t)
      <3>1. n.id = fresh + 1 /\ n.sig = s
        BY DEF NewHold
      <3>2. call'[c].dec.st = "held" /\ call'[c].dec.hold = fresh + 1 /\ call'[c].pc \in Locked
        BY <1>2, <2>5, DecisionTypes, LockedPcs
      <3>3. HoldsQuiet
        <4>1. \A h : h.id = fresh + 1 => Pending(h)'
          BY <3>2 DEF Pending
        <4>2. \A h \in holds : ~Pending(h)
          BY <1>1 DEF LockFree, Pending
        <4> QED
          BY <1>1, <2>5, <3>1, <4>1, <4>2 DEF HoldsQuiet
      <3>4. OneAttestation' /\ Audited' /\ Backed' /\ ClaimsCovered' /\ ClaimsBounded'
        BY <1>1, <1>4, <1>6, <1>8, <2>3, <3>3, EnterStep
      <3> HIDE DEF n
      <3>5. \A id : KClaims(id)' \subseteq KClaims(id)
        BY <1>8, KClaimsShrink
      <3>6. HoldsAlone'
        <4> SUFFICES ASSUME NEW h \in holds', now <= Deadline(h.sig)
                     PROVE  /\ \A u \in KClaims(IdOf[h.sig])' : u < now
                            /\ \A g \in holds' : IdOf[g.sig] = IdOf[h.sig] /\ now <= Deadline(g.sig)
                                                   => g = h
          <5>1. \A x : Deadline(x)' = Deadline(x)
            BY DEF Deadline
          <5> QED
            BY <1>1, <5>1 DEF HoldsAlone
        <4>1. \A g \in holds : Deadline(g.sig) \in Nat
          BY <1>2, DeadlineType DEF TypeOK, HoldT
        <4>2. \A g \in holds : IdOf[g.sig] = IdOf[s] => ~(now <= Deadline(g.sig))
          BY <1>2, <2>1, <4>1
        <4>3. holds' = holds \cup {n}
          BY <2>5 DEF n
        <4>4. CASE h = n
          BY <2>1, <3>1, <3>5, <4>2, <4>3, <4>4
        <4>5. CASE h \in holds
          <5>1. /\ \A u \in KClaims(IdOf[h.sig]) : u < now
                /\ \A g \in holds : IdOf[g.sig] = IdOf[h.sig] /\ now <= Deadline(g.sig) => g = h
            BY <1>2, <1>10, <4>5 DEF Inv, HoldsAlone
          <5>2. IdOf[n.sig] # IdOf[h.sig]
            BY <3>1, <4>2, <4>5
          <5> QED
            BY <3>5, <4>3, <5>1, <5>2
        <4> QED
          BY <4>3, <4>4, <4>5
      <3>7. HoldIds'
        <4>1. \A h \in holds : h.id \in Nat /\ h.id <= fresh
          BY <1>2 DEF TypeOK, HoldT, Inv, HoldIds
        <4>2. holds' = holds \cup {n} /\ fresh' = fresh + 1
          BY <2>5 DEF n
        <4>3. \A h \in holds' : h.id <= fresh' /\ (h.id = fresh + 1 => h.sig = s)
          BY <1>2, <3>1, <4>1, <4>2
        <4>4. \A q \in Calls : call'[q].pc \in Locked => q = c
          BY <1>1, <1>6 DEF Moved, LockFree
        <4> QED
          BY <1>6, <1>10, <2>2, <3>2, <4>3, <4>4 DEF HoldIds
      <3>8. ApproverInv'
        <4>1. \A q \in Calls : ~Approver(q)'
          BY <1>1, <1>6, <2>5, <3>2 DEF Moved, LockFree, Approver
        <4> QED
          BY <4>1 DEF ApproverInv
      <3> QED
        BY <3>4, <3>6, <3>7, <3>8 DEF Inv
    <2> QED
      BY <1>10, <2>4, <2>5
  <1> QED
    BY <1>6, <1>9, <1>10

\* A release gets the mutex and takes its hold, the only live claim on the id.
LEMMA EnterResolveInv ==
  ASSUME IInv, TypeOK', NEW c \in Calls, NEW o, EnterResolve(c, o)
  PROVE  Inv'
  <1> DEFINE t == call[c].at
             S == {h.sig : h \in Lapsed(t)}
  <1>1. /\ UNCHANGED <<now, up, poisoned, replayOpen, book, bookOk, bookFile, audited, delivered>>
        /\ call[c].pc = "waiting" /\ call[c].kind = "resolve" /\ LockFree
    BY DEF EnterResolve
  <1>2. t \in Nat /\ TypeOK /\ Inv /\ up /\ now \in Nat /\ fresh \in Nat /\ t <= now
        /\ S \in SUBSET Signals
    BY <1>1, LapsedSigs DEF IInv, TypeOK, CallT, LockInv
  <1>3. call[c].pc \notin Locked /\ now <= t + MaxWait
    BY <1>1, LockedPcs DEF IInv, LockInv, Cancelled
  <1>4. /\ Moved(c) /\ call'[c].at = t /\ fresh' = fresh
        /\ LogMoves(S, Rejected, t) /\ holds' \subseteq holds
        /\ \/ call'[c].pc = "done" /\ call'[c].dec = Rejected
           \/ \E h \in holds :
               /\ ~poisoned
               /\ call'[c].sig = h.sig /\ call'[c].keep /\ call'[c].dec = Rejected
               /\ holds' \subseteq holds \ {h}
               /\ \/ call'[c].pc = "auditing"
                  \/ call'[c].pc = "signing" /\ Fresh(h.sig, t)
    BY <1>2, EnterResolveStep
  <1> HIDE DEF S, t
  <1>5. \A id \in Ids : \A u \in Claims(id) : Covered(id, u) => Covered(id, u)'
    BY <1>1, <1>2, <1>3, <1>4, ReadingCovers
  <1>6. call'[c].dec.st = "rejected"
    BY <1>4, DecisionTypes
  <1>7. NoNewKnown
    <2>1. \A q \in Calls : call'[q] = call[q] \/ call'[q].dec.st # "approved"
      BY <1>4, <1>6 DEF Moved
    <2> QED
      BY <1>1, <1>2, <1>4, <2>1, DecisionTypes, KnownStep
  <1>8. CASE call'[c].pc \in {"done", "auditing"}
    <2>1. ~Approver(c)'
      BY <1>6, <1>8 DEF Approver
    <2>2. fresh <= fresh'
      BY <1>2, <1>4
    <2> QED
      BY <1>1, <1>3, <1>4, <1>5, <1>6, <1>7, <2>1, <2>2, PlainStep
  <1>9. ASSUME NEW h \in holds, ~poisoned, call'[c].sig = h.sig, call'[c].keep,
               call'[c].dec = Rejected, holds' \subseteq holds \ {h},
               call'[c].pc = "signing", Fresh(h.sig, t)
        PROVE  Inv'
    <2>1. h.sig \in Signals /\ \A g \in holds : Deadline(g.sig) \in Nat
      BY <1>2, DeadlineType DEF TypeOK, HoldT
    <2>2. now <= Deadline(h.sig) /\ CreatedAt[h.sig] <= t + Skew
      BY <1>2, <1>3, <1>9, <2>1, FreshRuns
    <2>3. /\ \A u \in KClaims(IdOf[h.sig]) : u < now
          /\ \A g \in holds : IdOf[g.sig] = IdOf[h.sig] /\ now <= Deadline(g.sig) => g = h
      BY <1>2, <1>9, <2>2 DEF Inv, HoldsAlone
    <2>4. Known(h.sig) = {}
      BY <1>2, <1>3, <1>9, <2>1, <2>3, FreshRuns
    <2>5. \A g \in holds' : IdOf[g.sig] = IdOf[h.sig] => Deadline(g.sig) < now
      BY <1>2, <1>9, <2>1, <2>3
    <2>6. HoldsQuiet
      BY <1>1, <1>3, <1>4, QuietMove
    <2>7. OneAttestation' /\ Audited' /\ Backed' /\ ClaimsCovered' /\ ClaimsBounded'
      BY <1>1, <1>3, <1>4, <1>5, <1>7, <2>6, EnterStep
    <2>8. HoldsAlone'
      BY <1>1, <1>2, <1>4, <1>7, AloneStep DEF Inv
    <2>9. HoldIds'
      <3>1. \A q \in Calls : ~(call'[q].pc \in Locked /\ call'[q].dec.st = "held")
        BY <1>1, <1>4, <1>6 DEF Moved, LockFree
      <3> QED
        BY <1>2, <1>4, <3>1, HoldIdsStep DEF Inv
    <2>10. ApproverInv'
      BY <1>1, <1>2, <1>4, <1>7, <1>9, <2>1, <2>2, <2>3, <2>4, <2>5, NewApprover
    <2> QED
      BY <2>7, <2>8, <2>9, <2>10 DEF Inv
  <1> QED
    BY <1>4, <1>8, <1>9

\* A record made at reading t covers its id until the window after t ends.
LEMMA RecordedCovers ==
  ASSUME TypeOK, TypeOK', NEW s \in Signals, NEW d \in Decs, NEW t \in Nat,
         IdOf[s] \in DOMAIN replay', replay'[IdOf[s]] = Record(s, d, t),
         log'[IdOf[s]] = Append(log[IdOf[s]], Record(s, d, t)),
         NEW u \in Nat, u <= t + Retention
  PROVE  Covered(IdOf[s], u)'
  <1>1. IdOf[s] \in Ids /\ log[IdOf[s]] \in Seq(RecT)
    BY DEF Ids, TypeOK
  <1>2. Record(s, d, t) \in RecT /\ Record(s, d, t).at = t
    BY RecordType
  <1>3. log'[IdOf[s]] # <<>> /\ log'[IdOf[s]][Len(log'[IdOf[s]])] = Record(s, d, t)
    BY <1>1, <1>2, AppendProperties
  <1>4. InLog(IdOf[s], u)' /\ InMap(IdOf[s], u)'
    BY <1>2, <1>3 DEF InLog, InMap
  <1> QED
    BY <1>4 DEF Covered

\* The attestations known after a recorded decision: the decision's own is the
\* only new one.
LEMMA FinalizeKnown ==
  ASSUME TypeOK, NEW c \in Calls, Moved(c), Stays(c), call'[c].pc = "done",
         call'[c].dec = call[c].dec, delivered' = delivered,
         LogMoves({call[c].sig}, call[c].dec, call[c].at),
         NEW s \in Signals, NEW a \in Known(s)', a \notin Known(s)
  PROVE  call[c].dec.st = "approved" /\ s = call[c].sig /\ a = call[c].dec.att
  <1> DEFINE x == call[c].sig
             d == call[c].dec
             t == call[c].at
             id == IdOf[s]
  <1>0. /\ id \in Ids /\ log[id] \in Seq(RecT) /\ log'[id] \in Seq(RecT)
        /\ x \in Signals /\ d \in Decs /\ t \in Nat
    BY DEF Ids, TypeOK, LogMoves, CallT
  <1>1. /\ Record(x, d, t) \in RecT /\ Record(x, d, t).sig = x /\ Record(x, d, t).dec = d
    BY <1>0, RecordType
  <1>2. ASSUME Grants(Record(x, d, t), s), Record(x, d, t).dec.att = a
        PROVE  d.st = "approved" /\ s = x /\ a = d.att
    BY <1>1, <1>2 DEF Grants
  <1>3. a \notin delivered'[s]
    BY KnownIs
  <1>4. ASSUME NEW q \in Calls, call'[q].pc = "done", Grants(call'[q], s), call'[q].dec.att = a
        PROVE  d.st = "approved" /\ s = x /\ a = d.att
    <2>1. CASE q = c
      BY <1>4, <2>1 DEF Grants, Stays
    <2>2. CASE q # c
      BY <1>4, <2>2, KnownIs DEF Moved
    <2> QED
      BY <2>1, <2>2
  <1>5. ASSUME NEW i \in DOMAIN log'[id], Grants(log'[id][i], s), log'[id][i].dec.att = a
        PROVE  d.st = "approved" /\ s = x /\ a = d.att
    <2>1. log'[id] # log[id]
      BY <1>5, KnownIs
    <2>2. log'[id] = Append(log[id], Record(x, d, t))
      BY <1>0, <2>1 DEF LogMoves
    <2>3. /\ Len(log'[id]) = Len(log[id]) + 1
          /\ \A j \in 1..Len(log[id]) : log'[id][j] = log[id][j]
          /\ log'[id][Len(log[id]) + 1] = Record(x, d, t)
      BY <2>2, <1>0, <1>1, AppendProperties
    <2>4. /\ DOMAIN log'[id] = 1..Len(log'[id]) /\ DOMAIN log[id] = 1..Len(log[id])
          /\ Len(log[id]) \in Nat
      BY <1>0, LenProperties
    <2>5. ~(i \in DOMAIN log[id] /\ Grants(log[id][i], s) /\ log[id][i].dec.att = a)
      BY KnownIs
    <2> HIDE DEF id, x, d, t
    <2>6. i = Len(log[id]) + 1
      BY <1>5, <2>3, <2>4, <2>5
    <2> QED
      BY <1>2, <1>5, <2>3, <2>6
  <1>6. ASSUME id \in DOMAIN replay', Grants(replay'[id], s), replay'[id].dec.att = a
        PROVE  d.st = "approved" /\ s = x /\ a = d.att
    <2>1. ~(id \in DOMAIN replay /\ replay'[id] = replay[id])
      BY <1>6, KnownIs
    <2>2. replay'[id] = Record(x, d, t)
      BY <1>6, <2>1 DEF LogMoves
    <2> QED
      BY <1>2, <1>6, <2>2
  <1> QED
    BY <1>3, <1>4, <1>5, <1>6, KnownIsNext

\* A decision that could not be recorded becomes a rejection.
LEMMA RefusedInv ==
  ASSUME Prudent, IInv, TypeOK', NEW c \in Calls, NEW o \in LogOutcomes, Finalize(c, o),
         ~(replayOpen /\ o = "ok")
  PROVE  Inv'
  <1>1. /\ UNCHANGED <<now, up, poisoned, replayOpen, book, bookOk, bookFile, fresh, audited,
                       delivered>>
        /\ call[c].pc = "recording" /\ LogRecord(call[c].sig, call[c].dec, call[c].at, o)
    BY DEF Finalize
  <1>2. TypeOK /\ call[c].sig \in Signals /\ call[c].dec \in Decs /\ call[c].at \in Nat
        /\ now \in Nat /\ fresh \in Nat
    BY DEF IInv, TypeOK, CallT
  <1>3. o # "written"
    BY DEF Prudent
  <1>4. replay' = replay /\ log' = log
    BY <1>1, <1>2, <1>3, LogOneStep
  <1>5. /\ Moved(c) /\ call'[c].pc = "done" /\ call'[c].dec = Rejected
        /\ holds' = WithoutHold(call[c].dec)
    BY <1>2, FinalizeStep
  <1>6. call'[c].pc \notin Locked /\ ~Approver(c)'
    BY <1>5, LockedPcs DEF Approver
  <1>7. NoNewKnown
    BY <1>1, <1>2, <1>4, <1>5, DecisionTypes, StillKnown
  <1>8. \A id \in Ids : \A u \in Claims(id) : Covered(id, u) => Covered(id, u)'
    BY <1>1, <1>4, CoverStill
  <1>9. holds' \subseteq holds /\ \A h \in holds' : h.id # call[c].dec.hold
    BY <1>5 DEF WithoutHold
  <1>10. fresh <= fresh' /\ audited \subseteq audited'
    BY <1>1, <1>2
  <1> QED
    BY <1>1, <1>5, <1>6, <1>7, <1>8, <1>9, <1>10, PlainStep

\* What the record of a decision adds to the claims on its id: the last moment of
\* its signal, if the decision is an approval or a hold, and the expiry of an
\* approval's attestation.
LEMMA RecordedClaims ==
  ASSUME IInv, NEW c \in Calls, call[c].pc = "recording", Moved(c), Stays(c),
         call'[c].pc = "done", call'[c].dec = call[c].dec,
         UNCHANGED <<poisoned, holds, delivered>>,
         LogMoves({call[c].sig}, call[c].dec, call[c].at),
         NEW id \in Ids, NEW u \in Claims(id)', u \notin Claims(id)
  PROVE  /\ id = IdOf[call[c].sig]
         /\ \/ call[c].dec.st \in {"approved", "held"} /\ u = Deadline(call[c].sig)
            \/ call[c].dec.st = "approved" /\ u = call[c].dec.att.exp
  <1>1. TypeOK /\ call[c].pc \in Locked /\ \A q \in Calls : call[q].pc \in Locked => q = c
    BY LockedPcs DEF IInv, LockInv
  <1>2. CASE u \in KClaims(id)'
    <2>1. u \notin KClaims(id)
      BY DEF Claims
    <2>2. PICK s \in Signals : /\ IdOf[s] = id
                               /\ \/ Known(s)' # {} /\ u = Deadline(s)
                                  \/ \E a \in Known(s)' : u = a.exp
      BY <1>2, KClaimsIsNext
    <2>3. PICK a \in Known(s)' : a \notin Known(s) /\ (u = Deadline(s) \/ u = a.exp)
      <3>1. ~(Known(s) # {} /\ u = Deadline(s)) /\ \A a \in Known(s) : u # a.exp
        BY <2>1, <2>2, KClaimsIs
      <3> QED
        BY <2>2, <3>1
    <2>4. call[c].dec.st = "approved" /\ s = call[c].sig /\ a = call[c].dec.att
      BY <1>1, <2>3, FinalizeKnown
    <2> QED
      BY <2>2, <2>3, <2>4
  <1>3. CASE u \in HClaims(id)'
    <2>1. PICK h \in holds : ~poisoned /\ IdOf[h.sig] = id /\ ~Pending(h)' /\ u = Deadline(h.sig)
      BY <1>3, HClaimsIsNext
    <2>2. Pending(h)
      BY <2>1, HClaimsIs DEF Claims
    <2>3. call[c].dec.st = "held" /\ call[c].dec.hold = h.id
      BY <1>1, <2>2 DEF Pending
    <2>4. h.sig = call[c].sig
      BY <1>1, <2>1, <2>3 DEF IInv, Inv, HoldIds
    <2> QED
      BY <2>1, <2>3, <2>4
  <1> QED
    BY <1>2, <1>3 DEF Claims

\* A decision that was recorded: an approval makes its attestation known, a hold
\* may now be released.
LEMMA RecordedInv ==
  ASSUME Prudent, IInv, TypeOK', NEW c \in Calls, NEW o \in LogOutcomes, Finalize(c, o),
         replayOpen, o = "ok"
  PROVE  Inv'
  <1> DEFINE x == call[c].sig
             d == call[c].dec
             t == call[c].at
  <1>1. /\ UNCHANGED <<now, up, poisoned, replayOpen, book, bookOk, bookFile, fresh, audited,
                       delivered>>
        /\ call[c].pc = "recording" /\ LogRecord(x, d, t, o)
    BY DEF Finalize
  <1>2. TypeOK /\ x \in Signals /\ d \in Decs /\ t \in Nat /\ now \in Nat /\ IdOf[x] \in Ids
        /\ d.att.exp \in Nat
    BY DEF IInv, TypeOK, CallT, Ids, Decs, Atts
  <1>3. /\ IdOf[x] \in DOMAIN replay' /\ replay'[IdOf[x]] = Record(x, d, t)
        /\ log'[IdOf[x]] = Append(log[IdOf[x]], Record(x, d, t))
    <2>1. o # "written"
      BY DEF Prudent
    <2> HIDE DEF x, d, t
    <2> QED
      BY <1>1, <1>2, <2>1, LogOneStep
  <1>4. /\ Moved(c) /\ Stays(c) /\ call'[c].pc = "done" /\ LogMoves({x}, d, t)
        /\ call'[c].dec = d /\ holds' = holds
    BY <1>2, FinalizeStep
  <1>5. call[c].pc \in Locked /\ t <= now /\ \A q \in Calls : call[q].pc \in Locked => q = c
    BY <1>1, LockedPcs DEF IInv, LockInv
  <1>6. \A q \in Calls : call'[q].pc \notin Locked
    BY <1>4, <1>5, LockedPcs DEF Moved
  <1>7. ASSUME d.st = "approved"
        PROVE  /\ CreatedAt[x] <= t + Skew /\ Known(x) = {}
               /\ \A u \in KClaims(IdOf[x]) : u < now
               /\ \A h \in holds : IdOf[h.sig] = IdOf[x] => Deadline(h.sig) < now
               /\ d.att.exp = t + Ttl /\ Backs(IdOf[x], d.att.exp)
               /\ AuditMandatory => d.att.n \in audited
    <2>1. Approver(c)
      BY <1>5, <1>7 DEF Approver
    <2> QED
      BY <1>1, <1>2, <1>7, <2>1 DEF IInv, Inv, ApproverInv
  <1>8. ASSUME d.st = "held"
        PROVE  CreatedAt[x] <= t + Skew
    BY <1>5, <1>8 DEF IInv, Inv, HoldIds
  <1>9. /\ d.st \in {"approved", "held"} => /\ Deadline(x) \in Nat
                                             /\ Deadline(x) + MaxWait <= t + Retention
        /\ d.st = "approved" => d.att.exp + MaxWait <= t + Retention
    <2>1. CreatedAt[x] \in Nat /\ Deadline(x) = CreatedAt[x] + MaxAge + MaxWait
      BY <1>2, EngineAssumption DEF Deadline
    <2>2. MaxAge \in Nat /\ MaxWait \in Nat /\ Skew \in Nat /\ Ttl \in Nat /\ Retention \in Nat
      BY EngineAssumption
    <2>3. Retention >= MaxAge + Skew + 2 * MaxWait /\ Retention >= Ttl + MaxWait
      BY DEF Prudent
    <2>4. d.st \in {"approved", "held"} => CreatedAt[x] <= t + Skew
      BY <1>7, <1>8
    <2>5. d.st = "approved" => d.att.exp = t + Ttl
      BY <1>7
    <2> HIDE DEF x, d, t
    <2>6. 2 * MaxWait = MaxWait + MaxWait
      BY <2>2
    <2> QED
      BY <1>2, <2>1, <2>2, <2>3, <2>4, <2>5, <2>6
  <1>10. ASSUME NEW id \in Ids, NEW u \in Claims(id)'
         PROVE  \/ u \in Claims(id)
                \/ /\ id = IdOf[x] /\ u \in Nat /\ u + MaxWait <= t + Retention
    <2>1. u \notin Claims(id) =>
            /\ id = IdOf[x]
            /\ \/ d.st \in {"approved", "held"} /\ u = Deadline(x)
               \/ d.st = "approved" /\ u = d.att.exp
      BY <1>1, <1>4, RecordedClaims
    <2> QED
      BY <1>2, <1>9, <2>1
  <1>11. ASSUME NEW s \in Signals, NEW a \in Known(s)'
         PROVE  \/ a \in Known(s)
                \/ d.st = "approved" /\ s = x /\ a = d.att
    BY <1>1, <1>2, <1>4, FinalizeKnown
  <1> HIDE DEF x, d, t
  <1>12. OneAttestation'
    <2> SUFFICES ASSUME NEW s \in Signals, NEW a \in Known(s)', NEW b0 \in Known(s)'
                 PROVE  a = b0
      BY DEF OneAttestation
    <2>1. CASE d.st = "approved" /\ s = x
      BY <1>7, <1>11, <2>1
    <2>2. CASE ~(d.st = "approved" /\ s = x)
      BY <1>11, <2>2 DEF IInv, Inv, OneAttestation
    <2> QED
      BY <2>1, <2>2
  <1>13. Audited'
    BY <1>1, <1>7, <1>11 DEF IInv, Inv, Audited
  <1>14. Backed'
    <2> SUFFICES ASSUME NEW s \in Signals, NEW a \in Known(s)'
                 PROVE  a.exp < now' \/ Backs(IdOf[s], a.exp)'
      BY DEF Backed
    <2>1. a.exp < now \/ Backs(IdOf[s], a.exp)
      BY <1>7, <1>11 DEF IInv, Inv, Backed
    <2> QED
      BY <1>1, <2>1, BooksStill
  <1>15. ClaimsCovered'
    <2> SUFFICES ASSUME NEW id \in Ids, NEW u \in Claims(id)'
                 PROVE  Covered(id, u)'
      BY DEF ClaimsCovered
    <2>1. CASE u \in Claims(id)
      <3>1. u \in Nat /\ u <= t + Retention
        BY <1>2, <1>5, <2>1, ClaimsType DEF IInv, Inv, ClaimsBounded, t
      <3>2. Covered(id, u)
        BY <2>1 DEF IInv, Inv, ClaimsCovered
      <3> QED
        BY <1>1, <1>2, <1>4, <1>5, <3>1, <3>2, CoverStep
    <2>2. CASE id = IdOf[x] /\ u \in Nat /\ u + MaxWait <= t + Retention
      <3>1. u <= t + Retention
        BY <1>2, <2>2, EngineAssumption
      <3> QED
        BY <1>2, <1>3, <2>2, <3>1, RecordedCovers
    <2> QED
      BY <1>10, <2>1, <2>2
  <1>16. ClaimsBounded'
    <2> SUFFICES ASSUME NEW id \in Ids, NEW u \in Claims(id)'
                 PROVE  u + MaxWait <= now' + Retention
      BY <1>6 DEF ClaimsBounded
    <2>1. CASE u \in Claims(id)
      BY <1>1, <2>1 DEF IInv, Inv, ClaimsBounded
    <2>2. CASE u \in Nat /\ u + MaxWait <= t + Retention
      BY <1>1, <1>2, <1>5, <2>2, EngineAssumption
    <2> QED
      BY <1>10, <2>1, <2>2
  <1>17. HoldsAlone'
    <2> SUFFICES ASSUME ~poisoned, NEW h \in holds, now <= Deadline(h.sig)
                 PROVE  /\ \A u \in KClaims(IdOf[h.sig])' : u < now
                        /\ \A g \in holds : IdOf[g.sig] = IdOf[h.sig] /\ now <= Deadline(g.sig)
                                              => g = h
      <3>1. \A s : Deadline(s)' = Deadline(s)
        BY DEF Deadline
      <3> QED
        BY <1>1, <1>4, <3>1 DEF HoldsAlone
    <2>1. /\ \A u \in KClaims(IdOf[h.sig]) : u < now
          /\ \A g \in holds : IdOf[g.sig] = IdOf[h.sig] /\ now <= Deadline(g.sig) => g = h
      BY DEF IInv, Inv, HoldsAlone
    <2>2. h.sig \in Signals /\ Deadline(h.sig) \in Nat
      BY <1>2, DeadlineType DEF TypeOK, HoldT
    <2>3. ASSUME NEW u \in KClaims(IdOf[h.sig])'
          PROVE  u \in KClaims(IdOf[h.sig])
      <3>1. PICK s \in Signals : /\ IdOf[s] = IdOf[h.sig]
                                 /\ \/ Known(s)' # {} /\ u = Deadline(s)
                                    \/ \E a \in Known(s)' : u = a.exp
        BY <2>3, KClaimsIsNext
      <3>2. ~(d.st = "approved" /\ s = x)
        BY <1>2, <1>7, <2>2, <3>1
      <3>3. Known(s)' \subseteq Known(s)
        BY <1>11, <3>2
      <3> QED
        BY <3>1, <3>3, KClaimsIs
    <2> QED
      BY <2>1, <2>3
  <1>18. HoldIds'
    BY <1>1, <1>4, <1>6 DEF IInv, Inv, HoldIds
  <1>19. ApproverInv'
    BY <1>6 DEF ApproverInv, Approver
  <1> QED
    BY <1>12, <1>13, <1>14, <1>15, <1>16, <1>17, <1>18, <1>19 DEF Inv

\* A decision is recorded, or not.
LEMMA FinalizeInv ==
  ASSUME Prudent, IInv, TypeOK', NEW c \in Calls, NEW o \in LogOutcomes, Finalize(c, o)
  PROVE  Inv'
  BY RecordedInv, RefusedInv

\* The invariant holds initially: nothing is known or claimed.
LEMMA InvInit == Init => Inv
  <1> SUFFICES ASSUME Init PROVE Inv
    OBVIOUS
  <1>1. /\ now = 1 /\ holds = {} /\ fresh = 0
        /\ \A c \in Calls : call[c] = Idle
        /\ DOMAIN replay = {} /\ \A id \in Ids : log[id] = <<>>
        /\ \A s \in Signals : delivered[s] = {}
    BY DEF Init
  <1>2. \A c \in Calls : call[c].pc = "idle"
    BY <1>1, IdleType
  <1>3. ASSUME NEW s \in Signals
        PROVE  Known(s) = {}
    <2>1. IdOf[s] \in Ids /\ DOMAIN <<>> = {}
      BY DEF Ids
    <2>2. DOMAIN log[IdOf[s]] = {}
      BY <1>1, <2>1
    <2>3. \A a : a \notin Known(s)
      BY <1>1, <1>2, <2>2, KnownIs
    <2> QED
      BY <2>3
  <1>4. \A id \in Ids : Claims(id) = {}
    <2> SUFFICES ASSUME NEW id \in Ids, NEW u \in Claims(id)
                 PROVE  FALSE
      OBVIOUS
    <2>1. u \notin KClaims(id)
      BY <1>3, KClaimsIs
    <2>2. u \notin HClaims(id)
      BY <1>1, HClaimsIs
    <2> QED
      BY <2>1, <2>2 DEF Claims
  <1>5. \A c \in Calls : call[c].pc \notin Locked /\ ~Approver(c)
    BY <1>2, LockedPcs DEF Approver
  <1>6. OneAttestation /\ Audited /\ Backed
    BY <1>3 DEF OneAttestation, Audited, Backed
  <1>7. ClaimsCovered /\ ClaimsBounded
    BY <1>4 DEF ClaimsCovered, ClaimsBounded
  <1>8. HoldsAlone /\ HoldIds /\ ApproverInv
    BY <1>1, <1>5 DEF HoldsAlone, HoldIds, ApproverInv
  <1> QED
    BY <1>6, <1>7, <1>8 DEF Inv

\* Every step keeps the invariant.
LEMMA InvNext == Prudent /\ IInv /\ [Next]_vars => Inv'
  <1> SUFFICES ASSUME Prudent, IInv, [Next]_vars PROVE Inv'
    OBVIOUS
  <1>0. TypeOK'
    BY TypeNext DEF IInv
  <1>1. ASSUME NEW c \in Calls, NEW s \in Signals, Begin(c, "submit", s) \/ Begin(c, "resolve", s)
        PROVE  Inv'
    BY <1>0, <1>1, BeginInv
  <1>2. ASSUME NEW c \in Calls,
               GiveUp(c) \/ EnterSubmit(c) \/ Sign(c) \/ Reply(c) \/ Panic(c)
        PROVE  Inv'
    BY <1>0, <1>2, GiveUpInv, EnterSubmitInv, SignInv, ReplyInv, PanicInv
  <1>3. ASSUME NEW c \in Calls, NEW o, EnterResolve(c, o) \/ Reserve(c, o) \/ Commit(c, o)
        PROVE  Inv'
    BY <1>0, <1>3, EnterResolveInv, ReserveInv, CommitInv
  <1>4. ASSUME NEW c \in Calls, NEW ok \in AuditOutcomes, Audit(c, ok)
        PROVE  Inv'
    BY <1>0, <1>4, AuditInv, EngineAssumption
  <1>5. ASSUME NEW c \in Calls, NEW o \in LogOutcomes, Finalize(c, o)
        PROVE  Inv'
    BY <1>0, <1>5, FinalizeInv
  <1>6. ASSUME NEW t \in Readings, NEW o, Maintenance(t, o) \/ ListHolds(t, o)
        PROVE  Inv'
    BY <1>0, <1>6, MaintenanceInv
  <1>7. ASSUME KillChange \/ UNCHANGED vars
        PROVE  Inv'
    <2>1. UNCHANGED <<now, up, poisoned, call, holds, replayOpen, replay, log, torn,
                      book, bookOk, bookFile, fresh, audited, delivered>>
      BY <1>7 DEF KillChange, vars
    <2> QED
      BY <1>0, <2>1, KillChangeInv
  <1>8. ASSUME Crash \/ ClockAdvance
        PROVE  Inv'
    BY <1>0, <1>8, CrashInv, ClockInv
  <1>9. ASSUME NEW opens \in BOOLEAN, NEW loads \in BOOLEAN, Start(opens, loads)
        PROVE  Inv'
    BY <1>0, <1>9, StartInv
  <1> QED
    BY <1>1, <1>2, <1>3, <1>4, <1>5, <1>6, <1>7, <1>8, <1>9, IdleType DEF Next

\* The whole invariant is inductive.
LEMMA Inductive == Prudent /\ IInv /\ [Next]_vars => IInv'
  BY TypeNext, LockNext, InvNext DEF IInv

-----------------------------------------------------------------------------
(* Theorems.                                                               *)

\* The stores, the calls and the history keep their types through every step of
\* SubmitSignal and ResolveHold, every failed write and every restart.
THEOREM EngineTypeCorrect == Spec => []TypeOK
  <1>1. Init => TypeOK
    BY TypeInit
  <1>2. TypeOK /\ [Next]_vars => TypeOK'
    BY TypeNext
  <1> QED
    BY <1>1, <1>2, PTL DEF Spec

\* The mutex of submit.rs: whatever calls give up, panic or die with the process,
\* at most one of them is between acquiring it and its reply, none of them while
\* it is poisoned, and a call still waiting for it read the clock at most MaxWait ago.
THEOREM EngineExclusive == Spec => []LockInv
  <1>1. Init => TypeOK /\ LockInv
    BY TypeInit, LockInit
  <1>2. TypeOK /\ LockInv /\ [Next]_vars => TypeOK' /\ LockInv'
    BY TypeNext, LockNext
  <1> QED
    BY <1>1, <1>2, PTL DEF Spec

\* The inductive invariant holds throughout.
THEOREM EngineInvariant ==
  ASSUME Prudent
  PROVE  Spec => []IInv
  <1>1. Init => IInv
    BY TypeInit, LockInit, InvInit DEF IInv
  <1>2. IInv /\ [Next]_vars => IInv'
    BY Inductive
  <1> QED
    BY <1>1, <1>2, PTL DEF Spec

\* The invariant implies GrantsBacked.
LEMMA InvBacks == IInv => GrantsBacked
  <1> SUFFICES ASSUME IInv, NEW s \in Signals, NEW a \in delivered[s]
               PROVE  /\ AuditMandatory => a.n \in audited
                      /\ up /\ bookOk /\ a.exp >= now => /\ IdOf[s] \in DOMAIN book
                                                         /\ book[IdOf[s]] >= a.exp
    BY DEF GrantsBacked
  <1>1. a \in Known(s)
    BY KnownIs
  <1>2. a.exp \in Nat /\ now \in Nat
    BY <1>1, KnownType DEF IInv, TypeOK, Atts
  <1>3. AuditMandatory => a.n \in audited
    BY <1>1 DEF IInv, Inv, Audited
  <1>4. a.exp < now \/ Backs(IdOf[s], a.exp)
    BY <1>1 DEF IInv, Inv, Backed
  <1> QED
    BY <1>2, <1>3, <1>4 DEF Backs

\* Every attestation a caller holds is on the audit record and, until it expires,
\* covered by a reservation that lasts as long (submit.rs reserve,
\* release_abandoned and finalize; portfolio.rs expire_reservations).
THEOREM GrantsAreBacked ==
  ASSUME Prudent
  PROVE  Spec => []GrantsBacked
  BY EngineInvariant, InvBacks, PTL

\* Every step of the engine is a grant of AttestOnce or leaves it alone.
LEMMA StepGrants == IInv /\ [Next]_vars => [Promise!Next]_delivered
  <1> SUFFICES ASSUME IInv, [Next]_vars, delivered' # delivered
               PROVE  Promise!Next
    OBVIOUS
  <1>1. PICK c \in Calls : Reply(c)
    BY DEF Next, vars, Begin, GiveUp, EnterSubmit, EnterResolve, Sign, Reserve, Commit, Audit,
           Finalize, Maintenance, ListHolds, KillChange, Panic, Crash, Start, ClockAdvance
  <1>2. TypeOK /\ OneAttestation
    BY DEF IInv, Inv
  <1> DEFINE s == call[c].sig
             a == call[c].dec.att
  <1>3. s \in Signals /\ delivered \in [Signals -> SUBSET Atts]
    BY <1>2 DEF TypeOK, CallT
  <1>4. /\ call[c].pc = "done" /\ call[c].dec.st = "approved"
        /\ delivered' = [delivered EXCEPT ![s] = @ \cup {a}]
    BY <1>1 DEF Reply
  <1>5. a \in Known(s) /\ delivered[s] \subseteq Known(s)
    BY <1>3, <1>4, KnownIs DEF Grants
  <1>6. delivered[s] \subseteq {a}
    BY <1>2, <1>3, <1>5 DEF OneAttestation
  <1> HIDE DEF s, a
  <1>7. delivered' = [delivered EXCEPT ![s] = {a}]
    <2>1. delivered[s] \cup {a} = {a}
      BY <1>6
    <2> QED
      BY <1>4, <2>1
  <1>8. a \in delivered'[s]
    BY <1>3, <1>7
  <1>9. Promise!Grant(s, a)
    BY <1>6, <1>7 DEF Promise!Grant
  <1> QED
    BY <1>3, <1>8, <1>9 DEF Promise!Next

\* The engine implements AttestOnce: the attestations that callers ever receive
\* for one payload are copies of one, through retries after a deadline, released
\* holds, failed appends, torn logs and restarts (replay.rs record and load,
\* submit.rs replay_hit and finalize).
THEOREM EngineAttestsOnce ==
  ASSUME Prudent
  PROVE  Spec => AttestsOnce
  <1>1. Init => Promise!Init
    BY DEF Init, Promise!Init
  <1>2. IInv /\ [Next]_vars => [Promise!Next]_delivered
    BY StepGrants
  <1> QED
    BY <1>1, <1>2, EngineInvariant, PTL DEF Spec, AttestsOnce, Promise!Spec
=============================================================================
