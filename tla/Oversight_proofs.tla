------------------------- MODULE Oversight_proofs ---------------------------
(***************************************************************************)
(* Proofs about the two places where people decide.  First the chain of    *)
(* human oversight: the audit log, the manifest store and the HITL         *)
(* backend, composed.  Sequences whose elements have no type of their own  *)
(* (audit rows carry any event) are handled by AnySeq.  Then the SHARP     *)
(* gate, for any pipeline, any spellings, any number of gate processes and *)
(* any failures.                                                           *)
(***************************************************************************)
EXTENDS HitlBackend, SharpGate, SequenceTheorems, FunctionTheorems, FiniteSetTheorems, TLAPS

AnySeq(s) == \E S : s \in Seq(S)

(* Appending to, and cutting, a sequence of anything.                      *)
LEMMA AppendAny ==
  ASSUME NEW s, AnySeq(s), NEW e
  PROVE  /\ AnySeq(Append(s, e))
         /\ Len(s) \in Nat /\ Len(Append(s, e)) = Len(s) + 1
         /\ \A i \in 1..Len(s) : Append(s, e)[i] = s[i]
         /\ Append(s, e)[Len(s) + 1] = e
<1>1. PICK S : s \in Seq(S)
  BY DEF AnySeq
<1>2. s \in Seq(S \cup {e})
  BY <1>1
<1>3. Append(s, e) \in Seq(S \cup {e})
  BY <1>2, AppendProperties
<1> QED
  BY <1>2, <1>3, AppendProperties, LenProperties DEF AnySeq

LEMMA CutAny ==
  ASSUME NEW s, AnySeq(s), NEW n \in 0..Len(s)
  PROVE  /\ AnySeq(SubSeq(s, 1, n)) /\ Len(s) \in Nat
         /\ Len(SubSeq(s, 1, n)) = n
         /\ \A i \in 1..n : SubSeq(s, 1, n)[i] = s[i]
<1>1. PICK S : s \in Seq(S)
  BY DEF AnySeq
<1>2. Len(s) \in Nat /\ n \in Nat /\ \A i \in 1..n : s[i] \in S
  BY <1>1, LenProperties
<1>3. /\ SubSeq(s, 1, n) \in Seq(S)
      /\ Len(SubSeq(s, 1, n)) = IF 1 <= n THEN n - 1 + 1 ELSE 0
      /\ \A i \in 1..(n - 1 + 1) : SubSeq(s, 1, n)[i] = s[1 + i - 1]
  BY <1>2, SubSeqProperties
<1>4. n - 1 + 1 = n /\ \A i \in 1..n : 1 + i - 1 = i
  BY <1>2
<1> QED
  BY <1>2, <1>3, <1>4 DEF AnySeq

-----------------------------------------------------------------------------
(* What a step may do to the audit log.                                    *)

AuditMoves ==
  \/ UNCHANGED auditVars
  \/ \E e : Commit(e)
  \/ ReadHead
  \/ Emit
  \/ \E n \in 0..Len(rows) : Restore(n)

LEMMA NotAppendedMoves ==
  ASSUME NEW e, NEW p, NotAppended(e, p)  PROVE AuditMoves
  BY DEF NotAppended, Appended, AuditMoves

LEMMA AppendedMoves ==
  ASSUME NEW e, NEW p, Appended(e, p)  PROVE AuditMoves
  BY DEF Appended, AuditMoves

LEMMA AuditStep ==
  ASSUME [Next]_vars  PROVE AuditMoves
<1> USE NotAppendedMoves, AppendedMoves
<1>1. ASSUME NEW op \in Operators, NEW id \in RequestIds, NEW h \in Holds, NEW a \in BOOLEAN,
             Decide(op, id, h, a)
      PROVE  AuditMoves
  BY <1>1 DEF Decide, Deny, AuditMoves
<1>2. ASSUME NEW op \in Operators, NEW id \in RequestIds, NEW h \in Holds, NEW a \in BOOLEAN,
             Replay(op, id, h, a)
      PROVE  AuditMoves
  BY <1>2 DEF Replay
<1>3. ASSUME AuditAttempt  PROVE AuditMoves
  BY <1>3 DEF AuditAttempt
<1>4. ASSUME Resolve  PROVE AuditMoves
  BY <1>4 DEF Resolve, Deny, AuditMoves
<1>5. ASSUME Relay \/ HitlCrash \/ (\E h \in Holds : Expire(h)) \/ (\E o \in Orders : Arrive(o))
      PROVE  AuditMoves
  BY <1>5 DEF Relay, HitlCrash, Expire, Arrive, AuditMoves
<1>6. ASSUME Finish  PROVE AuditMoves
  BY <1>6 DEF Finish
<1>7. ASSUME NEW o \in Orders, Motor(o)  PROVE AuditMoves
  BY <1>7 DEF Motor, EmitAudit, AuditMoves
<1>8. ASSUME Operate  PROVE AuditMoves
  BY <1>8 DEF Operate, Reaudit, AuditOperate, AuditMoves
<1>9. ASSUME UNCHANGED vars  PROVE AuditMoves
  BY <1>9 DEF vars, AuditMoves
<1> QED
  BY <1>1, <1>2, <1>3, <1>4, <1>5, <1>6, <1>7, <1>8, <1>9 DEF Next

(* The records of the log: nothing that was recorded is forgotten, by the  *)
(* table or by what a restore took from it.                                *)
LEMMA RecordsStay ==
  ASSUME AnySeq(rows), AuditMoves
  PROVE  AnySeq(rows') /\ \A e : Recorded(e) => Recorded(e)'
<1>1. CASE \E e : Commit(e)
  <2>1. PICK e : Commit(e)
    BY <1>1
  <2>2. rows' = Append(rows, build_canonical(e)) /\ lost' = lost
    BY <2>1 DEF Commit
  <2>3. /\ AnySeq(rows') /\ Len(rows) \in Nat /\ Len(rows') = Len(rows) + 1
        /\ \A i \in 1..Len(rows) : rows'[i] = rows[i]
    BY <2>2, AppendAny
  <2>4. \A i \in 1..Len(rows) : i \in 1..Len(rows')
    BY <2>3
  <2> QED
    BY <2>2, <2>3, <2>4 DEF Recorded
<1>2. CASE \E n \in 0..Len(rows) : Restore(n)
  <2>1. PICK n \in 0..Len(rows) : Restore(n)
    BY <1>2
  <2>2. /\ rows' = SubSeq(rows, 1, n)
        /\ lost' = lost \cup {rows[i] : i \in (n + 1)..Len(rows)}
    BY <2>1 DEF Restore
  <2>3. /\ AnySeq(rows') /\ Len(rows) \in Nat /\ Len(rows') = n
        /\ \A i \in 1..n : rows'[i] = rows[i]
    BY <2>2, CutAny
  <2>4. ASSUME NEW e, Recorded(e)  PROVE Recorded(e)'
    <3>1. CASE \E r \in lost : r.event = e
      BY <2>2, <3>1 DEF Recorded
    <3>2. ASSUME NEW i \in 1..Len(rows), rows[i].event = e  PROVE Recorded(e)'
      <4>1. CASE i <= n
        <5>1. i \in 1..n /\ i \in 1..Len(rows')
          BY <2>3, <4>1
        <5> QED
          BY <2>3, <3>2, <5>1 DEF Recorded
      <4>2. CASE i > n
        <5>1. i \in (n + 1)..Len(rows)
          BY <2>3, <4>2
        <5>2. rows[i] \in lost'
          BY <2>2, <5>1
        <5> QED
          BY <3>2, <5>2 DEF Recorded
      <4> QED
        BY <2>3, <4>1, <4>2
    <3> QED
      BY <2>4, <3>1, <3>2 DEF Recorded
  <2> QED
    BY <2>3, <2>4
<1>3. CASE UNCHANGED <<rows, lost>>
  BY <1>3 DEF Recorded
<1> QED
  BY <1>1, <1>2, <1>3 DEF AuditMoves, ReadHead, Emit, auditVars

-----------------------------------------------------------------------------
(* What a step may do to the manifest directory and the motor's threads.   *)

Begins(h) ==
  /\ pc[h] = "idle" /\ Go(h, "release")
  /\ UNCHANGED <<files, lock, prev, seq, broker>>

Writes(o) ==
  \/ Acquire(o) \/ Build(o, Consistent(o)) \/ CheckHead(o) \/ Number(o) \/ Create(o)
  \/ Write(o) \/ EmitAudit(o) \/ SubmitOrder(o)

StoreMoves ==
  \/ UNCHANGED <<files, lock, pc, prev, seq, broker>>
  \/ \E h : Begins(h)
  \/ \E o \in Orders : Writes(o)
  \/ \E p \in Processes : MotorCrash(p)

LEMMA StoreStep ==
  ASSUME [Next]_vars  PROVE StoreMoves
<1>1. ASSUME NEW op \in Operators, NEW id \in RequestIds, NEW h \in Holds, NEW a \in BOOLEAN,
             Decide(op, id, h, a) \/ Replay(op, id, h, a)
      PROVE  StoreMoves
  BY <1>1 DEF Decide, Replay, StoreMoves, storeVars
<1>2. ASSUME AuditAttempt \/ Resolve \/ Finish \/ HitlCrash \/ (\E h \in Holds : Expire(h))
      PROVE  StoreMoves
  BY <1>2 DEF AuditAttempt, Resolve, Finish, HitlCrash, Expire, StoreMoves, storeVars
<1>3. ASSUME Relay  PROVE StoreMoves
  BY <1>3 DEF Relay, StoreMoves, Begins
<1>4. ASSUME NEW o \in Orders, Arrive(o)  PROVE StoreMoves
  BY <1>4 DEF Arrive, StoreMoves, Begins
<1>5. ASSUME NEW o \in Orders, Motor(o)  PROVE StoreMoves
  BY <1>5 DEF Motor, StoreMoves, Writes
<1>6. ASSUME Operate  PROVE StoreMoves
  BY <1>6 DEF Operate, Reaudit, StoreMoves, storeVars
<1>7. ASSUME UNCHANGED vars  PROVE StoreMoves
  BY <1>7 DEF vars, storeVars, StoreMoves
<1> QED
  BY <1>1, <1>2, <1>3, <1>4, <1>5, <1>6, <1>7 DEF Next

Places == {"idle", "release", "head", "put", "number", "create", "write", "audit", "released",
           "sent", "refused"}

Digests == Orders \cup {GENESIS_HASH}

File == [order : Orders, prev : Digests, whole : BOOLEAN]

StoreTypes ==
  /\ files \in Seq(File) /\ lock \in [Processes -> Orders \cup {Free}]
  /\ pc \in [Orders -> Places] /\ prev \in [Orders -> Digests] /\ seq \in [Orders -> Nat]
  /\ broker \subseteq Orders

(* The file a thread fills is its own.                                     *)
OwnFile ==
  \A o \in Orders : pc[o] = "write" => seq[o] \in 1..Len(files) /\ files[seq[o]].order = o

OnFile(o) == \E i \in 1..Len(files) : files[i].order = o /\ files[i].whole

(* What a thread that is past the write has behind it.                     *)
Behind ==
  \A o \in Orders :
    /\ pc[o] \in {"audit", "released", "sent"} => OnFile(o)
    /\ pc[o] \in {"released", "sent"} => Recorded(Stored(o))
    /\ o \in broker => pc[o] = "sent"

StoreInv == AnySeq(rows) /\ StoreTypes /\ OwnFile /\ Behind

(* The sequences of the directory: a file added, and a file completed.     *)
LEMMA FileAdded ==
  ASSUME StoreTypes, NEW f \in File, files' = Append(files, f)
  PROVE  /\ files' \in Seq(File) /\ Len(files) \in Nat /\ Len(files') = Len(files) + 1
         /\ \A i \in 1..Len(files) : files'[i] = files[i] /\ i \in 1..Len(files')
         /\ files'[Len(files) + 1] = f
<1>1. files \in Seq(File)
  BY DEF StoreTypes
<1>2. Len(files) \in Nat
  BY <1>1, LenProperties
<1> QED
  BY <1>1, <1>2, AppendProperties

LEMMA FileCompleted ==
  ASSUME StoreTypes, NEW k \in 1..Len(files), files' = [files EXCEPT ![k].whole = TRUE]
  PROVE  /\ files' \in Seq(File) /\ Len(files) \in Nat /\ Len(files') = Len(files)
         /\ \A i \in 1..Len(files) : /\ files'[i].order = files[i].order
                                     /\ files'[i].prev = files[i].prev
                                     /\ i # k => files'[i] = files[i]
         /\ files'[k].whole
<1>1. files \in Seq(File)
  BY DEF StoreTypes
<1>2. /\ Len(files) \in Nat /\ DOMAIN files = 1..Len(files)
      /\ \A i \in 1..Len(files) : files[i] \in File
  BY <1>1, LenProperties, ElementOfSeq
<1>3. [files[k] EXCEPT !.whole = TRUE] \in File
  BY <1>2 DEF File
<1>4. files' = [files EXCEPT ![k] = [files[k] EXCEPT !.whole = TRUE]]
  BY <1>2
<1>5. /\ files' \in Seq(File) /\ Len(files') = Len(files)
      /\ \A i \in 1..Len(files) :
           files'[i] = IF i = k THEN [files[k] EXCEPT !.whole = TRUE] ELSE files[i]
  BY <1>1, <1>3, <1>4, ExceptSeq
<1>6. ASSUME NEW i \in 1..Len(files)
      PROVE  /\ files'[i].order = files[i].order
             /\ files'[i].prev = files[i].prev
             /\ i # k => files'[i] = files[i]
  <2>1. files[i] \in File
    BY <1>2
  <2> QED
    BY <1>5, <2>1 DEF File
<1>7. files'[k].whole
  BY <1>2, <1>5 DEF File
<1> QED
  BY <1>2, <1>5, <1>6, <1>7

(* A step that only moves one thread on, and leaves the directory alone.   *)
LEMMA ThreadMoves ==
  ASSUME StoreInv, NEW o, NEW place \in Places, Go(o, place),
         UNCHANGED <<files, broker>>,
         AnySeq(rows'), \A e : Recorded(e) => Recorded(e)',
         lock' \in [Processes -> Orders \cup {Free}],
         prev' \in [Orders -> Digests], seq' \in [Orders -> Nat],
         \A q \in Orders : pc[q] = "write" /\ q # o => seq'[q] = seq[q],
         place # "write",
         pc[o] # "sent" \/ o \notin broker,
         o \in Orders => /\ place \in {"audit", "released", "sent"} => OnFile(o)
                         /\ place \in {"released", "sent"} => Recorded(Stored(o))'
  PROVE  StoreInv'
<1>1. /\ pc' \in [Orders -> Places]
      /\ \A q \in Orders : pc'[q] = IF q = o THEN place ELSE pc[q]
  BY DEF StoreInv, StoreTypes, Go
<1>2. StoreTypes'
  BY <1>1 DEF StoreInv, StoreTypes
<1>3. OwnFile'
  BY <1>1 DEF StoreInv, OwnFile
<1>4. Behind'
  BY <1>1 DEF StoreInv, Behind, OnFile
<1> QED
  BY <1>2, <1>3, <1>4 DEF StoreInv

LEMMA StoreInit_ == ASSUME Init  PROVE StoreInv
<1>1. files \in Seq(File) /\ AnySeq(rows)
  <2>1. <<>> \in Seq(File) /\ <<>> \in Seq({})
    BY EmptySeq
  <2> QED
    BY <2>1 DEF Init, AuditInit, StoreInit, AnySeq
<1>2. StoreTypes
  BY <1>1 DEF Init, StoreInit, StoreTypes, Places, Digests
<1> QED
  BY <1>1, <1>2 DEF Init, StoreInit, StoreInv, OwnFile, Behind

(* Leaving the writer keeps the types of lock and locals.                  *)
LEMMA Leaving ==
  ASSUME StoreTypes, NEW o \in Orders, Leave(o)
  PROVE  /\ lock' \in [Processes -> Orders \cup {Free}]
         /\ prev' \in [Orders -> Digests] /\ seq' \in [Orders -> Nat]
         /\ \A q \in Orders : q # o => seq'[q] = seq[q] /\ prev'[q] = prev[q]
  BY DEF StoreTypes, Leave, Forget, Digests

LEMMA Refusing ==
  ASSUME StoreInv, NEW o \in Orders, Refuse(o), pc[o] # "sent",
         AnySeq(rows'), \A e : Recorded(e) => Recorded(e)'
  PROVE  StoreInv'
<1>1. StoreTypes /\ Leave(o) /\ Go(o, "refused") /\ UNCHANGED <<files, broker>>
  BY DEF StoreInv, Refuse
<1>2. "refused" \in Places
  BY DEF Places
<1> QED
  BY <1>1, <1>2, Leaving, ThreadMoves

LEMMA WriterKeeps ==
  ASSUME StoreInv, NEW o \in Orders, Writes(o),
         AnySeq(rows'), \A e : Recorded(e) => Recorded(e)'
  PROVE  StoreInv'
<1> USE StoreAssumption
<1>0. StoreTypes /\ ProcOf[o] \in Processes
  BY DEF StoreInv
<1>1. CASE Acquire(o)
  <2>1. lock' \in [Processes -> Orders \cup {Free}]
    BY <1>0, <1>1 DEF Acquire, StoreTypes
  <2>2. /\ prev' \in [Orders -> Digests] /\ seq' \in [Orders -> Nat] /\ seq' = seq
        /\ Go(o, "head") /\ pc[o] = "release" /\ UNCHANGED <<files, broker>> /\ "head" \in Places
    BY <1>0, <1>1 DEF Acquire, StoreTypes, Places
  <2> QED
    BY <2>1, <2>2, ThreadMoves
<1>2. CASE Build(o, Consistent(o))
  <2>1. CASE Refuse(o)
    BY <1>2, <2>1, Refusing DEF Build
  <2>2. CASE prev' = [prev EXCEPT ![o] = latest_digest] /\ Go(o, "put")
             /\ UNCHANGED <<files, lock, seq, broker>>
    <3>1. latest_digest \in Digests
      <4>1. files \in Seq(File) /\ (files # <<>> => Len(files) \in 1..Len(files))
        BY <1>0, EmptySeq, LenProperties DEF StoreTypes
      <4>2. files # <<>> => files[Len(files)] \in File
        BY <4>1, ElementOfSeq
      <4> QED
        BY <4>2 DEF latest_digest, Digests, File
    <3>2. /\ prev' \in [Orders -> Digests] /\ seq' \in [Orders -> Nat] /\ seq' = seq
          /\ lock' \in [Processes -> Orders \cup {Free}] /\ pc[o] = "head" /\ "put" \in Places
      BY <1>0, <1>2, <2>2, <3>1 DEF Build, StoreTypes, Places
    <3> QED
      BY <2>2, <3>2, ThreadMoves
  <2> QED
    BY <1>2, <2>1, <2>2 DEF Build
<1>3. CASE CheckHead(o)
  <2>1. CASE Refuse(o)
    BY <1>3, <2>1, Refusing DEF CheckHead
  <2>2. CASE Go(o, "number") /\ UNCHANGED <<files, lock, prev, seq, broker>>
    <3>1. /\ prev' \in [Orders -> Digests] /\ seq' \in [Orders -> Nat] /\ seq' = seq
          /\ lock' \in [Processes -> Orders \cup {Free}] /\ pc[o] = "put" /\ "number" \in Places
      BY <1>0, <1>3, <2>2 DEF CheckHead, StoreTypes, Places
    <3> QED
      BY <2>2, <3>1, ThreadMoves
  <2> QED
    BY <1>3, <2>1, <2>2 DEF CheckHead
<1>4. CASE Number(o)
  <2>1. Len(files) + 1 \in Nat
    BY <1>0, LenProperties DEF StoreTypes
  <2>2. /\ prev' \in [Orders -> Digests] /\ seq' \in [Orders -> Nat]
        /\ \A q \in Orders : q # o => seq'[q] = seq[q]
        /\ lock' \in [Processes -> Orders \cup {Free}] /\ pc[o] = "number" /\ "create" \in Places
        /\ Go(o, "create") /\ UNCHANGED <<files, broker>>
    BY <1>0, <1>4, <2>1 DEF Number, StoreTypes, Places
  <2> QED
    BY <2>2, ThreadMoves
<1>5. CASE Create(o)
  <2>1. CASE Refuse(o)
    BY <1>5, <2>1, Refusing DEF Create
  <2>2. CASE /\ seq[o] = Len(files) + 1 /\ Go(o, "write")
             /\ files' = Append(files, [order |-> o, prev |-> prev[o], whole |-> FALSE])
             /\ UNCHANGED <<lock, prev, seq, broker>>
    <3> DEFINE f == [order |-> o, prev |-> prev[o], whole |-> FALSE]
    <3>1. f \in File
      BY <1>0 DEF File, StoreTypes
    <3> HIDE DEF f
    <3>2. /\ files' \in Seq(File) /\ Len(files) \in Nat /\ Len(files') = Len(files) + 1
          /\ \A i \in 1..Len(files) : files'[i] = files[i] /\ i \in 1..Len(files')
          /\ files'[Len(files) + 1] = f
      BY <1>0, <2>2, <3>1, FileAdded DEF f
    <3>3. /\ pc' \in [Orders -> Places] /\ pc[o] = "create"
          /\ \A q \in Orders : pc'[q] = IF q = o THEN "write" ELSE pc[q]
      BY <1>0, <1>5, <2>2 DEF Create, StoreTypes, Places, Go
    <3>4. StoreTypes'
      BY <1>0, <2>2, <3>2, <3>3 DEF StoreTypes
    <3>5. OwnFile'
      <4>1. f.order = o /\ Len(files) + 1 \in 1..Len(files')
        BY <3>2 DEF f
      <4> QED
        BY <2>2, <3>2, <3>3, <4>1 DEF StoreInv, OwnFile
    <3>6. Behind'
      BY <2>2, <3>2, <3>3 DEF StoreInv, Behind, OnFile
    <3> QED
      BY <3>4, <3>5, <3>6 DEF StoreInv
  <2> QED
    BY <1>5, <2>1, <2>2 DEF Create
<1>6. CASE Write(o)
  <2>1. CASE Refuse(o)
    BY <1>6, <2>1, Refusing DEF Write
  <2>2. CASE /\ files' = [files EXCEPT ![seq[o]].whole = TRUE] /\ Go(o, "audit")
             /\ UNCHANGED <<lock, prev, seq, broker>>
    <3>1. seq[o] \in 1..Len(files) /\ files[seq[o]].order = o /\ pc[o] = "write"
      BY <1>6 DEF StoreInv, OwnFile, Write
    <3>2. /\ files' \in Seq(File) /\ Len(files) \in Nat /\ Len(files') = Len(files)
          /\ \A i \in 1..Len(files) : /\ files'[i].order = files[i].order
                                      /\ i # seq[o] => files'[i] = files[i]
          /\ files'[seq[o]].whole
      BY <1>0, <2>2, <3>1, FileCompleted
    <3>3. /\ pc' \in [Orders -> Places]
          /\ \A q \in Orders : pc'[q] = IF q = o THEN "audit" ELSE pc[q]
      BY <1>0, <2>2 DEF StoreTypes, Places, Go
    <3>4. StoreTypes'
      BY <1>0, <2>2, <3>2, <3>3 DEF StoreTypes
    <3>5. OwnFile'
      BY <2>2, <3>2, <3>3 DEF StoreInv, OwnFile
    <3>6. \A q \in Orders : OnFile(q) => OnFile(q)'
      BY <3>2 DEF OnFile
    <3>7. OnFile(o)'
      BY <3>1, <3>2 DEF OnFile
    <3>8. Behind'
      BY <2>2, <3>1, <3>3, <3>6, <3>7 DEF StoreInv, Behind
    <3> QED
      BY <3>4, <3>5, <3>8 DEF StoreInv
  <2> QED
    BY <1>6, <2>1, <2>2 DEF Write
<1>7. CASE EmitAudit(o)
  <2>1. CASE Refuse(o)
    BY <1>7, <2>1, Refusing DEF EmitAudit
  <2>2. CASE /\ Appended(Stored(o), StoredPayload) /\ Go(o, "released") /\ Leave(o)
             /\ UNCHANGED <<files, broker, crashes>>
    <3>1. Recorded(Stored(o))'
      <4>1. rows' = Append(rows, build_canonical(Stored(o)))
        BY <2>2 DEF Appended, Commit
      <4>2. /\ Len(rows) \in Nat /\ Len(rows') = Len(rows) + 1
            /\ rows'[Len(rows) + 1] = build_canonical(Stored(o))
        BY <4>1, AppendAny DEF StoreInv
      <4>3. Len(rows) + 1 \in 1..Len(rows')
        BY <4>2
      <4>4. rows'[Len(rows) + 1].event = Stored(o)
        BY <4>2 DEF build_canonical
      <4> HIDE DEF Stored
      <4>5. (\E i \in 1..Len(rows) : rows[i].event = Stored(o))'
        BY <4>3, <4>4 DEF Stored
      <4> QED
        BY <4>5 DEF Recorded
    <3>2. pc[o] = "audit" /\ OnFile(o) /\ "released" \in Places
      BY <1>7 DEF EmitAudit, StoreInv, Behind, Places
    <3> QED
      BY <1>0, <2>2, <3>1, <3>2, Leaving, ThreadMoves
  <2> QED
    BY <1>7, <2>1, <2>2 DEF EmitAudit
<1>8. CASE SubmitOrder(o)
  <2>1. /\ pc' \in [Orders -> Places] /\ pc[o] = "released"
        /\ \A q \in Orders : pc'[q] = IF q = o THEN "sent" ELSE pc[q]
    BY <1>0, <1>8 DEF StoreTypes, Places, Go, SubmitOrder
  <2>2. StoreTypes' /\ OwnFile'
    BY <1>0, <1>8, <2>1 DEF StoreInv, StoreTypes, OwnFile, SubmitOrder
  <2>3. Behind'
    BY <1>8, <2>1 DEF StoreInv, Behind, OnFile, SubmitOrder
  <2> QED
    BY <2>2, <2>3 DEF StoreInv
<1> QED
  BY <1>1, <1>2, <1>3, <1>4, <1>5, <1>6, <1>7, <1>8 DEF Writes

LEMMA StoreKeeps ==
  ASSUME StoreInv, [Next]_vars  PROVE StoreInv'
<1>1. AnySeq(rows') /\ \A e : Recorded(e) => Recorded(e)'
  BY AuditStep, RecordsStay DEF StoreInv
<1>2. StoreTypes
  BY DEF StoreInv
<1>3. CASE UNCHANGED <<files, lock, pc, prev, seq, broker>>
  <2>1. StoreTypes' /\ OwnFile'
    BY <1>3 DEF StoreInv, StoreTypes, OwnFile
  <2>2. Behind'
    BY <1>1, <1>3 DEF StoreInv, Behind, OnFile
  <2> QED
    BY <1>1, <2>1, <2>2 DEF StoreInv
<1>4. ASSUME NEW h, Begins(h)  PROVE StoreInv'
  <2>1. /\ lock' \in [Processes -> Orders \cup {Free}] /\ prev' \in [Orders -> Digests]
        /\ seq' \in [Orders -> Nat] /\ seq' = seq /\ "release" \in Places
    BY <1>2, <1>4 DEF Begins, StoreTypes, Places
  <2> QED
    BY <1>1, <1>4, <2>1, ThreadMoves DEF Begins
<1>5. ASSUME NEW p \in Processes, MotorCrash(p)  PROVE StoreInv'
  <2>1. /\ pc' \in [Orders -> Places]
        /\ \A q \in Orders : pc'[q] = pc[q] \/ (pc'[q] = "refused" /\ pc[q] # "sent")
        /\ \A q \in Orders : ProcOf[q] = p /\ pc[q] = "write" => pc'[q] = "refused"
    BY <1>2, <1>5 DEF MotorCrash, StoreTypes, Places
  <2>2. /\ lock' \in [Processes -> Orders \cup {Free}] /\ UNCHANGED <<files, broker>>
        /\ prev' \in [Orders -> Digests] /\ seq' \in [Orders -> Nat]
        /\ \A q \in Orders : ProcOf[q] # p => seq'[q] = seq[q]
    BY <1>2, <1>5 DEF MotorCrash, StoreTypes, Forget, Digests
  <2>3. StoreTypes'
    BY <1>2, <2>1, <2>2 DEF StoreTypes
  <2>4. OwnFile'
    BY <2>1, <2>2 DEF StoreInv, OwnFile
  <2>5. Behind'
    BY <1>1, <2>1, <2>2 DEF StoreInv, Behind, OnFile
  <2> QED
    BY <1>1, <2>3, <2>4, <2>5 DEF StoreInv
<1>6. ASSUME NEW o \in Orders, Writes(o)  PROVE StoreInv'
  BY <1>1, <1>6, WriterKeeps
<1> QED
  BY <1>3, <1>4, <1>5, <1>6, StoreStep DEF StoreMoves

(* Whatever orders, processes, crashes and restores there are, an order is *)
(* with the broker only when its manifest is whole, in the directory and   *)
(* audited (compliance.py, store.py put, motor.py).                        *)
THEOREM ManifestFirst == Spec => []SentOnRecord
<1>1. Spec => []StoreInv
  BY StoreInit_, StoreKeeps, PTL DEF Spec
<1>2. StoreInv => SentOnRecord
  BY DEF StoreInv, StoreTypes, Behind, OnFile, SentOnRecord, verify_document
<1> QED
  BY <1>1, <1>2, PTL

-----------------------------------------------------------------------------
(* One motor process on a directory: its manifests form one chain.         *)

Alone == \A p, q \in Processes : p = q

Writers == {"head", "put", "number", "create", "write", "audit"}

(* A writer holds its process's lock.                                      *)
Locked == \A o \in Orders : pc[o] \in Writers => lock[ProcOf[o]] = o

(* What a writer read of the head is still so.                             *)
ReadTrue ==
  \A o \in Orders :
    /\ pc[o] \in {"number", "create"} => HeadReadable /\ prev[o] = latest_digest
    /\ pc[o] = "create" => seq[o] = Len(files) + 1
    /\ pc[o] = "write" => seq[o] = Len(files)

(* Every file names the one before; all but the last are whole.            *)
Chain ==
  /\ \A i \in 1..Len(files) : Chained(files, i)
  /\ \A i \in 1..(Len(files) - 1) : files[i].whole

ChainInv == StoreInv /\ Locked /\ ReadTrue /\ Chain

LEMMA ChainInit == ASSUME Init  PROVE ChainInv
<1>1. Len(files) = 0
  BY EmptySeq DEF Init, StoreInit
<1> QED
  BY <1>1, StoreInit_ DEF Init, StoreInit, ChainInv, Locked, ReadTrue, Chain, Writers

(* With one process only one thread writes.                                *)
LEMMA OneWriter ==
  ASSUME Alone, ChainInv, NEW o \in Orders, pc[o] \in Writers
  PROVE  \A q \in Orders : pc[q] \in Writers => q = o
<1>1. ASSUME NEW q \in Orders, pc[q] \in Writers  PROVE q = o
  <2>1. ProcOf[q] = ProcOf[o]
    BY StoreAssumption DEF Alone
  <2> QED
    BY <1>1, <2>1 DEF ChainInv, Locked
<1> QED
  BY <1>1

(* A step of the only writer, or of a thread that becomes it.              *)
LEMMA WriterMoves ==
  ASSUME StoreInv', NEW o \in Orders, NEW place, Go(o, place), StoreTypes,
         \A q \in Orders : pc[q] \in Writers => q = o,
         place \in Writers => lock'[ProcOf[o]] = o,
         place \in {"number", "create"} => (HeadReadable /\ prev[o] = latest_digest)',
         place = "create" => seq'[o] = Len(files') + 1,
         place = "write" => seq'[o] = Len(files'),
         Chain'
  PROVE  ChainInv'
<1>1. \A q \in Orders : pc'[q] = IF q = o THEN place ELSE pc[q]
  BY DEF Go, StoreTypes
<1>2. Locked'
  BY <1>1 DEF Locked
<1>3. ReadTrue'
  BY <1>1 DEF ReadTrue, Writers
<1> QED
  BY <1>2, <1>3 DEF ChainInv

LEMMA RefusalKeepsChain ==
  ASSUME Alone, ChainInv, StoreInv', NEW o \in Orders, pc[o] \in Writers, Refuse(o)
  PROVE  ChainInv'
<1>1. Go(o, "refused") /\ StoreTypes /\ "refused" \notin Writers /\ files' = files
  BY DEF ChainInv, StoreInv, Refuse, Writers
<1>2. Chain'
  BY <1>1 DEF ChainInv, Chain, Chained
<1> QED
  BY <1>1, <1>2, OneWriter, WriterMoves

(* A file added to a readable chain continues it.                          *)
LEMMA ChainGrows ==
  ASSUME ChainInv, NEW f \in File, files' = Append(files, f), f.prev = latest_digest, HeadReadable
  PROVE  Chain'
<1>1. StoreTypes /\ files \in Seq(File)
  BY DEF ChainInv, StoreInv, StoreTypes
<1>2. /\ Len(files) \in Nat /\ Len(files') = Len(files) + 1
      /\ \A i \in 1..Len(files) : files'[i] = files[i]
      /\ files'[Len(files) + 1] = f
  BY <1>1, FileAdded
<1>3. files # <<>> <=> Len(files) > 0
  BY <1>1, EmptySeq
<1>4. ASSUME NEW i \in 1..Len(files')  PROVE Chained(files', i)
  <2>1. CASE i = Len(files) + 1
    <3>1. i # 1 => i - 1 \in 1..Len(files) /\ i - 1 = Len(files)
      BY <1>2, <2>1
    <3> QED
      BY <1>2, <1>3, <2>1, <3>1 DEF Chained, latest_digest
  <2>2. CASE i # Len(files) + 1
    <3>1. i \in 1..Len(files) /\ (i # 1 => i - 1 \in 1..Len(files))
      BY <1>2, <2>2
    <3>2. Chained(files, i)
      BY <3>1 DEF ChainInv, Chain
    <3> QED
      BY <1>2, <3>1, <3>2 DEF Chained
  <2> QED
    BY <2>1, <2>2
<1>5. ASSUME NEW i \in 1..(Len(files') - 1)  PROVE files'[i].whole
  <2>1. i \in 1..Len(files) /\ (i # Len(files) => i \in 1..(Len(files) - 1))
    BY <1>2
  <2>2. files[i].whole
    BY <1>2, <1>3, <2>1 DEF ChainInv, Chain, HeadReadable, verify_document
  <2> QED
    BY <1>2, <2>1, <2>2
<1> QED
  BY <1>4, <1>5 DEF Chain

LEMMA WriterKeepsChain ==
  ASSUME Alone, ChainInv, StoreInv', NEW o \in Orders, Writes(o)
  PROVE  ChainInv'
<1> USE StoreAssumption
<1>0. StoreInv /\ StoreTypes /\ ProcOf[o] \in Processes /\ Locked /\ ReadTrue /\ Chain
  BY DEF ChainInv, StoreInv
<1>1. ASSUME files' = files  PROVE Chain'
  BY <1>0, <1>1 DEF Chain, Chained
<1>2. CASE Acquire(o)
  <2>1. \A q \in Orders : pc[q] \notin Writers
    <3>1. ASSUME NEW q \in Orders, pc[q] \in Writers  PROVE FALSE
      <4>1. ProcOf[q] = ProcOf[o]
        BY DEF Alone
      <4> QED
        BY <1>0, <1>2, <3>1, <4>1 DEF Locked, Acquire
    <3> QED
      BY <3>1
  <2>2. lock'[ProcOf[o]] = o /\ Go(o, "head") /\ files' = files
    BY <1>0, <1>2 DEF Acquire, StoreTypes
  <2> QED
    BY <1>0, <1>1, <2>1, <2>2, WriterMoves
<1>3. CASE Build(o, Consistent(o))
  <2>1. pc[o] \in Writers /\ lock[ProcOf[o]] = o
    BY <1>0, <1>3 DEF Build, Writers, Locked
  <2>2. CASE Refuse(o)
    BY <2>1, <2>2, RefusalKeepsChain
  <2>3. CASE Go(o, "put") /\ UNCHANGED <<files, lock>>
    BY <1>0, <1>1, <2>1, <2>3, OneWriter, WriterMoves
  <2> QED
    BY <1>3, <2>2, <2>3 DEF Build
<1>4. CASE CheckHead(o)
  <2>1. pc[o] \in Writers /\ lock[ProcOf[o]] = o
    BY <1>0, <1>4 DEF CheckHead, Writers, Locked
  <2>2. CASE Refuse(o)
    BY <2>1, <2>2, RefusalKeepsChain
  <2>3. CASE /\ HeadReadable /\ latest_digest = prev[o] /\ Go(o, "number")
             /\ UNCHANGED <<files, lock, prev, seq, broker, crashes>>
    <3>1. (HeadReadable /\ prev[o] = latest_digest)'
      BY <2>3 DEF HeadReadable, latest_digest, verify_document
    <3> QED
      BY <1>0, <1>1, <2>1, <2>3, <3>1, OneWriter, WriterMoves
  <2> QED
    BY <1>4, <2>2, <2>3 DEF CheckHead
<1>5. CASE Number(o)
  <2>1. pc[o] = "number" /\ pc[o] \in Writers /\ lock[ProcOf[o]] = o
    BY <1>0, <1>5 DEF Number, Writers, Locked
  <2>2. /\ Go(o, "create") /\ UNCHANGED <<files, lock, prev>>
        /\ seq'[o] = Len(files') + 1
    BY <1>0, <1>5 DEF Number, StoreTypes
  <2>3. HeadReadable /\ prev[o] = latest_digest
    BY <1>0, <2>1 DEF ReadTrue
  <2>4. (HeadReadable /\ prev[o] = latest_digest)'
    BY <2>2, <2>3 DEF HeadReadable, latest_digest, verify_document
  <2> QED
    BY <1>0, <1>1, <2>1, <2>2, <2>4, OneWriter, WriterMoves
<1>6. CASE Create(o)
  <2>1. pc[o] = "create" /\ pc[o] \in Writers /\ lock[ProcOf[o]] = o
    BY <1>0, <1>6 DEF Create, Writers, Locked
  <2>2. CASE Refuse(o)
    BY <2>1, <2>2, RefusalKeepsChain
  <2>3. CASE /\ Go(o, "write")
             /\ files' = Append(files, [order |-> o, prev |-> prev[o], whole |-> FALSE])
             /\ UNCHANGED <<lock, prev, seq, broker, crashes>>
    <3> DEFINE f == [order |-> o, prev |-> prev[o], whole |-> FALSE]
    <3>1. f \in File /\ f.prev = prev[o]
      BY <1>0 DEF File, StoreTypes
    <3> HIDE DEF f
    <3>2. HeadReadable /\ prev[o] = latest_digest /\ seq[o] = Len(files) + 1
      BY <1>0, <2>1 DEF ReadTrue
    <3>3. Chain'
      BY <2>3, <3>1, <3>2, ChainGrows DEF f
    <3>4. Len(files') = Len(files) + 1
      BY <1>0, <2>3, <3>1, FileAdded DEF f
    <3> QED
      BY <1>0, <2>1, <2>3, <3>2, <3>3, <3>4, OneWriter, WriterMoves
  <2> QED
    BY <1>6, <2>2, <2>3 DEF Create
<1>7. CASE Write(o)
  <2>1. pc[o] = "write" /\ pc[o] \in Writers /\ lock[ProcOf[o]] = o
    BY <1>0, <1>7 DEF Write, Writers, Locked
  <2>2. CASE Refuse(o)
    BY <2>1, <2>2, RefusalKeepsChain
  <2>3. CASE /\ files' = [files EXCEPT ![seq[o]].whole = TRUE] /\ Go(o, "audit")
             /\ UNCHANGED <<lock, prev, seq, broker, crashes>>
    <3>1. seq[o] \in 1..Len(files) /\ seq[o] = Len(files)
      BY <1>0, <2>1 DEF StoreInv, OwnFile, ReadTrue
    <3>2. /\ Len(files) \in Nat /\ Len(files') = Len(files)
          /\ \A i \in 1..Len(files) : /\ files'[i].order = files[i].order
                                      /\ files'[i].prev = files[i].prev
                                      /\ i # seq[o] => files'[i] = files[i]
      BY <1>0, <2>3, <3>1, FileCompleted
    <3>3. \A i \in 1..Len(files) : i # 1 => i - 1 \in 1..Len(files)
      BY <3>2
    <3>4. \A i \in 1..(Len(files) - 1) : i # seq[o] /\ i \in 1..Len(files)
      BY <3>1, <3>2
    <3>5. Chain'
      BY <1>0, <3>2, <3>3, <3>4 DEF Chain, Chained
    <3> QED
      BY <1>0, <2>1, <2>3, <3>5, OneWriter, WriterMoves
  <2> QED
    BY <1>7, <2>2, <2>3 DEF Write
<1>8. CASE EmitAudit(o)
  <2>1. pc[o] \in Writers /\ "released" \notin Writers
    BY <1>8 DEF EmitAudit, Writers
  <2>2. CASE Refuse(o)
    BY <2>1, <2>2, RefusalKeepsChain
  <2>3. CASE Go(o, "released") /\ UNCHANGED <<files, broker, crashes>>
    BY <1>0, <1>1, <2>1, <2>3, OneWriter, WriterMoves
  <2> QED
    BY <1>8, <2>2, <2>3 DEF EmitAudit
<1>9. CASE SubmitOrder(o)
  <2>1. /\ \A q \in Orders : pc'[q] = pc[q] \/ pc'[q] = "sent"
        /\ UNCHANGED <<files, lock, prev, seq>>
    BY <1>0, <1>9 DEF SubmitOrder, StoreTypes, Go
  <2>2. Locked'
    BY <1>0, <2>1 DEF Locked, Writers
  <2>3. ReadTrue'
    BY <1>0, <2>1 DEF ReadTrue, HeadReadable, latest_digest, verify_document
  <2> QED
    BY <1>1, <2>1, <2>2, <2>3 DEF ChainInv
<1> QED
  BY <1>2, <1>3, <1>4, <1>5, <1>6, <1>7, <1>8, <1>9 DEF Writes

LEMMA ChainKeeps ==
  ASSUME Alone, ChainInv, [Next]_vars  PROVE ChainInv'
<1>1. StoreInv' /\ StoreTypes /\ Locked /\ ReadTrue /\ Chain
  BY StoreKeeps DEF ChainInv, StoreInv
<1>2. ASSUME UNCHANGED <<files, lock, prev, seq>>,
             \A q \in Orders : pc'[q] = pc[q] \/ pc'[q] \notin Writers
      PROVE  ChainInv'
  <2>1. Locked'
    BY <1>1, <1>2 DEF Locked
  <2>2. ReadTrue'
    BY <1>1, <1>2 DEF ReadTrue, Writers, HeadReadable, latest_digest, verify_document
  <2>3. Chain'
    BY <1>1, <1>2 DEF Chain, Chained
  <2> QED
    BY <1>1, <2>1, <2>2, <2>3 DEF ChainInv
<1>3. CASE UNCHANGED <<files, lock, pc, prev, seq, broker>>
  BY <1>2, <1>3
<1>4. ASSUME NEW h, Begins(h)  PROVE ChainInv'
  <2>1. \A q \in Orders : pc'[q] = pc[q] \/ pc'[q] \notin Writers
    BY <1>1, <1>4 DEF Begins, Go, StoreTypes, Writers
  <2> QED
    BY <1>2, <1>4, <2>1 DEF Begins
<1>5. ASSUME NEW p \in Processes, MotorCrash(p)  PROVE ChainInv'
  <2>1. \A q \in Orders : ProcOf[q] = p
    BY StoreAssumption DEF Alone
  <2>2. \A q \in Orders : pc'[q] \notin Writers
    BY <1>5, <2>1 DEF MotorCrash, Writers
  <2>3. Locked' /\ ReadTrue'
    BY <2>2 DEF Locked, ReadTrue, Writers
  <2>4. Chain'
    BY <1>1, <1>5 DEF MotorCrash, Chain, Chained
  <2> QED
    BY <1>1, <2>3, <2>4 DEF ChainInv
<1>6. ASSUME NEW o \in Orders, Writes(o)  PROVE ChainInv'
  BY <1>1, <1>6, WriterKeepsChain
<1> QED
  BY <1>3, <1>4, <1>5, <1>6, StoreStep DEF StoreMoves

(* With one motor process on the directory, whatever its threads and       *)
(* deaths, the manifests form one hash chain, with at most one torn file   *)
(* at its end (store.py put, verify; compliance.py AfeManifestWriter).     *)
THEOREM ManifestsChain ==
  ASSUME Alone  PROVE Spec => []OneChain
<1>1. ChainInv /\ [Next]_vars => ChainInv'
  BY ChainKeeps
<1>2. Init => ChainInv
  BY ChainInit
<1>3. Spec => []ChainInv
  BY <1>1, <1>2, PTL DEF Spec
<1>4. ChainInv => OneChain
  <2>1. SUFFICES ASSUME ChainInv, ~verify_store(files)  PROVE OneChain
    BY DEF OneChain
  <2>2. files \in Seq(File) /\ Len(files) \in Nat /\ Chain
    BY <2>1, LenProperties DEF ChainInv, StoreInv, StoreTypes
  <2>3. PICK i \in 1..Len(files) : ~files[i].whole
    BY <2>1, <2>2 DEF verify_store, Chain, verify_document
  <2>4. i = Len(files) /\ Len(files) - 1 \in 0..Len(files)
    BY <2>2, <2>3 DEF Chain
  <2>5. AnySeq(files)
    BY <2>2 DEF AnySeq
  <2> DEFINE g == SubSeq(files, 1, Len(files) - 1)
  <2>6. /\ Len(g) = Len(files) - 1
        /\ \A j \in 1..(Len(files) - 1) : g[j] = files[j]
    BY <2>4, <2>5, CutAny
  <2> HIDE DEF g
  <2>7. ASSUME NEW j \in 1..Len(g)  PROVE verify_document(g[j]) /\ Chained(g, j)
    <3>1. /\ j \in 1..(Len(files) - 1) /\ j \in 1..Len(files)
          /\ j # 1 => j - 1 \in 1..(Len(files) - 1)
      BY <2>2, <2>6
    <3>2. Chained(files, j) /\ files[j].whole
      BY <2>2, <3>1 DEF Chain
    <3> QED
      BY <2>6, <3>1, <3>2 DEF verify_document, Chained
  <2>8. verify_store(g)
    BY <2>7 DEF verify_store
  <2>9. Chained(files, Len(files)) /\ ~verify_document(files[Len(files)])
    BY <2>2, <2>3, <2>4 DEF Chain, verify_document
  <2> QED
    BY <2>8, <2>9 DEF OneChain, g
<1> QED
  BY <1>3, <1>4, PTL

-----------------------------------------------------------------------------
(* The human behind an order: what the decision in progress, the book and  *)
(* a relayed order have established.                                       *)

Statuses == {"REJECTED", "APPROVED", "RELEASE_DENIED"}

Decisions ==
  [pc : {"attempt", "resolve", "relay", "final"}, op : Operators, id : RequestIds,
   hold : Holds, approve : BOOLEAN, acted : BOOLEAN, status : Statuses \cup {"none"}]

HumanTypes ==
  /\ aegis \in [Holds -> {"held", "released", "dropped"}] /\ cur \in Decisions \cup {None}
  /\ finals \in [Holds -> Statuses \cup {"none"}] /\ fourEyes \subseteq Holds
  /\ override \in [Orders -> Operators \cup {Nobody}]

Fate(status) == IF status = "APPROVED" THEN "released" ELSE "dropped"

(* The decision in progress.                                               *)
Standing ==
  cur # None =>
    /\ RoleOf[cur.op] = "approver" /\ (cur.approve => cur.hold \notin fourEyes)
    /\ cur.pc # "attempt" => Recorded(Attempt(cur.op, cur.hold, cur.approve))
    /\ cur.pc \in {"attempt", "resolve"} => ~cur.acted
    /\ cur.pc \in {"relay", "final"} =>
         /\ cur.acted /\ aegis[cur.hold] = Fate(cur.status)
         /\ cur.status = "APPROVED" => cur.approve

(* The book, and the last answer.                                          *)
Told ==
  /\ \A h \in Holds : finals[h] # "none" => aegis[h] = Fate(finals[h])
  /\ answer.code \in 400..499 => ~answer.acted
  /\ answer.code = 200 /\ answer.status # "replayed" =>
       answer.acted /\ answer.hold \in Holds /\ aegis[answer.hold] = Fate(answer.status)

(* A held order that the motor was given.                                  *)
Behalf(h) ==
  /\ override[h] \in Operators /\ RoleOf[override[h]] = "approver"
  /\ Recorded(Attempt(override[h], h, TRUE))
  /\ aegis[h] = "released" /\ h \notin fourEyes

Relayed == \A h \in Holds : pc[h] # "idle" => Behalf(h)

HumanInv == HumanTypes /\ Standing /\ Told /\ Relayed

LEMMA CommitRecords ==
  ASSUME AnySeq(rows), NEW e, Commit(e)  PROVE Recorded(e)'
<1>1. rows' = Append(rows, build_canonical(e))
  BY DEF Commit
<1>2. /\ Len(rows) \in Nat /\ Len(rows') = Len(rows) + 1
      /\ rows'[Len(rows) + 1] = build_canonical(e)
  BY <1>1, AppendAny
<1>3. Len(rows) + 1 \in 1..Len(rows') /\ build_canonical(e).event = e
  BY <1>2 DEF build_canonical
<1> QED
  BY <1>2, <1>3 DEF Recorded

(* Only Relay and Arrive take an order to the motor.                       *)
LEMMA IdleStays ==
  ASSUME StoreTypes, (\E o \in Orders : Writes(o)) \/ (\E p \in Processes : MotorCrash(p))
  PROVE  \A h \in Orders : pc'[h] # "idle" => pc[h] # "idle"
<1>0. pc \in [Orders -> Places]
  BY DEF StoreTypes
<1>1. ASSUME NEW o \in Orders, Writes(o)
      PROVE  \A h \in Orders : pc'[h] # "idle" => pc[h] # "idle"
  <2>1. pc[o] # "idle"
    BY <1>1 DEF Writes, Acquire, Build, CheckHead, Number, Create, Write, EmitAudit, SubmitOrder
  <2>2. \E place : Go(o, place)
    BY <1>1 DEF Writes, Acquire, Build, CheckHead, Number, Create, Write, EmitAudit, SubmitOrder,
                Refuse
  <2> QED
    BY <1>0, <2>1, <2>2 DEF Go
<1>2. ASSUME NEW p \in Processes, MotorCrash(p)
      PROVE  \A h \in Orders : pc'[h] # "idle" => pc[h] # "idle"
  BY <1>2 DEF MotorCrash
<1> QED
  BY <1>1, <1>2

(* What a refused call (a denial, or a refusal of the audit log) keeps.    *)
LEMMA AnswerKeeps ==
  ASSUME HumanInv, \A e : Recorded(e) => Recorded(e)',
         NEW c, NEW code, NEW status, Answer(c, code, status),
         code \in 400..499 => ~c.acted, code = 200 => status = "replayed",
         UNCHANGED <<aegis, fourEyes, finals, override, pc>>
  PROVE  HumanInv'
<1>1. cur' = None /\ answer'.code = code /\ answer'.status = status /\ answer'.acted = c.acted
  BY DEF Answer
<1>2. HumanTypes'
  BY <1>1 DEF HumanInv, HumanTypes
<1>3. Standing'
  BY <1>1 DEF Standing
<1>4. Told'
  BY <1>1 DEF HumanInv, Told
<1>5. Relayed'
  BY DEF HumanInv, Relayed, Behalf
<1> QED
  BY <1>2, <1>3, <1>4, <1>5 DEF HumanInv

LEMMA DecideKeeps ==
  ASSUME HumanInv, \A e : Recorded(e) => Recorded(e)',
         NEW op \in Operators, NEW id \in RequestIds, NEW h \in Holds, NEW approve \in BOOLEAN,
         Decide(op, id, h, approve) \/ Replay(op, id, h, approve)
  PROVE  HumanInv'
<1>0. UNCHANGED <<aegis, fourEyes, finals, override, pc>>
  BY DEF Decide, Replay, storeVars
<1> DEFINE call == Call(op, id, h, approve)
<1>1. call \in Decisions /\ call # None /\ ~call.acted
  BY DEF Call, Decisions, None
<1>2. CASE Replay(op, id, h, approve)
  <2>1. PICK code, status : Answer(call, code, status) /\ status = "replayed"
    BY <1>2 DEF Replay
  <2> QED
    BY <1>0, <1>1, <2>1, AnswerKeeps
<1>3. CASE Decide(op, id, h, approve)
  <2>1. PICK available \in BOOLEAN, expired \in BOOLEAN, cooled \in BOOLEAN :
          LET code == Refusal(op, h, approve, available, expired, cooled) IN
          \/ code # 0 /\ Deny(call, code)
          \/ code = 0 /\ cur' = call /\ UNCHANGED <<auditVars, answer, replies>>
    BY <1>3 DEF Decide
  <2> DEFINE code == Refusal(op, h, approve, available, expired, cooled)
  <2>2. code \in Nat /\ code # 200
    BY DEF Refusal
  <2>3. CASE code # 0
    <3>1. Answer(call, code, "refused")
      BY <2>1, <2>3 DEF Deny
    <3> QED
      BY <1>0, <1>1, <2>2, <3>1, AnswerKeeps
  <2>4. CASE code = 0
    <3>1. RoleOf[op] = "approver" /\ (approve => h \notin fourEyes)
      BY <2>4 DEF Refusal
    <3>2. cur' = call /\ answer' = answer
      BY <2>1, <2>4, <2>3 DEF Deny
    <3>3. HumanTypes' /\ Told' /\ Relayed'
      BY <1>0, <1>1, <3>2 DEF HumanInv, HumanTypes, Told, Relayed, Behalf
    <3>4. Standing'
      BY <1>0, <3>1, <3>2 DEF Standing, Call
    <3> QED
      BY <3>3, <3>4 DEF HumanInv
  <2> QED
    BY <2>3, <2>4
<1> QED
  BY <1>2, <1>3

LEMMA ResolveKeeps ==
  ASSUME HumanInv, \A e : Recorded(e) => Recorded(e)', Resolve
  PROVE  HumanInv'
<1> DEFINE h == cur.hold
<1>0. UNCHANGED <<fourEyes, finals, override, pc>> /\ cur.pc = "resolve"
  BY DEF Resolve, storeVars
<1>1. /\ cur \in Decisions /\ cur # None /\ h \in Holds /\ ~cur.acted
      /\ aegis \in [Holds -> {"held", "released", "dropped"}]
  BY <1>0 DEF HumanInv, HumanTypes, Standing, None, Decisions
<1>2. ASSUME NEW kind \in {"gone", "precondition", "lost"}, UNCHANGED aegis,
             Deny(cur, ResolveError(kind))
      PROVE  HumanInv'
  <2>1. Answer(cur, ResolveError(kind), "refused") /\ ResolveError(kind) # 200
    BY <1>2 DEF Deny, ResolveError
  <2> QED
    BY <1>0, <1>1, <1>2, <2>1, AnswerKeeps
<1>3. ASSUME NEW decision \in {"released", "dropped"}, aegis[h] = "held",
             decision = "released" => cur.approve,
             aegis' = [aegis EXCEPT ![h] = decision],
             \/ /\ cur' = [cur EXCEPT !.pc = "relay", !.acted = TRUE,
                                      !.status = Resolved(decision)]
                /\ UNCHANGED <<auditVars, answer, replies>>
             \/ Deny([cur EXCEPT !.acted = TRUE], ResolveError("lost"))
      PROVE  HumanInv'
  <2>1. /\ aegis' \in [Holds -> {"held", "released", "dropped"}] /\ aegis'[h] = decision
        /\ \A g \in Holds : aegis[g] # "held" => aegis'[g] = aegis[g]
    BY <1>1, <1>3
  <2>2. \A s : Fate(s) \in {"released", "dropped"}
    BY DEF Fate
  <2>3. Relayed'
    BY <1>0, <2>1 DEF HumanInv, Relayed, Behalf
  <2>4. CASE cur' = [cur EXCEPT !.pc = "relay", !.acted = TRUE, !.status = Resolved(decision)]
             /\ UNCHANGED <<auditVars, answer, replies>>
    <3>1. /\ Resolved(decision) \in Statuses /\ Fate(Resolved(decision)) = decision
          /\ Resolved(decision) = "APPROVED" => cur.approve
      BY <1>3 DEF Resolved, Fate, Statuses
    <3>2. cur' \in Decisions
      BY <1>1, <2>4, <3>1 DEF Decisions
    <3>3. /\ cur'.pc = "relay" /\ cur'.acted /\ cur'.status = Resolved(decision)
          /\ cur'.op = cur.op /\ cur'.hold = h /\ cur'.approve = cur.approve
      BY <1>1, <2>4 DEF Decisions
    <3>4. HumanTypes'
      BY <1>0, <2>1, <3>2 DEF HumanInv, HumanTypes
    <3>5. Standing'
      BY <1>0, <1>1, <2>1, <3>1, <3>3 DEF HumanInv, Standing
    <3>6. Told'
      BY <1>0, <2>1, <2>2, <2>4 DEF HumanInv, Told
    <3> QED
      BY <2>3, <3>4, <3>5, <3>6 DEF HumanInv
  <2>5. CASE Deny([cur EXCEPT !.acted = TRUE], ResolveError("lost"))
    <3>1. cur' = None /\ answer'.code = 503
      BY <2>5 DEF Deny, Answer, ResolveError
    <3>2. HumanTypes' /\ Standing'
      BY <1>0, <2>1, <3>1 DEF HumanInv, HumanTypes, Standing
    <3>3. Told'
      BY <1>0, <2>1, <2>2, <3>1 DEF HumanInv, Told
    <3> QED
      BY <2>3, <3>2, <3>3 DEF HumanInv
  <2> QED
    BY <1>3, <2>4, <2>5
<1>4. cur.approve \in BOOLEAN
  BY <1>1 DEF Decisions
<1> QED
  BY <1>2, <1>3, <1>4 DEF Resolve

LEMMA RelayKeeps ==
  ASSUME HumanInv, StoreTypes, \A e : Recorded(e) => Recorded(e)', Relay
  PROVE  HumanInv'
<1>0. cur.pc = "relay" /\ UNCHANGED <<aegis, fourEyes, finals, answer>>
  BY DEF Relay
<1>1. /\ cur \in Decisions /\ cur # None /\ cur.hold \in Holds /\ cur.op \in Operators
      /\ pc \in [Orders -> Places] /\ override \in [Orders -> Operators \cup {Nobody}]
      /\ Holds \subseteq Orders
  BY <1>0, HitlAssumption DEF HumanInv, HumanTypes, StoreTypes, None, Decisions
<1>2. cur' \in Decisions /\ cur'.pc = "final" /\ cur' = [cur EXCEPT !.pc = "final"]
  BY <1>1 DEF Relay, Decisions
<1>3. /\ cur'.op = cur.op /\ cur'.hold = cur.hold /\ cur'.approve = cur.approve
      /\ cur'.acted = cur.acted /\ cur'.status = cur.status
  BY <1>1, <1>2 DEF Decisions
<1>4. Standing' /\ Told'
  BY <1>0, <1>1, <1>3, <1>2 DEF HumanInv, Standing, Told
<1>5. CASE UNCHANGED <<pc, override>>
  BY <1>0, <1>2, <1>4, <1>5 DEF HumanInv, HumanTypes, Relayed, Behalf
<1>6. CASE /\ cur.status = "APPROVED" /\ pc[cur.hold] = "idle" /\ Go(cur.hold, "release")
           /\ override' = [override EXCEPT ![cur.hold] = cur.op]
  <2>1. /\ override' \in [Orders -> Operators \cup {Nobody}] /\ override'[cur.hold] = cur.op
        /\ \A h \in Holds : h # cur.hold => override'[h] = override[h] /\ pc'[h] = pc[h]
    BY <1>1, <1>6 DEF Go
  <2>2. /\ RoleOf[cur.op] = "approver" /\ cur.approve /\ cur.hold \notin fourEyes
        /\ Recorded(Attempt(cur.op, cur.hold, cur.approve)) /\ aegis[cur.hold] = "released"
    BY <1>0, <1>1, <1>6 DEF HumanInv, Standing, Fate
  <2>3. PICK g \in Holds, who \in Operators : g = cur.hold /\ who = cur.op
    BY <1>1
  <2>4. Recorded(Attempt(who, g, TRUE))'
    <3>1. cur.approve = TRUE
      BY <1>1, <2>2 DEF Decisions
    <3> QED
      BY <2>2, <2>3, <3>1
  <2>5. ASSUME NEW h \in Holds, pc'[h] # "idle"  PROVE Behalf(h)'
    <3>1. CASE h = g
      <4>1. override'[h] = who
        BY <2>1, <2>3, <3>1
      <4> QED
        BY <1>0, <2>2, <2>3, <2>4, <3>1, <4>1 DEF Behalf
    <3>2. CASE h # g
      <4>1. override'[h] = override[h] /\ pc[h] # "idle"
        BY <2>1, <2>3, <2>5, <3>2
      <4> QED
        BY <1>0, <4>1 DEF HumanInv, Relayed, Behalf
    <3> QED
      BY <3>1, <3>2
  <2>6. Relayed'
    BY <2>5 DEF Relayed
  <2>7. HumanTypes'
    BY <1>0, <1>2, <2>1 DEF HumanInv, HumanTypes
  <2> QED
    BY <1>4, <2>6, <2>7 DEF HumanInv
<1> QED
  BY <1>5, <1>6 DEF Relay

LEMMA FinishKeeps ==
  ASSUME HumanInv, \A e : Recorded(e) => Recorded(e)', Finish
  PROVE  HumanInv'
<1>0. cur.pc = "final" /\ UNCHANGED <<aegis, fourEyes, override, pc>>
  BY DEF Finish, storeVars
<1>1. /\ cur \in Decisions /\ cur # None /\ cur.hold \in Holds /\ cur.status \in Statuses \cup {"none"}
      /\ finals \in [Holds -> Statuses \cup {"none"}]
  BY <1>0 DEF HumanInv, HumanTypes, None, Decisions
<1>2. cur.acted /\ aegis[cur.hold] = Fate(cur.status)
  BY <1>0, <1>1 DEF HumanInv, Standing
<1>3. /\ cur' = None /\ answer' = [hold |-> cur.hold, code |-> 200, status |-> cur.status,
                                   acted |-> cur.acted]
      /\ finals' = [finals EXCEPT ![cur.hold] = cur.status]
  BY DEF Finish, Answer
<1>4. /\ finals' \in [Holds -> Statuses \cup {"none"}]
      /\ \A h \in Holds : finals'[h] = IF h = cur.hold THEN cur.status ELSE finals[h]
  BY <1>1, <1>3
<1>5. HumanTypes' /\ Standing' /\ Relayed'
  BY <1>0, <1>3, <1>4 DEF HumanInv, HumanTypes, Standing, Relayed, Behalf
<1>6. Told'
  BY <1>0, <1>1, <1>2, <1>3, <1>4 DEF HumanInv, Told
<1> QED
  BY <1>5, <1>6 DEF HumanInv

LEMMA HumanInit ==
  ASSUME Init  PROVE HumanInv
<1>1. HumanTypes /\ cur = None
  BY DEF Init, HumanTypes, Statuses
<1>2. answer.code = 0
  BY DEF Init, NoAnswer
<1>3. Told
  BY <1>2 DEF Init, Told
<1>4. Relayed
  BY HitlAssumption DEF Init, StoreInit, Relayed
<1> QED
  BY <1>1, <1>3, <1>4 DEF HumanInv, Standing

LEMMA HumanKeeps ==
  ASSUME StoreInv, HumanInv, [Next]_vars  PROVE HumanInv'
<1>1. AnySeq(rows) /\ StoreTypes
  BY DEF StoreInv
<1>2. \A e : Recorded(e) => Recorded(e)'
  BY <1>1, AuditStep, RecordsStay
<1>3. ASSUME NEW op \in Operators, NEW id \in RequestIds, NEW h \in Holds, NEW a \in BOOLEAN,
             Decide(op, id, h, a) \/ Replay(op, id, h, a)
      PROVE  HumanInv'
  BY <1>2, <1>3, DecideKeeps
<1>4. ASSUME AuditAttempt  PROVE HumanInv'
  <2>0. cur.pc = "attempt" /\ UNCHANGED <<aegis, fourEyes, finals, override, pc>>
    BY <1>4 DEF AuditAttempt, storeVars
  <2>1. cur \in Decisions /\ cur # None /\ ~cur.acted
    BY <2>0 DEF HumanInv, HumanTypes, Standing, None
  <2>2. PICK e : e = Attempt(cur.op, cur.hold, cur.approve)
    OBVIOUS
  <2>3. CASE Answer(cur, 503, "refused")
    BY <1>2, <2>0, <2>1, <2>3, AnswerKeeps
  <2>4. CASE Commit(e) /\ cur' = [cur EXCEPT !.pc = "resolve"] /\ UNCHANGED <<answer, replies>>
    <3>1. Recorded(e)'
      BY <1>1, <2>4, CommitRecords
    <3>2. cur' \in Decisions /\ cur'.pc = "resolve"
      BY <2>1, <2>4 DEF Decisions
    <3>3. /\ cur'.op = cur.op /\ cur'.hold = cur.hold /\ cur'.approve = cur.approve
          /\ cur'.acted = cur.acted
      BY <2>1, <2>4 DEF Decisions
    <3>4. e = Attempt(cur'.op, cur'.hold, cur'.approve)
      BY <2>2, <3>3
    <3>5. Standing'
      BY <2>0, <2>1, <3>1, <3>2, <3>3, <3>4 DEF HumanInv, Standing
    <3>6. HumanTypes' /\ Told' /\ Relayed'
      BY <1>2, <2>0, <2>4, <3>2 DEF HumanInv, HumanTypes, Told, Relayed, Behalf
    <3> QED
      BY <3>5, <3>6 DEF HumanInv
  <2> QED
    BY <1>4, <2>2, <2>3, <2>4 DEF AuditAttempt, Appended
<1>5. ASSUME Resolve \/ Relay \/ Finish  PROVE HumanInv'
  BY <1>1, <1>2, <1>5, ResolveKeeps, RelayKeeps, FinishKeeps
<1>6. ASSUME HitlCrash  PROVE HumanInv'
  <2>1. /\ cur' = None /\ finals' = [h \in Holds |-> "none"]
        /\ UNCHANGED <<aegis, fourEyes, answer, override, pc>>
    BY <1>6 DEF HitlCrash
  <2>2. HumanTypes' /\ Standing' /\ Told'
    BY <2>1 DEF HumanInv, HumanTypes, Standing, Told
  <2>3. Relayed'
    BY <1>2, <2>1 DEF HumanInv, Relayed, Behalf
  <2> QED
    BY <2>2, <2>3 DEF HumanInv
<1>7. ASSUME NEW h \in Holds, Expire(h)  PROVE HumanInv'
  <2>1. /\ aegis[h] = "held" /\ aegis' = [aegis EXCEPT ![h] = "dropped"]
        /\ UNCHANGED <<fourEyes, cur, finals, answer, override, pc>>
    BY <1>7 DEF Expire, storeVars
  <2>2. /\ aegis' \in [Holds -> {"held", "released", "dropped"}]
        /\ \A g \in Holds : aegis[g] # "held" => aegis'[g] = aegis[g]
    BY <2>1 DEF HumanInv, HumanTypes
  <2>3. \A s : Fate(s) # "held"
    BY DEF Fate
  <2>4. HumanTypes' /\ Told' /\ Relayed'
    <3>1. HumanTypes'
      BY <2>1, <2>2 DEF HumanInv, HumanTypes
    <3>2. Told'
      BY <2>1, <2>2, <2>3 DEF HumanInv, Told
    <3>3. Relayed'
      BY <1>2, <2>1, <2>2 DEF HumanInv, Relayed, Behalf
    <3> QED
      BY <3>1, <3>2, <3>3
  <2>5. cur # None => cur.hold \in Holds
    BY DEF HumanInv, HumanTypes, Decisions
  <2>6. Standing'
    BY <1>2, <2>1, <2>2, <2>3, <2>5 DEF HumanInv, Standing
  <2> QED
    BY <2>4, <2>6 DEF HumanInv
<1>8. ASSUME UNCHANGED hitlVars, \A h \in Holds : pc'[h] # "idle" => pc[h] # "idle"
      PROVE  HumanInv'
  <2>1. UNCHANGED <<aegis, fourEyes, cur, finals, answer, override>>
    BY <1>8 DEF hitlVars
  <2>2. HumanTypes' /\ Told'
    BY <2>1 DEF HumanInv, HumanTypes, Told
  <2>3. Standing'
    BY <1>2, <2>1 DEF HumanInv, Standing
  <2>4. Relayed'
    BY <1>2, <1>8, <2>1 DEF HumanInv, Relayed, Behalf
  <2> QED
    BY <2>2, <2>3, <2>4 DEF HumanInv
<1>9. ASSUME NEW o \in Orders, Arrive(o)  PROVE HumanInv'
  <2>1. \A h \in Holds : pc'[h] = pc[h]
    BY <1>1, <1>9, HitlAssumption DEF Arrive, Go, StoreTypes
  <2> QED
    BY <1>8, <1>9, <2>1 DEF Arrive
<1>10. ASSUME NEW o \in Orders, Motor(o)  PROVE HumanInv'
  <2>1. Writes(o) /\ UNCHANGED hitlVars
    BY <1>10 DEF Motor, Writes
  <2> QED
    BY <1>1, <1>8, <2>1, IdleStays, HitlAssumption
<1>11. ASSUME Operate  PROVE HumanInv'
  <2>1. UNCHANGED hitlVars
    BY <1>11 DEF Operate
  <2>2. CASE pc' = pc
    BY <1>8, <2>1, <2>2
  <2>3. CASE \E p \in Processes : MotorCrash(p)
    BY <1>1, <1>8, <2>1, <2>3, IdleStays, HitlAssumption
  <2> QED
    BY <1>11, <2>2, <2>3 DEF Operate, Reaudit, storeVars
<1>12. ASSUME UNCHANGED vars  PROVE HumanInv'
  BY <1>8, <1>12 DEF vars, storeVars
<1> QED
  BY <1>3, <1>4, <1>5, <1>6, <1>7, <1>9, <1>10, <1>11, <1>12 DEF Next

LEMMA HumanHolds == Spec => [](StoreInv /\ HumanInv)
<1>1. Init => StoreInv /\ HumanInv
  BY StoreInit_, HumanInit
<1>2. (StoreInv /\ HumanInv) /\ [Next]_vars => (StoreInv /\ HumanInv)'
  BY StoreKeeps, HumanKeeps
<1> QED
  BY <1>1, <1>2, PTL DEF Spec

(* A held order is with the broker only because an approver asked for it,  *)
(* on record, and Aegis released the hold; the book never calls such a     *)
(* hold rejected.  For any operators, holds, lost answers, restarts and    *)
(* restores of the table (hitl_backend/service.py, holds.py).              *)
THEOREM HumanBehind == Spec => []HumanBehindOrder
<1>1. ASSUME StoreInv, HumanInv  PROVE HumanBehindOrder
  <2>1. SUFFICES ASSUME NEW o \in broker \cap Holds
                 PROVE  /\ RoleOf[override[o]] = "approver"
                        /\ Recorded(Attempt(override[o], o, TRUE))
                        /\ aegis[o] = "released" /\ o \notin fourEyes
                        /\ finals[o] \in {"none", "APPROVED"}
    BY DEF HumanBehindOrder
  <2>2. pc[o] = "sent"
    BY <1>1 DEF StoreInv, StoreTypes, Behind
  <2>3. Behalf(o)
    BY <1>1, <2>2 DEF HumanInv, Relayed
  <2>4. finals[o] \in {"none", "APPROVED"}
    BY <1>1, <2>3 DEF HumanInv, Told, Fate, Behalf
  <2> QED
    BY <2>3, <2>4 DEF Behalf
<1> QED
  BY <1>1, HumanHolds, PTL

(* What an operator is told is what happened at Aegis, whatever answers    *)
(* are lost: a refusal below 500 changed nothing, and a 200 is the state   *)
(* of the hold (hitl_backend/service.py).                                  *)
THEOREM AnswersHold == Spec => []AnswersTrue
<1>1. HumanInv => AnswersTrue
  BY DEF HumanInv, Told, AnswersTrue, Fate
<1> QED
  BY <1>1, HumanHolds, PTL

-----------------------------------------------------------------------------
(* The audit log: rows and lost rows share the hashes up to Total, each    *)
(* used once, and an anchor vouches for the rows up to the one it names.   *)

Total == Len(rows) + Cardinality(lost)

Log ==
  /\ AnySeq(rows) /\ IsFiniteSet(lost)
  /\ \A i \in 1..Len(rows) : rows[i].seq = i /\ rows[i].hash \in 1..Total
  /\ \A i, j \in 1..Len(rows) : rows[i].hash = rows[j].hash => i = j
  /\ \A i \in 1..Len(rows) : \A r \in lost : rows[i].hash # r.hash
  /\ \A r \in lost : r.hash \in 1..Total

Linked == \A i \in 1..Len(rows) : rows[i].prev = IF i = 1 THEN GenesisHash ELSE rows[i - 1].hash

Vouch(a) ==
  /\ a.hash \in a.covers /\ a.hash \in 1..Total
  /\ \A j \in 1..Len(rows) :
       rows[j].hash = a.hash => a.seq = j /\ a.covers = {rows[i].hash : i \in 1..j}

Anchored ==
  /\ AnySeq(anchors) /\ \A i \in 1..Len(anchors) : Vouch(anchors[i])
  /\ publisher # NoHead => Vouch(publisher)

LogInv == Log /\ Linked /\ Anchored

(* A restore moves rows to the lost ones and changes their number not.     *)
LEMMA RestoreCounts ==
  ASSUME Log, NEW n \in 0..Len(rows), Restore(n)
  PROVE  IsFiniteSet(lost') /\ Total' = Total /\ Total \in Nat
<1> DEFINE tail == (n + 1)..Len(rows)
           gone == {rows[i] : i \in tail}
           f == [i \in tail |-> rows[i]]
<1>1. /\ Len(rows) \in Nat /\ n \in Nat /\ Len(SubSeq(rows, 1, n)) = n
      /\ \A i \in tail : i \in 1..Len(rows)
  BY CutAny DEF Log
<1>2. rows' = SubSeq(rows, 1, n) /\ lost' = lost \cup gone
  BY DEF Restore
<1>3. ExistsBijection(tail, gone)
  <2>1. f \in [tail -> gone] /\ \A t \in gone : \E s \in tail : f[s] = t
    OBVIOUS
  <2>2. \A a, b \in tail : f[a] = f[b] => a = b
    BY <1>1 DEF Log
  <2>3. f \in Bijection(tail, gone)
    BY <2>1, <2>2, Fun_IsBij
  <2> QED
    BY <2>3, Fun_ExistsBij
<1>4. IsFiniteSet(tail) /\ Cardinality(tail) = Len(rows) - n
  <2>1. n + 1 \in Int /\ Len(rows) \in Int /\ n <= Len(rows)
    BY <1>1
  <2>2. /\ IsFiniteSet(tail)
        /\ Cardinality(tail) = IF n + 1 > Len(rows) THEN 0 ELSE Len(rows) - (n + 1) + 1
    BY <2>1, FS_Interval
  <2> QED
    BY <1>1, <2>1, <2>2
<1>5. IsFiniteSet(gone) /\ Cardinality(gone) = Len(rows) - n
  BY <1>3, <1>4, FS_Bijection
<1>6. lost \cap gone = {}
  BY <1>1 DEF Log
<1>7. Cardinality(lost) \in Nat /\ IsFiniteSet(lost)
  BY FS_CardinalityType DEF Log
<1>8. /\ IsFiniteSet(lost \cup gone)
      /\ Cardinality(lost \cup gone) = Cardinality(lost) + Cardinality(gone) - Cardinality({})
  BY <1>5, <1>6, <1>7, FS_Union
<1> QED
  BY <1>1, <1>2, <1>5, <1>7, <1>8, FS_EmptySet DEF Total

LEMMA RestoreKeeps ==
  ASSUME LogInv, NEW n \in 0..Len(rows), Restore(n)
  PROVE  LogInv'
<1>1. IsFiniteSet(lost') /\ Total' = Total /\ Total \in Nat
  BY RestoreCounts DEF LogInv
<1>2. /\ Len(rows) \in Nat /\ AnySeq(rows') /\ Len(rows') = n
      /\ \A i \in 1..n : rows'[i] = rows[i] /\ i \in 1..Len(rows)
  BY CutAny DEF LogInv, Log, Restore
<1>3. /\ lost' = lost \cup {rows[i] : i \in (n + 1)..Len(rows)}
      /\ UNCHANGED <<anchors, publisher>>
  BY DEF Restore
<1>4. Log'
  <2>1. /\ \A i \in 1..n : rows'[i].seq = i /\ rows'[i].hash \in 1..Total
        /\ \A i, j \in 1..n : rows'[i].hash = rows'[j].hash => i = j
    BY <1>2 DEF LogInv, Log
  <2>2. \A j \in (n + 1)..Len(rows) : j \in 1..Len(rows) /\ j \notin 1..n
    BY <1>2
  <2>3. \A r \in lost' : r \in lost \/ \E j \in (n + 1)..Len(rows) : r = rows[j]
    BY <1>3
  <2>4. \A r \in lost' : r.hash \in 1..Total
    BY <2>2, <2>3 DEF LogInv, Log
  <2>5. \A i \in 1..n : \A r \in lost' : rows'[i].hash # r.hash
    <3>1. ASSUME NEW i \in 1..n, NEW r \in lost, rows'[i].hash = r.hash  PROVE FALSE
      BY <1>2, <3>1 DEF LogInv, Log
    <3>2. ASSUME NEW i \in 1..n, NEW j \in (n + 1)..Len(rows), rows'[i].hash = rows[j].hash
          PROVE  FALSE
      <4>1. i = j
        BY <1>2, <2>2, <3>2 DEF LogInv, Log
      <4> QED
        BY <2>2, <4>1
    <3> QED
      BY <2>3, <3>1, <3>2
  <2> QED
    BY <1>1, <1>2, <2>1, <2>4, <2>5 DEF Log
<1>5. Linked'
  <2>1. \A i \in 1..n : i # 1 => i - 1 \in 1..n
    BY <1>2
  <2> QED
    BY <1>2, <2>1 DEF LogInv, Linked
<1>6. ASSUME NEW a, Vouch(a)  PROVE Vouch(a)'
  <2>1. ASSUME NEW j \in 1..n
        PROVE  {rows'[i].hash : i \in 1..j} = {rows[i].hash : i \in 1..j}
    <3>1. \A i \in 1..j : rows'[i] = rows[i]
      BY <1>2
    <3> QED
      BY <3>1
  <2> QED
    BY <1>1, <1>2, <1>6, <2>1 DEF Vouch
<1>7. Anchored'
  BY <1>3, <1>6 DEF LogInv, Anchored
<1> QED
  BY <1>4, <1>5, <1>7 DEF LogInv

LEMMA CommitKeeps ==
  ASSUME LogInv, NEW e, Commit(e)
  PROVE  LogInv'
<1> DEFINE new == build_canonical(e)
<1>1. rows' = Append(rows, new) /\ UNCHANGED <<lost, anchors, publisher>>
  BY DEF Commit
<1>2. /\ Len(rows) \in Nat /\ AnySeq(rows') /\ Len(rows') = Len(rows) + 1
      /\ \A i \in 1..Len(rows) : rows'[i] = rows[i]
      /\ rows'[Len(rows) + 1] = new
  BY <1>1, AppendAny DEF LogInv, Log
<1>3. Cardinality(lost) \in Nat
  BY FS_CardinalityType DEF LogInv, Log
<1>4. Total \in Nat /\ Total' = Total + 1
  BY <1>1, <1>2, <1>3 DEF Total
<1>5. \A i \in 1..Len(rows') : i \in 1..Len(rows) \/ i = Len(rows) + 1
  BY <1>2
<1>6. /\ new.hash = Total + 1 /\ new.seq = Len(rows) + 1
      /\ new.prev = IF Len(rows) + 1 = 1 THEN GenesisHash ELSE rows[Len(rows)].hash
  <2>1. CASE rows = <<>>
    <3>1. Len(rows) = 0 /\ head = NoHead
      BY <2>1 DEF head
    <3> QED
      BY <3>1 DEF build_canonical, Total, NoHead
  <2>2. CASE rows # <<>>
    <3>1. Len(rows) # 0
      BY <2>2, EmptySeq DEF LogInv, Log, AnySeq
    <3>2. Len(rows) \in 1..Len(rows)
      BY <1>2, <3>1
    <3>3. rows[Len(rows)].seq = Len(rows)
      BY <3>2 DEF LogInv, Log
    <3>4. head.seq = Len(rows) /\ head.hash = rows[Len(rows)].hash
      BY <2>2, <3>3 DEF head
    <3> QED
      BY <1>2, <3>1, <3>4 DEF build_canonical, Total
  <2> QED
    BY <2>1, <2>2
<1>7. Log'
  <2>1. \A i \in 1..Len(rows) : rows[i].hash \in 1..Total /\ rows[i].hash # Total + 1
    BY <1>4 DEF LogInv, Log
  <2>2. \A i \in 1..Len(rows') : rows'[i].seq = i /\ rows'[i].hash \in 1..(Total + 1)
    BY <1>2, <1>4, <1>5, <1>6 DEF LogInv, Log
  <2>3. \A i, j \in 1..Len(rows') : rows'[i].hash = rows'[j].hash => i = j
    BY <1>2, <1>5, <1>6, <2>1 DEF LogInv, Log
  <2>4. \A r \in lost : r.hash \in 1..Total /\ r.hash # Total + 1
    BY <1>4 DEF LogInv, Log
  <2>5. \A i \in 1..Len(rows') : \A r \in lost' : rows'[i].hash # r.hash
    BY <1>1, <1>2, <1>5, <1>6, <2>4 DEF LogInv, Log
  <2>6. \A r \in lost' : r.hash \in 1..(Total + 1)
    BY <1>1, <1>4, <2>4
  <2>7. IsFiniteSet(lost')
    BY <1>1 DEF LogInv, Log
  <2> QED
    BY <1>2, <1>4, <2>2, <2>3, <2>5, <2>6, <2>7 DEF Log
<1>8. Linked'
  <2>1. \A i \in 1..Len(rows') : i # 1 => i - 1 \in 1..Len(rows)
    BY <1>2
  <2>2. Len(rows) + 1 - 1 = Len(rows)
    BY <1>2
  <2> QED
    BY <1>2, <1>5, <1>6, <2>1, <2>2 DEF LogInv, Linked
<1>9. ASSUME NEW a, Vouch(a)  PROVE Vouch(a)'
  <2>1. a.hash \in 1..Total' /\ a.hash # Total + 1
    BY <1>4, <1>9 DEF Vouch
  <2>2. ASSUME NEW j \in 1..Len(rows)
        PROVE  {rows'[i].hash : i \in 1..j} = {rows[i].hash : i \in 1..j}
    <3>1. \A i \in 1..j : rows'[i] = rows[i]
      BY <1>2
    <3> QED
      BY <3>1
  <2>3. ASSUME NEW j \in 1..Len(rows'), rows'[j].hash = a.hash
        PROVE  a.seq = j /\ a.covers = {rows'[i].hash : i \in 1..j}
    <3>1. j \in 1..Len(rows)
      BY <1>2, <1>5, <1>6, <2>1, <2>3
    <3> QED
      BY <1>2, <1>9, <2>2, <2>3, <3>1 DEF Vouch
  <2> QED
    BY <1>9, <2>1, <2>3 DEF Vouch
<1>10. Anchored'
  BY <1>1, <1>9 DEF LogInv, Anchored
<1> QED
  BY <1>7, <1>8, <1>10 DEF LogInv

LEMMA PublishKeeps ==
  ASSUME LogInv, ReadHead \/ Emit
  PROVE  LogInv'
<1>1. UNCHANGED <<rows, lost>>
  BY DEF ReadHead, Emit
<1>2. Log' /\ Linked' /\ Total' = Total
  BY <1>1 DEF LogInv, Log, Linked, Total
<1>3. ASSUME NEW a  PROVE Vouch(a)' <=> Vouch(a)
  BY <1>1, <1>2 DEF Vouch
<1>4. CASE ReadHead
  <2>1. publisher' = head /\ anchors' = anchors /\ rows # <<>>
    BY <1>4 DEF ReadHead
  <2>2. Len(rows) \in Nat /\ Len(rows) # 0
    BY <2>1, EmptySeq, LenProperties DEF LogInv, Log, AnySeq
  <2>3. Len(rows) \in 1..Len(rows)
    BY <2>2
  <2>4. head = [seq |-> rows[Len(rows)].seq, hash |-> rows[Len(rows)].hash,
                covers |-> Hashes(rows)]
    BY <2>1 DEF head
  <2>5. PICK a : a = head
    OBVIOUS
  <2>6. Vouch(a)
    <3>1. a.hash \in a.covers /\ a.hash \in 1..Total
      BY <2>3, <2>4, <2>5 DEF LogInv, Log, Hashes
    <3>2. ASSUME NEW j \in 1..Len(rows), rows[j].hash = a.hash
          PROVE  a.seq = j /\ a.covers = {rows[i].hash : i \in 1..j}
      <4>1. j = Len(rows)
        BY <2>3, <2>4, <2>5, <3>2 DEF LogInv, Log
      <4> QED
        BY <2>3, <2>4, <2>5, <4>1 DEF LogInv, Log, Hashes
    <3> QED
      BY <3>1, <3>2 DEF Vouch
  <2>7. Vouch(publisher)'
    <3>1. publisher' = a
      BY <2>1, <2>5
    <3>2. Vouch(a)'
      BY <1>3, <2>6
    <3> QED
      BY <3>1, <3>2 DEF Vouch
  <2>8. Anchored'
    BY <1>3, <2>1, <2>7 DEF LogInv, Anchored
  <2> QED
    BY <1>2, <2>8 DEF LogInv
<1>5. CASE Emit
  <2>1. publisher' = NoHead /\ publisher # NoHead
    BY <1>5 DEF Emit
  <2>2. CASE anchors' = anchors
    BY <1>2, <1>3, <2>1, <2>2 DEF LogInv, Anchored
  <2>3. ASSUME NEW whole \in BOOLEAN,
               anchors' = Append(anchors, [seq |-> publisher.seq, hash |-> publisher.hash,
                                           whole |-> whole, covers |-> publisher.covers])
        PROVE  LogInv'
    <3>1. PICK a : a = [seq |-> publisher.seq, hash |-> publisher.hash,
                        whole |-> whole, covers |-> publisher.covers]
      OBVIOUS
    <3>2. Vouch(a)
      BY <2>1, <3>1 DEF LogInv, Anchored, Vouch
    <3>3. /\ Len(anchors) \in Nat /\ AnySeq(anchors') /\ Len(anchors') = Len(anchors) + 1
          /\ \A i \in 1..Len(anchors) : anchors'[i] = anchors[i]
          /\ anchors'[Len(anchors) + 1] = a
      BY <2>3, <3>1, AppendAny DEF LogInv, Anchored
    <3>4. \A i \in 1..Len(anchors') : i \in 1..Len(anchors) \/ i = Len(anchors) + 1
      BY <3>3
    <3>5. ASSUME NEW i \in 1..Len(anchors')  PROVE Vouch(anchors[i])'
      <4>1. PICK b : b = anchors'[i]
        OBVIOUS
      <4>2. Vouch(b)
        BY <3>2, <3>3, <3>4, <4>1 DEF LogInv, Anchored
      <4>3. Vouch(b)'
        BY <1>3, <4>2
      <4> QED
        BY <4>1, <4>3 DEF Vouch
    <3> QED
      BY <1>2, <2>1, <3>3, <3>5 DEF LogInv, Anchored
  <2> QED
    BY <1>5, <2>2, <2>3 DEF Emit
<1> QED
  BY <1>4, <1>5

LEMMA LogHolds == Spec => []LogInv
<1>1. Init => LogInv
  <2> SUFFICES ASSUME Init  PROVE LogInv
    OBVIOUS
  <2>1. rows = <<>> /\ lost = {} /\ anchors = <<>> /\ publisher = NoHead
    BY DEF Init, AuditInit
  <2>2. AnySeq(<<>>) /\ Len(<<>>) = 0 /\ IsFiniteSet({})
    BY FS_EmptySet DEF AnySeq
  <2>3. \A i : i \notin 1..0
    OBVIOUS
  <2> QED
    BY <2>1, <2>2, <2>3 DEF LogInv, Log, Linked, Anchored
<1>2. LogInv /\ [Next]_vars => LogInv'
  <2> SUFFICES ASSUME LogInv, [Next]_vars  PROVE LogInv'
    OBVIOUS
  <2>1. CASE UNCHANGED auditVars
    BY <2>1 DEF auditVars, LogInv, Log, Linked, Anchored, Vouch, Total
  <2> QED
    BY <2>1, AuditStep, CommitKeeps, RestoreKeeps, PublishKeeps DEF AuditMoves
<1> QED
  BY <1>1, <1>2, PTL DEF Spec

(* Whatever was appended, lost with a restore and appended again, a        *)
(* readable anchor file disagrees with the table exactly when a row it     *)
(* vouches for is gone, and the table alone always verifies (verifier.py,  *)
(* anchor.py).                                                             *)
THEOREM LossShows == Spec => []LossIsReported
<1>1. ASSUME LogInv  PROVE LossIsReported
  <2>1. verify_chain(rows)
    BY <1>1 DEF LogInv, Log, Linked, verify_chain
  <2>2. ASSUME NEW i \in 1..Len(anchors)
        PROVE  (\E j \in 1..Len(rows) : rows[j].seq = anchors[i].seq /\ rows[j].hash = anchors[i].hash)
                 <=> anchors[i].covers \subseteq Hashes(rows)
    <3>1. Vouch(anchors[i])
      BY <1>1 DEF LogInv, Anchored
    <3>2. ASSUME NEW j \in 1..Len(rows), rows[j].hash = anchors[i].hash
          PROVE  anchors[i].covers \subseteq Hashes(rows) /\ anchors[i].seq = j
      <4>1. \A k \in 1..j : k \in 1..Len(rows)
        BY <1>1, LenProperties DEF LogInv, Log, AnySeq
      <4> QED
        BY <3>1, <3>2, <4>1 DEF Vouch, Hashes
    <3>3. ASSUME anchors[i].covers \subseteq Hashes(rows)
          PROVE  \E j \in 1..Len(rows) : rows[j].seq = anchors[i].seq /\ rows[j].hash = anchors[i].hash
      <4>1. PICK j \in 1..Len(rows) : rows[j].hash = anchors[i].hash
        BY <3>1, <3>3 DEF Vouch, Hashes
      <4>2. rows[j].seq = anchors[i].seq
        BY <1>1, <3>2, <4>1 DEF LogInv, Log
      <4> QED
        BY <4>1, <4>2
    <3> QED
      BY <3>2, <3>3
  <2>3. verify_anchors(anchors) # {}
          <=> \E i \in 1..Len(anchors) : ~(anchors[i].covers \subseteq Hashes(rows))
    BY <2>2 DEF verify_anchors
  <2> QED
    BY <2>1, <2>3 DEF LossIsReported
<1> QED
  BY <1>1, LogHolds, PTL

-----------------------------------------------------------------------------
(* SharpGate: a stored history only grows, and an append is accepted only  *)
(* as the next row: an event that was prepared on the first v - 1 rows is  *)
(* stored behind the same rows.                                            *)

Kinds == {"none", "submitted", "approved", "rejected"}
Outcomes == {"none", "absent", "unverified"}
Events == [version : Nat, kind : Kinds, from : Stages \cup {"none"}, to : Stages \cup {"none"},
           actor : Names \cup {"none"}]
Row == [event : Events, seq : Nat]
Command == [pc : {"idle", "audit", "append", "outcome", "abort"}, event : Events, seq : Nat,
            outcome : Outcomes]
Entry == [type : Kinds \cup {"transition_aborted"}, event : Events, of : Nat, outcome : Outcomes]

Types ==
  /\ trail \in Seq(Row) /\ audit \in Seq(Entry)
  /\ gate \in [Gates -> Command] /\ landing \subseteq Row /\ told \subseteq Row

(* e may be the row at position i, by what stands before it.               *)
Follows(e, i) ==
  IF i = 1
  THEN e.kind = "submitted" /\ e.version = 1 /\ e.to = "DRAFT"
  ELSE /\ e.version = i
       /\ trail[i - 1].event.to \notin Terminal /\ e.from = trail[i - 1].event.to
       /\ \/ /\ e.kind = "approved" /\ e.to = NextStage(trail[i - 1].event.to)
             /\ Casefold[e.actor] # Casefold[trail[1].event.actor]
             /\ \A j \in 2..(i - 1) : trail[j].event.kind = "approved" =>
                  Casefold[e.actor] # Casefold[trail[j].event.actor]
          \/ e.kind = "rejected" /\ e.to = "REJECTED"

Good(e) ==
  /\ e.version \in 1..(Len(trail) + 1) /\ Follows(e, e.version)
  /\ e.kind = "approved" => Casefold[e.actor] \in Allowed[e.to]

(* The history is well formed, audited row by row, and at its stage.       *)
History ==
  /\ \A i \in 1..Len(trail) :
       /\ trail[i].event.version = i /\ Good(trail[i].event) /\ OnRecord(trail[i])
       /\ i <= Last /\ trail[i].event.to \in {Pipeline[i], "REJECTED"}
  /\ \A i, j \in 1..Len(trail) : trail[i].seq = trail[j].seq => i = j

(* What is under way fits the history it was prepared on.                  *)
Prepared == \A g \in Gates : gate[g].pc # "idle" => Good(gate[g].event)

(* r may be stored now; t is the row its caller was told of.               *)
Waits(r) ==
  /\ Good(r.event) /\ r.event.version = Len(trail) + 1 /\ OnRecord(r)
  /\ \A i \in 1..Len(trail) : trail[i].seq # r.seq
Stands(t) == t.event.version \in 1..Len(trail) /\ trail[t.event.version] = t

Landing == \A r \in landing : Waits(r)
ToldStands == \A t \in told : Stands(t)

Admitted == admitted => Len(trail) = Last /\ trail[Last].event.to = "PROMOTED"

Inv == Types /\ History /\ Prepared /\ Landing /\ ToldStands /\ Admitted

-----------------------------------------------------------------------------
(* The pipeline.                                                           *)
LEMMA Stage ==
  /\ Last \in Nat /\ Last > 1
  /\ \A i \in 1..Last : Pipeline[i] \in Stages
  /\ \A i \in 1..Last : Pipeline[i] \notin Terminal =>
       i + 1 \in 1..Last /\ NextStage(Pipeline[i]) = Pipeline[i + 1]
<1>1. /\ Pipeline \in Seq(STRING) /\ Last > 1 /\ Pipeline[Last] = "PROMOTED"
      /\ \A i, j \in 1..Last : Pipeline[i] = Pipeline[j] => i = j
  BY SharpAssumption
<1>2. Last \in Nat /\ \A i \in 1..Last : Pipeline[i] \in Stages
  BY <1>1, LenProperties DEF Last, Stages
<1>3. ASSUME NEW i \in 1..Last, Pipeline[i] \notin Terminal
      PROVE  i + 1 \in 1..Last /\ NextStage(Pipeline[i]) = Pipeline[i + 1]
  <2>1. i # Last
    BY <1>1, <1>3 DEF Terminal
  <2>2. i + 1 \in 1..Last
    BY <1>2, <2>1
  <2>3. (CHOOSE k \in 1..Last : Pipeline[k] = Pipeline[i]) = i
    BY <1>1
  <2>4. 1 + i = i + 1
    BY <1>2
  <2> QED
    BY <2>2, <2>3, <2>4 DEF NextStage
<1> QED
  BY <1>1, <1>2, <1>3

(* Follows and MayFollow say the same of the first rows.                   *)
LEMMA Prefix ==
  ASSUME Types, NEW e, NEW n \in 0..Len(trail)
  PROVE  MayFollow(e, SubSeq(trail, 1, n), Casefold) <=> Follows(e, n + 1)
<1> DEFINE h == SubSeq(trail, 1, n)
<1>1. trail \in Seq(Row) /\ Len(trail) \in Nat /\ n \in Nat
  BY LenProperties DEF Types
<1>2. h \in Seq(Row) /\ Len(h) = n /\ \A i \in 1..n : h[i] = trail[i]
  <2>1. \A i \in 1..n : trail[i] \in Row
    BY <1>1, ElementOfSeq
  <2>2. /\ h \in Seq(Row) /\ Len(h) = IF 1 <= n THEN n - 1 + 1 ELSE 0
        /\ \A i \in 1..(n - 1 + 1) : h[i] = trail[1 + i - 1]
    BY <1>1, <2>1, SubSeqProperties
  <2>3. n - 1 + 1 = n /\ \A i \in 1..n : 1 + i - 1 = i
    BY <1>1
  <2> QED
    BY <1>1, <2>2, <2>3
<1>3. CASE n = 0
  <2>1. h = <<>>
    BY <1>2, <1>3, EmptySeq
  <2> QED
    BY <1>3, <2>1 DEF MayFollow, Follows
<1>4. CASE n # 0
  <2>1. h # <<>> /\ n + 1 # 1 /\ n + 1 - 1 = n /\ n \in 1..n /\ 1 \in 1..n
    BY <1>1, <1>2, <1>4, EmptySeq
  <2>2. h[Len(h)] = trail[n] /\ h[1] = trail[1]
    BY <1>2, <2>1
  <2>3. /\ Signed(h) = {i \in 2..n : trail[i].event.kind = "approved"}
        /\ \A i \in 2..n : h[i] = trail[i]
    BY <1>1, <1>2 DEF Signed
  <2> QED
    BY <1>2, <2>1, <2>2, <2>3 DEF MayFollow, Follows
<1> QED
  BY <1>3, <1>4

(* fold accepts the stored history.                                        *)
LEMMA Folds ==
  ASSUME Types, History, Len(trail) # 0  PROVE Fold(trail)
<1>1. trail # <<>> /\ Len(trail) \in Nat
  BY LenProperties, EmptySeq DEF Types
<1>2. ASSUME NEW i \in 1..Len(trail)
      PROVE  MayFollow(trail[i].event, SubSeq(trail, 1, i - 1), Casefold)
  <2>1. i - 1 \in 0..Len(trail) /\ i - 1 + 1 = i
    BY <1>1
  <2>2. Follows(trail[i].event, i)
    BY DEF History, Good
  <2> QED
    BY <2>1, <2>2, Prefix
<1> QED
  BY <1>1, <1>2 DEF Fold, VerifyAuditRecords, History
-----------------------------------------------------------------------------
LEMMA Starts == SharpInit => Inv
<1> SUFFICES ASSUME SharpInit PROVE Inv
  OBVIOUS
<1>1. NoEvent \in Events
  BY DEF NoEvent, Event, Events, Kinds
<1>2. Idle \in Command
  BY <1>1 DEF Idle, Command, Outcomes
<1>3. trail = <<>> /\ audit = <<>> /\ Len(trail) = 0
  BY EmptySeq DEF SharpInit
<1>4. Types
  <2>1. trail \in Seq(Row) /\ audit \in Seq(Entry)
    BY <1>3, EmptySeq
  <2>2. gate \in [Gates -> Command] /\ landing \subseteq Row /\ told \subseteq Row
    BY <1>2 DEF SharpInit
  <2> QED
    BY <2>1, <2>2 DEF Types
<1>5. History
  BY <1>3 DEF History
<1>6. Prepared
  BY DEF SharpInit, Prepared, Idle
<1> QED
  BY <1>4, <1>5, <1>6 DEF Inv, SharpInit, Landing, ToldStands, Admitted

(* An event stays good, and a record stays found, while nothing is stored. *)
LEMMA SameRows ==
  ASSUME trail' = trail  PROVE \A e : Good(e)' <=> Good(e)
  BY DEF Good, Follows

LEMMA SameRecords ==
  ASSUME audit' = audit  PROVE \A r : OnRecord(r)' <=> OnRecord(r)
  BY DEF OnRecord

LEMMA MoreRecords ==
  ASSUME Types, NEW type, NEW e, NEW of, NEW outcome,
         type \in Kinds \cup {"transition_aborted"}, e \in Events, of \in Nat, outcome \in Outcomes,
         Record(type, e, of, outcome)
  PROVE  /\ audit' \in Seq(Entry) /\ Len(audit) + 1 \in Nat
         /\ \A r : r.seq \in Nat /\ OnRecord(r) => OnRecord(r)'
<1> DEFINE x == [type |-> type, event |-> e, of |-> of, outcome |-> outcome]
<1>1. audit' = Append(audit, x) /\ x \in Entry /\ audit \in Seq(Entry)
  BY DEF Record, Entry, Types
<1>2. /\ audit' \in Seq(Entry) /\ Len(audit') = Len(audit) + 1 /\ Len(audit) \in Nat
      /\ \A i \in 1..Len(audit) : audit'[i] = audit[i]
  BY <1>1, AppendProperties, LenProperties
<1>3. ASSUME NEW r, r.seq \in Nat, OnRecord(r) PROVE OnRecord(r)'
  <2>1. r.seq \in 1..Len(audit) /\ r.seq \in 1..Len(audit') /\ audit'[r.seq] = audit[r.seq]
    BY <1>2, <1>3 DEF OnRecord
  <2> QED
    BY <1>3, <2>1 DEF OnRecord
<1> QED
  BY <1>2, <1>3

(* The next row is stored.                                                 *)
LEMMA StoredNext ==
  ASSUME Types, History, Admitted, NEW r \in Row, Waits(r),
         trail' = Append(trail, r), audit' = audit, admitted' = admitted
  PROVE  /\ trail' \in Seq(Row) /\ Len(trail) \in Nat /\ Len(trail') = Len(trail) + 1
         /\ trail'[Len(trail) + 1] = r /\ \A i \in 1..Len(trail) : trail'[i] = trail[i]
         /\ \A e : Good(e) => Good(e)'
         /\ History' /\ Admitted'
<1> DEFINE n == Len(trail)
<1> USE DEF Waits
<1>1. /\ trail' \in Seq(Row) /\ n \in Nat /\ Len(trail') = n + 1
      /\ trail'[n + 1] = r /\ \A i \in 1..n : trail'[i] = trail[i]
  BY AppendProperties, LenProperties DEF Types
<1> HIDE DEF n
<1>2. ASSUME NEW e, Good(e) PROVE Good(e)'
  <2>1. e.version \in 1..(n + 1) /\ Follows(e, e.version)
        /\ (e.kind = "approved" => Casefold[e.actor] \in Allowed[e.to])
    BY <1>2 DEF Good, n
  <2>2. e.version \in 1..(n + 1 + 1)
    BY <1>1, <2>1
  <2>3. Follows(e, e.version)'
    <3>1. CASE e.version = 1
      BY <2>1, <3>1 DEF Follows
    <3>2. CASE e.version # 1
      <4>1. e.version - 1 \in 1..n /\ 1 \in 1..n /\ \A j \in 2..(e.version - 1) : j \in 1..n
        BY <1>1, <2>1, <3>2
      <4>2. trail'[e.version - 1] = trail[e.version - 1] /\ trail'[1] = trail[1]
            /\ \A j \in 2..(e.version - 1) : trail'[j] = trail[j]
        BY <1>1, <4>1
      <4> QED
        BY <2>1, <3>2, <4>2 DEF Follows
    <3> QED
      BY <3>1, <3>2
  <2> QED
    BY <1>1, <2>1, <2>2, <2>3 DEF Good
<1>3. n = 0 \/ (n \in 1..n /\ n + 1 # 1 /\ n + 1 - 1 = n)
  BY <1>1
<1>4. Follows(r.event, n + 1)
  BY DEF Good, n
<1>5. n + 1 <= Last /\ r.event.to \in {Pipeline[n + 1], "REJECTED"}
  <2>1. CASE n = 0
    <3>1. r.event.to = "DRAFT" /\ n + 1 = 1 /\ 1 <= Last
      BY <1>4, <2>1, Stage DEF Follows
    <3> QED
      BY <3>1, SharpAssumption
  <2>2. CASE n # 0
    <3>1. /\ trail[n].event.to \notin Terminal
          /\ r.event.to \in {NextStage(trail[n].event.to), "REJECTED"}
      BY <1>3, <1>4, <2>2 DEF Follows
    <3>2. n \in 1..Last /\ trail[n].event.to = Pipeline[n]
      BY <1>1, <1>3, <2>2, <3>1, Stage DEF History, Terminal, n
    <3>3. n + 1 \in 1..Last /\ NextStage(Pipeline[n]) = Pipeline[n + 1]
      BY <3>1, <3>2, Stage
    <3> QED
      BY <3>1, <3>2, <3>3, Stage
  <2> QED
    BY <2>1, <2>2
<1>6. History'
  <2>1. ASSUME NEW i \in 1..Len(trail')
        PROVE  (/\ trail[i].event.version = i /\ Good(trail[i].event) /\ OnRecord(trail[i])
                /\ i <= Last /\ trail[i].event.to \in {Pipeline[i], "REJECTED"})'
    <3>1. CASE i \in 1..n
      <4>1. /\ trail[i].event.version = i /\ Good(trail[i].event) /\ OnRecord(trail[i])
            /\ i <= Last /\ trail[i].event.to \in {Pipeline[i], "REJECTED"}
        BY <3>1 DEF History, n
      <4>2. Good(trail[i].event)' /\ OnRecord(trail[i])'
        <5>1. \A e : e = trail[i].event => Good(e)'
          BY <1>2, <4>1
        <5>2. \A q : q = trail[i] => OnRecord(q)'
          BY <4>1, SameRecords
        <5> QED
          BY <1>1, <3>1, <5>1, <5>2
      <4> QED
        BY <1>1, <3>1, <4>1, <4>2
    <3>2. CASE i = n + 1
      <4>1. Good(r.event)' /\ OnRecord(r)'
        BY <1>2, SameRecords
      <4> QED
        BY <1>1, <1>5, <3>2, <4>1 DEF n
    <3> QED
      BY <1>1, <3>1, <3>2
  <2>2. ASSUME NEW i \in 1..Len(trail'), NEW j \in 1..Len(trail'), trail'[i].seq = trail'[j].seq
        PROVE  i = j
    <3>1. \A k \in 1..Len(trail') : k \in 1..n \/ k = n + 1
      BY <1>1
    <3>2. \A k \in 1..n : trail[k].seq # r.seq
      BY DEF n
    <3>3. \A k, l \in 1..n : trail[k].seq = trail[l].seq => k = l
      BY DEF History, n
    <3> QED
      BY <1>1, <2>2, <3>1, <3>2, <3>3
  <2> QED
    BY <2>1, <2>2 DEF History
<1>7. Admitted'
  <2>1. ASSUME admitted PROVE FALSE
    <3>1. n = Last /\ trail[n].event.to \in Terminal /\ n # 0
      BY <2>1, Stage DEF Admitted, Terminal, n
    <3> QED
      BY <1>3, <1>4, <3>1 DEF Follows
  <2> QED
    BY <2>1 DEF Admitted
<1> QED
  BY <1>1, <1>2, <1>6, <1>7 DEF n
-----------------------------------------------------------------------------
(* A step that stores no row: the commands under way still fit, what is    *)
(* committing may still be stored, and what was told still stands.         *)
Kept ==
  /\ gate' \in [Gates -> Command]
  /\ \A g \in Gates : gate'[g].pc # "idle" => Good(gate'[g].event)

LEMMA Quiet ==
  ASSUME Types, History, Kept, trail' = trail,
         audit' \in Seq(Entry), \A r : r.seq \in Nat /\ OnRecord(r) => OnRecord(r)',
         landing' \subseteq Row, \A r \in landing' : Waits(r),
         told' \subseteq Row, \A t \in told' : Stands(t), Admitted'
  PROVE  Inv'
<1>1. Types'
  BY DEF Types, Kept
<1>2. \A r : r \in Row => (OnRecord(r) => OnRecord(r)')
  BY DEF Row
<1>3. History'
  <2>1. \A i \in 1..Len(trail) : trail[i] \in Row
    BY ElementOfSeq DEF Types
  <2>2. ASSUME NEW i \in 1..Len(trail)
        PROVE  Good(trail[i].event)' /\ OnRecord(trail[i])'
    <3>1. Good(trail[i].event) /\ OnRecord(trail[i])
      BY DEF History
    <3>2. \A e : e = trail[i].event => Good(e)'
      BY <3>1, SameRows
    <3>3. \A q : q = trail[i] => OnRecord(q)'
      BY <1>2, <2>1, <3>1
    <3> QED
      BY <3>2, <3>3
  <2> QED
    BY <2>2 DEF History
<1>4. Prepared'
  <2>1. \A e : Good(e) => Good(e)'
    BY SameRows
  <2> QED
    BY <2>1 DEF Prepared, Kept
<1>5. Landing'
  <2>1. ASSUME NEW r \in landing' PROVE Waits(r)'
    <3>1. Good(r.event)' /\ OnRecord(r)'
      BY <1>2, SameRows DEF Waits
    <3> QED
      BY <3>1 DEF Waits
  <2> QED
    BY <2>1 DEF Landing
<1>6. ToldStands'
  BY DEF ToldStands, Stands
<1> QED
  BY <1>1, <1>3, <1>4, <1>5, <1>6 DEF Inv

(* The same, where the audit log did not change either.                    *)
LEMMA Silent ==
  ASSUME Inv, Kept, UNCHANGED <<audit, trail, landing, told, admitted>>
  PROVE  Inv'
<1>1. Types /\ History /\ Landing /\ ToldStands /\ Admitted
  BY DEF Inv
<1>2. audit' \in Seq(Entry) /\ landing' \subseteq Row /\ told' \subseteq Row
  BY <1>1 DEF Types
<1>3. Admitted'
  BY <1>1 DEF Admitted
<1> QED
  BY <1>1, <1>2, <1>3, SameRecords, Quiet DEF Landing, ToldStands

(* One command moves on, or is over.                                       *)
LEMMA Over ==
  ASSUME Types, Prepared, NEW g \in Gates, gate' = [gate EXCEPT ![g] = Idle]
  PROVE  Kept
<1>1. NoEvent \in Events
  BY DEF NoEvent, Event, Events, Kinds
<1>2. Idle \in Command /\ Idle.pc = "idle"
  BY <1>1 DEF Idle, Command, Outcomes
<1> QED
  BY <1>2 DEF Kept, Types, Prepared

LEMMA MovesOn ==
  ASSUME Types, Prepared, NEW g \in Gates, gate[g].pc # "idle", gate' \in [Gates -> Command],
         \A q \in Gates : q # g => gate'[q] = gate[q], gate'[g].event = gate[g].event
  PROVE  Kept
<1>1. Good(gate[g].event)
  BY DEF Prepared
<1> QED
  BY <1>1 DEF Kept, Prepared

-----------------------------------------------------------------------------
(* The commands.                                                           *)
LEMMA Prepares ==
  ASSUME Inv, NEW g \in Gates, NEW e \in Events, Good(e), Prepare(g, e)
  PROVE  Inv'
<1>1. [pc |-> "audit", event |-> e, seq |-> 0, outcome |-> "none"] \in Command
  BY DEF Command, Outcomes
<1>2. Kept
  BY <1>1 DEF Inv, Types, Prepared, Prepare, Kept
<1> QED
  BY <1>2, Silent DEF Prepare

LEMMA Submits ==
  ASSUME Inv, NEW g \in Gates, NEW who \in Names, Submit(g, who)
  PROVE  Inv'
<1> DEFINE e == Event(1, "submitted", "none", "DRAFT", who)
<1>1. "DRAFT" \in Stages
  BY Stage, SharpAssumption DEF Stages
<1>2. e \in Events
  BY <1>1 DEF Event, Events, Kinds
<1>3. Len(trail) \in Nat
  BY LenProperties DEF Inv, Types
<1>4. Good(e)
  BY <1>3 DEF Good, Follows, Event
<1> QED
  BY <1>2, <1>4, Prepares DEF Submit

(* What an open proposal offers to sign.                                   *)
LEMMA Offers ==
  ASSUME Inv, Open
  PROVE  /\ Len(trail) \in Nat /\ Len(trail) # 0 /\ trail[Len(trail)].event.to \notin Terminal
         /\ StateOf(trail) = trail[Len(trail)].event.to
         /\ StateOf(trail) \in Stages /\ NextStage(StateOf(trail)) \in Stages
<1>1. trail \in Seq(Row) /\ Len(trail) \in Nat /\ trail # <<>>
  BY LenProperties DEF Inv, Types, Open, Fold
<1>2. Len(trail) # 0 /\ Len(trail) \in 1..Len(trail)
  BY <1>1, EmptySeq
<1>3. StateOf(trail) = trail[Len(trail)].event.to /\ StateOf(trail) \notin Terminal
  BY DEF Open, StateOf
<1>4. Len(trail) \in 1..Last /\ StateOf(trail) = Pipeline[Len(trail)]
  BY <1>1, <1>2, <1>3, Stage DEF Inv, History, Terminal
<1> QED
  BY <1>1, <1>2, <1>3, <1>4, Stage

LEMMA Approves ==
  ASSUME Inv, NEW g \in Gates, NEW who \in Names, Approve(g, who)
  PROVE  Inv'
<1> DEFINE n == Len(trail)
           e == Event(n + 1, "approved", StateOf(trail), NextStage(StateOf(trail)), who)
<1>1. /\ n \in Nat /\ n # 0 /\ n + 1 # 1 /\ n + 1 - 1 = n /\ n + 1 \in 1..(n + 1)
      /\ StateOf(trail) = trail[n].event.to /\ trail[n].event.to \notin Terminal
      /\ StateOf(trail) \in Stages /\ NextStage(StateOf(trail)) \in Stages
  BY Offers DEF Approve
<1>2. e \in Events
  BY <1>1 DEF Event, Events, Kinds
<1>3. /\ e.version = n + 1 /\ e.kind = "approved" /\ e.from = trail[n].event.to
      /\ e.to = NextStage(trail[n].event.to) /\ e.actor = who
  BY <1>1 DEF Event
<1>4. /\ Casefold[who] # Casefold[trail[1].event.actor]
      /\ \A j \in 2..n : trail[j].event.kind = "approved" =>
           Casefold[who] # Casefold[trail[j].event.actor]
      /\ Casefold[who] \in Allowed[NextStage(trail[n].event.to)]
  BY <1>1 DEF Approve, DistinctSigner, Signed, Authorized, normalise_identity
<1>5. Prepare(g, e)
  BY DEF Approve
<1> HIDE DEF e
<1>6. Follows(e, n + 1)
  BY <1>1, <1>3, <1>4 DEF Follows
<1>7. Good(e)
  BY <1>1, <1>3, <1>4, <1>6 DEF Good
<1> QED
  BY <1>2, <1>5, <1>7, Prepares

LEMMA Rejects ==
  ASSUME Inv, NEW g \in Gates, NEW who \in Names, Reject(g, who)
  PROVE  Inv'
<1> DEFINE n == Len(trail)
           e == Event(n + 1, "rejected", StateOf(trail), "REJECTED", who)
<1>1. /\ n \in Nat /\ n # 0 /\ n + 1 # 1 /\ n + 1 - 1 = n /\ n + 1 \in 1..(n + 1)
      /\ StateOf(trail) = trail[n].event.to /\ trail[n].event.to \notin Terminal
      /\ StateOf(trail) \in Stages
  BY Offers DEF Reject
<1>2. e \in Events
  BY <1>1 DEF Event, Events, Kinds, Stages
<1>3. /\ e.version = n + 1 /\ e.kind = "rejected" /\ e.from = trail[n].event.to
      /\ e.to = "REJECTED"
  BY <1>1 DEF Event
<1>4. Prepare(g, e)
  BY DEF Reject
<1> HIDE DEF e
<1>5. Good(e)
  BY <1>1, <1>3 DEF Good, Follows
<1> QED
  BY <1>2, <1>4, <1>5, Prepares
-----------------------------------------------------------------------------
(* _commit, and what the database does behind it.                          *)
LEMMA Commands ==
  ASSUME Types, NEW g \in Gates
  PROVE  /\ gate[g].event \in Events /\ gate[g].event.kind \in Kinds
         /\ gate[g].seq \in Nat /\ gate[g].outcome \in Outcomes
         /\ RowOf(g) \in Row /\ RowOf(g).event = gate[g].event /\ RowOf(g).seq = gate[g].seq
<1>1. gate[g] \in Command
  BY DEF Types
<1>2. gate[g].event \in Events /\ gate[g].seq \in Nat /\ gate[g].outcome \in Outcomes
  BY <1>1 DEF Command
<1>3. gate[g].event.kind \in Kinds
  BY <1>2 DEF Events
<1>4. RowOf(g) \in Row /\ RowOf(g).event = gate[g].event /\ RowOf(g).seq = gate[g].seq
  BY <1>2 DEF RowOf, Row
<1> QED
  BY <1>2, <1>3, <1>4

(* The audit log grew by a record, or did not change.                      *)
LEMMA Logged ==
  ASSUME Inv, Kept, UNCHANGED <<trail, landing, told, admitted>>,
         NEW type \in Kinds \cup {"transition_aborted"}, NEW e \in Events, NEW of \in Nat,
         NEW outcome \in Outcomes,
         Record(type, e, of, outcome) \/ UNCHANGED audit
  PROVE  Inv'
<1>1. Types /\ History /\ Landing /\ ToldStands /\ Admitted
  BY DEF Inv
<1>2. landing' \subseteq Row /\ told' \subseteq Row
  BY <1>1 DEF Types
<1>3. Admitted'
  BY <1>1 DEF Admitted
<1>4. audit' \in Seq(Entry) /\ \A r : r.seq \in Nat /\ OnRecord(r) => OnRecord(r)'
  <2>1. CASE Record(type, e, of, outcome)
    BY <1>1, <2>1, MoreRecords
  <2>2. CASE UNCHANGED audit
    BY <1>1, <2>2, SameRecords DEF Types
  <2> QED
    BY <2>1, <2>2
<1> QED
  BY <1>1, <1>2, <1>3, <1>4, Quiet DEF Landing, ToldStands

LEMMA Audits ==
  ASSUME Inv, NEW g \in Gates, WriteAudit(g)
  PROVE  Inv'
<1>1. Types /\ Prepared /\ Len(audit) + 1 \in Nat
  BY LenProperties DEF Inv, Types
<1>2. Kept
  <2>1. CASE gate' = [gate EXCEPT ![g].pc = "append", ![g].seq = Len(audit) + 1]
    <3>1. /\ gate' \in [Gates -> Command] /\ \A q \in Gates : q # g => gate'[q] = gate[q]
          /\ gate'[g].event = gate[g].event
      BY <1>1, <2>1 DEF Types, Command
    <3>2. gate[g].pc # "idle"
      BY DEF WriteAudit
    <3> QED
      BY <1>1, <3>1, <3>2, MovesOn
  <2>2. CASE gate' = [gate EXCEPT ![g] = Idle]
    BY <1>1, <2>2, Over
  <2> QED
    BY <2>1, <2>2 DEF WriteAudit
<1>3. /\ gate[g].event.kind \in Kinds \cup {"transition_aborted"} /\ gate[g].event \in Events
      /\ 0 \in Nat /\ "none" \in Outcomes
  BY <1>1, Commands DEF Outcomes
<1>4. Record(gate[g].event.kind, gate[g].event, 0, "none") \/ UNCHANGED audit
  BY DEF WriteAudit
<1>5. UNCHANGED <<trail, landing, told, admitted>>
  BY DEF WriteAudit
<1> QED
  BY <1>2, <1>3, <1>4, <1>5, Logged

LEMMA Aborts ==
  ASSUME Inv, NEW g \in Gates, RecordAbort(g)
  PROVE  Inv'
<1>1. Types /\ Prepared
  BY DEF Inv
<1>2. Kept
  BY <1>1, Over DEF RecordAbort
<1>3. /\ gate[g].event \in Events /\ gate[g].seq \in Nat /\ gate[g].outcome \in Outcomes
      /\ "transition_aborted" \in Kinds \cup {"transition_aborted"}
  BY <1>1, Commands
<1>4. /\ Record("transition_aborted", gate[g].event, gate[g].seq, gate[g].outcome)
         \/ UNCHANGED audit
      /\ UNCHANGED <<trail, landing, told, admitted>>
  BY DEF RecordAbort
<1> QED
  BY <1>2, <1>3, <1>4, Logged

(* The pc alone changes.                                                   *)
LEMMA AwaitsOutcome ==
  ASSUME Types, Prepared, NEW g \in Gates, gate[g].pc = "append",
         gate' = [gate EXCEPT ![g].pc = "outcome"]
  PROVE  Kept
<1>1. /\ gate' \in [Gates -> Command] /\ \A q \in Gates : q # g => gate'[q] = gate[q]
      /\ gate'[g].event = gate[g].event
  BY DEF Types, Command
<1> QED
  BY <1>1, MovesOn

LEMMA Waiting ==
  ASSUME Types, Prepared, NEW g \in Gates, gate[g].pc = "append", Accepts(RowOf(g))
  PROVE  Waits(RowOf(g))
<1>1. Good(gate[g].event) /\ RowOf(g).event = gate[g].event
  BY Commands DEF Prepared
<1>2. Good(RowOf(g).event)
  BY <1>1
<1>3. RowOf(g).event.version = Len(trail) + 1
  <2>1. Len(trail) \in Nat /\ RowOf(g).event.version \in 1..(Len(trail) + 1)
    BY <1>2, LenProperties DEF Types, Good
  <2> QED
    BY <2>1 DEF Accepts
<1> QED
  BY <1>2, <1>3 DEF Waits, Accepts

(* A row is stored: by its own gate, or when the database commits it.      *)
LEMMA Grows ==
  ASSUME Inv, NEW r \in Row, Waits(r), trail' = Append(trail, r), Kept,
         UNCHANGED <<audit, admitted>>, landing' = {}, told' = told \/ told' = {r}
  PROVE  Inv'
<1>1. Types /\ History /\ ToldStands /\ Admitted
  BY DEF Inv
<1>2. /\ trail' \in Seq(Row) /\ Len(trail) \in Nat /\ Len(trail') = Len(trail) + 1
      /\ trail'[Len(trail) + 1] = r /\ \A i \in 1..Len(trail) : trail'[i] = trail[i]
      /\ \A e : Good(e) => Good(e)'
      /\ History' /\ Admitted'
  BY <1>1, StoredNext
<1>3. Types'
  BY <1>1, <1>2 DEF Types, Kept
<1>4. Prepared'
  BY <1>2 DEF Prepared, Kept
<1>5. ToldStands'
  <2>1. ASSUME NEW t \in told PROVE Stands(t)'
    <3>1. t.event.version \in 1..Len(trail) /\ trail[t.event.version] = t
      BY <1>1 DEF ToldStands, Stands
    <3>2. t.event.version \in 1..Len(trail') /\ trail'[t.event.version] = t
      BY <1>2, <3>1
    <3> QED
      BY <3>2 DEF Stands
  <2>2. Stands(r)'
    <3>1. r.event.version = Len(trail) + 1 /\ Len(trail) + 1 \in 1..Len(trail')
      BY <1>2 DEF Waits
    <3> QED
      BY <1>2, <3>1 DEF Stands
  <2> QED
    BY <2>1, <2>2 DEF ToldStands
<1>6. Landing'
  BY DEF Landing
<1> QED
  BY <1>2, <1>3, <1>4, <1>5, <1>6 DEF Inv

LEMMA Stores ==
  ASSUME Inv, NEW g \in Gates, Store(g)
  PROVE  Inv'
<1>1. Types /\ Prepared
  BY DEF Inv
<1>2. RowOf(g) \in Row /\ Waits(RowOf(g))
  BY <1>1, Commands, Waiting DEF Store
<1>3. Kept
  <2>1. CASE gate' = [gate EXCEPT ![g] = Idle]
    BY <1>1, <2>1, Over
  <2>2. CASE gate' = [gate EXCEPT ![g].pc = "outcome"]
    BY <1>1, <2>2, AwaitsOutcome DEF Store
  <2> QED
    BY <2>1, <2>2 DEF Store
<1>4. /\ trail' = Append(trail, RowOf(g)) /\ UNCHANGED <<audit, admitted>> /\ landing' = {}
      /\ told' = told \/ told' = {RowOf(g)}
  BY DEF Store, Accepts
<1> QED
  BY <1>2, <1>3, <1>4, Grows

LEMMA Lands ==
  ASSUME Inv, Land
  PROVE  Inv'
<1>1. Types /\ History /\ Prepared /\ Landing /\ ToldStands /\ Admitted
  BY DEF Inv
<1>2. Kept
  BY <1>1 DEF Kept, Types, Prepared, Land
<1>3. CASE \E row \in landing : trail' = Append(trail, row)
  <2>1. PICK row \in landing : trail' = Append(trail, row)
    BY <1>3
  <2>2. row \in Row /\ Waits(row)
    BY <1>1 DEF Types, Landing
  <2> QED
    BY <1>2, <2>1, <2>2, Grows DEF Land
<1>4. CASE UNCHANGED trail
  <2>1. audit' \in Seq(Entry) /\ told' \subseteq Row /\ landing' = {}
    BY <1>1 DEF Types, Land
  <2>2. Admitted'
    BY <1>1, <1>4 DEF Admitted, Land
  <2>3. \A t \in told' : Stands(t)
    BY <1>1 DEF ToldStands, Land
  <2>4. \A r : r.seq \in Nat /\ OnRecord(r) => OnRecord(r)'
    BY SameRecords DEF Land
  <2> QED
    BY <1>1, <1>2, <1>4, <2>1, <2>2, <2>3, <2>4, Quiet
<1> QED
  BY <1>3, <1>4 DEF Land

LEMMA Doubts ==
  ASSUME Inv, NEW g \in Gates, StoreInDoubt(g)
  PROVE  Inv'
<1>1. Types /\ History /\ Prepared /\ ToldStands /\ Admitted
  BY DEF Inv
<1>2. RowOf(g) \in Row /\ Waits(RowOf(g))
  BY <1>1, Commands, Waiting DEF StoreInDoubt
<1>3. Kept
  BY <1>1, AwaitsOutcome DEF StoreInDoubt
<1>4. audit' \in Seq(Entry) /\ told' \subseteq Row /\ landing' \subseteq Row
  BY <1>1, <1>2 DEF Types, StoreInDoubt
<1>5. (\A r \in landing' : Waits(r)) /\ (\A t \in told' : Stands(t))
  BY <1>1, <1>2 DEF ToldStands, StoreInDoubt
<1>6. \A r : r.seq \in Nat /\ OnRecord(r) => OnRecord(r)'
  BY SameRecords DEF StoreInDoubt
<1>7. Admitted' /\ trail' = trail
  BY <1>1 DEF Admitted, StoreInDoubt
<1> QED
  BY <1>1, <1>3, <1>4, <1>5, <1>6, <1>7, Quiet

LEMMA Answers ==
  ASSUME Inv, NEW g \in Gates, StoreOutcome(g)
  PROVE  Inv'
<1>1. Types /\ History /\ Prepared /\ Landing /\ ToldStands /\ Admitted
  BY DEF Inv
<1>2. Kept
  <2>1. CASE gate' = [gate EXCEPT ![g] = Idle]
    BY <1>1, <2>1, Over
  <2>2. ASSUME NEW o \in {"absent", "unverified"},
               gate' = [gate EXCEPT ![g].pc = "abort", ![g].outcome = o]
        PROVE  Kept
    <3>1. /\ gate' \in [Gates -> Command] /\ \A q \in Gates : q # g => gate'[q] = gate[q]
          /\ gate'[g].event = gate[g].event
      BY <1>1, <2>2 DEF Types, Command, Outcomes
    <3>2. gate[g].pc # "idle"
      BY DEF StoreOutcome
    <3> QED
      BY <1>1, <3>1, <3>2, MovesOn
  <2> QED
    BY <2>1, <2>2 DEF StoreOutcome
<1>3. told' \subseteq Row /\ \A t \in told' : Stands(t)
  <2>1. CASE UNCHANGED told
    BY <1>1, <2>1 DEF Types, ToldStands
  <2>2. CASE Landed(RowOf(g)) /\ told' = {RowOf(g)}
    <3>1. PICK i \in 1..Len(trail) : trail[i] = RowOf(g)
      BY <2>2 DEF Landed
    <3>2. RowOf(g).event.version = i
      BY <1>1, <3>1 DEF History
    <3> QED
      BY <1>1, <2>2, <3>1, <3>2, Commands DEF Stands
  <2> QED
    BY <2>1, <2>2 DEF StoreOutcome
<1>4. audit' \in Seq(Entry) /\ landing' \subseteq Row /\ \A r \in landing' : Waits(r)
  BY <1>1 DEF Types, Landing, StoreOutcome
<1>5. \A r : r.seq \in Nat /\ OnRecord(r) => OnRecord(r)'
  BY SameRecords DEF StoreOutcome
<1>6. Admitted' /\ trail' = trail
  BY <1>1 DEF Admitted, StoreOutcome
<1> QED
  BY <1>1, <1>2, <1>3, <1>4, <1>5, <1>6, Quiet

LEMMA Fails ==
  ASSUME Inv, NEW g \in Gates, StoreFails(g) \/ Crash(g)
  PROVE  Inv'
<1>1. Types /\ Prepared
  BY DEF Inv
<1>2. Kept
  <2>1. CASE StoreFails(g)
    BY <1>1, <2>1, AwaitsOutcome DEF StoreFails
  <2>2. CASE Crash(g)
    BY <1>1, <2>2, Over DEF Crash
  <2> QED
    BY <2>1, <2>2
<1> QED
  BY <1>2, Silent DEF StoreFails, Crash

(* The motor reads a promoted proposal: it went through every stage.       *)
LEMMA Admits ==
  ASSUME Inv, CheckStrategy
  PROVE  Inv'
<1>1. Types /\ History /\ Prepared /\ Landing /\ ToldStands
  BY DEF Inv
<1>2. Len(trail) \in 1..Len(trail)
  BY <1>1, LenProperties, EmptySeq DEF Types, CheckStrategy, Fold
<1>3. trail[Len(trail)].event.to = "PROMOTED"
  BY SharpAssumption DEF CheckStrategy, StateOf
<1>4. Len(trail) \in 1..Last /\ Pipeline[Len(trail)] = "PROMOTED"
  BY <1>1, <1>2, <1>3, Stage DEF History
<1>5. Len(trail) = Last
  BY <1>4, Stage, SharpAssumption
<1>6. Admitted'
  BY <1>3, <1>5 DEF Admitted, CheckStrategy
<1>7. Kept
  BY <1>1 DEF Kept, Types, Prepared, CheckStrategy
<1>8. /\ audit' \in Seq(Entry) /\ landing' \subseteq Row /\ told' \subseteq Row
      /\ (\A r \in landing' : Waits(r)) /\ (\A t \in told' : Stands(t)) /\ trail' = trail
  BY <1>1 DEF Types, Landing, ToldStands, CheckStrategy
<1>9. \A r : r.seq \in Nat /\ OnRecord(r) => OnRecord(r)'
  BY SameRecords DEF CheckStrategy
<1> QED
  BY <1>1, <1>6, <1>7, <1>8, <1>9, Quiet

-----------------------------------------------------------------------------
LEMMA Steps == Inv /\ [SharpNext]_sharpVars => Inv'
<1> SUFFICES ASSUME Inv, [SharpNext]_sharpVars PROVE Inv'
  OBVIOUS
<1>1. ASSUME NEW g \in Gates, NEW who \in Names,
             Submit(g, who) \/ Approve(g, who) \/ Reject(g, who)
      PROVE  Inv'
  BY <1>1, Submits, Approves, Rejects
<1>2. ASSUME NEW g \in Gates,
             \/ WriteAudit(g) \/ Store(g) \/ StoreFails(g) \/ StoreInDoubt(g)
             \/ StoreOutcome(g) \/ RecordAbort(g) \/ Crash(g)
      PROVE  Inv'
  BY <1>2, Audits, Stores, Fails, Doubts, Answers, Aborts
<1>3. CASE Land
  BY <1>3, Lands
<1>4. CASE CheckStrategy
  BY <1>4, Admits
<1>5. CASE UNCHANGED sharpVars
  <2>1. Kept
    BY <1>5 DEF sharpVars, Inv, Types, Prepared, Kept
  <2> QED
    BY <1>5, <2>1, Silent DEF sharpVars
<1> QED
  BY <1>1, <1>2, <1>3, <1>4, <1>5 DEF SharpNext

LEMMA Safe == SharpSpec => []Inv
  BY Starts, Steps, PTL DEF SharpSpec

(* Every signature of the stored history is authorised for its stage, by   *)
(* somebody other than the proposer and than every other signer, whatever  *)
(* gates raced in SharpGate.approve and however the names were spelled.    *)
THEOREM SignaturesDistinct == SharpSpec => []PromotionEarned
<1>1. Inv => PromotionEarned
  <2> SUFFICES ASSUME Inv, NEW i \in Signed(trail) PROVE
        /\ Casefold[trail[i].event.actor] \in Allowed[trail[i].event.to]
        /\ Casefold[trail[i].event.actor] # Casefold[trail[1].event.actor]
        /\ \A j \in Signed(trail) :
             Casefold[trail[i].event.actor] = Casefold[trail[j].event.actor] => i = j
    BY DEF PromotionEarned
  <2>1. Len(trail) \in Nat
    BY LenProperties DEF Inv, Types
  <2>2. ASSUME NEW k \in Signed(trail)
        PROVE  /\ k \in 2..Len(trail) /\ trail[k].event.kind = "approved"
               /\ Follows(trail[k].event, k)
               /\ Casefold[trail[k].event.actor] \in Allowed[trail[k].event.to]
    <3>1. k \in 2..Len(trail) /\ k \in 1..Len(trail) /\ trail[k].event.kind = "approved"
      BY <2>1 DEF Signed
    <3>2. trail[k].event.version = k /\ Good(trail[k].event)
      BY <3>1 DEF Inv, History
    <3> QED
      BY <3>1, <3>2 DEF Good
  <2>3. ASSUME NEW k \in Signed(trail)
        PROVE  /\ Casefold[trail[k].event.actor] # Casefold[trail[1].event.actor]
               /\ \A l \in Signed(trail) : l < k =>
                    Casefold[trail[k].event.actor] # Casefold[trail[l].event.actor]
    <3>1. k # 1 /\ \A l \in Signed(trail) : l < k => l \in 2..(k - 1)
      BY <2>1, <2>2
    <3> QED
      BY <2>2, <3>1 DEF Follows
  <2>4. \A j \in Signed(trail) : i = j \/ i < j \/ j < i
    BY <2>1, <2>2
  <2> QED
    BY <2>2, <2>3, <2>4
<1> QED
  BY <1>1, Safe, PTL

(* A caller that was given the new record made that transition: its row    *)
(* stands at its version, whichever answers of the store were lost.        *)
THEOREM WinnerStands == SharpSpec => []OneWinner
<1>1. Inv => OneWinner
  <2>1. ASSUME Inv, NEW t \in told
        PROVE  t.event.version <= Len(trail) /\ trail[t.event.version] = t
    BY <2>1, LenProperties DEF Inv, Types, ToldStands, Stands
  <2> QED
    BY <2>1 DEF OneWinner
<1> QED
  BY <1>1, Safe, PTL

(* The motor's SHARP check lets a strategy trade only when its proposal    *)
(* went through every stage, and the proposal stays promoted.              *)
THEOREM TradesPromoted == SharpSpec => []AdmittedPromoted
<1>1. Inv => AdmittedPromoted
  <2> SUFFICES ASSUME Inv, admitted
               PROVE  Fold(trail) /\ StateOf(trail) = "PROMOTED" /\ Len(trail) = Last
    BY DEF AdmittedPromoted
  <2>1. Len(trail) = Last /\ trail[Last].event.to = "PROMOTED" /\ Last # 0
    BY Stage DEF Inv, Admitted
  <2>2. Fold(trail)
    BY <2>1, Folds DEF Inv
  <2> QED
    BY <2>1, <2>2 DEF StateOf
<1> QED
  BY <1>1, Safe, PTL
=============================================================================
