------------------------------- MODULE AuditLog -------------------------------
(***************************************************************************)
(* The audit logger of zone C (afe_audit): an append-only table of hash-   *)
(* chained rows that the execution motor and the HITL backend write, and   *)
(* a publisher that copies the head of the chain to a file outside the     *)
(* database, so that a tail the table lost can be noticed.                 *)
(*                                                                         *)
(* Appends take the chain's advisory lock for a whole transaction, which   *)
(* the insert trigger takes again, so transactions follow one another and  *)
(* an append is one step, at its commit.  A hash is injective and a row    *)
(* carries its time: the hash of a row is a fresh number.                  *)
(***************************************************************************)
EXTENDS Integers, Sequences, FiniteSets

CONSTANTS MaxRows,     \* bound on the rows ever committed
          MaxAnchors,  \* bound on the lines of the anchor file
          MaxRestores  \* bound on restores of the table from a backup

ASSUME AuditAssumption == {MaxRows, MaxAnchors, MaxRestores} \subseteq Nat

VARIABLES rows,      \* audit.audit_events: [seq, event, prev, hash]
          lost,      \* rows a restore removed
          anchors,   \* the anchor file: [seq, hash, whole, covers]
          publisher, \* the head publish has read and not yet emitted, or NoHead
          restores

auditVars == <<rows, lost, anchors, publisher, restores>>

(* GENESIS_HASH of the audit chain *)
GenesisHash == 0
NoHead == [seq |-> 0, hash |-> GenesisHash, covers |-> {}]

AuditInit ==
  /\ rows = <<>> /\ lost = {} /\ anchors = <<>> /\ restores = 0
  /\ publisher = NoHead

Hashes(rs) == {rs[i].hash : i \in 1..Len(rs)}

-----------------------------------------------------------------------------
(* Writing.  Floats have no canonical form; a payload with one is refused  *)
(* before the database is asked.                                           *)
Canonical(payload) == "float" \notin payload

head ==
  IF rows = <<>> THEN NoHead
  ELSE [seq |-> rows[Len(rows)].seq, hash |-> rows[Len(rows)].hash,
        covers |-> Hashes(rows)]

build_canonical(event) ==
  [seq |-> head.seq + 1, event |-> event, prev |-> head.hash,
   hash |-> Len(rows) + Cardinality(lost) + 1]

(* append: the row is committed and returned; or the transaction failed;   *)
(* or its commit took effect and the answer was lost, which raises too.    *)
Commit(event) ==
  /\ Len(rows) + Cardinality(lost) < MaxRows
  /\ rows' = Append(rows, build_canonical(event))
  /\ UNCHANGED <<lost, anchors, publisher, restores>>

Appended(event, payload) == Canonical(payload) /\ Commit(event)

NotAppended(event, payload) ==
  UNCHANGED auditVars \/ Appended(event, payload)

Recorded(event) ==
  \/ \E i \in 1..Len(rows) : rows[i].event = event
  \/ \E r \in lost : r.event = event

(* The table is restored from a backup: a tail of it is gone.              *)
Restore(n) ==
  /\ restores < MaxRestores /\ restores' = restores + 1
  /\ n \in 0..(Len(rows) - 1)
  /\ rows' = SubSeq(rows, 1, n)
  /\ lost' = lost \cup {rows[i] : i \in (n + 1)..Len(rows)}
  /\ UNCHANGED <<anchors, publisher>>

-----------------------------------------------------------------------------
(* Verifying.  _walk: each row continues the one before it.                *)
verify_chain(rs) ==
  \A i \in 1..Len(rs) :
    /\ rs[i].seq = i
    /\ rs[i].prev = IF i = 1 THEN GenesisHash ELSE rs[i - 1].hash

(* read_all: a torn line makes the whole file unreadable.                  *)
read_all_ok == \A i \in 1..Len(anchors) : anchors[i].whole

(* Slip: the row is looked up and not compared *)
verify_anchors_Present(as) ==
  {i \in 1..Len(as) : ~\E j \in 1..Len(rows) : rows[j].seq = as[i].seq}

(* The lines whose row is missing or has another hash.                     *)
verify_anchors(as) ==
  {i \in 1..Len(as) :
     ~\E j \in 1..Len(rows) :
        rows[j].seq = as[i].seq /\ rows[j].hash = as[i].hash}

-----------------------------------------------------------------------------
(* Publishing.  The head is read in a transaction of its own, before the   *)
(* file is extended.                                                       *)
ReadHead ==
  /\ publisher = NoHead /\ rows # <<>> /\ Len(anchors) < MaxAnchors
  /\ publisher' = head
  /\ UNCHANGED <<rows, lost, anchors, restores>>

(* emit: the file must read back; the line is written, or only a part of   *)
(* it (os.write's count is not looked at, and the process may die), or not *)
(* at all, which ends run_periodic: the publisher may stop at any time.    *)
Emit ==
  /\ publisher # NoHead /\ publisher' = NoHead
  /\ \/ /\ read_all_ok
        /\ \E whole \in BOOLEAN :
             anchors' = Append(anchors,
               [seq |-> publisher.seq, hash |-> publisher.hash,
                whole |-> whole, covers |-> publisher.covers])
     \/ UNCHANGED anchors
  /\ UNCHANGED <<rows, lost, restores>>

AuditOperate == ReadHead \/ Emit \/ (\E n \in 0..Len(rows) : Restore(n))

-----------------------------------------------------------------------------
(* The anchors tell a restored table from a whole one: a readable anchor   *)
(* file disagrees with the table exactly when a row it vouches for is      *)
(* gone, even after new rows took the place of the lost ones, while the    *)
(* table alone always verifies.                                            *)
LossIsReported ==
  /\ verify_chain(rows)
  /\ read_all_ok =>
       (verify_anchors(anchors) # {} <=>
          \E i \in 1..Len(anchors) : ~(anchors[i].covers \subseteq Hashes(rows)))
=============================================================================
