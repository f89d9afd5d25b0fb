---------------------------- MODULE ManifestStore ----------------------------
(***************************************************************************)
(* The compliance manifest of zone C (afe_manifest) as the execution motor *)
(* writes it (execution_motor/compliance.py): one write-once file per      *)
(* order, each carrying the digest of the one before, stored and audited   *)
(* after every other check and before the order goes to the broker.        *)
(*                                                                         *)
(* An order is handled by a thread of one motor process; the threads of a  *)
(* process share AfeManifestWriter's lock, processes share only the        *)
(* directory.  A manifest is built once per order and its digest is        *)
(* injective in what it contains, so the order stands for the digest.      *)
(***************************************************************************)
EXTENDS AuditLog

CONSTANTS Orders,     \* orders that reach the manifest step
          Processes,  \* motor processes that share the manifest directory
          ProcOf,     \* the process whose thread handles an order
          MaxCrashes  \* bound on process deaths

GENESIS_HASH == "genesis"
Free == "free"

ASSUME StoreAssumption ==
  /\ ProcOf \in [Orders -> Processes] /\ MaxCrashes \in Nat
  /\ GENESIS_HASH \notin Orders /\ Free \notin Orders

VARIABLES files,    \* the directory: position -> [order, prev, whole]
          lock,     \* per process, the thread that holds the writer's lock
          pc,       \* per order, where its thread is
          prev,     \* prev_manifest_hash the thread built with
          seq,      \* the position the thread chose
          broker,   \* orders submitted to the broker
          crashes

storeVars == <<files, lock, pc, prev, seq, broker, crashes>>

StoreInit ==
  /\ files = <<>> /\ lock = [p \in Processes |-> Free]
  /\ pc = [o \in Orders |-> "idle"]
  /\ prev = [o \in Orders |-> GENESIS_HASH] /\ seq = [o \in Orders |-> 0]
  /\ broker = {} /\ crashes = 0

-----------------------------------------------------------------------------
(* A torn file fails verify_document: every digest of it is recomputed.    *)
verify_document(f) == f.whole

HeadReadable == files # <<>> => verify_document(files[Len(files)])

latest_digest ==
  IF files = <<>> THEN GENESIS_HASH ELSE files[Len(files)].order

(* Whole files, gapless by their position, each naming the one before.     *)
Chained(fs, i) ==
  fs[i].prev = IF i = 1 THEN GENESIS_HASH ELSE fs[i - 1].order

verify_store(fs) ==
  \A i \in 1..Len(fs) : verify_document(fs[i]) /\ Chained(fs, i)

-----------------------------------------------------------------------------
(* A thread's steps.  Whatever fails refuses the order; the writer's end   *)
(* frees the lock and forgets its locals.                                  *)

Go(o, next) == pc' = [pc EXCEPT ![o] = next]
Forget(os) ==
  /\ prev' = [o \in Orders |-> IF o \in os THEN GENESIS_HASH ELSE prev[o]]
  /\ seq' = [o \in Orders |-> IF o \in os THEN 0 ELSE seq[o]]
Leave(o) == lock' = [lock EXCEPT ![ProcOf[o]] = Free] /\ Forget({o})

Refuse(o) ==
  /\ Go(o, "refused") /\ Leave(o)
  /\ UNCHANGED <<files, broker, crashes>>

(* Slip: latest_digest and put are not one step for the threads *)
Acquire_NoLock(o) ==
  /\ pc[o] = "release" /\ Go(o, "head")
  /\ UNCHANGED <<files, lock, prev, seq, broker, crashes>>

Acquire(o) ==
  /\ pc[o] = "release" /\ lock[ProcOf[o]] = Free
  /\ lock' = [lock EXCEPT ![ProcOf[o]] = o] /\ Go(o, "head")
  /\ UNCHANGED <<files, prev, seq, broker, crashes>>

(* latest_digest and build_manifest; Consistent: the order belongs to its  *)
(* signal, no hard control failed, the snapshot is fresh, and a failed     *)
(* soft control has an approved human override.                            *)
Build(o, Consistent) ==
  /\ pc[o] = "head"
  /\ \/ /\ HeadReadable /\ Consistent
        /\ prev' = [prev EXCEPT ![o] = latest_digest] /\ Go(o, "put")
        /\ UNCHANGED <<files, lock, seq, broker, crashes>>
     \/ ~(HeadReadable /\ Consistent) /\ Refuse(o)

(* put: the newest file again, against the digest the manifest names.      *)
CheckHead(o) ==
  /\ pc[o] = "put"
  /\ \/ /\ HeadReadable /\ latest_digest = prev[o] /\ Go(o, "number")
        /\ UNCHANGED <<files, lock, prev, seq, broker, crashes>>
     \/ ~(HeadReadable /\ latest_digest = prev[o]) /\ Refuse(o)

Number(o) ==
  /\ pc[o] = "number"
  /\ seq' = [seq EXCEPT ![o] = Len(files) + 1] /\ Go(o, "create")
  /\ UNCHANGED <<files, lock, prev, broker, crashes>>

(* O_CREAT | O_EXCL: the position is free, or another writer took it.      *)
Create(o) ==
  /\ pc[o] = "create"
  /\ \/ /\ seq[o] = Len(files) + 1 /\ Go(o, "write")
        /\ files' = Append(files, [order |-> o, prev |-> prev[o],
                                   whole |-> FALSE])
        /\ UNCHANGED <<lock, prev, seq, broker, crashes>>
     \/ Refuse(o)

Write(o) ==
  /\ pc[o] = "write"
  /\ \/ /\ files' = [files EXCEPT ![seq[o]].whole = TRUE] /\ Go(o, "audit")
        /\ UNCHANGED <<lock, prev, seq, broker, crashes>>
     \/ Refuse(o)

(* _emit_audit: the manifest.stored record, of strings and integers.       *)
Stored(o) == <<"manifest.stored", o>>
StoredPayload == {"string", "integer"}

(* Slip: a manifest that could not be audited is only logged *)
EmitAudit_LogOnly(o) ==
  /\ pc[o] = "audit"
  /\ NotAppended(Stored(o), StoredPayload) \/ Appended(Stored(o), StoredPayload)
  /\ Go(o, "released") /\ Leave(o)
  /\ UNCHANGED <<files, broker, crashes>>

EmitAudit(o) ==
  /\ pc[o] = "audit"
  /\ \/ /\ Appended(Stored(o), StoredPayload)
        /\ Go(o, "released") /\ Leave(o)
        /\ UNCHANGED <<files, broker, crashes>>
     \/ NotAppended(Stored(o), StoredPayload) /\ Refuse(o)

SubmitOrder(o) ==
  /\ pc[o] = "released" /\ Go(o, "sent") /\ broker' = broker \cup {o}
  /\ UNCHANGED <<files, lock, prev, seq, crashes>>

(* reaudit: an operator records a manifest that was written and whose      *)
(* audit failed; get refuses a file that does not verify.                  *)
Reaudit(i) ==
  /\ i \in 1..Len(files) /\ verify_document(files[i])
  /\ pc[files[i].order] = "refused"
  /\ Appended(Stored(files[i].order), StoredPayload)
  /\ UNCHANGED storeVars

(* A motor process dies: its threads are gone, the file one of them was    *)
(* writing stays as it is.                                                 *)
MotorCrash(p) ==
  /\ crashes < MaxCrashes /\ crashes' = crashes + 1
  /\ \E o \in Orders : ProcOf[o] = p /\ pc[o] \notin {"idle", "refused", "sent"}
  /\ pc' = [o \in Orders |-> IF ProcOf[o] = p /\ pc[o] # "idle"
                                /\ pc[o] # "sent" THEN "refused" ELSE pc[o]]
  /\ lock' = [lock EXCEPT ![p] = Free] /\ Forget({o \in Orders : ProcOf[o] = p})
  /\ UNCHANGED <<files, broker>>

-----------------------------------------------------------------------------
(* An order is with the broker only when its manifest is whole, in the     *)
(* directory and audited.                                                  *)
SentOnRecord ==
  \A o \in broker :
    /\ Recorded(Stored(o))
    /\ \E i \in 1..Len(files) : files[i].order = o /\ verify_document(files[i])

(* The directory is one hash chain whatever writers race and die: either   *)
(* it verifies, or it ends in one torn file that nothing was built upon.   *)
OneChain ==
  \/ verify_store(files)
  \/ /\ Chained(files, Len(files)) /\ ~verify_document(files[Len(files)])
     /\ verify_store(SubSeq(files, 1, Len(files) - 1))
=============================================================================
