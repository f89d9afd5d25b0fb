------------------------------ MODULE SharpGate ------------------------------
(***************************************************************************)
(* The SHARP promotion gate of zone C (afe_sharp): a rubric change moves   *)
(* through six signed stages before the execution motor lets its strategy  *)
(* trade.  Several gate processes work on one proposal.  Each command      *)
(* reads the stored history, writes an audit record and then appends the   *)
(* row, with two databases' worth of failures in between: the audit write  *)
(* may be refused or in doubt, the append may lose the race, fail, lose    *)
(* its acknowledgement or be still committing when the gate looks again.   *)
(*                                                                         *)
(* Proposals share nothing but the audit log, so the history of one is     *)
(* modelled.  An identity is a spelling; Casefold and Lower give the form  *)
(* in which Python and the database compare it.  Texts, evidence and times *)
(* are left out: they were validated when the proposal was built.          *)
(***************************************************************************)
EXTENDS Integers, Sequences, FiniteSets

CONSTANTS Pipeline,   \* the stages in order, DRAFT first and PROMOTED last
          Names,      \* spellings of identities
          Casefold,   \* normalise_identity: spelling -> person
          Lower,      \* sharp.identity_key: spelling -> key
          Proposers,  \* the services that submit proposals
          Allowed,    \* stage -> persons who may sign it (StaticRoleAuthorizer)
          Gates,      \* gate processes
          TradeStages, \* states of a proposal under which the motor trades
          MaxOrphans  \* bound on audit records that back no row

Last == Len(Pipeline)
Stages == {Pipeline[i] : i \in 1..Last} \cup {"REJECTED"}
Terminal == {"PROMOTED", "REJECTED"}

NextStage(s) == Pipeline[1 + CHOOSE i \in 1..Last : Pipeline[i] = s]

normalise_identity(n) == Casefold[n]

ASSUME SharpAssumption ==
  /\ Casefold \in [Names -> Names] /\ Lower \in [Names -> Names]
  /\ \A m, n \in Names : Lower[m] = Lower[n] => Casefold[m] = Casefold[n]
  /\ Pipeline \in Seq(STRING) /\ Last > 1
  /\ Pipeline[1] = "DRAFT" /\ Pipeline[Last] = "PROMOTED"
  /\ \A i, j \in 1..Last : Pipeline[i] = Pipeline[j] => i = j
  /\ Proposers \subseteq Names /\ Allowed \in [Stages -> SUBSET Names]
  /\ TradeStages = {"PROMOTED"}
  /\ MaxOrphans \in Nat

VARIABLES audit,    \* committed audit records; a record's seq is its position
          trail,     \* sharp.transitions of the proposal: the stored history
          gate,     \* what each gate process is doing
          landing,  \* the append that is still committing, its caller cut off
          told,     \* the last row whose caller was given the new record
          admitted  \* the motor let an order of the strategy pass

sharpVars == <<audit, trail, gate, landing, told, admitted>>

Event(version, kind, from, to, actor) ==
  [version |-> version, kind |-> kind, from |-> from, to |-> to,
   actor |-> actor]

NoEvent == Event(0, "none", "none", "none", "none")
Idle == [pc |-> "idle", event |-> NoEvent, seq |-> 0, outcome |-> "none"]

SharpInit ==
  /\ audit = <<>> /\ trail = <<>>
  /\ gate = [g \in Gates |-> Idle]
  /\ landing = {} /\ told = {} /\ admitted = FALSE

-----------------------------------------------------------------------------
(* What a history must look like.  Key is the form in which identities are *)
(* compared: the trigger checks with Lower, fold with Casefold.            *)

Signed(h) == {i \in 2..Len(h) : h[i].event.kind = "approved"}

MayFollow(e, h, Key) ==
  IF h = <<>>
  THEN e.kind = "submitted" /\ e.version = 1 /\ e.to = "DRAFT"
  ELSE LET last == h[Len(h)].event IN
       /\ e.version = Len(h) + 1
       /\ last.to \notin Terminal /\ e.from = last.to
       /\ \/ /\ e.kind = "approved" /\ e.to = NextStage(last.to)
             /\ Key[e.actor] # Key[h[1].event.actor]
             /\ \A i \in Signed(h) : Key[e.actor] # Key[h[i].event.actor]
          \/ e.kind = "rejected" /\ e.to = "REJECTED"

OnRecord(row) ==
  /\ row.seq \in 1..Len(audit)
  /\ audit[row.seq].type = row.event.kind /\ audit[row.seq].event = row.event

VerifyAuditRecords(h) ==
  /\ \A i, j \in 1..Len(h) : h[i].seq = h[j].seq => i = j
  /\ \A i \in 1..Len(h) : OnRecord(h[i])

Fold(h) ==
  /\ h # <<>>
  /\ \A i \in 1..Len(h) : MayFollow(h[i].event, SubSeq(h, 1, i - 1), Casefold)
  /\ VerifyAuditRecords(h)

StateOf(h) == h[Len(h)].event.to

Open == Fold(trail) /\ StateOf(trail) \notin Terminal

-----------------------------------------------------------------------------
(* The commands: each reads the history once and prepares its event.       *)

Prepare(g, e) ==
  /\ gate[g].pc = "idle"
  /\ gate' = [gate EXCEPT ![g] = [pc |-> "audit", event |-> e, seq |-> 0,
                                  outcome |-> "none"]]
  /\ UNCHANGED <<audit, trail, landing, told, admitted>>

Submit(g, who) ==
  /\ trail = <<>> /\ who \in Proposers
  /\ Prepare(g, Event(1, "submitted", "none", "DRAFT", who))

(* Slip: identities are compared as they are spelled *)
DistinctSigner_Spelled(who) ==
  who # trail[1].event.actor /\ \A i \in Signed(trail) : who # trail[i].event.actor

DistinctSigner(who) ==
  /\ normalise_identity(who) # normalise_identity(trail[1].event.actor)
  /\ \A i \in Signed(trail) :
       normalise_identity(who) # normalise_identity(trail[i].event.actor)

Authorized(who, stage) == normalise_identity(who) \in Allowed[stage]

Approve(g, who) ==
  /\ Open /\ DistinctSigner(who)
  /\ Authorized(who, NextStage(StateOf(trail)))
  /\ Prepare(g, Event(Len(trail) + 1, "approved", StateOf(trail),
                      NextStage(StateOf(trail)), who))

Reject(g, who) ==
  /\ Open /\ Authorized(who, NextStage(StateOf(trail)))
  /\ Prepare(g, Event(Len(trail) + 1, "rejected", StateOf(trail), "REJECTED", who))

-----------------------------------------------------------------------------
(* _commit: the audit record, then the row, then what became of it.        *)

Record(type, e, of, outcome) ==
  /\ Len(audit) < Len(trail) + MaxOrphans
  /\ audit' = Append(audit, [type |-> type, event |-> e, of |-> of,
                             outcome |-> outcome])

(* The audit write commits; it is refused; or it commits and the gate only *)
(* sees an error, which leaves a record without a row.                     *)
WriteAudit(g) ==
  /\ gate[g].pc = "audit"
  /\ \/ /\ Record(gate[g].event.kind, gate[g].event, 0, "none")
        /\ gate' = [gate EXCEPT ![g].pc = "append", ![g].seq = Len(audit) + 1]
     \/ /\ Record(gate[g].event.kind, gate[g].event, 0, "none")
        /\ gate' = [gate EXCEPT ![g] = Idle]
     \/ UNCHANGED audit /\ gate' = [gate EXCEPT ![g] = Idle]
  /\ UNCHANGED <<trail, landing, told, admitted>>

RowOf(g) == [event |-> gate[g].event, seq |-> gate[g].seq]

(* The INSERT: the proposal's advisory lock is free, the number of rows is *)
(* the expected one and both triggers accept the row.                      *)
Accepts(row) ==
  /\ landing = {}
  /\ Len(trail) = row.event.version - 1
  /\ MayFollow(row.event, trail, Lower)
  /\ OnRecord(row) /\ \A i \in 1..Len(trail) : trail[i].seq # row.seq

Store(g) ==
  /\ gate[g].pc = "append" /\ Accepts(RowOf(g))
  /\ trail' = Append(trail, RowOf(g))
  /\ \/ gate' = [gate EXCEPT ![g] = Idle] /\ told' = {RowOf(g)}
     \/ gate' = [gate EXCEPT ![g].pc = "outcome"] /\ UNCHANGED told
  /\ UNCHANGED <<audit, landing, admitted>>

(* Refused, timed out on the lock, or disconnected before the COMMIT.      *)
StoreFails(g) ==
  /\ gate[g].pc = "append"
  /\ gate' = [gate EXCEPT ![g].pc = "outcome"]
  /\ UNCHANGED <<audit, trail, landing, told, admitted>>

(* Disconnected after the COMMIT was sent: the server holds the lock until *)
(* the transaction lands or is lost.                                       *)
StoreInDoubt(g) ==
  /\ gate[g].pc = "append" /\ Accepts(RowOf(g))
  /\ landing' = {RowOf(g)}
  /\ gate' = [gate EXCEPT ![g].pc = "outcome"]
  /\ UNCHANGED <<audit, trail, told, admitted>>

Land ==
  /\ landing # {}
  /\ \/ \E row \in landing : trail' = Append(trail, row)
     \/ UNCHANGED trail
  /\ landing' = {}
  /\ UNCHANGED <<audit, gate, told, admitted>>

(* Slip: a row of that version is taken for this one *)
Landed_ByVersion(row) ==
  \E i \in 1..Len(trail) : trail[i].event.version = row.event.version

Landed(row) == \E i \in 1..Len(trail) : trail[i] = row

StoreOutcome(g) ==
  /\ gate[g].pc = "outcome"
  /\ \/ /\ Landed(RowOf(g))
        /\ gate' = [gate EXCEPT ![g] = Idle] /\ told' = {RowOf(g)}
     \/ /\ ~Landed(RowOf(g)) /\ UNCHANGED told
        /\ gate' = [gate EXCEPT ![g].pc = "abort", ![g].outcome = "absent"]
     \/ /\ UNCHANGED told
        /\ gate' = [gate EXCEPT ![g].pc = "abort", ![g].outcome = "unverified"]
  /\ UNCHANGED <<audit, trail, landing, admitted>>

RecordAbort(g) ==
  /\ gate[g].pc = "abort"
  /\ \/ Record("transition_aborted", gate[g].event, gate[g].seq,
               gate[g].outcome)
     \/ UNCHANGED audit
  /\ gate' = [gate EXCEPT ![g] = Idle]
  /\ UNCHANGED <<trail, landing, told, admitted>>

(* The gate's process dies at any point and is started again.              *)
Crash(g) ==
  /\ gate[g].pc # "idle"
  /\ gate' = [gate EXCEPT ![g] = Idle]
  /\ UNCHANGED <<audit, trail, landing, told, admitted>>

(* Slip: any proposal that folds is enough *)
CheckStrategy_Exists ==
  /\ Fold(trail) /\ admitted' = TRUE
  /\ UNCHANGED <<audit, trail, gate, landing, told>>

(* SharpStrategyGate.check in the motor, for the strategy mapped to this   *)
(* proposal; a strategy without a mapping is always refused.               *)
CheckStrategy ==
  /\ Fold(trail) /\ StateOf(trail) \in TradeStages
  /\ admitted' = TRUE
  /\ UNCHANGED <<audit, trail, gate, landing, told>>

SharpNext ==
  \/ \E g \in Gates :
       \/ \E who \in Names : Submit(g, who) \/ Approve(g, who) \/ Reject(g, who)
       \/ WriteAudit(g) \/ Store(g) \/ StoreFails(g) \/ StoreInDoubt(g)
       \/ StoreOutcome(g) \/ RecordAbort(g) \/ Crash(g)
  \/ Land
  \/ CheckStrategy

SharpSpec == SharpInit /\ [][SharpNext]_sharpVars

-----------------------------------------------------------------------------
(* Every signature of a stored history is by a person who may sign that    *)
(* stage, who did not propose the change and who signed no other stage,    *)
(* whatever gates raced and whichever spelling they used; the database     *)
(* compares spellings less strictly and checks no authorisation.           *)
PromotionEarned ==
  \A i \in Signed(trail) :
    /\ Casefold[trail[i].event.actor] \in Allowed[trail[i].event.to]
    /\ Casefold[trail[i].event.actor] # Casefold[trail[1].event.actor]
    /\ \A j \in Signed(trail) :
         Casefold[trail[i].event.actor] = Casefold[trail[j].event.actor] => i = j

(* A caller that was given the new record made the transition, for good:   *)
(* racing commands have one winner, and a lost acknowledgement is never    *)
(* answered with somebody else's transition.                               *)
OneWinner == \A t \in told : t.event.version <= Len(trail)
                             /\ trail[t.event.version] = t

(* Once the motor has let the strategy trade, its proposal is, and stays,  *)
(* promoted through every stage, and every stored row still folds.      *)
AdmittedPromoted ==
  admitted => Fold(trail) /\ StateOf(trail) = "PROMOTED" /\ Len(trail) = Last
=============================================================================
