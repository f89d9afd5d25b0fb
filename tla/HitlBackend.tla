----------------------------- MODULE HitlBackend -----------------------------
(***************************************************************************)
(* The HITL backend of zone C (hitl_backend) between the operators, Aegis  *)
(* and the execution motor: an operator decides a held signal, the backend *)
(* audits the attempt, resolves the hold at Aegis and relays a released    *)
(* order to the motor with the operator's override record, whose manifest  *)
(* the module ManifestStore writes.                                        *)
(*                                                                         *)
(* One decision is in progress at a time (DecisionBook.lock), but its      *)
(* calls can fail, lose their answer or take effect late, the hold can     *)
(* expire underneath it and the backend can die, forgetting its book,      *)
(* while operators repeat their requests.  A hold is named by the order it *)
(* would become; other orders reach the motor directly.                    *)
(***************************************************************************)
EXTENDS ManifestStore

CONSTANTS Holds,       \* held orders; the other orders come straight to the motor
          Operators, RoleOf,
          RequestIds,  \* clientRequestId values
          UnscoredDev, \* HITL_UNSCORED_DEV: approvals without a distress score
          MaxCalls     \* bound on the calls of decide

ASSUME HitlAssumption ==
  /\ Holds \subseteq Orders
  /\ RoleOf \in [Operators -> {"approver", "viewer"}]
  /\ UnscoredDev \in BOOLEAN /\ MaxCalls \in Nat

VARIABLES aegis,    \* hold -> "held" | "released" | "dropped"
          cur,      \* the decision in progress, or None
          finals,   \* DecisionBook.finals: hold -> status, "none" if absent
          replies,  \* DecisionBook.replies: cached answers
          fourEyes, \* holds for which required_approvals is two
          answer,   \* the last answer an operator was given
          override, \* order -> operator in the relayed HITLOverrideRecord
          calls

hitlVars == <<aegis, fourEyes, cur, finals, replies, answer, override, calls>>
vars == <<auditVars, storeVars, hitlVars>>

None == [pc |-> "none"]
Nobody == "nobody"
NoAnswer == [code |-> 0]

Init ==
  /\ AuditInit /\ StoreInit
  /\ aegis = [h \in Holds |-> "held"] /\ fourEyes \in SUBSET Holds
  /\ cur = None /\ finals = [h \in Holds |-> "none"]
  /\ replies = {} /\ answer = NoAnswer
  /\ override = [o \in Orders |-> Nobody] /\ calls = 0

-----------------------------------------------------------------------------
(* decide: one answer per call.  acted says whether this call's request    *)
(* changed the hold at Aegis.  Answers below 500 are cached by operator    *)
(* and request id.                                                         *)

Reply(op, id, code, status) ==
  [op |-> op, id |-> id, code |-> code, status |-> status]

Answer(c, code, status) ==
  /\ cur' = None
  /\ answer' = [hold |-> c.hold, code |-> code, status |-> status,
                acted |-> c.acted]
  /\ replies' = IF code < 500
                THEN replies \cup {Reply(c.op, c.id, code, status)} ELSE replies

Call(op, id, h, approve) ==
  [pc |-> "attempt", op |-> op, id |-> id, hold |-> h, approve |-> approve,
   acted |-> FALSE, status |-> "none"]

(* The records of a decision; all of them carry the attempt, and only the  *)
(* one that precedes ResolveHold is told apart by it here.                 *)
Attempt(op, h, approve) == <<"hitl.decision.attempt", op, h, approve>>
Replayed == <<"hitl.decision.replayed">>
Denied == <<"hitl.decision.denied">>
Result == <<"hitl.decision.result">>
AttemptPayload == {"string"}

(* A refusal, with its denial audited if the log takes it.                 *)
Deny(c, code) ==
  Answer(c, code, "refused") /\ NotAppended(Denied, AttemptPayload)

(* The checks of _decide_locked up to the audited attempt, with the code   *)
(* of the first that refuses; expired and cooled are the clock's verdicts   *)
(* on the hold and on the cooling period, available whether Aegis answers  *)
(* GetHold.                                                                *)
Refusal(op, h, approve, available, expired, cooled) ==
  CASE RoleOf[op] # "approver" -> 403
    [] finals[h] # "none" -> 409
    [] ~available -> 503
    [] aegis[h] # "held" -> 404
    [] expired -> 410
    [] approve /\ h \in fourEyes -> 422
    [] approve /\ ~UnscoredDev -> 422
    [] approve /\ ~cooled -> 422
    [] OTHER -> 0

Decide(op, id, h, approve) ==
  /\ cur = None /\ calls < MaxCalls /\ calls' = calls + 1
  /\ ~\E r \in replies : r.op = op /\ r.id = id
  /\ \E available, expired, cooled \in BOOLEAN :
       LET code == Refusal(op, h, approve, available, expired, cooled)
           call == Call(op, id, h, approve) IN
       \/ code # 0 /\ Deny(call, code)
       \/ code = 0 /\ cur' = call /\ UNCHANGED <<auditVars, answer, replies>>
  /\ UNCHANGED <<storeVars, aegis, fourEyes, finals, override>>

(* The cached reply, audited first; without the audit record a 503.        *)
Replay(op, id, h, approve) ==
  /\ cur = None /\ calls < MaxCalls /\ calls' = calls + 1
  /\ \E r \in replies :
       LET call == Call(op, id, h, approve) IN
       /\ r.op = op /\ r.id = id
       /\ \/ /\ Appended(Replayed, AttemptPayload)
             /\ Answer(call, r.code, "replayed")
          \/ /\ NotAppended(Replayed, AttemptPayload)
             /\ Answer(call, 503, "replayed")
  /\ UNCHANGED <<storeVars, aegis, fourEyes, finals, override>>

(* Slip: an attempt that cannot be audited is only logged *)
AuditAttempt_Quietly ==
  /\ cur.pc = "attempt" /\ cur' = [cur EXCEPT !.pc = "resolve"]
  /\ NotAppended(Attempt(cur.op, cur.hold, cur.approve), AttemptPayload)
  /\ UNCHANGED <<storeVars, aegis, fourEyes, finals, answer, replies, override,
                 calls>>

AuditAttempt ==
  /\ cur.pc = "attempt"
  /\ \/ /\ Appended(Attempt(cur.op, cur.hold, cur.approve), AttemptPayload)
        /\ cur' = [cur EXCEPT !.pc = "resolve"] /\ UNCHANGED <<answer, replies>>
     \/ /\ NotAppended(Attempt(cur.op, cur.hold, cur.approve), AttemptPayload)
        /\ Answer(cur, 503, "refused")
  /\ UNCHANGED <<storeVars, aegis, fourEyes, finals, override, calls>>

(* ResolveHold at Aegis: it resolves the hold once; it may refuse, deny    *)
(* the release, or be unreachable; its answer may be lost.                 *)

(* Slip: a lost answer is taken for a refusal *)
ResolveError_Refused(kind) == IF kind = "gone" THEN 410 ELSE 422

ResolveError(kind) ==
  CASE kind = "gone" -> 410 [] kind = "precondition" -> 422 [] OTHER -> 503

Resolved(decision) ==
  IF ~cur.approve THEN "REJECTED"
  ELSE IF decision = "released" THEN "APPROVED" ELSE "RELEASE_DENIED"

Resolve ==
  /\ cur.pc = "resolve"
  /\ LET h == cur.hold IN
     \/ /\ aegis[h] = "held"
        /\ \E decision \in IF cur.approve THEN {"released", "dropped"}
                           ELSE {"dropped"} :
             /\ aegis' = [aegis EXCEPT ![h] = decision]
             /\ \/ /\ cur' = [cur EXCEPT !.pc = "relay", !.acted = TRUE,
                                         !.status = Resolved(decision)]
                   /\ UNCHANGED <<auditVars, answer, replies>>
                \/ Deny([cur EXCEPT !.acted = TRUE], ResolveError("lost"))
     \/ /\ \E kind \in IF aegis[h] = "held" THEN {"precondition", "lost"}
                       ELSE {"gone", "lost"} :
             Deny(cur, ResolveError(kind))
        /\ UNCHANGED aegis
  /\ UNCHANGED <<storeVars, fourEyes, finals, override, calls>>

(* ExecuteWithContext: the motor takes the order to its manifest step, or  *)
(* an earlier check refuses it, or the call never arrives.  The relay is   *)
(* not repeated and does not wait for the broker.                          *)
Relay ==
  /\ cur.pc = "relay" /\ cur' = [cur EXCEPT !.pc = "final"]
  /\ \/ /\ cur.status = "APPROVED" /\ pc[cur.hold] = "idle"
        /\ Go(cur.hold, "release")
        /\ override' = [override EXCEPT ![cur.hold] = cur.op]
     \/ UNCHANGED <<pc, override>>
  /\ UNCHANGED <<auditVars, files, lock, prev, seq, broker, crashes, aegis,
                 fourEyes, finals, replies, answer, calls>>

(* The result record carries the distress score as a float, which the      *)
(* canonical form of the audit log refuses: the write always fails, and    *)
(* _audit_quietly goes on.                                                 *)
ResultPayload == AttemptPayload \cup {"integer", "float"}

Finish ==
  /\ cur.pc = "final"
  /\ finals' = [finals EXCEPT ![cur.hold] = cur.status]
  /\ NotAppended(Result, ResultPayload)
  /\ Answer(cur, 200, cur.status)
  /\ UNCHANGED <<storeVars, aegis, fourEyes, override, calls>>

(* The hold expires at Aegis.                                              *)
Expire(h) ==
  /\ aegis[h] = "held" /\ aegis' = [aegis EXCEPT ![h] = "dropped"]
  /\ UNCHANGED <<auditVars, storeVars, fourEyes, cur, finals, replies, answer, override,
                 calls>>

(* The backend dies: the book and the decision in progress are forgotten.  *)
HitlCrash ==
  /\ crashes < MaxCrashes /\ crashes' = crashes + 1
  /\ cur' = None /\ finals' = [h \in Holds |-> "none"] /\ replies' = {}
  /\ UNCHANGED <<auditVars, files, lock, pc, prev, seq, broker, aegis,
                 fourEyes, answer, override, calls>>

-----------------------------------------------------------------------------
(* The motor's side: an order that needs no human arrives from zone A.     *)
Arrive(o) ==
  /\ o \notin Holds /\ pc[o] = "idle" /\ Go(o, "release")
  /\ UNCHANGED <<auditVars, files, lock, prev, seq, broker, crashes, hitlVars>>

(* A held order failed a soft control, so its manifest needs the override. *)
Consistent(o) == o \in Holds => override[o] # Nobody

Motor(o) ==
  /\ \/ EmitAudit(o)
     \/ /\ \/ Acquire(o) \/ Build(o, Consistent(o)) \/ CheckHead(o) \/ Number(o)
           \/ Create(o) \/ Write(o) \/ SubmitOrder(o)
        /\ UNCHANGED auditVars
  /\ UNCHANGED hitlVars

Operate ==
  /\ \/ \E i \in 1..Len(files) : Reaudit(i)
     \/ (\E p \in Processes : MotorCrash(p)) /\ UNCHANGED auditVars
     \/ AuditOperate /\ UNCHANGED storeVars
  /\ UNCHANGED hitlVars

Next ==
  \/ \E op \in Operators, id \in RequestIds, h \in Holds, approve \in BOOLEAN :
       Decide(op, id, h, approve) \/ Replay(op, id, h, approve)
  \/ AuditAttempt \/ Resolve \/ Relay \/ Finish \/ HitlCrash
  \/ \E h \in Holds : Expire(h)
  \/ \E o \in Orders : Arrive(o) \/ Motor(o)
  \/ Operate

Spec == Init /\ [][Next]_vars

-----------------------------------------------------------------------------
(* A held order is with the broker only because an approver asked for it:  *)
(* the attempt was audited, Aegis released the hold on it, the override in *)
(* the manifest names that operator, and the book does not call the hold   *)
(* rejected; holds that need two approvers never get there.                *)
HumanBehindOrder ==
  \A o \in broker \cap Holds :
    /\ RoleOf[override[o]] = "approver"
    /\ Recorded(Attempt(override[o], o, TRUE))
    /\ aegis[o] = "released" /\ o \notin fourEyes
    /\ finals[o] \in {"none", "APPROVED"}

(* What an operator is told is what happened: a refusal below 500 changed  *)
(* nothing at Aegis, and a 200 is the state of the hold there.  Only a 503 *)
(* leaves the outcome open.                                                *)
AnswersTrue ==
  /\ answer.code \in 400..499 => ~answer.acted
  /\ answer.code = 200 /\ answer.status # "replayed" =>
       /\ answer.acted
       /\ aegis[answer.hold] = "released" <=> answer.status = "APPROVED"
=============================================================================
