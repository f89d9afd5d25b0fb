--------------------------- MODULE ExecutionMotor ---------------------------
(***************************************************************************)
(* The order path of the execution-motor: gRPC workers that check an       *)
(* attested order, claim its ids in the idempotency file, reserve its      *)
(* notional, store its manifest and submit it to the broker once; the      *)
(* broker adapter that settles ambiguous submissions by a lookup; and the  *)
(* reporter that tells Aegis.  Workers interleave with each other, with    *)
(* the broker, with the mirror of Aegis's kill level and with crashes.     *)
(***************************************************************************)
EXTENDS Naturals, Sequences, FiniteSets, FiniteSetsExt

CONSTANTS Ids,                \* signal and order ids
          Workers,            \* threads of the gRPC pool
          Requests,           \* the calls that may arrive
          NoCall,             \* what an idle worker has in hand
          MaxOrderNotional,   \* MotorConfig.max_order_notional
          SessionCap,         \* MotorConfig.max_session_notional
          AllowShort,         \* MotorConfig.allow_short_selling
          ManifestOn, GateOn, \* ComplianceGates: which gates are configured
          MaxCrashes          \* bound on crashes

Keys == {"signal", "order"} \X Ids
(* What a call carries.  qty, limit and stop are signed; quote is the       *)
(* motor's own price (0: none, stale or unusable); venues says whether the  *)
(* router finds an eligible one.                                           *)
Request == [rpc : {"Execute", "ExecuteWithContext"}, signal : Ids, order : Ids,
            wellformed : BOOLEAN, context : {"bound", "missing", "mismatch"},
            promoted : BOOLEAN, attested : BOOLEAN, side : {"BUY", "SELL", "SELL_SHORT"},
            timing : {"ok", "future", "expired"}, direct : BOOLEAN,
            qty : Nat \ {0}, limit : Nat, stop : Nat, quote : Nat, venues : BOOLEAN]

ASSUME MotorAssumption ==
  /\ Requests \subseteq Request /\ IsFiniteSet(Ids)
  /\ MaxOrderNotional \in Nat /\ SessionCap \in Nat
  /\ MaxOrderNotional <= SessionCap     \* MotorConfig refuses anything else
  /\ AllowShort \in BOOLEAN /\ ManifestOn \in BOOLEAN /\ GateOn \in BOOLEAN
  /\ NoCall \notin Requests /\ MaxCrashes \in Nat

VARIABLES
  up, crashes,                 \* the process runs; crashes so far
  seen, sure, loose,           \* claims in memory, durable ones, ones a failed write may have left
  halted, mirror,              \* KillSwitch._halted; Aegis's level is unknown or above NORMAL
  reserved,                    \* NotionalLedger._reserved
  pc, req, first, res,         \* per worker: place, call in hand, signal_new, outcome
  manifests,                   \* ids with a stored manifest
  pending, queue, sent, closed,\* AegisReporter: undelivered, flush's queue, _sent_qty, _closed
  broker, freed,               \* the orders at the broker; ids Aegis was told are over
  posts, worth, fate           \* history: submissions ever; value and outcome in this session

store == <<seen, sure, loose>>
locals == <<req, first>>
reporter == <<pending, queue, sent, closed>>
history == <<posts, worth, fate>>
vars == <<up, crashes, store, halted, mirror, reserved, pc, locals, res, manifests,
          reporter, broker, freed, history>>

Places == {"idle", "signal", "order", "reserve", "release", "gate", "post", "sent",
           "lookup", "settle", "answer"}
Outcomes == {"none", "refused", "duplicate", "dropped", "internal",
             "open", "ended", "rejected", "unknown"}
Reports == [id : Ids, kind : {"open", "ended"}]

Halted == mirror \/ halted               \* KillSwitch.is_halted with latch_external=False
Working(w, i) == req[w] # NoCall /\ req[w].order = i

-----------------------------------------------------------------------------
(* The checks, in the code's order                                         *)

Usable(r) == {p \in {r.limit, r.stop, r.quote} : p > 0}
compute_notional(r) == r.qty * Max(Usable(r))
amount(w) == compute_notional(req[w])

RequiresContext == ManifestOn \/ GateOn

(* handle_decision and handle_request before the motor is called *)
ServiceRefuses(r) ==
  \/ r.rpc = "Execute" /\ RequiresContext
  \/ ~r.wellformed
  \/ r.rpc = "ExecuteWithContext" /\ (r.context # "bound" \/ (GateOn /\ ~r.promoted))

(* The motor's own checks, up to routing *)
PrecheckRefuses(r) ==
  \/ Halted
  \/ r.order # r.signal
  \/ ~r.attested
  \/ r.side = "SELL_SHORT" /\ ~AllowShort
  \/ r.timing # "ok"
  \/ ~r.direct
  \/ Usable(r) = {}
  \/ Usable(r) # {} /\ compute_notional(r) > MaxOrderNotional
  \/ ~r.venues

Refused(r) == ServiceRefuses(r) \/ PrecheckRefuses(r)

(* A refused call leaves nothing behind: which check refused it, and whose  *)
(* id it carried, is only in the reply.                                    *)
Receive(w) ==
  /\ up /\ pc[w] = "idle"
  /\ \/ /\ {r \in Requests : Refused(r)} # {}
        /\ pc' = [pc EXCEPT ![w] = "answer"]
        /\ res' = [res EXCEPT ![w] = "refused"]
        /\ UNCHANGED req
     \/ /\ \E r \in {q \in Requests : ~Refused(q)} : req' = [req EXCEPT ![w] = r]
        /\ pc' = [pc EXCEPT ![w] = "signal"]
        /\ UNCHANGED res
  /\ UNCHANGED <<up, crashes, store, halted, mirror, reserved, first, manifests, reporter,
                 broker, freed, history>>

-----------------------------------------------------------------------------
(* Claims and reservation                                                  *)

(* Slip: a claim is acknowledged from memory *)
claim_MemoryOnly(k, new) ==
  \/ k \in seen /\ ~new /\ UNCHANGED store
  \/ k \notin seen /\ new
       /\ seen' = seen \cup {k} /\ loose' = loose \cup {k} /\ UNCHANGED sure

(* FileIdempotencyStore.claim: True only after the fsync.  A key that was   *)
(* seen is a duplicate; a write that fails keeps the key in memory, may     *)
(* have left it in the file, and raises.                                   *)
claim(k, new) ==
  \/ k \in seen /\ ~new /\ UNCHANGED store
  \/ k \notin seen /\ new
       /\ seen' = seen \cup {k} /\ sure' = sure \cup {k} /\ UNCHANGED loose
ClaimFails(k) ==
  /\ k \notin seen
  /\ seen' = seen \cup {k} /\ loose' = loose \cup {k} /\ UNCHANGED sure

Raise(w) ==
  /\ pc' = [pc EXCEPT ![w] = "settle"]
  /\ res' = [res EXCEPT ![w] = "internal"]

(* The two claims of _claim_and_reserve; the second is made whatever the    *)
(* first one returned.                                                     *)
ClaimSignal(w) ==
  /\ pc[w] = "signal"
  /\ \/ \E new \in BOOLEAN :
          /\ claim(<<"signal", req[w].signal>>, new)
          /\ first' = [first EXCEPT ![w] = new]
          /\ pc' = [pc EXCEPT ![w] = "order"]
          /\ UNCHANGED res
     \/ ClaimFails(<<"signal", req[w].signal>>) /\ Raise(w) /\ UNCHANGED first
  /\ UNCHANGED <<up, crashes, halted, mirror, reserved, req, manifests, reporter,
                 broker, freed, history>>

ClaimOrder(w) ==
  /\ pc[w] = "order"
  /\ \/ \E new \in BOOLEAN :
          /\ claim(<<"order", req[w].order>>, new)
          /\ \/ first[w] /\ new
                  /\ pc' = [pc EXCEPT ![w] = "reserve"]
                  /\ UNCHANGED res
             \/ ~(first[w] /\ new)
                  /\ pc' = [pc EXCEPT ![w] = "answer"]
                  /\ res' = [res EXCEPT ![w] = "duplicate"]
     \/ ClaimFails(<<"order", req[w].order>>) /\ Raise(w)
  /\ UNCHANGED <<up, crashes, halted, mirror, reserved, locals, manifests, reporter,
                 broker, freed, history>>

Give(w, outcome) ==
  /\ pc' = [pc EXCEPT ![w] = "answer"]
  /\ res' = [res EXCEPT ![w] = outcome]

(* NotionalLedger.release: never below zero *)
Less(total, n) == IF total > n THEN total - n ELSE 0

(* NotionalLedger.try_reserve *)
Fits(n) == n > 0 /\ reserved + n <= SessionCap

Reserve(w) ==
  /\ pc[w] = "reserve"
  /\ \/ /\ Fits(amount(w))
        /\ reserved' = reserved + amount(w)
        /\ pc' = [pc EXCEPT ![w] = "release"]
        /\ UNCHANGED res
     \/ ~Fits(amount(w)) /\ Give(w, "dropped") /\ UNCHANGED reserved
  /\ UNCHANGED <<up, crashes, store, halted, mirror, locals, manifests, reporter, broker, freed, history>>

(* release_check: the manifest is stored, or the order is refused and only  *)
(* its reservation returned; a failure may come after the store.           *)
Release(w) ==
  /\ pc[w] = "release"
  /\ \/ /\ manifests' = IF ManifestOn THEN manifests \cup {req[w].signal} ELSE manifests
        /\ pc' = [pc EXCEPT ![w] = "gate"]
        /\ UNCHANGED <<reserved, res>>
     \/ /\ ManifestOn
        /\ manifests' \in {manifests, manifests \cup {req[w].signal}}
        /\ reserved' = Less(reserved, amount(w))
        /\ Give(w, "dropped")
  /\ UNCHANGED <<up, crashes, store, halted, mirror, locals, reporter, broker, freed, history>>

-----------------------------------------------------------------------------
(* Submission                                                              *)

(* The second look at the kill switch, immediately before the broker *)
Gate(w) ==
  /\ pc[w] = "gate"
  /\ \/ Halted /\ reserved' = Less(reserved, amount(w)) /\ Give(w, "dropped")
     \/ ~Halted /\ pc' = [pc EXCEPT ![w] = "post"] /\ UNCHANGED <<reserved, res>>
  /\ UNCHANGED <<up, crashes, store, halted, mirror, locals, manifests, reporter, broker, freed, history>>

(* The POST leaves the process *)
Post(w) ==
  /\ pc[w] = "post"
  /\ LET i == req[w].order IN
       /\ posts' = [posts EXCEPT ![i] = @ + 1]
       /\ worth' = [worth EXCEPT ![i] = amount(w)]
       /\ broker' = IF broker[i] = "none" THEN [broker EXCEPT ![i] = "flying"] ELSE broker
  /\ pc' = [pc EXCEPT ![w] = "sent"]
  /\ UNCHANGED <<up, crashes, store, halted, mirror, reserved, locals, res, manifests, reporter,
                 freed, fate>>

(* The broker processes a request, or the request never reaches it *)
BrokerTakes(i) ==
  /\ broker[i] = "flying"
  /\ broker' \in {[broker EXCEPT ![i] = s] : s \in {"live", "ended", "refused", "lost"}}
  /\ UNCHANGED <<up, crashes, store, halted, mirror, reserved, pc, locals, res, manifests,
                 reporter, freed, history>>

(* It is filled, cancelled by a sweep, or expires *)
BrokerEnds(i) ==
  /\ broker[i] = "live"
  /\ broker' = [broker EXCEPT ![i] = "ended"]
  /\ UNCHANGED <<up, crashes, store, halted, mirror, reserved, pc, locals, res, manifests,
                 reporter, freed, history>>

(* What a readable answer about the order becomes: its status, or UNKNOWN   *)
(* for an unmapped one, or an exception while the report is built.         *)
Truth(i) ==
  IF broker[i] \in {"live", "ended"}
  THEN {IF broker[i] = "live" THEN "open" ELSE "ended", "unknown", "internal"}
  ELSE IF broker[i] = "refused" THEN {"rejected"} ELSE {}

Conclude(w, outcomes) ==
  /\ res' \in {[res EXCEPT ![w] = x] : x \in outcomes}
  /\ pc' = [pc EXCEPT ![w] = "settle"]

(* submit_order: a 2xx or a 4xx is conclusive, everything else (transport   *)
(* error, 408, 429, 5xx, malformed or mismatched 2xx) asks the broker.     *)
SubmitReturns(w) ==
  /\ pc[w] = "sent"
  /\ \/ Conclude(w, Truth(req[w].order))
     \/ pc' = [pc EXCEPT ![w] = "lookup"] /\ UNCHANGED res
  /\ UNCHANGED <<up, crashes, store, halted, mirror, reserved, locals, manifests, reporter,
                 broker, freed, history>>

(* _reconcile: what the lookup finds, or SubmitOutcomeUnknown when it finds *)
(* nothing or fails.                                                       *)
Reconcile(w) ==
  /\ pc[w] = "lookup"
  /\ Conclude(w, Truth(req[w].order) \cup {"unknown"})
  /\ UNCHANGED <<up, crashes, store, halted, mirror, reserved, locals, manifests, reporter,
                 broker, freed, history>>

(* Slip: an unknown outcome is released like a rejection *)
Settle_Releases(w) ==
  /\ pc[w] = "settle"
  /\ reserved' = IF res[w] \in {"rejected", "unknown"} THEN Less(reserved, amount(w)) ELSE reserved
  /\ halted' = (halted \/ res[w] \in {"unknown", "internal"})
  /\ fate' = [fate EXCEPT ![req[w].order] = res[w]]
  /\ pc' = [pc EXCEPT ![w] = "answer"]
  /\ UNCHANGED <<up, crashes, store, mirror, locals, res, manifests, reporter, broker, freed,
                 posts, worth>>

(* _from_broker, _unknown and the last-resort boundary of execute: a        *)
(* rejection frees the reservation, an unknown outcome or an exception      *)
(* keeps it and halts the motor until it is restarted.                     *)
Settle(w) ==
  /\ pc[w] = "settle"
  /\ reserved' = IF res[w] = "rejected" THEN Less(reserved, amount(w)) ELSE reserved
  /\ halted' = (halted \/ res[w] \in {"unknown", "internal"})
  /\ fate' = [fate EXCEPT ![req[w].order] = res[w]]
  /\ pc' = [pc EXCEPT ![w] = "answer"]
  /\ UNCHANGED <<up, crashes, store, mirror, locals, res, manifests, reporter, broker, freed,
                 posts, worth>>

-----------------------------------------------------------------------------
(* Reports to Aegis                                                        *)

(* Slip: every rejection is reported *)
reached_broker_Always(outcome) == outcome # "refused"

reached_broker(outcome) == outcome \in {"open", "ended", "rejected", "unknown"}

(* to_aegis_execution_report: UNKNOWN and ACCEPTED are SENT; a rejection,   *)
(* cancellation, expiry or fill is terminal.                               *)
AegisReport(w) == [id |-> req[w].order,
                   kind |-> IF res[w] \in {"open", "unknown"} THEN "open" ELSE "ended"]

(* A report reaches Aegis, which frees its reservation when it is terminal; *)
(* what Aegis does with the others is in module Exposure.                  *)
Hears(r) == freed' = IF r.kind = "ended" THEN freed \cup {r.id} ELSE freed

Remember(r) ==
  /\ sent' = sent \cup {r.id}
  /\ closed' = IF r.kind = "ended" THEN closed \cup {r.id} ELSE closed

(* A failed delivery (no equity, no acknowledgement after all attempts) may *)
(* still have reached Aegis.                                               *)
Undelivered(r) == (Hears(r) \/ UNCHANGED freed) /\ UNCHANGED <<sent, closed>>

report_execution(r) ==
  \/ r.id \in closed /\ UNCHANGED <<reporter, freed>>
  \/ r.id \notin closed /\ Hears(r) /\ Remember(r) /\ UNCHANGED <<pending, queue>>
  \/ r.id \notin closed /\ Undelivered(r) /\ pending' = Append(pending, r) /\ UNCHANGED queue

(* _execute after the motor returned: report what reached the broker, reply *)
Answer(w) ==
  /\ pc[w] = "answer"
  /\ \/ reached_broker(res[w]) /\ report_execution(AegisReport(w))
     \/ ~reached_broker(res[w]) /\ UNCHANGED <<reporter, freed>>
  /\ pc' = [pc EXCEPT ![w] = "idle"]
  /\ req' = [req EXCEPT ![w] = NoCall]
  /\ first' = [first EXCEPT ![w] = FALSE]
  /\ res' = [res EXCEPT ![w] = "none"]
  /\ UNCHANGED <<up, crashes, store, halted, mirror, reserved, manifests, broker, history>>

(* flush: the queue is taken under the lock and re-sent in order; at the    *)
(* first failure the rest goes back before newer reports.                  *)
FlushTakes ==
  /\ up /\ queue = <<>> /\ pending # <<>>
  /\ queue' = pending /\ pending' = <<>>
  /\ UNCHANGED <<up, crashes, store, halted, mirror, reserved, pc, locals, res, manifests, sent,
                 closed, broker, freed, history>>

FlushSends ==
  /\ queue # <<>>
  /\ \/ /\ Hears(Head(queue)) /\ Remember(Head(queue))
        /\ queue' = Tail(queue) /\ UNCHANGED pending
     \/ /\ Undelivered(Head(queue))
        /\ pending' = queue \o pending /\ queue' = <<>>
  /\ UNCHANGED <<up, crashes, store, halted, mirror, reserved, pc, locals, res, manifests, broker, history>>

-----------------------------------------------------------------------------
(* Kill level, crash and start                                             *)

(* The kill watch mirrors another level (module KillWatch) *)
MirrorMoves ==
  /\ up /\ mirror' = ~mirror
  /\ UNCHANGED <<up, crashes, store, halted, reserved, pc, locals, res, manifests, reporter,
                 broker, freed, history>>

Claiming == {<<pc[w], req[w].order>> : w \in {v \in Workers : pc[v] \in {"signal", "order"}}}

(* All memory is gone; a claim that was being written may be in the file *)
Crash ==
  /\ up /\ up' = FALSE
  /\ crashes < MaxCrashes /\ crashes' = crashes + 1
  /\ seen' = {} /\ halted' = FALSE /\ mirror' = TRUE /\ reserved' = 0
  /\ pc' = [w \in Workers |-> "idle"] /\ req' = [w \in Workers |-> NoCall]
  /\ first' = [w \in Workers |-> FALSE]
  /\ res' = [w \in Workers |-> "none"]
  /\ pending' = <<>> /\ queue' = <<>> /\ sent' = {} /\ closed' = {}
  /\ worth' = [i \in Ids |-> 0] /\ fate' = [i \in Ids |-> "none"]
  /\ \E left \in SUBSET (Claiming \ seen) : loose' = loose \cup left
  /\ UNCHANGED <<sure, manifests, broker, freed, posts>>

(* _load and build_app: every durable claim is remembered.  A torn or       *)
(* missing file refuses the start, which is to stay down.                  *)
Start ==
  /\ ~up /\ up' = TRUE
  /\ \E left \in SUBSET loose : seen' = sure \cup left
  /\ UNCHANGED <<crashes, sure, loose, halted, mirror, reserved, pc, locals, res, manifests,
                 reporter, broker, freed, history>>

Init ==
  /\ up = TRUE /\ crashes = 0
  /\ seen = {} /\ halted = FALSE /\ mirror = TRUE /\ reserved = 0
  /\ pc = [w \in Workers |-> "idle"] /\ req = [w \in Workers |-> NoCall]
  /\ first = [w \in Workers |-> FALSE]
  /\ res = [w \in Workers |-> "none"]
  /\ pending = <<>> /\ queue = <<>> /\ sent = {} /\ closed = {}
  /\ worth = [i \in Ids |-> 0] /\ fate = [i \in Ids |-> "none"]
  /\ sure = {} /\ loose = {} /\ manifests = {}
  /\ broker = [i \in Ids |-> "none"] /\ freed = {}
  /\ posts = [i \in Ids |-> 0]

WorkerStep(w) ==
  \/ Receive(w) \/ ClaimSignal(w) \/ ClaimOrder(w) \/ Reserve(w) \/ Release(w)
  \/ Gate(w) \/ Post(w) \/ SubmitReturns(w) \/ Reconcile(w) \/ Settle(w) \/ Answer(w)

Next ==
  \/ \E w \in Workers : WorkerStep(w)
  \/ \E i \in Ids : BrokerTakes(i) \/ BrokerEnds(i)
  \/ FlushTakes \/ FlushSends \/ MirrorMoves \/ Crash \/ Start

Spec == Init /\ [][Next]_vars

-----------------------------------------------------------------------------
(* Properties                                                              *)

(* No id is submitted to the broker twice: not by two workers that hold the *)
(* same decision, and not after a restart, also when claims failed to be    *)
(* written or were cut off (FileIdempotencyStore, _claim_and_reserve).     *)
SubmittedOnce == \A i \in Ids : posts[i] <= 1

(* An order that left for the broker has both claims on disk and, where the *)
(* gate is configured, its manifest stored, whatever happened since        *)
(* (execute's order of steps).                                             *)
ReleasedOnRecord ==
  \A i \in Ids : posts[i] > 0 =>
    /\ <<"signal", i>> \in sure /\ <<"order", i>> \in sure
    /\ ManifestOn => i \in manifests

(* The reservations of this session cover every order it submitted that is, *)
(* was or may still become an order at the broker (_submit, _unknown and    *)
(* the releases of the ledger), and stay within the session cap: an         *)
(* ambiguous submission is never given back, nothing is given back twice.   *)
LedgerCovers ==
  /\ MapThenSumSet(LAMBDA i : worth[i], {i \in Ids : broker[i] \in {"flying", "live", "ended"}})
       <= reserved
  /\ reserved <= SessionCap

(* Aegis is told that an order ended, which frees its reservation there,    *)
(* only when the order cannot execute any more (reached_broker, the status  *)
(* map and _reconcile).                                                    *)
TerminalIsTrue == \A i \in freed : broker[i] \notin {"flying", "live"}

(* Once a submission ended with an unknown outcome or an exception, no      *)
(* worker of this process passes the last check again (_unknown, the        *)
(* last-resort boundary of execute).                                       *)
UnknownStops ==
  [][\A w \in Workers : pc[w] = "gate" /\ pc'[w] = "post" =>
       \A i \in Ids : fate[i] \notin {"unknown", "internal"}]_vars
=============================================================================
