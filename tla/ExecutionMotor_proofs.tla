----------------------- MODULE ExecutionMotor_proofs -----------------------
(***************************************************************************)
(* Single submission, the record behind every submission, truthful          *)
(* terminal reports, the halt after an unknown outcome and the notional     *)
(* ledger, for any number of ids, workers and crashes and any set of calls. *)
(***************************************************************************)
EXTENDS ExecutionMotor, Operators_proofs

-----------------------------------------------------------------------------
(* The inductive invariant of the claims                                   *)

Busy == {"signal", "order", "reserve", "release", "gate", "post", "sent", "lookup", "settle"}
Cleared == {"reserve", "release", "gate", "post"}

\* Worker w won the signal's claim and has not sent the order yet.
Owner(w) == pc[w] \in Cleared \/ (pc[w] = "order" /\ first[w])

Shape ==
  /\ pc \in [Workers -> Places] /\ req \in [Workers -> Requests \cup {NoCall}]
  /\ first \in [Workers -> BOOLEAN] /\ posts \in [Ids -> Nat]

\* A worker past the checks has a call in hand whose two ids agree.
InHand == \A w \in Workers : pc[w] \in Busy => req[w] \in Requests /\ req[w].order = req[w].signal

\* A running process remembers every durable claim; a stopped one does nothing.
Remembers == /\ up => sure \subseteq seen
             /\ \A w \in Workers : pc[w] # "idle" => up

\* An owner's id was never sent, and what it passed is on record.
Owned ==
  \A w \in Workers :
    /\ Owner(w) => posts[req[w].order] = 0 /\ <<"signal", req[w].order>> \in sure
    /\ pc[w] \in Cleared => <<"order", req[w].order>> \in sure
    /\ pc[w] \in {"gate", "post"} /\ ManifestOn => req[w].order \in manifests

\* No two workers own the same id.
Apart == \A v, w \in Workers : Owner(v) /\ Owner(w) /\ req[v].order = req[w].order => v = w

Claims == Shape /\ InHand /\ Remembers /\ Owned /\ Apart /\ SubmittedOnce /\ ReleasedOnRecord

\* The ids of a call are ids.
LEMMA CallIds == \A r \in Requests : r.order \in Ids /\ r.signal \in Ids
  BY MotorAssumption DEF Request

\* Nothing is claimed or sent at the start.
LEMMA InitClaims == Init => Claims
  BY DEF Init, Claims, Shape, InHand, Remembers, Owned, Apart, SubmittedOnce,
         ReleasedOnRecord, Owner, Busy, Cleared, Places

\* A worker that goes to a place where it owns nothing, and touches neither the
\* durable claims nor the broker, keeps the invariant.
LEMMA Retreat ==
  ASSUME Claims, NEW w \in Workers, NEW p \in {"sent", "lookup", "settle", "answer", "idle"},
         pc[w] # "idle", pc' = [pc EXCEPT ![w] = p],
         \/ UNCHANGED req /\ (p \in Busy => pc[w] \in Busy)
         \/ req' = [req EXCEPT ![w] = NoCall] /\ p = "idle",
         first' \in [Workers -> BOOLEAN],
         \A v \in Workers : v # w => first'[v] = first[v],
         UNCHANGED <<up, sure, posts>>, seen \subseteq seen', manifests \subseteq manifests'
  PROVE  Claims'
<1>1. Shape'
  BY DEF Claims, Shape, Places
<1>2. InHand'
  BY DEF Claims, Shape, InHand, Busy
<1>3. Remembers'
  BY DEF Claims, Shape, Remembers
<1>4. \A v \in Workers : Owner(v)' => v # w /\ Owner(v)
  BY DEF Claims, Shape, Owner, Cleared
<1>5. \A v \in Workers : v # w => pc'[v] = pc[v] /\ req'[v] = req[v]
  BY DEF Claims, Shape
<1>6. Owned'
  BY <1>4, <1>5 DEF Claims, Shape, Owned, Cleared
<1>7. Apart'
  BY <1>4, <1>5 DEF Claims, Apart
<1>8. (SubmittedOnce /\ ReleasedOnRecord)'
  BY DEF Claims, SubmittedOnce, ReleasedOnRecord
<1> QED
  BY <1>1, <1>2, <1>3, <1>6, <1>7, <1>8 DEF Claims

\* A step that leaves workers, claims and submissions alone keeps the invariant.
LEMMA Aside ==
  ASSUME Claims, UNCHANGED <<up, pc, req, first, seen, sure, posts, manifests>>
  PROVE  Claims'
  BY DEF Claims, Shape, InHand, Remembers, Owned, Apart, SubmittedOnce, ReleasedOnRecord, Owner

-----------------------------------------------------------------------------
(* The steps of a worker                                                   *)

LEMMA ReceiveClaims == ASSUME Claims, NEW w \in Workers, Receive(w) PROVE Claims'
<1>0. UNCHANGED <<up, seen, sure, posts, manifests, first>>
  BY DEF Receive, store, history
<1>1. PICK p \in {"answer", "signal"} :
        /\ pc' = [pc EXCEPT ![w] = p]
        /\ p = "answer" => UNCHANGED req
        /\ p = "signal" => \E r \in Requests : ~Refused(r) /\ req' = [req EXCEPT ![w] = r]
  BY DEF Receive
<1>2. up
  BY DEF Receive
<1>3. Shape'
  BY <1>0, <1>1 DEF Claims, Shape, Places
<1>4. InHand'
  BY <1>1 DEF Claims, Shape, InHand, Refused, PrecheckRefuses, Busy
<1>5. Remembers'
  BY <1>0, <1>1, <1>2 DEF Claims, Shape, Remembers
<1>6. \A v \in Workers : v # w => pc'[v] = pc[v] /\ req'[v] = req[v]
  BY <1>1 DEF Claims, Shape
<1>7. pc'[w] = p
  BY <1>1 DEF Claims, Shape
<1>8. \A v \in Workers : Owner(v)' => v # w /\ Owner(v)
  BY <1>0, <1>6, <1>7 DEF Owner, Cleared
<1>9. Owned'
  BY <1>0, <1>6, <1>7, <1>8 DEF Claims, Owned, Cleared
<1>10. Apart'
  BY <1>6, <1>8 DEF Claims, Apart
<1>11. (SubmittedOnce /\ ReleasedOnRecord)'
  BY <1>0 DEF Claims, SubmittedOnce, ReleasedOnRecord
<1> QED
  BY <1>3, <1>4, <1>5, <1>9, <1>10, <1>11 DEF Claims

\* The signal's claim: who gets it finds the id unsent and unowned.
LEMMA ClaimSignalClaims == ASSUME Claims, NEW w \in Workers, ClaimSignal(w) PROVE Claims'
<1> DEFINE i == req[w].order
<1>0. /\ pc[w] = "signal" /\ w \in Workers
      /\ UNCHANGED <<up, posts, manifests, req>>
      /\ req[w] \in Requests /\ req[w].signal = i /\ i \in Ids /\ up /\ sure \subseteq seen
  BY CallIds DEF history, ClaimSignal, Claims, InHand, Remembers, Busy
<1>1. CASE ClaimFails(<<"signal", i>>) /\ Raise(w) /\ UNCHANGED first
  BY <1>0, <1>1, Retreat DEF Claims, Shape, ClaimFails, Raise, Busy
<1>2. CASE \E new \in BOOLEAN : /\ claim(<<"signal", i>>, new)
                                /\ first' = [first EXCEPT ![w] = new]
                                /\ pc' = [pc EXCEPT ![w] = "order"]
  <2>1. PICK new \in BOOLEAN : /\ claim(<<"signal", i>>, new)
                               /\ first' = [first EXCEPT ![w] = new]
                               /\ pc' = [pc EXCEPT ![w] = "order"]
    BY <1>2
  <2>2. Shape'
    BY <1>0, <2>1 DEF Claims, Shape, Places
  <2>3. InHand'
    BY <1>0, <2>1 DEF Claims, Shape, InHand, Busy
  <2>4. sure \subseteq sure' /\ seen \subseteq seen' /\ sure' \subseteq seen'
    BY <1>0, <2>1 DEF claim, store
  <2>5. Remembers'
    BY <1>0, <2>1, <2>4 DEF Claims, Shape, Remembers
  <2>6. \A v \in Workers : v # w => (Owner(v)' <=> Owner(v)) /\ pc'[v] = pc[v]
    BY <2>1 DEF Claims, Shape, Owner
  <2>7. pc'[w] = "order" /\ first'[w] = new
    BY <2>1 DEF Claims, Shape
  <2>8. new => <<"signal", i>> \notin sure /\ <<"signal", i>> \in sure'
    BY <1>0, <2>1 DEF claim
  <2>9. ASSUME new PROVE posts[i] = 0
    <3>1. <<"signal", i>> \notin sure
      BY <2>8, <2>9
    <3>2. i \in Ids /\ posts[i] \in Nat /\ ~(posts[i] > 0)
      BY <1>0, <3>1 DEF Claims, Shape, ReleasedOnRecord
    <3> QED
      BY <3>2
  <2>10. Owner(w)' => new
    BY <2>7 DEF Owner, Cleared
  <2>11. Owned'
    BY <1>0, <2>4, <2>6, <2>7, <2>8, <2>9, <2>10 DEF Claims, Owned, Cleared
  <2>12. \A v \in Workers : v # w /\ Owner(v) /\ new => req[v].order # i
    BY <2>8 DEF Claims, Owned
  <2>13. Apart'
    BY <1>0, <2>6, <2>10, <2>12 DEF Claims, Apart
  <2>14. (SubmittedOnce /\ ReleasedOnRecord)'
    BY <1>0, <2>4 DEF Claims, SubmittedOnce, ReleasedOnRecord
  <2> QED
    BY <2>2, <2>3, <2>5, <2>11, <2>13, <2>14 DEF Claims
<1> QED
  BY <1>0, <1>1, <1>2 DEF ClaimSignal

\* The order's claim: only the owner of the signal's claim goes on.
LEMMA ClaimOrderClaims == ASSUME Claims, NEW w \in Workers, ClaimOrder(w) PROVE Claims'
<1> DEFINE i == req[w].order
<1>0. /\ pc[w] = "order"
      /\ UNCHANGED <<up, posts, manifests, req, first>>
      /\ req[w] \in Requests /\ i \in Ids /\ up /\ sure \subseteq seen
  BY CallIds DEF history, ClaimOrder, locals, Claims, InHand, Remembers, Busy
<1>1. CASE ClaimFails(<<"order", i>>) /\ Raise(w)
  BY <1>0, <1>1, Retreat DEF Claims, Shape, ClaimFails, Raise, Busy
<1>2. CASE \E new \in BOOLEAN : /\ claim(<<"order", i>>, new)
                                /\ first[w] /\ new => pc' = [pc EXCEPT ![w] = "reserve"]
                                /\ ~(first[w] /\ new) => pc' = [pc EXCEPT ![w] = "answer"]
  <2>1. PICK new \in BOOLEAN : /\ claim(<<"order", i>>, new)
                               /\ first[w] /\ new => pc' = [pc EXCEPT ![w] = "reserve"]
                               /\ ~(first[w] /\ new) => pc' = [pc EXCEPT ![w] = "answer"]
    BY <1>2
  <2>2. PICK p \in {"reserve", "answer"} : /\ pc' = [pc EXCEPT ![w] = p]
                                           /\ p = "reserve" => first[w] /\ new
    BY <2>1
  <2>3. Shape'
    BY <1>0, <2>2 DEF Claims, Shape, Places
  <2>4. InHand'
    BY <1>0, <2>2 DEF Claims, Shape, InHand, Busy
  <2>5. sure \subseteq sure' /\ sure' \subseteq seen' /\ (new => <<"order", i>> \in sure')
    BY <1>0, <2>1 DEF claim, store
  <2>6. Remembers'
    BY <1>0, <2>2, <2>5 DEF Claims, Shape, Remembers
  <2>7. \A v \in Workers : v # w => (Owner(v)' <=> Owner(v)) /\ pc'[v] = pc[v]
    BY <1>0, <2>2 DEF Claims, Shape, Owner
  <2>8. pc'[w] = p /\ (p = "reserve" => Owner(w))
    BY <1>0, <2>2 DEF Claims, Shape, Owner
  <2>9. \A v \in Workers : Owner(v)' => Owner(v)
    BY <2>7, <2>8 DEF Owner, Cleared
  <2>10. Owned'
    BY <1>0, <2>2, <2>5, <2>7, <2>8, <2>9 DEF Claims, Owned, Cleared
  <2>11. Apart'
    BY <1>0, <2>9 DEF Claims, Apart
  <2>12. (SubmittedOnce /\ ReleasedOnRecord)'
    BY <1>0, <2>5 DEF Claims, SubmittedOnce, ReleasedOnRecord
  <2> QED
    BY <2>3, <2>4, <2>6, <2>10, <2>11, <2>12 DEF Claims
<1> QED
  BY <1>0, <1>1, <1>2 DEF ClaimOrder

\* An owner that goes on to its next check keeps what it owns.
LEMMA Advance ==
  ASSUME Claims, NEW w \in Workers, NEW p \in Cleared, pc[w] \in Cleared,
         pc' = [pc EXCEPT ![w] = p],
         p \in {"gate", "post"} /\ ManifestOn => req[w].order \in manifests',
         UNCHANGED <<up, req, first, seen, sure, posts>>, manifests \subseteq manifests'
  PROVE  Claims'
<1>1. Shape' /\ InHand' /\ Remembers'
  BY DEF Claims, Shape, Places, InHand, Remembers, Busy, Cleared
<1>2. \A v \in Workers : v # w => pc'[v] = pc[v]
  BY DEF Claims, Shape
<1>3. pc'[w] = p /\ Owner(w)
  BY DEF Claims, Shape, Owner
<1>4. \A v \in Workers : Owner(v)' => Owner(v)
  BY <1>2, <1>3 DEF Owner
<1>5. Owned'
  BY <1>2, <1>3, <1>4 DEF Claims, Owned
<1>6. Apart'
  BY <1>4 DEF Claims, Apart
<1>7. (SubmittedOnce /\ ReleasedOnRecord)'
  BY DEF Claims, SubmittedOnce, ReleasedOnRecord
<1> QED
  BY <1>1, <1>5, <1>6, <1>7 DEF Claims

\* The order leaves: its owner gives it up, and it was never sent before.
LEMMA PostClaims == ASSUME Claims, NEW w \in Workers, Post(w) PROVE Claims'
<1> DEFINE i == req[w].order
<1>0. /\ pc[w] = "post" /\ pc' = [pc EXCEPT ![w] = "sent"]
      /\ posts' = [posts EXCEPT ![i] = posts[i] + 1]
      /\ UNCHANGED <<up, req, first, seen, sure, manifests>>
      /\ req[w] \in Requests /\ i \in Ids
  BY CallIds DEF Post, store, locals, Claims, InHand, Busy
<1>1. Owner(w) /\ posts[i] = 0
  BY <1>0 DEF Claims, Owned, Owner, Cleared
<1>2. Shape' /\ InHand' /\ Remembers'
  BY <1>0, <1>1 DEF Claims, Shape, Places, InHand, Remembers, Busy
<1>3. \A v \in Workers : Owner(v)' => v # w /\ Owner(v) /\ req[v].order # i
  BY <1>0, <1>1 DEF Claims, Shape, Owner, Cleared, Apart
<1>4. \A v \in Workers : v # w => pc'[v] = pc[v]
  BY <1>0 DEF Claims, Shape
<1>5. \A v \in Workers : Owner(v)' => posts'[req[v].order] = posts[req[v].order]
  BY <1>0, <1>3 DEF Claims, Shape
<1>6. pc'[w] = "sent"
  BY <1>0 DEF Claims, Shape
<1>7. Owned'
  BY <1>0, <1>3, <1>4, <1>5, <1>6 DEF Claims, Owned, Cleared
<1>8. Apart'
  BY <1>0, <1>3 DEF Claims, Apart
<1>9. SubmittedOnce'
  BY <1>0, <1>1 DEF Claims, Shape, SubmittedOnce
<1>10. ReleasedOnRecord'
  BY <1>0, <1>1 DEF Claims, Shape, ReleasedOnRecord, Owned, Cleared
<1> QED
  BY <1>2, <1>7, <1>8, <1>9, <1>10 DEF Claims

\* Every step of a worker.
LEMMA WorkerClaims == ASSUME Claims, NEW w \in Workers, WorkerStep(w) PROVE Claims'
<1>1. CASE Receive(w)
  BY <1>1, ReceiveClaims
<1>2. CASE ClaimSignal(w)
  BY <1>2, ClaimSignalClaims
<1>3. CASE ClaimOrder(w)
  BY <1>3, ClaimOrderClaims
<1>4. CASE Reserve(w)
  <2>1. CASE Give(w, "dropped")
    BY <1>4, <2>1, Retreat DEF Reserve, Give, store, locals, history, Claims, Shape, Busy
  <2>2. CASE pc' = [pc EXCEPT ![w] = "release"]
    BY <1>4, <2>2, Advance DEF Reserve, store, locals, history, Cleared
  <2> QED
    BY <1>4, <2>1, <2>2 DEF Reserve
<1>5. CASE Release(w)
  <2>1. CASE Give(w, "dropped")
    BY <1>5, <2>1, Retreat DEF Release, Give, store, locals, history, Claims, Shape, Busy
  <2>2. CASE /\ manifests' = IF ManifestOn THEN manifests \cup {req[w].signal} ELSE manifests
             /\ pc' = [pc EXCEPT ![w] = "gate"]
    <3>1. req[w].signal = req[w].order
      BY <1>5 DEF Release, Claims, InHand, Busy
    <3> QED
      BY <1>5, <2>2, <3>1, Advance DEF Release, store, locals, history, Cleared
  <2> QED
    BY <1>5, <2>1, <2>2 DEF Release
<1>6. CASE Gate(w)
  <2>1. CASE Give(w, "dropped")
    BY <1>6, <2>1, Retreat DEF Gate, Give, store, locals, history, Claims, Shape, Busy
  <2>2. CASE pc' = [pc EXCEPT ![w] = "post"]
    <3>1. ManifestOn => req[w].order \in manifests
      BY <1>6 DEF Gate, Claims, Owned
    <3> QED
      BY <1>6, <2>2, <3>1, Advance DEF Gate, store, locals, history, Cleared
  <2> QED
    BY <1>6, <2>1, <2>2 DEF Gate
<1>7. CASE Post(w)
  BY <1>7, PostClaims
<1>8. CASE SubmitReturns(w)
  BY <1>8, Retreat DEF SubmitReturns, Conclude, store, locals, history, Claims, Shape, Busy
<1>9. CASE Reconcile(w)
  BY <1>9, Retreat DEF Reconcile, Conclude, store, locals, history, Claims, Shape, Busy
<1>10. CASE Settle(w)
  BY <1>10, Retreat DEF Settle, store, locals, Claims, Shape, Busy
<1>11. CASE Answer(w)
  BY <1>11, Retreat DEF Answer, store, history, Claims, Shape
<1> QED
  BY <1>1, <1>2, <1>3, <1>4, <1>5, <1>6, <1>7, <1>8, <1>9, <1>10, <1>11 DEF WorkerStep

\* Every step: a crash forgets the owners, a start remembers the durable claims.
LEMMA StepClaims == Claims /\ [Next]_vars => Claims'
<1> SUFFICES ASSUME Claims, [Next]_vars PROVE Claims'
  OBVIOUS
<1>1. CASE \E w \in Workers : WorkerStep(w)
  BY <1>1, WorkerClaims
<1>2. CASE \E i \in Ids : BrokerTakes(i) \/ BrokerEnds(i)
  BY <1>2, Aside DEF BrokerTakes, BrokerEnds, store, locals, history
<1>3. CASE FlushTakes \/ FlushSends \/ MirrorMoves
  BY <1>3, Aside DEF FlushTakes, FlushSends, MirrorMoves, store, locals, history
<1>4. CASE Crash
  BY <1>4 DEF Crash, Claims, Shape, Places, InHand, Remembers, Owned, Apart,
              SubmittedOnce, ReleasedOnRecord, Owner, Busy, Cleared
<1>5. CASE Start
  <2>1. \A w \in Workers : pc[w] = "idle"
    BY <1>5 DEF Start, Claims, Remembers
  <2>2. sure \subseteq seen' /\ UNCHANGED <<pc, req, first, sure, posts, manifests>>
    BY <1>5 DEF Start, locals, history
  <2> QED
    BY <2>1, <2>2 DEF Claims, Shape, InHand, Remembers, Owned, Apart,
                      SubmittedOnce, ReleasedOnRecord, Owner, Busy, Cleared
<1>6. CASE UNCHANGED vars
  BY <1>6, Aside DEF vars, store, locals, history
<1> QED
  BY <1>1, <1>2, <1>3, <1>4, <1>5, <1>6 DEF Next

\* The inductive invariant holds throughout.
THEOREM ClaimsInvariant == Spec => []Claims
  BY InitClaims, StepClaims, PTL DEF Spec

\* No id is submitted twice, over workers and restarts.
THEOREM Once == Spec => []SubmittedOnce
<1>1. Claims => SubmittedOnce
  BY DEF Claims
<1> QED
  BY <1>1, ClaimsInvariant, PTL

\* What was submitted has its claims and its manifest on record.
THEOREM OnRecord == Spec => []ReleasedOnRecord
<1>1. Claims => ReleasedOnRecord
  BY DEF Claims
<1> QED
  BY <1>1, ClaimsInvariant, PTL

-----------------------------------------------------------------------------
(* What Aegis is told                                                      *)

Over == {"ended", "refused"}
Terminal == {"ended", "rejected"}
Heard == {"open", "ended", "rejected", "unknown"}

TellTypes ==
  /\ pc \in [Workers -> Places] /\ res \in [Workers -> Outcomes]
  /\ req \in [Workers -> Requests \cup {NoCall}]
  /\ pending \in Seq(Reports) /\ queue \in Seq(Reports) /\ freed \subseteq Ids
  /\ broker \in [Ids -> {"none", "flying", "live", "ended", "refused", "lost"}]

\* A worker that heard about its order still has it in hand, and one that
\* concluded "ended" or "rejected" has an order that is over.
Concluded ==
  \A w \in Workers : res[w] \in Heard =>
    req[w] \in Requests /\ (res[w] \in Terminal => broker[req[w].order] \in Over)

\* Only a worker that is done with the broker has such an outcome.
Early == \A w \in Workers : res[w] \in Heard => pc[w] \in {"settle", "answer"}

\* Every terminal report in a list is about an order that is over.
Truthful(reports) ==
  \A n \in DOMAIN reports : reports[n].kind = "ended" => broker[reports[n].id] \in Over

Telling == /\ TellTypes /\ Concluded /\ Early /\ Truthful(pending) /\ Truthful(queue)
           /\ \A i \in freed : broker[i] \in Over

\* The entries of a list of reports are reports.
LEMMA Entries == ASSUME NEW s \in Seq(Reports), NEW n \in DOMAIN s
                 PROVE  s[n].id \in Ids /\ s[n].kind \in {"open", "ended"}
<1>1. DOMAIN s = 1..Len(s) /\ Len(s) \in Nat
  OBVIOUS
<1>2. s[n] \in Reports
  BY <1>1
<1> QED
  BY <1>2 DEF Reports

\* Nobody was told anything at the start.
LEMMA InitTelling == Init => Telling
  BY DEF Init, Telling, TellTypes, Concluded, Early, Heard, Truthful, Outcomes, Places

\* An order that is over stays over, so a step of the broker or a submission
\* that leaves outcomes and reports alone keeps the invariant.
LEMMA StaysOver ==
  ASSUME Telling, UNCHANGED <<req, res, pending, queue, freed>>,
         pc' \in [Workers -> Places], Early',
         broker' \in [Ids -> {"none", "flying", "live", "ended", "refused", "lost"}],
         \A i \in Ids : broker[i] \in Over => broker'[i] \in Over
  PROVE  Telling'
<1>1. TellTypes'
  BY DEF Telling, TellTypes
<1>2. Concluded'
  BY CallIds DEF Telling, Concluded
<1>3. \A n \in DOMAIN pending : pending[n].id \in Ids
  BY Entries DEF Telling, TellTypes
<1>4. \A n \in DOMAIN queue : queue[n].id \in Ids
  BY Entries DEF Telling, TellTypes
<1>5. Truthful(pending)' /\ Truthful(queue)'
  BY <1>3, <1>4 DEF Telling, Truthful
<1>6. \A i \in freed' : broker'[i] \in Over
  BY DEF Telling, TellTypes
<1> QED
  BY <1>1, <1>2, <1>5, <1>6 DEF Telling

\* A worker that moves on with an outcome that is not terminal, or that is
\* confirmed by the broker, keeps the invariant.
LEMMA Concludes ==
  ASSUME Telling, NEW w \in Workers, NEW x \in Outcomes, NEW p \in Places,
         NEW r \in Requests \cup {NoCall}, pc' = [pc EXCEPT ![w] = p],
         res' = [res EXCEPT ![w] = x], req' = [req EXCEPT ![w] = r],
         x \in Heard => r \in Requests /\ p \in {"settle", "answer"},
         x \in Terminal => x \in Heard /\ broker[r.order] \in Over,
         UNCHANGED <<pending, queue, freed, broker>>
  PROVE  Telling'
  BY DEF Telling, TellTypes, Concluded, Early, Truthful

\* A report about an order that is over, or not a terminal one, may be
\* delivered, kept or delivered and kept.
LEMMA Reporting ==
  ASSUME Telling, NEW r \in Reports, r.kind = "ended" => broker[r.id] \in Over,
         NEW p \in Seq(Reports), NEW q \in Seq(Reports), Truthful(p), Truthful(q),
         Hears(r) \/ UNCHANGED freed, pending' = p, queue' = q,
         UNCHANGED broker, res' \in [Workers -> Outcomes],
         req' \in [Workers -> Requests \cup {NoCall}], pc' \in [Workers -> Places],
         Concluded', Early'
  PROVE  Telling'
<1>1. TellTypes'
  BY DEF Telling, TellTypes, Hears, Reports
<1>2. Truthful(pending)' /\ Truthful(queue)'
  BY DEF Truthful
<1>3. \A i \in freed' : broker'[i] \in Over
  BY DEF Telling, Hears
<1> QED
  BY <1>1, <1>2, <1>3 DEF Telling

\* Lists are put together from truthful ones.
LEMMA Lists ==
  ASSUME NEW s \in Seq(Reports), NEW t \in Seq(Reports), Truthful(s), Truthful(t)
  PROVE  /\ s \o t \in Seq(Reports) /\ Truthful(s \o t)
         /\ s # <<>> => /\ Head(s) \in Reports /\ Tail(s) \in Seq(Reports)
                        /\ Truthful(Tail(s))
                        /\ Head(s).kind = "ended" => broker[Head(s).id] \in Over
<1>1. s \o t \in Seq(Reports)
  OBVIOUS
<1>2. \A n \in DOMAIN (s \o t) : \/ n \in DOMAIN s /\ (s \o t)[n] = s[n]
                                 \/ n - Len(s) \in DOMAIN t /\ (s \o t)[n] = t[n - Len(s)]
  OBVIOUS
<1>3. Truthful(s \o t)
  BY <1>2 DEF Truthful
<1>4. ASSUME s # <<>> PROVE Head(s) \in Reports /\ Tail(s) \in Seq(Reports)
  BY <1>4
<1>5. ASSUME s # <<>> PROVE Head(s) = s[1] /\ 1 \in DOMAIN s
  BY <1>5
<1>6. ASSUME s # <<>> PROVE \A n \in DOMAIN Tail(s) : n + 1 \in DOMAIN s /\ Tail(s)[n] = s[n + 1]
  BY <1>6
<1> QED
  BY <1>1, <1>3, <1>4, <1>5, <1>6 DEF Truthful

\* A worker that moves on before it heard from the broker.
LEMMA Proceeds ==
  ASSUME Telling, NEW w \in Workers, NEW p \in Places, pc[w] \notin {"settle", "answer"},
         pc' = [pc EXCEPT ![w] = p],
         \/ UNCHANGED res
         \/ \E x \in Outcomes \ Heard : res' = [res EXCEPT ![w] = x],
         \/ UNCHANGED req
         \/ \E r \in Requests : req' = [req EXCEPT ![w] = r],
         UNCHANGED <<pending, queue, freed, broker>>
  PROVE  Telling'
<1>1. PICK x \in Outcomes \ Heard : res' = [res EXCEPT ![w] = x]
  <2>1. res[w] \in Outcomes \ Heard
    BY DEF Telling, TellTypes, Early
  <2>2. res = [res EXCEPT ![w] = res[w]]
    BY DEF Telling, TellTypes
  <2> QED
    BY <2>1, <2>2
<1>2. PICK r \in Requests \cup {NoCall} : req' = [req EXCEPT ![w] = r]
  <2>1. req[w] \in Requests \cup {NoCall} /\ req = [req EXCEPT ![w] = req[w]]
    BY DEF Telling, TellTypes
  <2> QED
    BY <2>1
<1> QED
  BY <1>1, <1>2, Concludes DEF Heard, Terminal

\* The broker's answer: a terminal outcome is the broker's own word.
LEMMA Answers ==
  ASSUME Telling, NEW w \in Workers, req[w] \in Requests,
         NEW xs, xs \subseteq Truth(req[w].order) \cup {"unknown"}, Conclude(w, xs),
         UNCHANGED <<req, pending, queue, freed, broker>>
  PROVE  Telling'
<1>1. PICK x \in xs : res' = [res EXCEPT ![w] = x]
  BY DEF Conclude
<1>2. x \in Outcomes /\ (x \in Terminal => x \in Heard /\ broker[req[w].order] \in Over)
  BY <1>1 DEF Truth, Outcomes, Over, Terminal, Heard
<1>3. req' = [req EXCEPT ![w] = req[w]]
  BY DEF Telling, TellTypes
<1>4. "settle" \in Places /\ pc' = [pc EXCEPT ![w] = "settle"]
  BY DEF Conclude, Places
<1> QED
  BY <1>1, <1>2, <1>3, <1>4, Concludes

\* A call that ends reports what it concluded.
LEMMA AnswerTelling == ASSUME Telling, NEW w \in Workers, Answer(w) PROVE Telling'
<1>1. /\ UNCHANGED broker /\ pc' = [pc EXCEPT ![w] = "idle"]
      /\ req' = [req EXCEPT ![w] = NoCall] /\ res' = [res EXCEPT ![w] = "none"]
  BY DEF Answer
<1>2. /\ res' \in [Workers -> Outcomes] /\ pc' \in [Workers -> Places]
      /\ req' \in [Workers -> Requests \cup {NoCall}]
  BY <1>1 DEF Telling, TellTypes, Outcomes, Places
<1>3. Concluded' /\ Early'
  BY <1>1 DEF Telling, TellTypes, Concluded, Early, Heard
<1>4. CASE UNCHANGED <<pending, queue, freed>>
  BY <1>1, <1>4, Concludes DEF Outcomes, Places, Heard, Terminal
<1>5. CASE reached_broker(res[w]) /\ report_execution(AegisReport(w))
  <2> DEFINE r == AegisReport(w)
  <2>0. r = [id |-> req[w].order,
             kind |-> IF res[w] \in {"open", "unknown"} THEN "open" ELSE "ended"]
    BY DEF AegisReport
  <2>1. req[w] \in Requests
    BY <1>5 DEF Answer, Telling, Concluded, reached_broker, Heard, Terminal
  <2>2. r \in Reports
    BY <2>0, <2>1, CallIds DEF Reports
  <2>3. r.kind = "ended" => broker[r.id] \in Over
    BY <1>5, <2>0 DEF Telling, Concluded, reached_broker, Heard, Terminal
  <2>4. /\ pending \in Seq(Reports) /\ queue \in Seq(Reports)
        /\ Truthful(pending) /\ Truthful(queue)
    BY DEF Telling, TellTypes
  <2> HIDE DEF r
  <2>5. <<r>> \in Seq(Reports) /\ Truthful(<<r>>)
    BY <2>2, <2>3 DEF Truthful
  <2>6. pending \o <<r>> \in Seq(Reports) /\ Truthful(pending \o <<r>>)
    BY <2>4, <2>5, Lists
  <2>7. Append(pending, r) = pending \o <<r>>
    BY <2>2, <2>4
  <2>8. /\ queue' = queue
        /\ pending' = pending \/ pending' = Append(pending, r)
        /\ Hears(r) \/ UNCHANGED freed
    BY <1>5 DEF r, report_execution, Undelivered, reporter
  <2>9. PICK p \in Seq(Reports) : Truthful(p) /\ pending' = p
    BY <2>4, <2>6, <2>7, <2>8
  <2> QED
    BY <1>1, <1>2, <1>3, <2>2, <2>3, <2>4, <2>8, <2>9, Reporting
<1> QED
  BY <1>4, <1>5 DEF Answer, reporter

\* flush delivers or puts back what it took.
LEMMA FlushTelling == ASSUME Telling, FlushTakes \/ FlushSends PROVE Telling'
<1>1. UNCHANGED <<broker, pc, req, res>>
  BY DEF FlushTakes, FlushSends, locals
<1>2. /\ pending \in Seq(Reports) /\ queue \in Seq(Reports)
      /\ Truthful(pending) /\ Truthful(queue)
  BY DEF Telling, TellTypes
<1>3. /\ res' \in [Workers -> Outcomes] /\ pc' \in [Workers -> Places]
      /\ req' \in [Workers -> Requests \cup {NoCall}]
  BY <1>1 DEF Telling, TellTypes
<1>4. Concluded' /\ Early'
  BY <1>1 DEF Telling, Concluded, Early
<1>5. <<>> \in Seq(Reports) /\ Truthful(<<>>)
  BY DEF Truthful
<1>6. CASE FlushTakes
  <2>1. pending' = <<>> /\ queue' = pending /\ UNCHANGED freed
    BY <1>6 DEF FlushTakes
  <2> QED
    BY <1>1, <1>2, <1>3, <1>4, <1>5, <2>1 DEF Telling, TellTypes, Truthful
<1>7. CASE FlushSends
  <2> DEFINE r == Head(queue)
  <2>1. queue # <<>>
    BY <1>7 DEF FlushSends
  <2>2. /\ r \in Reports /\ Tail(queue) \in Seq(Reports) /\ Truthful(Tail(queue))
        /\ r.kind = "ended" => broker[r.id] \in Over
        /\ queue \o pending \in Seq(Reports) /\ Truthful(queue \o pending)
    BY <1>2, <2>1, Lists
  <2> HIDE DEF r
  <2>3. CASE Hears(r) /\ queue' = Tail(queue) /\ UNCHANGED pending
    BY <1>1, <1>2, <1>3, <1>4, <2>2, <2>3, Reporting
  <2>4. CASE (Hears(r) \/ UNCHANGED freed) /\ pending' = queue \o pending /\ queue' = <<>>
    BY <1>1, <1>3, <1>4, <1>5, <2>2, <2>4, Reporting
  <2> QED
    BY <1>7, <2>3, <2>4 DEF FlushSends, Undelivered, r
<1> QED
  BY <1>6, <1>7

\* Every step of a worker.
LEMMA WorkerTelling ==
  ASSUME Claims, Telling, NEW w \in Workers, WorkerStep(w) PROVE Telling'
<1>1. CASE Receive(w)
  BY <1>1, Proceeds DEF Receive, reporter, Places, Outcomes, Heard
<1>2. CASE ClaimSignal(w)
  BY <1>2, Proceeds DEF ClaimSignal, Raise, reporter, Places, Outcomes, Heard
<1>3. CASE ClaimOrder(w)
  BY <1>3, Proceeds DEF ClaimOrder, Raise, reporter, locals, Places, Outcomes, Heard
<1>4. CASE Reserve(w)
  BY <1>4, Proceeds DEF Reserve, Give, reporter, locals, Places, Outcomes, Heard
<1>5. CASE Release(w)
  BY <1>5, Proceeds DEF Release, Give, reporter, locals, Places, Outcomes, Heard
<1>6. CASE Gate(w)
  BY <1>6, Proceeds DEF Gate, Give, reporter, locals, Places, Outcomes, Heard
<1>7. CASE Post(w)
  <2>1. /\ pc[w] = "post" /\ pc' = [pc EXCEPT ![w] = "sent"]
        /\ UNCHANGED <<req, res, pending, queue, freed>>
    BY <1>7 DEF Post, locals, reporter
  <2>2. pc' \in [Workers -> Places] /\ Early'
    BY <2>1 DEF Telling, TellTypes, Early, Places
  <2>3. broker' \in [Ids -> {"none", "flying", "live", "ended", "refused", "lost"}]
    BY <1>7 DEF Post, Telling, TellTypes
  <2>4. \A i \in Ids : broker[i] \in Over => broker'[i] \in Over
    BY <1>7 DEF Post, Telling, TellTypes, Over
  <2> QED
    BY <2>1, <2>2, <2>3, <2>4, StaysOver
<1>8. CASE SubmitReturns(w)
  <2>1. pc[w] = "sent" /\ UNCHANGED <<req, pending, queue, freed, broker>>
    BY <1>8 DEF SubmitReturns, locals, reporter
  <2>2. req[w] \in Requests
    BY <2>1 DEF Claims, InHand, Busy
  <2>3. CASE Conclude(w, Truth(req[w].order))
    BY <2>1, <2>2, <2>3, Answers
  <2>4. CASE pc' = [pc EXCEPT ![w] = "lookup"] /\ UNCHANGED res
    BY <2>1, <2>4, Proceeds DEF Places
  <2> QED
    BY <1>8, <2>3, <2>4 DEF SubmitReturns
<1>9. CASE Reconcile(w)
  <2>1. /\ pc[w] = "lookup" /\ UNCHANGED <<req, pending, queue, freed, broker>>
        /\ Conclude(w, Truth(req[w].order) \cup {"unknown"})
    BY <1>9 DEF Reconcile, locals, reporter
  <2>2. req[w] \in Requests
    BY <2>1 DEF Claims, InHand, Busy
  <2> QED
    BY <2>1, <2>2, Answers
<1>10. CASE Settle(w)
  <2>1. /\ pc' = [pc EXCEPT ![w] = "answer"] /\ UNCHANGED <<req, res, pending, queue, freed, broker>>
    BY <1>10 DEF Settle, locals, reporter
  <2>2. pc' \in [Workers -> Places] /\ Early'
    BY <2>1 DEF Telling, TellTypes, Early, Places
  <2> QED
    BY <2>1, <2>2, StaysOver DEF Telling, TellTypes
<1>11. CASE Answer(w)
  BY <1>11, AnswerTelling
<1> QED
  BY <1>1, <1>2, <1>3, <1>4, <1>5, <1>6, <1>7, <1>8, <1>9, <1>10, <1>11 DEF WorkerStep

\* Every step: the broker only moves orders towards their end.
LEMMA StepTelling == Claims /\ Telling /\ [Next]_vars => Telling'
<1> SUFFICES ASSUME Claims, Telling, [Next]_vars PROVE Telling'
  OBVIOUS
<1>1. CASE \E w \in Workers : WorkerStep(w)
  BY <1>1, WorkerTelling
<1>2. CASE \E i \in Ids : BrokerTakes(i) \/ BrokerEnds(i)
  <2>1. PICK i \in Ids : BrokerTakes(i) \/ BrokerEnds(i)
    BY <1>2
  <2>2. PICK s \in {"live", "ended", "refused", "lost"} : broker' = [broker EXCEPT ![i] = s]
    BY <2>1 DEF BrokerTakes, BrokerEnds
  <2>3. broker[i] \in {"flying", "live"} /\ UNCHANGED <<pc, req, res, pending, queue, freed>>
    BY <2>1 DEF BrokerTakes, BrokerEnds, locals, reporter
  <2>4. broker' \in [Ids -> {"none", "flying", "live", "ended", "refused", "lost"}]
    BY <2>2 DEF Telling, TellTypes
  <2>5. \A j \in Ids : broker[j] \in Over => broker'[j] \in Over
    BY <2>2, <2>3 DEF Telling, TellTypes, Over
  <2>6. pc' \in [Workers -> Places] /\ Early'
    BY <2>3 DEF Telling, TellTypes, Early
  <2> QED
    BY <2>3, <2>4, <2>5, <2>6, StaysOver
<1>3. CASE FlushTakes \/ FlushSends
  BY <1>3, FlushTelling
<1>4. CASE Crash
  BY <1>4 DEF Crash, Telling, TellTypes, Concluded, Early, Heard, Truthful, Outcomes, Places
<1>5. CASE MirrorMoves \/ Start \/ UNCHANGED vars
  <2>1. UNCHANGED <<pc, req, res, pending, queue, freed, broker>>
    BY <1>5 DEF MirrorMoves, Start, vars, locals, reporter
  <2>2. pc' \in [Workers -> Places] /\ Early'
    BY <2>1 DEF Telling, TellTypes, Early
  <2> QED
    BY <2>1, <2>2, StaysOver DEF Telling, TellTypes
<1> QED
  BY <1>1, <1>2, <1>3, <1>4, <1>5 DEF Next

\* Aegis frees a reservation only for an order that cannot execute any more.
THEOREM TruthfulTerminal == Spec => []TerminalIsTrue
<1>1. Telling => TerminalIsTrue
  BY DEF Telling, TerminalIsTrue, Over
<1> QED
  BY <1>1, InitTelling, StepTelling, ClaimsInvariant, PTL DEF Spec

-----------------------------------------------------------------------------
(* The halt after an unknown outcome                                       *)

Latched == /\ fate \in [Ids -> Outcomes]
           /\ \A i \in Ids : fate[i] \in {"unknown", "internal"} => halted

\* The latch is set with the first such outcome and only a crash resets it.
LEMMA StepLatched == Telling /\ Latched /\ [Next]_vars => Latched'
<1> SUFFICES ASSUME Telling, Latched, [Next]_vars PROVE Latched'
  OBVIOUS
<1>1. ASSUME NEW w \in Workers, Settle(w) PROVE Latched'
  <2>1. /\ fate' = [fate EXCEPT ![req[w].order] = res[w]]
        /\ halted \/ res[w] \in {"unknown", "internal"} => halted'
    BY <1>1 DEF Settle
  <2>2. res[w] \in Outcomes
    BY DEF Telling, TellTypes
  <2> QED
    BY <2>1, <2>2 DEF Latched
<1>2. CASE Crash
  BY <1>2 DEF Crash, Latched, Outcomes
<1>3. CASE UNCHANGED <<fate, halted>>
  BY <1>3 DEF Latched
<1>4. \/ \E w \in Workers : Settle(w)
      \/ Crash
      \/ UNCHANGED <<fate, halted>>
  BY DEF Next, WorkerStep, Receive, ClaimSignal, ClaimOrder, Reserve, Release, Gate, Post,
         SubmitReturns, Reconcile, Answer, BrokerTakes, BrokerEnds, FlushTakes, FlushSends,
         MirrorMoves, Start, vars, history
<1> QED
  BY <1>1, <1>2, <1>3, <1>4

\* After an unknown outcome or an exception no worker passes the last check.
THEOREM HaltHolds == Spec => UnknownStops
<1> DEFINE Passes == \A w \in Workers : pc[w] = "gate" /\ pc'[w] = "post" =>
                       \A i \in Ids : fate[i] \notin {"unknown", "internal"}
<1>1. Init => Latched
  BY DEF Init, Latched, Outcomes
<1>2. Claims /\ Latched /\ [Next]_vars => [Passes]_vars
  <2> SUFFICES ASSUME Claims, Latched, Next, NEW w \in Workers, pc[w] = "gate", pc'[w] = "post"
               PROVE  ~halted
    BY DEF Latched
  <2>1. ASSUME NEW v \in Workers, WorkerStep(v) PROVE Gate(w)
    <3>1. PICK p \in Places : pc' = [pc EXCEPT ![v] = p] /\ (v = w => Gate(w))
      BY <2>1 DEF WorkerStep, Receive, ClaimSignal, ClaimOrder, Raise, Give, Reserve, Release,
                  Gate, Post, SubmitReturns, Reconcile, Conclude, Settle, Answer, Places
    <3>2. v = w
      BY <3>1 DEF Claims, Shape
    <3> QED
      BY <3>1, <3>2
  <2>2. \E v \in Workers : WorkerStep(v)
    BY DEF Next, BrokerTakes, BrokerEnds, FlushTakes, FlushSends, MirrorMoves, Crash, Start
  <2>3. Gate(w)
    BY <2>1, <2>2
  <2>4. pc' = [pc EXCEPT ![w] = "post"] => ~Halted
    BY <2>3 DEF Gate, Give, Claims, Shape
  <2>5. pc' = [pc EXCEPT ![w] = "post"]
    BY <2>3 DEF Gate, Give, Claims, Shape
  <2> QED
    BY <2>4, <2>5 DEF Halted
<1> QED
  BY <1>1, <1>2, InitTelling, StepTelling, StepLatched, ClaimsInvariant, PTL
     DEF Spec, UnknownStops

-----------------------------------------------------------------------------
(* The ledger                                                              *)

\* The states of an order that count against the session.
Alive == {"flying", "live", "ended"}

\* Worker w has an order at the broker whose reservation it may still return.
Out(w) == pc[w] \in {"sent", "lookup"} \/ (pc[w] = "settle" /\ res[w] = "rejected")

\* Worker w made a reservation and has not decided to keep or return it.
Keeps(w) == pc[w] \in {"release", "gate", "post"} \/ Out(w)

\* No two workers have a reservation for the same id.
Alone == \A v, w \in Workers : Keeps(v) /\ Keeps(w) /\ req[v].order = req[w].order => v = w

\* What was not sent is not at the broker; a call in hand has a value; a worker that
\* waits for the broker did send; a rejection is the broker's.
Followed ==
  /\ \A i \in Ids : posts[i] = 0 => broker[i] = "none"
  /\ \A w \in Workers :
       /\ pc[w] \in Busy => amount(w) \in Nat
       /\ Out(w) => posts[req[w].order] # 0
       /\ pc[w] = "settle" /\ res[w] = "rejected" => broker[req[w].order] = "refused"

\* held attributes the reservations to ids: it pays for every order that counts and
\* for every reservation in a worker's hands, and the ledger has all of it.
Covered(held) ==
  /\ Sum(held, Ids) <= reserved
  /\ \A i \in Ids : broker[i] \in Alive => worth[i] <= held[i]
  /\ \A w \in Workers : Keeps(w) => amount(w) <= held[req[w].order]

\* The inductive invariant of the ledger.
Ledger ==
  /\ worth \in [Ids -> Nat] /\ reserved \in Nat /\ reserved <= SessionCap
  /\ Alone /\ Followed /\ \E held \in [Ids -> Nat] : Covered(held)

\* The value of a call that passed the checks is a natural number.
LEMMA NotionalNat ==
  ASSUME NEW r \in Requests, ~Refused(r) PROVE compute_notional(r) \in Nat
<1>1. r.qty \in Nat /\ r.limit \in Nat /\ r.stop \in Nat /\ r.quote \in Nat
  BY MotorAssumption DEF Request
<1> DEFINE U == Usable(r)
<1>2. U # {} /\ U \subseteq {r.limit, r.stop, r.quote} /\ U \subseteq Nat
  BY <1>1 DEF Refused, PrecheckRefuses, Usable
<1> HIDE DEF U
<1>3. \E m \in U : \A x \in U : m >= x
  <2> SUFFICES ASSUME \A m \in U : \E x \in U : ~(m >= x) PROVE FALSE
    OBVIOUS
  <2> DEFINE a == r.limit
             b == r.stop
             c == r.quote
  <2>1. /\ a \in U => (b \in U /\ ~(a >= b)) \/ (c \in U /\ ~(a >= c))
        /\ b \in U => (a \in U /\ ~(b >= a)) \/ (c \in U /\ ~(b >= c))
        /\ c \in U => (a \in U /\ ~(c >= a)) \/ (b \in U /\ ~(c >= b))
    BY <1>1, <1>2
  <2>2. a \in U \/ b \in U \/ c \in U
    BY <1>2
  <2>3. a \in Nat /\ b \in Nat /\ c \in Nat
    BY <1>1
  <2> HIDE DEF a, b, c
  <2> QED BY <2>1, <2>2, <2>3
<1>4. Max(U) \in Nat
  BY <1>2, <1>3 DEF Max
<1>5. compute_notional(r) = r.qty * Max(U)
  BY DEF compute_notional, U
<1> QED BY <1>1, <1>4, <1>5

\* A step of a worker that leaves its call and the broker alone.
LEMMA WorkerFollows ==
  ASSUME Claims, Followed, NEW w \in Workers, NEW p, pc' = [pc EXCEPT ![w] = p],
         UNCHANGED <<req, posts, broker>>, p \in Busy => pc[w] \in Busy,
         \A v \in Workers : v # w => res'[v] = res[v],
         Out(w)' => posts[req[w].order] # 0,
         p = "settle" /\ res'[w] = "rejected" => broker[req[w].order] = "refused"
  PROVE  Followed'
<1>1. /\ pc'[w] = p /\ \A v \in Workers : v # w => pc'[v] = pc[v]
  BY DEF Claims, Shape
<1>2. ASSUME NEW v \in Workers PROVE pc'[v] \in Busy => amount(v)' \in Nat
  BY <1>1 DEF Followed, amount
<1>3. ASSUME NEW v \in Workers PROVE Out(v)' => posts'[req'[v].order] # 0
  BY <1>1 DEF Followed, Out
<1>4. ASSUME NEW v \in Workers
      PROVE  pc'[v] = "settle" /\ res'[v] = "rejected" => broker'[req'[v].order] = "refused"
  BY <1>1 DEF Followed
<1> QED BY <1>2, <1>3, <1>4 DEF Followed

\* What an answer of the broker settles.
LEMMA ConcludeFollows ==
  ASSUME Claims, Telling, Followed, NEW w \in Workers, pc[w] \in {"sent", "lookup"},
         NEW xs, xs \subseteq Truth(req[w].order) \cup {"unknown"}, Conclude(w, xs),
         UNCHANGED <<req, posts, broker>>
  PROVE  Followed'
<1>1. PICK x \in xs : res' = [res EXCEPT ![w] = x]
  BY DEF Conclude
<1>2. /\ res'[w] = x /\ \A v \in Workers : v # w => res'[v] = res[v]
      /\ pc' = [pc EXCEPT ![w] = "settle"] /\ pc[w] \in Busy
  BY <1>1 DEF Conclude, Telling, TellTypes, Busy
<1>3. x = "rejected" => broker[req[w].order] = "refused"
  BY <1>1 DEF Truth
<1>4. posts[req[w].order] # 0
  BY DEF Followed, Out
<1> QED BY <1>2, <1>3, <1>4, WorkerFollows

\* Every step of a worker.
LEMMA WorkerFollowed ==
  ASSUME Claims, Telling, Followed, NEW w \in Workers, WorkerStep(w) PROVE Followed'
<1>0. /\ \A v \in Workers : v # w => \A x : [res EXCEPT ![w] = x][v] = res[v]
      /\ \A x : [res EXCEPT ![w] = x][w] = x
      /\ \A p : [pc EXCEPT ![w] = p][w] = p
  BY DEF Telling, TellTypes
<1>1. CASE Receive(w)
  <2>1. UNCHANGED <<posts, broker>>
    BY <1>1 DEF Receive, history
  <2>2. CASE pc' = [pc EXCEPT ![w] = "answer"] /\ res' = [res EXCEPT ![w] = "refused"] /\ UNCHANGED req
    BY <1>0, <2>1, <2>2, WorkerFollows DEF Out, Busy
  <2>3. CASE /\ \E r \in Requests : ~Refused(r) /\ req' = [req EXCEPT ![w] = r]
             /\ pc' = [pc EXCEPT ![w] = "signal"] /\ UNCHANGED res
    <3>1. PICK r \in Requests : ~Refused(r) /\ req' = [req EXCEPT ![w] = r]
      BY <2>3
    <3>2. /\ req'[w] = r /\ pc'[w] = "signal"
          /\ \A v \in Workers : v # w => req'[v] = req[v] /\ pc'[v] = pc[v]
      BY <2>3, <3>1 DEF Claims, Shape
    <3>3. compute_notional(r) \in Nat
      BY <3>1, NotionalNat
    <3>4. ASSUME NEW v \in Workers
          PROVE  /\ pc'[v] \in Busy => amount(v)' \in Nat
                 /\ Out(v)' => posts'[req'[v].order] # 0
                 /\ pc'[v] = "settle" /\ res'[v] = "rejected" => broker'[req'[v].order] = "refused"
      BY <2>1, <2>3, <3>2, <3>3 DEF Followed, amount, Out
    <3> QED BY <2>1, <3>4 DEF Followed
  <2> QED BY <1>1, <2>2, <2>3 DEF Receive
<1>2. CASE ClaimSignal(w)
  <2>1. UNCHANGED <<posts, broker, req>> /\ pc[w] \in Busy
    BY <1>2 DEF ClaimSignal, history, locals, Busy
  <2>2. PICK p \in {"order", "settle"} :
          /\ pc' = [pc EXCEPT ![w] = p]
          /\ \/ UNCHANGED res /\ p # "settle"
             \/ \E x \in {"internal"} : res' = [res EXCEPT ![w] = x]
    BY <1>2 DEF ClaimSignal, Raise
  <2>3. (\A v \in Workers : v # w => res'[v] = res[v]) /\ ~(p = "settle" /\ res'[w] = "rejected")
    BY <1>0, <2>2
  <2>4. ~Out(w)'
    BY <1>0, <2>2, <2>3 DEF Out
  <2> QED BY <2>1, <2>2, <2>3, <2>4, WorkerFollows
<1>3. CASE ClaimOrder(w)
  <2>1. UNCHANGED <<posts, broker, req>> /\ pc[w] \in Busy
    BY <1>3 DEF ClaimOrder, history, locals, Busy
  <2>2. PICK p \in {"reserve", "answer", "settle"} :
          /\ pc' = [pc EXCEPT ![w] = p]
          /\ \/ UNCHANGED res /\ p # "settle"
             \/ \E x \in {"duplicate", "internal"} : res' = [res EXCEPT ![w] = x]
    BY <1>3 DEF ClaimOrder, Raise
  <2>3. (\A v \in Workers : v # w => res'[v] = res[v]) /\ ~(p = "settle" /\ res'[w] = "rejected")
    BY <1>0, <2>2
  <2>4. ~Out(w)'
    BY <1>0, <2>2, <2>3 DEF Out
  <2> QED BY <2>1, <2>2, <2>3, <2>4, WorkerFollows
<1>4. CASE Reserve(w) \/ Release(w) \/ Gate(w)
  <2>1. UNCHANGED <<posts, broker, req>> /\ pc[w] \in Busy
    BY <1>4 DEF Reserve, Release, Gate, history, locals, Busy
  <2>2. PICK p \in {"release", "gate", "post", "answer"} :
          /\ pc' = [pc EXCEPT ![w] = p]
          /\ \/ UNCHANGED res /\ p # "settle"
             \/ \E x \in {"dropped"} : res' = [res EXCEPT ![w] = x]
    BY <1>4 DEF Reserve, Release, Gate, Give
  <2>3. (\A v \in Workers : v # w => res'[v] = res[v]) /\ ~(p = "settle" /\ res'[w] = "rejected")
    BY <1>0, <2>2
  <2>4. ~Out(w)'
    BY <1>0, <2>2, <2>3 DEF Out
  <2> QED BY <2>1, <2>2, <2>3, <2>4, WorkerFollows
<1>5. CASE Post(w)
  <2> DEFINE i == req[w].order
  <2>1. /\ pc[w] = "post" /\ pc' = [pc EXCEPT ![w] = "sent"] /\ UNCHANGED <<req, res>>
        /\ posts' = [posts EXCEPT ![i] = posts[i] + 1]
        /\ broker' = IF broker[i] = "none" THEN [broker EXCEPT ![i] = "flying"] ELSE broker
    BY <1>5 DEF Post, locals
  <2>2. i \in Ids /\ posts[i] \in Nat /\ posts'[i] # 0 /\ \A j \in Ids : posts[j] # 0 => posts'[j] # 0
    BY <2>1, CallIds DEF Claims, InHand, Busy, Shape
  <2>3. \A j \in Ids : /\ posts'[j] = 0 => posts[j] = 0 /\ j # i
                       /\ j # i => broker'[j] = broker[j]
                       /\ broker[j] = "refused" => broker'[j] = "refused"
    BY <2>1, <2>2 DEF Claims, Shape, Telling, TellTypes
  <2>4. pc'[w] = "sent" /\ \A v \in Workers : v # w => pc'[v] = pc[v]
    BY <2>1 DEF Claims, Shape
  <2>5. ASSUME NEW v \in Workers PROVE pc'[v] \in Busy => amount(v)' \in Nat
    BY <2>1, <2>4 DEF Followed, amount, Busy
  <2>6. ASSUME NEW v \in Workers, Out(v)' PROVE posts'[req'[v].order] # 0
    <3>1. CASE v = w
      BY <2>1, <2>2, <3>1
    <3>2. CASE v # w
      <4>1. Out(v) /\ pc[v] \in Busy
        BY <2>1, <2>4, <2>6, <3>2 DEF Out, Busy
      <4>2. req[v].order \in Ids
        BY <4>1, CallIds DEF Claims, InHand
      <4> QED BY <2>1, <2>2, <4>1, <4>2 DEF Followed
    <3> QED BY <3>1, <3>2
  <2>7. ASSUME NEW v \in Workers, pc'[v] = "settle", res'[v] = "rejected"
        PROVE  broker'[req'[v].order] = "refused"
    <3>1. pc[v] = "settle" /\ res[v] = "rejected"
      BY <2>1, <2>4, <2>7
    <3>2. req[v].order \in Ids
      BY <3>1, CallIds DEF Claims, InHand, Busy
    <3> QED BY <2>1, <2>3, <3>1, <3>2 DEF Followed
  <2>8. \A j \in Ids : posts'[j] = 0 => broker'[j] = "none"
    BY <2>3 DEF Followed
  <2> QED BY <2>5, <2>6, <2>7, <2>8 DEF Followed
<1>6. CASE SubmitReturns(w)
  <2>1. UNCHANGED <<posts, broker, req>> /\ pc[w] = "sent"
    BY <1>6 DEF SubmitReturns, history, locals
  <2>2. CASE pc' = [pc EXCEPT ![w] = "lookup"] /\ UNCHANGED res
    BY <1>0, <2>1, <2>2, WorkerFollows DEF Followed, Out, Busy
  <2>3. CASE Conclude(w, Truth(req[w].order))
    BY <2>1, <2>3, ConcludeFollows
  <2> QED BY <1>6, <2>2, <2>3 DEF SubmitReturns
<1>7. CASE Reconcile(w)
  <2>1. UNCHANGED <<posts, broker, req>> /\ pc[w] = "lookup"
    BY <1>7 DEF Reconcile, history, locals
  <2> QED BY <1>7, <2>1, ConcludeFollows DEF Reconcile
<1>8. CASE Settle(w)
  <2>1. UNCHANGED <<posts, broker, req, res>> /\ pc' = [pc EXCEPT ![w] = "answer"]
    BY <1>8 DEF Settle, locals
  <2> QED BY <1>0, <2>1, WorkerFollows DEF Out, Busy
<1>9. CASE Answer(w)
  <2>1. /\ UNCHANGED <<posts, broker>> /\ pc' = [pc EXCEPT ![w] = "idle"]
        /\ req' = [req EXCEPT ![w] = NoCall] /\ res' = [res EXCEPT ![w] = "none"]
    BY <1>9 DEF Answer, history
  <2>2. /\ pc'[w] = "idle" /\ res'[w] = "none"
        /\ \A v \in Workers : v # w => pc'[v] = pc[v] /\ res'[v] = res[v] /\ req'[v] = req[v]
    BY <2>1 DEF Claims, Shape, Telling, TellTypes
  <2>3. ASSUME NEW v \in Workers
        PROVE  /\ pc'[v] \in Busy => amount(v)' \in Nat
               /\ Out(v)' => posts'[req'[v].order] # 0
               /\ pc'[v] = "settle" /\ res'[v] = "rejected" => broker'[req'[v].order] = "refused"
    BY <2>1, <2>2 DEF Followed, amount, Out, Busy
  <2> QED BY <2>1, <2>3 DEF Followed
<1> QED BY <1>1, <1>2, <1>3, <1>4, <1>5, <1>6, <1>7, <1>8, <1>9 DEF WorkerStep

\* And every other step.
LEMMA StepFollowed == Claims /\ Telling /\ Followed /\ [Next]_vars => Followed'
<1> SUFFICES ASSUME Claims, Telling, Followed, [Next]_vars PROVE Followed'
  OBVIOUS
<1>1. CASE \E w \in Workers : WorkerStep(w)
  BY <1>1, WorkerFollowed
<1>2. CASE \E i \in Ids : BrokerTakes(i) \/ BrokerEnds(i)
  <2>1. PICK i \in Ids : BrokerTakes(i) \/ BrokerEnds(i)
    BY <1>2
  <2>2. UNCHANGED <<pc, req, res, posts>> /\ broker[i] \in {"flying", "live"}
    BY <2>1 DEF BrokerTakes, BrokerEnds, locals, history
  <2>3. \A j \in Ids : j # i => broker'[j] = broker[j]
    BY <2>1 DEF BrokerTakes, BrokerEnds, Telling, TellTypes
  <2>4. \A j \in Ids : posts'[j] = 0 => broker'[j] = "none"
    BY <2>2, <2>3 DEF Followed
  <2>5. ASSUME NEW v \in Workers, pc[v] = "settle", res[v] = "rejected"
        PROVE  broker'[req[v].order] = "refused"
    <3>1. req[v].order \in Ids
      BY <2>5, CallIds DEF Claims, InHand, Busy
    <3> QED BY <2>2, <2>3, <2>5, <3>1 DEF Followed
  <2> QED BY <2>2, <2>4, <2>5 DEF Followed, amount, Out
<1>3. CASE FlushTakes \/ FlushSends \/ MirrorMoves \/ Start \/ UNCHANGED vars
  <2>1. UNCHANGED <<pc, req, res, posts, broker>>
    BY <1>3 DEF FlushTakes, FlushSends, MirrorMoves, Start, vars, locals, history
  <2> QED BY <2>1 DEF Followed, amount, Out
<1>4. CASE Crash
  BY <1>4 DEF Crash, Followed, Out, Busy
<1> QED BY <1>1, <1>2, <1>3, <1>4 DEF Next

\* A step in which no worker gains a reservation and no order comes to count, and
\* which leaves the ledger alone.
LEMMA LedgerKept ==
  ASSUME Ledger, Followed', UNCHANGED reserved, worth' \in [Ids -> Nat],
         \A v \in Workers : Keeps(v)' => Keeps(v) /\ req'[v] = req[v],
         \A i \in Ids : broker'[i] \in Alive => broker[i] \in Alive /\ worth'[i] = worth[i]
  PROVE  Ledger'
<1>1. PICK held \in [Ids -> Nat] : Covered(held)
  BY DEF Ledger
<1>2. Covered(held)'
  BY <1>1 DEF Covered, amount
<1>3. Alone'
  BY DEF Ledger, Alone
<1> QED BY <1>2, <1>3 DEF Ledger

\* A step of one worker that stays without a reservation, or keeps the one it has.
LEMMA WorkerKeeps ==
  ASSUME Claims, Telling, Ledger, Followed', NEW w \in Workers, NEW p,
         pc' = [pc EXCEPT ![w] = p], \A v \in Workers : v # w => res'[v] = res[v],
         \A v \in Workers : v # w => req'[v] = req[v],
         Keeps(w)' => Keeps(w) /\ req'[w] = req[w],
         UNCHANGED <<reserved, broker, worth>>
  PROVE  Ledger'
<1>1. \A v \in Workers : v # w => pc'[v] = pc[v]
  BY DEF Claims, Shape
<1>2. \A v \in Workers : Keeps(v)' => Keeps(v) /\ req'[v] = req[v]
  BY <1>1 DEF Keeps, Out
<1> QED BY <1>2, LedgerKept DEF Ledger

\* A worker returns its reservation when its order does not count.
LEMMA LedgerReturned ==
  ASSUME Claims, Telling, Ledger, Followed', NEW w \in Workers, NEW p,
         Keeps(w), req[w] \in Requests, amount(w) \in Nat, broker[req[w].order] \notin Alive,
         pc' = [pc EXCEPT ![w] = p], \A v \in Workers : v # w => res'[v] = res[v],
         ~Keeps(w)', reserved' = Less(reserved, amount(w)), UNCHANGED <<req, broker, worth>>
  PROVE  Ledger'
<1> DEFINE i == req[w].order
           n == amount(w)
<1>1. PICK held \in [Ids -> Nat] : Covered(held)
  BY DEF Ledger
<1>2. i \in Ids /\ n <= held[i] /\ n \in Nat
  BY <1>1, CallIds DEF Covered
<1> HIDE DEF n
<1>3. PICK h \in [Ids -> Nat] :
        /\ h[i] = held[i] - n /\ \A j \in Ids \ {i} : h[j] = held[j]
        /\ \A j \in Ids : held[j] \in Int /\ h[j] \in Int
  <2> DEFINE g == [held EXCEPT ![i] = held[i] - n]
  <2>1. /\ g \in [Ids -> Nat] /\ g[i] = held[i] - n /\ \A j \in Ids \ {i} : g[j] = held[j]
        /\ \A j \in Ids : held[j] \in Int /\ g[j] \in Int
    BY <1>2
  <2> HIDE DEF g
  <2> QED BY <2>1
<1> HIDE DEF i
<1>4. Sum(h, Ids) = Sum(held, Ids) - held[i] + h[i]
  BY <1>2, <1>3, MotorAssumption, SumChange
<1>5. Sum(held, Ids) \in Nat /\ Sum(h, Ids) \in Nat
  BY <1>3, MotorAssumption, SumNat
<1>6. Sum(held, Ids) <= reserved /\ reserved \in Nat /\ reserved <= SessionCap
  BY <1>1 DEF Covered, Ledger
<1>7. reserved' = Less(reserved, n)
  BY DEF n
<1>8. Sum(h, Ids) <= reserved' /\ reserved' \in Nat /\ reserved' <= SessionCap
  <2>1. held[i] \in Nat /\ SessionCap \in Nat
    BY <1>2, MotorAssumption
  <2> QED BY <1>2, <1>3, <1>4, <1>5, <1>6, <1>7, <2>1 DEF Less
<1>9. \A v \in Workers : Keeps(v)' => Keeps(v) /\ v # w /\ req[v].order # i
  <2>1. \A v \in Workers : v # w => pc'[v] = pc[v]
    BY DEF Claims, Shape
  <2>2. \A v \in Workers : Keeps(v)' => Keeps(v) /\ v # w
    BY <2>1 DEF Keeps, Out
  <2> QED BY <2>2 DEF Ledger, Alone, i
<1>10. Alone'
  BY <1>9 DEF Ledger, Alone
<1>11. ASSUME NEW v \in Workers, Keeps(v)' PROVE amount(v)' <= h[req'[v].order]
  <2>1. Keeps(v) /\ req[v].order # i /\ pc[v] \in Busy
    BY <1>9, <1>11 DEF Keeps, Out, Busy
  <2>2. req[v].order \in Ids
    BY <2>1, CallIds DEF Claims, InHand
  <2>3. h[req[v].order] = held[req[v].order] /\ amount(v)' = amount(v)
    BY <1>3, <2>1, <2>2 DEF amount
  <2> QED BY <1>1, <2>1, <2>3 DEF Covered
<1>12. ASSUME NEW j \in Ids, broker'[j] \in Alive PROVE worth'[j] <= h[j]
  BY <1>1, <1>3, <1>12 DEF Covered, i
<1>13. Covered(h)'
  BY <1>8, <1>11, <1>12 DEF Covered
<1> QED BY <1>3, <1>8, <1>10, <1>13 DEF Ledger

\* A reservation is made for an id that nobody has one for.
LEMMA LedgerReserved ==
  ASSUME Claims, Telling, Ledger, Followed', NEW w \in Workers,
         pc[w] = "reserve", pc' = [pc EXCEPT ![w] = "release"],
         Fits(amount(w)), reserved' = reserved + amount(w),
         UNCHANGED <<req, res, broker, worth>>
  PROVE  Ledger'
<1> DEFINE i == req[w].order
           n == amount(w)
<1>1. PICK held \in [Ids -> Nat] : Covered(held)
  BY DEF Ledger
<1>2. i \in Ids /\ n \in Nat
  BY CallIds DEF Claims, InHand, Busy, Ledger, Followed
<1>0. reserved' = reserved + n /\ reserved + n <= SessionCap
  BY DEF Fits
<1> HIDE DEF n
<1>3. PICK h \in [Ids -> Nat] :
        /\ h[i] = held[i] + n /\ \A j \in Ids \ {i} : h[j] = held[j]
        /\ \A j \in Ids : held[j] \in Int /\ h[j] \in Int /\ held[j] <= h[j]
  <2> DEFINE g == [held EXCEPT ![i] = held[i] + n]
  <2>1. /\ g \in [Ids -> Nat] /\ g[i] = held[i] + n /\ \A j \in Ids \ {i} : g[j] = held[j]
        /\ \A j \in Ids : held[j] \in Int /\ g[j] \in Int /\ held[j] <= g[j]
    BY <1>2
  <2> HIDE DEF g
  <2> QED BY <2>1
<1>4. Sum(h, Ids) = Sum(held, Ids) - held[i] + h[i]
  <2> HIDE DEF i
  <2> QED BY <1>2, <1>3, MotorAssumption, SumChange
<1>5. Sum(held, Ids) \in Nat /\ Sum(h, Ids) \in Nat
  BY <1>3, MotorAssumption, SumNat
<1>6. Sum(held, Ids) <= reserved /\ reserved \in Nat
  BY <1>1 DEF Covered, Ledger
<1>7. Sum(h, Ids) <= reserved' /\ reserved' \in Nat /\ reserved' <= SessionCap
  <2>1. held[i] \in Nat
    BY <1>2
  <2> HIDE DEF i
  <2> QED BY <1>0, <1>2, <1>3, <1>4, <1>5, <1>6, <2>1
<1>8. pc'[w] = "release" /\ \A v \in Workers : v # w => pc'[v] = pc[v]
  BY DEF Claims, Shape
<1>9. \A v \in Workers : v # w /\ Keeps(v)' => Keeps(v)
  BY <1>8 DEF Keeps, Out
<1>10. ASSUME NEW v \in Workers, v # w, Keeps(v) PROVE req[v].order # i
  <2>1. posts[i] = 0 /\ Owner(w)
    BY DEF Claims, Owned, Owner, Cleared
  <2>2. CASE Out(v)
    BY <2>1, <2>2 DEF Ledger, Followed
  <2>3. CASE pc[v] \in {"release", "gate", "post"}
    BY <1>10, <2>1, <2>3 DEF Claims, Apart, Owner, Cleared
  <2> QED BY <1>10, <2>2, <2>3 DEF Keeps
<1>11. Alone'
  BY <1>9, <1>10 DEF Ledger, Alone
<1>12. ASSUME NEW v \in Workers, Keeps(v)' PROVE amount(v)' <= h[req'[v].order]
  <2>1. CASE v = w
    <3>1. amount(v)' = n /\ req'[v].order = i
      BY <2>1 DEF amount, n
    <3>2. held[i] \in Nat
      BY <1>2
    <3> HIDE DEF i
    <3> QED BY <1>2, <1>3, <3>1, <3>2
  <2>2. CASE v # w
    <3>1. Keeps(v) /\ pc[v] \in Busy
      BY <1>9, <1>12, <2>2 DEF Keeps, Out, Busy
    <3>2. req[v].order \in Ids
      BY <3>1, CallIds DEF Claims, InHand
    <3>3. req[v].order # i
      BY <1>10, <2>2, <3>1
    <3>4. h[req[v].order] = held[req[v].order] /\ amount(v)' = amount(v)
      BY <1>3, <3>2, <3>3 DEF amount
    <3> QED BY <1>1, <3>1, <3>4 DEF Covered
  <2> QED BY <2>1, <2>2
<1>13. ASSUME NEW j \in Ids, broker'[j] \in Alive PROVE worth'[j] <= h[j]
  <2>1. worth[j] <= held[j] /\ worth[j] \in Nat
    BY <1>1, <1>13 DEF Covered, Ledger
  <2> QED BY <1>3, <2>1
<1>14. Covered(h)'
  BY <1>7, <1>12, <1>13 DEF Covered
<1> QED BY <1>3, <1>7, <1>11, <1>14 DEF Ledger

\* What leaves for the broker was reserved.
LEMMA LedgerPosted ==
  ASSUME Claims, Telling, Ledger, Followed', NEW w \in Workers, Post(w) PROVE Ledger'
<1> DEFINE i == req[w].order
<1>1. /\ pc[w] = "post" /\ pc' = [pc EXCEPT ![w] = "sent"] /\ UNCHANGED <<req, res, reserved>>
      /\ worth' = [worth EXCEPT ![i] = amount(w)]
      /\ broker' = IF broker[i] = "none" THEN [broker EXCEPT ![i] = "flying"] ELSE broker
  BY DEF Post, locals
<1>2. i \in Ids /\ amount(w) \in Nat
  BY <1>1, CallIds DEF Claims, InHand, Busy, Ledger, Followed
<1>3. PICK held \in [Ids -> Nat] : Covered(held)
  BY DEF Ledger
<1>4. pc'[w] = "sent" /\ \A v \in Workers : v # w => pc'[v] = pc[v]
  BY <1>1 DEF Claims, Shape
<1>5. \A v \in Workers : Keeps(v)' => Keeps(v)
  BY <1>1, <1>4 DEF Keeps, Out
<1>6. amount(w) <= held[i]
  BY <1>1, <1>3 DEF Covered, Keeps
<1>7. worth' \in [Ids -> Nat] /\ worth'[i] = amount(w) /\ \A j \in Ids \ {i} : worth'[j] = worth[j]
  BY <1>1, <1>2 DEF Ledger
<1>8. \A j \in Ids \ {i} : broker'[j] = broker[j]
  BY <1>1 DEF Telling, TellTypes
<1>9. \A j \in Ids : broker'[j] \in Alive => worth'[j] <= held[j]
  BY <1>3, <1>6, <1>7, <1>8 DEF Covered
<1>10. \A v \in Workers : Keeps(v)' => amount(v)' <= held[req'[v].order]
  BY <1>1, <1>3, <1>5 DEF Covered, amount
<1>11. Covered(held)'
  BY <1>1, <1>3, <1>9, <1>10 DEF Covered
<1>12. Alone'
  BY <1>1, <1>5 DEF Ledger, Alone
<1> QED BY <1>1, <1>7, <1>11, <1>12 DEF Ledger

\* Every step of a worker keeps the ledger.
LEMMA WorkerLedger ==
  ASSUME Claims, Telling, Ledger, Followed', NEW w \in Workers, WorkerStep(w) PROVE Ledger'
<1>0. /\ \A v \in Workers : v # w => \A x : [res EXCEPT ![w] = x][v] = res[v]
      /\ \A v \in Workers : v # w => \A x : [req EXCEPT ![w] = x][v] = req[v]
      /\ \A x : [res EXCEPT ![w] = x][w] = x
      /\ \A p : [pc EXCEPT ![w] = p][w] = p
  BY DEF Telling, TellTypes
<1>1. CASE Receive(w)
  <2>1. UNCHANGED <<reserved, broker, worth>>
    BY <1>1 DEF Receive, history
  <2>2. PICK p \in {"answer", "signal"} : pc' = [pc EXCEPT ![w] = p]
    BY <1>1 DEF Receive
  <2>3. \A v \in Workers : v # w => res'[v] = res[v] /\ req'[v] = req[v]
    BY <1>1 DEF Receive, Telling, TellTypes
  <2>4. ~Keeps(w)'
    BY <1>0, <2>2 DEF Keeps, Out
  <2> QED BY <2>1, <2>2, <2>3, <2>4, WorkerKeeps
<1>2. CASE ClaimSignal(w) \/ ClaimOrder(w)
  <2>1. UNCHANGED <<reserved, broker, worth, req>>
    BY <1>2 DEF ClaimSignal, ClaimOrder, history, locals
  <2>2. PICK p \in {"order", "reserve", "answer", "settle"} :
          /\ pc' = [pc EXCEPT ![w] = p]
          /\ \/ UNCHANGED res /\ p # "settle"
             \/ \E x \in {"duplicate", "internal"} : res' = [res EXCEPT ![w] = x]
    BY <1>2 DEF ClaimSignal, ClaimOrder, Raise
  <2>3. \A v \in Workers : v # w => res'[v] = res[v] /\ req'[v] = req[v]
    BY <2>1, <2>2 DEF Telling, TellTypes
  <2>4. ~Keeps(w)'
    BY <1>0, <2>2 DEF Keeps, Out
  <2> QED BY <2>1, <2>2, <2>3, <2>4, WorkerKeeps
<1>3. CASE Reserve(w)
  <2>1. UNCHANGED <<broker, worth, req>> /\ pc[w] = "reserve"
    BY <1>3 DEF Reserve, history, locals
  <2>2. CASE Fits(amount(w)) /\ reserved' = reserved + amount(w)
             /\ pc' = [pc EXCEPT ![w] = "release"] /\ UNCHANGED res
    BY <2>1, <2>2, LedgerReserved
  <2>3. CASE Give(w, "dropped") /\ UNCHANGED reserved
    <3>1. /\ pc' = [pc EXCEPT ![w] = "answer"]
          /\ \A v \in Workers : v # w => res'[v] = res[v] /\ req'[v] = req[v]
      BY <1>0, <2>1, <2>3 DEF Give
    <3>2. ~Keeps(w)'
      BY <1>0, <3>1 DEF Keeps, Out
    <3> QED BY <2>1, <2>3, <3>1, <3>2, WorkerKeeps
  <2> QED BY <1>3, <2>2, <2>3 DEF Reserve
<1>4. CASE Release(w) \/ Gate(w)
  <2>1. UNCHANGED <<broker, worth, req>> /\ pc[w] \in {"release", "gate"} /\ Keeps(w) /\ pc[w] \in Busy
    BY <1>4 DEF Release, Gate, history, locals, Keeps, Busy
  <2>2. CASE (\E p \in {"gate", "post"} : pc' = [pc EXCEPT ![w] = p]) /\ UNCHANGED <<reserved, res>>
    BY <2>1, <2>2, WorkerKeeps
  <2>3. CASE reserved' = Less(reserved, amount(w)) /\ Give(w, "dropped")
    <3>1. pc' = [pc EXCEPT ![w] = "answer"] /\ \A v \in Workers : v # w => res'[v] = res[v]
      BY <1>0, <2>3 DEF Give
    <3>2. ~Keeps(w)'
      BY <1>0, <3>1 DEF Keeps, Out
    <3>3. req[w] \in Requests /\ amount(w) \in Nat /\ posts[req[w].order] = 0
      BY <2>1 DEF Claims, InHand, Owned, Owner, Cleared, Ledger, Followed
    <3>4. broker[req[w].order] = "none"
      BY <3>3, CallIds DEF Ledger, Followed
    <3> QED BY <2>1, <2>3, <3>1, <3>2, <3>3, <3>4, LedgerReturned DEF Alive
  <2> QED BY <1>4, <2>2, <2>3 DEF Release, Gate
<1>5. CASE Post(w)
  BY <1>5, LedgerPosted
<1>6. CASE SubmitReturns(w) \/ Reconcile(w)
  <2>1. UNCHANGED <<reserved, broker, worth, req>> /\ pc[w] \in {"sent", "lookup"} /\ Keeps(w)
    BY <1>6 DEF SubmitReturns, Reconcile, history, locals, Keeps, Out
  <2>2. (\E p \in {"lookup", "settle"} : pc' = [pc EXCEPT ![w] = p])
        /\ \A v \in Workers : v # w => res'[v] = res[v]
    BY <1>6 DEF SubmitReturns, Reconcile, Conclude, Telling, TellTypes
  <2> QED BY <2>1, <2>2, WorkerKeeps
<1>7. CASE Settle(w)
  <2>1. /\ UNCHANGED <<broker, worth, req, res>> /\ pc[w] = "settle"
        /\ pc' = [pc EXCEPT ![w] = "answer"]
        /\ reserved' = IF res[w] = "rejected" THEN Less(reserved, amount(w)) ELSE reserved
    BY <1>7 DEF Settle, locals
  <2>2. ~Keeps(w)'
    BY <1>0, <2>1 DEF Keeps, Out
  <2>3. CASE res[w] # "rejected"
    BY <2>1, <2>2, <2>3, WorkerKeeps
  <2>4. CASE res[w] = "rejected"
    <3>1. req[w] \in Requests /\ amount(w) \in Nat /\ broker[req[w].order] = "refused" /\ Keeps(w)
      BY <2>1, <2>4 DEF Claims, InHand, Busy, Ledger, Followed, Keeps, Out
    <3> QED BY <2>1, <2>2, <2>4, <3>1, LedgerReturned DEF Alive
  <2> QED BY <2>3, <2>4
<1>8. CASE Answer(w)
  <2>1. /\ UNCHANGED <<reserved, broker, worth>> /\ pc' = [pc EXCEPT ![w] = "idle"]
        /\ \A v \in Workers : v # w => res'[v] = res[v] /\ req'[v] = req[v]
    BY <1>0, <1>8 DEF Answer, history
  <2>2. ~Keeps(w)'
    BY <1>0, <2>1 DEF Keeps, Out
  <2> QED BY <2>1, <2>2, WorkerKeeps
<1> QED BY <1>1, <1>2, <1>3, <1>4, <1>5, <1>6, <1>7, <1>8 DEF WorkerStep

\* A session that reserved nothing.
LEMMA NothingHeld == \E h \in [Ids -> Nat] : Sum(h, Ids) = 0 /\ \A i \in Ids : h[i] = 0
<1> DEFINE h == [i \in Ids |-> 0]
<1>1. h \in [Ids -> Nat] /\ \A i \in Ids : h[i] = 0 /\ h[i] \in Int
  OBVIOUS
<1>2. {} \in SUBSET Ids /\ \A i \in Ids \ {} : h[i] = 0
  OBVIOUS
<1> HIDE DEF h
<1>3. Sum(h, Ids) = 0
  BY <1>1, <1>2, MotorAssumption, SumSupport, SumEmpty
<1> QED BY <1>1, <1>3

\* At the start nothing is reserved and nothing counts.
LEMMA InitLedger == Init => Ledger
<1> SUFFICES ASSUME Init PROVE Ledger
  OBVIOUS
<1>1. Followed /\ Alone /\ \A w \in Workers : ~Keeps(w)
  BY DEF Init, Followed, Alone, Out, Busy, Keeps
<1>2. PICK h \in [Ids -> Nat] : Sum(h, Ids) = 0 /\ \A i \in Ids : h[i] = 0
  BY NothingHeld
<1>3. worth = [i \in Ids |-> 0] /\ reserved = 0
  BY DEF Init
<1>4. Covered(h)
  BY <1>1, <1>2, <1>3 DEF Covered
<1> QED BY <1>1, <1>3, <1>4, MotorAssumption DEF Ledger

\* Every step keeps the ledger.
LEMMA StepLedger == Claims /\ Telling /\ Ledger /\ [Next]_vars => Ledger'
<1> SUFFICES ASSUME Claims, Telling, Ledger, [Next]_vars PROVE Ledger'
  OBVIOUS
<1>0. Followed'
  BY StepFollowed DEF Ledger
<1>1. CASE \E w \in Workers : WorkerStep(w)
  BY <1>0, <1>1, WorkerLedger
<1>2. CASE \E i \in Ids : BrokerTakes(i) \/ BrokerEnds(i)
  <2>1. PICK i \in Ids : BrokerTakes(i) \/ BrokerEnds(i)
    BY <1>2
  <2>2. UNCHANGED <<pc, req, res, worth, reserved>> /\ broker[i] \in Alive
    BY <2>1 DEF BrokerTakes, BrokerEnds, locals, history, Alive
  <2>3. \A j \in Ids : j # i => broker'[j] = broker[j]
    BY <2>1 DEF BrokerTakes, BrokerEnds, Telling, TellTypes
  <2>4. \A v \in Workers : Keeps(v)' => Keeps(v) /\ req'[v] = req[v]
    BY <2>2 DEF Keeps, Out
  <2>5. worth' \in [Ids -> Nat]
    BY <2>2 DEF Ledger
  <2> QED BY <1>0, <2>2, <2>3, <2>4, <2>5, LedgerKept
<1>3. CASE FlushTakes \/ FlushSends \/ MirrorMoves \/ Start \/ UNCHANGED vars
  <2>1. UNCHANGED <<pc, req, res, worth, reserved, broker>>
    BY <1>3 DEF FlushTakes, FlushSends, MirrorMoves, Start, vars, locals, history
  <2>2. \A v \in Workers : Keeps(v)' => Keeps(v) /\ req'[v] = req[v]
    BY <2>1 DEF Keeps, Out
  <2>3. worth' \in [Ids -> Nat]
    BY <2>1 DEF Ledger
  <2> QED BY <1>0, <2>1, <2>2, <2>3, LedgerKept
<1>4. CASE Crash
  <2>1. worth' = [i \in Ids |-> 0] /\ reserved' = 0 /\ pc' = [w \in Workers |-> "idle"]
    BY <1>4 DEF Crash
  <2>2. \A w \in Workers : ~Keeps(w)'
    BY <2>1 DEF Keeps, Out
  <2>3. PICK h \in [Ids -> Nat] : Sum(h, Ids) = 0 /\ \A i \in Ids : h[i] = 0
    BY NothingHeld
  <2>4. Covered(h)' /\ Alone'
    BY <2>1, <2>2, <2>3 DEF Covered, Alone
  <2> QED BY <1>0, <2>1, <2>4, MotorAssumption DEF Ledger
<1> QED BY <1>1, <1>2, <1>3, <1>4 DEF Next

\* What the ledger says of the orders that count.
LEMMA LedgerEnough == Ledger => LedgerCovers
<1> SUFFICES ASSUME Ledger PROVE LedgerCovers
  OBVIOUS
<1> DEFINE L == {i \in Ids : broker[i] \in {"flying", "live", "ended"}}
<1>1. PICK held \in [Ids -> Nat] : Covered(held)
  BY DEF Ledger
<1>2. MapThenSumSet(LAMBDA i : worth[i], L) = Sum(worth, L)
  BY DEF Sum
<1>3. L \in SUBSET Ids /\ IsFiniteSet(L)
  BY MotorAssumption, FS_Subset
<1>4. \A i \in L : worth[i] \in Int /\ held[i] \in Int /\ worth[i] <= held[i]
  BY <1>1 DEF Covered, Alive, Ledger
<1>5. \A i \in Ids : held[i] \in Nat
  OBVIOUS
<1> HIDE DEF L
<1>6. Sum(worth, L) <= Sum(held, L) /\ Sum(worth, L) \in Int /\ Sum(held, L) \in Int
  BY <1>3, <1>4, SumMonotone, SumInt
<1>7. Sum(held, L) <= Sum(held, Ids) /\ Sum(held, Ids) \in Nat
  BY <1>3, <1>5, MotorAssumption, SumSubset, SumNat
<1>8. Sum(held, Ids) <= reserved /\ reserved \in Nat /\ reserved <= SessionCap
  BY <1>1 DEF Covered, Ledger
<1>9. Sum(worth, L) <= reserved
  BY <1>6, <1>7, <1>8
<1> QED BY <1>2, <1>8, <1>9 DEF LedgerCovers, L

\* The reservations of a session cover every order it sent that is, was or may become
\* one at the broker, for any number of workers, ids and crashes, any prices and any
\* caps: an ambiguous submission is never given back, nothing is given back twice.
THEOREM LedgerSafe == Spec => []LedgerCovers
<1>1. Spec => []Ledger
  BY InitClaims, StepClaims, InitTelling, StepTelling, InitLedger, StepLedger, PTL DEF Spec
<1> QED BY <1>1, LedgerEnough, PTL

=============================================================================
