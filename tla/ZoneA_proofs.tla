--------------------------- MODULE ZoneA_proofs -----------------------------
(***************************************************************************)
(* Proofs about zone A.  First the feeds: the regime detector, the bridge  *)
(* and what Aegis makes of their labels, for any symbols, files, ages and  *)
(* orders of events.  Then the runner of the cognitive core, for any       *)
(* replies, budgets, timeouts and configurations.                          *)
(***************************************************************************)
EXTENDS Feeds, CognitiveRunner, TLAPS

-----------------------------------------------------------------------------
(* The inductive invariants                                                *)

\* A label that says something is about the symbol its model was trained on, from bars
\* that were not too old.
TrueLabel(x) ==
  x.label # "REGIME_UNKNOWN" => /\ x.modelOf = x.symbol
                                /\ x.ts - x.dataAt \in (-MaxDataAge)..MaxDataAge

\* The model in service for a symbol is its own.
IsState(st, s) ==
  /\ DOMAIN st = {"model", "next_train_at", "seen"}
  /\ st.model = NoModel \/ st.model.of = s

Detector ==
  /\ now \in Nat /\ todo \subseteq Symbols /\ known \subseteq Symbols
  /\ DOMAIN states = Symbols /\ \A s \in Symbols : IsState(states[s], s)
  /\ \A m \in messages : m.symbol \in Symbols /\ m.ts \in Nat /\ TrueLabel(m)

\* The newest label of a symbol is its own.
Held ==
  /\ DOMAIN latestRegimes = Symbols
  /\ \A s \in Symbols : /\ latestRegimes[s].ts \in Nat /\ TrueLabel(latestRegimes[s])
                        /\ latestRegimes[s].ts > 0 => latestRegimes[s].symbol = s

\* A push has at most one label of a symbol.
Pushed ==
  /\ DOMAIN push = {"pc", "snapshots", "regimes", "rejected"}
  /\ \A x \in push.regimes : x.ts \in Nat /\ TrueLabel(x)
  /\ \A x, y \in push.regimes : x.symbol = y.symbol => x = y

\* What Aegis has of a symbol is about that symbol.
Shown ==
  \A s \in Symbols : /\ regimes[s] = NoRegime \/ regimes[s].symbol = s
                     /\ TrueLabel(regimes[s])

\* No watermark passes what Aegis accepted, and neither does what an answer on its way
\* will move one to.
Marked ==
  /\ \A s \in Symbols : /\ pushedRegimeTs[s] \in Nat /\ acceptedRegime[s] \in Nat
                        /\ pushedRegimeTs[s] <= acceptedRegime[s]
  /\ push.pc = "answered" =>
       \A x \in push.regimes \ push.rejected :
         x.symbol \in Symbols => x.ts <= acceptedRegime[x.symbol]

FeedInv == Detector /\ Held /\ Pushed /\ Shown /\ Marked

-----------------------------------------------------------------------------
LEMMA UnknownTrue == ASSUME NEW s PROVE TrueLabel(message(s, unknown))
BY DEF TrueLabel, message, unknown

LEMMA NoRegimeTrue == TrueLabel(NoRegime) /\ NoRegime.ts = 0
BY DEF TrueLabel, NoRegime

LEMMA FeedInit == FeedsInit => FeedInv
<1> SUFFICES ASSUME FeedsInit PROVE FeedInv
  OBVIOUS
<1> USE DEF FeedsInit, DetInit, BridgeInit
<1>1. Detector
  BY DEF Detector, IsState, NoState
<1>2. Held
  BY NoRegimeTrue DEF Held, Everywhere
<1>3. Pushed
  BY DEF Pushed, Idle
<1>4. Shown
  BY NoRegimeTrue DEF Shown, Everywhere
<1>5. Marked
  BY DEF Marked, Everywhere, Idle
<1> QED BY <1>1, <1>2, <1>3, <1>4, <1>5 DEF FeedInv

-----------------------------------------------------------------------------
(* The detector                                                            *)

\* A file that verifies for a symbol holds that symbol's model (model_store.py 55-57).
LEMMA LoadOwn == ASSUME NEW s PROVE load(s) = NoModel \/ load(s).of = s
BY DEF load, tag_ok, deserialize_model

LEMMA StateForOwn == ASSUME NEW s \in Symbols, Detector PROVE IsState(state_for(s), s)
<1>1. CASE states[s].seen
  BY <1>1 DEF Detector, state_for
<1>2. CASE ~ states[s].seen
  BY <1>2, LoadOwn DEF state_for, IsState
<1> QED BY <1>1, <1>2

LEMMA AfterTrainingOwn ==
  ASSUME NEW s \in Symbols, NEW task, Detector PROVE IsState(after_training(s, task), s)
<1>1. IsState(states[s], s)
  BY DEF Detector
<1>2. CASE task.status = "trained"
  BY <1>2 DEF after_training, IsState
<1>3. CASE task.status # "trained"
  <2> DEFINE r == [states[s] EXCEPT !.next_train_at = now + TrainRetryBackoff, !.seen = TRUE]
  <2>1. r.model = states[s].model /\ DOMAIN r = DOMAIN states[s]
    BY <1>1 DEF IsState
  <2>2. after_training(s, task) = r
    BY <1>3 DEF after_training
  <2> HIDE DEF r
  <2> QED BY <2>1, <2>2, <1>1 DEF IsState
<1> QED BY <1>2, <1>3

LEMMA CycleStep == ASSUME FeedInv, Cycle PROVE Detector'
<1> USE DEF FeedInv, Cycle
<1>1. DOMAIN states' = Symbols /\ \A s \in Symbols : IsState(states'[s], s)
  <2>1. ASSUME NEW s \in Symbols PROVE IsState(states'[s], s)
    <3>1. states'[s] = after_training(s, training[s]) \/ states'[s] = states[s]
      BY DEF run_cycle, collect_training
    <3> QED BY <3>1, AfterTrainingOwn DEF Detector
  <2> QED BY <2>1 DEF run_cycle, collect_training
<1>2. now' \in Nat /\ todo' \subseteq Symbols /\ known' \subseteq Symbols
  BY DEF run_cycle, Detector
<1>3. \A m \in messages' : m.symbol \in Symbols /\ m.ts \in Nat /\ TrueLabel(m)
  <2>1. CASE messages' = {message(s, unknown) : s \in known}
    BY <2>1, UnknownTrue DEF Detector, message
  <2>2. CASE messages' = messages
    BY <2>2 DEF Detector
  <2> QED BY <2>1, <2>2 DEF run_cycle
<1> QED
  <2>1. \A s \in Symbols : IsState(states[s], s)' 
    BY <1>1 DEF IsState
  <2>2. \A m \in messages' : m.symbol \in Symbols /\ m.ts \in Nat /\ TrueLabel(m)'
    BY <1>3 DEF TrueLabel
  <2> QED BY <1>1, <1>2, <2>1, <2>2 DEF Detector

\* A prediction from bars that are not stale is about the symbol of its model.
LEMMA PredictionTrue ==
  ASSUME NEW s, now \in Nat, NEW st, IsState(st, s), NEW rows \in BarRows, ~ staleness(rows),
         NEW p \in predict_regime(st.model, rows)
  PROVE  TrueLabel(message(s, p))
<1>1. CASE p = unknown
  BY <1>1, UnknownTrue
<1>2. CASE p # unknown
  <2>1. /\ st.model # NoModel
        /\ p = [label |-> "REGIME", modelOf |-> st.model.of, dataAt |-> rows.latest]
    BY <1>2 DEF predict_regime
  <2>2. p.modelOf = s /\ p.dataAt = rows.latest
    BY <2>1 DEF IsState
  <2>3. rows.latest \in Int
    BY FeedAssumption DEF BarRows, Time
  <2>4. now - rows.latest \in (-MaxDataAge)..MaxDataAge
    BY <2>3, FeedAssumption DEF staleness
  <2> QED BY <2>2, <2>4 DEF TrueLabel, message
<1> QED BY <1>1, <1>2

LEMMA EvaluateStep == ASSUME FeedInv, Evaluate PROVE Detector'
<1> USE DEF FeedInv, Evaluate
<1> DEFINE s == CHOOSE x \in todo : TRUE
<1>1. s \in todo /\ s \in Symbols
  BY DEF evaluate_safe, Detector
<1>2. evaluate(s) /\ todo' = todo \ {s} /\ UNCHANGED <<now, files, known>>
  BY DEF evaluate_safe
<1> HIDE DEF s
<1>3. PICK rows \in BarRows :
    IF rows.size \in {"none", "short"} \/ staleness(rows)
    THEN messages' = messages \cup {message(s, unknown)} /\ UNCHANGED <<states, training>>
    ELSE LET state == state_for(s)
         IN  /\ states' = [states EXCEPT ![s] = state]
             /\ training' = maybe_start_training(s, state, rows.size)
             /\ \E p \in predict_regime(state.model, rows) :
                  messages' = messages \cup {message(s, p)}
  BY <1>2 DEF evaluate
<1>4. DOMAIN states' = Symbols /\ \A t \in Symbols : IsState(states'[t], t)
  <2>1. CASE states' = states
    BY <2>1 DEF Detector
  <2>2. CASE states' = [states EXCEPT ![s] = state_for(s)]
    <3>1. IsState(state_for(s), s)
      BY <1>1, StateForOwn
    <3>2. \A t \in Symbols : states'[t] = IF t = s THEN state_for(s) ELSE states[t]
      BY <2>2 DEF Detector
    <3>3. DOMAIN states' = Symbols
      BY <2>2 DEF Detector
    <3> QED BY <3>1, <3>2, <3>3 DEF Detector
  <2> QED BY <2>1, <2>2, <1>3
<1>5. PICK p : /\ messages' = messages \cup {message(s, p)}
               /\ TrueLabel(message(s, p))
  <2>1. CASE messages' = messages \cup {message(s, unknown)}
    BY <2>1, UnknownTrue
  <2>2. CASE ~ staleness(rows) /\ \E p \in predict_regime(state_for(s).model, rows) :
                  messages' = messages \cup {message(s, p)}
    BY <2>2, <1>1, StateForOwn, PredictionTrue DEF Detector
  <2> QED BY <2>1, <2>2, <1>3
<1>6. \A m \in messages' : m.symbol \in Symbols /\ m.ts \in Nat /\ TrueLabel(m)
  <2>1. message(s, p).symbol \in Symbols /\ message(s, p).ts \in Nat
    BY <1>1 DEF message, Detector
  <2> QED BY <2>1, <1>5 DEF Detector
<1> QED
  <2>1. \A t \in Symbols : IsState(states[t], t)'
    BY <1>4 DEF IsState
  <2>2. \A m \in messages' : m.symbol \in Symbols /\ m.ts \in Nat /\ TrueLabel(m)'
    BY <1>6 DEF TrueLabel
  <2>3. now' \in Nat /\ todo' \subseteq Symbols /\ known' \subseteq Symbols
    BY <1>2 DEF Detector
  <2> QED BY <1>4, <2>1, <2>2, <2>3 DEF Detector

-----------------------------------------------------------------------------
(* The bridge and Aegis                                                    *)

LEMMA QuietBridge ==
  ASSUME Held, Pushed, Shown, Marked, UNCHANGED bridgeVars PROVE (Held /\ Pushed /\ Shown /\ Marked)'
<1> USE DEF bridgeVars, batchVars, aegisVars
<1>1. Held'
  BY DEF Held, TrueLabel
<1>2. Pushed'
  BY DEF Pushed, TrueLabel
<1>3. Shown'
  BY DEF Shown, TrueLabel
<1>4. Marked'
  BY DEF Marked
<1> QED BY <1>1, <1>2, <1>3, <1>4

LEMMA QuietDetector == ASSUME Detector, UNCHANGED detVars, UNCHANGED now PROVE Detector'
BY DEF Detector, detVars, IsState, TrueLabel

LEMMA RegimeMessage ==
  ASSUME FeedInv, NEW m \in messages, on_regime_message(m) PROVE (Held /\ Pushed /\ Shown /\ Marked)'
<1> USE DEF FeedInv
<1>1. m.symbol \in Symbols /\ m.ts \in Nat /\ TrueLabel(m)
  BY DEF Detector
<1>2. Held'
  <2>1. CASE latestRegimes' = latestRegimes
    BY <2>1 DEF Held, TrueLabel
  <2>2. CASE latestRegimes' = [latestRegimes EXCEPT ![m.symbol] = m]
    BY <2>2, <1>1 DEF Held, TrueLabel
  <2> QED BY <2>1, <2>2 DEF on_regime_message, record_regime
<1>3. Pushed'
  BY DEF on_regime_message, Pushed, TrueLabel
<1>4. Shown'
  BY DEF on_regime_message, aegisVars, Shown, TrueLabel
<1>5. Marked'
  BY DEF on_regime_message, aegisVars, Marked
<1> QED BY <1>2, <1>3, <1>4, <1>5

\* A batch names the snapshots and the labels it was built from.
LEMMA BatchParts ==
  ASSUME NEW A, NEW B,
         NEW b \in {[pc |-> "sent", snapshots |-> S, regimes |-> R, rejected |-> {}] :
                      S \in A, R \in B}
  PROVE  \E S \in A, R \in B :
           b = [pc |-> "sent", snapshots |-> S, regimes |-> R, rejected |-> {}]
OBVIOUS

LEMMA PushStep == ASSUME FeedInv, PushOnce PROVE (Held /\ Pushed /\ Shown /\ Marked)'
<1> USE DEF FeedInv, PushOnce, batchVars, aegisVars
<1>1. PICK S \in OldestFirst(Due(latest, pushedAsOf)),
          R \in OldestFirst(Due(latestRegimes, pushedRegimeTs)) :
        push' = [pc |-> "sent", snapshots |-> S, regimes |-> R, rejected |-> {}]
  <2>1. push' \in build_batch
    OBVIOUS
  <2> QED BY <2>1, BatchParts DEF build_batch
<1>2. R \subseteq Due(latestRegimes, pushedRegimeTs)
  BY DEF OldestFirst
<1>3. \A x \in R : x.symbol \in Symbols /\ x = latestRegimes[x.symbol]
  <2> TAKE x \in R
  <2>1. PICK s \in Symbols : x = latestRegimes[s] /\ latestRegimes[s].ts > pushedRegimeTs[s]
    BY <1>2 DEF Due
  <2>2. latestRegimes[s].ts > 0
    BY <2>1 DEF Marked, Held
  <2> QED BY <2>1, <2>2 DEF Held
<1>4. push'.pc = "sent" /\ push'.regimes = R /\ DOMAIN push' = {"pc", "snapshots", "regimes", "rejected"}
  BY <1>1
<1>5. Pushed'
  <2>1. \A x \in R : x.ts \in Nat /\ TrueLabel(x)
    BY <1>3 DEF Held
  <2>2. \A x, y \in R : x.symbol = y.symbol => x = y
    BY <1>3
  <2> QED BY <2>1, <2>2, <1>4 DEF Pushed, TrueLabel
<1>6. Held' /\ Shown'
  BY DEF Held, Shown, TrueLabel
<1>7. Marked'
  BY <1>4 DEF Marked
<1> QED BY <1>5, <1>6, <1>7

LEMMA IngestStep == ASSUME FeedInv, ingest PROVE (Held /\ Pushed /\ Shown /\ Marked)'
<1> USE DEF FeedInv, batchVars, aegisVars
<1> DEFINE s == Taken(push.snapshots, MaxRefAge, prices)
           r == Taken(push.regimes, MaxRegimeAge, regimes)
<1>1. /\ regimes' = Put(regimes, r) /\ acceptedRegime' = Accept(acceptedRegime, r)
      /\ push' = [push EXCEPT !.pc = "answered",
                              !.rejected = (push.snapshots \ s) \cup (push.regimes \ r)]
      /\ UNCHANGED <<now, batchVars>>
  BY DEF ingest
<1>2. r \subseteq push.regimes
  BY DEF Taken
<1> HIDE DEF s, r
<1>3. /\ push'.pc = "answered" /\ push'.regimes = push.regimes
      /\ push'.rejected = (push.snapshots \ s) \cup (push.regimes \ r)
      /\ DOMAIN push' = DOMAIN push
  BY <1>1 DEF Pushed
<1>4. ASSUME NEW t \in Symbols, NEW x \in r, x.symbol = t
      PROVE  (CHOOSE y \in r : y.symbol = t) = x
  BY <1>2, <1>4 DEF Pushed
<1>5. ASSUME NEW t \in Symbols
      PROVE  /\ acceptedRegime'[t] \in Nat /\ acceptedRegime[t] <= acceptedRegime'[t]
             /\ \A x \in r : x.symbol = t => x.ts <= acceptedRegime'[t]
  <2>1. acceptedRegime[t] \in Nat
    BY DEF Marked
  <2>2. \A x \in r : x.ts \in Nat
    BY <1>2 DEF Pushed
  <2>3. CASE \E x \in r : x.symbol = t /\ x.ts > acceptedRegime[t]
    <3>1. PICK x \in r : x.symbol = t /\ x.ts > acceptedRegime[t]
      BY <2>3
    <3>2. acceptedRegime'[t] = x.ts
      BY <1>1, <2>3, <3>1, <1>4 DEF Accept
    <3>3. \A y \in r : y.symbol = t => y = x
      BY <3>1, <1>2 DEF Pushed
    <3> QED BY <3>1, <3>2, <3>3, <2>1, <2>2
  <2>4. CASE ~ \E x \in r : x.symbol = t /\ x.ts > acceptedRegime[t]
    <3>1. acceptedRegime'[t] = acceptedRegime[t]
      BY <1>1, <2>4 DEF Accept
    <3> QED BY <3>1, <2>4, <2>1, <2>2
  <2> QED BY <2>3, <2>4
<1>6. Held'
  BY <1>1 DEF Held, TrueLabel
<1>7. Pushed'
  BY <1>3 DEF Pushed, TrueLabel
<1>8. Shown'
  <2>1. ASSUME NEW t \in Symbols
        PROVE  (regimes'[t] = NoRegime \/ regimes'[t].symbol = t) /\ TrueLabel(regimes'[t])
    <3>1. CASE \E x \in r : x.symbol = t
      <4>1. PICK x \in r : x.symbol = t
        BY <3>1
      <4>2. regimes'[t] = x
        BY <1>1, <3>1, <4>1, <1>4 DEF Put
      <4> QED BY <4>1, <4>2, <1>2 DEF Pushed
    <3>2. CASE ~ \E x \in r : x.symbol = t
      <4>1. regimes'[t] = regimes[t]
        BY <1>1, <3>2 DEF Put
      <4> QED BY <4>1 DEF Shown
    <3> QED BY <3>1, <3>2
  <2> QED BY <2>1 DEF Shown, TrueLabel
<1>9. Marked'
  <2>1. \A t \in Symbols : /\ pushedRegimeTs'[t] \in Nat /\ acceptedRegime'[t] \in Nat
                           /\ pushedRegimeTs'[t] <= acceptedRegime'[t]
    BY <1>1, <1>5 DEF Marked
  <2>2. \A x \in push'.regimes \ push'.rejected :
          x.symbol \in Symbols => x.ts <= acceptedRegime'[x.symbol]
    BY <1>3, <1>5
  <2> QED BY <2>1, <2>2 DEF Marked
<1> QED BY <1>6, <1>7, <1>8, <1>9

LEMMA AnswerStep == ASSUME FeedInv, Answer PROVE (Held /\ Pushed /\ Shown /\ Marked)'
<1> USE DEF FeedInv, aegisVars
<1> DEFINE a == push.regimes \ push.rejected
<1>1. /\ push' = Idle /\ UNCHANGED <<latestRegimes, regimes, acceptedRegime>>
      /\ pushedRegimeTs' = [s \in Symbols |->
           IF \E x \in a : x.symbol = s /\ x.ts > pushedRegimeTs[s]
           THEN (CHOOSE x \in a : x.symbol = s).ts ELSE pushedRegimeTs[s]]
  BY DEF Answer, mark_applied, applied
<1>2. \A x, y \in a : x.symbol = y.symbol => x = y
  BY DEF Pushed
<1>3. \A x \in a : x.ts \in Nat /\ (x.symbol \in Symbols => x.ts <= acceptedRegime[x.symbol])
  BY DEF Pushed, Marked, Answer
<1> HIDE DEF a
<1>4. \A s \in Symbols : /\ pushedRegimeTs'[s] \in Nat /\ acceptedRegime'[s] \in Nat
                         /\ pushedRegimeTs'[s] <= acceptedRegime'[s]
  <2> TAKE s \in Symbols
  <2>1. CASE \E x \in a : x.symbol = s /\ x.ts > pushedRegimeTs[s]
    <3>1. PICK x \in a : x.symbol = s
      BY <2>1
    <3>2. (CHOOSE y \in a : y.symbol = s) = x
      BY <3>1, <1>2
    <3>3. pushedRegimeTs'[s] = x.ts
      BY <1>1, <2>1, <3>2
    <3> QED BY <3>1, <3>3, <1>3, <1>1 DEF Marked
  <2>2. CASE ~ \E x \in a : x.symbol = s /\ x.ts > pushedRegimeTs[s]
    <3>1. pushedRegimeTs'[s] = pushedRegimeTs[s]
      BY <1>1, <2>2
    <3> QED BY <3>1, <1>1 DEF Marked
  <2> QED BY <2>1, <2>2
<1>5. Held' /\ Shown'
  BY <1>1 DEF Held, Shown, TrueLabel
<1>6. Pushed' /\ Marked'
  BY <1>1, <1>4 DEF Pushed, Marked, Idle
<1> QED BY <1>5, <1>6

LEMMA FailsStep == ASSUME FeedInv, PushFails PROVE (Held /\ Pushed /\ Shown /\ Marked)'
<1> USE DEF FeedInv, PushFails, batchVars, aegisVars
<1>1. Held' /\ Shown'
  BY DEF Held, Shown, TrueLabel
<1>2. Pushed' /\ Marked'
  BY DEF Pushed, Marked, Idle
<1> QED BY <1>1, <1>2

LEMMA BridgeRestartStep == ASSUME FeedInv, BridgeRestart PROVE (Held /\ Pushed /\ Shown /\ Marked)'
<1> USE DEF FeedInv, BridgeRestart, aegisVars
<1>1. Held'
  BY NoRegimeTrue DEF Held, Everywhere, TrueLabel
<1>2. Shown'
  BY DEF Shown, TrueLabel
<1>3. Pushed' /\ Marked'
  BY DEF Pushed, Marked, Idle, Everywhere
<1> QED BY <1>1, <1>2, <1>3

LEMMA AegisRestartStep == ASSUME FeedInv, AegisRestart PROVE (Held /\ Pushed /\ Shown /\ Marked)'
<1> USE DEF FeedInv, AegisRestart, batchVars
<1>1. Held'
  BY DEF Held, TrueLabel
<1>2. Shown'
  BY NoRegimeTrue DEF Shown, TrueLabel, Everywhere
<1>3. Pushed'
  BY DEF Pushed, TrueLabel
<1>4. Marked'
  BY DEF Marked
<1> QED BY <1>1, <1>2, <1>3, <1>4

-----------------------------------------------------------------------------
LEMMA FeedStep == FeedInv /\ [FeedsNext]_feedsVars => FeedInv'
<1> SUFFICES ASSUME FeedInv, [FeedsNext]_feedsVars PROVE FeedInv'
  OBVIOUS
<1> DEFINE Bridge == Held /\ Pushed /\ Shown /\ Marked
<1>0. FeedInv' <=> Detector' /\ Bridge'
  BY DEF FeedInv
<1>q. UNCHANGED bridgeVars => Bridge'
  BY QuietBridge DEF FeedInv
<1>d. UNCHANGED <<now, detVars>> => Detector'
  BY QuietDetector DEF FeedInv
<1> HIDE DEF Bridge
<1>1. CASE Tick
  <2>1. Detector'
    BY <1>1 DEF Tick, FeedInv, Detector, detVars, IsState, TrueLabel
  <2> QED BY <2>1, <1>1, <1>q, <1>0 DEF Tick
<1>2. CASE Cycle
  BY <1>2, CycleStep, <1>q, <1>0 DEF Cycle
<1>3. CASE Evaluate
  BY <1>3, EvaluateStep, <1>q, <1>0 DEF Evaluate
<1>4. CASE Train
  <2>1. UNCHANGED <<now, states, known, todo, messages>>
    BY <1>4 DEF Train, train
  <2>2. Detector'
    BY <2>1 DEF FeedInv, Detector, IsState, TrueLabel
  <2> QED BY <2>2, <1>4, <1>q, <1>0 DEF Train
<1>5. CASE Publish
  <2>1. PICK m \in messages : publish(m) /\ (on_regime_message(m) \/ UNCHANGED bridgeVars)
    BY <1>5 DEF Publish
  <2>2. Detector'
    BY <2>1 DEF publish, FeedInv, Detector, IsState, TrueLabel
  <2>3. Bridge'
    BY <2>1, <1>q, RegimeMessage DEF Bridge
  <2> QED BY <2>2, <2>3, <1>0
<1>6. CASE Snapshot
  <2>1. UNCHANGED <<now, latestRegimes, pushedRegimeTs, push, aegisVars>>
    BY <1>6 DEF Snapshot, on_snapshot_message
  <2>2. Bridge'
    <3>1. Held' /\ Shown'
      BY <2>1 DEF FeedInv, Held, Shown, TrueLabel, aegisVars
    <3>2. Pushed'
      BY <2>1 DEF FeedInv, Pushed, TrueLabel
    <3>3. Marked'
      BY <2>1 DEF FeedInv, Marked, aegisVars
    <3> QED BY <3>1, <3>2, <3>3 DEF Bridge
  <2> QED BY <2>1, <2>2, <1>6, <1>d, <1>0 DEF Snapshot
<1>7. CASE Push
  <2>1. UNCHANGED <<now, detVars>> /\ PushOnce
    BY <1>7 DEF Push, PushOnce
  <2> QED BY <2>1, <1>d, PushStep, <1>0 DEF Bridge
<1>8. CASE Ingest
  <2>1. UNCHANGED <<now, detVars>> /\ ingest
    BY <1>8 DEF Ingest, ingest
  <2> QED BY <2>1, <1>d, IngestStep, <1>0 DEF Bridge
<1>9. CASE Answered
  <2>1. UNCHANGED <<now, detVars>> /\ Answer
    BY <1>9 DEF Answered, Answer
  <2> QED BY <2>1, <1>d, AnswerStep, <1>0 DEF Bridge
<1>10. CASE Failed
  <2>1. UNCHANGED <<now, detVars>> /\ PushFails
    BY <1>10 DEF Failed, PushFails
  <2> QED BY <2>1, <1>d, FailsStep, <1>0 DEF Bridge
<1>11. CASE Crash
  <2>1. CASE Restart /\ UNCHANGED bridgeVars
    <3>1. Detector'
      BY <2>1 DEF Restart, FeedInv, Detector, IsState, NoState
    <3> QED BY <3>1, <2>1, <1>q, <1>0
  <2>2. CASE BridgeRestart /\ UNCHANGED detVars
    <3>1. UNCHANGED <<now, detVars>>
      BY <2>2 DEF BridgeRestart
    <3> QED BY <3>1, <2>2, <1>d, BridgeRestartStep, <1>0 DEF Bridge
  <2>3. CASE AegisRestart /\ UNCHANGED detVars
    <3>1. UNCHANGED <<now, detVars>>
      BY <2>3 DEF AegisRestart
    <3> QED BY <3>1, <2>3, <1>d, AegisRestartStep, <1>0 DEF Bridge
  <2> QED BY <1>11, <2>1, <2>2, <2>3 DEF Crash
<1>12. CASE UNCHANGED feedsVars
  <2>1. UNCHANGED <<now, detVars>> /\ UNCHANGED bridgeVars
    BY <1>12 DEF feedsVars
  <2> QED BY <2>1, <1>q, <1>d, <1>0
<1> QED
  BY <1>1, <1>2, <1>3, <1>4, <1>5, <1>6, <1>7, <1>8, <1>9, <1>10, <1>11, <1>12 DEF FeedsNext

-----------------------------------------------------------------------------
\* A regime Aegis acts on was concluded for its own symbol by a model trained on that
\* symbol, from bars that were not too old (model_store.py 55-57, service.py 157-166):
\* for any symbols, model files, ages and clocks, whichever of the detector, the bridge
\* and Aegis restarts.
THEOREM RegimesTrue == FeedsSpec => []AegisRegimeTrue
<1>1. FeedInv => AegisRegimeTrue
  <2> SUFFICES ASSUME FeedInv, NEW s \in Symbols, regimes[s].label # "REGIME_UNKNOWN"
      PROVE  /\ regimes[s].symbol = s /\ regimes[s].modelOf = s
             /\ regimes[s].ts - regimes[s].dataAt \in (-MaxDataAge)..MaxDataAge
    BY DEF AegisRegimeTrue
  <2>1. regimes[s].symbol = s
    BY DEF FeedInv, Shown, NoRegime
  <2> QED BY <2>1 DEF FeedInv, Shown, TrueLabel
<1> QED BY <1>1, FeedInit, FeedStep, PTL DEF FeedsSpec

\* The bridge's watermark of a symbol's label (batch.py 85-87) never passes the label
\* Aegis accepted, whatever is lost, answered late or renewed during a push.
THEOREM WatermarksTrue == FeedsSpec => []RegimeWatermarkTrue
<1>1. FeedInv => RegimeWatermarkTrue
  BY DEF FeedInv, Marked, RegimeWatermarkTrue
<1> QED BY <1>1, FeedInit, FeedStep, PTL DEF FeedsSpec


-----------------------------------------------------------------------------
(* The inductive invariants                                                *)

Nodes == {"blue", "red", "judge"}
Fields == {"snap", "precedents", "elapsed", "blue", "red", "judge", "heard", "finished",
           "signal", "recordable", "context", "decision"}

\* While the debate runs, and while a message is in hand.
Thinking == {"blue", "red", "judge", "compression"}
InHand == Thinking \cup {"recall", "signal", "submit", "relay", "record"}

\* The snapshots that may wait: published ones, of any age.
Waiting == {[m EXCEPT !.age = a] : m \in Messages, a \in Int}

\* A debate that can be reasoned about.
Shape(b) ==
  /\ DOMAIN b = Fields /\ b.heard \subseteq Nodes
  /\ {"regime", "age"} \subseteq DOMAIN b.snap /\ b.snap.age \in Int

\* A statement that is not a stand-in was made by a model that answered.
Spoken(b) ==
  /\ ~ b.blue.forced_completion => "blue" \in b.heard
  /\ ~ b.red.forced_completion => "red" \in b.heard
  /\ ~ b.judge.defaulted_abstain => "judge" \in b.heard /\ b.judge \in JudgeVerdict

\* The precedents of a debate are seeds or were earned, and of its snapshot's regime.
Genuine(b) ==
  \A row \in b.precedents : /\ row.kind # "seed" => row.earned /\ row.age < Retention
                            /\ row.regime = b.snap.regime

Whole(b) == Shape(b) /\ Spoken(b) /\ Genuine(b)

\* A row of the memory that is no seed was earned.
GoodRow(row) ==
  /\ DOMAIN row = {"kind", "regime", "age", "earned"} /\ row.age \in Int
  /\ row.kind # "seed" => row.earned

\* The rows of the collection and of the writes under way.
RowsGood == /\ \A row \in memory : GoodRow(row)
            /\ \A row \in landing : GoodRow(row)

Typed ==
  /\ config \in Configs /\ queue \in Seq(Waiting)
  /\ pc \in InHand \cup {"loop", "wait", "exited"}
  /\ pc \in Thinking => debate.elapsed \in 0..Deadline

\* A beat is followed by the wait, the recall, the debate, the two calls and the record,
\* each within its timeout.
Paced ==
  /\ beat \in Nat
  /\ pc \in {"wait", "recall"} => beat <= Heartbeat
  /\ pc \in Thinking => beat <= Heartbeat + RecallTimeout + debate.elapsed
  /\ pc \in {"signal", "submit"} => beat <= Heartbeat + RecallTimeout + Deadline
  /\ pc = "relay" => beat <= Heartbeat + RecallTimeout + Deadline + AegisTimeout
  /\ pc = "record" =>
       beat <= Heartbeat + RecallTimeout + Deadline + AegisTimeout + MotorTimeout
  /\ pc = "loop" => beat <= Heartbeat + CycleTime

\* The snapshot in hand has a price, and grows older only by the time spent on it.
Current ==
  pc \in InHand =>
    /\ {"price", "vol"} \subseteq DOMAIN debate.snap
    /\ debate.snap.price \in Int /\ debate.snap.vol \in Int
    /\ pc = "recall" => debate.snap.age <= MaxAge
    /\ pc \in Thinking => debate.snap.age <= MaxAge + RecallTimeout + debate.elapsed
    /\ pc \in {"signal", "submit"} => debate.snap.age <= Allowance

\* A signal that can be traded, with what it was made from.
Backed(b) ==
  /\ b.heard = Nodes /\ b.context = Nodes
  /\ b.signal.verdict.p_success * b.signal.verdict.reward
       > b.signal.verdict.p_failure * b.signal.verdict.risk
  /\ signal_invariants(b.signal)
  /\ config.sizer.kind # "fixed" => b.signal.quantity * b.snap.price <= config.sizer.cap

Earned ==
  /\ pc \in {"submit", "relay"} /\ Actionable(debate.signal) => Backed(debate)
  /\ pc = "relay" => approved_with_attestation(debate.decision)
  /\ pc \in {"submit", "relay"} /\ debate.recordable => debate.heard = Nodes
  /\ pc = "record" => debate.heard = Nodes

RunnerInv == Typed /\ Paced /\ Current /\ Earned /\ Whole(debate) /\ RowsGood

-----------------------------------------------------------------------------
(* Arithmetic and records                                                  *)

LEMMA LeastBelow ==
  ASSUME NEW a \in Int, NEW b \in Int
  PROVE  Least(a, b) \in Int /\ Least(a, b) <= a /\ Least(a, b) <= b /\ Least(a, b) \in {a, b}
BY DEF Least

\* What a snapshot is after some time: as before, but for its age.
GrownBy(m, n, d) ==
  /\ DOMAIN m = DOMAIN n /\ m.age \in Int /\ m.age <= n.age + d
  /\ \A f \in DOMAIN n : f # "age" => m[f] = n[f]

LEMMA OlderGrown ==
  ASSUME NEW m, "age" \in DOMAIN m, m.age \in Int, NEW d \in Nat, NEW cap \in Int
  PROVE  GrownBy(Older(m, d, cap), m, d)
<1> DEFINE n == Least(m.age + d, cap)
<1>1. n \in Int /\ n <= m.age + d
  BY LeastBelow
<1>2. Older(m, d, cap) = [m EXCEPT !.age = n]
  BY DEF Older
<1> HIDE DEF n
<1> QED BY <1>1, <1>2 DEF GrownBy

LEMMA OlderWaiting ==
  ASSUME NEW x \in Waiting, NEW d \in Nat, NEW cap \in Int PROVE Older(x, d, cap) \in Waiting
<1>1. PICK m \in Messages, a \in Int : x = [m EXCEPT !.age = a]
  BY DEF Waiting
<1>2. "age" \in DOMAIN m
  BY InputAssumption
<1>3. x.age = a
  BY <1>1, <1>2
<1> DEFINE n == Least(x.age + d, cap)
<1>4. n \in Int
  BY <1>3, LeastBelow
<1>5. Older(x, d, cap) = [x EXCEPT !.age = n]
  BY DEF Older
<1> HIDE DEF n
<1>6. [x EXCEPT !.age = n] = [m EXCEPT !.age = n]
  BY <1>1
<1> QED BY <1>4, <1>5, <1>6 DEF Waiting

LEMMA TimePasses ==
  ASSUME Typed, Paced, NEW d \in Nat, Passes(d)
  PROVE  queue' \in Seq(Waiting) /\ beat' \in Nat /\ beat' <= beat + d
<1>1. MaxAge \in Nat /\ MaxBeatAge \in Nat
  BY RunnerAssumption
<1>2. queue' \in Seq(Waiting)
  <2>1. queue \in Seq(Waiting)
    BY DEF Typed
  <2>2. \A i \in DOMAIN queue : queue[i] \in Waiting
    BY <2>1
  <2>3. \A i \in DOMAIN queue : Older(queue[i], d, MaxAge + 1) \in Waiting
    BY <2>2, <1>1, OlderWaiting
  <2>4. queue' = [i \in DOMAIN queue |-> Older(queue[i], d, MaxAge + 1)]
    BY DEF Passes
  <2>5. PICK n \in Nat : DOMAIN queue = 1..n
    BY <2>1
  <2>6. queue' \in [1..n -> Waiting]
    BY <2>3, <2>4, <2>5
  <2> QED BY <2>6
<1>3. beat \in Nat /\ beat' = Least(beat + d, MaxBeatAge + 1)
  BY DEF Passes, Paced
<1>4. beat' \in Int /\ beat' <= beat + d /\ beat' \in {beat + d, MaxBeatAge + 1}
  BY <1>1, <1>3, LeastBelow
<1> QED BY <1>1, <1>2, <1>3, <1>4

LEMMA LaterParts ==
  ASSUME NEW b, DOMAIN b = Fields, "age" \in DOMAIN b.snap, b.snap.age \in Int, NEW d \in Nat
  PROVE  /\ DOMAIN Later(b, d) = Fields
         /\ GrownBy(Later(b, d).snap, b.snap, d)
         /\ Later(b, d).elapsed = Least(b.elapsed + d, Deadline)
         /\ \A f \in Fields \ {"snap", "elapsed"} : Later(b, d)[f] = b[f]
<1>1. GrownBy(Older(b.snap, d, Allowance + 1), b.snap, d)
  BY OlderGrown, RunnerAssumption DEF Allowance
<1> QED BY <1>1 DEF Later, Fields

-----------------------------------------------------------------------------
(* The memory                                                              *)

LEMMA AgedGood == ASSUME NEW row, GoodRow(row), NEW d \in Nat PROVE GoodRow(Aged(row, d))
BY MemoryAssumption DEF GoodRow, Aged

LEMMA RecordGood == ASSUME NEW regime PROVE GoodRow(MemoryRecord(regime, TRUE))
BY DEF GoodRow, MemoryRecord

LEMMA MemTime == ASSUME RowsGood, NEW d \in Nat, MemPasses(d) PROVE RowsGood'
BY AgedGood DEF RowsGood, MemPasses, GoodRow

\* A recall answers rows that are still kept, of the regime asked for (memory.py 105-138).
LEMMA RecallGenuine ==
  ASSUME RowsGood, NEW regime, NEW P \in recall(regime), NEW row \in P
  PROVE  (row.kind # "seed" => row.earned /\ row.age < Retention) /\ row.regime = regime
<1>1. row \in memory /\ build_where(row, regime)
  BY DEF recall, query
<1>2. GoodRow(row)
  BY <1>1 DEF RowsGood
<1> QED BY <1>1, <1>2, MemoryAssumption DEF build_where, expired, GoodRow

LEMMA WriteGood ==
  ASSUME RowsGood, NEW regime, NEW d \in Nat, write_debate(regime, TRUE, d) PROVE RowsGood'
<1> DEFINE new == MemoryRecord(regime, TRUE)
<1>1. add(new, d)
  BY DEF write_debate
<1>2. GoodRow(new)
  BY RecordGood
<1> HIDE DEF new
<1>3. \A row \in memory : GoodRow(Aged(row, d))
  BY AgedGood DEF RowsGood
<1>4. \A row \in landing : GoodRow(Aged(row, d))
  BY AgedGood DEF RowsGood
<1>5. \A row \in memory' : GoodRow(row)
  BY <1>1, <1>2, <1>3 DEF add, MemPasses
<1>6. \A row \in landing' : GoodRow(row)
  BY <1>1, <1>2, <1>4 DEF add, MemPasses
<1> QED BY <1>5, <1>6 DEF RowsGood, GoodRow

-----------------------------------------------------------------------------
(* The debate                                                              *)

LEMMA FreshParts ==
  ASSUME NEW m
  PROVE  /\ DOMAIN Fresh(m) = Fields /\ Fresh(m).snap = m /\ Fresh(m).precedents = {}
         /\ Fresh(m).elapsed = 0 /\ Fresh(m).blue.forced_completion
         /\ Fresh(m).red.forced_completion /\ Fresh(m).judge.defaulted_abstain
         /\ Fresh(m).heard = {} /\ Fresh(m).signal = abstain_signal
         /\ ~ Fresh(m).recordable
BY DEF Fresh, Fields, ForcedBlue, ForcedRed, default_abstain


\* A fresh debate has nobody's word and no precedents.
LEMMA FreshWhole ==
  ASSUME NEW m, {"regime", "age"} \subseteq DOMAIN m, m.age \in Int PROVE Whole(Fresh(m))
BY FreshParts DEF Whole, Shape, Spoken, Genuine

LEMMA NoDebateWhole == Whole(NoDebate)
BY FreshWhole DEF NoDebate, NoMessage

\* What a debate that went on may have changed: time passed.
Ran(b, c, d) ==
  /\ DOMAIN b = Fields /\ GrownBy(b.snap, c.snap, d)
  /\ b.precedents \in {c.precedents, {}}

LEMMA RanGenuine ==
  ASSUME NEW b, NEW c, NEW d, Whole(c), Ran(b, c, d)
  PROVE  Genuine(b) /\ {"regime", "age"} \subseteq DOMAIN b.snap /\ b.snap.age \in Int
BY DEF Whole, Shape, Genuine, Ran, GrownBy

LEMMA LaterRan ==
  ASSUME NEW c, Whole(c), NEW d \in Nat PROVE Ran(Later(c, d), c, d)
BY LaterParts DEF Whole, Shape, Ran, Fields

LEMMA SameRan == ASSUME NEW c, Whole(c) PROVE GrownBy(c.snap, c.snap, 0)
BY DEF Whole, Shape, GrownBy

-----------------------------------------------------------------------------
LEMMA RunnerInit == Init => RunnerInv
<1> SUFFICES ASSUME Init PROVE RunnerInv
  OBVIOUS
<1>1. Whole(debate)
  BY NoDebateWhole DEF Init
<1>2. RowsGood
  BY DEF Init, MemInit, seed_store, records, RowsGood, GoodRow
<1>3. pc \in {"loop", "exited"} /\ queue = <<>> /\ beat = 0 /\ config \in Configs
  BY DEF Init
<1>4. Typed /\ Current /\ Earned
  BY <1>3 DEF Typed, Current, Earned, InHand, Thinking
<1>5. Heartbeat + CycleTime \in Nat
  BY RunnerAssumption, MemoryAssumption DEF CycleTime
<1>6. Paced
  BY <1>3, <1>5 DEF Paced, Thinking
<1> QED BY <1>1, <1>2, <1>4, <1>6 DEF RunnerInv

\* With no message in hand, only the beat has a bound.
LEMMA OutOfHand ==
  ASSUME RunnerInv, config' = config, queue' \in Seq(Waiting), RowsGood', Whole(debate'),
         pc' \in {"loop", "wait", "exited"}, beat' \in Nat,
         pc' = "wait" => beat' <= Heartbeat, pc' = "loop" => beat' <= Heartbeat + CycleTime
  PROVE  RunnerInv'
<1>1. Typed'
  BY DEF RunnerInv, Typed, Thinking
<1>2. Paced'
  BY DEF Paced, Thinking
<1>3. Current'
  BY DEF Current, InHand, Thinking
<1>4. Earned'
  BY DEF Earned
<1> QED BY <1>1, <1>2, <1>3, <1>4 DEF RunnerInv, Whole, Shape, Spoken, Genuine

\* What the environment does leaves the runner where it is.
LEMMA Outside ==
  ASSUME RunnerInv, UNCHANGED <<config, pc, debate, beat>>, queue' \in Seq(Waiting), RowsGood'
  PROVE  RunnerInv'
<1> USE DEF RunnerInv
<1>1. Typed'
  BY DEF Typed
<1>2. Paced'
  BY DEF Paced
<1>3. Current'
  BY DEF Current
<1>4. Earned'
  BY DEF Earned, Backed
<1>5. Whole(debate)'
  BY DEF Whole, Shape, Spoken, Genuine
<1> QED BY <1>1, <1>2, <1>3, <1>4, <1>5

LEMMA PumpStep == ASSUME RunnerInv, Pump PROVE RunnerInv'
<1>1. queue \in Seq(Waiting)
  BY DEF RunnerInv, Typed
<1>2. PICK m \in Messages, age \in Ages :
        queue' = Append(IF Len(queue) = QueueSize THEN Tail(queue) ELSE queue,
                        [m EXCEPT !.age = age])
  BY DEF Pump
<1>3. [m EXCEPT !.age = age] \in Waiting
  BY InputAssumption DEF Waiting
<1>4. queue' \in Seq(Waiting)
  <2> DEFINE room == IF Len(queue) = QueueSize THEN Tail(queue) ELSE queue
  <2>1. room \in Seq(Waiting)
    BY <1>1, RunnerAssumption
  <2> HIDE DEF room
  <2>2. queue' = Append(room, [m EXCEPT !.age = age])
    BY <1>2 DEF room
  <2> QED BY <2>1, <2>2, <1>3
<1>5. RowsGood'
  BY DEF RunnerInv, RowsGood, Pump, memVars, GoodRow
<1> QED BY <1>4, <1>5, Outside DEF Pump, env

LEMMA LandStep == ASSUME RunnerInv, MemoryLands PROVE RunnerInv'
<1>1. PICK row \in landing : landing' = landing \ {row} /\ memory' \in {memory, memory \cup {row}}
  BY DEF MemoryLands, Land
<1>2. RowsGood'
  BY <1>1 DEF RunnerInv, RowsGood, GoodRow
<1>3. UNCHANGED <<config, queue, pc, debate, beat>>
  BY DEF MemoryLands, env
<1> QED BY <1>2, <1>3, Outside DEF RunnerInv, Typed

LEMMA LoopStep == ASSUME RunnerInv, Loop PROVE RunnerInv'
<1> USE DEF RunnerInv
<1>1. RowsGood'
  BY DEF Loop, memVars, RowsGood, GoodRow
<1>2. UNCHANGED <<config, queue, debate>>
  BY DEF Loop, env
<1>3. beat' \in Nat /\ (pc' = "wait" => beat' <= Heartbeat) /\ pc' \in {"wait", "exited"}
  BY RunnerAssumption DEF Loop, Paced
<1> QED BY <1>1, <1>2, <1>3, OutOfHand DEF Typed

LEMMA WaitStep == ASSUME RunnerInv, Wait PROVE RunnerInv'
<1> USE DEF RunnerInv
<1>1. Heartbeat \in Nat /\ Heartbeat <= Heartbeat + CycleTime
  BY RunnerAssumption, MemoryAssumption DEF CycleTime
<1>2. UNCHANGED <<config, debate>> /\ pc = "wait"
  BY DEF Wait, env
<1>3. beat \in Nat /\ beat <= Heartbeat
  BY <1>2 DEF Paced
<1>4. CASE beat < Heartbeat
  <2>1. Passes(1) /\ MemPasses(1) /\ pc' = "wait"
    BY <1>4, <1>2 DEF Wait
  <2>2. queue' \in Seq(Waiting) /\ beat' \in Nat /\ beat' <= beat + 1
    BY <2>1, TimePasses
  <2>3. RowsGood'
    BY <2>1, MemTime
  <2> QED BY <1>1, <1>2, <1>3, <1>4, <2>1, <2>2, <2>3, OutOfHand
<1>5. CASE ~ (beat < Heartbeat)
  <2>1. pc' = "loop" /\ UNCHANGED <<queue, beat, memVars>>
    BY <1>5 DEF Wait
  <2>2. RowsGood'
    BY <2>1 DEF memVars, RowsGood, GoodRow
  <2>3. beat' <= Heartbeat + CycleTime
    BY <1>1, <1>3, <2>1, RunnerAssumption, MemoryAssumption DEF CycleTime
  <2> QED BY <1>1, <1>2, <1>3, <2>1, <2>2, <2>3, OutOfHand DEF Typed
<1> QED BY <1>4, <1>5

LEMMA GetStep == ASSUME RunnerInv, Get PROVE RunnerInv'
<1> USE DEF RunnerInv
<1> DEFINE m == Head(queue)
<1>1. Heartbeat \in Nat /\ CycleTime \in Nat
  BY RunnerAssumption, MemoryAssumption DEF CycleTime
<1>2. pc = "wait" /\ queue # <<>> /\ queue' = Tail(queue) /\ UNCHANGED <<config, beat, memVars>>
  BY DEF Get, env
<1>3. queue' \in Seq(Waiting) /\ m \in Waiting
  BY <1>2 DEF Typed
<1>4. RowsGood'
  BY <1>2 DEF memVars, RowsGood, GoodRow
<1>5. beat \in Nat /\ beat <= Heartbeat
  BY <1>2 DEF Paced
<1>6. CASE Take(m)
  <2>1. debate' = Fresh(m) /\ pc' = "recall"
    BY <1>6 DEF Get
  <2>2. PICK n \in Messages, a \in Int : m = [n EXCEPT !.age = a]
    <3> HIDE DEF m
    <3> QED BY <1>3 DEF Waiting
  <2> HIDE DEF m
  <2>3. /\ {"symbol", "regime", "age", "ok", "is_stale", "warmup", "price", "vol"} \subseteq DOMAIN n
        /\ n.ok => n.price \in Int /\ n.vol \in Int
    BY InputAssumption
  <2>4. m.age = a /\ DOMAIN m = DOMAIN n /\ m.ok = n.ok /\ m.price = n.price /\ m.vol = n.vol
    BY <2>2, <2>3
  <2>5. m.ok /\ m.age <= MaxAge
    BY <1>6 DEF Take, parse_snapshot
  <2>6. Whole(debate')
    BY <2>1, <2>3, <2>4, FreshWhole
  <2>7. debate'.snap = m
    BY <2>1, FreshParts
  <2>8. Typed'
    BY <2>1, <1>2, <1>3 DEF Typed, InHand, Thinking
  <2>9. Paced'
    BY <2>1, <1>2, <1>5 DEF Paced, Thinking
  <2>10. Current'
    BY <2>1, <2>3, <2>4, <2>5, <2>7 DEF Current, Thinking
  <2>11. Earned'
    BY <2>1 DEF Earned
  <2> QED BY <1>4, <2>6, <2>8, <2>9, <2>10, <2>11 DEF Whole, Shape, Spoken, Genuine
<1>7. CASE ~ Take(m)
  <2>1. pc' = "loop" /\ debate' = debate
    BY <1>7 DEF Get
  <2> HIDE DEF m
  <2>2. beat' <= Heartbeat + CycleTime /\ beat' \in Nat
    BY <1>1, <1>2, <1>5
  <2> QED BY <1>2, <1>3, <1>4, <2>1, <2>2, OutOfHand
<1> QED BY <1>6, <1>7

\* What the memory answers, or stands in for its answer.
LEMMA AnswerGenuine ==
  ASSUME RunnerInv, NEW regime, NEW r \in recall_precedents(regime), NEW row \in r.precedents
  PROVE  (row.kind # "seed" => row.earned /\ row.age < Retention) /\ row.regime = regime
<1>1. PICK P \in recall(regime) : r = [status |-> "ok", precedents |-> P]
  <2>1. r # [status |-> "none_configured", precedents |-> {}]
    OBVIOUS
  <2>2. r # [status |-> "unavailable", precedents |-> {}]
    OBVIOUS
  <2> QED BY <2>1, <2>2 DEF recall_precedents
<1>2. row \in P
  BY <1>1
<1> QED BY <1>1, <1>2, RecallGenuine DEF RunnerInv

LEMMA RecallStep == ASSUME RunnerInv, Recall PROVE RunnerInv'
<1> USE DEF RunnerInv
<1>1. PICK d \in 0..RecallTimeout, r \in recall_precedents(debate.snap.regime) :
        /\ Passes(d) /\ MemPasses(d)
        /\ IF r.status = "unavailable" /\ config.memory = "required"
           THEN debate' = NoDebate /\ pc' = "loop"
           ELSE debate' = apply_recall(Later(debate, d), r) /\ pc' = "blue"
  BY DEF Recall
<1>2. pc = "recall" /\ config' = config
  BY DEF Recall, env
<1>3. d \in Nat /\ d <= RecallTimeout /\ RecallTimeout \in Nat
  BY RunnerAssumption
<1>4. queue' \in Seq(Waiting) /\ beat' \in Nat /\ beat' <= beat + d
  BY <1>1, <1>3, TimePasses
<1>5. RowsGood'
  BY <1>1, <1>3, MemTime
<1>6. beat \in Nat /\ beat <= Heartbeat /\ Heartbeat \in Nat
  BY <1>2, RunnerAssumption DEF Paced
<1>7. CASE debate' = NoDebate /\ pc' = "loop"
  <2>0. /\ Deadline \in Nat /\ AegisTimeout \in Nat
        /\ MotorTimeout \in Nat /\ CallTimeout \in Nat
    BY RunnerAssumption, MemoryAssumption
  <2>1. beat' <= Heartbeat + CycleTime
    BY <1>3, <1>4, <1>6, <2>0 DEF CycleTime
  <2> QED BY <1>2, <1>4, <1>5, <1>7, <2>1, NoDebateWhole, OutOfHand
<1>8. CASE debate' = apply_recall(Later(debate, d), r) /\ pc' = "blue"
  <2> DEFINE c == Later(debate, d)
  <2>1. /\ DOMAIN c = Fields /\ GrownBy(c.snap, debate.snap, d)
        /\ \A f \in Fields \ {"snap", "elapsed"} : c[f] = debate[f]
    BY <1>3, LaterParts DEF Whole, Shape
  <2>2. debate' = [c EXCEPT !.precedents = r.precedents, !.elapsed = 0]
    BY <1>8 DEF apply_recall
  <2> HIDE DEF c
  <2>3. /\ DOMAIN debate' = Fields /\ debate'.snap = c.snap /\ debate'.elapsed = 0
        /\ debate'.precedents = r.precedents
        /\ debate'.blue = debate.blue /\ debate'.red = debate.red
        /\ debate'.judge = debate.judge /\ debate'.heard = debate.heard
    BY <2>1, <2>2 DEF Fields
  <2>4. /\ {"regime", "age"} \subseteq DOMAIN debate'.snap /\ debate'.snap.age \in Int
        /\ debate'.snap.regime = debate.snap.regime /\ debate'.snap.age <= debate.snap.age + d
    BY <2>1, <2>3 DEF GrownBy, Whole, Shape
  <2>5. Genuine(debate')
    BY <2>3, <2>4, AnswerGenuine DEF Genuine
  <2>6. Whole(debate')
    BY <2>3, <2>4, <2>5 DEF Whole, Shape, Spoken
  <2>7. Typed'
    BY <1>2, <1>4, <1>8, <2>3, RunnerAssumption DEF Typed, InHand, Thinking
  <2>8. Paced'
    BY <1>3, <1>4, <1>6, <1>8, <2>3 DEF Paced, Thinking
  <2>9. Current'
    <3>1. /\ {"price", "vol"} \subseteq DOMAIN debate.snap
          /\ debate.snap.price \in Int /\ debate.snap.vol \in Int
          /\ debate.snap.age <= MaxAge
      BY <1>2 DEF Current, InHand
    <3>2. /\ {"price", "vol"} \subseteq DOMAIN debate'.snap
          /\ debate'.snap.price = debate.snap.price /\ debate'.snap.vol = debate.snap.vol
      BY <3>1, <2>1, <2>3 DEF GrownBy
    <3>3. debate'.snap.age <= MaxAge + RecallTimeout + debate'.elapsed
      BY <3>1, <2>3, <2>4, <1>3, RunnerAssumption DEF Whole, Shape
    <3> QED BY <3>1, <3>2, <3>3, <1>8 DEF Current, Thinking
  <2>10. Earned'
    BY <1>8 DEF Earned
  <2> QED BY <1>5, <2>6, <2>7, <2>8, <2>9, <2>10 DEF Whole, Shape, Spoken, Genuine
<1> QED BY <1>1, <1>7, <1>8

\* A call that is given d and takes it from the time the debate has left.
LEMMA ThinkStep ==
  ASSUME RunnerInv, pc \in Thinking, pc' \in Thinking \cup {"signal"}, config' = config,
         NEW d \in Nat, debate.elapsed + d <= Deadline, Passes(d), MemPasses(d),
         Ran(debate', debate, d), debate'.elapsed = debate.elapsed + d,
         debate'.heard \subseteq Nodes, Spoken(debate')
  PROVE  RunnerInv'
<1> USE DEF RunnerInv
<1>1. debate.elapsed \in 0..Deadline /\ Deadline \in Nat
  BY RunnerAssumption DEF Typed
<1>2. queue' \in Seq(Waiting) /\ beat' \in Nat /\ beat' <= beat + d
  BY TimePasses
<1>3. RowsGood'
  BY MemTime
<1>4. Whole(debate')
  BY RanGenuine DEF Whole, Shape, Ran
<1>5. Typed'
  BY <1>1, <1>2 DEF Typed, InHand
<1>6. Paced'
  <2>1. beat \in Nat /\ beat <= Heartbeat + RecallTimeout + debate.elapsed
    BY DEF Paced
  <2>2. Heartbeat \in Nat /\ RecallTimeout \in Nat
    BY RunnerAssumption
  <2> QED BY <1>1, <1>2, <2>1, <2>2 DEF Paced, Thinking
<1>7. Current'
  <2>1. /\ {"price", "vol"} \subseteq DOMAIN debate.snap
        /\ debate.snap.price \in Int /\ debate.snap.vol \in Int
        /\ debate.snap.age <= MaxAge + RecallTimeout + debate.elapsed
    BY DEF Current, InHand
  <2>2. /\ {"price", "vol"} \subseteq DOMAIN debate'.snap
        /\ debate'.snap.price = debate.snap.price /\ debate'.snap.vol = debate.snap.vol
    BY <2>1 DEF Ran, GrownBy
  <2>3. debate'.snap.age <= MaxAge + RecallTimeout + debate'.elapsed
    <3>1. /\ debate'.snap.age \in Int /\ debate.snap.age \in Int
          /\ debate'.snap.age <= debate.snap.age + d
      BY DEF Ran, GrownBy, Whole, Shape
    <3> QED BY <3>1, <2>1, <1>1, RunnerAssumption
  <2>4. debate'.snap.age <= Allowance
    <3>1. debate'.snap.age \in Int
      BY DEF Ran, GrownBy
    <3> QED BY <3>1, <2>3, <1>1, RunnerAssumption DEF Allowance
  <2> QED BY <2>1, <2>2, <2>3, <2>4 DEF Current, Thinking
<1>8. Earned'
  BY DEF Earned, Thinking
<1> QED BY <1>3, <1>4, <1>5, <1>6, <1>7, <1>8 DEF Whole, Shape, Spoken, Genuine

\* What a node leaves behind once its call took d.
LEMMA NodeTime ==
  ASSUME RunnerInv, pc \in Thinking, NEW budget \in Nat, NEW d \in CallTimes(budget)
  PROVE  /\ d \in Nat /\ debate.elapsed + d <= Deadline
         /\ DOMAIN Later(debate, d) = Fields /\ Ran(Later(debate, d), debate, d)
         /\ Later(debate, d).elapsed = debate.elapsed + d
         /\ \A f \in Fields \ {"snap", "elapsed"} : Later(debate, d)[f] = debate[f]
<1>1. debate.elapsed \in 0..Deadline /\ Deadline \in Nat
  BY RunnerAssumption DEF RunnerInv, Typed
<1>2. d \in Nat /\ d <= Deadline - debate.elapsed
  BY <1>1 DEF CallTimes, Least
<1>3. Whole(debate)
  BY DEF RunnerInv
<1>4. Ran(Later(debate, d), debate, d)
  BY <1>2, <1>3, LaterRan
<1>5. Later(debate, d).elapsed = debate.elapsed + d
  BY <1>1, <1>2, <1>3, LaterParts DEF Whole, Shape, Least
<1> QED BY <1>1, <1>2, <1>3, <1>4, <1>5, LaterParts DEF Whole, Shape

LEMMA BlueStep == ASSUME RunnerInv, Blue PROVE RunnerInv'
<1> USE DEF RunnerInv
<1>1. PICK d \in CallTimes(BlueBudget), r \in Answers(BlueReplies) :
        Node("blue", "red", d,
             [Later(debate, d) EXCEPT !.blue = blue_step(r), !.heard = Heard("blue", r)])
  BY DEF Blue
<1>2. pc = "blue" /\ pc' = "red" /\ Passes(d) /\ MemPasses(d) /\ config' = config
  BY <1>1 DEF Node, env
<1> DEFINE c == Later(debate, d)
<1>3. /\ d \in Nat /\ debate.elapsed + d <= Deadline
      /\ DOMAIN c = Fields /\ Ran(c, debate, d) /\ c.elapsed = debate.elapsed + d
      /\ \A f \in Fields \ {"snap", "elapsed"} : c[f] = debate[f]
  BY <1>2, NodeTime, RunnerAssumption DEF Thinking
<1>4. debate' = [c EXCEPT !.blue = blue_step(r), !.heard = Heard("blue", r)]
  BY <1>1 DEF Node
<1> HIDE DEF c
<1>5. /\ DOMAIN debate' = Fields /\ debate'.snap = c.snap /\ debate'.elapsed = c.elapsed
      /\ debate'.precedents = c.precedents /\ debate'.blue = blue_step(r)
      /\ debate'.red = debate.red /\ debate'.judge = debate.judge
      /\ debate'.heard = Heard("blue", r)
  BY <1>3, <1>4 DEF Fields
<1>6. debate.heard \subseteq debate'.heard /\ debate'.heard \subseteq Nodes
  BY <1>5 DEF Heard, Whole, Shape, Nodes
<1>7. ~ blue_step(r).forced_completion => "blue" \in Heard("blue", r)
  BY ReplyAssumption DEF blue_step, ForcedBlue, Heard
<1>8. Spoken(debate')
  BY <1>5, <1>6, <1>7 DEF Whole, Spoken
<1> QED BY <1>2, <1>3, <1>5, <1>6, <1>8, ThinkStep DEF Thinking, Ran

LEMMA RedStep == ASSUME RunnerInv, Red PROVE RunnerInv'
<1> USE DEF RunnerInv
<1>1. CASE Node("red", "judge", 0, [debate EXCEPT !.red = ForcedRed])
  <2>1. /\ pc = "red" /\ pc' = "judge" /\ Passes(0) /\ MemPasses(0) /\ config' = config
        /\ debate' = [debate EXCEPT !.red = ForcedRed]
    BY <1>1 DEF Node, env
  <2>2. /\ DOMAIN debate' = Fields /\ debate'.snap = debate.snap
        /\ debate'.elapsed = debate.elapsed /\ debate'.precedents = debate.precedents
        /\ debate'.blue = debate.blue /\ debate'.red = ForcedRed
        /\ debate'.judge = debate.judge /\ debate'.heard = debate.heard
    BY <2>1 DEF Whole, Shape, Fields
  <2>3. Spoken(debate') /\ debate'.heard \subseteq Nodes
    BY <2>2 DEF Whole, Shape, Spoken, ForcedRed
  <2>4. debate.elapsed \in 0..Deadline
    BY <2>1 DEF Typed, Thinking
  <2>5. Ran(debate', debate, 0)
    BY <2>2, SameRan DEF Ran
  <2> QED BY <2>1, <2>2, <2>3, <2>4, <2>5, ThinkStep, RunnerAssumption DEF Thinking
<1>2. ASSUME NEW d \in CallTimes(RedBudget), NEW r \in Answers(RedReplies),
             Node("red", "judge", d, [Later(debate, d) EXCEPT
                                        !.red = red_step(debate.blue, r),
                                        !.heard = Heard("red", r)])
      PROVE  RunnerInv'
  <2> DEFINE c == Later(debate, d)
  <2>1. /\ pc = "red" /\ pc' = "judge" /\ Passes(d) /\ MemPasses(d) /\ config' = config
        /\ debate' = [c EXCEPT !.red = red_step(debate.blue, r), !.heard = Heard("red", r)]
    BY <1>2 DEF Node, env
  <2>2. /\ d \in Nat /\ debate.elapsed + d <= Deadline
        /\ DOMAIN c = Fields /\ Ran(c, debate, d) /\ c.elapsed = debate.elapsed + d
        /\ \A f \in Fields \ {"snap", "elapsed"} : c[f] = debate[f]
    BY <2>1, NodeTime, RunnerAssumption DEF Thinking
  <2> HIDE DEF c
  <2>3. /\ DOMAIN debate' = Fields /\ debate'.snap = c.snap /\ debate'.elapsed = c.elapsed
        /\ debate'.precedents = c.precedents /\ debate'.blue = debate.blue
        /\ debate'.red = red_step(debate.blue, r) /\ debate'.judge = debate.judge
        /\ debate'.heard = Heard("red", r)
    BY <2>1, <2>2 DEF Fields
  <2>4. debate.heard \subseteq debate'.heard /\ debate'.heard \subseteq Nodes
    BY <2>3 DEF Heard, Whole, Shape, Nodes
  <2>5. ~ red_step(debate.blue, r).forced_completion => "red" \in Heard("red", r)
    BY ReplyAssumption DEF red_step, ForcedRed, Heard
  <2>6. Spoken(debate')
    BY <2>3, <2>4, <2>5 DEF Whole, Spoken
  <2> QED BY <2>1, <2>2, <2>3, <2>4, <2>6, ThinkStep DEF Thinking, Ran
<1> QED BY <1>1, <1>2 DEF Red

\* A verdict that is no stand-in is what the Judge's model answered, its confidence
\* perhaps capped.
LEMMA JudgeAnswered ==
  ASSUME NEW blue, NEW red, NEW r, ~ judge_step(blue, red, r).defaulted_abstain
  PROVE  judge_step(blue, red, r) \in JudgeVerdict /\ r \in JudgeVerdict
<1>1. judge_step(blue, red, r) # default_abstain
  BY DEF default_abstain
<1>2. r \in JudgeVerdict /\ judge_step(blue, red, r) \in {r, cap_degraded(r)}
  BY <1>1 DEF judge_step
<1>3. OmegaThreshold \div 2 \in 0..Unit
  BY DebateAssumption
<1>4. cap_degraded(r) \in JudgeVerdict
  <2> DEFINE cap == OmegaThreshold \div 2
  <2>1. cap \in 0..Unit
    BY <1>3
  <2>2. cap_degraded(r) \in {r, [r EXCEPT !.omega = cap]}
    BY DEF cap_degraded
  <2> HIDE DEF cap
  <2>3. [r EXCEPT !.omega = cap] \in JudgeVerdict
    BY <2>1, <1>2 DEF JudgeVerdict
  <2> QED BY <2>2, <2>3, <1>2
<1> QED BY <1>2, <1>4

LEMMA JudgeStep == ASSUME RunnerInv, Judge PROVE RunnerInv'
<1> USE DEF RunnerInv
<1>1. CASE Node("judge", "compression", 0,
                [debate EXCEPT !.judge = default_abstain, !.precedents = {}])
  <2>1. /\ pc = "judge" /\ pc' = "compression" /\ Passes(0) /\ MemPasses(0) /\ config' = config
        /\ debate' = [debate EXCEPT !.judge = default_abstain, !.precedents = {}]
    BY <1>1 DEF Node, env
  <2>2. /\ DOMAIN debate' = Fields /\ debate'.snap = debate.snap
        /\ debate'.elapsed = debate.elapsed /\ debate'.precedents = {}
        /\ debate'.blue = debate.blue /\ debate'.red = debate.red
        /\ debate'.judge = default_abstain /\ debate'.heard = debate.heard
    BY <2>1 DEF Whole, Shape, Fields
  <2>3. Spoken(debate') /\ debate'.heard \subseteq Nodes
    BY <2>2 DEF Whole, Shape, Spoken, default_abstain
  <2>4. debate.elapsed \in 0..Deadline
    BY <2>1 DEF Typed, Thinking
  <2>5. Ran(debate', debate, 0)
    BY <2>2, SameRan DEF Ran
  <2> QED BY <2>1, <2>2, <2>3, <2>4, <2>5, ThinkStep, RunnerAssumption DEF Thinking
<1>2. ASSUME NEW d \in CallTimes(JudgeBudget), NEW r \in Answers(JudgeReplies),
             Node("judge", "compression", d,
                  [Later(debate, d) EXCEPT
                     !.judge = judge_step(debate.blue, debate.red, r),
                     !.heard = Heard("judge", r), !.precedents = {}])
      PROVE  RunnerInv'
  <2> DEFINE c == Later(debate, d)
             v == judge_step(debate.blue, debate.red, r)
  <2>1. /\ pc = "judge" /\ pc' = "compression" /\ Passes(d) /\ MemPasses(d) /\ config' = config
        /\ debate' = [c EXCEPT !.judge = v, !.heard = Heard("judge", r), !.precedents = {}]
    BY <1>2 DEF Node, env
  <2>2. /\ d \in Nat /\ debate.elapsed + d <= Deadline
        /\ DOMAIN c = Fields /\ Ran(c, debate, d) /\ c.elapsed = debate.elapsed + d
        /\ \A f \in Fields \ {"snap", "elapsed"} : c[f] = debate[f]
    BY <2>1, NodeTime, RunnerAssumption DEF Thinking
  <2>3. ~ v.defaulted_abstain => v \in JudgeVerdict /\ r \in JudgeVerdict
    BY JudgeAnswered
  <2> HIDE DEF c, v
  <2>4. /\ DOMAIN debate' = Fields /\ debate'.snap = c.snap /\ debate'.elapsed = c.elapsed
        /\ debate'.precedents = {} /\ debate'.blue = debate.blue
        /\ debate'.red = debate.red /\ debate'.judge = v
        /\ debate'.heard = Heard("judge", r)
    BY <2>1, <2>2 DEF Fields
  <2>5. debate.heard \subseteq debate'.heard /\ debate'.heard \subseteq Nodes
    BY <2>4 DEF Heard, Whole, Shape, Nodes
  <2>6. r \in JudgeVerdict => "judge" \in Heard("judge", r)
    BY ReplyAssumption DEF Heard
  <2>7. Spoken(debate')
    BY <2>3, <2>4, <2>5, <2>6 DEF Whole, Spoken
  <2> QED BY <2>1, <2>2, <2>4, <2>5, <2>7, ThinkStep DEF Thinking, Ran
<1> QED BY <1>1, <1>2 DEF Judge

LEMMA CompressionStep == ASSUME RunnerInv, Compression PROVE RunnerInv'
<1> USE DEF RunnerInv
<1>1. PICK d \in CallTimes(CompressionBudget) :
        Node("compression", "signal", d, [Later(debate, d) EXCEPT !.finished = TRUE])
  BY DEF Compression
<1> DEFINE c == Later(debate, d)
<1>2. /\ pc = "compression" /\ pc' = "signal" /\ Passes(d) /\ MemPasses(d) /\ config' = config
      /\ debate' = [c EXCEPT !.finished = TRUE]
  BY <1>1 DEF Node, env
<1>3. /\ d \in Nat /\ debate.elapsed + d <= Deadline
      /\ DOMAIN c = Fields /\ Ran(c, debate, d) /\ c.elapsed = debate.elapsed + d
      /\ \A f \in Fields \ {"snap", "elapsed"} : c[f] = debate[f]
  BY <1>2, NodeTime, RunnerAssumption DEF Thinking
<1> HIDE DEF c
<1>4. /\ DOMAIN debate' = Fields /\ debate'.snap = c.snap /\ debate'.elapsed = c.elapsed
      /\ debate'.precedents = c.precedents /\ debate'.blue = debate.blue
      /\ debate'.red = debate.red /\ debate'.judge = debate.judge
      /\ debate'.heard = debate.heard
  BY <1>2, <1>3 DEF Fields
<1>5. Spoken(debate') /\ debate'.heard \subseteq Nodes
  BY <1>4 DEF Whole, Shape, Spoken
<1> QED BY <1>2, <1>3, <1>4, <1>5, ThinkStep DEF Thinking, Ran

LEMMA AbortStep == ASSUME RunnerInv, Abort PROVE RunnerInv'
<1> USE DEF RunnerInv
<1>1. /\ pc \in Thinking /\ pc' = "signal"
      /\ UNCHANGED <<config, queue, debate, beat, memory, landing>>
  BY DEF Abort, Thinking, env, memVars
<1>2. debate.elapsed \in 0..Deadline /\ Deadline \in Nat
  BY <1>1, RunnerAssumption DEF Typed
<1>3. Typed'
  BY <1>1 DEF Typed, InHand, Thinking
<1>4. Paced'
  BY <1>1, <1>2, RunnerAssumption DEF Paced, Thinking
<1>5. Current'
  <2>1. debate.snap.age \in Int /\ debate.snap.age <= MaxAge + RecallTimeout + debate.elapsed
    BY <1>1 DEF Current, InHand, Whole, Shape
  <2>2. debate.snap.age <= Allowance
    BY <2>1, <1>2, RunnerAssumption DEF Allowance
  <2> QED BY <1>1, <2>2 DEF Current, InHand, Thinking
<1>6. Earned'
  BY <1>1 DEF Earned
<1> QED BY <1>1, <1>3, <1>4, <1>5, <1>6 DEF Whole, Shape, Spoken, Genuine, RowsGood, GoodRow

-----------------------------------------------------------------------------
(* The signal                                                              *)

\* No order is larger than the notional cap allows (sizing).
LEMMA SharesCapped ==
  ASSUME NEW sizer, sizer.budget \in Nat, sizer.cap \in Nat, NEW price \in Int, NEW vol \in Int,
         NEW omega \in Int
  PROVE  /\ shares(sizer, price, vol, omega) \in Int
         /\ shares(sizer, price, vol, omega) > 0 =>
              shares(sizer, price, vol, omega) * price <= sizer.cap
<1>1. CASE price <= 0 \/ vol <= 0 \/ omega \notin 1..Unit
  BY <1>1 DEF shares
<1>2. CASE ~ (price <= 0 \/ vol <= 0 \/ omega \notin 1..Unit)
  <2> DEFINE by_risk == (sizer.budget * omega) \div (price * vol * Unit)
             by_cap == sizer.cap \div price
             n == shares(sizer, price, vol, omega)
  <2>1. price * vol * Unit \in Nat \ {0}
    <3>1. price * vol \in Nat \ {0}
      BY <1>2
    <3> QED BY <3>1, DebateAssumption
  <2>2. sizer.budget * omega \in Int
    OBVIOUS
  <2>3. by_risk \in Int
    BY <2>1, <2>2
  <2>4. by_cap \in Int /\ by_cap * price <= sizer.cap
    BY <1>2
  <2>5. n = IF by_risk <= by_cap THEN by_risk ELSE by_cap
    BY <1>2 DEF shares
  <2> HIDE DEF by_risk, by_cap
  <2>6. n \in Int /\ n <= by_cap
    BY <2>3, <2>4, <2>5
  <2> HIDE DEF n
  <2>7. n * price <= by_cap * price
    BY <2>4, <2>6, <1>2
  <2>8. n * price \in Int /\ by_cap * price \in Int
    BY <2>4, <2>6
  <2>9. n * price <= sizer.cap
    BY <2>4, <2>7, <2>8
  <2> QED BY <2>6, <2>9 DEF n
<1> QED BY <1>1, <1>2

LEMMA OutcomeParts ==
  ASSUME NEW b
  PROVE  /\ DOMAIN Outcome(b) = Fields /\ Outcome(b).snap = b.snap
         /\ Outcome(b).precedents = {} /\ Outcome(b).heard = b.heard
         /\ Outcome(b).signal = SignalOf(b)
         /\ Outcome(b).context = (IF b.finished THEN decision_context(b) ELSE {})
         /\ Outcome(b).recordable = (b.finished /\ is_recordable(b.blue, b.red, b.judge))
         /\ Outcome(b).blue.forced_completion /\ Outcome(b).red.forced_completion
         /\ Outcome(b).judge.defaulted_abstain
<1> DEFINE f == Fresh(b.snap)
<1>1. DOMAIN f = Fields /\ f.snap = b.snap /\ f.precedents = {}
  BY FreshParts
<1>2. f.blue.forced_completion /\ f.red.forced_completion /\ f.judge.defaulted_abstain
  BY FreshParts
<1>3. Outcome(b) = [f EXCEPT
         !.signal = SignalOf(b), !.heard = b.heard,
         !.context = IF b.finished THEN decision_context(b) ELSE {},
         !.recordable = b.finished /\ is_recordable(b.blue, b.red, b.judge)]
  BY DEF Outcome
<1> HIDE DEF f
<1> QED BY <1>1, <1>2, <1>3 DEF Fields

LEMMA AllHeard ==
  ASSUME Whole(debate), ~ debate.blue.forced_completion, ~ debate.red.forced_completion,
         ~ debate.judge.defaulted_abstain
  PROVE  debate.heard = Nodes /\ debate.judge \in JudgeVerdict
BY DEF Whole, Shape, Spoken, Nodes

LEMMA OutcomeRecordable ==
  ASSUME RunnerInv, Outcome(debate).recordable PROVE debate.heard = Nodes
BY OutcomeParts, AllHeard DEF RunnerInv, is_recordable

\* A signal that can be traded comes from a debate that earned it.
LEMMA OutcomeBacked ==
  ASSUME RunnerInv, pc = "signal", Actionable(SignalOf(debate)) PROVE Backed(Outcome(debate))
<1> USE DEF RunnerInv
<1> DEFINE q == sized_quantity(config.sizer, config.quantity, debate.snap, debate.judge)
           v == debate.judge
           s == SignalOf(debate)
<1>1. debate.finished /\ s = to_trade_signal(debate.blue, debate.red, v, q)
  BY DEF SignalOf, Actionable, abstain_signal, Signal
<1>2. /\ ~ abstain_reasons(debate.blue, debate.red, v, q)
      /\ s = Signal("SIGNAL_PENDING", v.side, q, v)
  BY <1>1 DEF to_trade_signal, Actionable, abstain_signal, Signal
<1>3. /\ ~ debate.blue.forced_completion /\ ~ debate.red.forced_completion
      /\ ~ v.defaulted_abstain /\ v.side # "SIDE_UNKNOWN" /\ ~ (q <= 0)
      /\ ~ (expected_value(v) <= 0)
  BY <1>2 DEF abstain_reasons
<1>4. debate.heard = Nodes /\ v \in JudgeVerdict
  BY <1>3, AllHeard
<1>5. decision_context(debate) = Nodes
  BY <1>1, <1>3 DEF decision_context, Nodes
<1>6. v.p_success * v.reward > v.p_failure * v.risk
  <2> DEFINE x == v.p_success * v.reward
             y == v.p_failure * v.risk
  <2>1. v.p_success \in Int /\ v.reward \in Int /\ v.p_failure \in Int /\ v.risk \in Int
    BY <1>4 DEF JudgeVerdict
  <2>2. x \in Int /\ y \in Int
    BY <2>1
  <2>3. ~ (x - y <= 0)
    BY <1>3 DEF expected_value
  <2> HIDE DEF x, y
  <2>4. x > y
    BY <2>2, <2>3
  <2> QED BY <2>4 DEF x, y
<1>7. q \in Int /\ (config.sizer.kind # "fixed" => q * debate.snap.price <= config.sizer.cap)
  <2>1. config.quantity \in Nat /\ config.sizer.budget \in Nat /\ config.sizer.cap \in Nat
    BY InputAssumption DEF Typed
  <2>2. CASE config.sizer.kind = "fixed"
    BY <2>1, <2>2 DEF sized_quantity
  <2>3. CASE config.sizer.kind # "fixed"
    <3>1. q = shares(config.sizer, debate.snap.price, debate.snap.vol, v.omega)
      BY <2>3 DEF sized_quantity
    <3>2. debate.snap.price \in Int /\ debate.snap.vol \in Int /\ v.omega \in Int
      BY <1>4 DEF Current, InHand, JudgeVerdict
    <3>3. q \in Int /\ (q > 0 => q * debate.snap.price <= config.sizer.cap)
      BY <3>1, <3>2, <2>1, SharesCapped
    <3> HIDE DEF q
    <3> QED BY <3>3, <1>3
  <2> QED BY <2>2, <2>3
<1>8. v.p_success + v.p_failure = Unit
  BY <1>4 DEF JudgeVerdict
<1> HIDE DEF q, v
<1>9. s.verdict = v /\ s.quantity = q /\ s.side = v.side /\ s.status = "SIGNAL_PENDING"
  BY <1>2 DEF Signal
<1> HIDE DEF s
<1>10. signal_invariants(s)
  BY <1>3, <1>7, <1>8, <1>9 DEF signal_invariants
<1>11. /\ Outcome(debate).signal = s /\ Outcome(debate).snap = debate.snap
       /\ Outcome(debate).heard = Nodes /\ Outcome(debate).context = Nodes
  BY <1>1, <1>4, <1>5, OutcomeParts DEF s
<1> QED BY <1>6, <1>7, <1>9, <1>10, <1>11 DEF Backed

-----------------------------------------------------------------------------
(* Delivering                                                              *)

\* The snapshot of a debate has a price.
Priced(b) == /\ {"price", "vol"} \subseteq DOMAIN b.snap
             /\ b.snap.price \in Int /\ b.snap.vol \in Int

LEMMA GrownPriced ==
  ASSUME NEW b, NEW c, NEW d, Priced(c), GrownBy(b.snap, c.snap, d) PROVE Priced(b)
BY DEF Priced, GrownBy

\* The timeouts add up to a cycle (RunnerAssumption).
LEMMA WithinCycle ==
  ASSUME NEW x \in Int,
         x <= Heartbeat + RecallTimeout + Deadline + AegisTimeout + MotorTimeout
  PROVE  x <= Heartbeat + CycleTime /\ x + CallTimeout <= Heartbeat + CycleTime
<1>1. /\ Heartbeat \in Nat /\ RecallTimeout \in Nat /\ Deadline \in Nat
      /\ AegisTimeout \in Nat /\ MotorTimeout \in Nat /\ CallTimeout \in Nat
  BY RunnerAssumption, MemoryAssumption
<1> QED BY <1>1 DEF CycleTime

\* Once the signal is out or kept back, its record is next or the message is done with.
LEMMA AfterStep ==
  ASSUME RunnerInv, NEW b, After(b), Whole(b), Priced(b), b.recordable => b.heard = Nodes,
         config' = config, queue' \in Seq(Waiting), RowsGood', beat' \in Nat,
         beat' <= Heartbeat + RecallTimeout + Deadline + AegisTimeout + MotorTimeout
  PROVE  RunnerInv'
<1> USE DEF RunnerInv
<1>1. CASE b.recordable
  <2>1. /\ pc' = "record"
        /\ debate' = [b EXCEPT !.signal = abstain_signal, !.context = {}, !.decision = NoDecision]
    BY <1>1 DEF After
  <2>2. /\ DOMAIN debate' = Fields /\ debate'.snap = b.snap /\ debate'.precedents = b.precedents
        /\ debate'.blue = b.blue /\ debate'.red = b.red /\ debate'.judge = b.judge
        /\ debate'.heard = b.heard
    BY <2>1 DEF Whole, Shape, Fields
  <2>3. Whole(debate')
    BY <2>2 DEF Whole, Shape, Spoken, Genuine
  <2>4. Typed'
    BY <2>1 DEF Typed, InHand, Thinking
  <2>5. Paced'
    BY <2>1 DEF Paced, Thinking
  <2>6. Current'
    BY <2>1, <2>2 DEF Current, Thinking, Priced
  <2>7. Earned'
    BY <1>1, <2>1, <2>2 DEF Earned
  <2> QED BY <2>3, <2>4, <2>5, <2>6, <2>7 DEF Whole, Shape, Spoken, Genuine
<1>2. CASE ~ b.recordable
  <2>1. pc' = "loop" /\ debate' = NoDebate
    BY <1>2 DEF After
  <2>2. beat' <= Heartbeat + CycleTime
    BY WithinCycle
  <2> QED BY <2>1, <2>2, NoDebateWhole, OutOfHand
<1> QED BY <1>1, <1>2

LEMMA ConcludeStep == ASSUME RunnerInv, Conclude PROVE RunnerInv'
<1> USE DEF RunnerInv
<1> DEFINE b == Outcome(debate)
<1>1. pc = "signal" /\ UNCHANGED <<config, queue, beat, memory, landing>>
  BY DEF Conclude, env, memVars
<1>2. RowsGood' /\ queue' \in Seq(Waiting)
  BY <1>1 DEF RowsGood, GoodRow, Typed
<1>3. beat' \in Nat /\ beat' <= Heartbeat + RecallTimeout + Deadline
  BY <1>1 DEF Paced
<1>4. Priced(debate) /\ debate.snap.age <= Allowance
  BY <1>1 DEF Current, InHand, Priced
<1>5. /\ DOMAIN b = Fields /\ b.snap = debate.snap /\ b.precedents = {} /\ b.heard = debate.heard
      /\ b.blue.forced_completion /\ b.red.forced_completion /\ b.judge.defaulted_abstain
      /\ b.signal = SignalOf(debate)
  BY OutcomeParts
<1>6. b.recordable => b.heard = Nodes
  BY <1>5, OutcomeRecordable
<1>7. Actionable(b.signal) => Backed(b)
  BY <1>1, <1>5, OutcomeBacked
<1>8. \/ pc' = "loop" /\ debate' = NoDebate
      \/ debate' = b /\ pc' = "submit"
      \/ After(b)
  BY DEF Conclude
<1> HIDE DEF b
<1>9. Whole(b)
  BY <1>5 DEF Whole, Shape, Spoken, Genuine
<1>10. Priced(b)
  BY <1>4, <1>5 DEF Priced
<1>11. CASE pc' = "loop" /\ debate' = NoDebate
  <2>1. beat' <= Heartbeat + CycleTime
    BY <1>3, RunnerAssumption, MemoryAssumption DEF CycleTime
  <2> QED BY <1>1, <1>2, <1>3, <1>11, <2>1, NoDebateWhole, OutOfHand
<1>12. CASE debate' = b /\ pc' = "submit"
  <2>1. Typed'
    BY <1>1, <1>2, <1>12 DEF Typed, InHand, Thinking
  <2>2. Paced'
    BY <1>3, <1>12 DEF Paced, Thinking
  <2>3. Current'
    BY <1>4, <1>5, <1>10, <1>12 DEF Current, Thinking, Priced
  <2>4. Earned'
    BY <1>1, <1>6, <1>7, <1>12 DEF Earned, Backed
  <2> QED BY <1>2, <1>9, <1>12, <2>1, <2>2, <2>3, <2>4 DEF Whole, Shape, Spoken, Genuine
<1>13. CASE After(b)
  <2>1. beat' <= Heartbeat + RecallTimeout + Deadline + AegisTimeout + MotorTimeout
    BY <1>3, RunnerAssumption
  <2> QED BY <1>1, <1>2, <1>3, <1>6, <1>9, <1>10, <1>13, <2>1, AfterStep
<1> QED BY <1>8, <1>11, <1>12, <1>13

\* What is on its way while a call takes d: the same, d older.
LEMMA OutgoingParts ==
  ASSUME RunnerInv, pc \in {"submit", "relay"}, NEW d \in Nat
  PROVE  /\ Whole(Outgoing(d)) /\ Priced(Outgoing(d))
         /\ Outgoing(d).snap.price = debate.snap.price
         /\ Outgoing(d).heard = debate.heard /\ Outgoing(d).signal = debate.signal
         /\ Outgoing(d).context = debate.context
         /\ Outgoing(d).recordable = debate.recordable
         /\ Outgoing(d).recordable => Outgoing(d).heard = Nodes
<1> USE DEF RunnerInv
<1> DEFINE c == Later(debate, d)
           o == Outgoing(d)
<1>1. /\ DOMAIN c = Fields /\ GrownBy(c.snap, debate.snap, d)
      /\ \A f \in Fields \ {"snap", "elapsed"} : c[f] = debate[f]
  BY LaterParts DEF Whole, Shape
<1>2. o = [c EXCEPT !.elapsed = 0]
  BY DEF Outgoing
<1> HIDE DEF c, o
<1>3. /\ DOMAIN o = Fields /\ o.snap = c.snap /\ o.precedents = debate.precedents
      /\ o.blue = debate.blue /\ o.red = debate.red /\ o.judge = debate.judge
      /\ o.heard = debate.heard /\ o.signal = debate.signal /\ o.context = debate.context
      /\ o.recordable = debate.recordable
  BY <1>1, <1>2 DEF Fields
<1>4. Ran(o, debate, d)
  BY <1>1, <1>3 DEF Ran
<1>5. Whole(o)
  <2>1. Shape(o) /\ Genuine(o)
    BY <1>3, <1>4, RanGenuine DEF Whole, Shape
  <2>2. Spoken(o)
    BY <1>3 DEF Whole, Spoken
  <2> QED BY <2>1, <2>2 DEF Whole
<1>6. Priced(debate)
  BY DEF Current, InHand, Priced
<1>7. Priced(o) /\ o.snap.price = debate.snap.price
  BY <1>1, <1>3, <1>6 DEF Priced, GrownBy
<1>8. o.recordable => o.heard = Nodes
  BY <1>3 DEF Earned
<1> QED BY <1>3, <1>5, <1>7, <1>8 DEF o

\* The sink is asked, and the message is done with or its record is next.
LEMMA SentStep ==
  ASSUME RunnerInv, pc \in {"submit", "relay"}, NEW d \in Nat, Passes(d), MemPasses(d),
         config' = config, After(Outgoing(d)) \/ SinkFailed,
         beat + d <= Heartbeat + RecallTimeout + Deadline + AegisTimeout + MotorTimeout
  PROVE  RunnerInv'
<1> USE DEF RunnerInv
<1>1. queue' \in Seq(Waiting) /\ beat' \in Nat /\ beat' <= beat + d
  BY TimePasses
<1>2. RowsGood'
  BY MemTime
<1>3. beat' <= Heartbeat + RecallTimeout + Deadline + AegisTimeout + MotorTimeout
  BY <1>1, RunnerAssumption DEF Paced
<1>4. CASE After(Outgoing(d))
  BY <1>1, <1>2, <1>3, <1>4, OutgoingParts, AfterStep
<1>5. CASE SinkFailed
  <2>1. beat' <= Heartbeat + CycleTime
    BY <1>1, <1>3, WithinCycle
  <2> QED BY <1>1, <1>2, <1>5, <2>1, NoDebateWhole, OutOfHand DEF SinkFailed
<1> QED BY <1>4, <1>5

LEMMA SubmitStep == ASSUME RunnerInv, Submit PROVE RunnerInv'
<1> USE DEF RunnerInv
<1>1. pc = "submit" /\ config' = config
  BY DEF Submit, env
<1>2. beat \in Nat /\ beat <= Heartbeat + RecallTimeout + Deadline
  BY <1>1 DEF Paced
<1>3. Priced(debate)
  BY <1>1 DEF Current, InHand, Priced
<1>4. CASE SendLog
  <2>1. After(debate) /\ UNCHANGED <<queue, beat, memory, landing>>
    BY <1>4 DEF SendLog, memVars
  <2>2. RowsGood' /\ queue' \in Seq(Waiting)
    BY <2>1 DEF RowsGood, GoodRow, Typed
  <2>3. debate.recordable => debate.heard = Nodes
    BY <1>1 DEF Earned
  <2>4. beat' \in Nat /\ beat' <= Heartbeat + RecallTimeout + Deadline + AegisTimeout + MotorTimeout
    BY <1>2, <2>1, RunnerAssumption
  <2> QED BY <1>1, <1>3, <2>1, <2>2, <2>3, <2>4, AfterStep
<1>5. ASSUME NEW d \in 0..AegisTimeout, SendAegis(d) \/ SendRelay(d), Passes(d), MemPasses(d)
      PROVE  RunnerInv'
  <2>1. d \in Nat /\ d <= AegisTimeout /\ AegisTimeout \in Nat
    BY RunnerAssumption
  <2>2. beat + d <= Heartbeat + RecallTimeout + Deadline + AegisTimeout + MotorTimeout
    BY <1>2, <2>1, RunnerAssumption
  <2>3. CASE After(Outgoing(d)) \/ SinkFailed
    BY <1>1, <1>5, <2>1, <2>2, <2>3, SentStep
  <2>4. ASSUME NEW a \in Decisions, approved_with_attestation(a), pc' = "relay",
               debate' = [Outgoing(d) EXCEPT !.decision = a]
        PROVE  RunnerInv'
    <3> DEFINE o == Outgoing(d)
    <3>1. /\ Whole(o) /\ Priced(o) /\ o.snap.price = debate.snap.price
          /\ o.heard = debate.heard /\ o.signal = debate.signal
          /\ o.context = debate.context
          /\ o.recordable => o.heard = Nodes
      BY <1>1, <2>1, OutgoingParts
    <3> HIDE DEF o
    <3>2. debate' = [o EXCEPT !.decision = a]
      BY <2>4 DEF o
    <3>3. /\ DOMAIN debate' = Fields /\ debate'.snap = o.snap /\ debate'.precedents = o.precedents
          /\ debate'.blue = o.blue /\ debate'.red = o.red /\ debate'.judge = o.judge
          /\ debate'.heard = o.heard /\ debate'.signal = o.signal
          /\ debate'.context = o.context /\ debate'.recordable = o.recordable
          /\ debate'.decision = a
      BY <3>1, <3>2 DEF Whole, Shape, Fields
    <3>4. Whole(debate')
      BY <3>1, <3>3 DEF Whole, Shape, Spoken, Genuine
    <3>5. queue' \in Seq(Waiting) /\ beat' \in Nat /\ beat' <= beat + d
      BY <1>5, <2>1, TimePasses
    <3>6. RowsGood'
      BY <1>5, <2>1, MemTime
    <3>7. Typed'
      BY <1>1, <2>4, <3>5 DEF Typed, InHand, Thinking
    <3>8. Paced'
      <4>1. beat' <= Heartbeat + RecallTimeout + Deadline + AegisTimeout
        BY <1>2, <2>1, <3>5, RunnerAssumption
      <4> QED BY <4>1, <2>4, <3>5 DEF Paced, Thinking
    <3>9. Current'
      BY <2>4, <3>1, <3>3 DEF Current, Thinking, Priced
    <3>10. Actionable(debate.signal) => Backed(debate)
      BY <1>1 DEF Earned
    <3>11. Earned'
      <4>1. /\ debate'.signal = debate.signal /\ debate'.heard = debate.heard
            /\ debate'.context = debate.context /\ debate'.snap.price = debate.snap.price
        BY <3>1, <3>3
      <4>2. Actionable(debate.signal)' => Backed(debate)'
        BY <1>1, <3>10, <4>1 DEF Backed, Actionable
      <4> QED BY <2>4, <3>1, <3>3, <4>2 DEF Earned
    <3> QED BY <3>4, <3>6, <3>7, <3>8, <3>9, <3>11 DEF Whole, Shape, Spoken, Genuine
  <2> QED BY <1>5, <2>3, <2>4 DEF SendAegis, SendRelay
<1> QED BY <1>4, <1>5 DEF Submit

LEMMA RelayStep == ASSUME RunnerInv, Relay PROVE RunnerInv'
<1> USE DEF RunnerInv
<1>1. pc = "relay" /\ config' = config
  BY DEF Relay, env
<1>2. PICK d \in 0..MotorTimeout :
        Passes(d) /\ MemPasses(d) /\ (After(Outgoing(d)) \/ SinkFailed)
  BY DEF Relay
<1>3. d \in Nat /\ beat + d <= Heartbeat + RecallTimeout + Deadline + AegisTimeout + MotorTimeout
  BY <1>1, RunnerAssumption DEF Paced
<1> QED BY <1>1, <1>2, <1>3, SentStep

LEMMA RecordStep == ASSUME RunnerInv, Record PROVE RunnerInv'
<1> USE DEF RunnerInv
<1>1. pc = "record" /\ pc' = "loop" /\ debate' = NoDebate /\ config' = config
  BY DEF Record, env
<1>2. /\ beat \in Nat
      /\ beat <= Heartbeat + RecallTimeout + Deadline + AegisTimeout + MotorTimeout
  BY <1>1 DEF Paced
<1>3. CASE UNCHANGED <<queue, cooldown, beat, memVars>>
  <2>1. RowsGood' /\ queue' \in Seq(Waiting)
    BY <1>3 DEF RowsGood, GoodRow, Typed, memVars
  <2>2. beat' \in Nat /\ beat' <= Heartbeat + CycleTime
    BY <1>2, <1>3, RunnerAssumption, MemoryAssumption DEF CycleTime
  <2> QED BY <1>1, <2>1, <2>2, NoDebateWhole, OutOfHand
<1>4. ASSUME NEW d \in RunTimes, Passes(d),
             write_debate(debate.snap.regime, debate.heard = {"blue", "red", "judge"}, d)
      PROVE  RunnerInv'
  <2>1. d \in Nat /\ d <= CallTimeout
    BY MemoryAssumption DEF RunTimes
  <2>2. queue' \in Seq(Waiting) /\ beat' \in Nat /\ beat' <= beat + d
    BY <1>4, <2>1, TimePasses
  <2>3. (debate.heard = {"blue", "red", "judge"}) = TRUE
    BY <1>1 DEF Earned, Nodes
  <2>4. write_debate(debate.snap.regime, TRUE, d)
    BY <1>4, <2>3
  <2>5. RowsGood'
    BY <2>1, <2>4, WriteGood
  <2>6. beat' <= Heartbeat + CycleTime
    <3>1. beat + CallTimeout <= Heartbeat + CycleTime
      BY <1>2, WithinCycle
    <3>2. Heartbeat + CycleTime \in Nat
      BY RunnerAssumption, MemoryAssumption DEF CycleTime
    <3> QED BY <1>2, <2>1, <2>2, <3>1, <3>2, MemoryAssumption
  <2> QED BY <1>1, <2>2, <2>5, <2>6, NoDebateWhole, OutOfHand
<1> QED BY <1>3, <1>4 DEF Record

-----------------------------------------------------------------------------
LEMMA RunnerStep == RunnerInv /\ [Next]_vars => RunnerInv'
<1> SUFFICES ASSUME RunnerInv, [Next]_vars PROVE RunnerInv'
  OBVIOUS
<1>q. ASSUME UNCHANGED <<config, pc, debate, beat, queue, memory, landing>> PROVE RunnerInv'
  <2>1. RowsGood' /\ queue' \in Seq(Waiting)
    BY <1>q DEF RunnerInv, RowsGood, GoodRow, Typed
  <2> QED BY <1>q, <2>1, Outside
<1>1. CASE Pump
  BY <1>1, PumpStep
<1>2. CASE SourceEnds \/ StopArrives \/ HaltFileChanges
  BY <1>2, <1>q DEF SourceEnds, StopArrives, HaltFileChanges, memVars
<1>3. CASE MemoryLands
  BY <1>3, LandStep
<1>4. CASE Loop \/ Wait \/ Get \/ Recall
  BY <1>4, LoopStep, WaitStep, GetStep, RecallStep
<1>5. CASE Blue \/ Red \/ Judge \/ Compression \/ Abort
  BY <1>5, BlueStep, RedStep, JudgeStep, CompressionStep, AbortStep
<1>6. CASE Conclude \/ Submit \/ Relay \/ Record
  BY <1>6, ConcludeStep, SubmitStep, RelayStep, RecordStep
<1>7. CASE UNCHANGED vars
  BY <1>7, <1>q DEF vars
<1> QED BY <1>1, <1>2, <1>3, <1>4, <1>5, <1>6, <1>7 DEF Next

\* A signal that can become an order (service.py 138-149) comes from a debate all three
\* models answered in time, with a positive expected value, within the sizer's cap and on
\* a fresh snapshot, and reaches the motor only approved, attested and with all three
\* statements: for any replies, delays, prices, budgets and configurations.
THEOREM SignalsEarned == Spec => []SignalEarned
<1>1. RunnerInv => SignalEarned
  BY DEF RunnerInv, Earned, Backed, Current, InHand, SignalEarned, ExecuteRequest,
         approved_with_attestation, Nodes
<1> QED BY <1>1, RunnerInit, RunnerStep, PTL DEF Spec

\* A precedent shown to a debate (memory.py 105-138) is a seed or the record of a debate
\* that took place, of the snapshot's regime and within its retention, though writes
\* land after their callers gave up.
THEOREM RecallsGenuine == Spec => []PrecedentsGenuine
<1>1. RunnerInv => PrecedentsGenuine
  BY DEF RunnerInv, Whole, Genuine, PrecedentsGenuine
<1> QED BY <1>1, RunnerInit, RunnerStep, PTL DEF Spec

\* While it runs, the loop beats often enough for the health check to stay green
\* (health.py 54-65), for any budgets and timeouts that leave room for a whole cycle.
THEOREM RunnerHealthy == CyclesFit => (Spec => []StaysHealthy)
<1> SUFFICES ASSUME CyclesFit PROVE Spec => []StaysHealthy
  OBVIOUS
<1>1. RunnerInv => StaysHealthy
  <2> SUFFICES ASSUME RunnerInv, pc # "exited" PROVE beat <= MaxBeatAge
    BY DEF StaysHealthy, healthy
  <2>1. beat \in Nat /\ pc \in InHand \cup {"loop", "wait"}
    BY DEF RunnerInv, Typed, Paced
  <2>2. pc \in Thinking => debate.elapsed \in 0..Deadline
    BY DEF RunnerInv, Typed
  <2>3. beat <= Heartbeat + CycleTime
    BY <2>1, <2>2, RunnerAssumption, MemoryAssumption
    DEF RunnerInv, Paced, InHand, Thinking, CycleTime
  <2>4. Heartbeat + CycleTime \in Nat
    BY RunnerAssumption, MemoryAssumption DEF CycleTime
  <2> QED BY <2>1, <2>3, <2>4, RunnerAssumption DEF CyclesFit
<1> QED BY <1>1, RunnerInit, RunnerStep, PTL DEF Spec
=============================================================================
