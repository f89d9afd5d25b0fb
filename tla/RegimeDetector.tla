--------------------------- MODULE RegimeDetector ---------------------------
(***************************************************************************)
(* The regime detector: a loop that, once per interval, reads the bars of  *)
(* every symbol from QuestDB and publishes one label per symbol.  Models   *)
(* are trained per symbol on a worker thread and kept as signed files, so  *)
(* that a restarted detector starts with the model it had.                 *)
(*                                                                         *)
(* A label remembers which model it was concluded from (modelOf, none for  *)
(* an UNKNOWN one) and the time of the newest bar (dataAt): these are what *)
(* it has to be true about.                                                *)
(***************************************************************************)
EXTENDS FeedClock

CONSTANTS MaxDataAge,         \* max_data_age_s
          RetrainInterval,    \* retrain_interval_s
          TrainRetryBackoff,  \* train_retry_backoff_s
          StoreKey,           \* the model store has a key: BOOLEAN
          Strays              \* files an operator or a backup may put in a place

VARIABLES states,    \* symbol -> model in service and its next training
          training,  \* symbol -> task: "none", "running", "failed" or a model
          files,     \* symbol -> what its model file holds
          known,     \* _known_symbols
          todo,      \* symbols this cycle has still to evaluate
          messages   \* labels this cycle has concluded and not published

detVars == <<states, training, files, known, todo, messages>>

NoModel == [of |-> "none", at |-> 0]
Task(status, at) == [status |-> status, at |-> at]
NoTask == Task("none", 0)

(* A file carries the symbol its HMAC and its metadata were made for, and  *)
(* whether its bytes are what save wrote.                                  *)
NoFile == [for |-> "none", at |-> 0, whole |-> FALSE]
NoState == [model |-> NoModel, next_train_at |-> 0, seen |-> FALSE]

DetInit ==
  /\ states = [s \in Symbols |-> NoState]
  /\ training = [s \in Symbols |-> NoTask]
  /\ files \in [Symbols -> {NoFile} \cup Strays]
  /\ known = {} /\ todo = {} /\ messages = {}

-----------------------------------------------------------------------------
(* The model store.                                                        *)

(* _tag: the HMAC covers the symbol, so a file renamed to another symbol's *)
(* place, or damaged, does not verify.                                     *)
tag_ok_Unbound(f, s) == f.whole       \* Slip: the payload alone is signed
tag_ok(f, s) == f.whole /\ f.for = s

deserialize_model(f) == [of |-> f.for, at |-> f.at]

load(s) ==
  IF StoreKey /\ tag_ok(files[s], s) THEN deserialize_model(files[s]) ELSE NoModel

(* save writes a temporary file and renames it: the old file or the new.   *)
save(s, model) ==
  IF StoreKey THEN {files, [files EXCEPT ![s] = [for |-> s, at |-> model.at, whole |-> TRUE]]}
  ELSE {files}

-----------------------------------------------------------------------------
(* Training.                                                               *)

(* state_for: on first sight a verified file stands in for training.      *)
state_for(s) ==
  IF states[s].seen THEN states[s]
  ELSE LET m == load(s)
       IN  [model |-> m, seen |-> TRUE,
            next_train_at |-> IF m = NoModel THEN 0 ELSE m.at + RetrainInterval]

maybe_start_training(s, state, rows) ==
  IF training[s] = NoTask /\ now >= state.next_train_at /\ rows = "trainable"
  THEN [training EXCEPT ![s] = Task("running", now)] ELSE training

(* train, on its thread: the fit fails, or the model is saved and handed  *)
(* over.                                                                   *)
train(s) ==
  /\ training[s].status = "running"
  /\ \/ /\ training' = [training EXCEPT ![s] = Task("failed", 0)]
        /\ files' = files
     \/ /\ training' = [training EXCEPT ![s] = Task("trained", training[s].at)]
        /\ files' \in save(s, [of |-> s, at |-> training[s].at])
  /\ UNCHANGED <<now, states, known, todo, messages>>

after_training(s, task) ==
  IF task.status = "trained"
  THEN [model |-> [of |-> s, at |-> task.at], seen |-> TRUE,
        next_train_at |-> task.at + RetrainInterval]
  ELSE [states[s] EXCEPT !.next_train_at = now + TrainRetryBackoff, !.seen = TRUE]

collect_training ==
  LET done == {s \in Symbols : training[s].status \in {"failed", "trained"}}
  IN  /\ states' = [s \in Symbols |->
                      IF s \in done THEN after_training(s, training[s]) ELSE states[s]]
      /\ training' = [s \in Symbols |-> IF s \in done THEN NoTask ELSE training[s]]

-----------------------------------------------------------------------------
(* One cycle.                                                              *)

message(s, prediction) ==
  [symbol |-> s, label |-> prediction.label, ts |-> now,
   modelOf |-> prediction.modelOf, dataAt |-> prediction.dataAt]

unknown == [label |-> "REGIME_UNKNOWN", modelOf |-> "none", dataAt |-> 0]

(* run_cycle: finished models are installed, then QuestDB lists the        *)
(* symbols it has; if it does not answer, every known symbol is unknown.   *)
run_cycle ==
  /\ todo = {} /\ messages = {}
  /\ collect_training
  /\ \/ /\ messages' = {message(s, unknown) : s \in known}
        /\ UNCHANGED <<known, todo>>
     \/ \E listed \in SUBSET Symbols :
          known' = listed /\ todo' = listed /\ messages' = messages
  /\ UNCHANGED <<now, files>>

(* What fetch_rows may bring: no rows, too few to infer or to train from,  *)
(* or enough; the newest bar has a time and may be flagged stale.          *)
BarRows == [latest : Time, is_stale : BOOLEAN,
            size : {"none", "short", "usable", "trainable"}]

staleness(rows) ==
  \/ rows.is_stale
  \/ now - rows.latest > MaxDataAge
  \/ now - rows.latest < -MaxDataAge

(* predict_regime and apply_confidence_floor: without a model, or when the *)
(* posterior is not finite or not confident enough, UNKNOWN.               *)
predict_regime(model, rows) ==
  {unknown} \cup
  (IF model = NoModel THEN {}
   ELSE {[label |-> "REGIME", modelOf |-> model.of, dataAt |-> rows.latest]})

evaluate(s) ==
  \E rows \in BarRows :
    IF rows.size \in {"none", "short"} \/ staleness(rows)
    THEN messages' = messages \cup {message(s, unknown)} /\ UNCHANGED <<states, training>>
    ELSE LET state == state_for(s)
         IN  /\ states' = [states EXCEPT ![s] = state]
             /\ training' = maybe_start_training(s, state, rows.size)
             /\ \E p \in predict_regime(state.model, rows) :
                  messages' = messages \cup {message(s, p)}

evaluate_safe ==
  /\ todo # {}
  /\ LET s == CHOOSE x \in todo : TRUE
     IN  todo' = todo \ {s} /\ evaluate(s)
  /\ UNCHANGED <<now, files, known>>

(* publish: one message leaves, and Redis takes it or the failure is       *)
(* logged; the composition says what becomes of it.                        *)
publish(m) ==
  /\ todo = {} /\ m \in messages
  /\ messages' = messages \ {m}
  /\ UNCHANGED <<now, states, training, files, known, todo>>

-----------------------------------------------------------------------------
(* The process dies and starts again with the files it finds: meanwhile    *)
(* one may have been lost, damaged or put in the place of another.         *)
Restart ==
  /\ states' = [s \in Symbols |-> NoState]
  /\ training' = [s \in Symbols |-> NoTask]
  /\ known' = {} /\ todo' = {} /\ messages' = {}
  /\ \/ files' = files
     \/ \E s \in Symbols, f \in Strays \cup {NoFile} : files' = [files EXCEPT ![s] = f]
  /\ UNCHANGED now
=============================================================================
