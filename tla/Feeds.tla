------------------------------- MODULE Feeds -------------------------------
(***************************************************************************)
(* The regime detector, the bridge and Aegis's reference data together.    *)
(* Redis delivers a published label at once or not at all, and snapshots   *)
(* of the sensory array in any order.  All clocks agree; time passes       *)
(* between any two steps.                                                  *)
(***************************************************************************)
EXTENDS RegimeDetector, RefdataBridge

CONSTANTS Events   \* bound on the snapshots received and the restarts of any process

ASSUME FeedAssumption == MaxTime \in Nat /\ MaxDataAge \in Nat

VARIABLES events

feedsVars == <<now, detVars, bridgeVars, events>>

FeedsInit == now = 0 /\ events = 0 /\ DetInit /\ BridgeInit

Tick ==
  /\ now < MaxTime /\ now' = now + 1
  /\ UNCHANGED <<detVars, bridgeVars, events>>

Cycle == run_cycle /\ UNCHANGED <<bridgeVars, events>>
Evaluate == evaluate_safe /\ UNCHANGED <<bridgeVars, events>>
Train == \E s \in Symbols : train(s) /\ UNCHANGED <<bridgeVars, events>>

Publish ==
  \E m \in messages :
    /\ publish(m) /\ UNCHANGED events
    /\ \/ on_regime_message(m)
       \/ UNCHANGED bridgeVars                       \* lost

Event == events < Events /\ events' = events + 1

Snapshot == Event /\ on_snapshot_message /\ UNCHANGED detVars
Push == PushOnce /\ UNCHANGED <<detVars, events>>
Ingest == ingest /\ UNCHANGED <<detVars, events>>
Answered == Answer /\ UNCHANGED <<detVars, events>>
Failed == PushFails /\ UNCHANGED <<detVars, events>>

Crash ==
  /\ Event
  /\ \/ Restart /\ UNCHANGED bridgeVars
     \/ BridgeRestart /\ UNCHANGED detVars
     \/ AegisRestart /\ UNCHANGED detVars

FeedsNext ==
  \/ Tick \/ Cycle \/ Evaluate \/ Train \/ Publish \/ Snapshot
  \/ Push \/ Ingest \/ Answered \/ Failed \/ Crash

(* The push loop runs every interval, and a network that is tried again    *)
(* and again lets a request through in the end.                            *)
FeedsSpec == FeedsInit /\ [][FeedsNext]_feedsVars
             /\ WF_feedsVars(Push) /\ SF_feedsVars(Ingest) /\ WF_feedsVars(Answered \/ Failed)

-----------------------------------------------------------------------------
(* Properties.                                                             *)

(* A regime Aegis acts on for a symbol (C18) was concluded by a model      *)
(* trained on that symbol, from bars that were not too old when it was     *)
(* concluded, whatever became of the model files while the detector was    *)
(* down (model_store.py 55-57, service.py 157-166).                        *)
AegisRegimeTrue ==
  \A s \in Symbols :
    regimes[s].label # "REGIME_UNKNOWN" =>
      /\ regimes[s].symbol = s /\ regimes[s].modelOf = s
      /\ regimes[s].ts - regimes[s].dataAt \in (-MaxDataAge)..MaxDataAge

(* The watermark of a symbol's label (batch.py 85-87) never passes what    *)
(* Aegis accepted, though newer labels arrive during the push: a label     *)
(* that was not accepted stays due.                                        *)
RegimeWatermarkTrue == \A s \in Symbols : pushedRegimeTs[s] <= acceptedRegime[s]

(* A label the bridge holds for a symbol Aegis trades reaches Aegis, lost  *)
(* answers and restarts of Aegis notwithstanding, unless it grows too old  *)
(* to be accepted or the bridge itself restarts (service.py 77-110).       *)
LabelArrives ==
  \A s \in Symbols \cap Allowed : \A t \in 1..MaxTime :
    latestRegimes[s].ts = t
      ~> \/ acceptedRegime[s] >= t
         \/ now - t > MaxRegimeAge
         \/ latestRegimes[s] = NoRegime
=============================================================================
