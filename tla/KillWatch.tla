----------------------------- MODULE KillWatch -----------------------------
(***************************************************************************)
(* How the execution-motor obeys the kill switch of Aegis                  *)
(* (execution_motor/kill_watch.py, halt.py, motor.py): a stream thread     *)
(* mirrors the level that Aegis publishes, a sweeper thread cancels the    *)
(* open broker orders at LOGIC and above and probes that Aegis is alive,   *)
(* stop() runs on the main thread, and request threads submit orders while *)
(* the mirror reads NORMAL.  One step is what a thread does between two    *)
(* points where another thread can see or change the shared fields.        *)
(*                                                                         *)
(* Aegis, the connection to it and the broker are the environment: Aegis   *)
(* may freeze (nothing breaks, nothing answers) or go down and restart,    *)
(* with a smaller state_seq when its last save was lost.                   *)
(***************************************************************************)
EXTENDS KillLevels, Sequences, FiniteSets

CONSTANTS
  Orders,      \* attested orders the motor is asked to execute
  FeedLevels,  \* levels Aegis may publish
  PageSize,    \* _OPEN_ORDERS_PAGE: orders one listing returns at most
  MayStop,     \* whether stop() may be called
  MaxStateSeq,      \* bound on state_seq
  MaxOutages,  \* bound on freezes and crashes of Aegis
  MaxFaults    \* bound on broken streams, failed probes and failed broker calls

ASSUME KillWatchAssumption ==
  /\ FeedLevels \subseteq Levels
  /\ PageSize \in Nat \ {0}
  /\ MayStop \in BOOLEAN
  /\ MaxStateSeq \in Nat /\ MaxOutages \in Nat /\ MaxFaults \in Nat

VARIABLES
  aegis,    \* [level, seq] the state Aegis publishes
  link,     \* "ok", "frozen" or "down"
  outages,
  faults,
  chan,     \* the message in flight on the current stream, a sequence of at most one
  unsent,   \* the state changed since the server last wrote it to the stream
  broken,   \* the current stream was cancelled or reset
  mirror,   \* KillLevelMirror: [level, known]
  last_seq, \* _last_seq, NoSeq for None
  call,     \* _call is set
  pending,  \* _pending is set
  wake,     \* the _wake event
  stop,     \* the _stop event
  pc,       \* [Threads -> the next step of the thread]
  after,    \* [Threads -> where a requested sweep returns to]
  held,     \* [Threads -> "none", "current" or "old": the call read from _call]
  todo,     \* orders the running sweep has listed and not yet cancelled
  halted,   \* the local halt of KillSwitch, sticky
  stage     \* [Orders -> "new", "claimed", "calling", "open", "gone", "refused"]

aegisVars  == <<aegis, link, outages>>
streamVars == <<chan, unsent, broken>>
sweepVars  == <<pending, wake>>
motorVars  == <<halted, stage>>
watchVars == <<aegisVars, faults, streamVars, mirror, last_seq, call, sweepVars, stop,
          pc, after, held, todo, motorVars>>

NoSeq   == -1
Threads == {"stream", "sweep", "main"}
Goto(t, l) == pc' = [pc EXCEPT ![t] = l]

\* Something external fails, within the bound.
Fault   == faults < MaxFaults /\ faults' = faults + 1
NoFault == UNCHANGED faults

Unknown   == [level |-> HARD, known |-> FALSE]
Published == [level |-> aegis.level, seq |-> aegis.seq]

-----------------------------------------------------------------------------
(* Aegis and the connection to it.                                         *)

AegisChange(l) ==
  /\ link = "ok" /\ aegis.seq < MaxStateSeq
  /\ aegis' = [level |-> l, seq |-> aegis.seq + 1]
  /\ unsent' = TRUE
  /\ UNCHANGED <<link, outages, faults, chan, broken, mirror, last_seq, call, sweepVars,
                 stop, pc, after, held, todo, motorVars>>

\* WatchStream: the latest state, whatever was skipped in between.
Send ==
  /\ link = "ok" /\ unsent /\ ~broken /\ chan = <<>>
  /\ pc["stream"] \in {"publish", "read", "applied", "ask", "wake"}
  /\ chan' = <<Published>>
  /\ unsent' = FALSE
  /\ UNCHANGED <<aegisVars, faults, broken, mirror, last_seq, call, sweepVars, stop, pc,
                 after, held, todo, motorVars>>

Outage(how) ==
  /\ link = "ok" /\ outages < MaxOutages
  /\ link' = how
  /\ outages' = outages + 1
  /\ broken' = (broken \/ how = "down")
  /\ UNCHANGED <<aegis, faults, chan, unsent, mirror, last_seq, call, sweepVars, stop, pc,
                 after, held, todo, motorVars>>

Restore(l, n) ==
  /\ link # "ok"
  /\ link' = "ok"
  /\ aegis' = IF link = "down" THEN [level |-> l, seq |-> n] ELSE aegis
  /\ UNCHANGED <<outages, faults, streamVars, mirror, last_seq, call, sweepVars, stop, pc,
                 after, held, todo, motorVars>>

-----------------------------------------------------------------------------
(* The stream thread: _stream_loop, consume, handle_state.                 *)

\* Slip: last_seq survives a reconnect.
BeginStream_KeepsSeq ==
  /\ pc["stream"] = "begin"
  /\ Goto("stream", IF stop THEN "exit" ELSE "open")
  /\ UNCHANGED <<aegisVars, faults, streamVars, mirror, last_seq, call, sweepVars, stop,
                 after, held, todo, motorVars>>

BeginStream ==
  /\ pc["stream"] = "begin"
  /\ IF stop THEN Goto("stream", "exit") /\ UNCHANGED last_seq
     ELSE Goto("stream", "open") /\ last_seq' = NoSeq
  /\ UNCHANGED <<aegisVars, faults, streamVars, mirror, call, sweepVars, stop, after, held,
                 todo, motorVars>>

\* open_stream does not wait for the connection; the first item of a stream is
\* the current state.  A call another thread still holds is now an old one.
OpenStream ==
  /\ pc["stream"] = "open"
  /\ \/ /\ NoFault
        /\ Goto("stream", "publish")
        /\ chan' = <<>> /\ unsent' = TRUE /\ broken' = (link = "down")
        /\ held' = [t \in Threads |-> IF held[t] = "current" THEN "old" ELSE held[t]]
        /\ UNCHANGED after
     \/ /\ Fault
        /\ Goto("stream", "mark")
        /\ after' = [after EXCEPT !["stream"] = "clear"]
        /\ UNCHANGED <<streamVars, held>>
  /\ UNCHANGED <<aegisVars, mirror, last_seq, call, sweepVars, stop, todo, motorVars>>

\* Slip: the stop flag is not looked at again once the call is published.
PublishCall_NoRecheck ==
  /\ pc["stream"] = "publish"
  /\ call' = TRUE
  /\ Goto("stream", "read")
  /\ UNCHANGED <<aegisVars, faults, streamVars, mirror, last_seq, sweepVars, stop, after,
                 held, todo, motorVars>>

PublishCall ==
  /\ pc["stream"] = "publish"
  /\ call' = TRUE
  /\ broken' = (broken \/ stop)
  /\ Goto("stream", "read")
  /\ UNCHANGED <<aegisVars, faults, chan, unsent, mirror, last_seq, sweepVars, stop, after,
                 held, todo, motorVars>>

\* handle_state up to the level it acts on: an item older than the last one of
\* this stream is dropped.
ReadState ==
  /\ pc["stream"] = "read" /\ chan # <<>>
  /\ chan' = <<>>
  /\ IF stop THEN Goto("stream", "ended") /\ UNCHANGED <<mirror, last_seq>>
     ELSE IF chan[1].seq < last_seq THEN UNCHANGED <<pc, mirror, last_seq>>
     ELSE /\ last_seq' = chan[1].seq
          /\ mirror' = [level |-> LevelEnum(chan[1].level), known |-> TRUE]
          /\ Goto("stream", "applied")
  /\ UNCHANGED <<aegisVars, faults, unsent, broken, call, sweepVars, stop, after, held, todo,
                 motorVars>>

\* The level is read back from the mirror before it is compared.
ActOnLevel ==
  /\ pc["stream"] = "applied"
  /\ Goto("stream", IF mirror.level >= LOGIC THEN "ask" ELSE "read")
  /\ after' = [after EXCEPT !["stream"] = "read"]
  /\ UNCHANGED <<aegisVars, faults, streamVars, mirror, last_seq, call, sweepVars, stop,
                 held, todo, motorVars>>

\* The iterator raises or ends.
StreamFails ==
  /\ pc["stream"] = "read"
  /\ (broken /\ NoFault) \/ (~broken /\ Fault)
  /\ Goto("stream", "ended")
  /\ UNCHANGED <<aegisVars, streamVars, mirror, last_seq, call, sweepVars, stop, after, held,
                 todo, motorVars>>

\* The end of consume: shutting down halts without a sweep.
StreamEnded ==
  /\ pc["stream"] = "ended"
  /\ IF stop THEN /\ mirror' = Unknown
                  /\ Goto("stream", "clear")
     ELSE Goto("stream", "mark") /\ UNCHANGED mirror
  /\ after' = [after EXCEPT !["stream"] = "clear"]
  /\ UNCHANGED <<aegisVars, faults, streamVars, last_seq, call, sweepVars, stop, held, todo,
                 motorVars>>

\* _call = None, and the backoff.
ClearCall ==
  /\ pc["stream"] = "clear"
  /\ call' = FALSE
  /\ Goto("stream", "begin")
  /\ UNCHANGED <<aegisVars, faults, streamVars, mirror, last_seq, sweepVars, stop, after,
                 held, todo, motorVars>>

-----------------------------------------------------------------------------
(* Steps several threads take.                                             *)

\* handle_stream_down; the request for a sweep follows.
MarkUnknown(t) ==
  /\ pc[t] = "mark"
  /\ mirror' = Unknown
  /\ Goto(t, "ask")
  /\ UNCHANGED <<aegisVars, faults, streamVars, last_seq, call, sweepVars, stop, after, held,
                 todo, motorVars>>

\* Slip: the sweeper is woken before the request is in its slot.
RequestSweep_WakeFirst(t) ==
  /\ \/ pc[t] = "ask" /\ wake' = TRUE /\ Goto(t, "wake") /\ UNCHANGED pending
     \/ pc[t] = "wake" /\ pending' = TRUE /\ Goto(t, after[t]) /\ UNCHANGED wake
  /\ UNCHANGED <<aegisVars, faults, streamVars, mirror, last_seq, call, stop, after, held,
                 todo, motorVars>>

\* _request_sweep: fill the slot, then wake the sweeper.
RequestSweep(t) ==
  /\ \/ pc[t] = "ask" /\ pending' = TRUE /\ Goto(t, "wake") /\ UNCHANGED wake
     \/ pc[t] = "wake" /\ wake' = TRUE /\ Goto(t, after[t]) /\ UNCHANGED pending
  /\ UNCHANGED <<aegisVars, faults, streamVars, mirror, last_seq, call, stop, after, held,
                 todo, motorVars>>

\* Read _call under its lock, and cancel what was read afterwards.
GrabCall(t) ==
  /\ pc[t] = "grab"
  /\ held' = [held EXCEPT ![t] = IF call THEN "current" ELSE "none"]
  /\ Goto(t, "kill")
  /\ UNCHANGED <<aegisVars, faults, streamVars, mirror, last_seq, call, sweepVars, stop,
                 after, todo, motorVars>>

CancelCall(t) ==
  /\ pc[t] = "kill"
  /\ broken' = (broken \/ held[t] = "current")
  /\ held' = [held EXCEPT ![t] = "none"]
  /\ Goto(t, IF t = "main" THEN "wake" ELSE "wait")
  /\ UNCHANGED <<aegisVars, faults, chan, unsent, mirror, last_seq, call, sweepVars, stop,
                 after, todo, motorVars>>

\* stop(): the flag, the call, the wake-up; the process then exits.
Stop ==
  /\ MayStop /\ pc["main"] = "run"
  /\ stop' = TRUE
  /\ Goto("main", "grab")
  /\ after' = [after EXCEPT !["main"] = "joined"]
  /\ UNCHANGED <<aegisVars, faults, streamVars, mirror, last_seq, call, sweepVars, held,
                 todo, motorVars>>

-----------------------------------------------------------------------------
(* The sweeper thread: _sweep_loop, sweep, check_liveness.                 *)

Open == {o \in Orders : stage[o] = "open"}

\* _wake.wait returns on the event or on its timeout; the event is cleared first.
Wait ==
  /\ pc["sweep"] \in {"wait", "unset"}
  /\ IF pc["sweep"] = "wait" THEN Goto("sweep", "unset") /\ UNCHANGED wake
     ELSE Goto("sweep", "take") /\ wake' = FALSE
  /\ UNCHANGED <<aegisVars, faults, streamVars, mirror, last_seq, call, pending, stop, after,
                 held, todo, motorVars>>

\* A requested sweep runs even when the level was reset meanwhile.
TakeRequest ==
  /\ pc["sweep"] = "take"
  /\ IF stop THEN Goto("sweep", "exit") /\ UNCHANGED pending
     ELSE Goto("sweep", IF pending THEN "list" ELSE "level") /\ pending' = FALSE
  /\ UNCHANGED <<aegisVars, faults, streamVars, mirror, last_seq, call, wake, stop, after,
                 held, todo, motorVars>>

\* Slip: no sweep without a request.
SweepIfElevated_Never ==
  /\ pc["sweep"] = "level"
  /\ Goto("sweep", "live")
  /\ UNCHANGED <<aegisVars, faults, streamVars, mirror, last_seq, call, sweepVars, stop,
                 after, held, todo, motorVars>>

SweepIfElevated ==
  /\ pc["sweep"] = "level"
  /\ Goto("sweep", IF mirror.level >= LOGIC THEN "list" ELSE "live")
  /\ UNCHANGED <<aegisVars, faults, streamVars, mirror, last_seq, call, sweepVars, stop,
                 after, held, todo, motorVars>>

\* list_open_orders: one page, or an unreadable venue.
ListOrders ==
  /\ pc["sweep"] = "list"
  /\ \/ /\ NoFault
        /\ todo' \in {S \in SUBSET Open : \/ S = Open /\ Cardinality(S) <= PageSize
                                          \/ Cardinality(S) = PageSize}
     \/ Fault /\ todo' = {}
  /\ Goto("sweep", "cancel")
  /\ UNCHANGED <<aegisVars, streamVars, mirror, last_seq, call, sweepVars, stop, after, held,
                 motorVars>>

\* Each listed order is cancelled once; a failure is left to the next sweep.
CancelOrders ==
  /\ pc["sweep"] = "cancel"
  /\ \/ /\ todo = {}
        /\ Goto("sweep", "live")
        /\ UNCHANGED <<faults, stage, todo>>
     \/ \E o \in todo :
          /\ todo' = todo \ {o}
          /\ \/ /\ NoFault
                /\ stage' = [stage EXCEPT ![o] = "gone"]
             \/ Fault /\ UNCHANGED stage
          /\ UNCHANGED pc
  /\ UNCHANGED <<aegisVars, streamVars, mirror, last_seq, call, sweepVars, stop, after, held,
                 halted>>

\* Slip: nothing probes; only a broken stream tells.
CheckLiveness_Never ==
  /\ pc["sweep"] = "live"
  /\ Goto("sweep", "wait")
  /\ UNCHANGED <<aegisVars, faults, streamVars, mirror, last_seq, call, sweepVars, stop,
                 after, held, todo, motorVars>>

\* check_liveness: the probe is skipped while the state is unknown.
CheckLiveness ==
  /\ pc["sweep"] = "live"
  /\ Goto("sweep", IF mirror.known THEN "probe" ELSE "wait")
  /\ UNCHANGED <<aegisVars, faults, streamVars, mirror, last_seq, call, sweepVars, stop,
                 after, held, todo, motorVars>>

\* The unary GetKillSwitchState with its deadline: on failure mark the state
\* unknown, ask for a sweep, and then cancel the stream.
Probe ==
  /\ pc["sweep"] = "probe"
  /\ \/ link = "ok" /\ NoFault /\ Goto("sweep", "wait") /\ UNCHANGED after
     \/ /\ IF link = "ok" THEN Fault ELSE NoFault
        /\ Goto("sweep", "mark")
        /\ after' = [after EXCEPT !["sweep"] = "grab"]
  /\ UNCHANGED <<aegisVars, streamVars, mirror, last_seq, call, sweepVars, stop, held, todo,
                 motorVars>>

-----------------------------------------------------------------------------
(* A request thread of the motor, and the broker.                          *)

IsHalted == mirror.level # NORMAL \/ halted

\* _precheck and the claims; an order refused here may be sent again.
Precheck(o) ==
  /\ stage[o] = "new" /\ ~IsHalted
  /\ stage' = [stage EXCEPT ![o] = "claimed"]
  /\ UNCHANGED <<aegisVars, faults, streamVars, mirror, last_seq, call, sweepVars, stop, pc,
                 after, held, todo, halted>>

\* _submit checks the switch again right before the broker call.
BeginSubmit(o) ==
  /\ stage[o] = "claimed"
  /\ stage' = [stage EXCEPT ![o] = IF IsHalted THEN "refused" ELSE "calling"]
  /\ UNCHANGED <<aegisVars, faults, streamVars, mirror, last_seq, call, sweepVars, stop, pc,
                 after, held, todo, halted>>

\* The broker accepts or rejects; when the outcome is unknown the order may exist
\* and the motor halts itself.
BrokerAnswers(o) ==
  /\ stage[o] = "calling"
  /\ \E s \in {"open", "gone"} : stage' = [stage EXCEPT ![o] = s]
  /\ (NoFault /\ UNCHANGED halted) \/ (Fault /\ halted' = TRUE)
  /\ UNCHANGED <<aegisVars, streamVars, mirror, last_seq, call, sweepVars, stop, pc, after,
                 held, todo>>

Fill(o) ==
  /\ stage[o] = "open"
  /\ stage' = [stage EXCEPT ![o] = "gone"]
  /\ UNCHANGED <<aegisVars, faults, streamVars, mirror, last_seq, call, sweepVars, stop, pc,
                 after, held, todo, halted>>

-----------------------------------------------------------------------------
WatchInit ==
  /\ aegis \in [level : FeedLevels, seq : {1}]
  /\ link = "ok" /\ outages = 0 /\ faults = 0
  /\ chan = <<>> /\ unsent = FALSE /\ broken = FALSE
  /\ mirror = Unknown
  /\ last_seq = NoSeq
  /\ call = FALSE /\ pending = FALSE /\ wake = FALSE /\ stop = FALSE
  /\ pc = [t \in Threads |-> IF t = "stream" THEN "begin"
                         ELSE IF t = "sweep" THEN "wait" ELSE "run"]
  /\ after = [t \in Threads |-> "read"]
  /\ held = [t \in Threads |-> "none"]
  /\ todo = {}
  /\ halted = FALSE
  /\ stage = [o \in Orders |-> "new"]

StreamThread ==
  BeginStream \/ OpenStream \/ PublishCall \/ ReadState \/ ActOnLevel \/ StreamFails
  \/ StreamEnded \/ ClearCall \/ MarkUnknown("stream") \/ RequestSweep("stream")

SweepThread ==
  Wait \/ TakeRequest \/ SweepIfElevated \/ ListOrders \/ CancelOrders \/ CheckLiveness
  \/ Probe \/ MarkUnknown("sweep") \/ RequestSweep("sweep") \/ GrabCall("sweep")
  \/ CancelCall("sweep")

MainThread == Stop \/ GrabCall("main") \/ CancelCall("main") \/ RequestSweep("main")

RequestThread(o) == Precheck(o) \/ BeginSubmit(o) \/ BrokerAnswers(o)

WatchNext ==
  \/ \E l \in FeedLevels : AegisChange(l)
  \/ Send
  \/ \E how \in {"frozen", "down"} : Outage(how)
  \/ \E l \in FeedLevels, n \in 1..MaxStateSeq : Restore(l, n)
  \/ StreamThread
  \/ SweepThread
  \/ MainThread
  \/ \E o \in Orders : RequestThread(o) \/ Fill(o)

WatchSpec == WatchInit /\ [][WatchNext]_watchVars

\* Threads are scheduled, Aegis writes its stream while it is up, and a broker
\* call ends (each has a timeout).  No fault is ever forced; nothing obliges Aegis to recover, anyone to
\* call stop, or the broker to fill.
Fairness ==
  /\ WF_watchVars(StreamThread /\ NoFault)
  /\ WF_watchVars(SweepThread /\ NoFault)
  /\ WF_watchVars(GrabCall("main") \/ CancelCall("main") \/ RequestSweep("main"))
  /\ WF_watchVars(Send)
  /\ \A o \in Orders : WF_watchVars(BeginSubmit(o)) /\ WF_watchVars(BrokerAnswers(o) /\ NoFault)

FairWatchSpec == WatchSpec /\ Fairness

-----------------------------------------------------------------------------
(* Properties.                                                             *)

\* A requested sweep is never left to the timer: while the slot is full the event
\* is set, or its setter is about to set it, or the sweeper is about to look
\* ("Each state message wakes the sweeper thread at once").
NoLostWake ==
  pending => \/ wake
             \/ \E t \in Threads : pc[t] = "wake"
             \/ pc["sweep"] \in {"unset", "take", "exit"}

\* When Aegis stays at LOGIC or above, no order stays open at the broker: not one
\* whose submission was in flight, whose cancel failed, or beyond the first page.
OrdersCancelled ==
  <>[](aegis.level >= LOGIC /\ ~stop) => <>[](Open = {})

\* When Aegis stays reachable, the motor ends up with its level, whatever broke
\* before and whatever state_seq Aegis came back with (no halt that nobody asked for).
MirrorConverges ==
  <>[](link = "ok" /\ ~stop) => <>[](mirror = [level |-> aegis.level, known |-> TRUE])

\* When Aegis stays frozen or down, the motor ends up halted at HARD, although a
\* frozen Aegis breaks no connection.
DeadAegisHalts ==
  <>[](link # "ok") => <>[](mirror = Unknown)

\* After stop() both threads end and the motor is halted, also when stop() found no
\* call to cancel because the stream thread had not published it yet.
StopEnds ==
  stop ~> (pc["stream"] = "exit" /\ pc["sweep"] = "exit" /\ mirror = Unknown)

=============================================================================
