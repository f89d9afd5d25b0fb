--------------------------- MODULE CognitiveRunner ---------------------------
(***************************************************************************)
(* The runner of the cognitive core: one asyncio loop that takes market    *)
(* snapshots from a bounded queue, recalls precedents, runs the debate     *)
(* under its deadline and hands the signal to Aegis and, once approved, to *)
(* the execution motor.  A pump task fills the queue meanwhile, operators  *)
(* raise and clear the halt file, and every await ends with a reply, an    *)
(* error or its timeout.                                                   *)
(*                                                                         *)
(* There is no clock: what the code compares are ages, and an await adds   *)
(* its duration to all of them.  An age is counted only up to the value    *)
(* from which it no longer matters, so runs are unbounded.  Computation    *)
(* takes no time.                                                          *)
(***************************************************************************)
EXTENDS Debate, VectorMemory, Sequences

CONSTANTS Configs,          \* environments the process may be started with
          Messages,         \* snapshots the sensory array may publish
          Ages,             \* their ages on arrival
          HaltFile,         \* states of the halt file, "absent" one of them
          BlueReplies, RedReplies, JudgeReplies,
          QueueSize,        \* QUEUE_SIZE
          MaxTracked,       \* MAX_TRACKED_SYMBOLS
          MaxAge,           \* max_context_age_s
          FutureTolerance,  \* FUTURE_TOLERANCE_NS
          Interval,         \* min_debate_interval_s
          RecallTimeout,    \* memory_timeout_s
          BlueBudget, RedBudget, JudgeBudget, CompressionBudget,
          BlueRedCeiling,   \* BLUE_RED_COMBINED_CEILING_S
          Deadline,         \* overall_deadline_s
          AegisTimeout, MotorTimeout,
          Heartbeat,        \* heartbeat_interval_s
          MaxBeatAge        \* max_beat_age_s

VARIABLES config,    \* the settings read at start
          queue,     \* snapshots waiting, each with its age
          source,    \* the pump: "live", or "ended" with or without an error
          stop,      \* SIGTERM or SIGINT arrived
          file,      \* the halt file: "absent", "present", "unreadable"
          pc,        \* the await the runner is in
          debate,    \* the message in hand and what came of it so far
          cooldown,  \* _last_debate: symbol -> time since its last debate
          beat,      \* time since the last heartbeat
          exit       \* exit code of the process

env == <<config, source, stop, file>>
vars == <<config, queue, source, stop, file, pc, debate, cooldown, beat, exit,
          memory, landing>>

Least(a, b) == IF a <= b THEN a ELSE b

CycleTime == RecallTimeout + Deadline + AegisTimeout + MotorTimeout + CallTimeout
Allowance == MaxAge + RecallTimeout + Deadline   \* age of a snapshot acted on

ASSUME RunnerAssumption ==
  /\ {MaxAge, RecallTimeout, BlueBudget, RedBudget, JudgeBudget, CompressionBudget,
      Deadline, AegisTimeout, MotorTimeout, Heartbeat, MaxBeatAge} \subseteq Nat
  /\ QueueSize \in Nat \ {0}
  /\ BlueRedCeiling <= Deadline

(* A heartbeat interval and a cycle in which every call takes its whole    *)
(* budget fit into the age the health check allows, as with the default    *)
(* budgets (at least 30 s against under 8 s); no setting is checked for it *)
(* (runner_config.py 212-215).                                             *)
CyclesFit == Heartbeat + CycleTime <= MaxBeatAge

(* A message has the fields of a snapshot, and one that parses has numbers *)
(* for its price and volatility; the limits of a sizer are not negative.   *)
ASSUME InputAssumption ==
  /\ Ages \subseteq Int
  /\ \A m \in Messages :
       /\ {"symbol", "regime", "age", "ok", "is_stale", "warmup", "price", "vol"} \subseteq DOMAIN m
       /\ m.ok => m.price \in Int /\ m.vol \in Int
  /\ \A c \in Configs : c.quantity \in Nat /\ c.sizer.budget \in Nat /\ c.sizer.cap \in Nat

(* What debate holds: the snapshot, the precedents (until the Judge has    *)
(* seen them), the time since the debate started, the three statements,    *)
(* which models really answered (a history variable), the signal, whether  *)
(* it may become a precedent, the statements the motor will be given as    *)
(* the context of the order, and the approval being relayed.               *)
NoMessage == [symbol |-> "none", regime |-> "none", age |-> 0]
NoDecision == [status |-> "", attested |-> FALSE]
Fresh(m) ==
  [snap |-> m, precedents |-> {}, elapsed |-> 0, blue |-> ForcedBlue,
   red |-> ForcedRed, judge |-> default_abstain, heard |-> {},
   finished |-> FALSE, signal |-> abstain_signal, recordable |-> FALSE,
   context |-> {}, decision |-> NoDecision]
NoDebate == Fresh(NoMessage)

-----------------------------------------------------------------------------
(* Starting.                                                               *)

(* The TLS settings of the two channels: a certificate comes with its key, *)
(* production needs a CA, and the files named must be readable.            *)
aegis_tls_from_env(c) ==
  c.aegisTls.cert = c.aegisTls.key /\ (c.production => c.aegisTls.ca)
motor_tls_from_env(c) ==
  c.motorTls.cert = c.motorTls.key /\ (c.production => c.motorTls.ca)

open_aegis_channel(c) == aegis_tls_from_env(c) /\ c.aegisTls.readable
open_motor_channel(c) == motor_tls_from_env(c) /\ c.motorTls.readable

budgets_within_spec == BlueBudget + RedBudget <= BlueRedCeiling

(* RunnerSettings.from_env: production needs a quantity or a sizer.        *)
FromEnv(c) == c.production => c.sizer.kind # "fixed" \/ c.quantity > 0

(* LogSink, AegisGrpcSink or AegisRelaySink: without the motor's generated *)
(* stubs the core submits to Aegis and forwards nothing.                   *)
build_sink(c) == IF c.sink = "relay" /\ ~c.motorProtos THEN "aegis" ELSE c.sink

build_memory(c) == c.memory = "off" \/ c.storeOpens

(* amain: whatever fails at start-up ends the process before it trades.    *)
Starts(c) ==
  /\ FromEnv(c) /\ budgets_within_spec /\ build_memory(c)
  /\ build_sink(c) # "log" => open_aegis_channel(c)
  /\ build_sink(c) = "relay" => open_motor_channel(c)

Init ==
  /\ config \in Configs
  /\ queue = <<>> /\ source = "live" /\ stop = FALSE /\ file = "absent"
  /\ debate = NoDebate /\ cooldown = <<>> /\ beat = 0
  /\ IF Starts(config) THEN pc = "loop" /\ exit = "none"
     ELSE pc = "exited" /\ exit = "EXIT_CONFIG"
  /\ MemInit

-----------------------------------------------------------------------------
(* Time.                                                                   *)

Older(m, d, cap) == [m EXCEPT !.age = Least(m.age + d, cap)]

Later(b, d) == [b EXCEPT !.snap = Older(b.snap, d, Allowance + 1),
                         !.elapsed = Least(b.elapsed + d, Deadline)]

(* The clocks of the loop advance by d; the memory and the debate in hand  *)
(* are advanced by the action itself.                                      *)
Passes(d) ==
  /\ queue' = [i \in DOMAIN queue |-> Older(queue[i], d, MaxAge + 1)]
  /\ cooldown' = [s \in DOMAIN cooldown |-> Least(cooldown[s] + d, Interval)]
  /\ beat' = Least(beat + d, MaxBeatAge + 1)

-----------------------------------------------------------------------------
(* The environment: the pump task, the source, signals, the halt file.     *)

Pump ==
  /\ source = "live" /\ pc # "exited"
  /\ \E m \in Messages, age \in Ages :
       LET room == IF Len(queue) = QueueSize THEN Tail(queue) ELSE queue
       IN  queue' = Append(room, [m EXCEPT !.age = age])
  /\ UNCHANGED <<env, pc, debate, cooldown, beat, exit, memVars>>

SourceEnds ==
  /\ source = "live" /\ pc # "exited"
  /\ source' = "ended"
  /\ UNCHANGED <<config, stop, file, queue, pc, debate, cooldown, beat, exit,
                 memVars>>

StopArrives ==
  /\ ~stop /\ pc # "exited" /\ stop' = TRUE
  /\ UNCHANGED <<config, source, file, queue, pc, debate, cooldown, beat, exit,
                 memVars>>

HaltFileChanges ==
  /\ pc # "exited" /\ file' \in HaltFile \ {file}
  /\ UNCHANGED <<config, source, stop, queue, pc, debate, cooldown, beat, exit,
                 memVars>>

MemoryLands ==
  /\ Land /\ UNCHANGED <<env, queue, pc, debate, cooldown, beat, exit>>

(* HealthState.snapshot, read by the HTTP thread at any time.              *)
healthy == pc # "exited" /\ beat <= MaxBeatAge

(* HaltGate.check: an environment value that is no boolean and a file that *)
(* cannot be inspected both halt.                                          *)
halted == config.haltEnv \notin {"unset", "false"} \/ file # "absent"

-----------------------------------------------------------------------------
(* The loop.                                                               *)

Finished_Never == FALSE         \* Slip: a dead pump goes unnoticed
Finished == source # "live" /\ queue = <<>>

(* serve: a source that ended without being asked to is a failure.         *)
ExitCode == IF stop THEN "EXIT_OK" ELSE "EXIT_SOURCE"

Loop ==
  /\ pc = "loop"
  /\ beat' = IF stop THEN beat ELSE 0
  /\ \/ (stop \/ Finished) /\ pc' = "exited" /\ exit' = ExitCode
     \/ ~(stop \/ Finished) /\ pc' = "wait" /\ exit' = exit
  /\ UNCHANGED <<env, queue, debate, cooldown, memVars>>

(* queue.get under the heartbeat's timeout.                                *)
Wait ==
  /\ pc = "wait" /\ queue = <<>>
  /\ IF beat < Heartbeat THEN Passes(1) /\ MemPasses(1) /\ pc' = pc
     ELSE pc' = "loop" /\ UNCHANGED <<queue, cooldown, beat, memVars>>
  /\ UNCHANGED <<env, debate, exit>>

parse_snapshot(m) ==
  /\ m.ok /\ ~m.is_stale /\ ~m.warmup
  /\ m.age <= MaxAge /\ m.age >= -FutureTolerance
  /\ m.regime # "REGIME_UNKNOWN"

cooldown_elapsed(s) == s \in DOMAIN cooldown => cooldown[s] >= Interval

(* The symbol is claimed before the debate; a full map is cleared first.   *)
Claim(s) ==
  LET kept == IF Cardinality(DOMAIN cooldown) >= MaxTracked THEN {}
              ELSE DOMAIN cooldown
  IN  cooldown' = [t \in kept \cup {s} |-> IF t = s THEN 0 ELSE cooldown[t]]

Take(m) ==
  /\ ~halted /\ parse_snapshot(m)
  /\ config.symbols # {} => m.symbol \in config.symbols
  /\ cooldown_elapsed(m.symbol)

Get ==
  /\ pc = "wait" /\ queue # <<>>
  /\ queue' = Tail(queue)
  /\ IF Take(Head(queue))
     THEN /\ Claim(Head(queue).symbol)
          /\ debate' = Fresh(Head(queue)) /\ pc' = "recall"
     ELSE pc' = "loop" /\ UNCHANGED <<cooldown, debate>>
  /\ UNCHANGED <<env, beat, exit, memVars>>

-----------------------------------------------------------------------------
(* One message: recall, four calls of models, the signal.                  *)

(* Any failure of the provider is "unavailable".                           *)
recall_precedents(regime) ==
  IF config.memory = "off" THEN {[status |-> "none_configured", precedents |-> {}]}
  ELSE {[status |-> "ok", precedents |-> P] : P \in recall(regime)}
       \cup {[status |-> "unavailable", precedents |-> {}]}

apply_recall(b, r) == [b EXCEPT !.precedents = r.precedents, !.elapsed = 0]

(* _initial_state: a debate that must have its precedents is skipped       *)
(* without them.                                                           *)
Recall ==
  /\ pc = "recall"
  /\ \E d \in 0..RecallTimeout, r \in recall_precedents(debate.snap.regime) :
       /\ config.memory = "off" => d = 0
       /\ Passes(d) /\ MemPasses(d)
       /\ IF r.status = "unavailable" /\ config.memory = "required"
          THEN debate' = NoDebate /\ pc' = "loop"
          ELSE debate' = apply_recall(Later(debate, d), r) /\ pc' = "blue"
  /\ UNCHANGED <<env, exit>>

(* How long one call may take, and what may come back.                     *)
CallTimes(budget) == 0..Least(budget, Deadline - debate.elapsed)
Answers(replies) ==
  IF debate.elapsed < Deadline THEN replies \cup {NoReply, Garbage} ELSE {NoReply}

Heard(node, reply) ==
  IF reply \in {NoReply, Garbage} THEN debate.heard ELSE debate.heard \cup {node}

Node(from, to, d, b) ==
  /\ pc = from /\ pc' = to
  /\ Passes(d) /\ MemPasses(d)
  /\ debate' = b
  /\ UNCHANGED <<env, exit>>

Blue ==
  \E d \in CallTimes(BlueBudget), r \in Answers(BlueReplies) :
    Node("blue", "red", d,
         [Later(debate, d) EXCEPT !.blue = blue_step(r), !.heard = Heard("blue", r)])

(* Red and the Judge are not asked when there is no usable thesis.         *)
Red ==
  \/ /\ blue_unusable(debate.blue)
     /\ Node("red", "judge", 0, [debate EXCEPT !.red = ForcedRed])
  \/ /\ ~blue_unusable(debate.blue)
     /\ \E d \in CallTimes(RedBudget), r \in Answers(RedReplies) :
          Node("red", "judge", d,
               [Later(debate, d) EXCEPT !.red = red_step(debate.blue, r),
                                        !.heard = Heard("red", r)])

Judge ==
  \/ /\ blue_unusable(debate.blue)
     /\ Node("judge", "compression", 0,
             [debate EXCEPT !.judge = default_abstain, !.precedents = {}])
  \/ /\ ~blue_unusable(debate.blue)
     /\ \E d \in CallTimes(JudgeBudget), r \in Answers(JudgeReplies) :
          Node("judge", "compression", d,
               [Later(debate, d) EXCEPT
                  !.judge = judge_step(debate.blue, debate.red, r),
                  !.heard = Heard("judge", r), !.precedents = {}])

(* The summary never decides anything: a fallback stands in for it.        *)
Compression ==
  \E d \in CallTimes(CompressionBudget) :
    Node("compression", "signal", d, [Later(debate, d) EXCEPT !.finished = TRUE])

(* The overall deadline cuts the graph off, wherever it is.                *)
Abort ==
  /\ pc \in {"blue", "red", "judge", "compression"}
  /\ debate.elapsed >= Deadline
  /\ pc' = "signal" /\ UNCHANGED <<env, queue, debate, cooldown, beat, exit, memVars>>

SignalOf(b) ==
  IF ~b.finished THEN abstain_signal
  ELSE to_trade_signal(b.blue, b.red, b.judge,
         sized_quantity(config.sizer, config.quantity, b.snap, b.judge))

Actionable(s) == s.status # "SIGNAL_ABSTAIN"

(* The signal is out, or was kept back: its record is next, if it may      *)
(* have one.                                                               *)
After(b) ==
  IF b.recordable
  THEN pc' = "record" /\ debate' = [b EXCEPT !.signal = abstain_signal, !.context = {},
                                             !.decision = NoDecision]
  ELSE pc' = "loop" /\ debate' = NoDebate

(* The statements a model really made, marked as such in the texts that    *)
(* go with an order to the compliance manifest.                            *)
decision_context(b) ==
  {node \in {"blue", "red", "judge"} :
     /\ node = "blue" => ~b.blue.forced_completion
     /\ node = "red" => ~b.red.forced_completion
     /\ node = "judge" => b.finished}

(* What is left of a debate once it is over.                               *)
Outcome(b) ==
  [Fresh(b.snap) EXCEPT
     !.signal = SignalOf(b), !.heard = b.heard,
     !.context = IF b.finished THEN decision_context(b) ELSE {},
     !.recordable = b.finished /\ is_recordable(b.blue, b.red, b.judge)]

(* _deliver hands on what can be traded, and abstentions if asked to.      *)
Delivered(s) == Actionable(s) \/ config.emitAbstain

Discards == halted

(* The halt is looked at again before the signal leaves.                   *)
Conclude ==
  /\ pc = "signal"
  /\ LET b == Outcome(debate)
     IN  \/ Discards /\ pc' = "loop" /\ debate' = NoDebate
         \/ /\ ~Discards /\ Delivered(b.signal)
            /\ debate' = b /\ pc' = "submit"
         \/ /\ ~Discards /\ ~Delivered(b.signal) /\ After(b)
  /\ UNCHANGED <<env, queue, cooldown, beat, exit, memVars>>

-----------------------------------------------------------------------------
(* Delivering.                                                             *)

Decisions ==
  [status : {"DECISION_APPROVED", "DECISION_HELD_FOR_HUMAN", "DECISION_REJECTED", ""},
   attested : BOOLEAN]

approved_with_attestation(a) == a.status = "DECISION_APPROVED" /\ a.attested

Outgoing(d) == [Later(debate, d) EXCEPT !.elapsed = 0]

SinkFailed == debate' = NoDebate /\ pc' = "loop"

(* LogSink: nothing leaves the process.                                    *)
SendLog ==
  /\ build_sink(config) = "log" /\ After(debate)
  /\ UNCHANGED <<queue, cooldown, beat, memVars>>

(* AegisGrpcSink: whatever Aegis decided, it ends there.                   *)
SendAegis(d) ==
  build_sink(config) = "aegis" /\ (After(Outgoing(d)) \/ SinkFailed)

(* AegisRelaySink: an approval with an attestation goes on to the motor.   *)
SendRelay(d) ==
  /\ build_sink(config) = "relay"
  /\ \/ \E a \in Decisions :
          IF approved_with_attestation(a)
          THEN debate' = [Outgoing(d) EXCEPT !.decision = a] /\ pc' = "relay"
          ELSE After(Outgoing(d))
     \/ SinkFailed

Submit ==
  /\ pc = "submit"
  /\ \/ SendLog
     \/ \E d \in 0..AegisTimeout :
          (SendAegis(d) \/ SendRelay(d)) /\ Passes(d) /\ MemPasses(d)
  /\ UNCHANGED <<env, exit>>

(* MotorGrpcSink: ExecuteWithContext, once.                                *)
ExecuteRequest == [decision |-> debate.decision, signal |-> debate.signal,
                   symbol |-> debate.snap.symbol, context |-> debate.context]

Relay ==
  /\ pc = "relay"
  /\ \E d \in 0..MotorTimeout :
       Passes(d) /\ MemPasses(d) /\ (After(Outgoing(d)) \/ SinkFailed)
  /\ UNCHANGED <<env, exit>>

(* write_debate_record: best effort.                                       *)
Record ==
  /\ pc = "record" /\ pc' = "loop" /\ debate' = NoDebate
  /\ \/ config.memory = "off" /\ UNCHANGED <<queue, cooldown, beat, memVars>>
     \/ /\ config.memory # "off"
        /\ \E d \in RunTimes :
             /\ Passes(d)
             /\ write_debate(debate.snap.regime,
                             debate.heard = {"blue", "red", "judge"}, d)
  /\ UNCHANGED <<env, exit>>

Next ==
  \/ Pump \/ SourceEnds \/ StopArrives \/ HaltFileChanges \/ MemoryLands
  \/ Loop \/ Wait \/ Get \/ Recall \/ Blue \/ Red \/ Judge \/ Compression
  \/ Abort \/ Conclude \/ Submit \/ Relay \/ Record

(* asyncio runs a ready task, and every await of the runner has a timeout: *)
(* the runner is never left standing.                                      *)
Runner == Loop \/ Wait \/ Get \/ Recall \/ Blue \/ Red \/ Judge \/ Compression
          \/ Abort \/ Conclude \/ Submit \/ Relay \/ Record

Spec == Init /\ [][Next]_vars /\ WF_vars(Runner)

-----------------------------------------------------------------------------
(* Properties.                                                             *)

(* A signal that can become an order (service.py 138-149) comes from a     *)
(* debate in which all three models answered before the deadline, with a   *)
(* positive expected value, for a quantity the sizer's notional cap        *)
(* covers, on a snapshot that was fresh when the debate began; and only    *)
(* one that Aegis approved and attested is on its way to the motor, with   *)
(* all three statements for the manifest.                                  *)
SignalEarned ==
  pc \in {"submit", "relay"} /\ Actionable(debate.signal) =>
    /\ debate.heard = {"blue", "red", "judge"}
    /\ debate.signal.verdict.p_success * debate.signal.verdict.reward
         > debate.signal.verdict.p_failure * debate.signal.verdict.risk
    /\ signal_invariants(debate.signal)
    /\ config.sizer.kind # "fixed" =>
         debate.signal.quantity * debate.snap.price <= config.sizer.cap
    /\ pc = "submit" => debate.snap.age <= Allowance
    /\ pc = "relay" => /\ ExecuteRequest.decision.status = "DECISION_APPROVED"
                       /\ ExecuteRequest.decision.attested
                       /\ ExecuteRequest.context = {"blue", "red", "judge"}

(* What a debate is shown (memory.py 105-138) is a seed or the record of a *)
(* debate that really took place, in the regime of its own snapshot, and   *)
(* was not past its retention when it was recalled; a write that lands     *)
(* after its caller gave up is no exception.                               *)
PrecedentsGenuine ==
  \A row \in debate.precedents :
    /\ row.kind # "seed" => row.earned /\ row.age < Retention
    /\ row.regime = debate.snap.regime

(* However slow the models, the memory, Aegis and the motor are, the loop  *)
(* beats often enough for the health check to stay green while it runs     *)
(* (health.py 54-65), given CyclesFit.                                     *)
StaysHealthy == pc # "exited" => healthy

(* A stop signal ends the process, and so does a source that died, once    *)
(* the queue is drained (service.py 225-229): never a runner that sits     *)
(* there with nothing to read.                                             *)
LoopEnds == stop \/ source # "live" ~> pc = "exited"

=============================================================================
