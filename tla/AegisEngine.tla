---------------------------- MODULE AegisEngine ----------------------------
(***************************************************************************)
(* The Aegis decision engine: SubmitSignal (engine/submit.rs), held        *)
(* signals (engine/hold.rs), the replay log (state/replay.rs), the         *)
(* exposure reservations of the portfolio file and the transport that      *)
(* gives up on slow calls (service.rs).                                    *)
(*                                                                         *)
(* One mutex serialises every decision, so at most one call is past        *)
(* "waiting" (LockFree); but the caller may give up, the kill level may    *)
(* change, a disk write may fail and the process may die between any two   *)
(* of its steps, which are the actions below.  A call reads the clock      *)
(* before it waits for the mutex.  What the pre-trade controls conclude    *)
(* about market data, sizes and rates is a free choice here; the kill gate *)
(* C01, the expiry C06 and the replay check C07 are not.                   *)
(***************************************************************************)
EXTENDS KillLevels, Sequences, FiniteSets

CONSTANTS
  Signals,       \* distinct request payloads
  IdOf,          \* [Signals -> signal ids]; a replayed id may carry another payload
  CreatedAt,     \* [Signals -> Nat], created_at_ns
  ValidUntil,    \* [Signals -> Nat], valid_until_ns
  Calls,         \* RPCs in flight
  MaxAge,        \* limits: max_signal_age
  Skew,          \* limits: clock_skew
  Retention,     \* limits: replay_retention
  Ttl,           \* limits: attestation_ttl
  HoldWindow,    \* limits: hold_window
  AuditMandatory,\* limits: audit_mandatory
  MaxHolds,      \* MAX_HOLDS (1000 in the code)
  SaveOutcomes,  \* of the portfolio file: subset of {"ok", "failed", "renamed"}
  LogOutcomes,   \* of a replay append: subset of {"ok", "failed", "written", "torn"}
  AuditOutcomes, \* whether the audit sink accepts a record: subset of BOOLEAN
  KillLevelsSeen,\* levels the kill controller may report
  Faults,        \* "crash", "panic", "signer", "giveup", "invalid", "reopen", "lost"
  MaxWait,       \* how long a call waits for the mutex before its deadline ends it
  MaxTime,       \* bound on the clock
  LastCall,      \* bound: calls begin no later
  MaxFresh,      \* bound on signatures and hold ids
  MaxLines       \* bound on replay.log lines per id

Ids == {IdOf[s] : s \in Signals}

ASSUME EngineAssumption ==
  /\ Signals # {}
  /\ CreatedAt \in [Signals -> Nat] /\ ValidUntil \in [Signals -> Nat]
  /\ MaxAge \in Nat /\ Skew \in Nat /\ Ttl \in Nat /\ HoldWindow \in Nat
  /\ Retention \in Nat /\ Retention >= MaxAge + Skew   \* limits.rs validate
  /\ AuditMandatory \in BOOLEAN
  /\ MaxHolds \in Nat /\ MaxWait \in Nat /\ MaxTime \in Nat /\ LastCall \in Nat
  /\ MaxFresh \in Nat /\ MaxLines \in Nat
  /\ SaveOutcomes \subseteq {"ok", "failed", "renamed"}
  /\ LogOutcomes \subseteq {"ok", "failed", "written", "torn"}
  /\ AuditOutcomes \subseteq BOOLEAN
  /\ KillLevelsSeen \subseteq Levels

VARIABLES
  now,       \* the wall clock
  up,        \* the process is running
  poisoned,  \* the engine mutex is poisoned (its holder panicked)
  level,     \* kill.effective_level(); HARD also stands for "unavailable"
  call,      \* [Calls -> call record]
  holds,     \* HoldStore: a set of holds
  replayOpen,\* the durable replay store could be opened
  replay,    \* its map: a function from the known ids to records
  log,       \* replay.log: per id, the complete lines in order
  torn,      \* replay.log has an undecodable line
  book,      \* core.portfolio open orders: a function from order ids to expiry
  bookOk,    \* FALSE: the portfolio could not be loaded (None)
  bookFile,  \* portfolio.json
  fresh,     \* number of signatures and hold ids made so far
  audited,   \* history: attestations in an audit record the sink accepted
  delivered  \* history: [Signals -> attestations a caller received]

vars == <<now, up, poisoned, level, call, holds, replayOpen, replay, log, torn,
          book, bookOk, bookFile, fresh, audited, delivered>>

-----------------------------------------------------------------------------
(* Decisions and calls.                                                    *)

NoAtt == [n |-> 0, exp |-> 0]

Rejected      == [st |-> "rejected", att |-> NoAtt, hold |-> 0]
Approved(att) == [st |-> "approved", att |-> att, hold |-> 0]
Held(h)       == [st |-> "held", att |-> NoAtt, hold |-> h]

\* pc: idle -> waiting -> signing -> reserving -> committed -> auditing ->
\* recording -> done.  keep: the decision is to be recorded for idempotency.
Idle == [pc |-> "idle", kind |-> "submit", sig |-> CHOOSE s \in Signals : TRUE, at |-> 0,
         gone |-> FALSE, dec |-> Rejected, keep |-> FALSE]

Locked   == {"signing", "reserving", "committed", "auditing", "recording"}
LockFree == \A c \in Calls : call[c].pc \notin Locked

\* The engine looks at the cancel token of a SubmitSignal only; ResolveHold runs
\* with a token that is never set.
Cancelled(c) == call[c].kind = "submit" /\ call[c].gone

Goto(c, pc)         == call' = [call EXCEPT ![c].pc = pc]
Decide(c, pc, d, k) == call' = [call EXCEPT ![c].pc = pc, ![c].dec = d, ![c].keep = k]

-----------------------------------------------------------------------------
(* The stores.                                                             *)

Insert(f, k, v) == [x \in DOMAIN f \cup {k} |-> IF x = k THEN v ELSE f[x]]
Keep(f, S)      == [x \in DOMAIN f \cap S |-> f[x]]

Retained(r, t) == r.at >= t - Retention

Record(s, d, t) == [sig |-> s, dec |-> d, at |-> t]

\* FileReplayStore::record, once per signal of S (their ids differ): append and
\* fsync the line, then purge the map of what is older than the retention
\* window and insert.  A failed append may have left nothing, the whole line or
\* a part of it in the file.
LogRecords(S, d, t, outcome) ==
  LET with(os)  == {s \in S : replayOpen /\ outcome[s] \in os}
      of(T, id) == CHOOSE s \in T : IdOf[s] = id
      ids(T)    == {IdOf[s] : s \in T}
      lines     == with({"ok", "written"})
      ok        == with({"ok"})
      kept      == {id \in DOMAIN replay : Retained(replay[id], t)}
  IN  /\ \A s \in lines : Len(log[IdOf[s]]) < MaxLines
      /\ log' = [id \in Ids |-> IF id \in ids(lines)
                                THEN Append(log[id], Record(of(lines, id), d, t))
                                ELSE log[id]]
      /\ torn' = (torn \/ with({"torn"}) # {})
      /\ replay' = IF ok = {} THEN replay
                   ELSE [id \in kept \cup ids(ok) |->
                           IF id \in ids(ok) THEN Record(of(ok, id), d, t) ELSE replay[id]]

LogRecord(s, d, t, outcome) == LogRecords({s}, d, t, [x \in {s} |-> outcome])

\* load: the last line of an id within the window wins.
LoadedLines(id, t) == {i \in DOMAIN log[id] : Retained(log[id][i], t)}
LoadedIds(t)       == {id \in Ids : LoadedLines(id, t) # {}}

Loaded(t) ==
  [id \in LoadedIds(t) |->
     log[id][CHOOSE i \in LoadedLines(id, t) : \A j \in LoadedLines(id, t) : j <= i]]

\* Slip: a reservation ends at the instant its attestation expires, not after it.
Unexpired_Strict(b, t) == Keep(b, {id \in DOMAIN b : b[id] > t})

\* Portfolio::expire_reservations (a reservation here is never reported).
Unexpired(b, t) == Keep(b, {id \in DOMAIN b : b[id] >= t})

\* FilePortfolioStore::save of b; "renamed" fails after the file was replaced.
SaveBook(b, outcome) == bookFile' = IF outcome = "failed" THEN bookFile ELSE b

\* HoldStore::take_expired.
Lapsed(t) == {h \in holds : h.exp < t}

\* expire_hold of every lapsed hold, the prologue of each hold handler: the replay
\* record turns into a rejection; a failed write is only logged.
ExpireHolds(t, outcome) ==
  /\ holds' = holds \ Lapsed(t)
  /\ LogRecords({h.sig : h \in Lapsed(t)}, Rejected, t, outcome)

AnyLogOutcome(t) == [{h.sig : h \in Lapsed(t)} -> LogOutcomes]

-----------------------------------------------------------------------------
(* The controls, as far as they concern this module.                       *)

\* C06 expiry.
Fresh(s, t) ==
  /\ t <= ValidUntil[s]
  /\ CreatedAt[s] <= t + Skew
  /\ t - CreatedAt[s] <= MaxAge

\* C01: SOFT passes a risk-reducing order, LOGIC one that a human released.
KillPermits(mode) == level \in {NORMAL, SOFT} \/ (level = LOGIC /\ mode = "release")

\* What evaluate() may conclude: some other hard control may always fail, a soft
\* one only on submission.  C13 and C14 fail without a portfolio.
Conclusions(mode, s, t, verdict) ==
  LET gates == Fresh(s, t) /\ verdict = "new" /\ bookOk
  IN  {"rejected"}
      \cup {o \in {"held"} : gates /\ mode = "submit" /\ level \in {NORMAL, SOFT, LOGIC}}
      \cup {o \in {"approved"} : gates /\ KillPermits(mode)}

\* kill_blocks_signing: the second look, just before the signature.
KillBlocksSigning == level >= DEAD_MANS

-----------------------------------------------------------------------------
(* SubmitSignal and ResolveHold, step by step.                             *)

\* The transport hands a call to the blocking pool, which reads the clock.  An
\* invalid signal, or a clock that cannot be read, is rejected at once.
Begin(c, kind, s) ==
  /\ up /\ call[c].pc = "idle" /\ now <= LastCall
  /\ \/ call' = [call EXCEPT ![c] = [Idle EXCEPT !.pc = "waiting", !.kind = kind,
                                                 !.sig = s, !.at = now]]
     \/ /\ "invalid" \in Faults
        /\ call' = [call EXCEPT ![c] = [Idle EXCEPT !.pc = "done", !.kind = kind, !.sig = s]]
  /\ UNCHANGED <<now, up, poisoned, level, holds, replayOpen, replay, log, torn, book, bookOk,
                 bookFile, fresh, audited, delivered>>

\* The deadline passes or the client disconnects: the token is set, the work runs on.
GiveUp(c) ==
  /\ "giveup" \in Faults
  /\ call[c].pc # "idle" /\ ~call[c].gone
  /\ call' = [call EXCEPT ![c].gone = TRUE]
  /\ UNCHANGED <<now, up, poisoned, level, holds, replayOpen, replay, log, torn, book, bookOk,
                 bookFile, fresh, audited, delivered>>

\* hold(): expires with the signal or the window; a full table rejects.
MinOf(a, b) == IF a <= b THEN a ELSE b

HoldExpiry(s, t) == MinOf(ValidUntil[s], t + HoldWindow)

\* decide(), up to the branch on the evaluation.
Branch(c, kind, s, t, conclusion, keep, others) ==
  LET to(pc, d) == [call[c] EXCEPT !.kind = kind, !.sig = s, !.pc = pc, !.dec = d, !.keep = keep]
  IN  \/ /\ conclusion = "rejected"
         /\ call' = [call EXCEPT ![c] = to("auditing", Rejected)]
         /\ holds' = others
         /\ UNCHANGED fresh
      \/ /\ conclusion = "approved"
         /\ fresh < MaxFresh
         /\ call' = [call EXCEPT ![c] = to("signing", Rejected)]
         /\ holds' = others
         /\ UNCHANGED fresh
      \/ /\ conclusion = "held"
         /\ fresh < MaxFresh
         /\ IF HoldExpiry(s, t) <= t \/ Cardinality(others) >= MaxHolds
            THEN /\ call' = [call EXCEPT ![c] = to("auditing", Rejected)]
                 /\ holds' = others
                 /\ UNCHANGED fresh
            ELSE /\ call' = [call EXCEPT ![c] = to("auditing", Held(fresh + 1))]
                 /\ holds' = others \cup {[id |-> fresh + 1, sig |-> s, exp |-> HoldExpiry(s, t)]}
                 /\ fresh' = fresh + 1

\* replay_hit: the same payload gets the ORIGINAL decision.
ReplayHit(s) == IdOf[s] \in DOMAIN replay /\ replay[IdOf[s]].sig = s

Verdict(s) ==
  IF ~replayOpen THEN "unavailable"
  ELSE IF IdOf[s] \in DOMAIN replay THEN "mismatch" ELSE "new"

\* The mutex is acquired: a submission is abandoned, answered from the replay
\* map, or evaluated.
EnterSubmit(c) ==
  LET s == call[c].sig
      t == call[c].at
  IN  /\ call[c].pc = "waiting" /\ call[c].kind = "submit" /\ LockFree
      /\ IF poisoned \/ Cancelled(c)
         THEN Decide(c, "done", Rejected, FALSE) /\ UNCHANGED <<holds, fresh>>
         ELSE IF replayOpen /\ ReplayHit(s)
         THEN Decide(c, "done", replay[IdOf[s]].dec, FALSE) /\ UNCHANGED <<holds, fresh>>
         ELSE \E o \in Conclusions("submit", s, t, Verdict(s)) :
                Branch(c, "submit", s, t, o, Verdict(s) = "new", holds)
      /\ UNCHANGED <<now, up, poisoned, level, replayOpen, replay, log, torn, book, bookOk,
                     bookFile, audited, delivered>>

\* resolve_hold: lapsed holds go first; an unknown hold or a request that
\* check_release_request refuses changes nothing else.  A rejection by the
\* operator goes straight to finalize.
EnterResolve(c, outcome) ==
  LET t    == call[c].at
      left == holds \ Lapsed(t)
  IN  /\ call[c].pc = "waiting" /\ call[c].kind = "resolve" /\ LockFree
      /\ IF poisoned
         THEN Decide(c, "done", Rejected, FALSE) /\ UNCHANGED <<holds, replay, log, torn, fresh>>
         ELSE \/ ExpireHolds(t, outcome) /\ Decide(c, "done", Rejected, FALSE) /\ UNCHANGED fresh
              \/ /\ LogRecords({h.sig : h \in Lapsed(t)}, Rejected, t, outcome)
                 /\ \E h \in left :
                      \/ Branch(c, "resolve", h.sig, t, "rejected", TRUE, left \ {h})
                      \/ \E o \in Conclusions("release", h.sig, t, "new") :
                           Branch(c, "resolve", h.sig, t, o, TRUE, left \ {h})
      /\ UNCHANGED <<now, up, poisoned, level, replayOpen, book, bookOk, bookFile, audited, delivered>>

\* approve(), first part: kill level, cancel token, signature.
Sign(c) ==
  /\ call[c].pc = "signing"
  /\ \/ KillBlocksSigning /\ Goto(c, "auditing") /\ UNCHANGED fresh
     \/ /\ ~KillBlocksSigning /\ Cancelled(c)
        /\ Decide(c, "auditing", Rejected, FALSE)
        /\ UNCHANGED fresh
     \/ /\ ~KillBlocksSigning /\ ~Cancelled(c)
        /\ \/ "signer" \in Faults /\ Goto(c, "auditing") /\ UNCHANGED fresh
           \/ /\ fresh' = fresh + 1
              /\ Decide(c, "reserving",
                        Approved([n |-> fresh + 1, exp |-> call[c].at + Ttl]), call[c].keep)
  /\ UNCHANGED <<now, up, poisoned, level, holds, replayOpen, replay, log, torn, book, bookOk,
                 bookFile, audited, delivered>>

\* reserve(): on a copy, committed only if it could be saved.  The order id is
\* the signal id.
Reserve(c, outcome) ==
  LET candidate == Insert(Unexpired(book, call[c].at), IdOf[call[c].sig], call[c].dec.att.exp)
  IN  /\ call[c].pc = "reserving"
      /\ \/ ~bookOk /\ Decide(c, "auditing", Rejected, call[c].keep) /\ UNCHANGED <<book, bookFile>>
         \/ /\ bookOk /\ Cancelled(c)
            /\ Decide(c, "auditing", Rejected, FALSE)
            /\ UNCHANGED <<book, bookFile>>
         \/ /\ bookOk /\ ~Cancelled(c)
            /\ SaveBook(candidate, outcome)
            /\ IF outcome = "ok"
               THEN book' = candidate /\ Goto(c, "committed")
               ELSE UNCHANGED book /\ Decide(c, "auditing", Rejected, call[c].keep)
      /\ UNCHANGED <<now, up, poisoned, level, holds, replayOpen, replay, log, torn, bookOk, fresh,
                     audited, delivered>>

\* approve(), last part: the save may have outlasted the caller, whose exposure is
\* then given back (release_abandoned) if that can be saved.
Commit(c, outcome) ==
  LET candidate == Keep(book, DOMAIN book \ {IdOf[call[c].sig]})
  IN  /\ call[c].pc = "committed"
      /\ IF Cancelled(c)
         THEN /\ SaveBook(candidate, outcome)
              /\ book' = IF outcome = "ok" THEN candidate ELSE book
              /\ Decide(c, "auditing", Rejected, FALSE)
         ELSE Goto(c, "auditing") /\ UNCHANGED <<book, bookFile>>
      /\ UNCHANGED <<now, up, poisoned, level, holds, replayOpen, replay, log, torn, bookOk, fresh,
                     audited, delivered>>

\* drop_hold.
WithoutHold(d) == {h \in holds : h.id # d.hold}

\* finalize(), first half: the audit record, and the downgrade without one.
Audit(c, ok) ==
  LET d    == call[c].dec
      next == IF call[c].keep THEN "recording" ELSE "done"
  IN  /\ call[c].pc = "auditing"
      /\ audited' = IF ok THEN audited \cup {d.att.n} ELSE audited
      /\ IF ok \/ ~AuditMandatory
         THEN Goto(c, next) /\ UNCHANGED holds
         ELSE Decide(c, next, Rejected, call[c].keep) /\ holds' = WithoutHold(d)
      /\ UNCHANGED <<now, up, poisoned, level, replayOpen, replay, log, torn, book, bookOk,
                     bookFile, fresh, delivered>>

\* Slip: a decision whose replay record failed is returned all the same.
Finalize_LogOnly(c, outcome) ==
  /\ call[c].pc = "recording"
  /\ LogRecord(call[c].sig, call[c].dec, call[c].at, outcome)
  /\ Goto(c, "done")
  /\ holds' = IF replayOpen /\ outcome = "ok" THEN holds ELSE WithoutHold(call[c].dec)
  /\ UNCHANGED <<now, up, poisoned, level, replayOpen, book, bookOk, bookFile, fresh, audited, delivered>>

\* finalize(), second half: the replay record; without it the decision is a
\* rejection and the hold is dropped.
Finalize(c, outcome) ==
  /\ call[c].pc = "recording"
  /\ LogRecord(call[c].sig, call[c].dec, call[c].at, outcome)
  /\ IF replayOpen /\ outcome = "ok"
     THEN Goto(c, "done") /\ UNCHANGED holds
     ELSE Decide(c, "done", Rejected, FALSE) /\ holds' = WithoutHold(call[c].dec)
  /\ UNCHANGED <<now, up, poisoned, level, replayOpen, book, bookOk, bookFile, fresh, audited, delivered>>

\* The reply reaches a caller that is still there.
Reply(c) ==
  /\ call[c].pc = "done"
  /\ delivered' = IF call[c].gone \/ call[c].dec.st # "approved" THEN delivered
                  ELSE [delivered EXCEPT ![call[c].sig] = @ \cup {call[c].dec.att}]
  /\ call' = [call EXCEPT ![c] = Idle]
  /\ UNCHANGED <<now, up, poisoned, level, holds, replayOpen, replay, log, torn, book, bookOk,
                 bookFile, fresh, audited>>

-----------------------------------------------------------------------------
(* The ticker, the environment and restarts.                               *)

\* maintenance (reservations and holds) and list_holds / get_hold (holds only).
Maintenance(t, outcome) ==
  /\ up /\ ~poisoned /\ LockFree
  /\ book' = Unexpired(book, t)
  /\ ExpireHolds(t, outcome)
  /\ UNCHANGED <<now, up, poisoned, level, call, replayOpen, bookOk, bookFile, fresh, audited, delivered>>

ListHolds(t, outcome) ==
  /\ up /\ ~poisoned /\ LockFree
  /\ ExpireHolds(t, outcome)
  /\ UNCHANGED <<now, up, poisoned, level, call, replayOpen, book, bookOk, bookFile, fresh, audited, delivered>>

\* The kill controller has a mutex of its own.
KillChange ==
  /\ level' \in KillLevelsSeen
  /\ UNCHANGED <<now, up, poisoned, call, holds, replayOpen, replay, log, torn, book, bookOk,
                 bookFile, fresh, audited, delivered>>

\* The worker dies with the mutex: its caller gets an internal error.
Panic(c) ==
  /\ "panic" \in Faults
  /\ call[c].pc \in Locked
  /\ poisoned' = TRUE
  /\ Decide(c, "done", Rejected, FALSE)
  /\ UNCHANGED <<now, up, level, holds, replayOpen, replay, log, torn, book, bookOk, bookFile,
                 fresh, audited, delivered>>

\* The process dies: memory is gone, and an append under way may be torn.
Crash ==
  /\ "crash" \in Faults
  /\ up
  /\ up' = FALSE
  /\ call' = [c \in Calls |-> Idle]
  /\ holds' = {}
  /\ replay' = Keep(replay, {})
  /\ book' = Keep(book, {})
  /\ \/ UNCHANGED torn
     \/ "torn" \in LogOutcomes /\ (\E c \in Calls : call[c].pc = "recording") /\ torn' = TRUE
  /\ UNCHANGED <<now, poisoned, level, replayOpen, log, bookOk, bookFile, fresh, audited, delivered>>

\* build_app: a replay log or a portfolio that cannot be read latches HARD; the
\* holds of the last process are gone.  A readable log is compacted.
Start(opens, loads) ==
  /\ ~up
  /\ up' = TRUE
  /\ poisoned' = FALSE
  /\ replayOpen' = (opens /\ ~torn)
  /\ replay' = IF opens /\ ~torn THEN Loaded(now) ELSE Keep(replay, {})
  /\ log' = IF opens /\ ~torn
            THEN [id \in Ids |-> IF id \in DOMAIN Loaded(now) THEN <<Loaded(now)[id]>> ELSE <<>>]
            ELSE log
  /\ bookOk' = loads
  /\ book' = IF loads THEN bookFile ELSE Keep(book, {})
  /\ level' = IF opens /\ ~torn /\ loads THEN level ELSE HARD
  /\ UNCHANGED <<now, call, holds, torn, bookFile, fresh, audited, delivered>>

\* A call that waits for the mutex past its deadline has been given up.
ClockAdvance ==
  /\ now < MaxTime
  /\ \A c \in Calls : call[c].pc = "waiting" /\ ~Cancelled(c) => now < call[c].at + MaxWait
  /\ now' = now + 1
  /\ UNCHANGED <<up, poisoned, level, call, holds, replayOpen, replay, log, torn, book, bookOk,
                 bookFile, fresh, audited, delivered>>

Init ==
  /\ now = 1
  /\ up = TRUE
  /\ poisoned = FALSE
  /\ level = NORMAL
  /\ call = [c \in Calls |-> Idle]
  /\ holds = {}
  /\ replayOpen = TRUE
  /\ replay = [id \in {} |-> Record(Idle.sig, Rejected, 0)]
  /\ log = [id \in Ids |-> <<>>]
  /\ torn = FALSE
  /\ book = [id \in {} |-> 0]
  /\ bookOk = TRUE
  /\ bookFile = [id \in {} |-> 0]
  /\ fresh = 0
  /\ audited = {}
  /\ delivered = [s \in Signals |-> {}]

Readings == {t \in (now - MaxWait)..now : t >= 1}

Next ==
  \/ \E c \in Calls, s \in Signals : Begin(c, "submit", s)
  \/ \E c \in Calls : Begin(c, "resolve", Idle.sig)
  \/ \E c \in Calls : GiveUp(c)
  \/ \E c \in Calls : EnterSubmit(c)
  \/ \E c \in Calls : \E o \in AnyLogOutcome(call[c].at) : EnterResolve(c, o)
  \/ \E c \in Calls : Sign(c)
  \/ \E c \in Calls, o \in SaveOutcomes : Reserve(c, o)
  \/ \E c \in Calls, o \in SaveOutcomes : Commit(c, o)
  \/ \E c \in Calls, ok \in AuditOutcomes : Audit(c, ok)
  \/ \E c \in Calls, o \in LogOutcomes : Finalize(c, o)
  \/ \E c \in Calls : Reply(c)
  \/ \E t \in Readings : \E o \in AnyLogOutcome(t) : Maintenance(t, o)
  \/ \E t \in Readings : \E o \in AnyLogOutcome(t) : ListHolds(t, o)
  \/ KillChange
  \/ \E c \in Calls : Panic(c)
  \/ Crash
  \/ \E opens, loads \in BOOLEAN :
       /\ "reopen" \in Faults \/ opens
       /\ "lost" \in Faults \/ loads
       /\ Start(opens, loads)
  \/ ClockAdvance

Spec == Init /\ [][Next]_vars

-----------------------------------------------------------------------------
(* Properties.                                                             *)

\* The engine implements AttestOnce: no caller ever receives a second, different
\* attestation for a payload, across retries, deadlines, released holds, failed
\* writes and restarts (replay.rs, submit.rs replay_hit and finalize).
Promise == INSTANCE AttestOnce WITH given <- delivered
AttestsOnce == Promise!Spec

\* An attestation that somebody holds was on the audit sink's record before it
\* left, where the limits make auditing mandatory; and as long as it has not
\* expired a reservation that lasts at least as long covers it, unless the
\* portfolio is not known and nothing can be approved at all (submit.rs reserve,
\* release_abandoned and finalize, portfolio.rs expire_reservations).
GrantsBacked ==
  \A s \in Signals : \A a \in delivered[s] :
    /\ AuditMandatory => a.n \in audited
    /\ up /\ bookOk /\ a.exp >= now => /\ IdOf[s] \in DOMAIN book
                                      /\ book[IdOf[s]] >= a.exp

=============================================================================
