---------------------------- MODULE ControlState ----------------------------
(***************************************************************************)
(* What the controls of Aegis look at, and who changes it meanwhile: the   *)
(* reference data a feed pushes (state/ingest.rs, state/refdata.rs), the   *)
(* token buckets (state/rate.rs), order sizes and equity of the day        *)
(* (state/portfolio.rs), and the drawdown latch (engine/report.rs).        *)
(*                                                                         *)
(* The engine mutex is held from the snapshot to the reservation and       *)
(* during a report; pushes, kill-switch changes and the latch happen       *)
(* outside it, so a decision is two steps (Evaluate, Approve) and a report *)
(* that breaches the drawdown three (Report, LatchCheck, LatchTrigger).    *)
(* Every handler reads the clock before it waits for the mutex: its        *)
(* reading may be MaxLag old.                                              *)
(***************************************************************************)
EXTENDS Controls, Sequences

CONSTANTS
  Symbols,        \* every symbol that occurs, a superset of Allowed
  Ids, Sig,       \* signal ids, and [Ids -> signal]
  Batches,        \* the pushes of the feed
  Equities,       \* account equities a report may carry; 0 is none
  FillStates,     \* what the broker may report: "working", "filled", "cancelled"
  Ends,           \* how an approval may go on: see Approve
  LogFails,       \* the ids whose replay record may fail to be written
  Scale,          \* SCALE: ticks of the clock per refill of refill_per_sec tokens
  GlobalRate, SymbolRate,    \* [capacity, refill]
  MinHistory, WindowDays, MaxSizeSamples,
  Ttl,            \* limits: attestation_ttl
  Reporters,      \* gRPC threads that report executions
  KillLevelsSeen, \* levels that latches other than the drawdown's give
  LateAtMidnight, \* a report read before midnight may be applied after one read later
  MaxLag, MaxTime, MaxRestarts

ASSUME ControlAssumption ==
  /\ Allowed \subseteq Symbols /\ IsFiniteSet(Symbols) /\ IsFiniteSet(Ids)
  /\ \A i \in Ids : Sig[i].qty \in Nat /\ Sig[i].sym \in Symbols /\ Sig[i].limit \in Nat
  /\ \A b \in Batches : \A s \in DOMAIN b.prices :
       b.prices[s] \in [mid : Int, adv : Int, at : Int, stale : BOOLEAN]
  /\ \A s \in Allowed : Caps[s].notional \in Nat
  /\ Unit \in Nat \ {0} /\ BpsBase \in Nat \ {0} /\ CollarBps \in Nat /\ MaxGross \in Nat
  /\ Scale \in Nat \ {0} /\ MinHistory \in Nat /\ MaxSizeSamples \in Nat \ {0}
  /\ DayLength \in Nat \ {0} /\ WindowDays \in Nat /\ Ttl \in Nat
  /\ \A r \in {GlobalRate, SymbolRate} : r.capacity \in Nat /\ r.refill \in Nat
  /\ KillLevelsSeen \subseteq Levels
  /\ MaxLag \in Nat /\ MaxTime \in Nat /\ MaxRestarts \in Nat /\ LateAtMidnight \in BOOLEAN

VARIABLES
  now,        \* the clock of Aegis
  started,    \* when this process began
  restarts,
  price,      \* prices: [Symbols -> [mid, adv, at, stale]]
  label,      \* symbol_regimes: [Symbols -> [label, confidence, at]]
  universe,   \* the universe-wide regime
  global,     \* the global bucket [tokens, last]
  bucket,     \* the buckets per symbol; last = 0 before the first use
  book,       \* core.portfolio: [acct, day, sizes]
  file,       \* portfolio.json
  fate,       \* [Ids -> "new", "held", "approved", "rejected", "abstain", "expired"]
  deciding,   \* the approval between snapshot and reservation, or Idle
  latching,   \* [Reporters -> "idle", "check", "trigger"]
  drawdown,   \* latches of the actor aegis/drawdown
  others,     \* level of all other latches
  taken,      \* history: tokens taken since the start, [Symbols -> Nat]
  total,      \* history: the same for all symbols together
  human,      \* history: largest size a human released, [Symbols -> Nat]
  owed        \* history: latch_drawdown returned and its latch was not reset since

feed    == <<price, label, universe>>
rate    == <<global, bucket, taken, total>>
kill    == <<latching, drawdown, others, owed>>
decided == <<fate, deciding, human>>
vars    == <<now, started, restarts, feed, rate, book, file, decided, kill>>

NoPrice  == [mid |-> 0, adv |-> 0, at |-> 0, stale |-> FALSE]
NoRegime == [label |-> "unknown", confidence |-> 0, at |-> 0]
NoDay    == [day |-> -1, start |-> 0, current |-> 0]
Idle     == [id |-> "none"]

\* A reading of the clock by a handler that runs now.
Readings == {t \in (now - MaxLag)..now : t >= started}

-----------------------------------------------------------------------------
(* state/ingest.rs.                                                        *)

\* check_age against Aegis's own clock.
Fresh(at, t, maxAge) == t - at <= maxAge /\ t - at >= -Skew

\* The monotonic setters; a value that was never set has time 0.
Newer(x, old) == x.at > old.at

\* apply_snapshot: an item that is not stored leaves the old value.
AcceptsPrice(s, p, t) ==
  /\ s \in Allowed /\ p.mid > 0 /\ p.adv > 0 /\ p.at > 0
  /\ Fresh(p.at, t, MaxRefAge)
  /\ Newer(p, price[s])

AcceptsRegime(r, old, t) == r.at > 0 /\ Fresh(r.at, t, MaxRegimeAge) /\ Newer(r, old)

\* A batch gives ages instead of times.
Stamped(x) == [x EXCEPT !.at = now - @]

\* ingest: item by item.
Push(b, t) ==
  LET p(s) == Stamped(b.prices[s])
      l(s) == Stamped(b.labels[s])
      u    == Stamped(b.universe)
  IN  /\ price' = [s \in Symbols |-> IF s \in DOMAIN b.prices /\ AcceptsPrice(s, p(s), t)
                                     THEN p(s) ELSE price[s]]
      /\ label' = [s \in Symbols |->
                     IF s \in DOMAIN b.labels \cap Allowed /\ AcceptsRegime(l(s), label[s], t)
                     THEN l(s) ELSE label[s]]
      /\ universe' = IF AcceptsRegime(u, universe, t) THEN u ELSE universe
      /\ UNCHANGED <<now, started, restarts, rate, book, file, decided, kill>>

\* regime_for: the symbol's own label, else the universe-wide one.
regime_for(s) == IF label[s].at # 0 THEN label[s] ELSE universe

-----------------------------------------------------------------------------
(* state/rate.rs.                                                          *)

TokenBucket(r, t) == [tokens |-> r.capacity * Scale, last |-> t]

\* Slip: the time of the last refill follows a clock reading that is older.
refill_Back(b, r, t) ==
  [tokens |-> -MaxOf(-(b.tokens + MaxOf(t - b.last, 0) * r.refill), -(r.capacity * Scale)),
   last   |-> t]

\* The smaller of the refilled amount and the capacity.
refill(b, r, t) ==
  [tokens |-> -MaxOf(-(b.tokens + MaxOf(t - b.last, 0) * r.refill), -(r.capacity * Scale)),
   last   |-> MaxOf(b.last, t)]

take(b) == [tokens |-> b.tokens - Scale, last |-> b.last]

\* The bucket of a symbol is made at its first use.
SymbolBucket(s, t) == refill(IF bucket[s].last = 0 THEN TokenBucket(SymbolRate, t) ELSE bucket[s],
                             SymbolRate, t)

HasTokens(s, t) ==
  refill(global, GlobalRate, t).tokens >= Scale /\ SymbolBucket(s, t).tokens >= Scale

\* check_and_take: from both or from none.
check_and_take(s, t) ==
  LET g == refill(global, GlobalRate, t)
      b == SymbolBucket(s, t)
  IN  IF HasTokens(s, t)
      THEN /\ global' = take(g)
           /\ bucket' = [bucket EXCEPT ![s] = take(b)]
           /\ taken' = [taken EXCEPT ![s] = @ + 1]
           /\ total' = total + 1
      ELSE /\ global' = g
           /\ bucket' = [bucket EXCEPT ![s] = b]
           /\ UNCHANGED <<taken, total>>

-----------------------------------------------------------------------------
(* state/portfolio.rs: all symbols, equity and sizes.                      *)

EmptyBook == [acct |-> [s \in Symbols |-> EmptyPortfolio], day |-> NoDay,
              sizes |-> [s \in Symbols |-> <<>>]]

OpenOrders(b) == MapThenSumSet(LAMBDA s : Cardinality(DOMAIN b.acct[s].open), Symbols)

Expire(b, t) == [acct  |-> [s \in Symbols |-> expire_reservations(b.acct[s], t)],
                 day   |-> b.day,
                 sizes |-> b.sizes]

WorstOf(a) == worst_case_position(a, FALSE, 0)

\* others_gross: -1 if a mark that is needed is missing.
others_gross(b, sym) ==
  LET S == {s \in Symbols \ {sym} : WorstOf(b.acct[s]) # 0}
  IN  IF \E s \in S : price[s].at = 0 THEN -1
      ELSE MapThenSumSet(LAMBDA s : mul_up(WorstOf(b.acct[s]), price[s].mid), S)

equity_today(b, t) == IF b.day.day = day_index(t) THEN b.day ELSE NoDay

record_equity(d, e, t) ==
  IF d.day = day_index(t) THEN [d EXCEPT !.current = e]
  ELSE [day |-> day_index(t), start |-> e, current |-> e]

\* The oldest sample goes when there are too many.
record_size(v, q, t) ==
  LET w == Append(v, [at |-> t, qty |-> q])
  IN  IF Len(w) > MaxSizeSamples THEN Tail(w) ELSE w

Window(v, t) == {i \in DOMAIN v : v[i].at >= t - WindowDays * DayLength}

\* Slip: too little history holds nothing.
Usual_ColdStart(v, q, t) ==
  LET W == Window(v, t)
      n == Cardinality(W)
  IN  n < MinHistory \/ Cardinality({i \in W : v[i].qty < q}) < (95 * n + 99) \div 100

\* size_history and C19.  P95 is the sample of rank ceil(0.95 n): a size is at most
\* P95 iff fewer samples than that rank are smaller.  Without history it is unusual.
Usual(v, q, t) ==
  LET W == Window(v, t)
      n == Cardinality(W)
  IN  n >= MinHistory /\ Cardinality({i \in W : v[i].qty < q}) < (95 * n + 99) \div 100

-----------------------------------------------------------------------------
(* engine/mod.rs and engine/submit.rs: decisions.                          *)

Level == MaxOf(others, IF drawdown > 0 THEN LOGIC ELSE NORMAL)

snapshot(i, mode, t) ==
  LET s == Sig[i].sym
  IN  [mode |-> mode, now |-> t, kill |-> Level, price |-> price[s], regime |-> regime_for(s),
       acct |-> book.acct[s], others |-> others_gross(book, s), equity |-> equity_today(book, t),
       rate |-> HasTokens(s, t), usual |-> Usual(book.sizes[s], Sig[i].qty, t)]

\* hold and finalize: a signal is held if it has time and there is place for it,
\* never twice; a decision whose record cannot be written is given as a rejection
\* and leaves the id unused, unless the id was held before.
Outcomes(i, d, mode, t) ==
  (IF d = "held" /\ (mode = "release" \/ t >= Sig[i].until) THEN {} ELSE {d})
    \cup (IF d = "held" THEN {"rejected"} ELSE {})
    \cup (IF i \in LogFails /\ mode = "submit" THEN {"new"} ELSE {})

\* submit_signal of a new id, or the release of a hold: the snapshot takes the token
\* whatever the controls then say.
Evaluate(i, mode, t) ==
  LET snap == snapshot(i, mode, t)
      d    == evaluate(Sig[i], snap)
  IN  /\ deciding = Idle
      /\ fate[i] = IF mode = "submit" THEN "new" ELSE "held"
      /\ check_and_take(Sig[i].sym, t)
      /\ IF d = "approved"
         THEN /\ deciding' = [id |-> i, mode |-> mode, at |-> t,
                              price |-> order_price(Sig[i], snap),
                              marks |-> [s \in Symbols |-> price[s].mid]]
              /\ UNCHANGED fate
         ELSE /\ \E f \in Outcomes(i, d, mode, t) : fate' = [fate EXCEPT ![i] = f]
              /\ UNCHANGED deciding
      /\ UNCHANGED <<now, started, restarts, feed, book, file, human, kill>>

\* reserve: the new portfolio, if it can be saved.
Reserved(i, t) ==
  LET s == Sig[i].sym
      b == Expire(book, t)
  IN  [acct  |-> [b.acct EXCEPT ![s] = reserve(@, i, IsSell(Sig[i]), Sig[i].qty, t + Ttl)],
       day   |-> b.day,
       sizes |-> [b.sizes EXCEPT ![s] = record_size(@, Sig[i].qty, t)]]

\* approve: signed unless the level forbids it, reserved, and given out ("given");
\* or refused before the reservation ("refused": signer, table, disk), rejected
\* after it ("downgraded": audit or replay log), or the caller left before
\* ("gave_up") or after it ("abandoned": the reservation goes, the size stays;
\* "kept": the release could not be saved).  Nobody can leave a release.
Approve(end) ==
  LET i == deciding.id
      t == deciding.at
      s == Sig[i].sym
      b == Reserved(i, t)
      released == [acct  |-> [b.acct EXCEPT ![s] = release_unsubmitted(@, i)],
                   day   |-> b.day,
                   sizes |-> b.sizes]
      left    == end \in {"gave_up", "abandoned", "kept"}
      commits == end \in {"given", "downgraded", "abandoned", "kept"}
  IN  /\ deciding # Idle
      /\ Level >= DEAD_MANS => end = "refused"
      /\ commits => OpenOrders(Expire(book, t)) < MaxOpenOrders
      /\ left => deciding.mode = "submit"
      /\ deciding' = Idle
      /\ book' = IF end = "abandoned" THEN released ELSE IF commits THEN b ELSE book
      /\ file' = IF commits THEN book' ELSE file
      /\ \E f \in IF end = "given" THEN {"approved"} ELSE IF left THEN {"new"}
                  ELSE Outcomes(i, "rejected", deciding.mode, t) : fate' = [fate EXCEPT ![i] = f]
      /\ human' = IF commits /\ deciding.mode = "release"
                  THEN [human EXCEPT ![s] = MaxOf(@, Sig[i].qty)] ELSE human
      /\ UNCHANGED <<now, started, restarts, feed, rate, kill>>

\* A hold expires or is rejected by an operator (AegisEngine has the detail).
HoldEnds(i) ==
  /\ deciding = Idle /\ fate[i] = "held"
  /\ fate' = [fate EXCEPT ![i] = "rejected"]
  /\ UNCHANGED <<now, started, restarts, feed, rate, book, file, deciding, human, kill>>

-----------------------------------------------------------------------------
(* engine/report.rs.                                                       *)

ReportOf(i, f) == [id |-> i, sell |-> IsSell(Sig[i]),
                   cum |-> IF f = "filled" THEN Sig[i].qty ELSE 0, terminal |-> f # "working"]

\* The book after a report: the fill (none for an equity-only report), the equity
\* (0 is none), expiry.
AfterReport(R, e, t) ==
  LET filled == [s \in Symbols |->
                   IF \E r \in R : Sig[r.id].sym = s
                   THEN apply_fill_report(book.acct[s], CHOOSE r \in R : TRUE, t)
                   ELSE book.acct[s]]
  IN  Expire([acct  |-> filled,
              day   |-> IF e > 0 THEN record_equity(book.day, e, t) ELSE book.day,
              sizes |-> book.sizes], t)

\* drawdown_breached.
drawdown_breached(b, t) ==
  /\ equity_today(b, t) # NoDay
  /\ b.day.start > 0 /\ Breached(b.day)

\* report_execution up to the unlock.  R holds at most one fill report.  A report
\* that is refused or cannot be saved changes nothing.
Report(w, R, e, t) ==
  LET b == AfterReport(R, e, t)
  IN  /\ deciding = Idle /\ latching[w] = "idle"
      /\ \A r \in R : Acceptable(book.acct[Sig[r.id].sym], r)
      /\ LateAtMidnight \/ day_index(t) >= book.day.day
      /\ book' = b /\ file' = b
      /\ latching' = [latching EXCEPT ![w] = IF drawdown_breached(b, t) THEN "check" ELSE "idle"]
      /\ UNCHANGED <<now, started, restarts, feed, rate, decided, drawdown, others, owed>>

\* latch_drawdown: a latch of this actor is enough.
LatchCheck(w) ==
  /\ latching[w] = "check"
  /\ latching' = [latching EXCEPT ![w] = IF drawdown > 0 THEN "idle" ELSE "trigger"]
  /\ owed' = (owed \/ drawdown > 0)
  /\ UNCHANGED <<now, started, restarts, feed, rate, book, file, decided, drawdown, others>>

\* Slip: a trip that cannot be saved leaves HARD and no latch of its own.
LatchTrigger_Unsaved(w) ==
  /\ latching[w] = "trigger"
  /\ latching' = [latching EXCEPT ![w] = "idle"]
  /\ \/ drawdown' = drawdown + 1 /\ others' = others
     \/ drawdown' = drawdown /\ others' = HARD
  /\ owed' = TRUE
  /\ UNCHANGED <<now, started, restarts, feed, rate, book, file, decided>>

\* trigger at LOGIC; if it cannot be saved the state is forced to HARD.
LatchTrigger(w) ==
  /\ latching[w] = "trigger"
  /\ latching' = [latching EXCEPT ![w] = "idle"]
  /\ \/ drawdown' = drawdown + 1 /\ others' = others
     \/ drawdown' = drawdown + 1 /\ others' = HARD
  /\ owed' = TRUE
  /\ UNCHANGED <<now, started, restarts, feed, rate, book, file, decided>>

\* A reset removes one latch: the drawdown's, or another's.
ResetDrawdown ==
  /\ drawdown > 0
  /\ drawdown' = drawdown - 1
  /\ owed' = FALSE
  /\ UNCHANGED <<now, started, restarts, feed, rate, book, file, decided, latching, others>>

OtherLatch(l) ==
  /\ l # others
  /\ others' = l
  /\ UNCHANGED <<now, started, restarts, feed, rate, book, file, decided, latching, drawdown, owed>>

-----------------------------------------------------------------------------
(* The ticker, the clock and restarts.                                     *)

Maintenance(t) ==
  /\ deciding = Idle
  /\ Expire(book, t) # book
  /\ book' = Expire(book, t)
  /\ UNCHANGED <<now, started, restarts, feed, rate, file, decided, kill>>

ClockAdvance ==
  /\ now < MaxTime
  /\ now' = now + 1
  /\ UNCHANGED <<started, restarts, feed, rate, book, file, decided, kill>>

\* Latches and the portfolio survive; buckets start full, reference data is gone,
\* holds are forgotten and their ids stay used.
Restart ==
  /\ restarts < MaxRestarts
  /\ restarts' = restarts + 1
  /\ started' = now
  /\ price' = [s \in Symbols |-> NoPrice]
  /\ label' = [s \in Symbols |-> NoRegime]
  /\ universe' = NoRegime
  /\ global' = TokenBucket(GlobalRate, now)
  /\ bucket' = [s \in Symbols |-> [tokens |-> 0, last |-> 0]]
  /\ taken' = [s \in Symbols |-> 0] /\ total' = 0
  /\ book' = file
  /\ fate' = [i \in Ids |-> IF fate[i] = "held" THEN "rejected" ELSE fate[i]]
  /\ deciding' = Idle
  /\ latching' = [w \in Reporters |-> "idle"]
  /\ UNCHANGED <<now, file, human, drawdown, others, owed>>

Init ==
  /\ now = 1 /\ started = 1 /\ restarts = 0
  /\ price = [s \in Symbols |-> NoPrice]
  /\ label = [s \in Symbols |-> NoRegime]
  /\ universe = NoRegime
  /\ global = TokenBucket(GlobalRate, 1)
  /\ bucket = [s \in Symbols |-> [tokens |-> 0, last |-> 0]]
  /\ taken = [s \in Symbols |-> 0] /\ total = 0
  /\ book = EmptyBook /\ file = EmptyBook
  /\ fate = [i \in Ids |-> "new"]
  /\ deciding = Idle
  /\ human = [s \in Symbols |-> 0]
  /\ latching = [w \in Reporters |-> "idle"]
  /\ drawdown = 0 /\ others = NORMAL /\ owed = FALSE

Submitted == {i \in Ids : fate[i] = "approved"}

Next ==
  \/ \E b \in Batches, t \in Readings : Push(b, t)
  \/ \E i \in Ids, mode \in {"submit", "release"}, t \in Readings : Evaluate(i, mode, t)
  \/ \E end \in Ends : Approve(end)
  \/ \E i \in Ids : HoldEnds(i)
  \/ \E w \in Reporters, e \in Equities, t \in Readings : Report(w, {}, e, t)
  \/ \E w \in Reporters, i \in Submitted, f \in FillStates, e \in Equities, t \in Readings :
        Report(w, {ReportOf(i, f)}, e, t)
  \/ \E w \in Reporters : LatchCheck(w) \/ LatchTrigger(w)
  \/ ResetDrawdown
  \/ \E l \in KillLevelsSeen : OtherLatch(l)
  \/ \E t \in Readings : Maintenance(t)
  \/ ClockAdvance
  \/ Restart

Spec == Init /\ [][Next]_vars

-----------------------------------------------------------------------------
(* Properties.                                                             *)

\* rate.rs C16: since the start of the process no more orders were let through than
\* one full bucket and what was refilled since, for each symbol and together,
\* whatever the order in which late clock readings arrive.
RateBound ==
  /\ total * Scale <= GlobalRate.capacity * Scale + GlobalRate.refill * (now - started)
  /\ \A s \in Symbols :
       taken[s] * Scale <= SymbolRate.capacity * Scale + SymbolRate.refill * (now - started)

\* C09 to C14: an order that is reserved carries a positive price within the collar
\* around the mid that was read; price times quantity is within the cap of its
\* symbol; and with it the exposure of ALL symbols, each in its worst case at the
\* marks the decision read, is within the gross limit.  All in exact numbers,
\* before any rounding, market orders included.
ApprovedWithinLimits ==
  [][(deciding # Idle /\ restarts' = restarts /\ book' # book) =>
       LET g == Sig[deciding.id]
           mid == deciding.marks[g.sym]
       IN  /\ deciding.price > 0
           /\ Abs(deciding.price - mid) * BpsBase <= mid * CollarBps
           /\ deciding.price * g.qty <= Caps[g.sym].notional * Unit
           /\ MapThenSumSet(LAMBDA s : WorstOf(book'.acct[s]) * deciding.marks[s], Symbols)
                <= MaxGross * Unit]_vars

\* C19: an order approved without a human is never larger than one that a human
\* released before in the same symbol: sizes cannot creep up unattended, not even
\* through approvals that nobody received.
UnattendedWithinHuman ==
  (deciding # Idle /\ deciding.mode = "submit")
    => Sig[deciding.id].qty <= human[Sig[deciding.id].sym]

\* report.rs "A breach of the daily drawdown latches LOGIC": once latch_drawdown has
\* returned, and until its latch is reset, the controls pass nothing but a
\* reducing order that a human releases, other trips and failed saves included.
BreachStopsRisk ==
  [][(owed /\ deciding = Idle /\ deciding' # Idle)
       => /\ deciding'.mode = "release"
          /\ is_risk_reducing(Sig[deciding'.id], book.acct[Sig[deciding'.id].sym])]_vars

=============================================================================
