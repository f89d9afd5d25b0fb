------------------------------ MODULE Exposure ------------------------------
(***************************************************************************)
(* The position of one symbol, from the approval in Aegis to the fills at  *)
(* the broker and back: Aegis reserves exposure for every order it attests *)
(* (engine/submit.rs reserve), the execution-motor takes an attested order *)
(* while it is valid (motor.py), the broker fills it at its own pace, and  *)
(* reports of the CUMULATIVE fill travel back (aegis_reporter.py,          *)
(* engine/report.rs) late, more than once or out of order.                 *)
(*                                                                         *)
(* The motor reads its clock once, when it receives the order; the broker  *)
(* call comes later.  The motor of this commit sends one report per order, *)
(* when the broker call returns; Aegis accepts any number, so later        *)
(* snapshots are allowed as well (Snapshot).                               *)
(***************************************************************************)
EXTENDS Portfolio

CONSTANTS
  Orders,        \* order ids, which are signal ids
  Sells,         \* the subset that sells
  Qty,           \* [Orders -> Nat]
  Ttl,           \* limits: attestation_ttl
  SaveOutcomes,  \* of portfolio.json: subset of {"ok", "failed", "renamed"}
  Timely,        \* the first report of an order arrives before its attestation expires
  Crashes,       \* Aegis may crash
  MaxTime        \* bound on the clock

ASSUME ExposureAssumption ==
  /\ IsFiniteSet(Orders) /\ Sells \subseteq Orders
  /\ Qty \in [Orders -> Nat]
  /\ Ttl \in Nat /\ MaxTime \in Nat /\ MaxPosition \in Nat
  /\ MaxClosedOrders \in Nat /\ ClosedRetention \in Nat
  /\ Timely \in BOOLEAN /\ Crashes \in BOOLEAN

VARIABLES
  now,      \* the wall clock
  up,       \* Aegis is running
  book,     \* core.portfolio
  file,     \* portfolio.json
  expiry,   \* [Orders -> expiry of the attestation], 0 without one
  stage,    \* [Orders -> "new", "attested", "taken", "live", "over", "dead"]
  filled,   \* [Orders -> quantity filled at the broker]
  reports,  \* reports sent: each may arrive any number of times
  applied   \* history: reports Aegis acknowledged

vars == <<now, up, book, file, expiry, stage, filled, reports, applied>>

-----------------------------------------------------------------------------
(* Aegis.                                                                  *)

\* save: "renamed" is an error after the file was replaced.
SaveTo(p, outcome) == IF outcome = "failed" THEN file ELSE p

\* An approval: C13 on the current portfolio, then the reservation, which is
\* kept only if it was saved.  The decision may then reach its caller, be
\* downgraded because a later step failed (the reservation stays) or be
\* abandoned by a caller that left (the reservation is given back).
Approve(o, end, outcome, outcome2) ==
  LET p  == reserve(expire_reservations(book, now), o, o \in Sells, Qty[o], now + Ttl)
      p2 == release_unsubmitted(p, o)
  IN  /\ up /\ stage[o] = "new"
      /\ PositionPermits(book, o \in Sells, Qty[o])
      /\ CanReserve(expire_reservations(book, now))
      /\ \/ /\ outcome # "ok"
            /\ file' = SaveTo(p, outcome)
            /\ UNCHANGED <<book, expiry, stage>>
         \/ /\ outcome = "ok" /\ end = "delivered"
            /\ book' = p /\ file' = SaveTo(p, outcome)
            /\ expiry' = [expiry EXCEPT ![o] = now + Ttl]
            /\ stage' = [stage EXCEPT ![o] = "attested"]
         \/ /\ outcome = "ok" /\ end = "downgraded"
            /\ book' = p /\ file' = SaveTo(p, outcome)
            /\ UNCHANGED <<expiry, stage>>
         \/ /\ outcome = "ok" /\ end = "abandoned"
            /\ book' = IF outcome2 = "ok" THEN p2 ELSE p
            /\ file' = IF outcome2 = "failed" THEN p ELSE p2
            /\ UNCHANGED <<expiry, stage>>
      /\ UNCHANGED <<now, up, filled, reports, applied>>

\* report_execution: apply to a copy, expire, save, commit; a refused report or a
\* failed save is not acknowledged.
ReportExecution(r, outcome) ==
  LET p == expire_reservations(apply_fill_report(book, r, now), now)
  IN  /\ up
      /\ Acceptable(book, r)
      /\ file' = SaveTo(p, outcome)
      /\ IF outcome = "ok"
         THEN book' = p /\ applied' = applied \cup {r}
         ELSE UNCHANGED <<book, applied>>
      /\ UNCHANGED <<now, up, expiry, stage, filled, reports>>

\* The ticker expires reservations in memory only.
Maintenance ==
  /\ up
  /\ book' = expire_reservations(book, now)
  /\ UNCHANGED <<now, up, file, expiry, stage, filled, reports, applied>>

Crash ==
  /\ Crashes /\ up
  /\ up' = FALSE
  /\ book' = EmptyPortfolio
  /\ UNCHANGED <<now, file, expiry, stage, filled, reports, applied>>

\* Engine::new loads the file; one that is lost is another module's subject.
Start ==
  /\ ~up
  /\ up' = TRUE
  /\ book' = file
  /\ UNCHANGED <<now, file, expiry, stage, filled, reports, applied>>

-----------------------------------------------------------------------------
(* The execution-motor and the broker.                                     *)

\* _timing_reason and the claims: an order is taken once, before it expires; a
\* refusal before the broker is never reported (reached_broker).
Take(o) ==
  /\ stage[o] = "attested"
  /\ stage' = [stage EXCEPT ![o] = IF now >= expiry[o] THEN "dead" ELSE "taken"]
  /\ UNCHANGED <<now, up, book, file, expiry, filled, reports, applied>>

ReportOf(o, over) == [id |-> o, sell |-> o \in Sells, cum |-> filled[o], terminal |-> over]

\* _submit: halted or refused by the release check, rejected by the broker, or
\* accepted (also when the outcome is unknown), then reported.
Submit(o) ==
  /\ stage[o] = "taken"
  /\ \/ stage' = [stage EXCEPT ![o] = "dead"] /\ UNCHANGED reports
     \/ /\ stage' = [stage EXCEPT ![o] = "over"]
        /\ reports' = reports \cup {ReportOf(o, TRUE)}
     \/ /\ stage' = [stage EXCEPT ![o] = "live"]
        /\ reports' = reports \cup {ReportOf(o, FALSE)}
  /\ UNCHANGED <<now, up, book, file, expiry, filled, applied>>

\* The broker fills a live order by one unit; a full fill ends it.
Fill(o) ==
  /\ stage[o] = "live" /\ filled[o] < Qty[o]
  /\ filled' = [filled EXCEPT ![o] = @ + 1]
  /\ stage' = [stage EXCEPT ![o] = IF filled[o] + 1 = Qty[o] THEN "over" ELSE "live"]
  /\ UNCHANGED <<now, up, book, file, expiry, reports, applied>>

\* The broker ends a live order: cancelled, expired, done for the day.
End(o) ==
  /\ stage[o] = "live"
  /\ stage' = [stage EXCEPT ![o] = "over"]
  /\ UNCHANGED <<now, up, book, file, expiry, filled, reports, applied>>

\* A later report of what the broker shows now.
Snapshot(o) ==
  /\ stage[o] \in {"live", "over"}
  /\ reports' = reports \cup {ReportOf(o, stage[o] = "over")}
  /\ UNCHANGED <<now, up, book, file, expiry, stage, filled, applied>>

Acknowledged(o) == \E r \in applied : r.id = o

ClockAdvance ==
  /\ now < MaxTime
  /\ Timely => \A o \in Orders : stage[o] \in {"taken", "live", "over"} /\ ~Acknowledged(o)
                                   => now < expiry[o]
  /\ now' = now + 1
  /\ UNCHANGED <<up, book, file, expiry, stage, filled, reports, applied>>

Init ==
  /\ now = 1
  /\ up = TRUE
  /\ book = EmptyPortfolio
  /\ file = EmptyPortfolio
  /\ expiry = [o \in Orders |-> 0]
  /\ stage = [o \in Orders |-> "new"]
  /\ filled = [o \in Orders |-> 0]
  /\ reports = {}
  /\ applied = {}

Next ==
  \/ \E o \in Orders, end \in {"delivered", "downgraded", "abandoned"},
        s, s2 \in SaveOutcomes : Approve(o, end, s, s2)
  \/ \E r \in reports, s \in SaveOutcomes : ReportExecution(r, s)
  \/ Maintenance
  \/ Crash
  \/ Start
  \/ \E o \in Orders : Take(o) \/ Submit(o) \/ Fill(o) \/ End(o) \/ Snapshot(o)
  \/ ClockAdvance

Spec == Init /\ [][Next]_vars

-----------------------------------------------------------------------------
(* Properties.                                                             *)

\* The position the broker really has.
BrokerPosition == MapThenSumSet(LAMBDA o : Signed(o \in Sells, filled[o]), Orders)

\* What the broker holds never exceeds the limit that control C13 enforces,
\* whatever fills, in whatever order the reports arrive (sizing.rs c13).
PositionWithinLimit == Abs(BrokerPosition) <= MaxPosition

\* portfolio.rs: "a duplicate or replayed report is idempotent": the position
\* moves only with a report that is acknowledged for the first time.
DuplicatesIdempotent ==
  [][(up /\ up' /\ book'.pos # book.pos) => applied' # applied]_vars

=============================================================================
