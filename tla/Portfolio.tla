----------------------------- MODULE Portfolio -----------------------------
(***************************************************************************)
(* The portfolio of Aegis (state/portfolio.rs) for one symbol, and the     *)
(* position control C13 (controls/sizing.rs): operators on a portfolio     *)
(*   [pos    |-> the reported position,                                    *)
(*    open   |-> a function from order ids to open orders,                 *)
(*    closed |-> a function from order ids to remembered terminal orders]. *)
(* A report is [id, sell, cum, terminal]; cum is the CUMULATIVE quantity.  *)
(***************************************************************************)
EXTENDS Integers, FiniteSets, FiniteSetsExt

CONSTANTS
  MaxOpenOrders,    \* MAX_OPEN_ORDERS (10 000 in the code)
  MaxClosedOrders,  \* MAX_CLOSED_ORDERS (50 000)
  ClosedRetention,  \* CLOSED_RETENTION_NS (7 days)
  MaxPosition       \* limits: max_position_nanos of the symbol

\* expires_at_ns = i64::MAX of an order that is not one of Aegis's own.
Forever == 1000000

EmptyPortfolio == [pos |-> 0, open |-> [o \in {} |-> 0], closed |-> [o \in {} |-> 0]]

Put(f, k, v)  == [x \in DOMAIN f \cup {k} |-> IF x = k THEN v ELSE f[x]]
Drop(f, S)    == [x \in DOMAIN f \ S |-> f[x]]
Signed(sell, q) == IF sell THEN -q ELSE q
MaxOf(a, b)     == IF a >= b THEN a ELSE b
Abs(x)          == MaxOf(x, -x)

\* reserve: an existing entry of the same id is replaced.
CanReserve(p) == Cardinality(DOMAIN p.open) < MaxOpenOrders

reserve(p, id, sell, qty, exp) ==
  [p EXCEPT !.open = Put(@, id, [sell |-> sell, qty |-> qty, cum |-> 0, exp |-> exp,
                                 submitted |-> FALSE])]

release_unsubmitted(p, id) ==
  [p EXCEPT !.open = Drop(@, {o \in {id} \cap DOMAIN p.open : ~p.open[o].submitted})]

\* The entry a report applies to; an order that is unknown, or was released, is
\* tracked with nothing left pending.
Entry(p, r) ==
  IF r.id \in DOMAIN p.open THEN p.open[r.id]
  ELSE [sell |-> r.sell, qty |-> r.cum, cum |-> 0, exp |-> Forever, submitted |-> TRUE]

\* apply_to_closed and apply_fill_report refuse a report that contradicts the side
\* or lowers the cumulative quantity.
Acceptable(p, r) ==
  LET e == IF r.id \in DOMAIN p.closed THEN p.closed[r.id] ELSE Entry(p, r)
  IN  e.sell = r.sell /\ r.cum >= e.cum

apply_to_closed(p, r) ==
  LET c == p.closed[r.id]
  IN  [p EXCEPT !.pos = @ + Signed(r.sell, r.cum - c.cum),
                !.closed = Put(@, r.id, [c EXCEPT !.cum = r.cum])]

\* The entry after the report: submitted, and at least as large as what filled.
Reported(p, r) ==
  LET e == Entry(p, r)
  IN  [e EXCEPT !.cum = r.cum, !.qty = MaxOf(e.qty, r.cum), !.submitted = TRUE]

\* A terminal status frees the reservation.
OpenAfter(p, r) ==
  IF r.terminal THEN Drop(p.open, {r.id}) ELSE Put(p.open, r.id, Reported(p, r))

\* A terminal order is remembered while there is room.
ClosedAfter(p, r, t) ==
  IF r.terminal /\ Cardinality(DOMAIN p.closed) < MaxClosedOrders
  THEN Put(p.closed, r.id, [sell |-> r.sell, cum |-> r.cum, at |-> t])
  ELSE p.closed

\* Slip: the whole cumulative quantity is added to the position each time.
apply_to_open_Gross(p, r, t) ==
  [pos    |-> p.pos + Signed(r.sell, r.cum),
   open   |-> OpenAfter(p, r),
   closed |-> ClosedAfter(p, r, t)]

\* The body of apply_fill_report for an order that is not closed: only the
\* increase moves the position.
apply_to_open(p, r, t) ==
  [pos    |-> p.pos + Signed(r.sell, r.cum - Entry(p, r).cum),
   open   |-> OpenAfter(p, r),
   closed |-> ClosedAfter(p, r, t)]

apply_fill_report(p, r, t) ==
  IF r.id \in DOMAIN p.closed THEN apply_to_closed(p, r) ELSE apply_to_open(p, r, t)

expire_reservations(p, t) ==
  [p EXCEPT !.open   = Drop(@, {o \in DOMAIN @ : ~p.open[o].submitted /\ p.open[o].exp < t}),
            !.closed = Drop(@, {o \in DOMAIN @ : p.closed[o].at + ClosedRetention < t})]

\* pending: what the open orders of a side may still fill.
pending(p, sell) ==
  MapThenSumSet(LAMBDA o : MaxOf(p.open[o].qty - p.open[o].cum, 0),
                {o \in DOMAIN p.open : p.open[o].sell = sell})

\* Slip: this order alone against the position, without what is pending.
worst_case_position_NoPending(p, sell, qty) == Abs(p.pos + Signed(sell, qty))

worst_case_position(p, sell, qty) ==
  LET long  == p.pos + pending(p, FALSE) + (IF sell THEN 0 ELSE qty)
      short == p.pos - pending(p, TRUE) - (IF sell THEN qty ELSE 0)
  IN  MaxOf(Abs(long), Abs(short))

\* C13.
PositionPermits(p, sell, qty) == worst_case_position(p, sell, qty) <= MaxPosition

=============================================================================
