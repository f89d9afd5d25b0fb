------------------------- MODULE Exposure_proofs ----------------------------
(***************************************************************************)
(* Proofs about the position of one symbol between Aegis, the motor and    *)
(* the broker, for any orders, quantities, limits and times.  Sums over    *)
(* the orders are those of Operators_proofs.                               *)
(***************************************************************************)
EXTENDS Exposure, Operators_proofs

-----------------------------------------------------------------------------
(* The inductive invariants                                                *)

\* An open order, a remembered one, tables of either by order id, and a portfolio.
Entries == [sell : BOOLEAN, qty : Int, cum : Int, exp : Int, submitted : BOOLEAN]
Ended   == [sell : BOOLEAN, cum : Int, at : Int]
Tables(E) == UNION {[S -> E] : S \in SUBSET Orders}
Books   == [pos : Int, open : Tables(Entries), closed : Tables(Ended)]

\* The memory of closed orders holds every order of the behaviour until its end.
RemembersAll == Cardinality(Orders) <= MaxClosedOrders /\ MaxTime <= ClosedRetention

\* The clock, the attestations and the broker.
Market(t, ex, st, fl) ==
  /\ t \in Nat /\ 1 <= t /\ t <= MaxTime + 1
  /\ ex \in [Orders -> Nat]
  /\ st \in [Orders -> {"new", "attested", "taken", "live", "over", "dead"}]
  /\ fl \in [Orders -> Nat]
  /\ \A o \in Orders : /\ fl[o] <= Qty[o]
                       /\ st[o] \notin {"live", "over"} => fl[o] = 0

\* A report says what the broker showed at some time; a terminal one is final.
Genuine(r, st, fl) ==
  /\ r.id \in Orders /\ st[r.id] \in {"live", "over"}
  /\ r.sell = (r.id \in Sells) /\ r.cum \in Nat /\ r.cum <= fl[r.id]
  /\ r.terminal \in BOOLEAN
  /\ r.terminal => st[r.id] = "over" /\ r.cum = fl[r.id]

\* The portfolio has counted a report: what it has of the order is no less.
Counted(p, r) ==
  \/ r.id \in DOMAIN p.closed /\ r.cum <= p.closed[r.id].cum
  \/ /\ r.id \in DOMAIN p.open /\ r.id \notin DOMAIN p.closed
     /\ p.open[r.id].submitted /\ r.cum <= p.open[r.id].cum

\* A portfolio that has counted every report that was acknowledged.
Kept(p, as) ==
  /\ p \in Books
  /\ \A o \in DOMAIN p.closed : 1 <= p.closed[o].at
  /\ \A r \in as : Counted(p, r)

Mail ==
  /\ \A r \in reports : Genuine(r, stage, filled)
  /\ applied \subseteq reports

\* What makes a replayed report harmless.
MemoryInv ==
  /\ Market(now, expiry, stage, filled) /\ up \in BOOLEAN
  /\ Mail
  /\ Kept(file, applied)
  /\ up => Kept(book, applied)

\* An order at the broker that Aegis heard nothing of has an attestation that is valid.
Prompt(t, ex, st, as) ==
  \A o \in Orders : st[o] \in {"taken", "live", "over"} /\ ~(\E r \in as : r.id = o) => t <= ex[o]

\* Every entry of a portfolio is right about its order.
OpenExact(p, o, fl) ==
  /\ o \notin DOMAIN p.closed
  /\ p.open[o].sell = (o \in Sells) /\ p.open[o].qty = Qty[o]
  /\ 0 <= p.open[o].cum /\ p.open[o].cum <= fl[o]
  /\ ~p.open[o].submitted => p.open[o].cum = 0

ClosedExact(p, o, st, fl) ==
  st[o] = "over" /\ p.closed[o].sell = (o \in Sells) /\ p.closed[o].cum = fl[o]

Exact(p, st, fl) ==
  /\ \A o \in DOMAIN p.open : OpenExact(p, o, fl)
  /\ \A o \in DOMAIN p.closed : ClosedExact(p, o, st, fl)

\* The broker may have the order, or may still get it.
AtStake(o, t, ex, st) ==
  st[o] \in {"taken", "live", "over"} \/ (st[o] = "attested" /\ t <= ex[o])

\* Such an order has an entry, and an entry that may be dropped runs as long as the
\* attestation.
Covers(p, t, ex, st) ==
  \A o \in Orders : AtStake(o, t, ex, st) =>
    \/ o \in DOMAIN p.closed
    \/ o \in DOMAIN p.open /\ (p.open[o].submitted \/ p.open[o].exp = ex[o])

\* What a portfolio knows to be filled of an order, and the most that may come to be.
Known(p, o) == IF o \in DOMAIN p.open THEN p.open[o].cum
               ELSE IF o \in DOMAIN p.closed THEN p.closed[o].cum ELSE 0
Most(p, o)  == IF o \in DOMAIN p.open THEN Qty[o] ELSE Known(p, o)

\* What each order adds to the position: as reported, and at its highest and lowest.
AsReported(p) == [o \in Orders |-> Signed(o \in Sells, Known(p, o))]
Highest(p)    == [o \in Orders |-> IF o \in Sells THEN -Known(p, o) ELSE Most(p, o)]
Lowest(p)     == [o \in Orders |-> IF o \in Sells THEN -Most(p, o) ELSE Known(p, o)]

\* The position is the sum of what is known, and cannot leave the limit.
Within(p) ==
  /\ p.pos = Sum(AsReported(p), Orders)
  /\ Sum(Highest(p), Orders) <= MaxPosition
  /\ -MaxPosition <= Sum(Lowest(p), Orders)

Sound(p, t, ex, st, fl) == Exact(p, st, fl) /\ Covers(p, t, ex, st) /\ Within(p)

\* What keeps the position at the broker within the limit.
PositionInv ==
  /\ Prompt(now, expiry, stage, applied)
  /\ Sound(file, now, expiry, stage, filled)
  /\ up => Sound(book, now, expiry, stage, filled)

-----------------------------------------------------------------------------
(* Portfolios                                                              *)

\* What membership in a table of orders says.
LEMMA TableIs ==
  ASSUME NEW E, NEW f
  PROVE  f \in Tables(E) <=> f \in [DOMAIN f -> E] /\ DOMAIN f \subseteq Orders
  BY DEF Tables

\* Dropping orders leaves a part of the table.
LEMMA DropTable ==
  ASSUME NEW E, NEW f \in Tables(E), NEW X
  PROVE  Drop(f, X) \in Tables(E)
<1>1. f \in [DOMAIN f -> E] /\ DOMAIN f \subseteq Orders
  BY TableIs
<1>2. DOMAIN Drop(f, X) = DOMAIN f \ X /\ Drop(f, X) \in [DOMAIN f \ X -> E]
  BY <1>1 DEF Drop
<1> QED BY <1>1, <1>2, TableIs

\* Putting an order changes that entry only.
LEMMA PutTable ==
  ASSUME NEW E, NEW f \in Tables(E), NEW k \in Orders, NEW e \in E
  PROVE  Put(f, k, e) \in Tables(E)
<1>1. f \in [DOMAIN f -> E] /\ DOMAIN f \subseteq Orders
  BY TableIs
<1>2. DOMAIN Put(f, k, e) = DOMAIN f \cup {k} /\ Put(f, k, e) \in [DOMAIN f \cup {k} -> E]
  BY <1>1 DEF Put
<1> QED BY <1>1, <1>2, TableIs

\* What a portfolio holds.
LEMMA BookIs ==
  ASSUME NEW p \in Books
  PROVE  /\ p.pos \in Int /\ p.open \in Tables(Entries) /\ p.closed \in Tables(Ended)
         /\ DOMAIN p.open \subseteq Orders /\ DOMAIN p.closed \subseteq Orders
         /\ \A o \in DOMAIN p.open : p.open[o] \in Entries
         /\ \A o \in DOMAIN p.closed : p.closed[o] \in Ended
<1>1. p.pos \in Int /\ p.open \in Tables(Entries) /\ p.closed \in Tables(Ended)
  BY DEF Books
<1>2. p.open \in [DOMAIN p.open -> Entries] /\ p.closed \in [DOMAIN p.closed -> Ended]
      /\ DOMAIN p.open \subseteq Orders /\ DOMAIN p.closed \subseteq Orders
  BY <1>1, TableIs
<1> QED BY <1>1, <1>2

\* q is p without some of its open orders.
Fewer(q, p, X) ==
  /\ q \in Books /\ q.pos = p.pos
  /\ DOMAIN q.open = DOMAIN p.open \ X
  /\ \A o \in DOMAIN q.open : q.open[o] = p.open[o]
  /\ DOMAIN q.closed = DOMAIN p.closed
  /\ \A o \in DOMAIN q.closed : q.closed[o] = p.closed[o]

\* The reservations that expiry drops.
Lapsed(p, t) == {o \in DOMAIN p.open : ~p.open[o].submitted /\ p.open[o].exp < t}

\* While the memory lasts, expiry only drops lapsed reservations.
LEMMA ExpireIs ==
  ASSUME NEW p \in Books, NEW t \in Nat, t <= MaxTime + 1, RemembersAll,
         \A o \in DOMAIN p.closed : 1 <= p.closed[o].at
  PROVE  Fewer(expire_reservations(p, t), p, Lapsed(p, t))
<1> DEFINE X == Lapsed(p, t)
           Y == {o \in DOMAIN p.closed : p.closed[o].at + ClosedRetention < t}
           d == Drop(p.open, X)
           c == Drop(p.closed, Y)
<1>1. p.open \in Tables(Entries) /\ p.closed \in Tables(Ended)
  BY BookIs
<1>2. Y = {}
  <2>1. \A o \in DOMAIN p.closed : p.closed[o].at \in Int
    BY BookIs DEF Ended
  <2> QED BY <2>1, ExposureAssumption DEF RemembersAll
<1>3. expire_reservations(p, t) = [p EXCEPT !.open = d, !.closed = c]
  BY DEF expire_reservations, Lapsed
<1> HIDE DEF X, Y
<1>4. /\ d \in Tables(Entries) /\ c \in Tables(Ended)
      /\ DOMAIN d = DOMAIN p.open \ X /\ \A o \in DOMAIN d : d[o] = p.open[o]
      /\ DOMAIN c = DOMAIN p.closed /\ \A o \in DOMAIN c : c[o] = p.closed[o]
  <2>1. d \in Tables(Entries) /\ c \in Tables(Ended)
    BY <1>1, DropTable
  <2>2. DOMAIN d = DOMAIN p.open \ X /\ \A o \in DOMAIN p.open \ X : d[o] = p.open[o]
    BY DEF Drop
  <2>3. DOMAIN c = DOMAIN p.closed \ Y /\ \A o \in DOMAIN p.closed \ Y : c[o] = p.closed[o]
    BY DEF Drop
  <2> HIDE DEF d, c
  <2> QED BY <1>2, <2>1, <2>2, <2>3
<1> HIDE DEF d, c
<1> DEFINE q == [p EXCEPT !.open = d, !.closed = c]
<1>5. q \in Books /\ q.pos = p.pos /\ q.open = d /\ q.closed = c
  BY <1>4 DEF Books
<1> HIDE DEF q
<1>6. Fewer(q, p, X)
  BY <1>4, <1>5 DEF Fewer
<1> QED BY <1>3, <1>6 DEF q, X

\* A release drops the reservation of one order at most.
LEMMA ReleaseIs ==
  ASSUME NEW p \in Books, NEW i
  PROVE  Fewer(release_unsubmitted(p, i), p, {o \in {i} \cap DOMAIN p.open : ~p.open[o].submitted})
<1> DEFINE X == {o \in {i} \cap DOMAIN p.open : ~p.open[o].submitted}
           d == Drop(p.open, X)
<1>1. p.open \in Tables(Entries) /\ p.closed \in Tables(Ended)
  BY BookIs
<1>3. release_unsubmitted(p, i) = [p EXCEPT !.open = d]
  BY DEF release_unsubmitted
<1> HIDE DEF X
<1>4. /\ d \in Tables(Entries)
      /\ DOMAIN d = DOMAIN p.open \ X /\ \A o \in DOMAIN d : d[o] = p.open[o]
  <2>1. d \in Tables(Entries)
    BY <1>1, DropTable
  <2>2. DOMAIN d = DOMAIN p.open \ X /\ \A o \in DOMAIN p.open \ X : d[o] = p.open[o]
    BY DEF Drop
  <2> HIDE DEF d
  <2> QED BY <2>1, <2>2
<1> HIDE DEF d
<1> DEFINE q == [p EXCEPT !.open = d]
<1>5. q \in Books /\ q.pos = p.pos /\ q.open = d /\ q.closed = p.closed
  BY <1>4 DEF Books
<1> HIDE DEF q
<1>6. Fewer(q, p, X)
  BY <1>4, <1>5 DEF Fewer
<1> QED BY <1>3, <1>6 DEF q, X

\* q is p with the entry e for order i.
With(q, p, i, e) ==
  /\ q \in Books /\ q.closed = p.closed
  /\ DOMAIN q.open = DOMAIN p.open \cup {i} /\ q.open[i] = e
  /\ \A o \in DOMAIN p.open \ {i} : q.open[o] = p.open[o]

\* The entry of a reservation.
Reservation(i, n, x) ==
  [sell |-> i \in Sells, qty |-> n, cum |-> 0, exp |-> x, submitted |-> FALSE]

\* A reservation puts one entry and leaves the position alone.
LEMMA ReserveIs ==
  ASSUME NEW p \in Books, NEW i \in Orders, NEW n \in Int, NEW x \in Int
  PROVE  LET q == reserve(p, i, i \in Sells, n, x)
         IN  With(q, p, i, Reservation(i, n, x)) /\ q.pos = p.pos
<1> DEFINE e == Reservation(i, n, x)
           d == Put(p.open, i, e)
<1>1. e \in Entries
  <2>1. (i \in Sells) \in BOOLEAN
    OBVIOUS
  <2> QED BY <2>1 DEF Entries, Reservation
<1>2. p.open \in Tables(Entries) /\ p.closed \in Tables(Ended)
  BY BookIs
<1>3. reserve(p, i, i \in Sells, n, x) = [p EXCEPT !.open = d]
  BY DEF reserve, Reservation
<1> HIDE DEF e
<1>4. /\ d \in Tables(Entries) /\ DOMAIN d = DOMAIN p.open \cup {i} /\ d[i] = e
      /\ \A o \in DOMAIN p.open \ {i} : d[o] = p.open[o]
  <2>1. d \in Tables(Entries)
    BY <1>1, <1>2, PutTable
  <2>2. /\ DOMAIN d = DOMAIN p.open \cup {i} /\ d[i] = e
        /\ \A o \in DOMAIN p.open \ {i} : d[o] = p.open[o]
    BY DEF Put
  <2> HIDE DEF d
  <2> QED BY <2>1, <2>2
<1> HIDE DEF d
<1> DEFINE q == [p EXCEPT !.open = d]
<1>5. q \in Books /\ q.pos = p.pos /\ q.open = d /\ q.closed = p.closed
  BY <1>4 DEF Books
<1> HIDE DEF q
<1>6. With(q, p, i, e)
  BY <1>4, <1>5 DEF With
<1> QED BY <1>3, <1>5, <1>6 DEF q, e

\* q is p after the last report r of an order: no longer open, but remembered.
Final(r, t) == [sell |-> r.sell, cum |-> r.cum, at |-> t]
Closes(q, p, r, t) ==
  /\ q \in Books
  /\ DOMAIN q.open = DOMAIN p.open \ {r.id}
  /\ \A o \in DOMAIN q.open : q.open[o] = p.open[o]
  /\ DOMAIN q.closed = DOMAIN p.closed \cup {r.id} /\ q.closed[r.id] = Final(r, t)
  /\ \A o \in DOMAIN p.closed \ {r.id} : q.closed[o] = p.closed[o]

\* q is p after a report of an order that is closed.
Updates(q, p, r) ==
  /\ q \in Books /\ q.open = p.open
  /\ DOMAIN q.closed = DOMAIN p.closed
  /\ q.closed[r.id] = [p.closed[r.id] EXCEPT !.cum = r.cum]
  /\ \A o \in DOMAIN p.closed \ {r.id} : q.closed[o] = p.closed[o]

\* A report of a closed order changes what is remembered of it.
LEMMA ReportClosed ==
  ASSUME NEW p \in Books, NEW r, r.id \in DOMAIN p.closed, r.cum \in Nat, r.sell \in BOOLEAN, NEW t
  PROVE  LET q == apply_fill_report(p, r, t)
         IN  Updates(q, p, r) /\ q.pos = p.pos + Signed(r.sell, r.cum - p.closed[r.id].cum)
<1> DEFINE c == p.closed[r.id]
           e == [c EXCEPT !.cum = r.cum]
           d == Put(p.closed, r.id, e)
           n == p.pos + Signed(r.sell, r.cum - c.cum)
<1>1. /\ p.pos \in Int /\ p.open \in Tables(Entries) /\ p.closed \in Tables(Ended)
      /\ r.id \in Orders /\ c \in Ended
  BY BookIs
<1>2. e \in Ended /\ c.cum \in Int
  BY <1>1 DEF Ended
<1>3. n \in Int
  BY <1>1, <1>2 DEF Signed
<1>4. apply_fill_report(p, r, t) = [p EXCEPT !.pos = n, !.closed = d]
  BY DEF apply_fill_report, apply_to_closed
<1> HIDE DEF e, n
<1>5. d \in Tables(Ended)
  BY <1>1, <1>2, PutTable
<1>6. /\ DOMAIN d = DOMAIN p.closed /\ d[r.id] = e
      /\ \A o \in DOMAIN p.closed \ {r.id} : d[o] = p.closed[o]
  BY DEF Put
<1> HIDE DEF d
<1> DEFINE q == [p EXCEPT !.pos = n, !.closed = d]
<1>7. q \in Books /\ q.pos = n /\ q.open = p.open /\ q.closed = d
  BY <1>3, <1>5 DEF Books
<1> HIDE DEF q
<1>8. Updates(q, p, r) /\ q.pos = n
  BY <1>6, <1>7 DEF Updates, e
<1> QED BY <1>4, <1>8 DEF q, n, e

\* The entry a report applies to is an entry.
LEMMA EntryIs ==
  ASSUME NEW p \in Books, NEW r, r.id \in Orders, r.cum \in Nat, r.sell \in BOOLEAN
  PROVE  Entry(p, r) \in Entries
<1>1. CASE r.id \in DOMAIN p.open
  BY <1>1, BookIs DEF Entry
<1>2. CASE r.id \notin DOMAIN p.open
  BY <1>2 DEF Entry, Entries, Forever
<1> QED BY <1>1, <1>2

\* A report of an order that is not closed puts its entry.
LEMMA ReportOpen ==
  ASSUME NEW p \in Books, NEW r, r.id \in Orders, r.id \notin DOMAIN p.closed,
         r.cum \in Nat, r.sell \in BOOLEAN, r.terminal = FALSE, NEW t
  PROVE  LET q == apply_fill_report(p, r, t)
         IN  /\ With(q, p, r.id, Reported(p, r)) /\ Reported(p, r) \in Entries
             /\ q.pos = p.pos + Signed(r.sell, r.cum - Entry(p, r).cum)
<1> DEFINE e == Entry(p, r)
           f == Reported(p, r)
           d == Put(p.open, r.id, f)
           n == p.pos + Signed(r.sell, r.cum - e.cum)
<1>1. /\ p.pos \in Int /\ p.open \in Tables(Entries) /\ p.closed \in Tables(Ended)
  BY BookIs
<1>2. e \in Entries /\ e.cum \in Int /\ e.qty \in Int
  BY EntryIs DEF Entries
<1>3. n \in Int
  BY <1>1, <1>2 DEF Signed
<1>4. f \in Entries
  <2>1. MaxOf(e.qty, r.cum) \in Int
    BY <1>2 DEF MaxOf
  <2>2. f = [e EXCEPT !.cum = r.cum, !.qty = MaxOf(e.qty, r.cum), !.submitted = TRUE]
    BY DEF Reported
  <2>3. r.cum \in Int
    OBVIOUS
  <2> DEFINE m == MaxOf(e.qty, r.cum)
  <2> HIDE DEF e, f, m
  <2>4. [e EXCEPT !.cum = r.cum, !.qty = m, !.submitted = TRUE] \in Entries
    BY <1>2, <2>1, <2>3 DEF Entries, m
  <2> QED BY <2>2, <2>4 DEF m
<1>5. apply_fill_report(p, r, t) = [pos |-> n, open |-> d, closed |-> p.closed]
  BY DEF apply_fill_report, apply_to_open, OpenAfter, ClosedAfter
<1> HIDE DEF e, f, n
<1>6. d \in Tables(Entries)
  BY <1>1, <1>4, PutTable
<1>7. /\ DOMAIN d = DOMAIN p.open \cup {r.id} /\ d[r.id] = f
      /\ \A o \in DOMAIN p.open \ {r.id} : d[o] = p.open[o]
  BY DEF Put
<1> HIDE DEF d
<1> DEFINE q == [pos |-> n, open |-> d, closed |-> p.closed]
<1>8. q \in Books /\ q.pos = n /\ q.open = d /\ q.closed = p.closed
  BY <1>1, <1>3, <1>6 DEF Books
<1> HIDE DEF q
<1>9. With(q, p, r.id, f) /\ q.pos = n
  BY <1>7, <1>8 DEF With
<1> QED BY <1>4, <1>5, <1>9 DEF q, n, e, f

\* There is room to remember one more order.
LEMMA Room ==
  ASSUME NEW S \in SUBSET Orders, NEW o \in Orders, o \notin S, RemembersAll
  PROVE  Cardinality(S) < MaxClosedOrders
<1>1. IsFiniteSet(Orders) /\ IsFiniteSet(S)
  BY ExposureAssumption, FS_Subset
<1>2. IsFiniteSet(S \cup {o}) /\ Cardinality(S \cup {o}) = Cardinality(S) + 1
  BY <1>1, FS_AddElement
<1>3. Cardinality(S \cup {o}) <= Cardinality(Orders)
  BY <1>1, FS_Subset
<1>4. Cardinality(S) \in Nat /\ Cardinality(Orders) \in Nat
  BY <1>1, FS_CardinalityType
<1> QED BY <1>2, <1>3, <1>4, ExposureAssumption DEF RemembersAll

\* A terminal report of an order that is not closed moves it to the closed ones.
LEMMA ReportFinal ==
  ASSUME NEW p \in Books, NEW r, r.id \in Orders, r.id \notin DOMAIN p.closed,
         r.cum \in Nat, r.sell \in BOOLEAN, r.terminal = TRUE, NEW t \in Int, RemembersAll
  PROVE  LET q == apply_fill_report(p, r, t)
         IN  /\ Closes(q, p, r, t)
             /\ q.pos = p.pos + Signed(r.sell, r.cum - Entry(p, r).cum)
<1> DEFINE e == Entry(p, r)
           f == Final(r, t)
           d == Drop(p.open, {r.id})
           c == Put(p.closed, r.id, f)
           n == p.pos + Signed(r.sell, r.cum - e.cum)
<1>1. /\ p.pos \in Int /\ p.open \in Tables(Entries) /\ p.closed \in Tables(Ended)
      /\ DOMAIN p.closed \in SUBSET Orders
  BY BookIs
<1>2. e \in Entries /\ e.cum \in Int /\ f \in Ended
  BY EntryIs DEF Entries, Ended, Final
<1>3. n \in Int
  BY <1>1, <1>2 DEF Signed
<1>4. Cardinality(DOMAIN p.closed) < MaxClosedOrders
  BY <1>1, Room
<1>5. apply_fill_report(p, r, t) = [pos |-> n, open |-> d, closed |-> c]
  BY <1>4 DEF apply_fill_report, apply_to_open, OpenAfter, ClosedAfter, Final
<1> HIDE DEF e, f, n
<1>6. d \in Tables(Entries) /\ c \in Tables(Ended)
  BY <1>1, <1>2, PutTable, DropTable
<1>7. DOMAIN d = DOMAIN p.open \ {r.id} /\ \A o \in DOMAIN p.open \ {r.id} : d[o] = p.open[o]
  BY DEF Drop
<1>8. /\ DOMAIN c = DOMAIN p.closed \cup {r.id} /\ c[r.id] = f
      /\ \A o \in DOMAIN p.closed \ {r.id} : c[o] = p.closed[o]
  BY DEF Put
<1> HIDE DEF d, c
<1> DEFINE q == [pos |-> n, open |-> d, closed |-> c]
<1>9. q \in Books /\ q.pos = n /\ q.open = d /\ q.closed = c
  BY <1>3, <1>6 DEF Books
<1> HIDE DEF q
<1>10. Closes(q, p, r, t) /\ q.pos = n
  BY <1>7, <1>8, <1>9 DEF Closes, f
<1> QED BY <1>5, <1>10 DEF q, n, e, f

-----------------------------------------------------------------------------
(* A replayed report is harmless                                           *)

\* What drops unsubmitted reservations only has counted what was counted.
LEMMA FewerKept ==
  ASSUME NEW p, NEW q, NEW X, NEW as, Kept(p, as), Fewer(q, p, X),
         \A o \in X : o \in DOMAIN p.open => ~p.open[o].submitted
  PROVE  Kept(q, as)
<1>1. \A r \in as : Counted(q, r)
  BY DEF Kept, Fewer, Counted
<1> QED BY <1>1 DEF Kept, Fewer

\* Expiry forgets no report.
LEMMA ExpireKept ==
  ASSUME NEW p, NEW as, Kept(p, as), NEW t \in Nat, t <= MaxTime + 1, RemembersAll
  PROVE  Kept(expire_reservations(p, t), as)
<1>1. Fewer(expire_reservations(p, t), p, Lapsed(p, t))
  BY ExpireIs DEF Kept
<1>2. \A o \in Lapsed(p, t) : o \in DOMAIN p.open => ~p.open[o].submitted
  BY DEF Lapsed
<1> QED BY <1>1, <1>2, FewerKept

\* Neither does the reservation of an order that no report is about, nor its release.
LEMMA ReserveKept ==
  ASSUME NEW p, NEW as, Kept(p, as), NEW i \in Orders, NEW n \in Int, NEW x \in Int,
         \A r \in as : r.id # i
  PROVE  LET q == reserve(p, i, i \in Sells, n, x)
         IN  Kept(q, as) /\ Kept(release_unsubmitted(q, i), as)
<1> DEFINE q == reserve(p, i, i \in Sells, n, x)
<1>1. With(q, p, i, Reservation(i, n, x)) /\ q.pos = p.pos
  <2>1. p \in Books
    BY DEF Kept
  <2> QED BY <2>1, ReserveIs
<1> HIDE DEF q
<1>2. \A r \in as : Counted(q, r)
  BY <1>1 DEF Kept, With, Counted
<1>3. Kept(q, as)
  BY <1>1, <1>2 DEF Kept, With
<1> DEFINE X == {o \in {i} \cap DOMAIN q.open : ~q.open[o].submitted}
<1>4. Fewer(release_unsubmitted(q, i), q, X)
  BY <1>3, ReleaseIs DEF Kept
<1>5. Kept(release_unsubmitted(q, i), as)
  <2>1. \A o \in X : o \in DOMAIN q.open => ~q.open[o].submitted
    OBVIOUS
  <2> HIDE DEF X
  <2> QED BY <1>3, <1>4, <2>1, FewerKept
<1> QED BY <1>3, <1>5 DEF q

\* A report that is accepted is counted, and so is what was counted before.
LEMMA ReportKept ==
  ASSUME NEW p, NEW as, Kept(p, as), NEW r, r.id \in Orders, r.cum \in Nat, r.sell \in BOOLEAN,
         r.terminal \in BOOLEAN, NEW t \in Nat, 1 <= t, RemembersAll, Acceptable(p, r),
         \A a \in as : a.cum \in Nat
  PROVE  Kept(apply_fill_report(p, r, t), as \cup {r})
<1> DEFINE q == apply_fill_report(p, r, t)
<1>0. p \in Books /\ r.cum <= r.cum
  BY DEF Kept
<1>a. \A o \in DOMAIN p.open : p.open[o].cum \in Int
  BY <1>0, BookIs DEF Entries
<1>b. \A o \in DOMAIN p.closed : p.closed[o].cum \in Int /\ p.closed[o].at \in Int
  BY <1>0, BookIs DEF Ended
<1>1. CASE r.id \in DOMAIN p.closed
  <2>1. /\ q \in Books /\ q.open = p.open
        /\ DOMAIN q.closed = DOMAIN p.closed
        /\ q.closed[r.id] = [p.closed[r.id] EXCEPT !.cum = r.cum]
        /\ \A o \in DOMAIN p.closed \ {r.id} : q.closed[o] = p.closed[o]
    <3>1. Updates(q, p, r)
      BY <1>0, <1>1, ReportClosed
    <3> HIDE DEF q
    <3> QED BY <3>1 DEF Updates
  <2>2. r.cum >= p.closed[r.id].cum
    BY <1>1 DEF Acceptable
  <2>3. q.closed[r.id].cum = r.cum /\ q.closed[r.id].at = p.closed[r.id].at
    <3>1. p.closed[r.id] \in Ended
      BY <1>0, <1>1, BookIs
    <3> HIDE DEF q
    <3> QED BY <2>1, <3>1 DEF Ended
  <2> HIDE DEF q
  <2>4. \A a \in as \cup {r} : Counted(q, a)
    <3> SUFFICES ASSUME NEW a \in as \cup {r} PROVE Counted(q, a)
      OBVIOUS
    <3>1. CASE a.id = r.id
      <4>1. CASE a \in as
        <5>1. Counted(p, a) /\ a.cum \in Nat
          BY <4>1 DEF Kept
        <5>2. a.cum <= p.closed[r.id].cum
          BY <1>1, <3>1, <5>1 DEF Counted
        <5>3. a.cum <= r.cum
          BY <1>1, <1>b, <2>2, <5>1, <5>2
        <5> QED BY <1>1, <2>1, <2>3, <3>1, <5>3 DEF Counted
      <4>2. CASE a = r
        BY <1>0, <1>1, <2>1, <2>3, <4>2 DEF Counted
      <4> QED BY <4>1, <4>2
    <3>2. CASE a.id # r.id
      BY <2>1, <3>2 DEF Kept, Counted
    <3> QED BY <3>1, <3>2
  <2>5. \A o \in DOMAIN q.closed : 1 <= q.closed[o].at
    <3> SUFFICES ASSUME NEW o \in DOMAIN q.closed PROVE 1 <= q.closed[o].at
      OBVIOUS
    <3>1. o \in DOMAIN p.closed /\ 1 <= p.closed[o].at
      BY <2>1 DEF Kept
    <3>2. q.closed[o].at = p.closed[o].at
      BY <2>1, <2>3, <3>1
    <3> QED BY <3>1, <3>2
  <2>6. Kept(q, as \cup {r})
      BY <2>1, <2>4, <2>5 DEF Kept
  <2> QED BY <2>6 DEF q
<1>2. ASSUME r.id \notin DOMAIN p.closed, NEW a \in as, a.id = r.id
      PROVE  a.cum <= r.cum
  <2>1. r.id \in DOMAIN p.open /\ a.cum <= p.open[r.id].cum
    BY <1>2 DEF Kept, Counted
  <2>2. r.cum >= p.open[r.id].cum
    BY <1>2, <2>1 DEF Acceptable, Entry
  <2>3. a.cum \in Nat /\ p.open[r.id].cum \in Int
    BY <1>2, <1>a, <2>1
  <2> QED BY <2>1, <2>2, <2>3
<1>3. CASE r.id \notin DOMAIN p.closed /\ r.terminal = FALSE
  <2>1. With(q, p, r.id, Reported(p, r)) /\ Reported(p, r) \in Entries
    BY <1>0, <1>3, ReportOpen
  <2>2. Reported(p, r).cum = r.cum /\ Reported(p, r).submitted
    <3>1. Entry(p, r) \in Entries
      BY <1>0, EntryIs
    <3> QED BY <3>1 DEF Reported, Entries
  <2> HIDE DEF q
  <2>3. \A a \in as \cup {r} : Counted(q, a)
    <3> SUFFICES ASSUME NEW a \in as \cup {r} PROVE Counted(q, a)
      OBVIOUS
    <3>1. CASE a.id = r.id
      <4>1. a.cum <= r.cum
        BY <1>0, <1>2, <1>3, <3>1
      <4> QED BY <1>3, <2>1, <2>2, <3>1, <4>1 DEF Counted, With
    <3>2. CASE a.id # r.id
      BY <2>1, <3>2 DEF Kept, Counted, With
    <3> QED BY <3>1, <3>2
  <2>4. \A o \in DOMAIN q.closed : 1 <= q.closed[o].at
    BY <2>1 DEF Kept, With
  <2>5. Kept(q, as \cup {r})
      BY <2>1, <2>3, <2>4 DEF Kept, With
  <2> QED BY <2>5 DEF q
<1>4. CASE r.id \notin DOMAIN p.closed /\ r.terminal = TRUE
  <2>1. /\ q \in Books
        /\ DOMAIN q.open = DOMAIN p.open \ {r.id}
        /\ \A o \in DOMAIN q.open : q.open[o] = p.open[o]
        /\ DOMAIN q.closed = DOMAIN p.closed \cup {r.id} /\ q.closed[r.id] = Final(r, t)
        /\ \A o \in DOMAIN p.closed \ {r.id} : q.closed[o] = p.closed[o]
    <3>1. t \in Int
      OBVIOUS
    <3>2. Closes(q, p, r, t)
      BY <1>0, <1>4, <3>1, ReportFinal
    <3> HIDE DEF q
    <3> QED BY <3>2 DEF Closes
  <2>2. q.closed[r.id].cum = r.cum /\ q.closed[r.id].at = t
    BY <2>1 DEF Final
  <2> HIDE DEF q
  <2>3. \A a \in as \cup {r} : Counted(q, a)
    <3> SUFFICES ASSUME NEW a \in as \cup {r} PROVE Counted(q, a)
      OBVIOUS
    <3>1. CASE a.id = r.id
      <4>1. a.cum <= r.cum
        BY <1>0, <1>2, <1>4, <3>1
      <4> QED BY <2>1, <2>2, <3>1, <4>1 DEF Counted
    <3>2. CASE a.id # r.id
      BY <2>1, <3>2 DEF Kept, Counted
    <3> QED BY <3>1, <3>2
  <2>4. \A o \in DOMAIN q.closed : 1 <= q.closed[o].at
    <3> SUFFICES ASSUME NEW o \in DOMAIN q.closed PROVE 1 <= q.closed[o].at
      OBVIOUS
    <3>1. CASE o = r.id
      BY <2>2, <3>1
    <3>2. CASE o # r.id
      BY <2>1, <3>2 DEF Kept
    <3> QED BY <3>1, <3>2
  <2>5. Kept(q, as \cup {r})
      BY <2>1, <2>3, <2>4 DEF Kept
  <2> QED BY <2>5 DEF q
<1> QED BY <1>1, <1>3, <1>4

\* The portfolio before any order.
LEMMA EmptyKept == EmptyPortfolio \in Books /\ Kept(EmptyPortfolio, {})
<1>1. \A E : [o \in {} |-> 0] \in Tables(E)
  BY DEF Tables
<1>2. EmptyPortfolio \in Books
  BY <1>1 DEF EmptyPortfolio, Books
<1> QED BY <1>2 DEF EmptyPortfolio, Kept

\* The steps of the execution-motor and the broker.
BrokerStep == \E o \in Orders : Take(o) \/ Submit(o) \/ Fill(o) \/ End(o) \/ Snapshot(o)

\* They keep the market in order, and every report stays genuine.
LEMMA BrokerMarket ==
  ASSUME MemoryInv, BrokerStep
  PROVE  /\ Market(now, expiry, stage, filled)' /\ Mail'
         /\ applied' = applied /\ file' = file /\ book' = book /\ up' = up
         /\ now' = now /\ expiry' = expiry
         /\ \A o \in Orders : /\ filled[o] <= filled'[o]
                              /\ stage[o] = "over" => stage'[o] = "over" /\ filled'[o] = filled[o]
                              /\ AtStake(o, now, expiry, stage') => AtStake(o, now, expiry, stage)
<1>1. PICK o \in Orders : Take(o) \/ Submit(o) \/ Fill(o) \/ End(o) \/ Snapshot(o)
  BY DEF BrokerStep
<1> USE DEF MemoryInv, Market
<1>2. /\ applied' = applied /\ file' = file /\ book' = book /\ up' = up
      /\ now' = now /\ expiry' = expiry
  BY <1>1 DEF Take, Submit, Fill, End, Snapshot
<1>3. /\ stage' \in [Orders -> {"new", "attested", "taken", "live", "over", "dead"}]
      /\ filled' \in [Orders -> Nat]
      /\ \A i \in Orders \ {o} : stage'[i] = stage[i] /\ filled'[i] = filled[i]
  <2>1. CASE Take(o)
    BY <2>1 DEF Take
  <2>2. CASE Submit(o)
    <3>1. filled' = filled
      BY <2>2 DEF Submit
    <3>2. \E x \in {"dead", "over", "live"} : stage' = [stage EXCEPT ![o] = x]
      BY <2>2 DEF Submit
    <3> QED BY <3>1, <3>2
  <2>3. CASE Fill(o)
    BY <2>3 DEF Fill
  <2>4. CASE End(o) \/ Snapshot(o)
    BY <2>4 DEF End, Snapshot
  <2> QED BY <1>1, <2>1, <2>2, <2>3, <2>4
<1>4. Qty \in [Orders -> Nat]
  BY ExposureAssumption
<1>5. /\ filled[o] <= filled'[o] /\ filled'[o] <= Qty[o]
      /\ stage'[o] \notin {"live", "over"} => filled'[o] = 0
      /\ stage[o] = "over" => stage'[o] = "over" /\ filled'[o] = filled[o]
      /\ stage[o] \in {"live", "over"} => stage'[o] \in {"live", "over"}
      /\ stage'[o] \in {"taken", "live", "over"} /\ stage[o] = "attested" => now < expiry[o]
      /\ stage'[o] \in {"attested", "taken", "live", "over"}
           => stage[o] \in {"attested", "taken", "live", "over"}
      /\ stage'[o] = "attested" => stage[o] = "attested"
  <2>1. CASE Take(o)
    BY <1>4, <2>1 DEF Take
  <2>2. CASE Submit(o)
    <3>1. filled' = filled /\ stage[o] = "taken"
      BY <2>2 DEF Submit
    <3>2. stage'[o] \in {"dead", "over", "live"}
      BY <2>2 DEF Submit
    <3> QED BY <1>4, <3>1, <3>2
  <2>3. CASE Fill(o)
    BY <1>4, <2>3 DEF Fill
  <2>4. CASE End(o) \/ Snapshot(o)
    BY <1>4, <2>4 DEF End, Snapshot
  <2> QED BY <1>1, <2>1, <2>2, <2>3, <2>4
<1>6. Market(now, expiry, stage, filled)'
  BY <1>2, <1>3, <1>5
<1>7. ASSUME NEW r \in reports' PROVE Genuine(r, stage', filled')
  <2>1. CASE r \in reports
    <3>1. Genuine(r, stage, filled)
      BY <2>1 DEF Mail
    <3>2. filled[r.id] \in Nat /\ filled'[r.id] \in Nat /\ filled[r.id] <= filled'[r.id]
      BY <1>3, <1>5, <3>1 DEF Genuine
    <3> QED BY <1>3, <1>5, <3>1, <3>2 DEF Genuine
  <2>2. CASE r \notin reports
    <3> DEFINE b == (stage'[o] = "over")
    <3>1. r = ReportOf(o, b) /\ stage'[o] \in {"live", "over"} /\ filled' = filled
      <4>1. CASE Submit(o)
        BY <2>2, <4>1, <1>7 DEF Submit
      <4>2. CASE Snapshot(o)
        BY <2>2, <4>2, <1>7 DEF Snapshot
      <4>3. CASE Take(o) \/ Fill(o) \/ End(o)
        BY <2>2, <4>3, <1>7 DEF Take, Fill, End
      <4> QED BY <1>1, <4>1, <4>2, <4>3
    <3>2. r.id = o /\ r.sell = (o \in Sells) /\ r.cum = filled[o] /\ r.terminal = b
      BY <3>1 DEF ReportOf
    <3>3. b \in BOOLEAN
      OBVIOUS
    <3>4. filled[o] \in Nat /\ filled[o] <= filled[o]
      OBVIOUS
    <3> QED BY <3>1, <3>2, <3>3, <3>4 DEF Genuine
  <2> QED BY <2>1, <2>2
<1>8. reports \subseteq reports'
  BY <1>1 DEF Take, Submit, Fill, End, Snapshot
<1>9. Mail'
  BY <1>2, <1>7, <1>8 DEF Mail
<1>10. ASSUME NEW i \in Orders
       PROVE  /\ filled[i] <= filled'[i]
              /\ stage[i] = "over" => stage'[i] = "over" /\ filled'[i] = filled[i]
              /\ AtStake(i, now, expiry, stage') => AtStake(i, now, expiry, stage)
  <2>1. CASE i = o
    BY <1>3, <1>5, <2>1 DEF AtStake
  <2>2. CASE i # o
    BY <1>3, <2>2 DEF AtStake
  <2> QED BY <2>1, <2>2
<1> QED BY <1>2, <1>6, <1>9, <1>10

\* The portfolio with the reservation of an order, and after that was given back.
Reserved(o) == reserve(expire_reservations(book, now), o, o \in Sells, Qty[o], now + Ttl)
GivenBack(o) == release_unsubmitted(Reserved(o), o)

\* An approval leaves the portfolio and its file as they were, with the reservation, or
\* with the reservation given back; with an attestation both have it.
LEMMA ApproveIs ==
  ASSUME NEW o \in Orders, NEW end, NEW s, NEW s2, Approve(o, end, s, s2)
  PROVE  /\ up /\ up' = up /\ stage[o] = "new" /\ PositionPermits(book, o \in Sells, Qty[o])
         /\ now' = now /\ filled' = filled /\ reports' = reports /\ applied' = applied
         /\ book' \in {book, Reserved(o), GivenBack(o)}
         /\ file' \in {file, Reserved(o), GivenBack(o)}
         /\ \/ expiry' = expiry /\ stage' = stage
            \/ /\ book' = Reserved(o) /\ file' = Reserved(o)
               /\ expiry' = [expiry EXCEPT ![o] = now + Ttl]
               /\ stage' = [stage EXCEPT ![o] = "attested"]
<1>1. /\ up /\ up' = up /\ stage[o] = "new" /\ PositionPermits(book, o \in Sells, Qty[o])
      /\ now' = now /\ filled' = filled /\ reports' = reports /\ applied' = applied
  BY DEF Approve
<1>2. \/ /\ s # "ok"
         /\ file' = SaveTo(Reserved(o), s)
         /\ UNCHANGED <<book, expiry, stage>>
      \/ /\ s = "ok" /\ end = "delivered"
         /\ book' = Reserved(o) /\ file' = SaveTo(Reserved(o), s)
         /\ expiry' = [expiry EXCEPT ![o] = now + Ttl]
         /\ stage' = [stage EXCEPT ![o] = "attested"]
      \/ /\ s = "ok" /\ end = "downgraded"
         /\ book' = Reserved(o) /\ file' = SaveTo(Reserved(o), s)
         /\ UNCHANGED <<expiry, stage>>
      \/ /\ s = "ok" /\ end = "abandoned"
         /\ book' = IF s2 = "ok" THEN GivenBack(o) ELSE Reserved(o)
         /\ file' = IF s2 = "failed" THEN Reserved(o) ELSE GivenBack(o)
         /\ UNCHANGED <<expiry, stage>>
  BY DEF Approve, Reserved, GivenBack
<1> QED BY <1>1, <1>2 DEF SaveTo

\* The portfolio after a report.
AfterReport(r) == expire_reservations(apply_fill_report(book, r, now), now)

\* A report that was acknowledged is in the portfolio and its file; another may be in
\* the file.
LEMMA ReportIs ==
  ASSUME NEW r, NEW s, ReportExecution(r, s)
  PROVE  /\ up /\ up' = up /\ Acceptable(book, r)
         /\ now' = now /\ expiry' = expiry /\ stage' = stage /\ filled' = filled /\ reports' = reports
         /\ \/ book' = AfterReport(r) /\ file' = AfterReport(r) /\ applied' = applied \cup {r}
            \/ book' = book /\ file' \in {file, AfterReport(r)} /\ applied' = applied
  BY DEF ReportExecution, AfterReport, SaveTo

\* Initially nothing was reported.
LEMMA MemoryInit == Init => MemoryInv
<1> SUFFICES ASSUME Init PROVE MemoryInv
  OBVIOUS
<1>1. Market(now, expiry, stage, filled)
  BY ExposureAssumption DEF Init, Market
<1>2. Mail
  BY DEF Init, Mail
<1> QED BY <1>1, <1>2, EmptyKept DEF Init, MemoryInv

\* The types of a report.
LEMMA GenuineIs ==
  ASSUME NEW r, NEW st, NEW fl, Genuine(r, st, fl)
  PROVE  r.id \in Orders /\ r.cum \in Nat /\ r.sell \in BOOLEAN /\ r.terminal \in BOOLEAN
<1>1. r.sell = (r.id \in Sells) /\ (r.id \in Sells) \in BOOLEAN
  BY DEF Genuine
<1>2. r.sell \in BOOLEAN
  BY <1>1
<1> QED BY <1>2 DEF Genuine

\* Reservations forget no report that was acknowledged.
LEMMA ReservedKept ==
  ASSUME MemoryInv, RemembersAll, up, NEW o \in Orders, stage[o] = "new"
  PROVE  Kept(Reserved(o), applied) /\ Kept(GivenBack(o), applied)
<1>1. now \in Nat /\ now <= MaxTime + 1 /\ Kept(book, applied)
  BY DEF MemoryInv, Market
<1>2. Kept(expire_reservations(book, now), applied)
  BY <1>1, ExpireKept
<1>3. Qty[o] \in Int /\ now + Ttl \in Int
  BY <1>1, ExposureAssumption
<1>4. \A r \in applied : r.id # o
  BY DEF MemoryInv, Mail, Genuine
<1> QED BY <1>2, <1>3, <1>4, ReserveKept DEF Reserved, GivenBack

\* What was acknowledged is counted in every step.
LEMMA MemoryStep == RemembersAll /\ MemoryInv /\ [Next]_vars => MemoryInv'
<1> SUFFICES ASSUME RemembersAll, MemoryInv, [Next]_vars PROVE MemoryInv'
  OBVIOUS
<1>0. /\ Market(now, expiry, stage, filled) /\ up \in BOOLEAN /\ Mail
      /\ Kept(file, applied) /\ (up => Kept(book, applied))
  BY DEF MemoryInv
<1>1. ASSUME NEW o \in Orders, NEW end, NEW s, NEW s2, Approve(o, end, s, s2)
      PROVE  MemoryInv'
  <2>1. Kept(Reserved(o), applied) /\ Kept(GivenBack(o), applied) /\ Kept(book, applied)
    BY <1>0, <1>1, ApproveIs, ReservedKept
  <2>2. Kept(file', applied) /\ Kept(book', applied) /\ applied' = applied
    BY <1>0, <1>1, <2>1, ApproveIs
  <2>3. Market(now, expiry, stage, filled)' /\ Mail'
    <3>1. CASE expiry' = expiry /\ stage' = stage
      BY <1>0, <1>1, <3>1, ApproveIs DEF Market, Mail
    <3>2. CASE /\ expiry' = [expiry EXCEPT ![o] = now + Ttl]
               /\ stage' = [stage EXCEPT ![o] = "attested"]
      <4>1. /\ now' = now /\ filled' = filled /\ reports' = reports /\ applied' = applied
            /\ stage[o] = "new"
        BY <1>1, ApproveIs
      <4>2. now + Ttl \in Nat
        BY <1>0, ExposureAssumption DEF Market
      <4>3. Market(now, expiry, stage, filled)'
        BY <1>0, <3>2, <4>1, <4>2 DEF Market
      <4>4. Mail'
        BY <1>0, <3>2, <4>1 DEF Market, Mail, Genuine
      <4> QED BY <4>3, <4>4
    <3> QED BY <1>1, <3>1, <3>2, ApproveIs
  <2>4. up' \in BOOLEAN
    BY <1>0, <1>1, ApproveIs
  <2> QED BY <2>2, <2>3, <2>4 DEF MemoryInv
<1>2. ASSUME NEW r \in reports, NEW s, ReportExecution(r, s)
      PROVE  MemoryInv'
  <2>1. /\ up /\ up' = up /\ Acceptable(book, r) /\ Kept(book, applied)
        /\ now' = now /\ expiry' = expiry /\ stage' = stage /\ filled' = filled /\ reports' = reports
        /\ \/ book' = AfterReport(r) /\ file' = AfterReport(r) /\ applied' = applied \cup {r}
           \/ book' = book /\ file' \in {file, AfterReport(r)} /\ applied' = applied
    BY <1>0, <1>2, ReportIs
  <2>2. Kept(apply_fill_report(book, r, now), applied \cup {r})
    <3>1. /\ r.id \in Orders /\ r.cum \in Nat /\ r.sell \in BOOLEAN /\ r.terminal \in BOOLEAN
          /\ \A a \in applied : a.cum \in Nat
      BY <1>0, GenuineIs DEF Mail
    <3>2. now \in Nat /\ 1 <= now
      BY <1>0 DEF Market
    <3> QED BY <2>1, <3>1, <3>2, ReportKept
  <2>3. Kept(AfterReport(r), applied \cup {r})
    BY <1>0, <2>2, ExpireKept DEF AfterReport, Market
  <2>4. Kept(AfterReport(r), applied)
    BY <2>3 DEF Kept
  <2>5. Kept(file', applied') /\ Kept(book', applied')
    BY <1>0, <2>1, <2>3, <2>4
  <2>6. Market(now, expiry, stage, filled)' /\ Mail'
    BY <1>0, <1>2, <2>1 DEF Market, Mail
  <2> QED BY <1>0, <2>1, <2>5, <2>6 DEF MemoryInv
<1>3. CASE Maintenance
  <2>1. Kept(expire_reservations(book, now), applied)
    BY <1>0, <1>3, ExpireKept DEF Maintenance, Market
  <2> QED BY <1>0, <1>3, <2>1 DEF Maintenance, MemoryInv, Market, Mail
<1>4. CASE Crash
  BY <1>0, <1>4 DEF Crash, MemoryInv, Market, Mail
<1>5. CASE Start
  BY <1>0, <1>5 DEF Start, MemoryInv, Market, Mail
<1>6. CASE BrokerStep
  <2>1. /\ Market(now, expiry, stage, filled)' /\ Mail'
        /\ applied' = applied /\ file' = file /\ book' = book /\ up' = up
    BY <1>6, BrokerMarket
  <2> QED BY <1>0, <2>1 DEF MemoryInv
<1>7. CASE ClockAdvance
  <2>1. Market(now, expiry, stage, filled)'
    BY <1>0, <1>7, ExposureAssumption DEF ClockAdvance, Market
  <2> QED BY <1>0, <1>7, <2>1 DEF ClockAdvance, MemoryInv, Mail
<1>8. CASE UNCHANGED vars
  BY <1>0, <1>8 DEF vars, MemoryInv, Market, Mail
<1> QED BY <1>1, <1>2, <1>3, <1>4, <1>5, <1>6, <1>7, <1>8 DEF Next, BrokerStep

\* A report that was acknowledged before moves the position by nothing.
LEMMA ReplayHarmless ==
  ASSUME NEW p, NEW as, Kept(p, as), NEW r \in as, r.cum \in Nat, r.id \in Orders,
         r.sell \in BOOLEAN, r.terminal \in BOOLEAN,
         Acceptable(p, r), NEW t \in Nat, 1 <= t, t <= MaxTime + 1, RemembersAll,
         \A a \in as : a.cum \in Nat
  PROVE  expire_reservations(apply_fill_report(p, r, t), t).pos = p.pos
<1> DEFINE q == apply_fill_report(p, r, t)
<1>0. p \in Books /\ p.pos \in Int /\ Counted(p, r)
  BY BookIs DEF Kept
<1>1. q.pos = p.pos
  <2>1. CASE r.id \in DOMAIN p.closed
    <3>1. q.pos = p.pos + Signed(r.sell, r.cum - p.closed[r.id].cum)
      BY <1>0, <2>1, ReportClosed
    <3>2. p.closed[r.id].cum \in Int
      BY <1>0, <2>1, BookIs DEF Ended
    <3>3. r.cum = p.closed[r.id].cum
      BY <1>0, <2>1, <3>2 DEF Counted, Acceptable
    <3> HIDE DEF q
    <3> QED BY <1>0, <3>1, <3>2, <3>3 DEF Signed
  <2>2. CASE r.id \notin DOMAIN p.closed
    <3>1. r.id \in DOMAIN p.open /\ r.cum <= p.open[r.id].cum
      BY <1>0, <2>2 DEF Counted
    <3>2. Entry(p, r) = p.open[r.id] /\ p.open[r.id].cum \in Int
      BY <1>0, <3>1, BookIs DEF Entry, Entries
    <3>3. r.cum = Entry(p, r).cum
      BY <2>2, <3>1, <3>2 DEF Acceptable
    <3>4. q.pos = p.pos + Signed(r.sell, r.cum - Entry(p, r).cum)
      <4>1. CASE r.terminal = TRUE
        <5>1. t \in Int
          OBVIOUS
        <5> QED BY <1>0, <2>2, <4>1, <5>1, ReportFinal
      <4>2. CASE r.terminal = FALSE
        BY <1>0, <2>2, <4>2, ReportOpen
      <4> QED BY <4>1, <4>2
    <3> HIDE DEF q
    <3> QED BY <1>0, <3>2, <3>3, <3>4 DEF Signed
  <2> QED BY <2>1, <2>2
<1>2. Kept(q, as \cup {r})
  BY ReportKept
<1> HIDE DEF q
<1>3. Fewer(expire_reservations(q, t), q, Lapsed(q, t))
  BY <1>2, ExpireIs DEF Kept
<1> QED BY <1>1, <1>3 DEF Fewer, q

\* While the memory of closed orders lasts, the position moves only with a report that
\* is acknowledged for the first time, whatever is replayed, in whatever order, across
\* failed saves and restarts and without any bound on how late a report is.
THEOREM ReplaysIdempotent == RemembersAll => (Spec => DuplicatesIdempotent)
<1> SUFFICES ASSUME RemembersAll PROVE Spec => DuplicatesIdempotent
  OBVIOUS
<1>1. ASSUME MemoryInv, [Next]_vars, up, up', book'.pos # book.pos
      PROVE  applied' # applied
  <2>0. /\ now \in Nat /\ 1 <= now /\ now <= MaxTime + 1 /\ Kept(book, applied) /\ Mail
    BY <1>1 DEF MemoryInv, Market
  <2>a. book \in Books
    BY <2>0 DEF Kept
  <2>b. expire_reservations(book, now).pos = book.pos
    BY <2>0, ExpireIs DEF Kept, Fewer
  <2>1. ASSUME NEW o \in Orders, NEW end, NEW s, NEW s2, Approve(o, end, s, s2)
        PROVE  FALSE
    <3>1. Qty[o] \in Int /\ now + Ttl \in Int
      BY <2>0, ExposureAssumption
    <3>2. expire_reservations(book, now) \in Books
      BY <2>0, ExpireKept DEF Kept
    <3>3. Reserved(o).pos = book.pos /\ Reserved(o) \in Books
      BY <2>b, <3>1, <3>2, ReserveIs DEF Reserved, With
    <3>4. GivenBack(o).pos = book.pos
      BY <3>3, ReleaseIs DEF GivenBack, Fewer
    <3> QED BY <1>1, <2>1, <3>3, <3>4, ApproveIs
  <2>2. ASSUME NEW r \in reports, NEW s, ReportExecution(r, s), applied' = applied
        PROVE  FALSE
    <3>1. book' = AfterReport(r) /\ r \in applied /\ Acceptable(book, r)
      BY <1>1, <2>2, ReportIs
    <3>2. /\ r.id \in Orders /\ r.cum \in Nat /\ r.sell \in BOOLEAN /\ r.terminal \in BOOLEAN
          /\ \A a \in applied : a.cum \in Nat
      BY <2>0, <3>1, GenuineIs DEF Mail
    <3>3. AfterReport(r).pos = book.pos
      BY <1>1, <2>0, <3>1, <3>2, ReplayHarmless DEF AfterReport
    <3> QED BY <1>1, <3>1, <3>3
  <2>3. CASE Maintenance
    BY <1>1, <2>b, <2>3 DEF Maintenance
  <2>4. CASE Crash \/ Start \/ ClockAdvance \/ UNCHANGED vars
    BY <1>1, <2>4 DEF Crash, Start, ClockAdvance, vars
  <2>5. CASE BrokerStep
    BY <1>1, <2>5, BrokerMarket
  <2> QED BY <1>1, <2>1, <2>2, <2>3, <2>4, <2>5 DEF Next, BrokerStep
<1>2. MemoryInv /\ [Next]_vars => [(up /\ up' /\ book'.pos # book.pos) => applied' # applied]_vars
  BY <1>1
<1>3. Spec => []MemoryInv
  BY MemoryInit, MemoryStep, PTL DEF Spec
<1> QED BY <1>2, <1>3, PTL DEF Spec, DuplicatesIdempotent

-----------------------------------------------------------------------------
(* The interval of positions a portfolio allows for                        *)

\* What is known of an order is a quantity, and no more than may come to be filled.
Bounded(p) ==
  \A o \in Orders : Known(p, o) \in Nat /\ Most(p, o) \in Nat /\ Known(p, o) <= Most(p, o)

LEMMA ExactBounded ==
  ASSUME NEW p \in Books, NEW t, NEW ex, NEW st, NEW fl, Market(t, ex, st, fl), Exact(p, st, fl)
  PROVE  Bounded(p)
<1> SUFFICES ASSUME NEW o \in Orders
             PROVE  Known(p, o) \in Nat /\ Most(p, o) \in Nat /\ Known(p, o) <= Most(p, o)
  BY DEF Bounded
<1>1. fl[o] \in Nat /\ fl[o] <= Qty[o] /\ Qty[o] \in Nat
  BY ExposureAssumption DEF Market
<1>2. CASE o \in DOMAIN p.open
  <2>1. p.open[o].cum \in Int /\ 0 <= p.open[o].cum /\ p.open[o].cum <= fl[o]
    BY <1>2, BookIs DEF Exact, OpenExact, ClosedExact, Entries
  <2> QED BY <1>1, <1>2, <2>1 DEF Known, Most
<1>3. CASE o \notin DOMAIN p.open /\ o \in DOMAIN p.closed
  BY <1>1, <1>3 DEF Known, Most, Exact, OpenExact, ClosedExact
<1>4. CASE o \notin DOMAIN p.open /\ o \notin DOMAIN p.closed
  BY <1>4 DEF Known, Most
<1> QED BY <1>2, <1>3, <1>4

\* What each order adds are integers.
LEMMA TermsInt ==
  ASSUME NEW p, Bounded(p)
  PROVE  \A o \in Orders : /\ AsReported(p)[o] \in Int /\ Highest(p)[o] \in Int /\ Lowest(p)[o] \in Int
  BY DEF Bounded, AsReported, Highest, Lowest, Signed

\* So are the sums.
LEMMA SumsInt ==
  ASSUME NEW p, Bounded(p)
  PROVE  /\ Sum(AsReported(p), Orders) \in Int
         /\ Sum(Highest(p), Orders) \in Int /\ Sum(Lowest(p), Orders) \in Int
  BY TermsInt, SumInt, ExposureAssumption

\* Knowing more and allowing for less narrows the interval.
LEMMA Narrows ==
  ASSUME NEW p, NEW q, Bounded(p), Bounded(q),
         \A o \in Orders : Known(p, o) <= Known(q, o) /\ Most(q, o) <= Most(p, o)
  PROVE  /\ Sum(Highest(q), Orders) <= Sum(Highest(p), Orders)
         /\ Sum(Lowest(p), Orders) <= Sum(Lowest(q), Orders)
<1>1. \A o \in Orders : Highest(q)[o] <= Highest(p)[o] /\ Lowest(p)[o] <= Lowest(q)[o]
  BY DEF Bounded, Highest, Lowest
<1> QED BY <1>1, TermsInt, SumMonotone, ExposureAssumption

\* The limit is kept by a portfolio that knows more, allows for less and has the
\* position right.
LEMMA WithinNarrows ==
  ASSUME NEW p, NEW q, Bounded(p), Bounded(q), Within(p),
         \A o \in Orders : Known(p, o) <= Known(q, o) /\ Most(q, o) <= Most(p, o),
         q.pos = Sum(AsReported(q), Orders)
  PROVE  Within(q)
<1>1. /\ Sum(Highest(q), Orders) <= Sum(Highest(p), Orders)
      /\ Sum(Lowest(p), Orders) <= Sum(Lowest(q), Orders)
  BY Narrows
<1>2. /\ Sum(Highest(p), Orders) \in Int /\ Sum(Lowest(p), Orders) \in Int
      /\ Sum(Highest(q), Orders) \in Int /\ Sum(Lowest(q), Orders) \in Int
  BY SumsInt
<1> QED BY <1>1, <1>2, ExposureAssumption DEF Within

\* The position after one order is known better.
LEMMA PositionMoves ==
  ASSUME NEW p, NEW q, Bounded(p), Bounded(q), NEW i \in Orders,
         p.pos = Sum(AsReported(p), Orders),
         \A o \in Orders \ {i} : Known(q, o) = Known(p, o),
         q.pos = p.pos + Signed(i \in Sells, Known(q, i) - Known(p, i))
  PROVE  q.pos = Sum(AsReported(q), Orders)
<1> DEFINE f == AsReported(p)
           h == AsReported(q)
<1>1. \A o \in Orders \ {i} : h[o] = f[o]
  BY DEF AsReported
<1>2. \A o \in Orders : f[o] \in Int /\ h[o] \in Int
  BY TermsInt
<1>3. Sum(h, Orders) = Sum(f, Orders) - f[i] + h[i] /\ Sum(f, Orders) \in Int
  <2> HIDE DEF f, h
  <2> QED BY <1>1, <1>2, SumChange, SumInt, ExposureAssumption
<1>4. f[i] = Signed(i \in Sells, Known(p, i)) /\ h[i] = Signed(i \in Sells, Known(q, i))
  BY DEF AsReported
<1>5. Known(p, i) \in Nat /\ Known(q, i) \in Nat
  BY DEF Bounded
<1> HIDE DEF f, h
<1>6. p.pos + Signed(i \in Sells, Known(q, i) - Known(p, i)) = Sum(f, Orders) - f[i] + h[i]
  <2>1. CASE i \in Sells
    BY <1>3, <1>4, <1>5, <2>1 DEF Signed, f
  <2>2. CASE i \notin Sells
    BY <1>3, <1>4, <1>5, <2>2 DEF Signed, f
  <2> QED BY <2>1, <2>2
<1> QED BY <1>3, <1>6 DEF h

\* The open orders of a side, and what each has left.
OnSide(p, sell) == {o \in DOMAIN p.open : p.open[o].sell = sell}
Left(e) == MaxOf(e.qty - e.cum, 0)
Rest(p, sell) == [o \in OnSide(p, sell) |-> Left(p.open[o])]

\* pending is the sum of what the orders of a side have left.
LEMMA PendingIsSum ==
  ASSUME NEW p, NEW sell PROVE pending(p, sell) = Sum(Rest(p, sell), OnSide(p, sell))
<1> DEFINE f == Rest(p, sell)
           S == OnSide(p, sell)
           Tab(g) == g = [s \in SUBSET S |-> IF s = {} THEN 0
                                             ELSE Left(p.open[Pick(s)]) + g[s \ {Pick(s)}]]
<1>1. pending(p, sell) = (CHOOSE g : Tab(g))[S]
  BY DEF pending, MapThenSumSet, MapThenFoldSet, Pick, OnSide, Left
<1>2. \A s \in SUBSET S : s # {} => f[Pick(s)] = Left(p.open[Pick(s)])
  BY PickIn DEF Rest
<1>3. \A g : Tab(g) <=> Table(g, f, S)
  <2> SUFFICES ASSUME NEW g PROVE Tab(g) <=> Table(g, f, S)
    OBVIOUS
  <2> HIDE DEF f, S
  <2> QED BY <1>2 DEF Table
<1>4. (CHOOSE g : Tab(g)) = (CHOOSE g : Table(g, f, S))
  BY <1>3
<1>5. Sum(f, S) = (CHOOSE g : Table(g, f, S))[S]
  BY SumIsTable
<1> QED BY <1>1, <1>4, <1>5

\* What an order of a side may still fill, for every order.
Gap(p, sell) == [o \in Orders |-> IF (o \in Sells) = sell THEN Most(p, o) - Known(p, o) ELSE 0]

\* pending is what the orders of a side may still fill.
LEMMA PendingIsGap ==
  ASSUME NEW p \in Books, NEW t, NEW ex, NEW st, NEW fl, Market(t, ex, st, fl), Exact(p, st, fl),
         NEW sell \in BOOLEAN
  PROVE  pending(p, sell) = Sum(Gap(p, sell), Orders)
<1> DEFINE f == Rest(p, sell)
           g == Gap(p, sell)
           S == OnSide(p, sell)
<1>1. S \in SUBSET Orders
  BY BookIs DEF OnSide
<1>2. Bounded(p)
  BY ExactBounded
<1>3. ASSUME NEW o \in S PROVE f[o] = g[o]
  <2>1. o \in DOMAIN p.open /\ p.open[o].sell = sell /\ p.open[o].qty = Qty[o] /\ o \in Orders
        /\ (o \in Sells) = sell
    BY <1>1, <1>3 DEF OnSide, Exact, OpenExact, ClosedExact
  <2>2. Known(p, o) = p.open[o].cum /\ Most(p, o) = Qty[o]
    BY <2>1 DEF Known, Most
  <2>3. Left(p.open[o]) = Most(p, o) - Known(p, o)
    BY <1>2, <2>1, <2>2 DEF Left, MaxOf, Bounded
  <2>4. f[o] = Left(p.open[o]) /\ g[o] = Most(p, o) - Known(p, o)
    BY <1>3, <2>1 DEF Rest, Gap
  <2> QED BY <2>3, <2>4
<1>4. ASSUME NEW o \in Orders PROVE g[o] \in Int /\ (o \notin S => g[o] = 0)
  <2>1. g[o] \in Int
    BY <1>2 DEF Gap, Bounded
  <2>2. ASSUME o \notin S, (o \in Sells) = sell PROVE Most(p, o) = Known(p, o)
    <3>1. o \notin DOMAIN p.open
      BY <2>2 DEF OnSide, Exact, OpenExact, ClosedExact
    <3> QED BY <3>1 DEF Most
  <2>3. ASSUME o \notin S PROVE g[o] = 0
    BY <1>2, <2>2, <2>3 DEF Gap, Bounded
  <2> QED BY <2>1, <2>3
<1>5. Sum(f, S) = Sum(g, S)
  BY <1>3, SumSame
<1>6. Sum(g, Orders) = Sum(g, S)
  <2> HIDE DEF g, S
  <2> QED BY <1>1, <1>4, SumSupport, ExposureAssumption
<1> QED BY <1>5, <1>6, PendingIsSum

\* The ends of the interval are the position with everything pending on one side.
LEMMA EndsArePending ==
  ASSUME NEW p \in Books, NEW t, NEW ex, NEW st, NEW fl, Market(t, ex, st, fl), Exact(p, st, fl),
         p.pos = Sum(AsReported(p), Orders)
  PROVE  /\ Sum(Highest(p), Orders) = p.pos + pending(p, FALSE)
         /\ Sum(Lowest(p), Orders) = p.pos - pending(p, TRUE)
         /\ pending(p, FALSE) \in Int /\ pending(p, TRUE) \in Int
<1> DEFINE u == Gap(p, FALSE)
           d == Gap(p, TRUE)
           f == AsReported(p)
           h == Highest(p)
           l == Lowest(p)
<1>1. Bounded(p)
  BY ExactBounded
<1>2. pending(p, FALSE) = Sum(u, Orders) /\ pending(p, TRUE) = Sum(d, Orders)
  BY PendingIsGap
<1>3. \A o \in Orders : /\ u[o] \in Int /\ d[o] \in Int /\ f[o] \in Int /\ h[o] \in Int /\ l[o] \in Int
                        /\ h[o] = f[o] + u[o] /\ f[o] = l[o] + d[o]
  BY <1>1 DEF Gap, AsReported, Highest, Lowest, Signed, Bounded
<1> HIDE DEF u, d, f, h, l
<1>4. Sum(h, Orders) = Sum(f, Orders) + Sum(u, Orders) /\ Sum(f, Orders) = Sum(l, Orders) + Sum(d, Orders)
  BY <1>3, SumPlus, ExposureAssumption
<1>5. Sum(u, Orders) \in Int /\ Sum(d, Orders) \in Int /\ Sum(l, Orders) \in Int /\ Sum(f, Orders) \in Int
  BY <1>3, SumInt, ExposureAssumption
<1>6. p.pos = Sum(f, Orders)
  BY DEF f
<1> DEFINE y == pending(p, FALSE)
           z == pending(p, TRUE)
<1> HIDE DEF y, z
<1>7. y = Sum(u, Orders) /\ z = Sum(d, Orders)
  BY <1>2 DEF y, z
<1>8. Sum(h, Orders) = p.pos + y /\ Sum(l, Orders) = p.pos - z /\ y \in Int /\ z \in Int
  BY <1>4, <1>5, <1>6, <1>7
<1> QED BY <1>8 DEF h, l, y, z

\* C13 leaves room for the order it permits, on the side of the order.
LEMMA PermitsIs ==
  ASSUME NEW p \in Books, NEW t, NEW ex, NEW st, NEW fl, Market(t, ex, st, fl), Exact(p, st, fl),
         Within(p), NEW i \in Orders, PositionPermits(p, i \in Sells, Qty[i])
  PROVE  /\ i \notin Sells => Sum(Highest(p), Orders) + Qty[i] <= MaxPosition
         /\ i \in Sells => -MaxPosition <= Sum(Lowest(p), Orders) - Qty[i]
<1> DEFINE u == pending(p, FALSE)
           d == pending(p, TRUE)
           H == Sum(Highest(p), Orders)
           L == Sum(Lowest(p), Orders)
<1>1. H = p.pos + u /\ L = p.pos - d /\ u \in Int /\ d \in Int /\ p.pos \in Int
  BY EndsArePending, BookIs DEF Within
<1>2. Qty[i] \in Nat /\ MaxPosition \in Nat
  BY ExposureAssumption
<1>3. CASE i \notin Sells
  <2>1. MaxOf(Abs(p.pos + u + Qty[i]), Abs(p.pos - d - 0)) <= MaxPosition
    BY <1>3 DEF PositionPermits, worst_case_position
  <2> HIDE DEF u, d, H, L
  <2>2. H + Qty[i] <= MaxPosition
    BY <1>1, <1>2, <2>1 DEF MaxOf, Abs
  <2> QED BY <1>3, <2>2 DEF H
<1>4. CASE i \in Sells
  <2>1. MaxOf(Abs(p.pos + u + 0), Abs(p.pos - d - Qty[i])) <= MaxPosition
    BY <1>4 DEF PositionPermits, worst_case_position
  <2> HIDE DEF u, d, H, L
  <2>2. -MaxPosition <= L - Qty[i]
    BY <1>1, <1>2, <2>1 DEF MaxOf, Abs
  <2> QED BY <1>4, <2>2 DEF L
<1> QED BY <1>3, <1>4

-----------------------------------------------------------------------------
(* The portfolio stays sound                                               *)

\* Dropping reservations that nothing was filled of leaves a sound portfolio, except
\* for the orders that needed them.
LEMMA FewerSound ==
  ASSUME NEW p \in Books, NEW q, NEW X, Fewer(q, p, X),
         NEW t, NEW ex, NEW st, NEW fl, Market(t, ex, st, fl), Exact(p, st, fl), Within(p),
         \A o \in X : o \in DOMAIN p.open => ~p.open[o].submitted
  PROVE  Exact(q, st, fl) /\ Within(q) /\ \A o \in Orders : Known(q, o) = Known(p, o) /\ Most(q, o) <= Most(p, o)
<1>1. Exact(q, st, fl)
  BY DEF Exact, OpenExact, ClosedExact, Fewer
<1>2. Bounded(p) /\ Bounded(q)
  BY <1>1, ExactBounded DEF Fewer
<1>3. ASSUME NEW o \in Orders PROVE Known(q, o) = Known(p, o) /\ Most(q, o) <= Most(p, o)
  <2>1. CASE o \in DOMAIN q.open
    <3>1. o \in DOMAIN p.open /\ q.open[o] = p.open[o]
      BY <2>1 DEF Fewer
    <3>2. Known(q, o) = Known(p, o) /\ Most(q, o) = Most(p, o)
      BY <2>1, <3>1 DEF Known, Most
    <3> QED BY <1>2, <3>2 DEF Bounded
  <2>2. CASE o \notin DOMAIN q.open /\ o \in DOMAIN p.open
    <3>1. p.open[o].cum = 0 /\ o \notin DOMAIN q.closed
      BY <2>2 DEF Fewer, Exact, OpenExact, ClosedExact
    <3>2. Known(q, o) = 0 /\ Known(p, o) = 0 /\ Most(q, o) = 0
      BY <2>2, <3>1 DEF Known, Most
    <3> QED BY <1>2, <3>2 DEF Bounded
  <2>3. CASE o \notin DOMAIN q.open /\ o \notin DOMAIN p.open
    <3>1. Known(q, o) = Known(p, o) /\ Most(q, o) = Most(p, o)
      BY <2>3 DEF Known, Most, Fewer
    <3> QED BY <1>2, <3>1 DEF Bounded
  <2> QED BY <2>1, <2>2, <2>3
<1>4. q.pos = Sum(AsReported(q), Orders)
  <2>1. \A o \in Orders : AsReported(q)[o] = AsReported(p)[o]
    BY <1>3 DEF AsReported
  <2>2. Sum(AsReported(q), Orders) = Sum(AsReported(p), Orders)
    BY <2>1, SumSame
  <2> QED BY <2>2 DEF Within, Fewer
<1>5. \A o \in Orders : Known(p, o) <= Known(q, o) /\ Most(q, o) <= Most(p, o)
  BY <1>2, <1>3 DEF Bounded
<1>6. Within(q)
  BY <1>2, <1>4, <1>5, WithinNarrows
<1> QED BY <1>1, <1>3, <1>6

\* Expiry never drops the reservation of an order that the broker may have.
LEMMA ExpireSound ==
  ASSUME NEW p, NEW t, NEW ex, NEW st, NEW fl, NEW as, Market(t, ex, st, fl), Kept(p, as),
         Prompt(t, ex, st, as), Sound(p, t, ex, st, fl), RemembersAll
  PROVE  LET q == expire_reservations(p, t)
         IN  /\ q \in Books /\ Sound(q, t, ex, st, fl)
             /\ \A o \in Orders : Known(q, o) = Known(p, o) /\ Most(q, o) <= Most(p, o)
<1> DEFINE q == expire_reservations(p, t)
           X == Lapsed(p, t)
<1>0. t \in Nat /\ t <= MaxTime + 1 /\ p \in Books
  BY DEF Market, Kept
<1>1. Fewer(q, p, X)
  BY <1>0, ExpireIs DEF Kept
<1>2. \A o \in X : o \in DOMAIN p.open /\ ~p.open[o].submitted /\ p.open[o].exp < t
  BY DEF Lapsed
<1> HIDE DEF q, X
<1>3. /\ Exact(q, st, fl) /\ Within(q)
      /\ \A o \in Orders : Known(q, o) = Known(p, o) /\ Most(q, o) <= Most(p, o)
  BY <1>0, <1>1, <1>2, FewerSound DEF Sound
<1>4. Covers(q, t, ex, st)
  <2> SUFFICES ASSUME NEW o \in Orders, AtStake(o, t, ex, st)
               PROVE  \/ o \in DOMAIN q.closed
                      \/ o \in DOMAIN q.open /\ (q.open[o].submitted \/ q.open[o].exp = ex[o])
    BY DEF Covers
  <2>1. \/ o \in DOMAIN p.closed
        \/ o \in DOMAIN p.open /\ (p.open[o].submitted \/ p.open[o].exp = ex[o])
    BY DEF Sound, Covers
  <2>2. ASSUME o \in X PROVE o \in DOMAIN p.closed
    <3>1. o \in DOMAIN p.open /\ ~p.open[o].submitted /\ p.open[o].exp < t
      BY <1>2, <2>2
    <3>2. CASE \E r \in as : r.id = o
      BY <3>1, <3>2 DEF Kept, Counted
    <3>3. CASE ~\E r \in as : r.id = o
      <4>1. t <= ex[o]
        BY <3>3 DEF AtStake, Prompt
      <4>2. ex[o] \in Nat
        BY DEF Market
      <4> QED BY <1>0, <2>1, <3>1, <4>1, <4>2
    <3> QED BY <3>2, <3>3
  <2> QED BY <1>1, <2>1, <2>2 DEF Fewer
<1>5. q \in Books
  BY <1>1 DEF Fewer
<1> QED BY <1>3, <1>4, <1>5 DEF q, Sound

\* A reservation that C13 permitted keeps the interval within the limit: b is the
\* portfolio that C13 saw and p what expiry left of it.
LEMMA ReserveSound ==
  ASSUME NEW b \in Books, NEW p \in Books, NEW t, NEW ex, NEW st, NEW fl, Market(t, ex, st, fl),
         Exact(b, st, fl), Within(b), Sound(p, t, ex, st, fl),
         \A o \in Orders : Known(p, o) = Known(b, o) /\ Most(p, o) <= Most(b, o),
         NEW i \in Orders, st[i] = "new", PositionPermits(b, i \in Sells, Qty[i]), NEW x \in Nat
  PROVE  LET q == reserve(p, i, i \in Sells, Qty[i], x)
             g == release_unsubmitted(q, i)
         IN  /\ Sound(q, t, ex, st, fl) /\ Sound(g, t, ex, st, fl)
             /\ Sound(q, t, [ex EXCEPT ![i] = x], [st EXCEPT ![i] = "attested"], fl)
<1> DEFINE q == reserve(p, i, i \in Sells, Qty[i], x)
           g == release_unsubmitted(q, i)
           e == Reservation(i, Qty[i], x)
           ex2 == [ex EXCEPT ![i] = x]
           st2 == [st EXCEPT ![i] = "attested"]
<1>0. Qty[i] \in Nat /\ MaxPosition \in Nat /\ IsFiniteSet(Orders) /\ fl[i] = 0
  BY ExposureAssumption DEF Market
<1>1. With(q, p, i, e) /\ q.pos = p.pos
  <2>1. Qty[i] \in Int /\ x \in Int
    BY <1>0
  <2> QED BY <2>1, ReserveIs
<1> DEFINE X == {o \in {i} \cap DOMAIN q.open : ~q.open[o].submitted}
<1>2. Fewer(g, q, X)
  BY <1>1, ReleaseIs DEF With
<1>3. e.sell = (i \in Sells) /\ e.qty = Qty[i] /\ e.cum = 0 /\ ~e.submitted /\ e.exp = x
  BY DEF Reservation
<1>4. X = {i}
  BY <1>1, <1>3 DEF With
<1> HIDE DEF q, e
<1>5. i \notin DOMAIN p.closed
  BY DEF Sound, Exact, OpenExact, ClosedExact
<1>6. Exact(q, st, fl) /\ Exact(q, st2, fl)
  <2>1. ASSUME NEW o \in DOMAIN q.open PROVE OpenExact(q, o, fl)
    <3>1. CASE o = i
      BY <1>0, <1>1, <1>3, <1>5, <3>1 DEF With, OpenExact
    <3>2. CASE o # i
      <4>1. OpenExact(p, o, fl) /\ q.open[o] = p.open[o] /\ q.closed = p.closed
        BY <1>1, <2>1, <3>2 DEF With, Sound, Exact
      <4> QED BY <4>1 DEF OpenExact
    <3> QED BY <3>1, <3>2
  <2>2. ASSUME NEW o \in DOMAIN q.closed
        PROVE  ClosedExact(q, o, st, fl) /\ ClosedExact(q, o, st2, fl)
    <3>1. ClosedExact(p, o, st, fl) /\ q.closed[o] = p.closed[o] /\ o \in Orders
      BY <1>1, <2>2, BookIs DEF With, Sound, Exact
    <3>2. st2[o] = st[o]
      BY <3>1 DEF ClosedExact, Market
    <3> HIDE DEF st2
    <3> QED BY <3>1, <3>2 DEF ClosedExact
  <2> HIDE DEF st2
  <2> QED BY <2>1, <2>2 DEF Exact
<1>7. q \in Books /\ Bounded(q) /\ Bounded(p) /\ Bounded(b)
  BY <1>1, <1>6, ExactBounded DEF With, Sound
<1>8. /\ \A o \in Orders \ {i} : Known(q, o) = Known(p, o) /\ Most(q, o) = Most(p, o)
      /\ Known(q, i) = 0 /\ Known(p, i) = 0 /\ Most(q, i) = Qty[i]
  <2>1. ASSUME NEW o \in Orders \ {i} PROVE Known(q, o) = Known(p, o) /\ Most(q, o) = Most(p, o)
    BY <1>1, <2>1 DEF With, Known, Most
  <2>2. Known(q, i) = 0 /\ Most(q, i) = Qty[i]
    BY <1>1, <1>3 DEF With, Known, Most
  <2>3. Known(p, i) = 0
    <3>1. CASE i \in DOMAIN p.open
      <4>1. p.open[i].cum \in Int /\ 0 <= p.open[i].cum /\ p.open[i].cum <= 0
        BY <1>0, <3>1, BookIs DEF Sound, Exact, OpenExact, ClosedExact, Entries
      <4> QED BY <3>1, <4>1 DEF Known
    <3>2. CASE i \notin DOMAIN p.open
      BY <1>5, <3>2 DEF Known
    <3> QED BY <3>1, <3>2
  <2> QED BY <2>1, <2>2, <2>3
<1>9. q.pos = Sum(AsReported(q), Orders)
  <2>1. \A o \in Orders : AsReported(q)[o] = AsReported(p)[o]
    BY <1>8 DEF AsReported
  <2>2. Sum(AsReported(q), Orders) = Sum(AsReported(p), Orders)
    BY <2>1, SumSame
  <2> QED BY <1>1, <2>2 DEF Within, Sound
<1>10. /\ Sum(Highest(p), Orders) <= Sum(Highest(b), Orders)
       /\ Sum(Lowest(b), Orders) <= Sum(Lowest(p), Orders)
  <2>1. \A o \in Orders : Known(b, o) <= Known(p, o) /\ Most(p, o) <= Most(b, o)
    BY <1>7 DEF Bounded
  <2> QED BY <1>7, <2>1, Narrows
<1>11. /\ i \notin Sells => Sum(Highest(b), Orders) + Qty[i] <= MaxPosition
       /\ i \in Sells => -MaxPosition <= Sum(Lowest(b), Orders) - Qty[i]
  BY PermitsIs
<1>12. /\ Sum(Highest(q), Orders) = Sum(Highest(p), Orders) - Highest(p)[i] + Highest(q)[i]
       /\ Sum(Lowest(q), Orders) = Sum(Lowest(p), Orders) - Lowest(p)[i] + Lowest(q)[i]
  <2>1. \A o \in Orders \ {i} : Highest(q)[o] = Highest(p)[o] /\ Lowest(q)[o] = Lowest(p)[o]
    BY <1>8 DEF Highest, Lowest
  <2>2. \A o \in Orders : /\ Highest(p)[o] \in Int /\ Highest(q)[o] \in Int
                          /\ Lowest(p)[o] \in Int /\ Lowest(q)[o] \in Int
    BY <1>7, TermsInt
  <2> QED BY <1>0, <2>1, <2>2, SumChange
<1>13. /\ Sum(Highest(p), Orders) \in Int /\ Sum(Lowest(p), Orders) \in Int
       /\ Sum(Highest(b), Orders) \in Int /\ Sum(Lowest(b), Orders) \in Int
  BY <1>7, SumsInt
<1>14. Sum(Highest(p), Orders) <= MaxPosition /\ -MaxPosition <= Sum(Lowest(p), Orders)
  BY DEF Sound, Within
<1>15. Most(p, i) \in Nat
  BY <1>7 DEF Bounded
<1>16. Within(q)
  <2>1. CASE i \in Sells
    <3>1. Highest(p)[i] = Highest(q)[i] /\ Highest(q)[i] \in Int
      <4>1. Highest(p)[i] = -Known(p, i) /\ Highest(q)[i] = -Known(q, i)
        BY <2>1 DEF Highest
      <4> QED BY <1>7, <1>8, <4>1, TermsInt
    <3>2. Lowest(p)[i] = -Most(p, i) /\ Lowest(q)[i] = -Qty[i]
      BY <1>8, <2>1 DEF Lowest
    <3> QED BY <1>0, <1>9, <1>10, <1>11, <1>12, <1>13, <1>14, <1>15, <2>1, <3>1, <3>2 DEF Within
  <2>2. CASE i \notin Sells
    <3>1. Lowest(p)[i] = 0 /\ Lowest(q)[i] = 0 /\ Highest(p)[i] = Most(p, i) /\ Highest(q)[i] = Qty[i]
      BY <1>8, <2>2 DEF Highest, Lowest
    <3> QED BY <1>0, <1>9, <1>10, <1>11, <1>12, <1>13, <1>14, <1>15, <2>2, <3>1 DEF Within
  <2> QED BY <2>1, <2>2
<1>17. Covers(q, t, ex, st) /\ Covers(q, t, ex2, st2)
  <2>1. \A o \in Orders \ {i} : AtStake(o, t, ex2, st2) => AtStake(o, t, ex, st) /\ ex2[o] = ex[o]
    BY DEF AtStake, Market
  <2>2. ~AtStake(i, t, ex, st) /\ ex2[i] = x
    BY DEF AtStake, Market
  <2>3. i \in DOMAIN q.open /\ q.open[i].exp = x
    BY <1>1, <1>3 DEF With
  <2> HIDE DEF ex2, st2
  <2>4. ASSUME NEW o \in Orders \ {i}, AtStake(o, t, ex, st)
        PROVE  \/ o \in DOMAIN q.closed
               \/ o \in DOMAIN q.open /\ (q.open[o].submitted \/ q.open[o].exp = ex[o])
    BY <1>1, <2>4 DEF With, Sound, Covers
  <2> QED BY <2>1, <2>2, <2>3, <2>4 DEF Covers
<1>18. Exact(g, st, fl) /\ Within(g)
  <2>1. \A o \in X : o \in DOMAIN q.open => ~q.open[o].submitted
    OBVIOUS
  <2> HIDE DEF X, g
  <2> QED BY <1>2, <1>6, <1>7, <1>16, <2>1, FewerSound
<1>19. Covers(g, t, ex, st)
  <2>1. ~AtStake(i, t, ex, st)
    BY DEF AtStake
  <2> HIDE DEF X, g
  <2> QED BY <1>2, <1>4, <1>17, <2>1 DEF Covers, Fewer
<1> HIDE DEF g, st2, ex2
<1>20. Sound(q, t, ex, st, fl) /\ Sound(g, t, ex, st, fl) /\ Sound(q, t, ex2, st2, fl)
  BY <1>6, <1>16, <1>17, <1>18, <1>19 DEF Sound
<1> QED BY <1>20 DEF q, g, ex2, st2

\* A report makes the portfolio know one order better and allow for no more of it.
LEMMA ReportSound ==
  ASSUME NEW p, NEW r, NEW t, NEW ex, NEW st, NEW fl, NEW as, Market(t, ex, st, fl), Kept(p, as),
         Sound(p, t, ex, st, fl), Genuine(r, st, fl), Acceptable(p, r), RemembersAll
  PROVE  Sound(apply_fill_report(p, r, t), t, ex, st, fl)
<1> DEFINE q == apply_fill_report(p, r, t)
           i == r.id
<1>0. /\ p \in Books /\ p.pos \in Int /\ t \in Nat /\ t \in Int
      /\ i \in Orders /\ r.cum \in Nat /\ r.sell \in BOOLEAN /\ r.terminal \in BOOLEAN
  BY GenuineIs, BookIs DEF Kept, Market
<1>a. r.sell = (i \in Sells) /\ r.cum <= fl[i] /\ st[i] \in {"live", "over"}
  BY DEF Genuine
<1>b. fl[i] \in Nat /\ Qty[i] \in Nat /\ fl[i] <= Qty[i]
  BY <1>0, ExposureAssumption DEF Market
<1>c. Exact(p, st, fl) /\ Within(p) /\ Covers(p, t, ex, st) /\ Bounded(p)
  BY <1>0, ExactBounded DEF Sound
<1>1. ASSUME /\ q \in Books /\ Exact(q, st, fl) /\ Covers(q, t, ex, st)
             /\ \A o \in Orders \ {i} : Known(q, o) = Known(p, o) /\ Most(q, o) = Most(p, o)
             /\ Known(p, i) <= Known(q, i) /\ Most(q, i) <= Most(p, i)
             /\ q.pos = p.pos + Signed(i \in Sells, Known(q, i) - Known(p, i))
      PROVE  Sound(q, t, ex, st, fl)
  <2> HIDE DEF q, i
  <2>1. Bounded(q)
    BY <1>1, ExactBounded
  <2>2. q.pos = Sum(AsReported(q), Orders)
    BY <1>0, <1>c, <1>1, <2>1, PositionMoves DEF Within
  <2>3. \A o \in Orders : Known(p, o) <= Known(q, o) /\ Most(q, o) <= Most(p, o)
    <3> SUFFICES ASSUME NEW o \in Orders PROVE Known(p, o) <= Known(q, o) /\ Most(q, o) <= Most(p, o)
      OBVIOUS
    <3>1. CASE o = i
      BY <1>1, <3>1
    <3>2. CASE o # i
      BY <1>c, <1>1, <3>2 DEF Bounded
    <3> QED BY <3>1, <3>2
  <2>4. Within(q)
    BY <1>c, <2>1, <2>2, <2>3, WithinNarrows
  <2> QED BY <1>1, <2>4 DEF Sound
<1>2. CASE i \in DOMAIN p.closed
  <2>1. Updates(q, p, r) /\ q.pos = p.pos + Signed(r.sell, r.cum - p.closed[i].cum)
    BY <1>0, <1>2, ReportClosed
  <2>2. ClosedExact(p, i, st, fl) /\ i \notin DOMAIN p.open
    BY <1>2, <1>c DEF Exact, OpenExact
  <2>3. r.cum = fl[i] /\ p.closed[i].cum = fl[i]
    BY <1>2, <1>a, <1>b, <1>0, <2>2 DEF Acceptable, ClosedExact
  <2>4. q.closed[i] = p.closed[i]
    <3>1. p.closed[i] \in Ended
      BY <1>0, <1>2, BookIs
    <3>2. q.closed[i] = [p.closed[i] EXCEPT !.cum = p.closed[i].cum]
      BY <2>1, <2>3 DEF Updates
    <3> HIDE DEF q, i
    <3> QED BY <3>1, <3>2 DEF Ended
  <2> HIDE DEF q
  <2>5. /\ q \in Books /\ q.open = p.open /\ DOMAIN q.closed = DOMAIN p.closed
        /\ \A o \in DOMAIN q.closed : q.closed[o] = p.closed[o]
    BY <2>1, <2>4 DEF Updates
  <2>6. \A o : Known(q, o) = Known(p, o) /\ Most(q, o) = Most(p, o)
    BY <2>5 DEF Known, Most
  <2>7. Exact(q, st, fl)
    BY <1>c, <2>5 DEF Exact, OpenExact, ClosedExact
  <2>8. Covers(q, t, ex, st)
    BY <1>c, <2>5 DEF Covers
  <2>9. Known(p, i) \in Nat /\ Most(p, i) \in Nat
    BY <1>0, <1>c DEF Bounded
  <2>10. q.pos = p.pos + Signed(i \in Sells, Known(q, i) - Known(p, i))
    <3>1. r.cum - p.closed[i].cum = Known(q, i) - Known(p, i)
      BY <1>b, <2>3, <2>6, <2>9
    <3> QED BY <1>a, <2>1, <3>1
  <2>11. Known(p, i) <= Known(q, i) /\ Most(q, i) <= Most(p, i)
    BY <2>6, <2>9
  <2>12. Sound(q, t, ex, st, fl)
    BY <1>1, <2>5, <2>6, <2>7, <2>8, <2>10, <2>11
  <2> QED BY <2>12 DEF q
<1>3. ASSUME i \notin DOMAIN p.closed
      PROVE  /\ i \in DOMAIN p.open /\ Entry(p, r) = p.open[i] /\ OpenExact(p, i, fl)
             /\ p.open[i] \in Entries /\ p.open[i].cum <= r.cum
             /\ Known(p, i) = p.open[i].cum /\ Most(p, i) = Qty[i]
  <2>1. i \in DOMAIN p.open
    BY <1>0, <1>a, <1>c, <1>3 DEF Covers, AtStake
  <2>2. Entry(p, r) = p.open[i]
    BY <2>1 DEF Entry
  <2>3. p.open[i] \in Entries /\ p.open[i].cum \in Int
    BY <1>0, <2>1, BookIs DEF Entries
  <2>4. p.open[i].cum <= r.cum
    BY <1>0, <1>3, <2>2, <2>3 DEF Acceptable
  <2>5. OpenExact(p, i, fl)
    BY <1>c, <2>1 DEF Exact
  <2> QED BY <2>1, <2>2, <2>3, <2>4, <2>5 DEF Known, Most
<1>4. CASE i \notin DOMAIN p.closed /\ r.terminal = FALSE
  <2> DEFINE e == p.open[i]
             f == Reported(p, r)
  <2>1. With(q, p, i, f) /\ f \in Entries /\ q.pos = p.pos + Signed(r.sell, r.cum - e.cum)
    BY <1>0, <1>3, <1>4, ReportOpen
  <2>2. i \in DOMAIN p.open /\ OpenExact(p, i, fl) /\ e \in Entries /\ e.cum <= r.cum
    BY <1>3, <1>4
  <2>3. f = [e EXCEPT !.cum = r.cum, !.qty = MaxOf(e.qty, r.cum), !.submitted = TRUE]
    BY <1>3, <1>4 DEF Reported
  <2>4. MaxOf(e.qty, r.cum) = Qty[i]
    BY <1>0, <1>a, <1>b, <2>2 DEF OpenExact, MaxOf
  <2>5. f.sell = e.sell /\ f.qty = Qty[i] /\ f.cum = r.cum /\ f.submitted = TRUE
    <3> HIDE DEF f, e, i
    <3> QED BY <2>2, <2>3, <2>4 DEF Entries
  <2> HIDE DEF q, f, i
  <2>6. Exact(q, st, fl)
    <3>1. ASSUME NEW o \in DOMAIN q.open PROVE OpenExact(q, o, fl)
      <4>1. CASE o = i
        <5>1. q.open[i] = f /\ i \notin DOMAIN q.closed
          BY <1>4, <2>1 DEF With
        <5>2. f.sell = (i \in Sells)
          BY <2>2, <2>5 DEF OpenExact
        <5> QED BY <1>0, <1>a, <2>5, <4>1, <5>1, <5>2 DEF OpenExact
      <4>2. CASE o # i
        <5>1. OpenExact(p, o, fl) /\ q.open[o] = p.open[o] /\ q.closed = p.closed
          BY <1>c, <2>1, <3>1, <4>2 DEF With, Exact
        <5> QED BY <5>1 DEF OpenExact
      <4> QED BY <4>1, <4>2
    <3>2. ASSUME NEW o \in DOMAIN q.closed PROVE ClosedExact(q, o, st, fl)
      <4>1. q.closed = p.closed /\ ClosedExact(p, o, st, fl)
        BY <1>c, <2>1, <3>2 DEF With, Exact
      <4> QED BY <4>1 DEF ClosedExact
    <3> QED BY <3>1, <3>2 DEF Exact
  <2>7. Covers(q, t, ex, st)
    <3> SUFFICES ASSUME NEW o \in Orders, AtStake(o, t, ex, st)
                 PROVE  \/ o \in DOMAIN q.closed
                        \/ o \in DOMAIN q.open /\ (q.open[o].submitted \/ q.open[o].exp = ex[o])
      BY DEF Covers
    <3>1. CASE o = i
      BY <2>1, <2>5, <3>1 DEF With
    <3>2. CASE o # i
      BY <1>c, <2>1, <3>2 DEF With, Covers
    <3> QED BY <3>1, <3>2
  <2>8. \A o \in Orders \ {i} : Known(q, o) = Known(p, o) /\ Most(q, o) = Most(p, o)
    BY <2>1 DEF With, Known, Most
  <2>9. Known(q, i) = r.cum /\ Most(q, i) = Qty[i]
    BY <2>1, <2>5 DEF With, Known, Most
  <2>10. q \in Books
    BY <2>1 DEF With
  <2>11. Known(p, i) = e.cum /\ Most(p, i) = Qty[i]
    BY <1>3, <1>4
  <2>12. Most(q, i) <= Most(p, i) /\ Known(p, i) <= Known(q, i)
    BY <1>b, <2>2, <2>9, <2>11
  <2>13. q.pos = p.pos + Signed(i \in Sells, Known(q, i) - Known(p, i))
    BY <1>a, <2>1, <2>9, <2>11
  <2>14. Sound(q, t, ex, st, fl)
    BY <1>1, <2>6, <2>7, <2>8, <2>10, <2>12, <2>13
  <2> QED BY <2>14 DEF q
<1>5. CASE i \notin DOMAIN p.closed /\ r.terminal = TRUE
  <2> DEFINE e == p.open[i]
  <2>1. Closes(q, p, r, t) /\ q.pos = p.pos + Signed(r.sell, r.cum - e.cum)
    BY <1>0, <1>3, <1>5, ReportFinal
  <2>2. i \in DOMAIN p.open /\ OpenExact(p, i, fl) /\ e \in Entries /\ e.cum <= r.cum
    BY <1>3, <1>5
  <2>3. st[i] = "over" /\ r.cum = fl[i]
    BY <1>5 DEF Genuine
  <2> HIDE DEF q
  <2>4. q.closed[i].sell = r.sell /\ q.closed[i].cum = r.cum
    BY <2>1 DEF Closes, Final
  <2>5. /\ q \in Books /\ DOMAIN q.open = DOMAIN p.open \ {i}
        /\ \A o \in DOMAIN q.open : q.open[o] = p.open[o]
        /\ DOMAIN q.closed = DOMAIN p.closed \cup {i}
        /\ \A o \in DOMAIN p.closed \ {i} : q.closed[o] = p.closed[o]
    BY <2>1 DEF Closes
  <2> HIDE DEF i
  <2>6. Exact(q, st, fl)
    <3>1. ASSUME NEW o \in DOMAIN q.open PROVE OpenExact(q, o, fl)
      <4>1. OpenExact(p, o, fl) /\ q.open[o] = p.open[o] /\ o \notin DOMAIN q.closed
        BY <1>c, <2>5, <3>1 DEF Exact, OpenExact
      <4> QED BY <4>1 DEF OpenExact
    <3>2. ASSUME NEW o \in DOMAIN q.closed PROVE ClosedExact(q, o, st, fl)
      <4>1. CASE o = i
        BY <1>a, <2>3, <2>4, <4>1 DEF ClosedExact
      <4>2. CASE o # i
        <5>1. ClosedExact(p, o, st, fl) /\ q.closed[o] = p.closed[o]
          BY <1>c, <2>5, <3>2, <4>2 DEF Exact
        <5> QED BY <5>1 DEF ClosedExact
      <4> QED BY <4>1, <4>2
    <3> QED BY <3>1, <3>2 DEF Exact
  <2>7. Covers(q, t, ex, st)
    <3> SUFFICES ASSUME NEW o \in Orders, AtStake(o, t, ex, st)
                 PROVE  \/ o \in DOMAIN q.closed
                        \/ o \in DOMAIN q.open /\ (q.open[o].submitted \/ q.open[o].exp = ex[o])
      BY DEF Covers
    <3>1. CASE o = i
      BY <2>5, <3>1
    <3>2. CASE o # i
      BY <1>c, <2>5, <3>2 DEF Covers
    <3> QED BY <3>1, <3>2
  <2>8. \A o \in Orders \ {i} : Known(q, o) = Known(p, o) /\ Most(q, o) = Most(p, o)
    BY <2>5 DEF Known, Most
  <2>9. Known(q, i) = r.cum /\ Most(q, i) = r.cum
    BY <2>4, <2>5 DEF Known, Most
  <2>10. Known(p, i) = e.cum /\ Most(p, i) = Qty[i]
    BY <1>3, <1>5
  <2>11. Most(q, i) <= Most(p, i) /\ Known(p, i) <= Known(q, i)
    BY <1>b, <2>2, <2>3, <2>9, <2>10
  <2>12. q.pos = p.pos + Signed(i \in Sells, Known(q, i) - Known(p, i))
    BY <1>a, <2>1, <2>9, <2>10
  <2>13. Sound(q, t, ex, st, fl)
    BY <1>1, <2>5, <2>6, <2>7, <2>8, <2>11, <2>12
  <2> QED BY <2>13 DEF q
<1> QED BY <1>0, <1>2, <1>4, <1>5

\* Fills and the clock do not make a sound portfolio unsound, as long as no more orders
\* are at stake.
LEMMA MarketSound ==
  ASSUME NEW p \in Books, NEW t, NEW ex, NEW st, NEW fl, NEW t2, NEW st2, NEW fl2,
         Sound(p, t, ex, st, fl), Market(t, ex, st, fl), Market(t2, ex, st2, fl2),
         \A o \in Orders : /\ fl[o] <= fl2[o]
                           /\ st[o] = "over" => st2[o] = "over" /\ fl2[o] = fl[o]
                           /\ AtStake(o, t2, ex, st2) => AtStake(o, t, ex, st)
  PROVE  Sound(p, t2, ex, st2, fl2)
<1>0. DOMAIN p.open \subseteq Orders /\ DOMAIN p.closed \subseteq Orders
  BY BookIs
<1>1. ASSUME NEW o \in DOMAIN p.open PROVE OpenExact(p, o, fl2)
  <2>1. OpenExact(p, o, fl) /\ p.open[o].cum \in Int /\ fl[o] \in Nat /\ fl2[o] \in Nat /\ fl[o] <= fl2[o]
    BY <1>0, <1>1, BookIs DEF Sound, Exact, Entries, Market
  <2> QED BY <2>1 DEF OpenExact
<1>2. ASSUME NEW o \in DOMAIN p.closed PROVE ClosedExact(p, o, st2, fl2)
  <2>1. ClosedExact(p, o, st, fl)
    BY <1>2 DEF Sound, Exact
  <2> QED BY <1>0, <1>2, <2>1 DEF ClosedExact
<1>3. Covers(p, t2, ex, st2)
  BY DEF Sound, Covers
<1> QED BY <1>1, <1>2, <1>3 DEF Sound, Exact

-----------------------------------------------------------------------------
(* The position at the broker                                              *)

\* Initially there is no position.
LEMMA PositionInit == Init => PositionInv
<1> SUFFICES ASSUME Init PROVE PositionInv
  OBVIOUS
<1>1. Prompt(now, expiry, stage, applied)
  BY DEF Init, Prompt
<1> DEFINE p == EmptyPortfolio
<1>2. DOMAIN p.open = {} /\ DOMAIN p.closed = {} /\ p.pos = 0
  BY DEF EmptyPortfolio
<1> HIDE DEF p
<1>3. Exact(p, stage, filled)
  BY <1>2 DEF Exact
<1>4. Covers(p, now, expiry, stage)
  BY DEF Init, Covers, AtStake
<1>5. Within(p)
  <2>1. \A o \in Orders : Known(p, o) = 0 /\ Most(p, o) = 0
    BY <1>2 DEF Known, Most
  <2> DEFINE z == [o \in Orders |-> 0]
  <2>2. \A n \in Nat : n <= 0 => -n = 0
    OBVIOUS
  <2>3. \A o \in Orders : AsReported(p)[o] = z[o] /\ Highest(p)[o] = z[o] /\ Lowest(p)[o] = z[o]
    BY <2>1, <2>2 DEF AsReported, Highest, Lowest, Signed
  <2>4. Sum(z, Orders) = Sum(z, {}) /\ Sum(z, {}) = 0
    BY SumSupport, SumEmpty, ExposureAssumption
  <2> HIDE DEF z
  <2>5. Sum(AsReported(p), Orders) = 0 /\ Sum(Highest(p), Orders) = 0 /\ Sum(Lowest(p), Orders) = 0
    BY <2>3, <2>4, SumSame
  <2> QED BY <1>2, <2>5, ExposureAssumption DEF Within
<1> QED BY <1>1, <1>3, <1>4, <1>5 DEF Init, PositionInv, Sound, p

\* The step of the invariant, for orders whose first report comes in time.
LEMMA PositionStep ==
  Timely /\ RemembersAll /\ MemoryInv /\ MemoryInv' /\ PositionInv /\ [Next]_vars => PositionInv'
<1> SUFFICES ASSUME Timely, RemembersAll, MemoryInv, MemoryInv', PositionInv, [Next]_vars
             PROVE  PositionInv'
  OBVIOUS
<1>0. /\ Market(now, expiry, stage, filled) /\ Market(now, expiry, stage, filled)'
      /\ Mail /\ Kept(file, applied) /\ (up => Kept(book, applied)) /\ file \in Books
      /\ (up => book \in Books)
      /\ Prompt(now, expiry, stage, applied) /\ Sound(file, now, expiry, stage, filled)
      /\ (up => Sound(book, now, expiry, stage, filled))
  BY DEF MemoryInv, PositionInv, Kept
<1>1. ASSUME NEW o \in Orders, NEW end, NEW s, NEW s2, Approve(o, end, s, s2)
      PROVE  PositionInv'
  <2>1. /\ up /\ up' = up /\ stage[o] = "new" /\ PositionPermits(book, o \in Sells, Qty[o])
        /\ now' = now /\ filled' = filled /\ applied' = applied
        /\ book' \in {book, Reserved(o), GivenBack(o)}
        /\ file' \in {file, Reserved(o), GivenBack(o)}
        /\ \/ expiry' = expiry /\ stage' = stage
           \/ /\ book' = Reserved(o) /\ file' = Reserved(o)
              /\ expiry' = [expiry EXCEPT ![o] = now + Ttl]
              /\ stage' = [stage EXCEPT ![o] = "attested"]
    BY <1>1, ApproveIs
  <2> DEFINE e == expire_reservations(book, now)
  <2>2. /\ e \in Books /\ Sound(e, now, expiry, stage, filled)
        /\ \A i \in Orders : Known(e, i) = Known(book, i) /\ Most(e, i) <= Most(book, i)
    BY <1>0, <2>1, ExpireSound
  <2>3. now + Ttl \in Nat /\ book \in Books /\ Exact(book, stage, filled) /\ Within(book)
    BY <1>0, <2>1, ExposureAssumption DEF Market, Sound
  <2> HIDE DEF e
  <2>4. /\ Sound(Reserved(o), now, expiry, stage, filled)
        /\ Sound(GivenBack(o), now, expiry, stage, filled)
        /\ Sound(Reserved(o), now, [expiry EXCEPT ![o] = now + Ttl],
                 [stage EXCEPT ![o] = "attested"], filled)
    BY <1>0, <2>1, <2>2, <2>3, ReserveSound DEF Reserved, GivenBack, e
  <2>5. CASE expiry' = expiry /\ stage' = stage
    BY <1>0, <2>1, <2>4, <2>5 DEF PositionInv
  <2>6. CASE /\ book' = Reserved(o) /\ file' = Reserved(o)
             /\ expiry' = [expiry EXCEPT ![o] = now + Ttl]
             /\ stage' = [stage EXCEPT ![o] = "attested"]
    <3>1. Prompt(now, expiry', stage', applied)
      BY <1>0, <2>6 DEF Prompt, Market
    <3>2. Sound(file', now, expiry', stage', filled) /\ Sound(book', now, expiry', stage', filled)
      BY <2>4, <2>6
    <3> QED BY <2>1, <3>1, <3>2 DEF PositionInv
  <2> QED BY <2>1, <2>5, <2>6
<1>2. ASSUME NEW r \in reports, NEW s, ReportExecution(r, s)
      PROVE  PositionInv'
  <2>1. /\ up /\ up' = up /\ Acceptable(book, r)
        /\ now' = now /\ expiry' = expiry /\ stage' = stage /\ filled' = filled
        /\ \/ book' = AfterReport(r) /\ file' = AfterReport(r) /\ applied' = applied \cup {r}
           \/ book' = book /\ file' \in {file, AfterReport(r)} /\ applied' = applied
    BY <1>2, ReportIs
  <2> DEFINE q == apply_fill_report(book, r, now)
  <2>2. Genuine(r, stage, filled) /\ \A a \in applied : Genuine(a, stage, filled)
    BY <1>0, <1>2 DEF Mail
  <2>3. Sound(q, now, expiry, stage, filled)
    BY <1>0, <2>1, <2>2, ReportSound
  <2>4. Kept(q, applied \cup {r})
    <3>1. /\ r.id \in Orders /\ r.cum \in Nat /\ r.sell \in BOOLEAN /\ r.terminal \in BOOLEAN
          /\ \A a \in applied : a.cum \in Nat
      BY <2>2, GenuineIs
    <3>2. now \in Nat /\ 1 <= now
      BY <1>0 DEF Market
    <3> QED BY <1>0, <2>1, <3>1, <3>2, ReportKept
  <2> HIDE DEF q
  <2>5. Kept(q, applied) /\ Prompt(now, expiry, stage, applied \cup {r})
    BY <1>0, <2>4 DEF Kept, Prompt
  <2>6. Sound(AfterReport(r), now, expiry, stage, filled)
    <3>1. Sound(expire_reservations(q, now), now, expiry, stage, filled)
      BY <1>0, <2>3, <2>5, ExpireSound
    <3> QED BY <3>1 DEF AfterReport, q
  <2> QED BY <1>0, <2>1, <2>5, <2>6 DEF PositionInv
<1>3. CASE Maintenance
  <2>1. Sound(expire_reservations(book, now), now, expiry, stage, filled)
    BY <1>0, <1>3, ExpireSound DEF Maintenance
  <2> QED BY <1>0, <1>3, <2>1 DEF Maintenance, PositionInv
<1>4. CASE Crash
  BY <1>0, <1>4 DEF Crash, PositionInv
<1>5. CASE Start
  BY <1>0, <1>5 DEF Start, PositionInv
<1>6. CASE BrokerStep
  <2>1. /\ applied' = applied /\ file' = file /\ book' = book /\ up' = up
        /\ now' = now /\ expiry' = expiry
        /\ \A o \in Orders : /\ filled[o] <= filled'[o]
                             /\ stage[o] = "over" => stage'[o] = "over" /\ filled'[o] = filled[o]
                             /\ AtStake(o, now, expiry, stage') => AtStake(o, now, expiry, stage)
    BY <1>6, BrokerMarket
  <2>2. Market(now, expiry, stage', filled')
    BY <1>0, <2>1
  <2>3. Sound(file, now, expiry, stage', filled')
    BY <1>0, <2>1, <2>2, MarketSound
  <2>4. up => Sound(book, now, expiry, stage', filled')
    BY <1>0, <2>1, <2>2, MarketSound
  <2>5. Prompt(now, expiry, stage', applied)
    <3> SUFFICES ASSUME NEW o \in Orders, stage'[o] \in {"taken", "live", "over"},
                        ~\E r \in applied : r.id = o
                 PROVE  now <= expiry[o]
      BY DEF Prompt
    <3>1. AtStake(o, now, expiry, stage)
      BY <2>1 DEF AtStake
    <3> QED BY <1>0, <3>1 DEF AtStake, Prompt
  <2> QED BY <2>1, <2>3, <2>4, <2>5 DEF PositionInv
<1>7. CASE ClockAdvance
  <2>1. /\ up' = up /\ book' = book /\ file' = file /\ expiry' = expiry /\ stage' = stage
        /\ filled' = filled /\ applied' = applied /\ now' = now + 1
        /\ \A o \in Orders : stage[o] \in {"taken", "live", "over"} /\ ~Acknowledged(o)
                               => now < expiry[o]
    BY <1>7 DEF ClockAdvance
  <2>2. \A o \in Orders : expiry[o] \in Nat
    BY <1>0 DEF Market
  <2>3. now \in Nat
    BY <1>0 DEF Market
  <2>4. Prompt(now', expiry, stage, applied)
    BY <2>1, <2>2, <2>3 DEF Prompt, Acknowledged
  <2>5. \A o \in Orders : AtStake(o, now', expiry, stage) => AtStake(o, now, expiry, stage)
    BY <2>1, <2>2, <2>3 DEF AtStake
  <2>6. Market(now', expiry, stage, filled) /\ \A o \in Orders : filled[o] <= filled[o]
    BY <1>0, <2>1 DEF Market
  <2>7. Sound(file, now', expiry, stage, filled)
    BY <1>0, <2>5, <2>6, MarketSound
  <2>8. up => Sound(book, now', expiry, stage, filled)
    BY <1>0, <2>5, <2>6, MarketSound
  <2> QED BY <2>1, <2>4, <2>7, <2>8 DEF PositionInv
<1>8. CASE UNCHANGED vars
  BY <1>0, <1>8 DEF vars, PositionInv
<1> QED BY <1>1, <1>2, <1>3, <1>4, <1>5, <1>6, <1>7, <1>8 DEF Next, BrokerStep

\* What the broker filled of each order.
Actual == [o \in Orders |-> Signed(o \in Sells, filled[o])]

\* The broker's position is the sum of that.
LEMMA BrokerIsSum == BrokerPosition = Sum(Actual, Orders)
<1> DEFINE f == Actual
           Tab(g) == g = [s \in SUBSET Orders |->
                            IF s = {} THEN 0
                            ELSE Signed(Pick(s) \in Sells, filled[Pick(s)]) + g[s \ {Pick(s)}]]
<1>1. BrokerPosition = (CHOOSE g : Tab(g))[Orders]
  BY DEF BrokerPosition, MapThenSumSet, MapThenFoldSet, Pick
<1>2. \A s \in SUBSET Orders : s # {} => f[Pick(s)] = Signed(Pick(s) \in Sells, filled[Pick(s)])
  BY PickIn DEF Actual
<1>3. \A g : Tab(g) <=> Table(g, f, Orders)
  <2> SUFFICES ASSUME NEW g PROVE Tab(g) <=> Table(g, f, Orders)
    OBVIOUS
  <2> HIDE DEF f
  <2> QED BY <1>2 DEF Table
<1>4. (CHOOSE g : Tab(g)) = (CHOOSE g : Table(g, f, Orders))
  BY <1>3
<1>5. Sum(f, Orders) = (CHOOSE g : Table(g, f, Orders))[Orders]
  BY SumIsTable
<1> QED BY <1>1, <1>4, <1>5

\* It lies in the interval that the file allows for.
LEMMA PositionFollows == MemoryInv /\ PositionInv => PositionWithinLimit
<1> SUFFICES ASSUME MemoryInv, PositionInv PROVE PositionWithinLimit
  OBVIOUS
<1>0. /\ Market(now, expiry, stage, filled) /\ file \in Books /\ Exact(file, stage, filled)
      /\ Covers(file, now, expiry, stage) /\ Within(file)
  BY DEF MemoryInv, PositionInv, Kept, Sound
<1>1. Bounded(file)
  BY <1>0, ExactBounded
<1>2. ASSUME NEW o \in Orders PROVE Known(file, o) <= filled[o] /\ filled[o] <= Most(file, o)
  <2>1. filled[o] \in Nat /\ filled[o] <= Qty[o]
    BY <1>0 DEF Market
  <2>2. CASE o \in DOMAIN file.open
    <3>1. OpenExact(file, o, filled)
      BY <1>0, <2>2 DEF Exact
    <3> QED BY <2>1, <2>2, <3>1 DEF OpenExact, Known, Most
  <2>3. CASE o \notin DOMAIN file.open /\ o \in DOMAIN file.closed
    <3>1. ClosedExact(file, o, stage, filled)
      BY <1>0, <2>3 DEF Exact
    <3> QED BY <2>1, <2>3, <3>1 DEF ClosedExact, Known, Most
  <2>4. CASE o \notin DOMAIN file.open /\ o \notin DOMAIN file.closed
    <3>1. filled[o] = 0
      BY <1>0, <2>4 DEF Covers, AtStake, Market
    <3> QED BY <2>4, <3>1 DEF Known, Most
  <2> QED BY <2>2, <2>3, <2>4
<1>3. \A o \in Orders : filled[o] \in Nat
  BY <1>0 DEF Market
<1>4. \A o \in Orders : /\ Actual[o] \in Int /\ Highest(file)[o] \in Int /\ Lowest(file)[o] \in Int
                        /\ Actual[o] <= Highest(file)[o] /\ Lowest(file)[o] <= Actual[o]
  BY <1>1, <1>2, <1>3 DEF Actual, Highest, Lowest, Signed, Bounded
<1>5. /\ Sum(Actual, Orders) <= Sum(Highest(file), Orders)
      /\ Sum(Lowest(file), Orders) <= Sum(Actual, Orders)
  BY <1>4, SumMonotone, ExposureAssumption
<1>6. /\ Sum(Actual, Orders) \in Int
      /\ Sum(Highest(file), Orders) \in Int /\ Sum(Lowest(file), Orders) \in Int
  BY <1>4, SumInt, ExposureAssumption
<1> DEFINE b == BrokerPosition
<1>7. b = Sum(Actual, Orders)
  BY BrokerIsSum
<1>8. Sum(Highest(file), Orders) <= MaxPosition /\ -MaxPosition <= Sum(Lowest(file), Orders)
  BY <1>0 DEF Within
<1> HIDE DEF b
<1>9. b \in Int /\ b <= MaxPosition /\ -MaxPosition <= b
  BY <1>5, <1>6, <1>7, <1>8, ExposureAssumption
<1>10. Abs(b) <= MaxPosition
  BY <1>9, ExposureAssumption DEF Abs, MaxOf
<1> QED BY <1>10 DEF PositionWithinLimit, b

\* What the broker holds stays within the limit of C13: for any orders, limit and time
\* to live, whatever fills and whichever reports are late, lost, repeated or reordered,
\* across failed saves and crashes of Aegis, if the first report of an order comes
\* before its attestation expires and the memory of closed orders lasts.
THEOREM PositionLimited ==
  Timely /\ RemembersAll => (Spec => []PositionWithinLimit)
<1> SUFFICES ASSUME Timely, RemembersAll PROVE Spec => []PositionWithinLimit
  OBVIOUS
<1>1. Spec => []MemoryInv
  BY MemoryInit, MemoryStep, PTL DEF Spec
<1>2. MemoryInv /\ MemoryInv' /\ PositionInv /\ [Next]_vars => PositionInv'
  BY PositionStep
<1>3. Spec => []PositionInv
  BY <1>1, <1>2, PositionInit, PTL DEF Spec
<1> QED BY <1>1, <1>3, PositionFollows, PTL
=============================================================================
