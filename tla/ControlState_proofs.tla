------------------------ MODULE ControlState_proofs ------------------------
(***************************************************************************)
(* What the controls of Aegis promise of an approved order, for any        *)
(* symbols, signals, feeds, limits and clock lags: the rate limit, the size *)
(* limit of unattended orders, the drawdown latch, and the price collar,   *)
(* the notional cap and the gross limit.                                   *)
(***************************************************************************)
EXTENDS ControlState, Operators_proofs, SequenceTheorems

-----------------------------------------------------------------------------
(* Token buckets                                                           *)

\* A bucket of rate_limit.rs: scaled tokens and the time of its last refill.
Buckets == [tokens : Nat, last : Nat]

\* What a bucket of rate r that was filled at the time from has left, and the n
\* tokens taken from it, are paid for by its capacity and the time since.
Paid(b, n, r, from) == n * Scale + b.tokens <= r.capacity * Scale + r.refill * (b.last - from)

\* Time never runs back past the start of the process.
Clocks == now \in Nat /\ started \in Nat /\ 1 <= started /\ started <= now

\* The bucket shared by all symbols pays for every order of this process.
GlobalPaid ==
  /\ global \in Buckets /\ total \in Nat
  /\ started <= global.last /\ global.last <= now
  /\ Paid(global, total, GlobalRate, started)

\* The bucket of each symbol pays for the orders of that symbol.
SymbolsPaid ==
  /\ bucket \in [Symbols -> Buckets] /\ taken \in [Symbols -> Nat]
  /\ \A s \in Symbols :
       \/ bucket[s].last = 0 /\ taken[s] = 0
       \/ /\ started <= bucket[s].last /\ bucket[s].last <= now
          /\ Paid(bucket[s], taken[s], SymbolRate, started)

\* The inductive invariant of the rate limit.
RateInv == Clocks /\ GlobalPaid /\ SymbolsPaid

\* A rate that the configuration accepts.
IsRate(r) == r.capacity \in Nat /\ r.refill \in Nat

\* The two configured rates are rates.
LEMMA Rates == IsRate(GlobalRate) /\ IsRate(SymbolRate) /\ Scale \in Nat /\ Scale > 0
  BY ControlAssumption DEF IsRate

\* A product of naturals is a natural.
LEMMA Product == ASSUME NEW a \in Nat, NEW b \in Nat PROVE a * b \in Nat
  OBVIOUS

\* A longer time refills at least as much.
LEMMA ProductMonotone ==
  ASSUME NEW a \in Int, NEW b \in Int, NEW k \in Nat, a <= b PROVE k * a <= k * b
  OBVIOUS

\* A refill never leaves a bucket overfull, moves its time only forward, and adds no
\* more than the time that has passed pays for.
LEMMA RefillLemma ==
  ASSUME NEW b \in Buckets, NEW r, IsRate(r), NEW t \in Nat
  PROVE  LET f == refill(b, r, t)
         IN  /\ f \in Buckets
             /\ f.last = MaxOf(b.last, t)
             /\ f.tokens <= b.tokens + r.refill * (f.last - b.last)
<1> DEFINE c == r.capacity * Scale
           gain == MaxOf(t - b.last, 0) * r.refill
           f == refill(b, r, t)
<1>1. c \in Nat
  BY Rates, Product DEF IsRate
<1>2. b.tokens \in Nat /\ b.last \in Nat
  BY DEF Buckets
<1>3. MaxOf(t - b.last, 0) \in Nat /\ MaxOf(t - b.last, 0) = MaxOf(b.last, t) - b.last
  BY <1>2 DEF MaxOf
<1>4. gain \in Nat /\ gain = r.refill * (MaxOf(b.last, t) - b.last)
  <2>1. r.refill \in Nat
    BY DEF IsRate
  <2>2. gain = r.refill * MaxOf(t - b.last, 0)
    BY <1>3, <2>1
  <2> QED BY <1>3, <2>1, <2>2, Product
<1>5. f.tokens = -MaxOf(-(b.tokens + gain), -c) /\ f.last = MaxOf(b.last, t)
  BY DEF refill
<1>6. f.tokens \in Nat /\ f.tokens <= b.tokens + gain
  <2> HIDE DEF gain, c
  <2> QED BY <1>1, <1>2, <1>4, <1>5 DEF MaxOf
<1>7. f.last \in Nat
  BY <1>2, <1>5 DEF MaxOf
<1>8. f \in Buckets
  BY <1>6, <1>7 DEF Buckets, refill
<1> QED BY <1>4, <1>5, <1>6, <1>8

\* A refill by a reading of the clock keeps a bucket paid.
LEMMA RefillPaid ==
  ASSUME NEW b \in Buckets, NEW n \in Nat, NEW r, IsRate(r), NEW t \in Nat, NEW from \in Nat,
         Paid(b, n, r, from)
  PROVE  Paid(refill(b, r, t), n, r, from)
<1> DEFINE f == refill(b, r, t)
<1>1. /\ f \in Buckets /\ f.tokens <= b.tokens + r.refill * (f.last - b.last)
  BY RefillLemma
<1>2. f.tokens \in Nat /\ f.last \in Nat /\ b.tokens \in Nat /\ b.last \in Nat
  BY <1>1 DEF Buckets
<1>3. r.refill \in Nat /\ r.capacity \in Nat
  BY DEF IsRate
<1>4. r.refill * (f.last - b.last) + r.refill * (b.last - from) = r.refill * (f.last - from)
  <2> HIDE DEF f
  <2> QED BY <1>2, <1>3
<1>5. /\ r.refill * (f.last - b.last) \in Int /\ r.refill * (b.last - from) \in Int
      /\ r.capacity * Scale \in Int /\ n * Scale \in Int
  <2> HIDE DEF f
  <2> QED BY <1>2, <1>3, Rates
<1>6. n * Scale + b.tokens <= r.capacity * Scale + r.refill * (b.last - from)
  BY DEF Paid
<1>7. n * Scale + f.tokens <= r.capacity * Scale + r.refill * (f.last - from)
  <2> HIDE DEF f
  <2> QED BY <1>1, <1>2, <1>4, <1>5, <1>6
<1> QED BY <1>7 DEF Paid

\* Taking a token moves it from the bucket to the count.
LEMMA TakePaid ==
  ASSUME NEW b \in Buckets, NEW n \in Nat, NEW r, IsRate(r), NEW from \in Nat,
         Paid(b, n, r, from), b.tokens >= Scale
  PROVE  take(b) \in Buckets /\ take(b).last = b.last /\ Paid(take(b), n + 1, r, from)
<1>1. b.tokens \in Nat /\ b.last \in Nat /\ Scale \in Nat
  BY Rates DEF Buckets
<1>2. take(b) \in Buckets /\ take(b).last = b.last /\ take(b).tokens = b.tokens - Scale
  BY <1>1 DEF take, Buckets
<1>3. (n + 1) * Scale = n * Scale + Scale
  BY <1>1
<1>4. n * Scale \in Int
  BY <1>1
<1> QED BY <1>1, <1>2, <1>3, <1>4 DEF Paid

\* A fresh bucket is paid by its capacity.
LEMMA FreshPaid ==
  ASSUME NEW r, IsRate(r), NEW t \in Nat, NEW from \in Nat, from <= t
  PROVE  TokenBucket(r, t) \in Buckets /\ TokenBucket(r, t).last = t
         /\ Paid(TokenBucket(r, t), 0, r, from)
<1>1. r.capacity * Scale \in Nat
  BY Rates, Product DEF IsRate
<1>2. r.refill * (t - from) \in Nat
  <2>1. t - from \in Nat /\ r.refill \in Nat
    BY DEF IsRate
  <2> QED BY <2>1, Product
<1>3. 0 * Scale = 0
  BY Rates
<1> QED BY <1>1, <1>2, <1>3 DEF TokenBucket, Buckets, Paid

\* check_and_take keeps both kinds of buckets paid.
LEMMA TakeStep ==
  ASSUME RateInv, NEW sym \in Symbols, NEW t \in Readings, check_and_take(sym, t),
         UNCHANGED <<now, started>>
  PROVE  RateInv'
<1> DEFINE g == refill(global, GlobalRate, t)
           b0 == IF bucket[sym].last = 0 THEN TokenBucket(SymbolRate, t) ELSE bucket[sym]
           b == refill(b0, SymbolRate, t)
<1>1. /\ now \in Nat /\ started \in Nat /\ 1 <= started /\ started <= now
      /\ global \in Buckets /\ total \in Nat /\ started <= global.last /\ global.last <= now
      /\ Paid(global, total, GlobalRate, started)
  BY DEF RateInv, Clocks, GlobalPaid
<1>2. t \in Nat /\ started <= t /\ t <= now
  BY <1>1, ControlAssumption DEF Readings
<1>3. g \in Buckets /\ g.last = MaxOf(global.last, t) /\ Paid(g, total, GlobalRate, started)
  BY <1>1, <1>2, Rates, RefillLemma, RefillPaid
<1>4. started <= g.last /\ g.last <= now
  <2>1. global.last \in Nat
    BY <1>1 DEF Buckets
  <2> QED BY <1>1, <1>2, <1>3, <2>1 DEF MaxOf
<1>5. /\ b0 \in Buckets /\ taken[sym] \in Nat /\ started <= b0.last /\ b0.last <= now
      /\ Paid(b0, taken[sym], SymbolRate, started)
  <2>1. CASE bucket[sym].last = 0
    <3>1. taken[sym] = 0
      <4>1. bucket[sym] \in Buckets
        BY DEF RateInv, SymbolsPaid
      <4> QED BY <1>1, <2>1 DEF RateInv, SymbolsPaid
    <3>2. b0 = TokenBucket(SymbolRate, t)
      BY <2>1
    <3> QED BY <1>1, <1>2, <3>1, <3>2, Rates, FreshPaid
  <2>2. CASE bucket[sym].last # 0
    BY <2>2 DEF RateInv, SymbolsPaid
  <2> QED BY <2>1, <2>2
<1>6. b \in Buckets /\ b.last = MaxOf(b0.last, t) /\ Paid(b, taken[sym], SymbolRate, started)
  BY <1>1, <1>2, <1>5, Rates, RefillLemma, RefillPaid
<1>7. started <= b.last /\ b.last <= now
  <2>1. b0.last \in Nat
    BY <1>5 DEF Buckets
  <2> HIDE DEF b0
  <2> QED BY <1>1, <1>2, <1>5, <1>6, <2>1 DEF MaxOf
<1>8. SymbolBucket(sym, t) = b
  BY DEF SymbolBucket
<1> HIDE DEF b, b0, g
<1>9. CASE HasTokens(sym, t)
  <2>1. global' = take(g) /\ bucket' = [bucket EXCEPT ![sym] = take(b)]
        /\ taken' = [taken EXCEPT ![sym] = @ + 1] /\ total' = total + 1
    BY <1>8, <1>9 DEF check_and_take, g
  <2>2. g.tokens >= Scale /\ b.tokens >= Scale
    BY <1>8, <1>9 DEF HasTokens, g
  <2>3. /\ take(g) \in Buckets /\ take(g).last = g.last
        /\ Paid(take(g), total + 1, GlobalRate, started)
    BY <1>1, <1>3, <2>2, Rates, TakePaid
  <2>4. /\ take(b) \in Buckets /\ take(b).last = b.last
        /\ Paid(take(b), taken[sym] + 1, SymbolRate, started)
    BY <1>1, <1>5, <1>6, <2>2, Rates, TakePaid
  <2>5. GlobalPaid'
    BY <1>1, <1>4, <2>1, <2>3 DEF GlobalPaid, Paid
  <2>6. SymbolsPaid'
    <3>1. bucket' \in [Symbols -> Buckets] /\ taken' \in [Symbols -> Nat]
      BY <2>1, <2>4, <1>5 DEF RateInv, SymbolsPaid
    <3>2. ASSUME NEW s \in Symbols
          PROVE  \/ bucket'[s].last = 0 /\ taken'[s] = 0
                 \/ /\ started <= bucket'[s].last /\ bucket'[s].last <= now
                    /\ Paid(bucket'[s], taken'[s], SymbolRate, started)
      <4>1. CASE s = sym
        BY <1>7, <2>1, <2>4, <4>1 DEF RateInv, SymbolsPaid
      <4>2. CASE s # sym
        BY <2>1, <4>2 DEF RateInv, SymbolsPaid
      <4> QED BY <4>1, <4>2
    <3> QED BY <3>1, <3>2 DEF SymbolsPaid, Paid
  <2> QED BY <1>1, <2>5, <2>6 DEF RateInv, Clocks
<1>10. CASE ~HasTokens(sym, t)
  <2>1. global' = g /\ bucket' = [bucket EXCEPT ![sym] = b] /\ taken' = taken /\ total' = total
    BY <1>8, <1>10 DEF check_and_take, g
  <2>2. GlobalPaid'
    BY <1>1, <1>3, <1>4, <2>1 DEF GlobalPaid, Paid
  <2>3. SymbolsPaid'
    <3>1. bucket' \in [Symbols -> Buckets] /\ taken' \in [Symbols -> Nat]
      BY <2>1, <1>6 DEF RateInv, SymbolsPaid
    <3>2. ASSUME NEW s \in Symbols
          PROVE  \/ bucket'[s].last = 0 /\ taken'[s] = 0
                 \/ /\ started <= bucket'[s].last /\ bucket'[s].last <= now
                    /\ Paid(bucket'[s], taken'[s], SymbolRate, started)
      <4>1. CASE s = sym
        BY <1>6, <1>7, <2>1, <4>1 DEF RateInv, SymbolsPaid
      <4>2. CASE s # sym
        BY <2>1, <4>2 DEF RateInv, SymbolsPaid
      <4> QED BY <4>1, <4>2
    <3> QED BY <3>1, <3>2 DEF SymbolsPaid, Paid
  <2> QED BY <1>1, <2>2, <2>3 DEF RateInv, Clocks
<1> QED BY <1>9, <1>10

\* A new process, or the first one, starts with full buckets and nothing taken.
LEMMA InitRate == Init => RateInv
<1> SUFFICES ASSUME Init PROVE RateInv
  OBVIOUS
<1>1. Clocks
  BY DEF Init, Clocks
<1>2. GlobalPaid
  <2>1. global = TokenBucket(GlobalRate, 1) /\ total = 0 /\ started = 1 /\ now = 1
    BY DEF Init
  <2>2. /\ TokenBucket(GlobalRate, 1) \in Buckets /\ TokenBucket(GlobalRate, 1).last = 1
        /\ Paid(TokenBucket(GlobalRate, 1), 0, GlobalRate, 1)
    BY Rates, FreshPaid
  <2> QED BY <2>1, <2>2 DEF GlobalPaid
<1>3. SymbolsPaid
  BY DEF Init, SymbolsPaid, Buckets
<1> QED BY <1>1, <1>2, <1>3 DEF RateInv

\* Every step keeps the buckets paid for.
LEMMA StepRate == RateInv /\ [Next]_vars => RateInv'
<1> SUFFICES ASSUME RateInv, [Next]_vars PROVE RateInv'
  OBVIOUS
<1>1. CASE UNCHANGED <<now, started, rate>>
  BY <1>1 DEF RateInv, Clocks, GlobalPaid, SymbolsPaid, Paid, rate
<1>2. ASSUME NEW i \in Ids, NEW mode, NEW t \in Readings, Evaluate(i, mode, t)
      PROVE  RateInv'
  <2>1. Sig[i].sym \in Symbols
    BY ControlAssumption
  <2>2. check_and_take(Sig[i].sym, t) /\ UNCHANGED <<now, started>>
    BY <1>2 DEF Evaluate
  <2> QED BY <2>1, <2>2, TakeStep
<1>3. CASE ClockAdvance
  <2>1. now' = now + 1 /\ UNCHANGED <<started, global, bucket, taken, total>>
    BY <1>3 DEF ClockAdvance, rate
  <2>2. Clocks' /\ GlobalPaid'
    <3>1. global.last \in Nat
      BY DEF RateInv, GlobalPaid, Buckets
    <3> QED BY <2>1, <3>1 DEF RateInv, Clocks, GlobalPaid, Paid
  <2>3. SymbolsPaid'
    <3>1. \A s \in Symbols : bucket[s].last \in Nat
      BY DEF RateInv, SymbolsPaid, Buckets
    <3> QED BY <2>1, <3>1 DEF RateInv, Clocks, SymbolsPaid, Paid
  <2> QED BY <2>2, <2>3 DEF RateInv
<1>4. CASE Restart
  <2>1. /\ started' = now /\ now' = now /\ total' = 0
        /\ global' = TokenBucket(GlobalRate, now)
        /\ bucket' = [s \in Symbols |-> [tokens |-> 0, last |-> 0]]
        /\ taken' = [s \in Symbols |-> 0]
    BY <1>4 DEF Restart
  <2>2. now \in Nat /\ 1 <= now
    BY DEF RateInv, Clocks
  <2>3. /\ TokenBucket(GlobalRate, now) \in Buckets /\ TokenBucket(GlobalRate, now).last = now
        /\ Paid(TokenBucket(GlobalRate, now), 0, GlobalRate, now)
    BY <2>2, Rates, FreshPaid
  <2>4. Clocks'
    BY <2>1, <2>2 DEF Clocks
  <2>5. GlobalPaid'
    BY <2>1, <2>2, <2>3 DEF GlobalPaid, Paid
  <2>6. SymbolsPaid'
    BY <2>1 DEF SymbolsPaid, Buckets
  <2> QED BY <2>4, <2>5, <2>6 DEF RateInv
<1>5. CASE \E b \in Batches, t \in Readings : Push(b, t)
  BY <1>1, <1>5 DEF Push
<1>6. CASE \E end \in Ends : Approve(end)
  BY <1>1, <1>6 DEF Approve
<1>7. CASE \E i \in Ids : HoldEnds(i)
  BY <1>1, <1>7 DEF HoldEnds
<1>8. CASE \E w \in Reporters, e \in Equities, t \in Readings : Report(w, {}, e, t)
  BY <1>1, <1>8 DEF Report
<1>9. CASE \E w \in Reporters, i \in Submitted, f \in FillStates, e \in Equities, t \in Readings :
             Report(w, {ReportOf(i, f)}, e, t)
  BY <1>1, <1>9 DEF Report
<1>10. CASE \E w \in Reporters : LatchCheck(w) \/ LatchTrigger(w)
  BY <1>1, <1>10 DEF LatchCheck, LatchTrigger
<1>11. CASE ResetDrawdown
  BY <1>1, <1>11 DEF ResetDrawdown
<1>12. CASE \E l \in KillLevelsSeen : OtherLatch(l)
  BY <1>1, <1>12 DEF OtherLatch
<1>13. CASE \E t \in Readings : Maintenance(t)
  BY <1>1, <1>13 DEF Maintenance
<1>14. CASE UNCHANGED vars
  BY <1>1, <1>14 DEF vars
<1> QED BY <1>2, <1>3, <1>4, <1>5, <1>6, <1>7, <1>8, <1>9, <1>10, <1>11, <1>12, <1>13, <1>14 DEF Next

\* What was taken is paid for up to the last refill, hence up to now.
LEMMA PaidBounds ==
  ASSUME NEW b \in Buckets, NEW n \in Nat, NEW r, IsRate(r), NEW from \in Nat, NEW t \in Nat,
         b.last <= t, Paid(b, n, r, from)
  PROVE  n * Scale <= r.capacity * Scale + r.refill * (t - from)
<1>1. b.tokens \in Nat /\ b.last \in Nat /\ r.refill \in Nat /\ r.capacity \in Nat
  BY DEF Buckets, IsRate
<1>2. r.refill * (b.last - from) <= r.refill * (t - from)
  BY <1>1, ProductMonotone
<1>3. /\ n * Scale \in Int /\ r.capacity * Scale \in Int
      /\ r.refill * (b.last - from) \in Int /\ r.refill * (t - from) \in Int
  BY <1>1, Rates
<1> QED BY <1>1, <1>2, <1>3 DEF Paid

\* C16 for every configuration: the orders let through since the start are bounded by
\* the capacity and the refill, for each symbol and together (rate.rs).
THEOREM RateLimited == Spec => []RateBound
<1>1. RateInv => RateBound
  <2> SUFFICES ASSUME RateInv PROVE RateBound
    OBVIOUS
  <2>1. now \in Nat /\ started \in Nat /\ started <= now
    BY DEF RateInv, Clocks
  <2>2. total * Scale <= GlobalRate.capacity * Scale + GlobalRate.refill * (now - started)
    BY <2>1, Rates, PaidBounds DEF RateInv, GlobalPaid
  <2>3. ASSUME NEW s \in Symbols
        PROVE  taken[s] * Scale <= SymbolRate.capacity * Scale + SymbolRate.refill * (now - started)
    <3>1. bucket[s] \in Buckets /\ taken[s] \in Nat
      BY DEF RateInv, SymbolsPaid
    <3>2. CASE bucket[s].last = 0 /\ taken[s] = 0
      <4>1. SymbolRate.capacity * Scale \in Nat
        BY Rates, Product DEF IsRate
      <4>2. SymbolRate.refill * (now - started) \in Nat
        <5>1. now - started \in Nat /\ SymbolRate.refill \in Nat
          BY <2>1, Rates DEF IsRate
        <5> QED BY <5>1, Product
      <4>3. taken[s] * Scale = 0
        BY <3>2, Rates
      <4> QED BY <4>1, <4>2, <4>3
    <3>3. CASE bucket[s].last <= now /\ Paid(bucket[s], taken[s], SymbolRate, started)
      BY <2>1, <3>1, <3>3, Rates, PaidBounds
    <3> QED BY <3>2, <3>3 DEF RateInv, SymbolsPaid
  <2> QED BY <2>2, <2>3 DEF RateBound
<1> QED BY <1>1, InitRate, StepRate, PTL DEF Spec

-----------------------------------------------------------------------------
(* Sizes of unattended orders                                              *)

\* A human-released size of the size history, with its time.
Samples == [at : Int, qty : Nat]

\* Every sample of b is at most as large as what a human released in its symbol.
Sized(b) ==
  /\ b.sizes \in [Symbols -> Seq(Samples)]
  /\ \A s \in Symbols : \A k \in 1..Len(b.sizes[s]) : b.sizes[s][k].qty <= human[s]

\* A decision in flight is about a known signal at a read time.
Decision == deciding # Idle => /\ deciding.id \in Ids /\ deciding.at \in Int
                               /\ deciding.mode \in {"submit", "release"}

\* The inductive invariant of the size limit of unattended orders.
SizeInv ==
  /\ human \in [Symbols -> Nat]
  /\ Sized(book) /\ Sized(file)
  /\ Decision
  /\ UnattendedWithinHuman

\* The signals have symbols and sizes.
LEMMA SigTypes == \A i \in Ids : Sig[i].qty \in Nat /\ Sig[i].sym \in Symbols
  BY ControlAssumption

\* The nearest rank of P95 never exceeds the number of samples.
LEMMA Rank == ASSUME NEW n \in Nat PROVE (95 * n + 99) \div 100 <= n
  OBVIOUS

\* A size that C19 takes for usual has a sample in the history that is as large.
LEMMA UsualLemma ==
  ASSUME NEW v \in Seq(Samples), NEW q \in Nat, NEW t, Usual(v, q, t)
  PROVE  \E k \in 1..Len(v) : v[k].qty >= q
<1> DEFINE W == Window(v, t)
           L == {i \in W : v[i].qty < q}
<1>1. W \in SUBSET (1..Len(v))
  BY DEF Window
<1>2. IsFiniteSet(1..Len(v))
  BY FS_Interval
<1>3. IsFiniteSet(W)
  BY <1>1, <1>2, FS_Subset
<1>4. Cardinality(W) \in Nat
  BY <1>3, FS_CardinalityType
<1>5. Cardinality(L) < (95 * Cardinality(W) + 99) \div 100
  BY DEF Usual
<1>6. L # W
  <2> SUFFICES ASSUME L = W PROVE FALSE
    OBVIOUS
  <2>1. Cardinality(W) < (95 * Cardinality(W) + 99) \div 100
    BY <1>5
  <2>2. (95 * Cardinality(W) + 99) \div 100 <= Cardinality(W)
    BY <1>4, Rank
  <2> HIDE DEF W
  <2> QED BY <1>4, <2>1, <2>2
<1>7. PICK k \in W : ~(v[k].qty < q)
  BY <1>6
<1>8. k \in 1..Len(v) /\ v[k] \in Samples
  BY <1>1
<1>9. v[k].qty \in Nat
  BY <1>8 DEF Samples
<1> QED BY <1>7, <1>8, <1>9

\* Recording a size within m keeps a history within m.
LEMMA RecordLemma ==
  ASSUME NEW v \in Seq(Samples), NEW q \in Nat, NEW t \in Int, NEW m \in Nat, q <= m,
         \A k \in 1..Len(v) : v[k].qty <= m
  PROVE  /\ record_size(v, q, t) \in Seq(Samples)
         /\ \A k \in 1..Len(record_size(v, q, t)) : record_size(v, q, t)[k].qty <= m
<1> DEFINE e == [at |-> t, qty |-> q]
           w == Append(v, e)
<1>1. e \in Samples /\ e.qty = q
  BY DEF Samples
<1> HIDE DEF e
<1>2. /\ w \in Seq(Samples) /\ Len(w) = Len(v) + 1
      /\ \A k \in 1..Len(v) : w[k] = v[k]
      /\ w[Len(v) + 1] = e
  BY <1>1
<1>3. \A k \in 1..Len(w) : w[k].qty <= m
  <2> SUFFICES ASSUME NEW k \in 1..Len(w) PROVE w[k].qty <= m
    OBVIOUS
  <2>1. k \in 1..Len(v) \/ k = Len(v) + 1
    BY <1>2
  <2> HIDE DEF w
  <2> QED BY <1>1, <1>2, <2>1
<1>4. record_size(v, q, t) = IF Len(w) > MaxSizeSamples THEN Tail(w) ELSE w
  BY DEF record_size, e
<1> HIDE DEF w
<1>5. w # << >>
  BY <1>2
<1>6. /\ Tail(w) \in Seq(Samples) /\ Len(Tail(w)) = Len(w) - 1
      /\ \A k \in 1..Len(Tail(w)) : Tail(w)[k] = w[k + 1]
  BY <1>2, <1>5
<1>7. \A k \in 1..Len(Tail(w)) : Tail(w)[k].qty <= m
  <2> SUFFICES ASSUME NEW k \in 1..Len(Tail(w)) PROVE Tail(w)[k].qty <= m
    OBVIOUS
  <2>1. k + 1 \in 1..Len(w)
    BY <1>2, <1>6
  <2> QED BY <1>3, <1>6, <2>1
<1> QED BY <1>2, <1>3, <1>4, <1>6, <1>7

\* Nothing is recorded at the start.
LEMMA InitSize == Init => SizeInv
<1> SUFFICES ASSUME Init PROVE SizeInv
  OBVIOUS
<1>1. book = EmptyBook /\ file = EmptyBook /\ deciding = Idle /\ human = [s \in Symbols |-> 0]
  BY DEF Init
<1>2. EmptyBook.sizes = [s \in Symbols |-> << >>]
  BY DEF EmptyBook
<1>3. Sized(book) /\ Sized(file)
  BY <1>1, <1>2 DEF Sized
<1> QED BY <1>1, <1>3 DEF SizeInv, Decision, UnattendedWithinHuman

\* A decision without a human passed C19, hence is within the history.
LEMMA EvaluateSize ==
  ASSUME SizeInv, RateInv, NEW i \in Ids, NEW mode \in {"submit", "release"}, NEW t \in Readings,
         Evaluate(i, mode, t)
  PROVE  SizeInv'
<1> DEFINE sym == Sig[i].sym
           snap == snapshot(i, mode, t)
<1>1. sym \in Symbols /\ Sig[i].qty \in Nat
  BY SigTypes
<1>2. UNCHANGED <<book, file, human>>
  BY DEF Evaluate
<1>3. human' \in [Symbols -> Nat] /\ Sized(book)' /\ Sized(file)'
  BY <1>2 DEF SizeInv, Sized
<1>4. t \in Int
  BY ControlAssumption DEF RateInv, Clocks, Readings
<1>5. CASE evaluate(Sig[i], snap) = "approved"
  <2>1. deciding' = [id |-> i, mode |-> mode, at |-> t, price |-> order_price(Sig[i], snap),
                     marks |-> [s \in Symbols |-> price[s].mid]]
    BY <1>5 DEF Evaluate
  <2>2. deciding'.id = i /\ deciding'.mode = mode /\ deciding'.at = t
    BY <2>1
  <2>3. ASSUME mode = "submit" PROVE Sig[i].qty <= human[sym]
    <3>1. ~Soft(Sig[i], snap)
      BY <1>5 DEF evaluate
    <3>2. snap.mode = "submit" /\ snap.usual = Usual(book.sizes[sym], Sig[i].qty, t)
      BY <2>3 DEF snapshot
    <3>3. snap.usual
      BY <3>1, <3>2 DEF Soft
    <3>4. Usual(book.sizes[sym], Sig[i].qty, t)
      BY <3>2, <3>3
    <3>5. book.sizes[sym] \in Seq(Samples)
      BY <1>1 DEF SizeInv, Sized
    <3>6. PICK k \in 1..Len(book.sizes[sym]) : book.sizes[sym][k].qty >= Sig[i].qty
      BY <1>1, <3>4, <3>5, UsualLemma
    <3>7. book.sizes[sym][k].qty <= human[sym]
      BY <1>1 DEF SizeInv, Sized
    <3>8. book.sizes[sym][k] \in Samples
      BY <3>5
    <3>9. book.sizes[sym][k].qty \in Nat /\ human[sym] \in Nat
      BY <1>1, <3>8 DEF Samples, SizeInv
    <3> QED BY <1>1, <3>6, <3>7, <3>9
  <2>4. Decision'
    BY <1>4, <2>2 DEF Decision
  <2>5. UnattendedWithinHuman'
    BY <1>2, <2>2, <2>3 DEF UnattendedWithinHuman
  <2> QED BY <1>3, <2>4, <2>5 DEF SizeInv
<1>6. CASE evaluate(Sig[i], snap) # "approved"
  <2>1. UNCHANGED deciding
    BY <1>6 DEF Evaluate
  <2> QED BY <1>2, <1>3, <2>1 DEF SizeInv, Decision, UnattendedWithinHuman
<1> QED BY <1>5, <1>6

\* The reservation records a size that a human released, now or before.
LEMMA ApproveSize ==
  ASSUME SizeInv, NEW end \in Ends, Approve(end)
  PROVE  SizeInv'
<1> DEFINE i == deciding.id
           sym == Sig[i].sym
           commits == end \in {"given", "downgraded", "abandoned", "kept"}
           sizes == [book.sizes EXCEPT ![sym] = record_size(@, Sig[i].qty, deciding.at)]
<1>1. deciding # Idle /\ i \in Ids /\ deciding.at \in Int
  BY DEF Approve, SizeInv, Decision
<1>2. sym \in Symbols /\ Sig[i].qty \in Nat
  BY <1>1, SigTypes
<1>3. human' = IF commits /\ deciding.mode = "release"
               THEN [human EXCEPT ![sym] = MaxOf(@, Sig[i].qty)] ELSE human
  BY DEF Approve
<1>4. human \in [Symbols -> Nat] /\ Sized(book) /\ Sized(file)
  BY DEF SizeInv
<1>5. human' \in [Symbols -> Nat] /\ \A s \in Symbols : human[s] <= human'[s]
  BY <1>2, <1>3, <1>4 DEF MaxOf
<1>6. deciding' = Idle
  BY DEF Approve
<1>7. ASSUME NEW b, Sized(b) PROVE /\ b.sizes \in [Symbols -> Seq(Samples)]
                                   /\ \A s \in Symbols : \A k \in 1..Len(b.sizes[s]) : b.sizes[s][k].qty <= human'[s]
  <2> SUFFICES ASSUME NEW s \in Symbols, NEW k \in 1..Len(b.sizes[s])
               PROVE  b.sizes[s][k].qty <= human'[s]
    BY <1>7 DEF Sized
  <2>1. b.sizes[s][k].qty <= human[s] /\ b.sizes[s] \in Seq(Samples)
    BY <1>7 DEF Sized
  <2>2. b.sizes[s][k] \in Samples
    BY <2>1
  <2>3. b.sizes[s][k].qty \in Nat /\ human[s] \in Nat /\ human'[s] \in Nat /\ human[s] <= human'[s]
    BY <1>4, <1>5, <2>2 DEF Samples
  <2> QED BY <2>1, <2>3
<1>8. CASE ~commits
  <2>1. book' = book /\ file' = file
    BY <1>8 DEF Approve
  <2>2. Sized(book)' /\ Sized(file)'
    BY <1>4, <1>7, <2>1 DEF Sized
  <2> QED BY <1>5, <1>6, <2>2 DEF SizeInv, Decision, UnattendedWithinHuman
<1>9. CASE commits
  <2>1. book'.sizes = sizes /\ file' = book'
    BY <1>9 DEF Approve, Reserved, Expire
  <2>2. Sig[i].qty <= human'[sym]
    <3>1. CASE deciding.mode = "release"
      <4>1. human'[sym] = MaxOf(human[sym], Sig[i].qty)
        BY <1>2, <1>3, <1>4, <1>9, <3>1
      <4>2. human[sym] \in Nat
        BY <1>2, <1>4
      <4> QED BY <1>2, <4>1, <4>2 DEF MaxOf
    <3>2. CASE deciding.mode # "release"
      <4>1. deciding.mode = "submit"
        BY <1>1, <3>2 DEF SizeInv, Decision
      <4>2. Sig[i].qty <= human[sym]
        BY <1>1, <4>1 DEF SizeInv, UnattendedWithinHuman
      <4> QED BY <1>3, <3>2, <4>2
    <3> QED BY <3>1, <3>2
  <2>3. /\ book.sizes \in [Symbols -> Seq(Samples)]
        /\ \A s \in Symbols : \A k \in 1..Len(book.sizes[s]) : book.sizes[s][k].qty <= human'[s]
    BY <1>4, <1>7
  <2>4. LET r == record_size(book.sizes[sym], Sig[i].qty, deciding.at)
        IN  r \in Seq(Samples) /\ \A k \in 1..Len(r) : r[k].qty <= human'[sym]
    <3>1. human'[sym] \in Nat /\ book.sizes[sym] \in Seq(Samples)
      BY <1>2, <1>5, <2>3
    <3> QED BY <1>1, <1>2, <2>2, <2>3, <3>1, RecordLemma
  <2>5. sizes \in [Symbols -> Seq(Samples)]
    BY <1>2, <2>3, <2>4
  <2>6. \A s \in Symbols : \A k \in 1..Len(sizes[s]) : sizes[s][k].qty <= human'[s]
    <3> SUFFICES ASSUME NEW s \in Symbols
                 PROVE  \A k \in 1..Len(sizes[s]) : sizes[s][k].qty <= human'[s]
      OBVIOUS
    <3>1. CASE s = sym
      <4>1. sizes[s] = record_size(book.sizes[sym], Sig[i].qty, deciding.at)
        BY <1>2, <2>3, <3>1
      <4> QED BY <2>4, <3>1, <4>1
    <3>2. CASE s # sym
      <4>1. sizes[s] = book.sizes[s]
        BY <2>3, <3>2
      <4> QED BY <2>3, <4>1
    <3> QED BY <3>1, <3>2
  <2>7. Sized(book)' /\ Sized(file)'
    BY <2>1, <2>5, <2>6 DEF Sized
  <2> QED BY <1>5, <1>6, <2>7 DEF SizeInv, Decision, UnattendedWithinHuman
<1> QED BY <1>8, <1>9

\* Every step keeps the recorded sizes below those a human released.
LEMMA StepSize == SizeInv /\ RateInv /\ [Next]_vars => SizeInv'
<1> SUFFICES ASSUME SizeInv, RateInv, [Next]_vars PROVE SizeInv'
  OBVIOUS
<1>1. ASSUME UNCHANGED <<human, deciding>>, book'.sizes = book.sizes, file'.sizes = file.sizes \/ file' = book'
      PROVE  SizeInv'
  BY <1>1 DEF SizeInv, Sized, Decision, UnattendedWithinHuman
<1>2. CASE \E i \in Ids, mode \in {"submit", "release"}, t \in Readings : Evaluate(i, mode, t)
  BY <1>2, EvaluateSize
<1>3. CASE \E end \in Ends : Approve(end)
  BY <1>3, ApproveSize
<1>4. CASE \E b \in Batches, t \in Readings : Push(b, t)
  BY <1>1, <1>4 DEF Push, decided
<1>5. CASE \E i \in Ids : HoldEnds(i)
  BY <1>1, <1>5 DEF HoldEnds
<1>6. ASSUME NEW w, NEW R, NEW e, NEW t, Report(w, R, e, t)
      PROVE  SizeInv'
  <2>1. AfterReport(R, e, t).sizes = book.sizes
    BY DEF AfterReport, Expire
  <2>2. book' = AfterReport(R, e, t) /\ file' = book' /\ UNCHANGED <<human, deciding>>
    BY <1>6 DEF Report, decided
  <2> QED BY <1>1, <2>1, <2>2
<1>7. CASE \E w \in Reporters : LatchCheck(w) \/ LatchTrigger(w)
  BY <1>1, <1>7 DEF LatchCheck, LatchTrigger, decided
<1>8. CASE ResetDrawdown
  BY <1>1, <1>8 DEF ResetDrawdown, decided
<1>9. CASE \E l \in KillLevelsSeen : OtherLatch(l)
  BY <1>1, <1>9 DEF OtherLatch, decided
<1>10. CASE \E t \in Readings : Maintenance(t)
  BY <1>1, <1>10 DEF Maintenance, Expire, decided
<1>11. CASE ClockAdvance
  BY <1>1, <1>11 DEF ClockAdvance, decided
<1>12. CASE Restart
  <2>1. book' = file /\ file' = file /\ deciding' = Idle /\ human' = human
    BY <1>12 DEF Restart
  <2> QED BY <2>1 DEF SizeInv, Sized, Decision, UnattendedWithinHuman
<1>13. CASE UNCHANGED vars
  BY <1>1, <1>13 DEF vars, decided
<1> QED BY <1>2, <1>3, <1>4, <1>5, <1>6, <1>7, <1>8, <1>9, <1>10, <1>11, <1>12, <1>13 DEF Next

\* C19 for every configuration: no order is approved without a human that is larger
\* than one a human released in its symbol (risk.rs, portfolio.rs size_history).
THEOREM SizesAttended == Spec => []UnattendedWithinHuman
<1>1. SizeInv => UnattendedWithinHuman
  BY DEF SizeInv
<1> QED BY <1>1, InitRate, StepRate, InitSize, StepSize, PTL DEF Spec

-----------------------------------------------------------------------------
(* The drawdown latch                                                      *)

\* While a breach is owed, its latch is there.
LatchInv ==
  /\ drawdown \in Nat /\ others \in Levels
  /\ owed => drawdown > 0

\* At start no breach is owed a latch.
LEMMA InitLatch == Init => LatchInv
  BY DEF Init, LatchInv, Levels, NORMAL, PHYSICAL

\* Only a reset lowers the number of latches, and it settles what is owed.
LEMMA StepLatch == LatchInv /\ [Next]_vars => LatchInv'
<1> SUFFICES ASSUME LatchInv, [Next]_vars PROVE LatchInv'
  OBVIOUS
<1>1. CASE UNCHANGED <<drawdown, others, owed>>
  BY <1>1 DEF LatchInv
<1>2. CASE \E i \in Ids, mode \in {"submit", "release"}, t \in Readings : Evaluate(i, mode, t)
  BY <1>1, <1>2 DEF Evaluate, kill
<1>3. CASE \E end \in Ends : Approve(end)
  BY <1>1, <1>3 DEF Approve, kill
<1>4. CASE \E b \in Batches, t \in Readings : Push(b, t)
  BY <1>1, <1>4 DEF Push, kill
<1>5. CASE \E i \in Ids : HoldEnds(i)
  BY <1>1, <1>5 DEF HoldEnds, kill
<1>6. ASSUME NEW w, NEW R, NEW e, NEW t, Report(w, R, e, t)
      PROVE  LatchInv'
  BY <1>1, <1>6 DEF Report
<1>7. ASSUME NEW w, LatchCheck(w) PROVE LatchInv'
  BY <1>7 DEF LatchCheck, LatchInv
<1>8. ASSUME NEW w, LatchTrigger(w) PROVE LatchInv'
  BY <1>8 DEF LatchTrigger, LatchInv, Levels, NORMAL, HARD, PHYSICAL
<1>9. CASE ResetDrawdown
  <2>1. drawdown > 0 /\ drawdown' = drawdown - 1 /\ owed' = FALSE /\ others' = others
    BY <1>9 DEF ResetDrawdown
  <2>2. drawdown' \in Nat /\ others' \in Levels
    BY <2>1 DEF LatchInv
  <2>3. ~owed'
    BY <2>1
  <2> QED BY <2>2, <2>3 DEF LatchInv
<1>10. CASE \E l \in KillLevelsSeen : OtherLatch(l)
  BY <1>10, ControlAssumption DEF OtherLatch, LatchInv
<1>11. CASE \E t \in Readings : Maintenance(t)
  BY <1>1, <1>11 DEF Maintenance, kill
<1>12. CASE ClockAdvance
  BY <1>1, <1>12 DEF ClockAdvance, kill
<1>13. CASE Restart
  BY <1>1, <1>13 DEF Restart
<1>14. CASE UNCHANGED vars
  BY <1>1, <1>14 DEF vars, kill
<1> QED BY <1>2, <1>3, <1>4, <1>5, <1>6, <1>7, <1>8, <1>9, <1>10, <1>11, <1>12, <1>13, <1>14 DEF Next

\* A decision that is approved failed no gate, and none of its soft failures is left.
LEMMA ApprovedGates ==
  ASSUME NEW sig, NEW s, evaluate(sig, s) = "approved"
  PROVE  /\ phase_one(sig, s) = {} /\ phase_two(sig, s) = {} /\ ~Soft(sig, s)
         /\ C01Pass(sig, s)
<1>1. Hard(sig, s) = {} /\ ~Soft(sig, s)
  BY DEF evaluate
<1>2. phase_one(sig, s) = {} /\ phase_two(sig, s) = {}
  BY <1>1 DEF Hard
<1>3. ~GateFails("C01", sig, s)
  <2> SUFFICES ASSUME GateFails("C01", sig, s) PROVE FALSE
    OBVIOUS
  <2>1. 1 \in DOMAIN Gates /\ Gates[1] = "C01" /\ 1..(1 - 1) = {}
    BY DEF Gates
  <2> DEFINE J == {j \in DOMAIN Gates : /\ GateFails(Gates[j], sig, s)
                                        /\ \A k \in 1..(j - 1) : ~GateFails(Gates[k], sig, s)}
  <2>2. 1 \in J
    BY <2>1
  <2>3. phase_one(sig, s) = {Gates[j] : j \in J}
    BY DEF phase_one
  <2> HIDE DEF J
  <2> QED BY <1>2, <2>2, <2>3
<1>4. C01Pass(sig, s)
  BY <1>1, <1>3 DEF GateFails, Soft
<1> QED BY <1>1, <1>2, <1>4

\* report.rs for every configuration: while a breach of the daily drawdown is owed, the
\* controls pass nothing but a reducing order that a human releases.
THEOREM BreachHolds == Spec => BreachStopsRisk
<1> DEFINE A == (owed /\ deciding = Idle /\ deciding' # Idle)
                  => /\ deciding'.mode = "release"
                     /\ is_risk_reducing(Sig[deciding'.id], book.acct[Sig[deciding'.id].sym])
<1>1. LatchInv /\ [Next]_vars => A
  <2> SUFFICES ASSUME LatchInv, [Next]_vars, owed, deciding = Idle, deciding' # Idle
               PROVE  /\ deciding'.mode = "release"
                      /\ is_risk_reducing(Sig[deciding'.id], book.acct[Sig[deciding'.id].sym])
    OBVIOUS
  <2>1. PICK i \in Ids, mode \in {"submit", "release"}, t \in Readings : Evaluate(i, mode, t)
    BY DEF Next, vars, decided, Push, Approve, HoldEnds, Report, LatchCheck, LatchTrigger,
           ResetDrawdown, OtherLatch, Maintenance, ClockAdvance, Restart
  <2> DEFINE snap == snapshot(i, mode, t)
  <2>2. evaluate(Sig[i], snap) = "approved"
    BY <2>1 DEF Evaluate
  <2>3. deciding'.id = i /\ deciding'.mode = mode
    BY <2>1, <2>2 DEF Evaluate
  <2>4. snap.kill = Level /\ snap.mode = mode /\ snap.acct = book.acct[Sig[i].sym]
    BY DEF snapshot
  <2>5. Level >= LOGIC /\ Level \in Nat
    BY DEF LatchInv, Level, MaxOf, Levels, LOGIC, NORMAL, PHYSICAL
  <2>6. C01Pass(Sig[i], snap)
    BY <2>2, ApprovedGates
  <2> HIDE DEF snap
  <2>7. mode = "release" /\ is_risk_reducing(Sig[i], snap.acct)
    BY <2>4, <2>5, <2>6 DEF C01Pass, NORMAL, SOFT, LOGIC
  <2> QED BY <2>3, <2>4, <2>7
<1>2. Init /\ [][Next]_vars => [][A]_vars
  BY <1>1, InitLatch, StepLatch, PTL
<1> QED BY <1>2 DEF Spec, BreachStopsRisk

-----------------------------------------------------------------------------
(* Accounts                                                                *)

\* An open order, a closed one, tables of either by order id, and the account of a
\* symbol (portfolio.rs).
Entries == [sell : BOOLEAN, qty : Int, cum : Int, exp : Int, submitted : BOOLEAN]
Ended   == [sell : BOOLEAN, cum : Int, at : Int]
Tables(E) == UNION {[S -> E] : S \in SUBSET Ids}
Accts   == [pos : Int, open : Tables(Entries), closed : Tables(Ended)]

\* What membership in a table of orders says.
LEMMA TableIs ==
  ASSUME NEW E, NEW f
  PROVE  f \in Tables(E) <=> f \in [DOMAIN f -> E] /\ DOMAIN f \subseteq Ids
  BY DEF Tables

\* Dropping orders leaves a part of the table.
LEMMA DropTable ==
  ASSUME NEW E, NEW f \in Tables(E), NEW X
  PROVE  /\ Drop(f, X) \in Tables(E)
         /\ DOMAIN Drop(f, X) = DOMAIN f \ X
         /\ \A o \in DOMAIN f \ X : Drop(f, X)[o] = f[o]
<1>1. f \in [DOMAIN f -> E] /\ DOMAIN f \subseteq Ids
  BY TableIs
<1>2. DOMAIN Drop(f, X) = DOMAIN f \ X /\ Drop(f, X) \in [DOMAIN f \ X -> E]
  BY <1>1 DEF Drop
<1> QED BY <1>1, <1>2, TableIs DEF Drop

\* Putting an order changes that entry only.
LEMMA PutTable ==
  ASSUME NEW E, NEW f \in Tables(E), NEW k \in Ids, NEW e \in E
  PROVE  /\ Put(f, k, e) \in Tables(E)
         /\ DOMAIN Put(f, k, e) = DOMAIN f \cup {k}
         /\ Put(f, k, e)[k] = e
         /\ \A o \in DOMAIN f \ {k} : Put(f, k, e)[o] = f[o]
<1>1. f \in [DOMAIN f -> E] /\ DOMAIN f \subseteq Ids
  BY TableIs
<1>2. DOMAIN Put(f, k, e) = DOMAIN f \cup {k} /\ Put(f, k, e) \in [DOMAIN f \cup {k} -> E]
  BY <1>1 DEF Put
<1> QED BY <1>1, <1>2, TableIs DEF Put

\* The account of a symbol before any order.
LEMMA EmptyAcct == EmptyPortfolio \in Accts
<1>1. \A E : [o \in {} |-> 0] \in Tables(E)
  BY DEF Tables
<1> QED BY <1>1 DEF EmptyPortfolio, Accts

\* A reservation puts one open order and leaves the position alone.
LEMMA ReserveAcct ==
  ASSUME NEW p \in Accts, NEW i \in Ids, NEW sell \in BOOLEAN, NEW q \in Int, NEW x \in Int
  PROVE  LET e == [sell |-> sell, qty |-> q, cum |-> 0, exp |-> x, submitted |-> FALSE]
             r == reserve(p, i, sell, q, x)
         IN  e \in Entries /\ r \in Accts /\ r.pos = p.pos /\ r.open = Put(p.open, i, e)
<1> DEFINE e == [sell |-> sell, qty |-> q, cum |-> 0, exp |-> x, submitted |-> FALSE]
           o == Put(p.open, i, e)
<1>1. e \in Entries
  BY DEF Entries
<1>2. p.open \in Tables(Entries)
  BY DEF Accts
<1> HIDE DEF e
<1>3. o \in Tables(Entries)
  BY <1>1, <1>2, PutTable
<1> HIDE DEF o
<1>4. reserve(p, i, sell, q, x) = [p EXCEPT !.open = o]
  BY DEF reserve, e, o
<1>5. [p EXCEPT !.open = o] \in Accts /\ [p EXCEPT !.open = o].pos = p.pos
      /\ [p EXCEPT !.open = o].open = o
  BY <1>3 DEF Accts
<1> QED BY <1>1, <1>4, <1>5 DEF e, o

\* A release of an unsubmitted reservation only drops open orders.
LEMMA ReleaseAcct ==
  ASSUME NEW p \in Accts, NEW i
  PROVE  LET r == release_unsubmitted(p, i)
         IN  r \in Accts /\ r.pos = p.pos /\ \E X : r.open = Drop(p.open, X)
<1> DEFINE X == {o \in {i} \cap DOMAIN p.open : ~p.open[o].submitted}
           d == Drop(p.open, X)
<1>1. p.open \in Tables(Entries)
  BY DEF Accts
<1> HIDE DEF X
<1>2. d \in Tables(Entries)
  BY <1>1, DropTable
<1> HIDE DEF d
<1>3. release_unsubmitted(p, i) = [p EXCEPT !.open = d]
  BY DEF release_unsubmitted, X, d
<1>4. [p EXCEPT !.open = d] \in Accts /\ [p EXCEPT !.open = d].pos = p.pos
      /\ [p EXCEPT !.open = d].open = d
  BY <1>2 DEF Accts
<1> QED BY <1>3, <1>4 DEF d

\* So does expiry.
LEMMA ExpireAcct ==
  ASSUME NEW p \in Accts, NEW t
  PROVE  LET r == expire_reservations(p, t)
         IN  r \in Accts /\ r.pos = p.pos /\ \E X : r.open = Drop(p.open, X)
<1> DEFINE X == {o \in DOMAIN p.open : ~p.open[o].submitted /\ p.open[o].exp < t}
           Y == {o \in DOMAIN p.closed : p.closed[o].at + ClosedRetention < t}
           d == Drop(p.open, X)
           c == Drop(p.closed, Y)
<1>1. p.open \in Tables(Entries) /\ p.closed \in Tables(Ended)
  BY DEF Accts
<1> HIDE DEF X, Y
<1>2. d \in Tables(Entries) /\ c \in Tables(Ended)
  BY <1>1, DropTable
<1> HIDE DEF d, c
<1>3. expire_reservations(p, t) = [p EXCEPT !.open = d, !.closed = c]
  BY DEF expire_reservations, X, Y, d, c
<1> DEFINE r == [p EXCEPT !.open = d, !.closed = c]
<1>4. r \in Accts /\ r.pos = p.pos /\ r.open = d
  BY <1>2 DEF Accts
<1> HIDE DEF r
<1> QED BY <1>3, <1>4 DEF d, r

\* A fill report about an order this system may have sent.
IsReport(r) == r.id \in Ids /\ r.cum \in Int /\ r.sell \in BOOLEAN

\* A fill report, on an open or a closed order or on one that restart forgot, leaves
\* an account.
LEMMA ReportAcct ==
  ASSUME NEW p \in Accts, NEW r, IsReport(r), NEW t \in Int
  PROVE  apply_fill_report(p, r, t) \in Accts
<1>1. p.pos \in Int /\ p.open \in Tables(Entries) /\ p.closed \in Tables(Ended)
  BY DEF Accts
<1>2. r.id \in Ids /\ r.cum \in Int /\ r.sell \in BOOLEAN
  BY DEF IsReport
<1>3. \A n \in Int : Signed(r.sell, n) \in Int
  BY DEF Signed
<1>4. CASE r.id \in DOMAIN p.closed
  <2> DEFINE c == p.closed[r.id]
             c2 == [c EXCEPT !.cum = r.cum]
             q == p.pos + Signed(r.sell, r.cum - c.cum)
             k == Put(p.closed, r.id, c2)
  <2>1. c \in Ended
    BY <1>1, <1>4, TableIs
  <2>2. c.cum \in Int /\ c2 \in Ended
    BY <1>2, <2>1 DEF Ended
  <2>3. q \in Int
    BY <1>1, <1>2, <1>3, <2>2
  <2> HIDE DEF c2
  <2>4. k \in Tables(Ended)
    BY <1>1, <1>2, <2>2, PutTable
  <2>5. apply_fill_report(p, r, t) = [p EXCEPT !.pos = q, !.closed = k]
    BY <1>4 DEF apply_fill_report, apply_to_closed, c2
  <2> HIDE DEF q, k
  <2>6. [p EXCEPT !.pos = q, !.closed = k] \in Accts
    BY <2>3, <2>4 DEF Accts
  <2> QED BY <2>5, <2>6
<1>5. CASE r.id \notin DOMAIN p.closed
  <2> DEFINE e == Entry(p, r)
  <2>1. e \in Entries
    <3>1. CASE r.id \in DOMAIN p.open
      BY <1>1, <3>1, TableIs DEF Entry
    <3>2. CASE r.id \notin DOMAIN p.open
      BY <1>2, <3>2 DEF Entry, Entries, Forever
    <3> QED BY <3>1, <3>2
  <2>2. e.cum \in Int /\ e.qty \in Int
    BY <2>1 DEF Entries
  <2> HIDE DEF e
  <2>3. p.pos + Signed(r.sell, r.cum - e.cum) \in Int
    BY <1>1, <1>2, <1>3, <2>2
  <2>4. OpenAfter(p, r) \in Tables(Entries)
    <3> DEFINE e2 == [e EXCEPT !.cum = r.cum, !.qty = MaxOf(e.qty, r.cum), !.submitted = TRUE]
    <3>1. MaxOf(e.qty, r.cum) \in Int
      BY <1>2, <2>2 DEF MaxOf
    <3>2. e2 \in Entries
      BY <1>2, <2>1, <3>1 DEF Entries
    <3>3. Reported(p, r) = e2
      BY DEF Reported, e
    <3> HIDE DEF e2
    <3> QED BY <1>1, <1>2, <3>2, <3>3, PutTable, DropTable DEF OpenAfter
  <2>5. ClosedAfter(p, r, t) \in Tables(Ended)
    <3> DEFINE c == [sell |-> r.sell, cum |-> r.cum, at |-> t]
    <3>1. c \in Ended
      BY <1>2 DEF Ended
    <3>2. ClosedAfter(p, r, t) \in {p.closed, Put(p.closed, r.id, c)}
      BY DEF ClosedAfter
    <3> HIDE DEF c
    <3>3. Put(p.closed, r.id, c) \in Tables(Ended)
      BY <1>1, <1>2, <3>1, PutTable
    <3> QED BY <1>1, <3>2, <3>3
  <2>6. apply_fill_report(p, r, t) = [pos    |-> p.pos + Signed(r.sell, r.cum - e.cum),
                                      open   |-> OpenAfter(p, r),
                                      closed |-> ClosedAfter(p, r, t)]
    BY <1>5 DEF apply_fill_report, apply_to_open, e
  <2> QED BY <2>3, <2>4, <2>5, <2>6 DEF Accts
<1> QED BY <1>4, <1>5

-----------------------------------------------------------------------------
(* What is pending, and the worst case                                     *)

\* The open orders of a side, what an order has left, and that of each of them.
OnSide(p, sell) == {o \in DOMAIN p.open : p.open[o].sell = sell}
Left(e) == MaxOf(e.qty - e.cum, 0)
Rest(p, sell) == [o \in OnSide(p, sell) |-> Left(p.open[o])]

\* pending is the sum of what the orders of a side have left.
LEMMA PendingIsSum ==
  ASSUME NEW p, NEW sell PROVE pending(p, sell) = Sum(Rest(p, sell), OnSide(p, sell))
<1> DEFINE f == Rest(p, sell)
           S == OnSide(p, sell)
           Tab(g) == g = [s \in SUBSET S |-> IF s = {} THEN 0
                                             ELSE Left(p.open[Pick(s)]) + g[s \ {Pick(s)}]]
<1>1. pending(p, sell) = (CHOOSE g : Tab(g))[S]
  BY DEF pending, MapThenSumSet, MapThenFoldSet, Pick, OnSide, Left
<1>2. \A s \in SUBSET S : s # {} => f[Pick(s)] = Left(p.open[Pick(s)])
  BY PickIn DEF Rest
<1>3. \A g : Tab(g) <=> Table(g, f, S)
  <2> SUFFICES ASSUME NEW g PROVE Tab(g) <=> Table(g, f, S)
    OBVIOUS
  <2> HIDE DEF f, S
  <2> QED BY <1>2 DEF Table
<1>4. (CHOOSE g : Tab(g)) = (CHOOSE g : Table(g, f, S))
  BY <1>3
<1>5. Sum(f, S) = (CHOOSE g : Table(g, f, S))[S]
  BY SumIsTable
<1> QED BY <1>1, <1>4, <1>5

\* The orders of a side are finitely many and none has less than nothing left.
LEMMA RestNat ==
  ASSUME NEW p \in Accts, NEW sell
  PROVE  /\ IsFiniteSet(OnSide(p, sell))
         /\ \A o \in OnSide(p, sell) : Rest(p, sell)[o] \in Nat
<1>1. p.open \in [DOMAIN p.open -> Entries] /\ DOMAIN p.open \subseteq Ids
  BY TableIs DEF Accts
<1>2. OnSide(p, sell) \in SUBSET Ids
  BY <1>1 DEF OnSide
<1>3. \A e \in Entries : Left(e) \in Nat
  BY DEF Entries, Left, MaxOf
<1>4. \A o \in OnSide(p, sell) : p.open[o] \in Entries
  BY <1>1 DEF OnSide
<1> QED BY <1>2, <1>3, <1>4, ControlAssumption, FS_Subset DEF Rest

\* Nothing pending is less than zero.
LEMMA PendingNat == ASSUME NEW p \in Accts, NEW sell PROVE pending(p, sell) \in Nat
  BY PendingIsSum, RestNat, SumNat

\* Fewer orders have less pending.
LEMMA PendingDrop ==
  ASSUME NEW p \in Accts, NEW q, NEW X, q.open = Drop(p.open, X), NEW sell
  PROVE  pending(q, sell) <= pending(p, sell)
<1> DEFINE S == OnSide(p, sell)
           T == OnSide(q, sell)
<1>1. DOMAIN q.open = DOMAIN p.open \ X /\ \A o \in DOMAIN q.open : q.open[o] = p.open[o]
  <2> DEFINE d == Drop(p.open, X)
  <2>1. DOMAIN d = DOMAIN p.open \ X /\ \A o \in DOMAIN p.open \ X : d[o] = p.open[o]
    BY DEF Drop
  <2>2. q.open = d
    OBVIOUS
  <2> HIDE DEF d
  <2> QED BY <2>1, <2>2
<1>2. T \in SUBSET S
  BY <1>1 DEF OnSide
<1>3. \A o \in T : Rest(q, sell)[o] = Rest(p, sell)[o]
  BY <1>1, <1>2 DEF Rest, OnSide
<1>4. Sum(Rest(q, sell), T) = Sum(Rest(p, sell), T)
  BY <1>3, SumSame
<1>5. Sum(Rest(p, sell), T) <= Sum(Rest(p, sell), S)
  BY <1>2, RestNat, SumSubset
<1> QED BY <1>4, <1>5, PendingIsSum

\* A new order adds at most what it has left, on its own side.
LEMMA PendingPut ==
  ASSUME NEW p \in Accts, NEW q \in Accts, NEW i \in Ids, NEW e \in Entries,
         q.open = Put(p.open, i, e), NEW sell
  PROVE  pending(q, sell) <= pending(p, sell) + (IF e.sell = sell THEN Left(e) ELSE 0)
<1> DEFINE S == OnSide(p, sell)
           T == OnSide(q, sell)
           fp == Rest(p, sell)
           fq == Rest(q, sell)
<1>1. /\ DOMAIN q.open = DOMAIN p.open \cup {i} /\ q.open[i] = e
      /\ \A o \in DOMAIN p.open \ {i} : q.open[o] = p.open[o]
  <2> DEFINE d == Put(p.open, i, e)
  <2>1. /\ DOMAIN d = DOMAIN p.open \cup {i} /\ d[i] = e
        /\ \A o \in DOMAIN p.open \ {i} : d[o] = p.open[o]
    BY DEF Put
  <2>2. q.open = d
    OBVIOUS
  <2> HIDE DEF d
  <2> QED BY <2>1, <2>2
<1>2. T \ {i} \in SUBSET S
  BY <1>1 DEF OnSide
<1>3. \A o \in T \ {i} : fq[o] = fp[o]
  BY <1>1, <1>2 DEF Rest, OnSide
<1>4. Sum(fq, T \ {i}) = Sum(fp, T \ {i})
  BY <1>3, SumSame
<1>5. Sum(fp, T \ {i}) <= Sum(fp, S)
  BY <1>2, RestNat, SumSubset
<1>6. Sum(fp, S) \in Nat /\ Sum(fp, T \ {i}) \in Nat
  <2>1. IsFiniteSet(T \ {i}) /\ \A o \in T \ {i} : fp[o] \in Nat
    BY <1>2, RestNat, FS_Subset
  <2> QED BY <2>1, RestNat, SumNat
<1>7. CASE e.sell = sell
  <2>1. i \in T /\ fq[i] = Left(e)
    BY <1>1, <1>7 DEF OnSide, Rest
  <2>2. Sum(fq, T) = fq[i] + Sum(fq, T \ {i})
    BY <2>1, RestNat, SumRemove
  <2>3. fq[i] \in Nat
    BY <2>1, RestNat
  <2> HIDE DEF fp, fq, S, T
  <2>4. Sum(fq, T) <= Sum(fp, S) + Left(e)
    BY <1>4, <1>5, <1>6, <2>1, <2>2, <2>3
  <2> QED BY <1>7, <2>4, PendingIsSum DEF fp, fq, S, T
<1>8. CASE e.sell # sell
  <2>1. T \ {i} = T
    BY <1>1, <1>8 DEF OnSide
  <2>2. Sum(fq, T) <= Sum(fp, S) + 0
    <3> HIDE DEF fp, fq, S, T
    <3> QED BY <1>4, <1>5, <1>6, <2>1
  <2> QED BY <1>8, <2>2, PendingIsSum
<1> QED BY <1>7, <1>8

\* The worst case is at an end of the interval of positions that may come.
LEMMA WorstMonotone ==
  ASSUME NEW pos \in Int, NEW a \in Nat, NEW b \in Nat, NEW c \in Nat, NEW d \in Nat,
         a <= c, b <= d
  PROVE  MaxOf(Abs(pos + a), Abs(pos - b)) <= MaxOf(Abs(pos + c), Abs(pos - d))
  BY DEF MaxOf, Abs

\* What an order of n adds to the buys and to the sells.
Buys(sell, n)  == IF sell THEN 0 ELSE n
Sells(sell, n) == IF sell THEN n ELSE 0

\* What is pending on each side with an order of n.
Long(p, sell, n)  == pending(p, FALSE) + Buys(sell, n)
Short(p, sell, n) == pending(p, TRUE) + Sells(sell, n)

\* Both sides are natural numbers.
LEMMA SidesNat ==
  ASSUME NEW p \in Accts, NEW sell \in BOOLEAN, NEW n \in Nat
  PROVE  p.pos \in Int /\ Long(p, sell, n) \in Nat /\ Short(p, sell, n) \in Nat
<1> DEFINE x == pending(p, FALSE)
           y == pending(p, TRUE)
           u == Buys(sell, n)
           v == Sells(sell, n)
<1>1. x \in Nat /\ y \in Nat /\ p.pos \in Int
  BY PendingNat DEF Accts
<1>2. u \in Nat /\ v \in Nat
  BY DEF Buys, Sells
<1> HIDE DEF x, y, u, v
<1>3. x + u \in Nat /\ y + v \in Nat
  BY <1>1, <1>2
<1> QED BY <1>1, <1>3 DEF Long, Short, x, y, u, v

\* The worst case written with the two sides.
LEMMA WorstIs ==
  ASSUME NEW p \in Accts, NEW sell \in BOOLEAN, NEW n \in Nat
  PROVE  worst_case_position(p, sell, n)
           = MaxOf(Abs(p.pos + Long(p, sell, n)), Abs(p.pos - Short(p, sell, n)))
<1> DEFINE x == pending(p, FALSE)
           y == pending(p, TRUE)
           u == Buys(sell, n)
           v == Sells(sell, n)
<1>1. x \in Nat /\ y \in Nat /\ p.pos \in Int
  BY PendingNat DEF Accts
<1>2. u \in Nat /\ v \in Nat
  BY DEF Buys, Sells
<1>3. worst_case_position(p, sell, n) = MaxOf(Abs(p.pos + x + u), Abs(p.pos - y - v))
  BY DEF worst_case_position, Buys, Sells
<1> HIDE DEF x, y, u, v
<1>4. p.pos + x + u = p.pos + (x + u) /\ p.pos - y - v = p.pos - (y + v)
  BY <1>1, <1>2
<1>5. x + u = Long(p, sell, n) /\ y + v = Short(p, sell, n)
  BY DEF Long, Short, x, y, u, v
<1> QED BY <1>3, <1>4, <1>5

\* The worst case is a quantity.
LEMMA WorstNat ==
  ASSUME NEW p \in Accts, NEW sell \in BOOLEAN, NEW n \in Nat
  PROVE  worst_case_position(p, sell, n) \in Nat
<1> DEFINE x == Long(p, sell, n)
           y == Short(p, sell, n)
<1>1. p.pos \in Int /\ x \in Nat /\ y \in Nat
  BY SidesNat
<1> HIDE DEF x, y
<1>2. MaxOf(Abs(p.pos + x), Abs(p.pos - y)) \in Nat
  BY <1>1 DEF MaxOf, Abs
<1> QED BY <1>2, WorstIs DEF x, y

\* An account with the same position and no more pending than another has with n more
\* on one side is no worse than that.
LEMMA WorstWithin ==
  ASSUME NEW p \in Accts, NEW q \in Accts, q.pos = p.pos, NEW sell \in BOOLEAN, NEW n \in Nat,
         pending(q, FALSE) <= Long(p, sell, n), pending(q, TRUE) <= Short(p, sell, n)
  PROVE  WorstOf(q) <= worst_case_position(p, sell, n)
<1> DEFINE a == pending(q, FALSE)
           b == pending(q, TRUE)
           c == Long(p, sell, n)
           d == Short(p, sell, n)
<1>1. p.pos \in Int /\ c \in Nat /\ d \in Nat
  BY SidesNat
<1>2. a \in Nat /\ b \in Nat
  BY PendingNat
<1>3. a <= c /\ b <= d
  OBVIOUS
<1>4. FALSE \in BOOLEAN /\ 0 \in Nat
  OBVIOUS
<1>5. WorstOf(q) = MaxOf(Abs(q.pos + Long(q, FALSE, 0)), Abs(q.pos - Short(q, FALSE, 0)))
  BY <1>4, WorstIs DEF WorstOf
<1>6. Long(q, FALSE, 0) = a + 0 /\ Short(q, FALSE, 0) = b + 0
  BY DEF Long, Short, Buys, Sells
<1>7. worst_case_position(p, sell, n) = MaxOf(Abs(p.pos + c), Abs(p.pos - d))
  BY WorstIs
<1> HIDE DEF a, b, c, d
<1>8. a + 0 = a /\ b + 0 = b
  BY <1>2
<1>9. MaxOf(Abs(p.pos + a), Abs(p.pos - b)) <= MaxOf(Abs(p.pos + c), Abs(p.pos - d))
  BY <1>1, <1>2, <1>3, WorstMonotone
<1> QED BY <1>5, <1>6, <1>7, <1>8, <1>9

-----------------------------------------------------------------------------
(* Rounding                                                                *)

\* What a division by a positive number leaves.
LEMMA DivBounds ==
  ASSUME NEW x \in Int, NEW u \in Nat \ {0}
  PROVE  x \div u \in Int /\ (x \div u) * u <= x /\ x < (x \div u) * u + u
  OBVIOUS

\* A product that is rounded up is not below the exact one.
LEMMA MulUp ==
  ASSUME NEW a \in Nat, NEW b \in Nat
  PROVE  mul_up(a, b) \in Int /\ a * b <= Unit * mul_up(a, b)
<1> DEFINE x == a * b
           q == (x + Unit - 1) \div Unit
<1>1. x \in Nat /\ Unit \in Nat \ {0}
  BY Product, ControlAssumption
<1> HIDE DEF x
<1>2. x + Unit - 1 \in Int
  BY <1>1
<1>3. q \in Int /\ x + Unit - 1 < q * Unit + Unit
  BY <1>1, <1>2, DivBounds
<1>4. mul_up(a, b) = q
  BY DEF mul_up, x
<1> HIDE DEF q
<1>5. q * Unit \in Int /\ q * Unit = Unit * q
  BY <1>1, <1>3
<1>6. x <= Unit * q
  BY <1>1, <1>3, <1>5
<1> QED BY <1>3, <1>4, <1>6 DEF x

-----------------------------------------------------------------------------
(* Gross exposure                                                          *)

\* The worst case of each symbol in the portfolio b at the marks m, and their sum.
Exposed(b, m) == [s \in Symbols |-> WorstOf(b.acct[s]) * m[s]]
GrossAt(b, m) == MapThenSumSet(LAMBDA s : WorstOf(b.acct[s]) * m[s], Symbols)

\* The gross exposure that the property names is a sum over the symbols.
LEMMA GrossIsSum == ASSUME NEW b, NEW m PROVE GrossAt(b, m) = Sum(Exposed(b, m), Symbols)
<1> DEFINE f == Exposed(b, m)
           Tab(g) == g = [s \in SUBSET Symbols |->
                            IF s = {} THEN 0
                            ELSE WorstOf(b.acct[Pick(s)]) * m[Pick(s)] + g[s \ {Pick(s)}]]
<1>1. GrossAt(b, m) = (CHOOSE g : Tab(g))[Symbols]
  BY DEF GrossAt, MapThenSumSet, MapThenFoldSet, Pick
<1>2. \A s \in SUBSET Symbols : s # {} => f[Pick(s)] = WorstOf(b.acct[Pick(s)]) * m[Pick(s)]
  BY PickIn DEF Exposed
<1>3. \A g : Tab(g) <=> Table(g, f, Symbols)
  <2> SUFFICES ASSUME NEW g PROVE Tab(g) <=> Table(g, f, Symbols)
    OBVIOUS
  <2> HIDE DEF f
  <2> QED BY <1>2 DEF Table
<1>4. (CHOOSE g : Tab(g)) = (CHOOSE g : Table(g, f, Symbols))
  BY <1>3
<1> QED BY <1>1, <1>4, SumIsTable

\* The other symbols that have an exposure, each rounded up at its own mid, as
\* others_gross of sizing.rs counts them.
Marked(b, sym)  == {s \in Symbols \ {sym} : WorstOf(b.acct[s]) # 0}
Rounded(b, sym) == [s \in Marked(b, sym) |-> mul_up(WorstOf(b.acct[s]), price[s].mid)]

\* others_gross, where every exposed symbol has a price, is that sum.
LEMMA OthersIsSum ==
  ASSUME NEW b, NEW sym, others_gross(b, sym) # -1
  PROVE  others_gross(b, sym) = Sum(Rounded(b, sym), Marked(b, sym))
<1> DEFINE f == Rounded(b, sym)
           S == Marked(b, sym)
           Tab(g) == g = [s \in SUBSET S |->
                            IF s = {} THEN 0
                            ELSE mul_up(WorstOf(b.acct[Pick(s)]), price[Pick(s)].mid)
                                   + g[s \ {Pick(s)}]]
<1>1. others_gross(b, sym) = (CHOOSE g : Tab(g))[S]
  <2>1. others_gross(b, sym)
          = MapThenSumSet(LAMBDA s : mul_up(WorstOf(b.acct[s]), price[s].mid), S)
    BY DEF others_gross, Marked
  <2> QED BY <2>1 DEF MapThenSumSet, MapThenFoldSet, Pick
<1>2. \A s \in SUBSET S : s # {} => f[Pick(s)] = mul_up(WorstOf(b.acct[Pick(s)]), price[Pick(s)].mid)
  BY PickIn DEF Rounded
<1>3. \A g : Tab(g) <=> Table(g, f, S)
  <2> SUFFICES ASSUME NEW g PROVE Tab(g) <=> Table(g, f, S)
    OBVIOUS
  <2> HIDE DEF f, S
  <2> QED BY <1>2 DEF Table
<1>4. (CHOOSE g : Tab(g)) = (CHOOSE g : Table(g, f, S))
  BY <1>3
<1> QED BY <1>1, <1>4, SumIsTable

\* The worst case of an account alone is a quantity.
LEMMA WorstOfNat == ASSUME NEW p \in Accts PROVE WorstOf(p) \in Nat
<1>1. FALSE \in BOOLEAN /\ 0 \in Nat
  OBVIOUS
<1> QED BY <1>1, WorstNat DEF WorstOf

\* An account with the same position and no more pending is no worse.
LEMMA WorstShrinks ==
  ASSUME NEW p \in Accts, NEW q \in Accts, q.pos = p.pos,
         pending(q, FALSE) <= pending(p, FALSE), pending(q, TRUE) <= pending(p, TRUE)
  PROVE  WorstOf(q) <= WorstOf(p)
<1> DEFINE x == pending(p, FALSE)
           y == pending(p, TRUE)
<1>1. x \in Nat /\ y \in Nat
  BY PendingNat
<1>2. x + 0 = x /\ y + 0 = y
  <2> HIDE DEF x, y
  <2> QED BY <1>1
<1>3. Long(p, FALSE, 0) = x + 0 /\ Short(p, FALSE, 0) = y + 0
  BY DEF Long, Short, Buys, Sells
<1>4. pending(q, FALSE) <= Long(p, FALSE, 0) /\ pending(q, TRUE) <= Short(p, FALSE, 0)
  BY <1>2, <1>3
<1>5. FALSE \in BOOLEAN /\ 0 \in Nat
  OBVIOUS
<1>6. WorstOf(q) <= worst_case_position(p, FALSE, 0)
  BY <1>4, <1>5, WorstWithin
<1> QED BY <1>6 DEF WorstOf

\* The exposures are naturals.
LEMMA ExposedNat ==
  ASSUME NEW b, b.acct \in [Symbols -> Accts], NEW m, \A s \in Symbols : m[s] \in Nat
  PROVE  \A s \in Symbols : Exposed(b, m)[s] = WorstOf(b.acct[s]) * m[s] /\ Exposed(b, m)[s] \in Nat
<1> SUFFICES ASSUME NEW s \in Symbols
             PROVE  Exposed(b, m)[s] = WorstOf(b.acct[s]) * m[s] /\ Exposed(b, m)[s] \in Nat
  OBVIOUS
<1>1. WorstOf(b.acct[s]) \in Nat /\ m[s] \in Nat
  BY WorstOfNat
<1>2. WorstOf(b.acct[s]) * m[s] \in Nat
  BY <1>1, Product
<1> QED BY <1>2 DEF Exposed

\* The other symbols' exposure, in exact numbers, is within the rounded sum of C14.
LEMMA OthersCover ==
  ASSUME NEW b, b.acct \in [Symbols -> Accts], NEW sym \in Symbols,
         others_gross(b, sym) # -1, \A s \in Symbols : price[s].mid \in Nat,
         NEW m, \A s \in Symbols : m[s] = price[s].mid
  PROVE  /\ others_gross(b, sym) \in Int
         /\ Sum(Exposed(b, m), Symbols \ {sym}) <= Unit * others_gross(b, sym)
<1> DEFINE f == Exposed(b, m)
           h == Rounded(b, sym)
           T == Marked(b, sym)
           S == Symbols \ {sym}
<1>1. T \in SUBSET S /\ S \in SUBSET Symbols /\ IsFiniteSet(S) /\ IsFiniteSet(T)
  <2>1. T \in SUBSET S /\ S \in SUBSET Symbols
    BY DEF Marked
  <2> QED BY <2>1, ControlAssumption, FS_Subset
<1>2. \A s \in Symbols : f[s] = WorstOf(b.acct[s]) * m[s] /\ f[s] \in Nat
  BY ExposedNat
<1>3. ASSUME NEW s \in T
      PROVE  f[s] \in Int /\ h[s] \in Int /\ f[s] <= Unit * h[s]
  <2>1. s \in Symbols /\ WorstOf(b.acct[s]) \in Nat /\ price[s].mid \in Nat /\ m[s] = price[s].mid
    BY <1>1, WorstOfNat
  <2>2. h[s] = mul_up(WorstOf(b.acct[s]), price[s].mid)
    BY DEF Rounded
  <2>3. /\ mul_up(WorstOf(b.acct[s]), price[s].mid) \in Int
        /\ WorstOf(b.acct[s]) * price[s].mid <= Unit * mul_up(WorstOf(b.acct[s]), price[s].mid)
    BY <2>1, MulUp
  <2>4. f[s] = WorstOf(b.acct[s]) * price[s].mid /\ f[s] \in Nat
    BY <1>2, <2>1
  <2> HIDE DEF f, h
  <2> QED BY <2>2, <2>3, <2>4
<1>4. ASSUME NEW s \in S \ T PROVE f[s] = 0
  <2>1. WorstOf(b.acct[s]) = 0 /\ m[s] \in Nat
    BY <1>4 DEF Marked
  <2>2. 0 * m[s] = 0
    BY <2>1
  <2>3. f[s] = WorstOf(b.acct[s]) * m[s]
    BY <1>2
  <2> QED BY <2>1, <2>2, <2>3
<1> HIDE DEF f, h, T, S
<1>5. Sum(f, S) = Sum(f, T)
  BY <1>1, <1>2, <1>4, SumSupport
<1>6. Sum(f, T) <= Unit * Sum(h, T)
  BY <1>1, <1>3, ControlAssumption, SumBound
<1>7. Sum(h, T) \in Int
  BY <1>1, <1>3, SumInt
<1>8. others_gross(b, sym) = Sum(h, T)
  BY OthersIsSum DEF h, T
<1> QED BY <1>5, <1>6, <1>7, <1>8 DEF f, S

-----------------------------------------------------------------------------
(* Price, notional and gross limits                                        *)

\* What the controls established of the decision d, on the portfolio as it is.
Checked(d) ==
  LET g == Sig[d.id]
      mid == d.marks[g.sym]
  IN  /\ \A s \in Symbols : d.marks[s] \in Nat
      /\ d.price > 0
      /\ Abs(d.price - mid) * BpsBase <= mid * CollarBps
      /\ d.price * g.qty <= Caps[g.sym].notional * Unit
      /\ worst_case_position(book.acct[g.sym], IsSell(g), g.qty) * mid
           + Sum(Exposed(book, d.marks), Symbols \ {g.sym}) <= MaxGross * Unit

\* The portfolios in memory and in the file hold accounts.
Accounts == book.acct \in [Symbols -> Accts] /\ file.acct \in [Symbols -> Accts]

\* Every mid is a natural number, the unknown one included.
Priced == \A s \in Symbols : price[s].mid \in Nat

\* The inductive invariant of the limits.
LimitInv ==
  /\ restarts \in Nat
  /\ Accounts /\ Priced
  /\ deciding # Idle => Checked(deciding)

\* An approved order is for a symbol that has limits.
LEMMA ApprovedAllowed ==
  ASSUME NEW sig, NEW s, evaluate(sig, s) = "approved" PROVE sig.sym \in Allowed
<1> SUFFICES ASSUME sig.sym \notin Allowed PROVE FALSE
  OBVIOUS
<1>1. phase_one(sig, s) = {}
  BY ApprovedGates
<1> DEFINE J == {j \in DOMAIN Gates : /\ GateFails(Gates[j], sig, s)
                                      /\ \A k \in 1..(j - 1) : ~GateFails(Gates[k], sig, s)}
<1>2. /\ DOMAIN Gates = 1..5 /\ Gates[1] = "C01" /\ Gates[2] = "C03"
      /\ 1..(1 - 1) = {} /\ 1..(2 - 1) = {1}
  BY DEF Gates
<1>3. GateFails(Gates[2], sig, s)
  BY <1>2 DEF GateFails
<1>4. 1 \in J \/ 2 \in J
  BY <1>2, <1>3
<1>5. phase_one(sig, s) = {Gates[j] : j \in J}
  BY DEF phase_one
<1> HIDE DEF J
<1> QED BY <1>1, <1>4, <1>5

\* The controls that an approved order passed.
LEMMA ApprovedLimits ==
  ASSUME NEW sig, NEW s, evaluate(sig, s) = "approved"
  PROVE  InCollar(sig, s) /\ NotionalFits(sig, s) /\ GrossFits(sig, s)
<1>1. phase_two(sig, s) = {}
  BY ApprovedGates
<1>2. \A c \in Limits : ~LimitFails(c, sig, s)
  BY <1>1 DEF phase_two
<1>3. "C09" \in Limits /\ "C11" \in Limits /\ "C14" \in Limits
  BY DEF Limits
<1>4. ~LimitFails("C09", sig, s) /\ ~LimitFails("C11", sig, s) /\ ~LimitFails("C14", sig, s)
  BY <1>2, <1>3
<1> QED BY <1>4 DEF LimitFails, SizeFails

\* A rounded-down share of the mid is within the share.
LEMMA CollarExact ==
  ASSUME NEW mid \in Nat, NEW x \in Int, x <= bps_of_down(mid, CollarBps)
  PROVE  x * BpsBase <= mid * CollarBps
<1> DEFINE y == mid * CollarBps
           a == y \div BpsBase
<1>1. y \in Nat /\ BpsBase \in Nat \ {0}
  BY Product, ControlAssumption
<1> HIDE DEF y
<1>2. a \in Int /\ a * BpsBase <= y
  BY <1>1, DivBounds
<1>3. x <= a
  BY DEF bps_of_down, y
<1> HIDE DEF a
<1>4. BpsBase * x <= BpsBase * a
  BY <1>1, <1>2, <1>3, ProductMonotone
<1>5. BpsBase * x = x * BpsBase /\ BpsBase * a = a * BpsBase /\ x * BpsBase \in Int /\ a * BpsBase \in Int
  BY <1>1, <1>2
<1> QED BY <1>1, <1>2, <1>4, <1>5 DEF y

\* The price of an order is a number.
LEMMA OrderPriceInt ==
  ASSUME NEW sig, sig.limit \in Nat, NEW s, s.price.mid \in Nat
  PROVE  order_price(sig, s) \in Int /\ allowed(s) \in Int
<1> DEFINE y == s.price.mid * CollarBps
<1>1. y \in Nat /\ BpsBase \in Nat \ {0}
  BY Product, ControlAssumption
<1> HIDE DEF y
<1>2. y \div BpsBase \in Int
  BY <1>1, DivBounds
<1>3. allowed(s) \in Int
  BY <1>2 DEF allowed, bps_of_down, y
<1>4. s.price.mid + allowed(s) \in Int /\ s.price.mid - allowed(s) \in Int
  BY <1>3
<1> QED BY <1>3, <1>4 DEF order_price

\* What a rounded-up product within a cap says of the exact one.
LEMMA WithinCap ==
  ASSUME NEW a \in Nat, NEW b \in Nat, NEW c \in Int, mul_up(a, b) <= c
  PROVE  a * b <= c * Unit
<1>1. mul_up(a, b) \in Int /\ a * b <= Unit * mul_up(a, b) /\ Unit \in Nat /\ a * b \in Nat
  BY MulUp, Product, ControlAssumption
<1>2. Unit * mul_up(a, b) <= Unit * c
  BY <1>1, ProductMonotone
<1>3. Unit * c = c * Unit /\ Unit * c \in Int /\ Unit * mul_up(a, b) \in Int
  BY <1>1
<1> QED BY <1>1, <1>2, <1>3

\* C09, C11 and C14 hold of an approved decision in exact numbers.
LEMMA EvaluateLimits ==
  ASSUME LimitInv, NEW i \in Ids, NEW mode, NEW t, Evaluate(i, mode, t)
  PROVE  LimitInv'
<1> DEFINE g == Sig[i]
           sym == g.sym
           snap == snapshot(i, mode, t)
<1>1. sym \in Symbols /\ g.qty \in Nat /\ g.limit \in Nat
  BY ControlAssumption
<1>2. UNCHANGED <<restarts, book, file, price>>
  BY DEF Evaluate, feed
<1>3. restarts' \in Nat /\ Accounts' /\ Priced'
  BY <1>2 DEF LimitInv, Accounts, Priced
<1>4. CASE evaluate(g, snap) = "approved"
  <2> DEFINE m == [s \in Symbols |-> price[s].mid]
             mid == price[sym].mid
             p == order_price(g, snap)
             acct == book.acct[sym]
             w == worst_case_position(acct, IsSell(g), g.qty)
             o == others_gross(book, sym)
             rest == Sum(Exposed(book, m), Symbols \ {sym})
  <2>1. deciding' = [id |-> i, mode |-> mode, at |-> t, price |-> p, marks |-> m]
    BY <1>4 DEF Evaluate
  <2>2. deciding'.id = i /\ deciding'.price = p /\ deciding'.marks = m
    BY <2>1
  <2>3. snap.price = price[sym] /\ snap.acct = acct /\ snap.others = o
    BY DEF snapshot
  <2>4. mid \in Nat /\ \A s \in Symbols : m[s] \in Nat /\ m[s] = price[s].mid
    BY <1>1 DEF LimitInv, Priced
  <2>5. InCollar(g, snap) /\ NotionalFits(g, snap) /\ GrossFits(g, snap) /\ sym \in Allowed
    BY <1>4, ApprovedLimits, ApprovedAllowed
  <2>6. p \in Int /\ allowed(snap) \in Int
    BY <1>1, <2>3, <2>4, OrderPriceInt
  <2>7. p > 0 /\ Abs(p - mid) <= bps_of_down(mid, CollarBps)
    BY <2>3, <2>5 DEF InCollar, allowed
  <2>8. Abs(p - mid) * BpsBase <= mid * CollarBps
    <3> HIDE DEF p, mid
    <3>1. Abs(p - mid) \in Int
      BY <2>4, <2>6 DEF Abs, MaxOf
    <3> QED BY <2>4, <2>7, <3>1, CollarExact
  <2>9. p * g.qty <= Caps[sym].notional * Unit
    <3>1. mul_up(p, g.qty) <= Caps[sym].notional
      BY <2>5 DEF NotionalFits
    <3>2. Caps[sym].notional \in Int
      BY <2>5, ControlAssumption
    <3> HIDE DEF p
    <3>3. p \in Nat
      BY <2>6, <2>7
    <3> QED BY <1>1, <3>1, <3>2, <3>3, WithinCap
  <2>10. acct \in Accts /\ book.acct \in [Symbols -> Accts]
    BY <1>1 DEF LimitInv, Accounts
  <2>11. w \in Nat
    <3>1. IsSell(g) \in BOOLEAN
      BY DEF IsSell
    <3> QED BY <1>1, <2>10, <3>1, WorstNat
  <2>12. o # -1 /\ mul_up(w, mid) + o <= MaxGross
    BY <2>3, <2>5 DEF GrossFits, Worst
  <2>13. o \in Int /\ rest <= Unit * o
    <3>1. \A s \in Symbols : price[s].mid \in Nat
      BY DEF LimitInv, Priced
    <3> HIDE DEF m
    <3> QED BY <1>1, <2>4, <2>10, <2>12, <3>1, OthersCover
  <2>14. rest \in Int
    <3>1. Symbols \ {sym} \in SUBSET Symbols
      OBVIOUS
    <3>2. IsFiniteSet(Symbols \ {sym})
      BY <3>1, ControlAssumption, FS_Subset
    <3>3. \A s \in Symbols : Exposed(book, m)[s] \in Nat
      BY <2>4, <2>10, ExposedNat
    <3>4. \A s \in Symbols \ {sym} : Exposed(book, m)[s] \in Int
      BY <3>3
    <3> HIDE DEF m
    <3> QED BY <3>2, <3>4, SumInt
  <2>15. w * mid + rest <= MaxGross * Unit
    <3> DEFINE u == mul_up(w, mid)
    <3> HIDE DEF w, o, rest, mid
    <3>1. u \in Int /\ w * mid <= Unit * u /\ w * mid \in Nat
      BY <2>4, <2>11, MulUp, Product
    <3>2. u + o <= MaxGross
      BY <2>12
    <3> HIDE DEF u
    <3>3. Unit \in Nat /\ MaxGross \in Nat
      BY ControlAssumption
    <3>4. Unit * (u + o) <= Unit * MaxGross
      <4>1. u + o \in Int /\ MaxGross \in Int
        BY <2>13, <3>1, <3>3
      <4> QED BY <3>2, <3>3, <4>1, ProductMonotone
    <3>5. Unit * (u + o) = Unit * u + Unit * o
      BY <2>13, <3>1, <3>3
    <3>6. Unit * u \in Int /\ Unit * o \in Int /\ Unit * MaxGross = MaxGross * Unit /\ MaxGross * Unit \in Int
      BY <2>13, <3>1, <3>3
    <3> DEFINE a == w * mid
               b == Unit * u
               c == Unit * o
               d == MaxGross * Unit
    <3>7. a \in Int /\ b \in Int /\ c \in Int /\ d \in Int /\ a <= b /\ rest <= c /\ b + c <= d
      BY <2>13, <3>1, <3>4, <3>5, <3>6
    <3> HIDE DEF a, b, c, d
    <3>8. a + rest <= d
      BY <2>14, <3>7
    <3> QED BY <3>8 DEF a, d
  <2>16. m[sym] = mid
    BY <1>1
  <2>17. Checked(deciding)'
    <3> HIDE DEF m, p, mid, w, rest, o
    <3>1. /\ book' = book
          /\ Sig[deciding'.id] = g /\ deciding'.marks = m /\ deciding'.price = p
      BY <1>2, <2>2
    <3>2. /\ p * g.qty <= Caps[g.sym].notional * Unit
          /\ worst_case_position(book.acct[g.sym], IsSell(g), g.qty) * m[g.sym]
               + Sum(Exposed(book, m), Symbols \ {g.sym}) <= MaxGross * Unit
      BY <2>9, <2>15, <2>16 DEF w, rest
    <3>3. Abs(p - m[g.sym]) * BpsBase <= m[g.sym] * CollarBps
      BY <2>8, <2>16
    <3> QED BY <2>4, <2>7, <3>1, <3>2, <3>3 DEF Checked, Exposed
  <2> QED BY <1>3, <2>17 DEF LimitInv
<1>5. CASE evaluate(g, snap) # "approved"
  <2>1. UNCHANGED deciding
    BY <1>5 DEF Evaluate
  <2> QED BY <1>2, <1>3, <2>1 DEF LimitInv, Checked, Exposed
<1> QED BY <1>4, <1>5

\* The accounts of a book after expiry.
LEMMA ExpireBook ==
  ASSUME NEW b, b.acct \in [Symbols -> Accts], NEW t
  PROVE  /\ Expire(b, t).acct \in [Symbols -> Accts]
         /\ \A s \in Symbols : Expire(b, t).acct[s] = expire_reservations(b.acct[s], t)
<1>1. Expire(b, t).acct = [s \in Symbols |-> expire_reservations(b.acct[s], t)]
  BY DEF Expire
<1>2. \A s \in Symbols : expire_reservations(b.acct[s], t) \in Accts
  BY ExpireAcct
<1> QED BY <1>1, <1>2

\* A report leaves accounts.
LEMMA ReportBook ==
  ASSUME Accounts, NEW R, NEW e, NEW t \in Int,
         R = {} \/ \E r : R = {r} /\ IsReport(r)
  PROVE  AfterReport(R, e, t).acct \in [Symbols -> Accts]
<1> DEFINE filled == [s \in Symbols |->
                        IF \E r \in R : Sig[r.id].sym = s
                        THEN apply_fill_report(book.acct[s], CHOOSE r \in R : TRUE, t)
                        ELSE book.acct[s]]
           b == [acct  |-> filled,
                 day   |-> IF e > 0 THEN record_equity(book.day, e, t) ELSE book.day,
                 sizes |-> book.sizes]
<1>1. ASSUME NEW s \in Symbols PROVE filled[s] \in Accts
  <2>1. book.acct[s] \in Accts
    BY DEF Accounts
  <2>2. CASE \E r \in R : Sig[r.id].sym = s
    <3>1. PICK r : R = {r} /\ IsReport(r)
      BY <2>2
    <3>2. (CHOOSE q \in R : TRUE) = r
      BY <3>1
    <3>3. apply_fill_report(book.acct[s], r, t) \in Accts
      BY <2>1, <3>1, ReportAcct
    <3> QED BY <2>2, <3>2, <3>3
  <2>3. CASE ~\E r \in R : Sig[r.id].sym = s
    BY <2>1, <2>3
  <2> QED BY <2>2, <2>3
<1>2. b.acct = filled
  OBVIOUS
<1>3. filled \in [Symbols -> Accts]
  BY <1>1
<1>4. AfterReport(R, e, t) = Expire(b, t)
  BY DEF AfterReport
<1> HIDE DEF filled, b
<1> QED BY <1>2, <1>3, <1>4, ExpireBook

\* The worst case of every account after the reservation: the order's own account with
\* the order, the others as before.
LEMMA ReservedWorst ==
  ASSUME Accounts, NEW i \in Ids, NEW t \in Int
  PROVE  LET b == Reserved(i, t)
             g == Sig[i]
         IN  /\ b.acct \in [Symbols -> Accts]
             /\ WorstOf(b.acct[g.sym]) <= worst_case_position(book.acct[g.sym], IsSell(g), g.qty)
             /\ \A s \in Symbols \ {g.sym} : WorstOf(b.acct[s]) <= WorstOf(book.acct[s])
<1> DEFINE g == Sig[i]
           sym == g.sym
           b == Reserved(i, t)
           x == Expire(book, t)
           sell == IsSell(g)
           e == [sell |-> sell, qty |-> g.qty, cum |-> 0, exp |-> t + Ttl, submitted |-> FALSE]
           r == reserve(x.acct[sym], i, sell, g.qty, t + Ttl)
<1>1. sym \in Symbols /\ g.qty \in Nat /\ t + Ttl \in Int /\ sell \in BOOLEAN
  BY ControlAssumption DEF IsSell
<1>2. book.acct \in [Symbols -> Accts]
  BY DEF Accounts
<1>3. /\ x.acct \in [Symbols -> Accts]
      /\ \A s \in Symbols : x.acct[s] = expire_reservations(book.acct[s], t)
  BY <1>2, ExpireBook
<1>4. b.acct = [x.acct EXCEPT ![sym] = r]
  BY DEF Reserved
<1>5. /\ e \in Entries /\ r \in Accts /\ r.pos = x.acct[sym].pos
      /\ r.open = Put(x.acct[sym].open, i, e)
  <2>1. g.qty \in Int /\ x.acct[sym] \in Accts
    BY <1>1, <1>3
  <2> HIDE DEF x, sell, g
  <2> QED BY <1>1, <2>1, ReserveAcct
<1>6. ASSUME NEW s \in Symbols
      PROVE  /\ x.acct[s] \in Accts /\ book.acct[s] \in Accts /\ x.acct[s].pos = book.acct[s].pos
             /\ \A side : pending(x.acct[s], side) <= pending(book.acct[s], side)
  <2> DEFINE p == book.acct[s]
             q == expire_reservations(p, t)
  <2>1. p \in Accts /\ x.acct[s] = q
    BY <1>2, <1>3
  <2> HIDE DEF p, x
  <2>2. q \in Accts /\ q.pos = p.pos /\ \E X : q.open = Drop(p.open, X)
    BY <2>1, ExpireAcct
  <2> HIDE DEF q
  <2>3. \A side : pending(q, side) <= pending(p, side)
    BY <2>1, <2>2, PendingDrop
  <2> QED BY <2>1, <2>2, <2>3 DEF p
<1> HIDE DEF x, r
<1>7. b.acct \in [Symbols -> Accts] /\ b.acct[sym] = r
      /\ \A s \in Symbols \ {sym} : b.acct[s] = x.acct[s]
  BY <1>1, <1>3, <1>4, <1>5
<1>8. WorstOf(r) <= worst_case_position(book.acct[sym], sell, g.qty)
  <2> DEFINE p == book.acct[sym]
             y == x.acct[sym]
             n == g.qty
  <2>1. p \in Accts /\ y \in Accts /\ y.pos = p.pos
    BY <1>1, <1>6
  <2>2. e.sell = sell /\ Left(e) = n
    <3>1. e.sell = sell /\ e.qty = n /\ e.cum = 0
      OBVIOUS
    <3>2. n - 0 = n /\ n >= 0
      BY <1>1
    <3> HIDE DEF e, n
    <3> QED BY <3>1, <3>2 DEF Left, MaxOf
  <2> HIDE DEF e
  <2>3. \A side : pending(r, side) <= pending(y, side) + (IF e.sell = side THEN Left(e) ELSE 0)
    BY <1>5, <2>1, PendingPut
  <2>4. /\ pending(y, FALSE) <= pending(p, FALSE) /\ pending(y, TRUE) <= pending(p, TRUE)
    BY <1>1, <1>6
  <2> DEFINE rf == pending(r, FALSE)
             rt == pending(r, TRUE)
             yf == pending(y, FALSE)
             yt == pending(y, TRUE)
             pf == pending(p, FALSE)
             pt == pending(p, TRUE)
             u == Buys(sell, n)
             v == Sells(sell, n)
  <2>5. rf <= yf + u /\ rt <= yt + v
    <3>1. u = IF e.sell = FALSE THEN Left(e) ELSE 0
      BY <1>1, <2>2 DEF Buys
    <3>2. v = IF e.sell = TRUE THEN Left(e) ELSE 0
      BY <1>1, <2>2 DEF Sells
    <3>3. /\ rf <= yf + (IF e.sell = FALSE THEN Left(e) ELSE 0)
          /\ rt <= yt + (IF e.sell = TRUE THEN Left(e) ELSE 0)
      BY <2>3
    <3> HIDE DEF u, v
    <3> QED BY <3>1, <3>2, <3>3
  <2>6. rf \in Nat /\ rt \in Nat /\ yf \in Nat /\ yt \in Nat /\ pf \in Nat /\ pt \in Nat
    BY <1>5, <2>1, PendingNat
  <2>7. u \in Nat /\ v \in Nat
    BY <1>1 DEF Buys, Sells
  <2>8. rf <= pf + u /\ rt <= pt + v
    <3>1. yf <= pf /\ yt <= pt
      BY <2>4
    <3> HIDE DEF rf, rt, yf, yt, pf, pt, u, v
    <3> QED BY <2>5, <2>6, <2>7, <3>1
  <2>9. pending(r, FALSE) <= Long(p, sell, n) /\ pending(r, TRUE) <= Short(p, sell, n)
    BY <2>8 DEF Long, Short
  <2>10. r.pos = p.pos
    BY <1>5, <2>1
  <2> HIDE DEF p, y, n, sell
  <2> QED BY <1>1, <1>5, <2>1, <2>9, <2>10, WorstWithin DEF p, n
<1>9. ASSUME NEW s \in Symbols PROVE WorstOf(x.acct[s]) <= WorstOf(book.acct[s])
  <2> DEFINE p == book.acct[s]
             q == x.acct[s]
  <2>1. p \in Accts /\ q \in Accts /\ q.pos = p.pos
        /\ pending(q, FALSE) <= pending(p, FALSE) /\ pending(q, TRUE) <= pending(p, TRUE)
    BY <1>6
  <2> HIDE DEF p, q
  <2> QED BY <2>1, WorstShrinks DEF p, q
<1> HIDE DEF b, sell
<1> QED BY <1>1, <1>7, <1>8, <1>9 DEF b, sell

\* Giving a reservation back makes no account worse.
LEMMA ReleasedWorst ==
  ASSUME NEW f \in [Symbols -> Accts], NEW sym \in Symbols, NEW i
  PROVE  LET h == [f EXCEPT ![sym] = release_unsubmitted(@, i)]
         IN  h \in [Symbols -> Accts] /\ \A s \in Symbols : WorstOf(h[s]) <= WorstOf(f[s])
<1> DEFINE r == release_unsubmitted(f[sym], i)
           h == [f EXCEPT ![sym] = r]
<1>1. f[sym] \in Accts
  OBVIOUS
<1>2. r \in Accts /\ r.pos = f[sym].pos /\ \E X : r.open = Drop(f[sym].open, X)
  BY <1>1, ReleaseAcct
<1> HIDE DEF r
<1>3. pending(r, FALSE) <= pending(f[sym], FALSE) /\ pending(r, TRUE) <= pending(f[sym], TRUE)
  BY <1>1, <1>2, PendingDrop
<1>4. WorstOf(r) <= WorstOf(f[sym])
  BY <1>1, <1>2, <1>3, WorstShrinks
<1>5. ASSUME NEW s \in Symbols PROVE WorstOf(h[s]) <= WorstOf(f[s])
  <2>1. CASE s = sym
    BY <1>4, <2>1
  <2>2. CASE s # sym
    <3>1. h[s] = f[s] /\ WorstOf(f[s]) \in Nat
      BY <2>2, WorstOfNat
    <3> QED BY <3>1
  <2> QED BY <2>1, <2>2
<1>6. h \in [Symbols -> Accts]
  BY <1>2
<1> QED BY <1>5, <1>6 DEF r

\* A portfolio in which no account is worse than the decision assumed is within the
\* gross limit, at the marks of the decision.
LEMMA GrossWithin ==
  ASSUME Accounts, NEW d, Checked(d), d.id \in Ids, NEW b, b.acct \in [Symbols -> Accts],
         LET g == Sig[d.id]
         IN  /\ WorstOf(b.acct[g.sym]) <= worst_case_position(book.acct[g.sym], IsSell(g), g.qty)
             /\ \A s \in Symbols \ {g.sym} : WorstOf(b.acct[s]) <= WorstOf(book.acct[s])
  PROVE  GrossAt(b, d.marks) <= MaxGross * Unit
<1> DEFINE g == Sig[d.id]
           sym == g.sym
           m == d.marks
           f == Exposed(b, m)
           h == Exposed(book, m)
           w == worst_case_position(book.acct[sym], IsSell(g), g.qty)
           S == Symbols \ {sym}
<1>1. sym \in Symbols /\ g.qty \in Nat
  BY ControlAssumption
<1>2. /\ \A s \in Symbols : m[s] \in Nat
      /\ w * m[sym] + Sum(h, S) <= MaxGross * Unit
  BY DEF Checked
<1>3. book.acct \in [Symbols -> Accts]
  BY DEF Accounts
<1>4. \A s \in Symbols : f[s] = WorstOf(b.acct[s]) * m[s] /\ f[s] \in Nat
  BY <1>2, ExposedNat
<1>5. \A s \in Symbols : h[s] = WorstOf(book.acct[s]) * m[s] /\ h[s] \in Nat
  BY <1>2, <1>3, ExposedNat
<1>6. IsFiniteSet(Symbols) /\ IsFiniteSet(S)
  <2>1. S \in SUBSET Symbols
    OBVIOUS
  <2> QED BY <2>1, ControlAssumption, FS_Subset
<1>7. ASSUME NEW s \in S PROVE f[s] \in Int /\ h[s] \in Int /\ f[s] <= h[s]
  <2> DEFINE x == WorstOf(b.acct[s])
             y == WorstOf(book.acct[s])
             k == m[s]
  <2>1. x \in Nat /\ y \in Nat /\ k \in Nat /\ x <= y
    BY <1>2, <1>3, WorstOfNat
  <2>2. f[s] = x * k /\ h[s] = y * k /\ f[s] \in Nat /\ h[s] \in Nat
    BY <1>4, <1>5
  <2> HIDE DEF x, y, k, f, h
  <2>3. k * x <= k * y
    BY <2>1, ProductMonotone
  <2>4. k * x = x * k /\ k * y = y * k
    BY <2>1
  <2> QED BY <2>2, <2>3, <2>4
<1>8. f[sym] <= w * m[sym] /\ f[sym] \in Nat /\ w * m[sym] \in Nat
  <2> DEFINE x == WorstOf(b.acct[sym])
             k == m[sym]
  <2>1. x \in Nat /\ k \in Nat /\ x <= w
    BY <1>1, <1>2, WorstOfNat
  <2>2. w \in Nat
    <3>1. IsSell(g) \in BOOLEAN /\ book.acct[sym] \in Accts
      BY <1>1, <1>3 DEF IsSell
    <3> QED BY <1>1, <3>1, WorstNat
  <2>3. f[sym] = x * k /\ f[sym] \in Nat
    BY <1>1, <1>4
  <2> HIDE DEF x, k, w, f
  <2>4. k * x <= k * w
    BY <2>1, <2>2, ProductMonotone
  <2>5. k * x = x * k /\ k * w = w * k /\ w * k \in Nat
    BY <2>1, <2>2, Product
  <2>6. f[sym] <= w * k
    BY <2>3, <2>4, <2>5
  <2> QED BY <2>3, <2>5, <2>6 DEF k
<1> HIDE DEF f, h, w
<1>9. Sum(f, Symbols) = f[sym] + Sum(f, S)
  <2>1. \A s \in Symbols : f[s] \in Int
    BY <1>4
  <2> HIDE DEF sym
  <2> QED BY <1>1, <1>6, <2>1, SumRemove
<1>10. Sum(f, S) <= Sum(h, S) /\ Sum(f, S) \in Int /\ Sum(h, S) \in Int
  <2> HIDE DEF S
  <2> QED BY <1>6, <1>7, SumMonotone, SumInt
<1>11. Sum(f, Symbols) <= MaxGross * Unit
  <2>1. MaxGross * Unit \in Nat
    BY ControlAssumption, Product
  <2> DEFINE a == f[sym]
             c == w * m[sym]
             p == Sum(f, S)
             q == Sum(h, S)
             z == MaxGross * Unit
  <2>2. a \in Nat /\ c \in Nat /\ p \in Int /\ q \in Int /\ z \in Nat /\ a <= c /\ p <= q /\ c + q <= z
    BY <1>2, <1>8, <1>10, <2>1
  <2> HIDE DEF a, c, p, q, z
  <2>3. a + p <= z
    BY <2>2
  <2> QED BY <1>9, <2>3 DEF a, p, z
<1> QED BY <1>11, GrossIsSum DEF f

\* What the property says of the decision d and the portfolio b that its approval leaves.
Fits(d, b) ==
  LET g == Sig[d.id]
      mid == d.marks[g.sym]
  IN  /\ d.price > 0
      /\ Abs(d.price - mid) * BpsBase <= mid * CollarBps
      /\ d.price * g.qty <= Caps[g.sym].notional * Unit
      /\ GrossAt(b, d.marks) <= MaxGross * Unit

\* An approval that changes the portfolio leaves one that fits.
LEMMA ApproveLimits ==
  ASSUME LimitInv, Decision, NEW end, Approve(end)
  PROVE  LimitInv' /\ (book' # book => Fits(deciding, book'))
<1> DEFINE i == deciding.id
           t == deciding.at
           g == Sig[i]
           sym == g.sym
           b == Reserved(i, t)
           rel == [b.acct EXCEPT ![sym] = release_unsubmitted(@, i)]
<1>1. deciding # Idle /\ deciding' = Idle /\ UNCHANGED <<restarts, price>>
  BY DEF Approve, feed
<1>2. i \in Ids /\ t \in Int /\ Checked(deciding) /\ Accounts
  BY <1>1 DEF Decision, LimitInv
<1>3. sym \in Symbols
  BY <1>2, ControlAssumption
<1>4. /\ b.acct \in [Symbols -> Accts]
      /\ WorstOf(b.acct[sym]) <= worst_case_position(book.acct[sym], IsSell(g), g.qty)
      /\ \A s \in Symbols \ {sym} : WorstOf(b.acct[s]) <= WorstOf(book.acct[s])
  <2> HIDE DEF i, t
  <2> QED BY <1>2, ReservedWorst
<1>5. /\ rel \in [Symbols -> Accts]
      /\ \A s \in Symbols : WorstOf(rel[s]) <= WorstOf(b.acct[s])
  <2> HIDE DEF b, i, sym
  <2> QED BY <1>3, <1>4, ReleasedWorst
<1>6. \/ book' = book /\ file' = file
      \/ (book'.acct = b.acct \/ book'.acct = rel) /\ file' = book'
  BY DEF Approve
<1>7. ASSUME book'.acct = b.acct \/ book'.acct = rel
      PROVE  /\ book'.acct \in [Symbols -> Accts]
             /\ WorstOf(book'.acct[sym]) <= worst_case_position(book.acct[sym], IsSell(g), g.qty)
             /\ \A s \in Symbols \ {sym} : WorstOf(book'.acct[s]) <= WorstOf(book.acct[s])
  <2>1. CASE book'.acct = b.acct
    BY <1>4, <2>1
  <2>2. CASE book'.acct = rel
    <3>1. \A s \in Symbols : /\ WorstOf(rel[s]) \in Nat /\ WorstOf(b.acct[s]) \in Nat
                             /\ WorstOf(book.acct[s]) \in Nat
      <4>1. \A s \in Symbols : rel[s] \in Accts /\ b.acct[s] \in Accts /\ book.acct[s] \in Accts
        BY <1>2, <1>4, <1>5 DEF Accounts
      <4> HIDE DEF rel, b
      <4> QED BY <4>1, WorstOfNat
    <3>2. worst_case_position(book.acct[sym], IsSell(g), g.qty) \in Nat
      <4>1. IsSell(g) \in BOOLEAN /\ book.acct[sym] \in Accts /\ g.qty \in Nat
        BY <1>2, <1>3, ControlAssumption DEF IsSell, Accounts
      <4> QED BY <4>1, WorstNat
    <3> DEFINE w == worst_case_position(book.acct[sym], IsSell(g), g.qty)
    <3>3. w \in Nat /\ WorstOf(b.acct[sym]) <= w
      BY <1>4, <3>2
    <3> HIDE DEF rel, b, w
    <3>4. WorstOf(rel[sym]) <= w
      BY <1>3, <1>5, <3>1, <3>3
    <3>5. \A s \in Symbols \ {sym} : WorstOf(rel[s]) <= WorstOf(book.acct[s])
      BY <1>4, <1>5, <3>1
    <3> QED BY <1>5, <2>2, <3>4, <3>5 DEF w
  <2> QED BY <1>7, <2>1, <2>2
<1>8. Accounts'
  BY <1>2, <1>6, <1>7 DEF Accounts
<1>9. LimitInv'
  BY <1>1, <1>8 DEF LimitInv, Priced
<1>10. ASSUME book' # book PROVE Fits(deciding, book')
  <2>1. GrossAt(book', deciding.marks) <= MaxGross * Unit
    <3> DEFINE n == book'
    <3>1. /\ n.acct \in [Symbols -> Accts]
          /\ WorstOf(n.acct[sym]) <= worst_case_position(book.acct[sym], IsSell(g), g.qty)
          /\ \A s \in Symbols \ {sym} : WorstOf(n.acct[s]) <= WorstOf(book.acct[s])
      BY <1>6, <1>7, <1>10
    <3> HIDE DEF n
    <3>2. GrossAt(n, deciding.marks) <= MaxGross * Unit
      BY <1>2, <3>1, GrossWithin
    <3> QED BY <3>2 DEF n
  <2> QED BY <1>2, <2>1 DEF Fits, Checked
<1> QED BY <1>9, <1>10

\* A fresh process has no decision in flight.
LEMMA InitLimits == Init => LimitInv
<1> SUFFICES ASSUME Init PROVE LimitInv
  OBVIOUS
<1>1. EmptyBook.acct \in [Symbols -> Accts]
  BY EmptyAcct DEF EmptyBook
<1>2. Accounts
  BY <1>1 DEF Init, Accounts
<1>3. Priced
  BY DEF Init, Priced, NoPrice
<1>4. restarts \in Nat /\ deciding = Idle
  BY DEF Init
<1> QED BY <1>2, <1>3, <1>4 DEF LimitInv

\* Every step keeps the invariant, and one that changes the portfolio during a
\* decision leaves it within the limits.
LEMMA StepLimits ==
  LimitInv /\ Decision /\ RateInv /\ [Next]_vars
    => /\ LimitInv'
       /\ (deciding # Idle /\ restarts' = restarts /\ book' # book) => Fits(deciding, book')
<1> SUFFICES ASSUME LimitInv, Decision, RateInv, [Next]_vars
             PROVE  /\ LimitInv'
                    /\ (deciding # Idle /\ restarts' = restarts /\ book' # book)
                         => Fits(deciding, book')
  OBVIOUS
<1>1. ASSUME UNCHANGED <<restarts, book, file, deciding>>, Priced' PROVE LimitInv' /\ book' = book
  BY <1>1 DEF LimitInv, Accounts, Checked, Exposed
<1>2. ASSUME UNCHANGED price PROVE Priced'
  BY <1>2 DEF LimitInv, Priced
<1>3. CASE \E i \in Ids, mode \in {"submit", "release"}, t \in Readings : Evaluate(i, mode, t)
  <2>1. book' = book
    BY <1>3 DEF Evaluate
  <2> QED BY <1>3, <2>1, EvaluateLimits
<1>4. CASE \E end \in Ends : Approve(end)
  BY <1>4, ApproveLimits
<1>5. ASSUME NEW b \in Batches, NEW t \in Readings, Push(b, t)
      PROVE  LimitInv' /\ book' = book
  <2>1. UNCHANGED <<restarts, book, file, deciding>>
    BY <1>5 DEF Push, decided
  <2>2. ASSUME NEW s \in Symbols PROVE price'[s].mid \in Nat
    <3> DEFINE p == Stamped(b.prices[s])
    <3>1. price'[s] = IF s \in DOMAIN b.prices /\ AcceptsPrice(s, p, t) THEN p ELSE price[s]
      BY <1>5 DEF Push
    <3>2. CASE s \in DOMAIN b.prices /\ AcceptsPrice(s, p, t)
      <4>1. b.prices[s] \in [mid : Int, adv : Int, at : Int, stale : BOOLEAN]
        BY <3>2, ControlAssumption
      <4>2. p.mid = b.prices[s].mid /\ p.mid \in Int
        BY <4>1 DEF Stamped
      <4>3. p.mid > 0
        BY <3>2 DEF AcceptsPrice
      <4> HIDE DEF p
      <4>4. p.mid \in Nat
        BY <4>2, <4>3
      <4> QED BY <3>1, <3>2, <4>4
    <3>3. CASE ~(s \in DOMAIN b.prices /\ AcceptsPrice(s, p, t))
      BY <3>1, <3>3 DEF LimitInv, Priced
    <3> QED BY <3>2, <3>3
  <2> QED BY <1>1, <2>1, <2>2 DEF Priced
<1>6. CASE \E i \in Ids : HoldEnds(i)
  BY <1>1, <1>2, <1>6 DEF HoldEnds, feed
<1>7. ASSUME NEW w, NEW R, NEW e, NEW t \in Readings, Report(w, R, e, t),
             R = {} \/ \E r : R = {r} /\ IsReport(r)
      PROVE  LimitInv' /\ deciding = Idle
  <2>1. t \in Int
    BY ControlAssumption DEF RateInv, Clocks, Readings
  <2>2. /\ book' = AfterReport(R, e, t) /\ file' = book' /\ deciding = Idle
        /\ UNCHANGED <<restarts, price, deciding>>
    BY <1>7 DEF Report, feed, decided
  <2>3. AfterReport(R, e, t).acct \in [Symbols -> Accts]
    BY <1>7, <2>1, ReportBook DEF LimitInv
  <2>4. Accounts'
    BY <2>2, <2>3 DEF Accounts
  <2> QED BY <1>2, <2>2, <2>4 DEF LimitInv
<1>8. CASE \E w \in Reporters, e \in Equities, t \in Readings : Report(w, {}, e, t)
  BY <1>7, <1>8
<1>9. CASE \E w \in Reporters, i \in Submitted, f \in FillStates, e \in Equities, t \in Readings :
             Report(w, {ReportOf(i, f)}, e, t)
  <2>1. PICK w \in Reporters, i \in Submitted, f \in FillStates, e \in Equities, t \in Readings :
               Report(w, {ReportOf(i, f)}, e, t)
    BY <1>9
  <2>2. IsReport(ReportOf(i, f))
    <3>1. i \in Ids /\ Sig[i].qty \in Nat
      BY ControlAssumption DEF Submitted
    <3>2. IsSell(Sig[i]) \in BOOLEAN
      BY DEF IsSell
    <3> QED BY <3>1, <3>2 DEF IsReport, ReportOf
  <2> QED BY <1>7, <2>1, <2>2
<1>10. CASE \E w \in Reporters : LatchCheck(w) \/ LatchTrigger(w)
  BY <1>1, <1>2, <1>10 DEF LatchCheck, LatchTrigger, feed, decided
<1>11. CASE ResetDrawdown
  BY <1>1, <1>2, <1>11 DEF ResetDrawdown, feed, decided
<1>12. CASE \E l \in KillLevelsSeen : OtherLatch(l)
  BY <1>1, <1>2, <1>12 DEF OtherLatch, feed, decided
<1>13. CASE \E t \in Readings : Maintenance(t)
  <2>1. PICK t \in Readings : Maintenance(t)
    BY <1>13
  <2>2. deciding = Idle /\ book' = Expire(book, t) /\ UNCHANGED <<restarts, price, file, deciding>>
    BY <2>1 DEF Maintenance, feed, decided
  <2>3. Expire(book, t).acct \in [Symbols -> Accts]
    BY ExpireBook DEF LimitInv, Accounts
  <2>4. Accounts'
    BY <2>2, <2>3 DEF LimitInv, Accounts
  <2> QED BY <1>2, <2>2, <2>4 DEF LimitInv
<1>14. CASE ClockAdvance
  BY <1>1, <1>2, <1>14 DEF ClockAdvance, feed, decided
<1>15. CASE Restart
  <2>1. /\ restarts' = restarts + 1 /\ book' = file /\ file' = file /\ deciding' = Idle
        /\ price' = [s \in Symbols |-> NoPrice]
    BY <1>15 DEF Restart
  <2>2. restarts' \in Nat /\ restarts' # restarts
    BY <2>1 DEF LimitInv
  <2>3. Accounts' /\ Priced'
    BY <2>1 DEF LimitInv, Accounts, Priced, NoPrice
  <2> QED BY <2>1, <2>2, <2>3 DEF LimitInv
<1>16. CASE UNCHANGED vars
  BY <1>1, <1>2, <1>16 DEF vars, feed, decided
<1> QED BY <1>3, <1>4, <1>5, <1>6, <1>8, <1>9, <1>10, <1>11, <1>12, <1>13, <1>14, <1>15, <1>16 DEF Next

\* C09, C11 and C14 for every configuration: whatever happens between the snapshot and
\* the reservation, an order that is reserved is inside the collar and the cap of its
\* symbol, and all symbols together stay inside the gross limit, in exact numbers
\* (market.rs, sizing.rs, portfolio.rs).
THEOREM LimitsHold == Spec => ApprovedWithinLimits
<1> DEFINE A ==
      (deciding # Idle /\ restarts' = restarts /\ book' # book) =>
        LET g == Sig[deciding.id]
            mid == deciding.marks[g.sym]
        IN  /\ deciding.price > 0
            /\ Abs(deciding.price - mid) * BpsBase <= mid * CollarBps
            /\ deciding.price * g.qty <= Caps[g.sym].notional * Unit
            /\ MapThenSumSet(LAMBDA s : WorstOf(book'.acct[s]) * deciding.marks[s], Symbols)
                 <= MaxGross * Unit
<1>1. SizeInv => Decision
  BY DEF SizeInv
<1>2. GrossAt(book', deciding.marks)
        = MapThenSumSet(LAMBDA s : WorstOf(book'.acct[s]) * deciding.marks[s], Symbols)
  BY DEF GrossAt
<1>3. LimitInv /\ Decision /\ RateInv /\ [Next]_vars => A
  BY <1>2, StepLimits DEF Fits
<1>4. Spec => [][A]_vars
  BY <1>1, <1>3, InitLimits, StepLimits, InitRate, StepRate, InitSize, StepSize, PTL DEF Spec
<1> QED BY <1>4 DEF ApprovedWithinLimits

=============================================================================
