-------------------------- MODULE Operators_proofs --------------------------
(***************************************************************************)
(* What the operators of the models compute, for every argument: the sums  *)
(* over finite sets that the portfolio and the ledgers keep, and the        *)
(* windows of a walk-forward analysis, which do not leak for any           *)
(* configuration that generate_splits accepts and any length of timeline.  *)
(***************************************************************************)
EXTENDS WalkSplits, FiniteSetsExt, FiniteSetTheorems, WellFoundedInduction, TLAPS

-----------------------------------------------------------------------------
(* Sums over finite sets                                                   *)

\* The sum of a function over a finite set, as the fold of the library computes it.
Sum(f, S) == MapThenSumSet(LAMBDA x : f[x], S)

\* The element that the fold takes next.
Pick(s) == CHOOSE x \in s : TRUE

\* g is the table of the partial sums that the fold over S fills in.
Table(g, f, S) ==
  g = [s \in SUBSET S |-> IF s = {} THEN 0 ELSE f[Pick(s)] + g[s \ {Pick(s)}]]

\* Induction over the subsets of a finite set: a family that holds every subset all
\* of whose maximal proper subsets it holds, holds them all.
LEMMA SubsetInduction ==
  ASSUME NEW S, IsFiniteSet(S), NEW G,
         \A T \in SUBSET S : (\A x \in T : T \ {x} \in G) => T \in G
  PROVE  SUBSET S \subseteq G
<1> DEFINE Bad == {T \in SUBSET S : T \notin G}
<1> SUFFICES ASSUME Bad # {} PROVE FALSE
  OBVIOUS
<1>1. Bad \subseteq FiniteSubsetsOf(S)
  BY FS_Subset DEF FiniteSubsetsOf
<1>2. PICK T \in Bad : \A U \in Bad : ~(<<U, T>> \in StrictSubsetOrdering(S))
  BY <1>1, FS_StrictSubsetOrderingWellFounded, WFMin
<1>3. ASSUME NEW x \in T PROVE T \ {x} \in G
  <2>1. T \ {x} \subseteq T /\ T \ {x} # T /\ T \in SUBSET S
    BY <1>3
  <2>2. <<T \ {x}, T>> \in StrictSubsetOrdering(S)
    BY <2>1 DEF StrictSubsetOrdering
  <2> QED BY <1>2, <2>1, <2>2
<1> QED BY <1>2, <1>3

\* The sum is the last entry of its table.
LEMMA SumIsTable ==
  ASSUME NEW f, NEW S PROVE Sum(f, S) = (CHOOSE g : Table(g, f, S))[S]
  BY DEF Sum, MapThenSumSet, MapThenFoldSet, Table, Pick

\* A table read at one set.
LEMMA TableEntry ==
  ASSUME NEW f, NEW S, NEW g, Table(g, f, S), NEW s \in SUBSET S
  PROVE  g[s] = IF s = {} THEN 0 ELSE f[Pick(s)] + g[s \ {Pick(s)}]
  BY DEF Table

\* The picked element is one of the set.
LEMMA PickIn == ASSUME NEW s, s # {} PROVE Pick(s) \in s
  BY DEF Pick

\* A table has the table of a subset in it.
LEMMA TableRestricts ==
  ASSUME NEW f, NEW S, NEW g, Table(g, f, S), NEW T \in SUBSET S
  PROVE  Table([s \in SUBSET T |-> g[s]], f, T)
<1> DEFINE h == [s \in SUBSET T |-> g[s]]
<1>1. ASSUME NEW s \in SUBSET T
      PROVE  g[s] = IF s = {} THEN 0 ELSE f[Pick(s)] + h[s \ {Pick(s)}]
  <2>1. s \in SUBSET S /\ h[s \ {Pick(s)}] = g[s \ {Pick(s)}]
    OBVIOUS
  <2> QED BY <2>1, TableEntry
<1>2. h = [s \in SUBSET T |-> IF s = {} THEN 0 ELSE f[Pick(s)] + h[s \ {Pick(s)}]]
  BY <1>1
<1> QED BY <1>2 DEF Table

\* There is only one table over a finite set.
LEMMA TableUnique ==
  ASSUME NEW f, NEW S, IsFiniteSet(S), NEW g, NEW h, Table(g, f, S), Table(h, f, S)
  PROVE  \A s \in SUBSET S : g[s] = h[s]
<1> DEFINE G == {s \in SUBSET S : g[s] = h[s]}
<1>1. ASSUME NEW s \in SUBSET S, \A x \in s : s \ {x} \in G
      PROVE  s \in G
  <2>1. CASE s = {}
    BY <2>1, TableEntry
  <2>2. CASE s # {}
    <3>1. s \ {Pick(s)} \in G
      BY <1>1, <2>2, PickIn
    <3> QED BY <2>2, <3>1, TableEntry
  <2> QED BY <2>1, <2>2
<1> HIDE DEF G
<1>2. SUBSET S \subseteq G
  BY <1>1, SubsetInduction
<1> QED BY <1>2 DEF G

\* Where there is a table, it holds the sums.
LEMMA TableSums ==
  ASSUME NEW f, NEW S, IsFiniteSet(S), NEW g, Table(g, f, S), NEW T \in SUBSET S
  PROVE  g[T] = Sum(f, T)
<1> DEFINE h == [s \in SUBSET T |-> g[s]]
           c == CHOOSE k : Table(k, f, T)
<1>1. Table(h, f, T)
  BY TableRestricts
<1>2. Table(c, f, T)
  BY <1>1
<1>3. IsFiniteSet(T)
  BY FS_Subset
<1>4. h[T] = g[T] /\ T \in SUBSET T
  OBVIOUS
<1> HIDE DEF h, c
<1>5. c[T] = h[T]
  BY <1>1, <1>2, <1>3, <1>4, TableUnique
<1>6. Sum(f, T) = c[T]
  BY SumIsTable DEF c
<1> QED BY <1>4, <1>5, <1>6

\* Every finite set has a table.
LEMMA TableExists ==
  ASSUME NEW f, NEW S, IsFiniteSet(S)
  PROVE  \E g : Table(g, f, S)
<1> DEFINE G == {T \in SUBSET S : \E g : Table(g, f, T)}
<1>1. ASSUME NEW T \in SUBSET S, \A x \in T : T \ {x} \in G
      PROVE  T \in G
  <2> DEFINE g == [s \in SUBSET T |-> IF s = T /\ s # {}
                                      THEN f[Pick(s)] + Sum(f, s \ {Pick(s)}) ELSE Sum(f, s)]
  <2>1. ASSUME NEW s \in SUBSET T, s # T
        PROVE  Sum(f, s) = IF s = {} THEN 0 ELSE f[Pick(s)] + Sum(f, s \ {Pick(s)})
    <3>1. PICK x \in T : x \notin s
      BY <2>1
    <3>2. PICK h : Table(h, f, T \ {x})
      BY <1>1
    <3>3. IsFiniteSet(T \ {x})
      BY FS_Subset
    <3>4. s \in SUBSET (T \ {x}) /\ s \ {Pick(s)} \in SUBSET (T \ {x})
      BY <3>1
    <3>5. h[s] = Sum(f, s) /\ h[s \ {Pick(s)}] = Sum(f, s \ {Pick(s)})
      BY <3>2, <3>3, <3>4, TableSums
    <3>6. h[s] = IF s = {} THEN 0 ELSE f[Pick(s)] + h[s \ {Pick(s)}]
      BY <3>2, <3>4, TableEntry
    <3> QED BY <3>5, <3>6
  <2>2. Sum(f, {}) = 0
    <3>1. CASE T = {}
      <4> DEFINE z == [s \in SUBSET {} |-> 0]
      <4>1. z = [s \in SUBSET {} |-> IF s = {} THEN 0 ELSE f[Pick(s)] + z[s \ {Pick(s)}]]
        OBVIOUS
      <4>2. Table(z, f, {})
        BY <4>1 DEF Table
      <4>3. z[{}] = 0 /\ {} \in SUBSET {}
        OBVIOUS
      <4>4. IsFiniteSet({})
        BY FS_EmptySet
      <4> HIDE DEF z
      <4> QED BY <4>2, <4>3, <4>4, TableSums
    <3>2. CASE T # {}
      BY <2>1, <3>2
    <3> QED BY <3>1, <3>2
  <2>3. ASSUME NEW s \in SUBSET T
        PROVE  g[s] = IF s = {} THEN 0 ELSE f[Pick(s)] + g[s \ {Pick(s)}]
    <3>1. CASE s = {}
      BY <2>2, <3>1
    <3>2. CASE s # {}
      <4>1. s \ {Pick(s)} \in SUBSET T /\ s \ {Pick(s)} # T
        BY <3>2, PickIn
      <4>2. g[s \ {Pick(s)}] = Sum(f, s \ {Pick(s)})
        BY <4>1
      <4>3. g[s] = f[Pick(s)] + Sum(f, s \ {Pick(s)})
        BY <2>1, <3>2
      <4> QED BY <3>2, <4>2, <4>3
    <3> QED BY <3>1, <3>2
  <2>4. Table(g, f, T)
    <3>1. g = [s \in SUBSET T |-> g[s]]
      OBVIOUS
    <3> HIDE DEF g
    <3> QED BY <2>3, <3>1 DEF Table
  <2> QED BY <2>4
<1> HIDE DEF G
<1>2. SUBSET S \subseteq G
  BY <1>1, SubsetInduction
<1> QED BY <1>2 DEF G

\* The empty sum.
LEMMA SumEmpty == ASSUME NEW f PROVE Sum(f, {}) = 0
<1>1. IsFiniteSet({})
  BY FS_EmptySet
<1>2. PICK g : Table(g, f, {})
  BY <1>1, TableExists
<1>3. {} \in SUBSET {}
  OBVIOUS
<1>4. g[{}] = Sum(f, {})
  BY <1>1, <1>2, <1>3, TableSums
<1>5. g[{}] = 0
  BY <1>2, <1>3, TableEntry
<1> QED BY <1>4, <1>5

\* The fold takes the picked element first.
LEMMA SumPick ==
  ASSUME NEW f, NEW S, IsFiniteSet(S), S # {}
  PROVE  Sum(f, S) = f[Pick(S)] + Sum(f, S \ {Pick(S)})
<1>1. PICK g : Table(g, f, S)
  BY TableExists
<1>2. S \in SUBSET S /\ S \ {Pick(S)} \in SUBSET S
  OBVIOUS
<1>3. g[S] = Sum(f, S) /\ g[S \ {Pick(S)}] = Sum(f, S \ {Pick(S)})
  BY <1>1, <1>2, TableSums
<1> QED BY <1>1, <1>2, <1>3, TableEntry

\* A sum of integers is an integer.
LEMMA SumInt ==
  ASSUME NEW f, NEW S, IsFiniteSet(S), \A x \in S : f[x] \in Int
  PROVE  Sum(f, S) \in Int
<1> DEFINE G == {T \in SUBSET S : Sum(f, T) \in Int}
<1>1. ASSUME NEW T \in SUBSET S, \A x \in T : T \ {x} \in G
      PROVE  T \in G
  <2>1. CASE T = {}
    BY <2>1, SumEmpty
  <2>2. CASE T # {}
    <3>1. Pick(T) \in T /\ IsFiniteSet(T)
      BY <2>2, PickIn, FS_Subset
    <3>2. Sum(f, T) = f[Pick(T)] + Sum(f, T \ {Pick(T)})
      BY <2>2, <3>1, SumPick
    <3>3. f[Pick(T)] \in Int /\ Sum(f, T \ {Pick(T)}) \in Int
      BY <1>1, <3>1
    <3> QED BY <3>2, <3>3
  <2> QED BY <2>1, <2>2
<1> HIDE DEF G
<1>2. SUBSET S \subseteq G
  BY <1>1, SubsetInduction
<1> QED BY <1>2 DEF G

\* Any element may be taken first.
LEMMA SumRemove ==
  ASSUME NEW f, NEW S, IsFiniteSet(S), \A x \in S : f[x] \in Int, NEW y \in S
  PROVE  Sum(f, S) = f[y] + Sum(f, S \ {y})
<1> DEFINE G == {T \in SUBSET S : \A x \in T : Sum(f, T) = f[x] + Sum(f, T \ {x})}
<1>0. \A T \in SUBSET S : IsFiniteSet(T) /\ Sum(f, T) \in Int
  BY FS_Subset, SumInt
<1>1. ASSUME NEW T \in SUBSET S, \A x \in T : T \ {x} \in G
      PROVE  T \in G
  <2> SUFFICES ASSUME NEW x \in T PROVE Sum(f, T) = f[x] + Sum(f, T \ {x})
    OBVIOUS
  <2> DEFINE c == Pick(T)
  <2>1. c \in T
    BY PickIn
  <2>2. Sum(f, T) = f[c] + Sum(f, T \ {c})
    BY <1>0, SumPick
  <2>3. CASE x = c
    BY <2>2, <2>3
  <2>4. CASE x # c
    <3> HIDE DEF c
    <3>1. Sum(f, T \ {c}) = f[x] + Sum(f, (T \ {c}) \ {x})
      BY <1>1, <2>1, <2>4
    <3>2. Sum(f, T \ {x}) = f[c] + Sum(f, (T \ {x}) \ {c})
      BY <1>1, <2>1, <2>4
    <3>3. (T \ {c}) \ {x} = (T \ {x}) \ {c}
      OBVIOUS
    <3>4. f[c] \in Int /\ f[x] \in Int /\ Sum(f, (T \ {x}) \ {c}) \in Int
      BY <1>0, <2>1
    <3>5. Sum(f, T) = f[c] + (f[x] + Sum(f, (T \ {x}) \ {c}))
      BY <2>2, <3>1, <3>3
    <3>6. Sum(f, T \ {x}) = f[c] + Sum(f, (T \ {x}) \ {c})
      BY <3>2
    <3> DEFINE r == Sum(f, (T \ {x}) \ {c})
    <3>7. f[c] + (f[x] + r) = f[x] + (f[c] + r)
      <4> HIDE DEF r
      <4>1. \A a, b, d \in Int : a + (b + d) = b + (a + d)
        OBVIOUS
      <4> QED BY <3>4, <4>1 DEF r
    <3> QED BY <3>5, <3>6, <3>7
  <2> QED BY <2>3, <2>4
<1> HIDE DEF G
<1>2. SUBSET S \subseteq G
  BY <1>1, SubsetInduction
<1> QED BY <1>2 DEF G

\* A sum whose terms are at most k times those of another is at most k times that one.
LEMMA SumBound ==
  ASSUME NEW f, NEW h, NEW S, IsFiniteSet(S), NEW k \in Int,
         \A x \in S : f[x] \in Int /\ h[x] \in Int /\ f[x] <= k * h[x]
  PROVE  Sum(f, S) <= k * Sum(h, S)
<1> DEFINE G == {T \in SUBSET S : Sum(f, T) <= k * Sum(h, T)}
<1>0. \A T \in SUBSET S : IsFiniteSet(T) /\ Sum(f, T) \in Int /\ Sum(h, T) \in Int
  BY FS_Subset, SumInt
<1>1. ASSUME NEW T \in SUBSET S, \A x \in T : T \ {x} \in G
      PROVE  T \in G
  <2>1. CASE T = {}
    BY <2>1, SumEmpty
  <2>2. CASE T # {}
    <3> DEFINE c == Pick(T)
    <3>1. c \in T
      BY <2>2, PickIn
    <3>2. Sum(f, T) = f[c] + Sum(f, T \ {c}) /\ Sum(h, T) = h[c] + Sum(h, T \ {c})
      BY <1>0, <2>2, SumPick
    <3> HIDE DEF c
    <3>3. /\ f[c] \in Int /\ h[c] \in Int /\ f[c] <= k * h[c]
          /\ Sum(f, T \ {c}) \in Int /\ Sum(h, T \ {c}) \in Int
          /\ Sum(f, T \ {c}) <= k * Sum(h, T \ {c})
      BY <1>0, <1>1, <3>1
    <3>4. k * (h[c] + Sum(h, T \ {c})) = k * h[c] + k * Sum(h, T \ {c})
      BY <3>3
    <3>5. k * h[c] \in Int /\ k * Sum(h, T \ {c}) \in Int
      BY <3>3
    <3>6. Sum(f, T) <= k * Sum(h, T)
      BY <3>2, <3>3, <3>4, <3>5
    <3> QED BY <3>6
  <2> QED BY <2>1, <2>2
<1> HIDE DEF G
<1>2. SUBSET S \subseteq G
  BY <1>1, SubsetInduction
<1> QED BY <1>2 DEF G

\* Terms that are at most as large give a sum that is at most as large.
LEMMA SumMonotone ==
  ASSUME NEW f, NEW h, NEW S, IsFiniteSet(S),
         \A x \in S : f[x] \in Int /\ h[x] \in Int /\ f[x] <= h[x]
  PROVE  Sum(f, S) <= Sum(h, S)
<1>1. Sum(f, S) <= 1 * Sum(h, S)
  <2>1. \A x \in S : h[x] = 1 * h[x]
    OBVIOUS
  <2> QED BY <2>1, SumBound
<1> QED BY <1>1, SumInt

\* A sum depends on its terms only.
LEMMA SumSame ==
  ASSUME NEW f, NEW h, NEW S, \A x \in S : f[x] = h[x]
  PROVE  Sum(f, S) = Sum(h, S)
<1>1. \A g : Table(g, f, S) <=> Table(g, h, S)
  <2> SUFFICES ASSUME NEW g PROVE Table(g, f, S) <=> Table(g, h, S)
    OBVIOUS
  <2>1. \A s \in SUBSET S : s # {} => f[Pick(s)] = h[Pick(s)]
    BY PickIn
  <2> QED BY <2>1 DEF Table
<1>2. (CHOOSE g : Table(g, f, S)) = (CHOOSE g : Table(g, h, S))
  BY <1>1
<1> QED BY <1>2, SumIsTable

\* Leaving out terms that are not negative does not make a sum larger.
LEMMA SumSubset ==
  ASSUME NEW f, NEW S, IsFiniteSet(S), \A x \in S : f[x] \in Nat, NEW T \in SUBSET S
  PROVE  Sum(f, T) <= Sum(f, S)
<1> DEFINE G == {U \in SUBSET S : T \subseteq U => Sum(f, T) <= Sum(f, U)}
<1>0. \A U \in SUBSET S : IsFiniteSet(U) /\ Sum(f, U) \in Int
  BY FS_Subset, SumInt
<1>1. ASSUME NEW U \in SUBSET S, \A x \in U : U \ {x} \in G
      PROVE  U \in G
  <2> SUFFICES ASSUME T \subseteq U PROVE Sum(f, T) <= Sum(f, U)
    OBVIOUS
  <2>1. CASE U = T
    BY <1>0, <2>1
  <2>2. CASE U # T
    <3>1. PICK x \in U : x \notin T
      BY <2>2
    <3>2. Sum(f, U) = f[x] + Sum(f, U \ {x})
      BY <1>0, <3>1, SumRemove
    <3>3. Sum(f, T) <= Sum(f, U \ {x}) /\ f[x] \in Nat
      BY <1>1, <3>1
    <3> QED BY <1>0, <3>2, <3>3
  <2> QED BY <2>1, <2>2
<1> HIDE DEF G
<1>2. SUBSET S \subseteq G
  BY <1>1, SubsetInduction
<1> QED BY <1>2 DEF G

\* A sum of naturals is a natural.
LEMMA SumNat ==
  ASSUME NEW f, NEW S, IsFiniteSet(S), \A x \in S : f[x] \in Nat
  PROVE  Sum(f, S) \in Nat
<1>1. Sum(f, {}) <= Sum(f, S)
  BY SumSubset
<1>2. Sum(f, S) \in Int
  BY SumInt
<1> QED BY <1>1, <1>2, SumEmpty

\* Terms that are zero may be left out.
LEMMA SumSupport ==
  ASSUME NEW f, NEW S, IsFiniteSet(S), NEW T \in SUBSET S, \A x \in S : f[x] \in Int,
         \A x \in S \ T : f[x] = 0
  PROVE  Sum(f, S) = Sum(f, T)
<1> DEFINE G == {U \in SUBSET S : T \subseteq U => Sum(f, T) = Sum(f, U)}
<1>0. \A U \in SUBSET S : IsFiniteSet(U) /\ Sum(f, U) \in Int
  BY FS_Subset, SumInt
<1>1. ASSUME NEW U \in SUBSET S, \A x \in U : U \ {x} \in G
      PROVE  U \in G
  <2> SUFFICES ASSUME T \subseteq U PROVE Sum(f, T) = Sum(f, U)
    OBVIOUS
  <2>1. CASE U = T
    BY <2>1
  <2>2. CASE U # T
    <3>1. PICK x \in U : x \notin T
      BY <2>2
    <3>2. Sum(f, U) = f[x] + Sum(f, U \ {x})
      BY <1>0, <3>1, SumRemove
    <3>3. Sum(f, T) = Sum(f, U \ {x}) /\ f[x] = 0
      BY <1>1, <3>1
    <3>4. Sum(f, U \ {x}) \in Int
      BY <1>0
    <3> QED BY <3>2, <3>3, <3>4
  <2> QED BY <2>1, <2>2
<1> HIDE DEF G
<1>2. SUBSET S \subseteq G
  BY <1>1, SubsetInduction
<1> QED BY <1>2 DEF G

\* Changing one entry changes the sum by as much.
LEMMA SumChange ==
  ASSUME NEW f, NEW h, NEW S, IsFiniteSet(S), NEW y \in S,
         \A x \in S : f[x] \in Int /\ h[x] \in Int, \A x \in S \ {y} : h[x] = f[x]
  PROVE  Sum(h, S) = Sum(f, S) - f[y] + h[y]
<1> DEFINE R == S \ {y}
<1>1. Sum(f, S) = f[y] + Sum(f, R) /\ Sum(h, S) = h[y] + Sum(h, R)
  BY SumRemove
<1>2. Sum(f, R) = Sum(h, R)
  BY SumSame
<1>3. Sum(f, R) \in Int
  <2>1. R \in SUBSET S /\ \A x \in R : f[x] \in Int
    OBVIOUS
  <2> QED BY <2>1, FS_Subset, SumInt
<1> QED BY <1>1, <1>2, <1>3

\* The sum of the sums of two terms is the sum of the sums.
LEMMA SumPlus ==
  ASSUME NEW f, NEW h, NEW k, NEW S, IsFiniteSet(S),
         \A x \in S : f[x] \in Int /\ h[x] \in Int /\ k[x] = f[x] + h[x]
  PROVE  Sum(k, S) = Sum(f, S) + Sum(h, S)
<1> DEFINE G == {T \in SUBSET S : Sum(k, T) = Sum(f, T) + Sum(h, T)}
<1>0. \A T \in SUBSET S : /\ IsFiniteSet(T)
                          /\ Sum(f, T) \in Int /\ Sum(h, T) \in Int /\ Sum(k, T) \in Int
  BY FS_Subset, SumInt
<1>1. ASSUME NEW T \in SUBSET S, \A x \in T : T \ {x} \in G
      PROVE  T \in G
  <2>1. CASE T = {}
    BY <2>1, SumEmpty
  <2>2. CASE T # {}
    <3> DEFINE c == Pick(T)
    <3>1. c \in T
      BY <2>2, PickIn
    <3>2. /\ Sum(f, T) = f[c] + Sum(f, T \ {c}) /\ Sum(h, T) = h[c] + Sum(h, T \ {c})
          /\ Sum(k, T) = k[c] + Sum(k, T \ {c})
      BY <1>0, <2>2, SumPick
    <3> HIDE DEF c
    <3>3. /\ f[c] \in Int /\ h[c] \in Int /\ k[c] = f[c] + h[c]
          /\ Sum(f, T \ {c}) \in Int /\ Sum(h, T \ {c}) \in Int
          /\ Sum(k, T \ {c}) = Sum(f, T \ {c}) + Sum(h, T \ {c})
      BY <1>0, <1>1, <3>1
    <3>4. Sum(k, T) = Sum(f, T) + Sum(h, T)
      BY <3>2, <3>3
    <3> QED BY <3>4
  <2> QED BY <2>1, <2>2
<1> HIDE DEF G
<1>2. SUBSET S \subseteq G
  BY <1>1, SubsetInduction
<1> QED BY <1>2 DEF G

-----------------------------------------------------------------------------
(* Walk-forward windows                                                    *)

(* A window begins one step after the one before it.                       *)
LEMMA NextWindow ==
  ASSUME NEW w \in WfaConfigs, NEW k \in Nat
  PROVE  /\ window(w, k + 1).test_start = window(w, k).test_start + w.step
         /\ window(w, k + 1).test_end = window(w, k).test_end + w.step
<1>1. (k + 1) * w.step = k * w.step + w.step
  BY DEF WfaConfigs
<1> QED
  BY <1>1 DEF window, WfaConfigs

(* The windows that fit are the first ones: one that fits has every        *)
(* earlier one before it.                                                  *)
LEMMA EarlierFits ==
  ASSUME NEW w \in WfaConfigs, NEW n \in Nat, NEW j \in Nat, NEW k \in 0..j,
         window(w, j).test_end <= n
  PROVE  window(w, k).test_end <= n
<1>1. k * w.step <= j * w.step
  BY DEF WfaConfigs
<1> QED
  BY <1>1 DEF window, WfaConfigs

Fitting(n, w) == {k \in 0..n : window(w, k).test_end <= n}

(* Window number k is generated only if it fits: k windows before it and   *)
(* itself, so the set of fitting positions reaches k.                      *)
LEMMA GeneratedFits ==
  ASSUME NEW w \in WfaConfigs, NEW n \in Nat, NEW k \in Nat,
         k < Cardinality(Fitting(n, w))
  PROVE  k \in Fitting(n, w)
<1>1. SUFFICES ASSUME k \notin Fitting(n, w)  PROVE FALSE
  OBVIOUS
<1>2. ASSUME NEW j \in Fitting(n, w)  PROVE j \in 0..(k - 1)
  <2>1. j \in Nat /\ j <= n /\ window(w, j).test_end <= n
    BY <1>2 DEF Fitting
  <2>2. ASSUME k <= j  PROVE FALSE
    <3>1. k \in 0..j /\ k \in 0..n
      BY <2>1, <2>2
    <3>2. window(w, k).test_end <= n
      BY <2>1, <3>1, EarlierFits
    <3> QED
      BY <1>1, <3>1, <3>2 DEF Fitting
  <2> QED
    BY <2>1, <2>2
<1>3. Fitting(n, w) \in SUBSET (0..(k - 1))
  BY <1>2
<1>4. IsFiniteSet(0..(k - 1)) /\ Cardinality(0..(k - 1)) = k
  <2>1. 0 \in Int /\ k - 1 \in Int /\ (0 > k - 1 <=> k = 0) /\ (k - 1) - 0 + 1 = k
    OBVIOUS
  <2> QED
    BY <2>1, FS_Interval
<1>5. Cardinality(Fitting(n, w)) <= k /\ Cardinality(Fitting(n, w)) \in Nat
  BY <1>3, <1>4, FS_Subset, FS_CardinalityType
<1> QED
  BY <1>5

LEMMA Generated ==
  ASSUME NEW w \in WfaConfigs, NEW n \in Nat
  PROVE  LET g == generate_splits(n, w)
         IN  /\ \A i \in DOMAIN g : /\ i \in Nat \ {0} /\ g[i] = window(w, i - 1)
                                    /\ g[i].test_end <= n
             /\ \A i \in DOMAIN g : i + 1 \in DOMAIN g => g[i + 1] = window(w, (i - 1) + 1)
<1> DEFINE c == Cardinality(Fitting(n, w))
           g == generate_splits(n, w)
<1>1. c \in Nat
  <2>1. Fitting(n, w) \in SUBSET (0..n) /\ IsFiniteSet(0..n)
    BY FS_Interval DEF Fitting
  <2> QED
    BY <2>1, FS_Subset, FS_CardinalityType
<1>2. g = [i \in 1..c |-> window(w, i - 1)]
  BY DEF generate_splits, Fitting
<1> HIDE DEF c, g
<1>3. ASSUME NEW i \in DOMAIN g
      PROVE  i \in Nat \ {0} /\ i - 1 \in Nat /\ i - 1 < c /\ g[i] = window(w, i - 1)
  BY <1>1, <1>2
<1>4. ASSUME NEW i \in DOMAIN g  PROVE g[i].test_end <= n
  <2>1. i - 1 \in Fitting(n, w)
    BY <1>3, GeneratedFits DEF c
  <2> QED
    BY <1>3, <2>1 DEF Fitting
<1>5. ASSUME NEW i \in DOMAIN g, i + 1 \in DOMAIN g  PROVE g[i + 1] = window(w, (i - 1) + 1)
  <2>1. (i + 1) - 1 = (i - 1) + 1
    BY <1>3
  <2> QED
    BY <1>3, <1>5, <2>1
<1> QED
  BY <1>3, <1>4, <1>5 DEF g

(* wfa.py: whatever configuration is accepted, no window trains on what it *)
(* tests or within purge and embargo of it, no two windows share a test    *)
(* point, and every window lies within the timeline; assert_no_leakage     *)
(* never fires.                                                            *)
THEOREM NoLeakage ==
  ASSUME NEW w \in WfaConfigs, NEW n \in Nat, SplitsOK(w)
  PROVE  /\ assert_no_leakage(generate_splits(n, w), w)
         /\ \A i \in DOMAIN generate_splits(n, w) : generate_splits(n, w)[i].test_end <= n
<1> DEFINE g == generate_splits(n, w)
<1>1. ASSUME NEW i \in DOMAIN g
      PROVE  /\ g[i].train_end <= g[i].test_start
             /\ g[i].train_start < g[i].train_end
             /\ g[i].test_start - g[i].train_end >= w.purge + w.embargo
  <2>1. i - 1 \in Nat /\ g[i] = window(w, i - 1)
    BY Generated
  <2>2. (i - 1) * w.step \in Nat
    BY <2>1 DEF WfaConfigs
  <2> QED
    BY <2>1, <2>2 DEF window, SplitsOK, WfaConfigs
<1>2. ASSUME NEW i \in DOMAIN g, i + 1 \in DOMAIN g
      PROVE  g[i + 1].test_start >= g[i].test_end
  <2>1. i - 1 \in Nat /\ g[i] = window(w, i - 1) /\ g[i + 1] = window(w, (i - 1) + 1)
    BY <1>2, Generated
  <2>2. window(w, (i - 1) + 1).test_start = window(w, i - 1).test_start + w.step
    BY <2>1, NextWindow
  <2>3. (i - 1) * w.step \in Nat
    BY <2>1 DEF WfaConfigs
  <2> QED
    BY <2>1, <2>2, <2>3 DEF window, SplitsOK, WfaConfigs
<1>3. \A i \in DOMAIN g : g[i].test_end <= n
  BY Generated
<1> QED
  BY <1>1, <1>2, <1>3 DEF assert_no_leakage
=============================================================================
