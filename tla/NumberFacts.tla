----------------------------- MODULE NumberFacts -----------------------------
(***************************************************************************)
(* Facts about natural numbers, sets of them and sums that the proofs of   *)
(* several modules rest on.  What would be an induction over a predicate   *)
(* is one over a set of numbers here: a set with an element has a least.   *)
(***************************************************************************)
EXTENDS Sums, FiniteSetsExt, NaturalsInduction, WellFoundedInduction, TLAPS

\* Every set of natural numbers with an element has a least one: induction,
\* for a set instead of a predicate.
LEMMA LeastElement ==
  ASSUME NEW T \in SUBSET Nat, T # {}
  PROVE  \E n \in T : \A m \in T : n <= m
<1> DEFINE R == OpToRel(<, Nat)
<1>1. IsWellFoundedOn(R, Nat)
  BY NatLessThanWellFounded
<1>2. \A m, n \in Nat : m < n => <<m, n>> \in R
  BY DEF OpToRel
<1> HIDE DEF R
<1>3. PICK n \in T : \A m \in T : ~ (<<m, n>> \in R)
  BY <1>1, WFMin
<1>4. ASSUME NEW m \in T PROVE n <= m
  <2>1. m \in Nat /\ n \in Nat
    OBVIOUS
  <2>2. ~(m < n)
    BY <1>2, <1>3, <2>1
  <2> QED
    BY <2>1, <2>2
<1> QED
  BY <1>4

\* The same as a rule: what holds at 0, and at a number if at the one before
\* it, leaves out no number up to n.
LEMMA NoneIsLeft ==
  ASSUME NEW n \in Nat, NEW T \in SUBSET (0 .. n), 0 \notin T,
         \A k \in 1 .. n : k \in T => k - 1 \in T
  PROVE  T = {}
<1> SUFFICES ASSUME T # {} PROVE FALSE
  OBVIOUS
<1>1. PICK k \in T : \A m \in T : k <= m
  BY LeastElement
<1>2. k \in 1 .. n /\ k - 1 \in Nat /\ ~(k <= k - 1)
  OBVIOUS
<1> QED
  BY <1>1, <1>2

\* A set of numbers up to a bound has a greatest element.
LEMMA GreatestElement ==
  ASSUME NEW T \in SUBSET Nat, T # {}, NEW b \in Nat, \A n \in T : n <= b
  PROVE  /\ Max(T) \in T
         /\ \A n \in T : n <= Max(T)
<1> DEFINE D == {b - n : n \in T}
<1>1. D \in SUBSET Nat /\ D # {}
  <2>1. ASSUME NEW n \in T PROVE b - n \in Nat
    <3>1. n \in Nat /\ n <= b
      OBVIOUS
    <3> QED
      BY <3>1
  <2> QED
    BY <2>1
<1>2. PICK d \in D : \A e \in D : d <= e
  BY <1>1, LeastElement
<1>3. PICK m \in T : d = b - m
  BY <1>2
<1>4. ASSUME NEW n \in T PROVE m >= n
  <2>1. m \in Nat /\ n \in Nat
    OBVIOUS
  <2>2. b - m <= b - n
    BY <1>2, <1>3
  <2> QED
    BY <2>1, <2>2
<1> QED
  BY <1>3, <1>4 DEF Max

\* The greatest element, when it is known.
LEMMA MaxIs ==
  ASSUME NEW T \in SUBSET Nat, NEW m \in T, \A n \in T : n <= m
  PROVE  Max(T) = m
<1>1. Max(T) \in T /\ \A n \in T : n <= Max(T)
  BY GreatestElement
<1>2. m \in Nat /\ Max(T) \in Nat /\ m <= Max(T) /\ Max(T) <= m
  BY <1>1
<1> QED
  BY <1>2

\* A function on 1 .. n with natural values has a bound.
LEMMA BoundedFunction ==
  ASSUME NEW n \in Nat, NEW g \in [1 .. n -> Nat]
  PROVE  \E b \in Nat : \A i \in 1 .. n : g[i] <= b
<1> DEFINE Bounded(k) == \E b \in Nat : \A i \in 1 .. n : i <= k => g[i] <= b
           T == {k \in Nat : ~Bounded(k)}
<1> SUFFICES T = {}
  <2>1. Bounded(n)
    OBVIOUS
  <2> QED
    BY <2>1
<1> SUFFICES ASSUME T # {} PROVE FALSE
  OBVIOUS
<1>1. PICK k \in T : \A m \in T : k <= m
  BY LeastElement
<1>2. Bounded(0)
  OBVIOUS
<1>3. k \in Nat \ {0} /\ Bounded(k - 1)
  <2>1. k \in Nat \ {0}
    BY <1>1, <1>2
  <2>2. k - 1 \in Nat /\ ~(k <= k - 1)
    BY <2>1
  <2>3. k - 1 \notin T
    BY <1>1, <2>2
  <2> QED
    BY <2>1, <2>2, <2>3
<1>4. PICK b \in Nat : \A i \in 1 .. n : i <= k - 1 => g[i] <= b
  BY <1>3
<1> HIDE DEF T
<1>5. Bounded(k)
  <2>1. CASE k \notin 1 .. n
    <3>1. \A i \in 1 .. n : i <= k => i <= k - 1
      BY <1>3, <2>1
    <3> QED
      BY <1>4, <3>1
  <2>2. CASE k \in 1 .. n /\ g[k] <= b
    <3>1. \A i \in 1 .. n : i <= k => i <= k - 1 \/ i = k
      BY <1>3
    <3> QED
      BY <1>4, <2>2, <3>1
  <2>3. CASE k \in 1 .. n /\ g[k] > b
    <3>1. k \in Nat /\ g[k] \in Nat
      BY <2>3
    <3>2. ASSUME NEW i \in 1 .. n, i <= k PROVE g[i] <= g[k]
      <4>1. i = k \/ i <= k - 1
        BY <3>1, <3>2
      <4>2. g[i] \in Nat
        OBVIOUS
      <4>3. CASE i <= k - 1
        <5>1. g[i] <= b
          BY <1>4, <4>3
        <5> QED
          BY <2>3, <3>1, <4>2, <5>1
      <4> QED
        BY <3>1, <4>1, <4>3
    <3> QED
      BY <3>1, <3>2
  <2>4. k \notin 1 .. n \/ g[k] \in Nat
    OBVIOUS
  <2> QED
    BY <2>1, <2>2, <2>3, <2>4
<1> QED
  BY <1>1, <1>5 DEF T

\* Numbers each of which is greater than the one before are in order.
LEMMA Ascending ==
  ASSUME NEW n \in Nat, NEW g, \A k \in 0 .. n : g[k] \in Nat,
         \A k \in 1 .. n : g[k - 1] < g[k]
  PROVE  \A i, j \in 0 .. n : i < j => g[i] < g[j]
<1> SUFFICES ASSUME NEW i \in 0 .. n, NEW j \in 0 .. n, i < j
             PROVE  g[i] < g[j]
  OBVIOUS
<1> DEFINE T == {k \in 0 .. n : i < k /\ ~(g[i] < g[k])}
<1>1. T \in SUBSET (0 .. n) /\ 0 \notin T
  OBVIOUS
<1>2. ASSUME NEW k \in 1 .. n, k \in T PROVE k - 1 \in T
  <2>1. k - 1 \in 0 .. n /\ i < k /\ ~(g[i] < g[k]) /\ g[k - 1] < g[k]
    BY <1>2
  <2>2. g[i] \in Nat /\ g[k] \in Nat /\ g[k - 1] \in Nat
    BY <2>1
  <2>3. ~(g[i] < g[k - 1]) /\ i # k - 1
    BY <2>1, <2>2
  <2> QED
    BY <2>1, <2>3
<1>3. T = {}
  <2> HIDE DEF T
  <2> QED
    BY <1>1, <1>2, NoneIsLeft
<1> QED
  BY <1>3
-----------------------------------------------------------------------------
(***************************************************************************)
(* Sums.                                                                   *)
(***************************************************************************)

\* g holds the sums of the first 0, 1, .. n numbers.
IsSum(g, a, n) == g = [k \in 0 .. n |-> IF k = 0 THEN 0 ELSE g[k - 1] + a[k]]

LEMMA SumSteps ==
  ASSUME NEW n \in Nat, NEW a, NEW g, IsSum(g, a, n)
  PROVE  /\ DOMAIN g = 0 .. n
         /\ g[0] = 0
         /\ \A k \in 1 .. n : g[k] = g[k - 1] + a[k]
<1>1. DOMAIN g = 0 .. n
  BY DEF IsSum
<1>2. g[0] = 0
  BY DEF IsSum
<1>3. ASSUME NEW k \in 1 .. n PROVE g[k] = g[k - 1] + a[k]
  BY DEF IsSum
<1> QED
  BY <1>1, <1>2, <1>3

LEMMA SumExists ==
  ASSUME NEW n \in Nat, NEW a
  PROVE  \E g : IsSum(g, a, n)
<1> DEFINE T == {k \in 0 .. n : ~ \E g : IsSum(g, a, k)}
<1>1. 0 \notin T
  <2>1. IsSum([k \in 0 .. 0 |-> 0], a, 0)
    BY DEF IsSum
  <2> QED
    BY <2>1
<1>2. ASSUME NEW k \in 1 .. n, \E g : IsSum(g, a, k - 1)
      PROVE  \E g : IsSum(g, a, k)
  <2>1. k \in Nat /\ k - 1 \in Nat
    OBVIOUS
  <2>2. PICK g : IsSum(g, a, k - 1)
    BY <1>2
  <2>3. /\ g[0] = 0
        /\ \A j \in 1 .. k - 1 : g[j] = g[j - 1] + a[j]
    BY <2>1, <2>2, SumSteps
  <2> DEFINE h == [j \in 0 .. k |-> IF j = k THEN g[k - 1] + a[k] ELSE g[j]]
  <2>4. \A j \in 0 .. k : h[j] = IF j = 0 THEN 0 ELSE h[j - 1] + a[j]
    <3>1. SUFFICES ASSUME NEW j \in 0 .. k
                   PROVE  h[j] = IF j = 0 THEN 0 ELSE h[j - 1] + a[j]
      OBVIOUS
    <3>2. CASE j = 0
      BY <2>1, <2>3, <3>2
    <3>3. CASE j = k
      <4>1. h[k] = g[k - 1] + a[k] /\ h[k - 1] = g[k - 1] /\ k # 0
        BY <2>1
      <4> QED
        BY <3>3, <4>1
    <3>4. CASE j # 0 /\ j # k
      <4>1. j \in 1 .. k - 1 /\ j - 1 \in 0 .. k /\ j - 1 # k
        BY <2>1, <3>4
      <4>2. h[j] = g[j] /\ h[j - 1] = g[j - 1]
        BY <3>4, <4>1
      <4> QED
        BY <2>3, <3>4, <4>1, <4>2
    <3> QED
      BY <3>2, <3>3, <3>4
  <2>5. h = [j \in 0 .. k |-> h[j]]
    OBVIOUS
  <2> HIDE DEF h
  <2>6. IsSum(h, a, k)
    BY <2>4, <2>5 DEF IsSum
  <2> QED
    BY <2>6
<1>3. T = {}
  <2>1. T \in SUBSET (0 .. n) /\ \A k \in 1 .. n : k \in T => k - 1 \in T
    BY <1>2
  <2> HIDE DEF T
  <2> QED
    BY <1>1, <2>1, NoneIsLeft
<1> QED
  BY <1>3

LEMMA SumUnique ==
  ASSUME NEW m \in Nat, NEW n \in Nat, m <= n, NEW a,
         NEW g, IsSum(g, a, m), NEW h, IsSum(h, a, n)
  PROVE  g[m] = h[m]
<1> DEFINE T == {k \in 0 .. m : g[k] # h[k]}
<1>1. /\ g[0] = 0 /\ \A k \in 1 .. m : g[k] = g[k - 1] + a[k]
      /\ h[0] = 0 /\ \A k \in 1 .. n : h[k] = h[k - 1] + a[k]
  BY SumSteps
<1>2. 0 \notin T
  BY <1>1
<1>3. ASSUME NEW k \in 1 .. m, k \in T PROVE k - 1 \in T
  <2>1. k \in 1 .. n /\ k - 1 \in 0 .. m
    OBVIOUS
  <2> QED
    BY <1>1, <1>3, <2>1
<1>4. T \in SUBSET (0 .. m)
  OBVIOUS
<1>5. T = {}
  <2> HIDE DEF T
  <2> QED
    BY <1>2, <1>3, <1>4, NoneIsLeft
<1> QED
  BY <1>5

LEMMA SumUpToIs ==
  ASSUME NEW n \in Nat, NEW a
  PROVE  \E g : IsSum(g, a, n) /\ SumUpTo(a, n) = g[n]
<1> DEFINE c == CHOOSE g : IsSum(g, a, n)
<1>1. IsSum(c, a, n)
  BY SumExists
<1>2. SumUpTo(a, n) = c[n]
  BY DEF SumUpTo, IsSum
<1> HIDE DEF c
<1> QED
  BY <1>1, <1>2

\* How a sum is computed.
LEMMA SumUpToSteps ==
  ASSUME NEW a
  PROVE  /\ SumUpTo(a, 0) = 0
         /\ \A n \in Nat : SumUpTo(a, n + 1) = SumUpTo(a, n) + a[n + 1]
<1>1. SumUpTo(a, 0) = 0
  <2>1. PICK g : IsSum(g, a, 0) /\ SumUpTo(a, 0) = g[0]
    BY SumUpToIs
  <2> QED
    BY <2>1, SumSteps
<1>2. ASSUME NEW n \in Nat PROVE SumUpTo(a, n + 1) = SumUpTo(a, n) + a[n + 1]
  <2>1. n + 1 \in Nat /\ n + 1 \in 1 .. n + 1 /\ n <= n + 1 /\ (n + 1) - 1 = n
    OBVIOUS
  <2>2. PICK g : IsSum(g, a, n) /\ SumUpTo(a, n) = g[n]
    BY SumUpToIs
  <2>3. PICK h : IsSum(h, a, n + 1) /\ SumUpTo(a, n + 1) = h[n + 1]
    BY <2>1, SumUpToIs
  <2>4. h[n + 1] = h[n] + a[n + 1]
    BY <2>1, <2>3, SumSteps
  <2>5. g[n] = h[n]
    BY <2>1, <2>2, <2>3, SumUnique
  <2> QED
    BY <2>2, <2>3, <2>4, <2>5
<1> QED
  BY <1>1, <1>2

\* A sum of natural numbers is one, and does not shrink when more are added.
LEMMA SumIsNat ==
  ASSUME NEW n \in Nat, NEW a, \A k \in 1 .. n : a[k] \in Nat
  PROVE  /\ SumUpTo(a, n) \in Nat
         /\ \A m \in 0 .. n : SumUpTo(a, m) \in Nat /\ SumUpTo(a, m) <= SumUpTo(a, n)
<1> DEFINE S(m) == SumUpTo(a, m)
<1>1. S(0) = 0 /\ \A m \in Nat : S(m + 1) = S(m) + a[m + 1]
  BY SumUpToSteps
<1> HIDE DEF S
<1>2. ASSUME NEW k \in 1 .. n PROVE k - 1 \in Nat /\ k - 1 \in 0 .. n /\ S(k) = S(k - 1) + a[k]
  <2>1. k - 1 \in Nat /\ k - 1 \in 0 .. n /\ (k - 1) + 1 = k
    OBVIOUS
  <2> QED
    BY <1>1, <2>1
<1>3. \A m \in 0 .. n : S(m) \in Nat
  <2> DEFINE T == {m \in 0 .. n : S(m) \notin Nat}
  <2>1. T \in SUBSET (0 .. n) /\ 0 \notin T
    BY <1>1
  <2>2. ASSUME NEW k \in 1 .. n, k \in T PROVE k - 1 \in T
    BY <1>2, <2>2
  <2>3. T = {}
    <3> HIDE DEF T
    <3> QED
      BY <2>1, <2>2, NoneIsLeft
  <2> QED
    BY <2>3
<1>4. ASSUME NEW m \in 0 .. n PROVE S(m) <= S(n)
  <2> DEFINE T == {k \in 0 .. n : m <= k /\ ~(S(m) <= S(k))}
  <2>1. T \in SUBSET (0 .. n) /\ 0 \notin T
    <3>1. m <= 0 => S(m) <= S(0)
      BY <1>1
    <3> QED
      BY <3>1
  <2>2. ASSUME NEW k \in 1 .. n, k \in T PROVE k - 1 \in T
    <3>1. k - 1 \in 0 .. n /\ S(k) = S(k - 1) + a[k] /\ a[k] \in Nat
      BY <1>2
    <3>2. S(m) \in Nat /\ S(k) \in Nat /\ S(k - 1) \in Nat
      BY <1>3, <3>1
    <3>3. m <= k /\ ~(S(m) <= S(k))
      BY <2>2
    <3>4. m # k
      BY <3>2, <3>3
    <3>5. m <= k - 1 /\ ~(S(m) <= S(k - 1))
      BY <3>1, <3>2, <3>3, <3>4
    <3> QED
      BY <3>1, <3>5
  <2>3. T = {}
    <3> HIDE DEF T
    <3> QED
      BY <2>1, <2>2, NoneIsLeft
  <2>4. n \in 0 .. n /\ m <= n
    OBVIOUS
  <2> QED
    BY <2>3, <2>4
<1> QED
  BY <1>3, <1>4 DEF S

\* Number by number, a sum is at most another one.
LEMMA SumAtMost ==
  ASSUME NEW n \in Nat, NEW a, NEW b,
         \A k \in 1 .. n : a[k] \in Nat /\ b[k] \in Nat /\ a[k] <= b[k]
  PROVE  SumUpTo(a, n) <= SumUpTo(b, n)
<1> DEFINE A(m) == SumUpTo(a, m)
           B(m) == SumUpTo(b, m)
<1>1. /\ A(0) = 0 /\ \A m \in Nat : A(m + 1) = A(m) + a[m + 1]
      /\ B(0) = 0 /\ \A m \in Nat : B(m + 1) = B(m) + b[m + 1]
  BY SumUpToSteps
<1>2. \A m \in 0 .. n : A(m) \in Nat /\ B(m) \in Nat
  BY SumIsNat
<1> HIDE DEF A, B
<1> DEFINE T == {m \in 0 .. n : ~(A(m) <= B(m))}
<1>3. T \in SUBSET (0 .. n) /\ 0 \notin T
  BY <1>1
<1>4. ASSUME NEW k \in 1 .. n, k \in T PROVE k - 1 \in T
  <2>1. k - 1 \in Nat /\ k - 1 \in 0 .. n /\ (k - 1) + 1 = k /\ k \in 0 .. n
    OBVIOUS
  <2>2. A(k) = A(k - 1) + a[k] /\ B(k) = B(k - 1) + b[k]
    BY <1>1, <2>1
  <2>3. A(k - 1) \in Nat /\ B(k - 1) \in Nat /\ ~(A(k) <= B(k))
    BY <1>2, <1>4, <2>1
  <2>4. ~(A(k - 1) <= B(k - 1))
    BY <2>2, <2>3
  <2> QED
    BY <2>1, <2>4
<1>5. T = {}
  <2> HIDE DEF T
  <2> QED
    BY <1>3, <1>4, NoneIsLeft
<1>6. A(n) <= B(n)
  BY <1>5
<1> QED
  BY <1>6 DEF A, B

\* A sum depends on the numbers that are added only.
LEMMA SumOfSame ==
  ASSUME NEW n \in Nat, NEW a, NEW b, \A k \in 1 .. n : a[k] = b[k]
  PROVE  SumUpTo(a, n) = SumUpTo(b, n)
<1> DEFINE A(m) == SumUpTo(a, m)
           B(m) == SumUpTo(b, m)
<1>1. /\ A(0) = 0 /\ \A m \in Nat : A(m + 1) = A(m) + a[m + 1]
      /\ B(0) = 0 /\ \A m \in Nat : B(m + 1) = B(m) + b[m + 1]
  BY SumUpToSteps
<1> HIDE DEF A, B
<1> DEFINE T == {m \in 0 .. n : A(m) # B(m)}
<1>2. T \in SUBSET (0 .. n) /\ 0 \notin T
  BY <1>1
<1>3. ASSUME NEW k \in 1 .. n, k \in T PROVE k - 1 \in T
  <2>1. k - 1 \in Nat /\ k - 1 \in 0 .. n /\ (k - 1) + 1 = k
    OBVIOUS
  <2>2. A(k) = A(k - 1) + a[k] /\ B(k) = B(k - 1) + b[k]
    BY <1>1, <2>1
  <2> QED
    BY <1>3, <2>1, <2>2
<1>4. T = {}
  <2> HIDE DEF T
  <2> QED
    BY <1>2, <1>3, NoneIsLeft
<1>5. A(n) = B(n)
  BY <1>4
<1> QED
  BY <1>5 DEF A, B
=============================================================================
