----------------------------- MODULE UnitProofs -----------------------------
(***************************************************************************)
(* Of an object file, that what the compiler writes the linker reads; and  *)
(* of Unit, its types, and that what it puts in an object lies apart,      *)
(* whatever the unit declares and however much of it there is.             *)
(*                                                                         *)
(* The end of a unit, a function's body, its relocations, the strings and  *)
(* the relocations of a file are folds and sums over sequences of any      *)
(* length. A fold is a function of the subsets of its indices, of which    *)
(* each is made from the one without its greatest; that there is one       *)
(* (Folding), that it has stages, each made from the one before (StagesIn),*)
(* and that what every stage keeps the whole keeps is proved by induction  *)
(* on the indices, from the library's NatLessThanWellFounded.              *)
(***************************************************************************)
EXTENDS Unit, FiniteSetTheorems, SequenceTheorems, WellFoundedInduction, TLAPS

\* Induction, stated of a set.
LEMMA NaturalInduction ==
  ASSUME NEW S, \A n \in Nat : (\A m \in Nat : m < n => m \in S) => n \in S
  PROVE  \A n \in Nat : n \in S
<1> DEFINE R == OpToRel(<, Nat)
           T == {n \in Nat : n \notin S}
<1>1. SUFFICES ASSUME T # {} PROVE FALSE
  OBVIOUS
<1>2. IsWellFoundedOn(R, Nat)
  BY NatLessThanWellFounded
<1>3. \A x, y \in Nat : <<x, y>> \in R <=> x < y
  BY DEF OpToRel
<1>4. T \subseteq Nat
  OBVIOUS
<1> HIDE DEF R, T
<1>5. PICK x \in T : \A y \in T : ~(<<y, x>> \in R)
  BY <1>1, <1>2, <1>4, WFMin
<1> USE DEF T
<1> QED
  BY <1>3, <1>4, <1>5

\* Induction over the numbers, one after the other.
LEMMA Counting ==
  ASSUME NEW S, 0 \in S, \A n \in Nat : n \in S => n + 1 \in S
  PROVE  \A n \in Nat : n \in S
<1>1. ASSUME NEW n \in Nat, \A m \in Nat : m < n => m \in S PROVE n \in S
  <2>1. CASE n = 0
    BY <2>1
  <2>2. CASE n # 0
    <3>1. n - 1 \in Nat /\ n - 1 < n /\ (n - 1) + 1 = n
      BY <2>2
    <3> QED
      BY <1>1, <3>1
  <2> QED
    BY <2>1, <2>2
<1> QED
  BY <1>1, NaturalInduction

\* A set of numbers that is not empty has a least one.
LEMMA Least ==
  ASSUME NEW S \in SUBSET Nat, S # {}
  PROVE  Min(S) \in S /\ \A i \in S : Min(S) <= i
<1> DEFINE T == {n \in Nat : n \notin S}
<1>1. ASSUME \A x \in S : \E y \in S : ~(x <= y) PROVE FALSE
  <2>1. ASSUME NEW n \in Nat, \A m \in Nat : m < n => m \in T PROVE n \in T
    <3>1. CASE n \in S
      <4>1. PICK y \in S : ~(n <= y)
        BY <1>1, <3>1
      <4>2. y \in Nat /\ y < n
        BY <4>1
      <4> QED
        BY <2>1, <4>2
    <3> QED
      BY <3>1
  <2> HIDE DEF T
  <2>2. \A n \in Nat : n \in T
    BY <2>1, NaturalInduction
  <2> QED
    BY <2>2 DEF T
<1>2. \E x \in S : \A y \in S : x =< y
  BY <1>1
<1> QED
  BY <1>2 DEF Min

\* A set of indices that is not empty has a greatest one.
LEMMA Greatest ==
  ASSUME NEW n \in Nat, NEW s \in SUBSET (1..n), s # {}
  PROVE  Max(s) \in s /\ \A i \in s : i <= Max(s)
<1> DEFINE HasMax(t) == \E x \in t : \A y \in t : x >= y
           N == {k \in Nat : \A t \in SUBSET (1..k) : t # {} => HasMax(t)}
<1>1. ASSUME NEW k \in Nat, \A m \in Nat : m < k => m \in N
      PROVE  k \in N
  <2>1. SUFFICES ASSUME NEW t \in SUBSET (1..k), t # {} PROVE HasMax(t)
    OBVIOUS
  <2>2. CASE k \in t
    <3>1. \A y \in t : k >= y
      OBVIOUS
    <3> QED
      BY <2>2, <3>1
  <2>3. CASE k \notin t
    <3>1. ASSUME NEW i \in t PROVE i \in 1..(k - 1) /\ k > 0
      <4>1. i \in Int /\ 1 <= i /\ i <= k /\ i # k
        BY <2>1, <2>3
      <4> QED
        BY <4>1
    <3>3. k - 1 \in Nat /\ k - 1 < k
      <4>1. \E i \in t : TRUE
        BY <2>1
      <4>2. k > 0
        BY <3>1, <4>1
      <4> QED
        BY <4>2
    <3>2. k - 1 \in N
      BY <1>1, <3>3
    <3> QED
      BY <2>1, <3>1, <3>2
  <2> QED
    BY <2>2, <2>3
<1> HIDE DEF N
<1>2. n \in N
  BY <1>1, NaturalInduction
<1>3. HasMax(s)
  BY <1>2 DEF N
<1> QED
  BY <1>3 DEF Max

\* What a fold is of a set of indices, from what it is of the others.
FoldRule(f, s, base, F) == IF s = {} THEN base ELSE F[<<f[s \ {Max(s)}], Max(s)>>]

FoldExists(n, V, base, F) ==
  \E f \in [SUBSET (1..n) -> V] :
    \A s \in SUBSET (1..n) : f[s] = FoldRule(f, s, base, F)

\* There is a function that follows the rule of a fold.
LEMMA Folding ==
  ASSUME NEW n \in Nat, NEW V, NEW base \in V, NEW F \in [V \X (1..n) -> V]
  PROVE  FoldExists(n, V, base, F)
<1> DEFINE All == SUBSET (1..n)
           Rule(f, s) == IF s = {} THEN base ELSE F[<<f[s \ {Max(s)}], Max(s)>>]
           N == {k \in Nat : \E f \in [All -> V] :
                               \A s \in All : s \subseteq 1..k => f[s] = Rule(f, s)}
<1>1. ASSUME NEW s \in All, s # {}
      PROVE  /\ Max(s) \in s /\ Max(s) \in 1..n /\ s \ {Max(s)} \in All
             /\ \A k \in Nat : s \subseteq 1..k => s \ {Max(s)} \subseteq 1..(k - 1)
  <2>1. Max(s) \in s /\ \A i \in s : i <= Max(s)
    BY <1>1, Greatest
  <2>2. Max(s) \in 1..n /\ s \ {Max(s)} \in All
    BY <2>1
  <2>3. ASSUME NEW k \in Nat, s \subseteq 1..k, NEW i \in s \ {Max(s)}
        PROVE  i \in 1..(k - 1)
    <3>1. i \in Int /\ i >= 1 /\ i <= Max(s) /\ i # Max(s) /\ Max(s) <= k /\ Max(s) \in Int
      BY <2>1, <2>2, <2>3
    <3> QED
      BY <3>1
  <2> QED
    BY <2>1, <2>2, <2>3
<1>2. ASSUME NEW f \in [All -> V], NEW s \in All
      PROVE  Rule(f, s) \in V
  <2>1. CASE s # {}
    <3>1. f[s \ {Max(s)}] \in V
      BY <1>1, <2>1
    <3> QED
      BY <1>1, <2>1, <3>1
  <2> QED
    BY <2>1
<1>3. ASSUME NEW k \in Nat, \A m \in Nat : m < k => m \in N
      PROVE  k \in N
  <2>1. CASE k = 0
    <3> DEFINE f == [s \in All |-> base]
    <3>1. f \in [All -> V]
      OBVIOUS
    <3>2. \A s \in All : s \subseteq 1..k => f[s] = Rule(f, s)
      BY <2>1
    <3> QED
      BY <3>1, <3>2
  <2>2. CASE k > 0
    <3>1. k - 1 \in N
      <4>1. k - 1 \in Nat /\ k - 1 < k
        BY <2>2
      <4> HIDE DEF N
      <4> QED
        BY <1>3, <4>1
    <3>2. PICK f \in [All -> V] :
            \A s \in All : s \subseteq 1..(k - 1) => f[s] = Rule(f, s)
      BY <3>1
    <3> DEFINE g == [s \in All |-> IF s \subseteq 1..(k - 1) THEN f[s] ELSE Rule(f, s)]
    <3>3. g \in [All -> V]
      BY <1>2
    <3>4. ASSUME NEW s \in All, s \subseteq 1..k PROVE g[s] = Rule(g, s)
      <4>1. g[s] = Rule(f, s)
        BY <3>2
      <4>2. CASE s # {}
        <5>1. g[s \ {Max(s)}] = f[s \ {Max(s)}]
          BY <1>1, <3>4, <4>2
        <5> HIDE DEF g
        <5> QED
          BY <4>1, <5>1
      <4> QED
        BY <4>1, <4>2
    <3> HIDE DEF g
    <3> QED
      BY <3>3, <3>4
  <2>3. k = 0 \/ k > 0
    OBVIOUS
  <2> HIDE DEF N
  <2> QED
    BY <2>1, <2>2, <2>3
<1> HIDE DEF N
<1>4. n \in N
  BY <1>3, NaturalInduction
<1> QED
  BY <1>4 DEF N, FoldRule, FoldExists

\* The first k indices are k and the first k - 1.
LEMMA Initial ==
  ASSUME NEW n \in Nat, NEW k \in 1..n
  PROVE  /\ Max(1..k) = k /\ (1..k) \ {k} = 1..(k - 1)
         /\ 1..k \in SUBSET (1..n) /\ 1..k # {} /\ k - 1 \in 0..n
<1>1. 1..k \in SUBSET (1..n) /\ k \in 1..k /\ (1..k) \ {k} = 1..(k - 1) /\ k - 1 \in 0..n
  OBVIOUS
<1>2. Max(1..k) \in 1..k /\ \A i \in 1..k : i <= Max(1..k)
  BY <1>1, Greatest
<1>3. Max(1..k) = k
  BY <1>1, <1>2
<1> QED
  BY <1>1, <1>3

\* What each stage keeps all of them keep.
LEMMA StagesIn ==
  ASSUME NEW n \in Nat, NEW V, NEW h, h[0] \in V, \A k \in 1..n : h[k - 1] \in V => h[k] \in V
  PROVE  \A k \in 0..n : h[k] \in V
<1> DEFINE S == {k \in Nat : k <= n => h[k] \in V}
<1>1. 0 \in S
  OBVIOUS
<1>2. ASSUME NEW k \in Nat, k \in S PROVE k + 1 \in S
  <2> SUFFICES ASSUME k + 1 <= n PROVE h[k + 1] \in V
    OBVIOUS
  <2>1. h[k] \in V /\ k + 1 \in 1..n /\ (k + 1) - 1 = k
    BY <1>2
  <2> QED
    BY <2>1
<1> HIDE DEF S
<1>3. \A k \in Nat : k \in S
  BY <1>1, <1>2, Counting
<1> QED
  BY <1>3 DEF S

-----------------------------------------------------------------------------
(* Totals *)

SumRule(f, a, i) == IF i = 0 THEN 0 ELSE f[i - 1] + a[i]
Sums(f, a, n) == f = [i \in 0..n |-> SumRule(f, a, i)]

LEMMA SumsExist ==
  ASSUME NEW a
  PROVE  \A n \in Nat : \E f : Sums(f, a, n)
<1> DEFINE S == {n \in Nat : \E f : Sums(f, a, n)}
<1>1. 0 \in S
  <2> DEFINE f == [i \in 0..0 |-> 0]
  <2>1. f = [i \in 0..0 |-> SumRule(f, a, i)]
    BY DEF SumRule
  <2> QED
    BY <2>1 DEF Sums
<1>2. ASSUME NEW n \in Nat, n \in S PROVE n + 1 \in S
  <2>1. PICK f : Sums(f, a, n)
    BY <1>2
  <2>2. \A i \in 0..n : f[i] = SumRule(f, a, i)
    BY <2>1 DEF Sums
  <2> DEFINE g == [i \in 0..(n + 1) |-> IF i = n + 1 THEN f[n] + a[n + 1] ELSE f[i]]
  <2>3. ASSUME NEW i \in 0..(n + 1) PROVE g[i] = SumRule(g, a, i)
    <3>1. CASE i = n + 1
      BY <3>1 DEF SumRule
    <3>2. CASE i # n + 1
      <4>1. i \in 0..n /\ (i # 0 => i - 1 \in 0..n /\ i - 1 # n + 1)
        BY <3>2
      <4> QED
        BY <2>2, <4>1 DEF SumRule
    <3> QED
      BY <3>1, <3>2
  <2>4. g = [i \in 0..(n + 1) |-> g[i]]
    OBVIOUS
  <2> HIDE DEF g
  <2>5. [i \in 0..(n + 1) |-> g[i]] = [i \in 0..(n + 1) |-> SumRule(g, a, i)]
    BY <2>3
  <2>6. Sums(g, a, n + 1)
    BY <2>4, <2>5 DEF Sums
  <2> QED
    BY <2>6
<1> HIDE DEF S
<1>3. \A n \in Nat : n \in S
  BY <1>1, <1>2, Counting
<1> QED
  BY <1>3 DEF S

LEMMA SumsAgree ==
  ASSUME NEW a, NEW m \in Nat, NEW n \in Nat, NEW f, NEW g, Sums(f, a, m), Sums(g, a, n)
  PROVE  \A k \in Nat : k <= m /\ k <= n => f[k] = g[k]
<1> DEFINE S == {k \in Nat : k <= m /\ k <= n => f[k] = g[k]}
<1>1. /\ \A i \in 0..m : f[i] = SumRule(f, a, i)
      /\ \A i \in 0..n : g[i] = SumRule(g, a, i)
  BY DEF Sums
<1>2. 0 \in S
  BY <1>1 DEF SumRule
<1>3. ASSUME NEW k \in Nat, k \in S PROVE k + 1 \in S
  <2>1. CASE k + 1 <= m /\ k + 1 <= n
    <3>1. k + 1 \in 0..m /\ k + 1 \in 0..n /\ k + 1 # 0 /\ k + 1 - 1 = k /\ f[k] = g[k]
      BY <1>3, <2>1
    <3>2. f[k + 1] = f[k] + a[k + 1] /\ g[k + 1] = g[k] + a[k + 1]
      BY <1>1, <3>1 DEF SumRule
    <3> QED
      BY <3>1, <3>2
  <2> QED
    BY <2>1
<1> HIDE DEF S
<1>4. \A k \in Nat : k \in S
  BY <1>2, <1>3, Counting
<1> QED
  BY <1>4 DEF S

\* Total adds up one amount after the other.
LEMMA TotalStep ==
  ASSUME NEW a
  PROVE  /\ Total(a, 0) = 0
         /\ \A n \in Nat : Total(a, n + 1) = Total(a, n) + a[n + 1]
<1>1. \A n \in Nat : \E f : Sums(f, a, n) /\ Total(a, n) = f[n]
  <2> SUFFICES ASSUME NEW n \in Nat PROVE \E f : Sums(f, a, n) /\ Total(a, n) = f[n]
    OBVIOUS
  <2> DEFINE f == CHOOSE f : Sums(f, a, n)
  <2>1. Sums(f, a, n)
    BY SumsExist
  <2>2. Total(a, n) = f[n]
    BY DEF Total, Sums, SumRule
  <2> QED
    BY <2>1, <2>2
<1>2. Total(a, 0) = 0
  BY <1>1 DEF Sums, SumRule
<1>3. ASSUME NEW n \in Nat PROVE Total(a, n + 1) = Total(a, n) + a[n + 1]
  <2>1. PICK f : Sums(f, a, n) /\ Total(a, n) = f[n]
    BY <1>1
  <2>2. PICK g : Sums(g, a, n + 1) /\ Total(a, n + 1) = g[n + 1]
    BY <1>1
  <2>3. f[n] = g[n]
    BY <2>1, <2>2, SumsAgree
  <2>4. g[n + 1] = g[n] + a[n + 1]
    <3>1. \A i \in 0..(n + 1) : g[i] = SumRule(g, a, i)
      BY <2>2 DEF Sums
    <3> QED
      BY <3>1 DEF SumRule
  <2> QED
    BY <2>1, <2>2, <2>3, <2>4
<1> QED
  BY <1>2, <1>3

\* Totals of natural amounts are natural, and grow.
LEMMA TotalGrows ==
  ASSUME NEW a, NEW last \in Nat, \A i \in 1..last : a[i] \in Nat
  PROVE  /\ \A n \in 0..last : Total(a, n) \in Nat
         /\ \A n \in 0..last : \A m \in 1..last : m <= n => Total(a, m - 1) + a[m] <= Total(a, n)
<1> DEFINE S == {n \in Nat : n <= last =>
                   /\ Total(a, n) \in Nat
                   /\ \A m \in 1..last : m <= n => /\ Total(a, m - 1) \in Nat
                                                  /\ Total(a, m - 1) + a[m] <= Total(a, n)}
<1>1. 0 \in S
  BY TotalStep
<1>2. ASSUME NEW n \in Nat, n \in S PROVE n + 1 \in S
  <2> SUFFICES ASSUME n + 1 <= last
               PROVE  /\ Total(a, n + 1) \in Nat
                      /\ \A m \in 1..last : m <= n + 1 => /\ Total(a, m - 1) \in Nat
                           /\ Total(a, m - 1) + a[m] <= Total(a, n + 1)
    OBVIOUS
  <2>1. Total(a, n) \in Nat /\ a[n + 1] \in Nat /\ Total(a, n + 1) = Total(a, n) + a[n + 1]
    BY <1>2, TotalStep
  <2>2. ASSUME NEW m \in 1..last, m <= n + 1
        PROVE  Total(a, m - 1) \in Nat /\ Total(a, m - 1) + a[m] <= Total(a, n + 1)
    <3>1. CASE m = n + 1
      BY <2>1, <3>1
    <3>2. CASE m <= n
      <4>1. Total(a, m - 1) \in Nat /\ Total(a, m - 1) + a[m] <= Total(a, n) /\ a[m] \in Nat
        BY <1>2, <2>2, <3>2
      <4> QED
        BY <2>1, <4>1
    <3> QED
      BY <2>2, <3>1, <3>2
  <2> QED
    BY <2>1, <2>2
<1> HIDE DEF S
<1>3. \A n \in Nat : n \in S
  BY <1>1, <1>2, Counting
<1>4. \A n \in 0..last : n \in S /\ n <= last /\ n \in Nat
  BY <1>3
<1> QED
  BY <1>4 DEF S

\* A total is of the amounts it adds up, and of no others.
LEMMA TotalSame ==
  ASSUME NEW a, NEW b, NEW last \in Nat, \A i \in 1..last : a[i] = b[i]
  PROVE  \A n \in 0..last : Total(a, n) = Total(b, n)
<1> DEFINE S == {n \in Nat : n <= last => Total(a, n) = Total(b, n)}
<1>1. 0 \in S
  BY TotalStep
<1>2. ASSUME NEW n \in Nat, n \in S PROVE n + 1 \in S
  <2> SUFFICES ASSUME n + 1 <= last PROVE Total(a, n + 1) = Total(b, n + 1)
    OBVIOUS
  <2>1. Total(a, n) = Total(b, n) /\ a[n + 1] = b[n + 1]
    BY <1>2
  <2> QED
    BY <2>1, TotalStep
<1> HIDE DEF S
<1>3. \A n \in Nat : n \in S
  BY <1>1, <1>2, Counting
<1> QED
  BY <1>3 DEF S
-----------------------------------------------------------------------------
(* Sorting *)

\* Keys of n numbers each.
KeysOf(n) == [1..n -> Int]

\* Where two keys differ first.
FirstApart(s, t, i) == s[i] # t[i] /\ \A j \in 1..(i - 1) : s[j] = t[j]

LEMMA KeysApart ==
  ASSUME NEW n \in Nat, NEW s \in KeysOf(n), NEW t \in KeysOf(n), s # t
  PROVE  \E i \in 1..n : FirstApart(s, t, i)
<1> DEFINE D == {i \in 1..n : s[i] # t[i]}
<1>1. D # {}
  <2>1. \E i \in 1..n : s[i] # t[i]
    BY DEF KeysOf
  <2> QED
    BY <2>1
<1>2. D \subseteq Nat
  OBVIOUS
<1>3. Min(D) \in D /\ \A i \in D : Min(D) <= i
  <2> HIDE DEF D
  <2> QED
    BY <1>1, <1>2, Least
<1>4. \A j \in 1..(Min(D) - 1) : s[j] = t[j]
  <2>1. Min(D) \in 1..n
    BY <1>3
  <2> SUFFICES ASSUME NEW j \in 1..(Min(D) - 1), s[j] # t[j] PROVE FALSE
    OBVIOUS
  <2>2. j \in 1..n /\ ~(Min(D) <= j)
    <3> HIDE DEF D
    <3> QED
      BY <2>1
  <2> QED
    BY <1>3, <2>2
<1> QED
  BY <1>3, <1>4 DEF FirstApart

\* Less orders keys of one length.
LEMMA LessOrders ==
  ASSUME NEW n \in Nat
  PROVE  /\ \A s \in KeysOf(n) : ~Less(s, s)
         /\ \A s, t \in KeysOf(n) : s # t => Less(s, t) \/ Less(t, s)
         /\ \A s, t, u \in KeysOf(n) : Less(s, t) /\ Less(t, u) => Less(s, u)
<1>1. \A s, t \in KeysOf(n) :
        Less(s, t) <=> \E i \in 1..n : s[i] < t[i] /\ \A j \in 1..(i - 1) : s[j] = t[j]
  <2>1. \A s \in KeysOf(n) : Len(s) = n
    BY DEF KeysOf
  <2> QED
    BY <2>1 DEF Less
<1>2. \A s \in KeysOf(n) : \A i \in 1..n : s[i] \in Int
  BY DEF KeysOf
<1>3. ASSUME NEW s \in KeysOf(n) PROVE ~Less(s, s)
  BY <1>1, <1>2
<1>4. ASSUME NEW s \in KeysOf(n), NEW t \in KeysOf(n), s # t PROVE Less(s, t) \/ Less(t, s)
  <2>1. PICK i \in 1..n : FirstApart(s, t, i)
    BY <1>4, KeysApart
  <2>2. s[i] < t[i] \/ t[i] < s[i]
    BY <1>2, <2>1 DEF FirstApart
  <2> QED
    BY <1>1, <2>1, <2>2 DEF FirstApart
<1>5. ASSUME NEW s \in KeysOf(n), NEW t \in KeysOf(n), NEW u \in KeysOf(n),
             Less(s, t), Less(t, u)
      PROVE  Less(s, u)
  <2>1. PICK i \in 1..n : s[i] < t[i] /\ \A j \in 1..(i - 1) : s[j] = t[j]
    BY <1>1, <1>5
  <2>2. PICK k \in 1..n : t[k] < u[k] /\ \A j \in 1..(k - 1) : t[j] = u[j]
    BY <1>1, <1>5
  <2>3. s[i] \in Int /\ t[i] \in Int /\ u[i] \in Int /\ s[k] \in Int /\ t[k] \in Int /\ u[k] \in Int
    BY <1>2
  <2>4. CASE i <= k
    <3>1. s[i] < u[i]
      <4>1. CASE i = k
        BY <2>1, <2>2, <2>3, <4>1
      <4>2. CASE i < k
        <5>1. t[i] = u[i]
          BY <2>2, <4>2
        <5> QED
          BY <2>1, <2>3, <5>1
      <4> QED
        BY <2>4, <4>1, <4>2
    <3>2. \A j \in 1..(i - 1) : s[j] = u[j]
      BY <2>1, <2>2, <2>4
    <3> QED
      BY <1>1, <3>1, <3>2
  <2>5. CASE k < i
    <3>1. s[k] = t[k]
      BY <2>1, <2>5
    <3>2. \A j \in 1..(k - 1) : s[j] = u[j]
      BY <2>1, <2>2, <2>5
    <3> QED
      BY <1>1, <2>2, <3>1, <3>2
  <2> QED
    BY <2>4, <2>5
<1> QED
  BY <1>3, <1>4, <1>5

\* The items whose keys come before the i-th, and itself.
Before(keys, i) ==
  {j \in 1..Len(keys) : Less(keys[j], keys[i]) \/ (keys[j] = keys[i] /\ j <= i)}

\* No two items have one rank.
LEMMA RanksApart ==
  ASSUME NEW n \in Nat, NEW keys \in Seq(KeysOf(n))
  PROVE  /\ \A i \in 1..Len(keys) : Rank(keys, i) \in 1..Len(keys)
         /\ \A i, j \in 1..Len(keys) : Rank(keys, i) = Rank(keys, j) => i = j
<1> DEFINE N == 1..Len(keys)
<1>1. \A i \in N : keys[i] \in KeysOf(n) /\ Rank(keys, i) = Cardinality(Before(keys, i))
  BY DEF Rank, Before
<1>2. IsFiniteSet(N) /\ Cardinality(N) = Len(keys)
  BY FS_Interval
<1>3. ASSUME NEW i \in N
      PROVE  /\ i \in Before(keys, i) /\ Before(keys, i) \subseteq N
             /\ IsFiniteSet(Before(keys, i)) /\ Cardinality(Before(keys, i)) \in N
  <2>1. i \in Before(keys, i) /\ Before(keys, i) \subseteq N
    BY DEF Before
  <2>2. /\ IsFiniteSet(Before(keys, i))
        /\ Cardinality(Before(keys, i)) <= Cardinality(N)
    BY <1>2, <2>1, FS_Subset
  <2>3. Cardinality(Before(keys, i)) \in Nat /\ Cardinality(Before(keys, i)) # 0
    BY <2>1, <2>2, FS_CardinalityType, FS_EmptySet
  <2> QED
    BY <1>2, <2>1, <2>2, <2>3
<1>4. ASSUME NEW i \in N, NEW j \in N, i # j, i \in Before(keys, j)
      PROVE  Cardinality(Before(keys, i)) # Cardinality(Before(keys, j))
  <2>1. Before(keys, i) \subseteq Before(keys, j)
    <3> SUFFICES ASSUME NEW k \in Before(keys, i) PROVE k \in Before(keys, j)
      OBVIOUS
    <3>1. /\ k \in N /\ k \in Int /\ i \in Int /\ j \in Int
          /\ Less(keys[k], keys[i]) \/ (keys[k] = keys[i] /\ k <= i)
      BY DEF Before
    <3>2. Less(keys[i], keys[j]) \/ (keys[i] = keys[j] /\ i <= j)
      BY <1>4 DEF Before
    <3>3. Less(keys[k], keys[j]) \/ (keys[k] = keys[j] /\ k <= j)
      <4>1. keys[i] \in KeysOf(n) /\ keys[j] \in KeysOf(n) /\ keys[k] \in KeysOf(n)
        BY <1>1, <3>1
      <4>2. CASE Less(keys[k], keys[i]) /\ Less(keys[i], keys[j])
        BY <4>1, <4>2, LessOrders
      <4>3. CASE keys[k] = keys[i] /\ k <= i
        BY <3>1, <3>2, <4>3
      <4>4. CASE keys[i] = keys[j] /\ i <= j
        BY <3>1, <3>2, <4>4
      <4> QED
        BY <3>1, <3>2, <4>2, <4>3, <4>4
    <3> QED
      BY <3>1, <3>3 DEF Before
  <2>2. j \notin Before(keys, i)
    <3>1. Less(keys[i], keys[j]) \/ (keys[i] = keys[j] /\ i <= j)
      BY <1>4 DEF Before
    <3>2. keys[i] \in KeysOf(n) /\ keys[j] \in KeysOf(n) /\ i \in Int /\ j \in Int
      BY <1>1
    <3>3. ~Less(keys[i], keys[i]) /\ ~Less(keys[j], keys[j])
      BY <3>2, LessOrders
    <3>4. ~(Less(keys[i], keys[j]) /\ Less(keys[j], keys[i]))
      BY <3>2, <3>3, LessOrders
    <3>5. ~(Less(keys[j], keys[i]) \/ (keys[j] = keys[i] /\ j <= i))
      BY <1>4, <3>1, <3>2, <3>3, <3>4
    <3> QED
      BY <3>5 DEF Before
  <2>3. j \in Before(keys, j)
    BY <1>3
  <2> QED
    BY <1>3, <2>1, <2>2, <2>3, FS_Subset
<1>5. ASSUME NEW i \in N, NEW j \in N, i # j PROVE i \in Before(keys, j) \/ j \in Before(keys, i)
  <2>1. keys[i] \in KeysOf(n) /\ keys[j] \in KeysOf(n) /\ i \in Int /\ j \in Int
    BY <1>1
  <2>2. \/ Less(keys[i], keys[j]) \/ (keys[i] = keys[j] /\ i <= j)
        \/ Less(keys[j], keys[i]) \/ (keys[j] = keys[i] /\ j <= i)
    BY <2>1, LessOrders
  <2> QED
    BY <2>2 DEF Before
<1>6. \A i \in N : Rank(keys, i) \in N
  BY <1>1, <1>3
<1>7. ASSUME NEW i \in N, NEW j \in N, i # j PROVE Rank(keys, i) # Rank(keys, j)
  BY <1>1, <1>4, <1>5, <1>7
<1> QED
  BY <1>6, <1>7

\* A sequence of n items in another order.
Permutes(p, n) == p \in Bijection(1..n, 1..n)
Arranges(p, n, items, arranged) ==
  Permutes(p, n) /\ arranged = [k \in 1..n |-> items[p[k]]]

\* To sort is to rearrange.
LEMMA SortedPermutes ==
  ASSUME NEW n \in Nat, NEW keys \in Seq(KeysOf(n)), NEW sequence
  PROVE  \E p : Arranges(p, Len(keys), sequence, Sorted(sequence, keys))
<1> DEFINE N == 1..Len(keys)
           rank == [i \in N |-> Rank(keys, i)]
           p == [k \in N |-> CHOOSE i \in N : rank[i] = k]
<1>1. rank \in [N -> N] /\ \A i, j \in N : rank[i] = rank[j] => i = j
  BY RanksApart
<1>2. rank \in Injection(N, N)
  BY <1>1 DEF Injection, IsInjective
<1>3. rank \in Surjection(N, N)
  <2>1. IsFiniteSet(N)
    BY FS_Interval
  <2> HIDE DEF rank, N
  <2> QED
    BY <1>2, <2>1, FS_Injection
<1>4. \A k \in N : \E i \in N : rank[i] = k
  <2> HIDE DEF rank, N
  <2> QED
    BY <1>3 DEF Surjection
<1> HIDE DEF rank
<1>5. \A k \in N : p[k] \in N /\ rank[p[k]] = k
  BY <1>4
<1>6. p \in [N -> N]
  BY <1>5
<1>7. \A i \in N : p[rank[i]] = i
  BY <1>1, <1>5
<1>8. Sorted(sequence, keys) = [k \in N |-> sequence[p[k]]]
  BY DEF Sorted, rank
<1> HIDE DEF p, N
<1>9. p \in Bijection(N, N)
  <2>1. \A k, m \in N : p[k] = p[m] => k = m
    BY <1>5
  <2>2. \A i \in N : \E k \in N : p[k] = i
    BY <1>1, <1>7
  <2> QED
    BY <1>6, <2>1, <2>2 DEF Bijection, Injection, Surjection, IsInjective
<1> QED
  BY <1>8, <1>9 DEF Arranges, Permutes, N

-----------------------------------------------------------------------------
(* Strings *)

\* The names of a file: numbers that have a length.
Spelled == {name \in Int : Length(name) \in Nat}

\* string_add of one name after the other.
Interned(base, names) == FoldLeft(Add, base, names)

AddRun(h, V, base, names) ==
  /\ h \in [0..Len(names) -> V]
  /\ h[0] = base /\ Interned(base, names) = h[Len(names)]
  /\ \A k \in 1..Len(names) : h[k] = Add(h[k - 1], names[k])

LEMMA AddStages ==
  ASSUME NEW V, NEW base \in V, NEW names \in Seq(Spelled),
         \A v \in V, i \in 1..Len(names) : Add(v, names[i]) \in V
  PROVE  \E h : AddRun(h, V, base, names)
<1> DEFINE n == Len(names)
           All == SUBSET (1..n)
           Rule(f, s) == IF s = {} THEN base ELSE Add(f[s \ {Max(s)}], names[Max(s)])
           F == [p \in V \X (1..n) |-> Add(p[1], names[p[2]])]
           g == CHOOSE f : f = [s \in All |-> Rule(f, s)]
           h == [k \in 0..n |-> g[1..k]]
<1>1. n \in Nat /\ DOMAIN names = 1..n
  OBVIOUS
<1>2. Interned(base, names) = g[1..n]
  BY <1>1 DEF Interned, FoldLeft, MapThenFoldSet
<1>3. F \in [V \X (1..n) -> V]
  OBVIOUS
<1>4. \A v \in V, i \in 1..n : F[<<v, i>>] = Add(v, names[i])
  OBVIOUS
<1> HIDE DEF n, F
<1>5. PICK f \in [All -> V] : \A s \in All : f[s] = FoldRule(f, s, base, F)
  <2>1. FoldExists(n, V, base, F)
    BY <1>1, <1>3, Folding
  <2> QED
    BY <2>1 DEF FoldExists
<1>6. \A s \in All : s # {} => Max(s) \in 1..n /\ s \ {Max(s)} \in All
  BY <1>1, Greatest
<1>7. \A s \in All : f[s] = Rule(f, s)
  BY <1>4, <1>5, <1>6 DEF FoldRule
<1>8. f = [s \in All |-> Rule(f, s)]
  BY <1>7
<1>9. g = [s \in All |-> Rule(g, s)]
  BY <1>8
<1> HIDE DEF g
<1>10. \A s \in All : g[s] = Rule(g, s)
  BY <1>9
<1>11. h[0] = base
  <2>1. 1..0 = {} /\ {} \in All /\ 0 \in 0..n
    BY <1>1
  <2> QED
    BY <1>10, <2>1
<1>12. ASSUME NEW k \in 1..n PROVE h[k] = Add(h[k - 1], names[k])
  <2>1. /\ Max(1..k) = k /\ (1..k) \ {k} = 1..(k - 1)
        /\ 1..k \in All /\ 1..k # {} /\ k - 1 \in 0..n
    BY <1>1, Initial
  <2>2. g[1..k] = Rule(g, 1..k)
    BY <1>10, <2>1
  <2>3. h[k] = g[1..k] /\ h[k - 1] = g[1..(k - 1)]
    BY <2>1
  <2> QED
    BY <2>1, <2>2, <2>3
<1>13. h[n] = g[1..n]
  BY <1>1
<1>14. h = [k \in 0..n |-> h[k]]
  OBVIOUS
<1> HIDE DEF h
<1>15. \A k \in 0..n : h[k] \in V
  <2>1. \A k \in 1..n : h[k - 1] \in V => h[k] \in V
    BY <1>12 DEF n
  <2> QED
    BY <1>1, <1>11, <2>1, StagesIn
<1>16. h \in [0..n -> V]
  BY <1>14, <1>15
<1> QED
  BY <1>1, <1>2, <1>11, <1>12, <1>13, <1>16 DEF n, AddRun

Listed(strings, name) == \E i \in 1..Len(strings) : strings[i] = name

\* A name that is added is there, and so are those that were there before.
LEMMA AddLists ==
  ASSUME NEW strings \in Seq(Spelled), NEW name \in Spelled
  PROVE  /\ Add(strings, name) \in Seq(Spelled)
         /\ Listed(Add(strings, name), name)
         /\ \A other : Listed(strings, other) => Listed(Add(strings, name), other)
<1>1. CASE \E i \in 1..Len(strings) : strings[i] = name
  BY <1>1 DEF Add, Listed
<1>2. CASE ~\E i \in 1..Len(strings) : strings[i] = name
  <2> DEFINE more == Append(strings, name)
  <2>1. Add(strings, name) = more
    BY <1>2 DEF Add
  <2>2. /\ more \in Seq(Spelled) /\ Len(more) = Len(strings) + 1 /\ Len(strings) \in Nat
        /\ more[Len(strings) + 1] = name
        /\ \A i \in 1..Len(strings) : more[i] = strings[i]
    OBVIOUS
  <2> HIDE DEF more
  <2>3. Len(strings) + 1 \in 1..Len(more) /\ \A i \in 1..Len(strings) : i \in 1..Len(more)
    BY <2>2
  <2> QED
    BY <2>1, <2>2, <2>3 DEF Listed
<1> QED
  BY <1>1, <1>2

\* So the table has all the names that were added to it.
LEMMA AllListed ==
  ASSUME NEW base \in Seq(Spelled), NEW names \in Seq(Spelled)
  PROVE  LET strings == Interned(base, names) IN
         /\ strings \in Seq(Spelled)
         /\ \A name : Listed(base, name) => Listed(strings, name)
         /\ \A i \in 1..Len(names) : Listed(strings, names[i])
<1> DEFINE n == Len(names)
           W == Seq(Spelled)
<1>1. base \in W /\ \A v \in W, i \in 1..Len(names) : Add(v, names[i]) \in W
  BY AddLists
<1>2. PICK h \in [0..n -> Seq(Spelled)] :
        /\ h[0] = base /\ Interned(base, names) = h[n]
        /\ \A k \in 1..n : h[k] = Add(h[k - 1], names[k])
  <2> HIDE DEF W
  <2>1. \E h : AddRun(h, W, base, names)
    BY <1>1, AddStages
  <2> QED
    BY <2>1 DEF W, AddRun
<1> DEFINE S == {k \in Nat : k <= n =>
                   /\ \A name : Listed(base, name) => Listed(h[k], name)
                   /\ \A i \in 1..k : Listed(h[k], names[i])}
<1>3. 0 \in S
  BY <1>2
<1>4. ASSUME NEW k \in Nat, k \in S PROVE k + 1 \in S
  <2> SUFFICES ASSUME k + 1 <= n
               PROVE  /\ \A name : Listed(base, name) => Listed(h[k + 1], name)
                      /\ \A i \in 1..(k + 1) : Listed(h[k + 1], names[i])
    OBVIOUS
  <2>1. h[k] \in Seq(Spelled) /\ k + 1 \in 1..n /\ (k + 1) - 1 = k /\ names[k + 1] \in Spelled
    OBVIOUS
  <2>2. h[k + 1] = Add(h[k], names[k + 1])
    BY <1>2, <2>1
  <2> DEFINE u == h[k] w == names[k + 1]
  <2>6. u \in Seq(Spelled) /\ w \in Spelled
    BY <2>1
  <2> HIDE DEF u, w
  <2>7. Listed(Add(u, w), w) /\ \A other : Listed(u, other) => Listed(Add(u, w), other)
    BY <2>6, AddLists
  <2>3. /\ Listed(h[k + 1], names[k + 1])
        /\ \A other : Listed(h[k], other) => Listed(h[k + 1], other)
    BY <2>2, <2>7 DEF u, w
  <2>4. /\ \A name : Listed(base, name) => Listed(h[k], name)
        /\ \A i \in 1..k : Listed(h[k], names[i])
    BY <1>4
  <2>5. \A i \in 1..(k + 1) : i \in 1..k \/ i = k + 1
    OBVIOUS
  <2> QED
    BY <2>3, <2>4, <2>5
<1> HIDE DEF S
<1>5. \A k \in Nat : k \in S
  BY <1>3, <1>4, Counting
<1>6. n \in S /\ n \in Nat /\ n <= n
  BY <1>5
<1> QED
  BY <1>2, <1>6 DEF S

\* Where each string starts: one after the other, each behind its final zero.
LEMMA StartsApart ==
  ASSUME NEW strings \in Seq(Spelled)
  PROVE  /\ \A i \in 1..(Len(strings) + 1) : Start(strings, i) \in Nat
         /\ \A i \in 1..Len(strings) : \A j \in 1..(Len(strings) + 1) :
              i < j => Start(strings, i) + Length(strings[i]) + 1 <= Start(strings, j)
<1> DEFINE n == Len(strings)
           a == [i \in 1..n |-> Length(strings[i]) + 1]
<1>1. n \in Nat /\ \A i \in 1..n : Length(strings[i]) \in Nat /\ a[i] = Length(strings[i]) + 1
  BY DEF Spelled
<1>2. \A i : Start(strings, i) = Total(a, i - 1)
  BY DEF Start
<1> HIDE DEF a
<1>3. /\ \A i \in 0..n : Total(a, i) \in Nat
      /\ \A i \in 0..n : \A m \in 1..n : m <= i => Total(a, m - 1) + a[m] <= Total(a, i)
  <2>1. \A i \in 1..n : a[i] \in Nat
    BY <1>1
  <2> QED
    BY <1>1, <2>1, TotalGrows
<1>4. \A i \in 1..(n + 1) : Start(strings, i) \in Nat
  <2>1. \A i \in 1..(n + 1) : i - 1 \in 0..n
    BY <1>1
  <2> QED
    BY <1>2, <1>3, <2>1
<1>5. ASSUME NEW i \in 1..n, NEW j \in 1..(n + 1), i < j
      PROVE  Start(strings, i) + Length(strings[i]) + 1 <= Start(strings, j)
  <2>1. j - 1 \in 0..n /\ i <= j - 1 /\ i \in 1..(n + 1)
    BY <1>1, <1>5
  <2>2. Total(a, i - 1) + a[i] <= Total(a, j - 1)
    BY <1>3, <2>1
  <2>3. Start(strings, i) + a[i] <= Start(strings, j)
    BY <1>2, <2>2
  <2>4. Start(strings, i) \in Nat /\ Start(strings, j) \in Nat /\ Length(strings[i]) \in Nat
    BY <1>1, <1>4, <2>1
  <2> QED
    BY <1>1, <2>3, <2>4
<1> QED
  BY <1>4, <1>5

\* What a name's place is read back as is the name.
LEMMA PlaceNamed ==
  ASSUME NEW out, out.strings \in Seq(Spelled), NEW name, Listed(out.strings, name)
  PROVE  /\ NameAt(out, Place(out.strings, name)) = name
         /\ Place(out.strings, name) \in Nat
         /\ Place(out.strings, name) < Start(out.strings, Len(out.strings) + 1)
<1> DEFINE strings == out.strings
           I == {i \in 1..Len(strings) : strings[i] = name}
           k == Min(I)
           starts == [i \in 1..Len(strings) |-> Start(strings, i)]
           J == {i \in 1..Len(starts) : starts[i] = Start(strings, k)}
<1>1. I # {} /\ I \subseteq Nat
  BY DEF Listed
<1>2. k \in I
  <2> HIDE DEF I
  <2> QED
    BY <1>1, Least
<1>3. Place(strings, name) = Start(strings, k)
  BY <1>1 DEF Place, SelectInSeq
<1> HIDE DEF k
<1>4. k \in 1..Len(strings) /\ strings[k] = name /\ Len(strings) \in Nat
      /\ Length(strings[k]) \in Nat
  BY <1>2 DEF Spelled
<1>5. \A i \in 1..Len(strings) : Start(strings, i) = Start(strings, k) => i = k
  <2> SUFFICES ASSUME NEW i \in 1..Len(strings), Start(strings, i) = Start(strings, k), i # k
               PROVE  FALSE
    OBVIOUS
  <2>1. /\ Start(strings, i) \in Nat /\ Length(strings[i]) \in Nat
        /\ i \in 1..(Len(strings) + 1) /\ k \in 1..(Len(strings) + 1)
    <3>1. i \in 1..(Len(strings) + 1) /\ k \in 1..(Len(strings) + 1) /\ strings[i] \in Spelled
      BY <1>4
    <3> QED
      BY <3>1, StartsApart DEF Spelled
  <2>2. CASE i < k
    <3>1. Start(strings, i) + Length(strings[i]) + 1 <= Start(strings, k)
      BY <2>1, <2>2, StartsApart
    <3> QED
      BY <2>1, <3>1
  <2>3. CASE k < i
    <3>1. Start(strings, k) + Length(strings[k]) + 1 <= Start(strings, i)
      BY <1>4, <2>1, <2>3, StartsApart
    <3> QED
      BY <1>4, <2>1, <3>1
  <2> QED
    BY <1>4, <2>2, <2>3
<1>6. J = {k}
  <2>1. Len(starts) = Len(strings)
    BY <1>4
  <2>2. \A i \in 1..Len(strings) : starts[i] = Start(strings, i)
    OBVIOUS
  <2> HIDE DEF starts, strings
  <2>3. k \in J
    BY <1>4, <2>1, <2>2
  <2>4. \A i \in J : i = k
    BY <1>5, <2>1, <2>2
  <2> QED
    BY <2>3, <2>4
<1>7. Min(J) = k
  <2> HIDE DEF J
  <2>1. \A x \in J : x = k /\ \A y \in J : x =< y
    BY <1>4, <1>6
  <2>2. k \in J
    BY <1>6
  <2> QED
    BY <2>1, <2>2 DEF Min
<1>8. NameAt(out, Start(strings, k)) = name
  <2>1. SelectInSeq(starts, LAMBDA start : start = Start(strings, k)) = k
    BY <1>6, <1>7 DEF SelectInSeq
  <2>2. k # 0
    BY <1>4
  <2> HIDE DEF starts
  <2> QED
    BY <1>4, <2>1, <2>2 DEF NameAt, starts
<1>9. Start(strings, k) \in Nat /\ Start(strings, k) < Start(strings, Len(strings) + 1)
  <2>1. /\ Start(strings, k) \in Nat /\ Start(strings, Len(strings) + 1) \in Nat
        /\ Start(strings, k) + Length(strings[k]) + 1 <= Start(strings, Len(strings) + 1)
    BY <1>4, StartsApart
  <2> QED
    BY <1>4, <2>1
<1> QED
  BY <1>3, <1>8, <1>9
-----------------------------------------------------------------------------
(* Totals of several sequences *)

\* A total is that of the first amounts and that of the others.
LEMMA TotalSplit ==
  ASSUME NEW a, NEW m \in Nat, NEW last \in Nat, \A i \in 1..(m + last) : a[i] \in Nat
  PROVE  \A n \in 0..last :
           Total(a, m + n) = Total(a, m) + Total([i \in 1..last |-> a[m + i]], n)
<1> DEFINE b == [i \in 1..last |-> a[m + i]]
           S == {n \in Nat : n <= last => Total(a, m + n) = Total(a, m) + Total(b, n)}
<1>1. \A i \in 1..last : b[i] = a[m + i] /\ b[i] \in Nat
  OBVIOUS
<1> HIDE DEF b
<1>2. /\ \A n \in 0..(m + last) : Total(a, n) \in Nat
      /\ \A n \in 0..last : Total(b, n) \in Nat
  BY <1>1, TotalGrows
<1>3. 0 \in S
  BY <1>2, TotalStep
<1>4. ASSUME NEW n \in Nat, n \in S PROVE n + 1 \in S
  <2> SUFFICES ASSUME n + 1 <= last
               PROVE  Total(a, m + (n + 1)) = Total(a, m) + Total(b, n + 1)
    OBVIOUS
  <2>1. /\ m + n \in Nat /\ m + (n + 1) = (m + n) + 1
        /\ Total(a, (m + n) + 1) = Total(a, m + n) + a[(m + n) + 1]
        /\ Total(b, n + 1) = Total(b, n) + b[n + 1]
    BY TotalStep
  <2>2. b[n + 1] = a[(m + n) + 1] /\ b[n + 1] \in Nat
    <3>1. n + 1 \in 1..last /\ m + (n + 1) = (m + n) + 1
      OBVIOUS
    <3> QED
      BY <1>1, <3>1
  <2>3. Total(a, m) \in Nat /\ Total(b, n) \in Nat
    BY <1>2
  <2>4. Total(a, m + n) = Total(a, m) + Total(b, n)
    BY <1>4
  <2> QED
    BY <2>1, <2>2, <2>3, <2>4
<1> HIDE DEF S
<1>5. \A n \in Nat : n \in S
  BY <1>3, <1>4, Counting
<1>6. \A n \in 0..last : n \in S /\ n <= last
  BY <1>5
<1> QED
  BY <1>6 DEF S, b

\* So many relocations take so many bytes.
LEMMA TotalScaled ==
  ASSUME NEW a, NEW b, NEW last \in Nat,
         \A i \in 1..last : a[i] \in Nat /\ b[i] = RelocSize * a[i]
  PROVE  \A n \in 0..last : Total(b, n) = RelocSize * Total(a, n)
<1> DEFINE S == {n \in Nat : n <= last => Total(b, n) = RelocSize * Total(a, n)}
<1>1. 0 \in S
  BY TotalStep DEF RelocSize
<1>2. ASSUME NEW n \in Nat, n \in S PROVE n + 1 \in S
  <2> SUFFICES ASSUME n + 1 <= last PROVE Total(b, n + 1) = RelocSize * Total(a, n + 1)
    OBVIOUS
  <2>1. /\ Total(a, n + 1) = Total(a, n) + a[n + 1]
        /\ Total(b, n + 1) = Total(b, n) + b[n + 1]
    BY TotalStep
  <2>2. n + 1 \in 1..last /\ n \in 0..last
    OBVIOUS
  <2>3. a[n + 1] \in Nat /\ b[n + 1] = RelocSize * a[n + 1]
    BY <2>2
  <2>4. Total(a, n) \in Nat
    BY <2>2, TotalGrows
  <2>5. Total(b, n) = RelocSize * Total(a, n)
    BY <1>2
  <2> QED
    BY <2>1, <2>3, <2>4, <2>5 DEF RelocSize
<1> HIDE DEF S
<1>3. \A n \in Nat : n \in S
  BY <1>1, <1>2, Counting
<1>4. \A n \in 0..last : n \in S /\ n <= last
  BY <1>3
<1> QED
  BY <1>4 DEF S

-----------------------------------------------------------------------------
(* Sequences, one behind the other *)

IsJoined(w, u, v) ==
  /\ Len(w) = Len(u) + Len(v)
  /\ \A i \in 1..Len(u) : w[i] = u[i]
  /\ \A i \in 1..Len(v) : w[Len(u) + i] = v[i]

LEMMA Joined ==
  ASSUME NEW T, NEW u \in Seq(T), NEW v \in Seq(T)
  PROVE  u \o v \in Seq(T) /\ IsJoined(u \o v, u, v)
BY DEF IsJoined

FlatRule(f, seqs, i) == IF i = 1 THEN seqs[i] ELSE f[i - 1] \o seqs[i]
Flats(f, seqs, n) == f = [i \in 1..n |-> FlatRule(f, seqs, i)]

LEMMA FlatsExist ==
  ASSUME NEW seqs
  PROVE  \A n \in Nat : \E f : Flats(f, seqs, n)
<1> DEFINE S == {n \in Nat : \E f : Flats(f, seqs, n)}
<1>1. 0 \in S
  <2> DEFINE f == [i \in 1..0 |-> 0]
  <2>1. f = [i \in 1..0 |-> FlatRule(f, seqs, i)]
    OBVIOUS
  <2> QED
    BY <2>1 DEF Flats
<1>2. ASSUME NEW n \in Nat, n \in S PROVE n + 1 \in S
  <2>1. PICK f : Flats(f, seqs, n)
    BY <1>2
  <2>2. \A i \in 1..n : f[i] = FlatRule(f, seqs, i)
    BY <2>1 DEF Flats
  <2> DEFINE g == [i \in 1..(n + 1) |-> IF i = n + 1 THEN FlatRule(f, seqs, n + 1) ELSE f[i]]
  <2>3. ASSUME NEW i \in 1..(n + 1) PROVE g[i] = FlatRule(g, seqs, i)
    <3>1. i # 1 => g[i - 1] = f[i - 1]
      <4> SUFFICES ASSUME i # 1 PROVE g[i - 1] = f[i - 1]
        OBVIOUS
      <4>1. i - 1 \in 1..(n + 1) /\ i - 1 # n + 1
        OBVIOUS
      <4> QED
        BY <4>1
    <3>2. g[i] = FlatRule(f, seqs, i)
      <4>1. i # n + 1 => i \in 1..n
        OBVIOUS
      <4> QED
        BY <2>2, <4>1
    <3> HIDE DEF g
    <3> QED
      BY <3>1, <3>2 DEF FlatRule
  <2>4. g = [i \in 1..(n + 1) |-> g[i]]
    OBVIOUS
  <2> HIDE DEF g
  <2>5. [i \in 1..(n + 1) |-> g[i]] = [i \in 1..(n + 1) |-> FlatRule(g, seqs, i)]
    BY <2>3
  <2>6. Flats(g, seqs, n + 1)
    BY <2>4, <2>5 DEF Flats
  <2> QED
    BY <2>6
<1> HIDE DEF S
<1>3. \A n \in Nat : n \in S
  BY <1>1, <1>2, Counting
<1> QED
  BY <1>3 DEF S

IsFlat(flat, seqs, lens) ==
  \A s \in 1..Len(seqs) : \A i \in 1..lens[s] : flat[Total(lens, s - 1) + i] = seqs[s][i]

\* Each item of each sequence is where the lengths of the others before it put it.
LEMMA FlatAt ==
  ASSUME NEW T, NEW seqs \in Seq(Seq(T)), Len(seqs) # 0, NEW lens,
         \A s \in 1..Len(seqs) : lens[s] = Len(seqs[s])
  PROVE  IsFlat(FlattenSeq(seqs), seqs, lens)
<1> DEFINE n == Len(seqs)
           f == CHOOSE f : Flats(f, seqs, n)
<1>1. n \in Nat /\ n # 0 /\ \A s \in 1..n : seqs[s] \in Seq(T) /\ lens[s] = Len(seqs[s]) /\ lens[s] \in Nat
  OBVIOUS
<1>2. FlattenSeq(seqs) = f[n]
  BY DEF FlattenSeq, Flats, FlatRule
<1>3. Flats(f, seqs, n)
  BY <1>1, FlatsExist
<1> HIDE DEF f, n
<1>4. \A i \in 1..n : f[i] = FlatRule(f, seqs, i)
  BY <1>3 DEF Flats
<1>5. /\ \A k \in 0..n : Total(lens, k) \in Nat
      /\ \A k \in 0..n : \A m \in 1..n : m <= k => Total(lens, m - 1) + lens[m] <= Total(lens, k)
  BY <1>1, TotalGrows
<1> DEFINE Right(k) ==
             /\ f[k] \in Seq(T) /\ Len(f[k]) = Total(lens, k)
             /\ \A s \in 1..k : \A i \in 1..lens[s] : f[k][Total(lens, s - 1) + i] = seqs[s][i]
           S == {k \in Nat : k + 1 <= n => Right(k + 1)}
<1>6. 0 \in S
  <2>1. f[1] = seqs[1] /\ 1 \in 1..n
    BY <1>1, <1>4 DEF FlatRule
  <2>2. Total(lens, 0) = 0 /\ Total(lens, 0 + 1) = Total(lens, 0) + lens[0 + 1]
    BY TotalStep
  <2>3. lens[1] = Len(seqs[1]) /\ lens[1] \in Nat
    BY <1>1, <2>1 DEF n
  <2>4. Total(lens, 1) = lens[1]
    BY <2>2, <2>3
  <2>5. \A s \in 1..1 : \A i \in 1..lens[s] : f[1][Total(lens, s - 1) + i] = seqs[s][i]
    BY <2>1, <2>2, <2>3
  <2>6. Right(1)
    <3>1. f[1] \in Seq(T) /\ Len(f[1]) = Total(lens, 1)
      BY <1>1, <2>1, <2>3, <2>4
    <3> QED
      BY <2>5, <3>1
  <2> HIDE DEF Right
  <2> QED
    BY <2>6
<1>7. ASSUME NEW j \in 1..n, NEW t \in 1..n, t = j + 1, Right(j) PROVE Right(t)
  <2>1. t # 1 /\ t - 1 = j /\ j \in 0..n /\ t \in 0..n /\ j \in Nat
    BY <1>1, <1>7
  <2>2. f[t] = f[j] \o seqs[t] /\ seqs[t] \in Seq(T) /\ lens[t] = Len(seqs[t]) /\ lens[t] \in Nat
    BY <1>1, <1>4, <2>1 DEF FlatRule
  <2>3. Total(lens, t) = Total(lens, j) + lens[t] /\ Total(lens, j) \in Nat
    <3>1. Total(lens, j + 1) = Total(lens, j) + lens[j + 1]
      BY <2>1, TotalStep
    <3> QED
      <4>1. t = j + 1
        BY <1>7
      <4> QED
        BY <1>5, <2>1, <3>1, <4>1
  <2>7. f[j] \in Seq(T) /\ Len(f[j]) = Total(lens, j)
    BY <1>7
  <2>8. /\ f[t] \in Seq(T) /\ Len(f[t]) = Len(f[j]) + Len(seqs[t])
        /\ \A i \in 1..Len(f[j]) : f[t][i] = f[j][i]
        /\ \A i \in 1..Len(seqs[t]) : f[t][Len(f[j]) + i] = seqs[t][i]
    <3> DEFINE u == f[j] v == seqs[t]
    <3>1. u \in Seq(T) /\ v \in Seq(T) /\ f[t] = u \o v
      BY <2>2, <2>7
    <3> HIDE DEF u, v
    <3>2. /\ u \o v \in Seq(T) /\ Len(u \o v) = Len(u) + Len(v)
          /\ \A i \in 1..Len(u) : (u \o v)[i] = u[i]
          /\ \A i \in 1..Len(v) : (u \o v)[Len(u) + i] = v[i]
      BY <3>1, Joined DEF IsJoined
    <3> QED
      BY <3>1, <3>2 DEF u, v
  <2>4. f[t] \in Seq(T) /\ Len(f[t]) = Total(lens, t)
    BY <2>2, <2>3, <2>7, <2>8
  <2>5. ASSUME NEW s \in 1..t, NEW i \in 1..lens[s]
        PROVE  f[t][Total(lens, s - 1) + i] = seqs[s][i]
    <3>1. CASE s = t
      <4>1. Total(lens, s - 1) = Total(lens, j)
        BY <2>1, <3>1
      <4>2. i \in 1..Len(seqs[t])
        BY <2>2, <2>5, <3>1
      <4>3. f[t][Len(f[j]) + i] = seqs[t][i]
        BY <2>8, <4>2
      <4> QED
        BY <2>7, <3>1, <4>1, <4>3
    <3>2. CASE s # t
      <4>1. s \in 1..j /\ s <= j /\ s \in 1..n /\ s - 1 \in 0..n
        BY <1>1, <1>7, <2>1, <2>5, <3>2
      <4>2. Total(lens, s - 1) + lens[s] <= Total(lens, j) /\ Total(lens, s - 1) \in Nat
        BY <1>5, <2>1, <4>1
      <4>3. lens[s] \in Nat
        BY <1>1, <4>1
      <4>4. Total(lens, s - 1) + i \in 1..Len(f[j])
        <5>1. i \in Nat /\ 1 <= i /\ i <= lens[s]
          BY <2>5, <4>3
        <5>2. Len(f[j]) = Total(lens, j) /\ Total(lens, j) \in Nat
          BY <2>3, <2>7
        <5> QED
          BY <4>2, <4>3, <5>1, <5>2
      <4>5. f[t][Total(lens, s - 1) + i] = f[j][Total(lens, s - 1) + i]
        BY <2>8, <4>4
      <4>6. f[j][Total(lens, s - 1) + i] = seqs[s][i]
        BY <1>7, <2>5, <4>1
      <4> QED
        BY <4>5, <4>6
    <3> QED
      BY <3>1, <3>2
  <2> QED
    BY <2>4, <2>5
<1> HIDE DEF Right
<1>10. ASSUME NEW k \in Nat, k \in S PROVE k + 1 \in S
  <2> SUFFICES ASSUME (k + 1) + 1 <= n PROVE Right((k + 1) + 1)
    OBVIOUS
  <2>1. k + 1 \in 1..n /\ (k + 1) + 1 \in 1..n /\ Right(k + 1)
    BY <1>1, <1>10
  <2> QED
    BY <1>7, <2>1
<1> HIDE DEF S
<1>8. \A k \in Nat : k \in S
  BY <1>6, <1>10, Counting
<1>9. Right(n)
  <2>1. n - 1 \in S /\ (n - 1) + 1 = n /\ (n - 1) + 1 <= n
    BY <1>1, <1>8
  <2> QED
    BY <2>1 DEF S
<1> QED
  BY <1>2, <1>9 DEF n, Right, IsFlat
-----------------------------------------------------------------------------
(* A builder and its file *)

FileRelocs == [offset : Nat, source : Nat, name : Spelled, type : Nat]
FileSections == [name : Spelled, kind : Nat, align : Nat, size : Nat, relocs : Seq(FileRelocs)]
FileRecords(n) ==
  [name : Spelled, value : Nat, section : 0..n, global : BOOLEAN, kind : Nat, size : Nat,
   source : Nat]

\* A builder whose sizes and section numbers fit the words of a file.
Fitting(b) ==
  /\ {Empty, Triple} \subseteq Spelled
  /\ b.sections \in Seq(FileSections) /\ Len(b.sections) \in 1..WordMax
  /\ b.records \in Seq(FileRecords(Len(b.sections)))
  /\ \A s \in 1..Len(b.sections) :
       /\ b.sections[s].size <= WordMax
       /\ HasPayload(b.sections[s]) => b.sections[s].size <= MaxPayload

\* The parts of a record and of a section.
LEMMA FittingParts ==
  ASSUME NEW b, Fitting(b)
  PROVE  /\ Len(b.sections) \in Nat /\ Len(b.sections) # 0 /\ Len(b.sections) <= WordMax
         /\ Len(b.records) \in Nat /\ WordMax \in Nat
         /\ \A s \in 1..Len(b.sections) :
              /\ b.sections[s].name \in Spelled /\ b.sections[s].size \in Nat
              /\ b.sections[s].relocs \in Seq(FileRelocs)
         /\ \A i \in 1..Len(b.records) :
              /\ b.records[i] \in FileRecords(Len(b.sections))
              /\ b.records[i].name \in Spelled /\ b.records[i].section \in 0..Len(b.sections)
<1>1. /\ Len(b.sections) \in Nat /\ Len(b.sections) # 0 /\ Len(b.sections) <= WordMax
      /\ WordMax \in Nat /\ Len(b.records) \in Nat
  BY ObjectFileAssumption DEF Fitting
<1>2. ASSUME NEW s \in 1..Len(b.sections)
      PROVE  /\ b.sections[s].name \in Spelled /\ b.sections[s].size \in Nat
             /\ b.sections[s].relocs \in Seq(FileRelocs)
  <2>1. b.sections[s] \in FileSections
    BY DEF Fitting
  <2> QED
    BY <2>1 DEF FileSections
<1>3. ASSUME NEW i \in 1..Len(b.records)
      PROVE  /\ b.records[i] \in FileRecords(Len(b.sections))
             /\ b.records[i].name \in Spelled /\ b.records[i].section \in 0..Len(b.sections)
  <2>1. b.records[i] \in FileRecords(Len(b.sections))
    BY DEF Fitting
  <2> QED
    BY <2>1 DEF FileRecords
<1> QED
  BY <1>1, <1>2, <1>3

\* The symbols of the file are the records, in another order.
LEMMA RecordsSorted ==
  ASSUME NEW b, Fitting(b)
  PROVE  \E p : Arranges(p, Len(b.records), b.records, SortedRecords(b))
<1> DEFINE n == Len(b.records)
           keys == [i \in 1..n |-> Key(b.records[i])]
<1>1. ASSUME NEW i \in 1..n PROVE Key(b.records[i]) \in KeysOf(6)
  <2> DEFINE r == b.records[i]
  <2>1. /\ r \in FileRecords(Len(b.sections)) /\ Len(b.sections) \in Nat /\ WordMax \in Nat
    BY FittingParts
  <2> HIDE DEF r
  <2>2. /\ r.name \in Int /\ r.value \in Int /\ r.kind \in Int /\ r.size \in Int
        /\ r.section \in Int
    BY <2>1 DEF FileRecords, Spelled
  <2>3. SectionWord(r.section) \in Int
    BY <2>1, <2>2 DEF SectionWord
  <2>4. (IF r.global THEN 1 ELSE 0) \in Int
    OBVIOUS
  <2> HIDE DEF SectionWord
  <2>5. Key(r) \in KeysOf(6)
    BY <2>2, <2>3, <2>4 DEF Key, KeysOf
  <2> QED
    BY <2>5 DEF r
<1>2. n \in Nat
  BY FittingParts
<1>3. keys \in Seq(KeysOf(6)) /\ Len(keys) = n
  BY <1>1, <1>2
<1>4. SortedRecords(b) = Sorted(b.records, keys)
  BY DEF SortedRecords
<1> HIDE DEF keys, n
<1>5. \E p : Arranges(p, Len(keys), b.records, Sorted(b.records, keys))
  BY <1>3, SortedPermutes
<1> QED
  BY <1>3, <1>4, <1>5 DEF n

\* A rearranged sequence has the same items.
LEMMA Rearranged ==
  ASSUME NEW T, NEW u \in Seq(T), NEW v, NEW p, Arranges(p, Len(u), u, v)
  PROVE  LET n == Len(u) IN
         /\ v \in Seq(T) /\ Len(v) = n
         /\ \A k \in 1..n : p[k] \in 1..n /\ v[k] = u[p[k]]
         /\ \A i \in 1..n : \E k \in 1..n : p[k] = i
         /\ \A i, j \in 1..n : p[i] = p[j] => i = j
<1> DEFINE n == Len(u)
<1>1. /\ p \in [1..n -> 1..n] /\ \A i \in 1..n : \E k \in 1..n : p[k] = i
      /\ \A i, j \in 1..n : p[i] = p[j] => i = j
      /\ n \in Nat /\ v = [k \in 1..n |-> u[p[k]]]
  BY DEF Arranges, Permutes, Bijection, Injection, Surjection, IsInjective
<1>2. \A k \in 1..n : u[p[k]] \in T
  BY <1>1
<1> HIDE DEF n
<1>3. v \in [1..n -> T]
  BY <1>1, <1>2
<1>4. v \in Seq(T) /\ Len(v) = n
  BY <1>1, <1>3
<1> QED
  BY <1>1, <1>4 DEF n

LEMMA SortedIn ==
  ASSUME NEW b, Fitting(b)
  PROVE  /\ SortedRecords(b) \in Seq(FileRecords(Len(b.sections)))
         /\ Len(SortedRecords(b)) = Len(b.records)
<1> DEFINE T == FileRecords(Len(b.sections))
<1>1. PICK p : Arranges(p, Len(b.records), b.records, SortedRecords(b))
  BY RecordsSorted
<1>2. b.records \in Seq(T)
  BY DEF Fitting
<1> HIDE DEF T
<1>3. SortedRecords(b) \in Seq(T) /\ Len(SortedRecords(b)) = Len(b.records)
  BY <1>1, <1>2, Rearranged
<1> QED
  BY <1>3 DEF T

\* And the relocations of a section those it had.
LEMMA RelocsSorted ==
  ASSUME NEW section, section.relocs \in Seq(FileRelocs), NEW T, NEW records \in Seq(T)
  PROVE  \E q : Arranges(q, Len(section.relocs), section.relocs, SortedRelocs(section, records))
<1> DEFINE n == Len(section.relocs)
           key(i) == <<section.relocs[i].offset,
                       Find(records, section.relocs[i].source, section.relocs[i].name)>>
           keys == [i \in 1..n |-> key(i)]
<1>1. ASSUME NEW i \in 1..n PROVE key(i) \in KeysOf(2)
  <2>1. section.relocs[i] \in FileRelocs
    OBVIOUS
  <2>2. section.relocs[i].offset \in Int
    BY <2>1 DEF FileRelocs
  <2> DEFINE source == section.relocs[i].source
             name == section.relocs[i].name
             I == {k \in 1..Len(records) : Owns(records[k], source, name)}
  <2>3. Find(records, source, name) \in Int
    <3>1. Find(records, source, name) = IF I # {} THEN Min(I) ELSE 0
      BY DEF Find, SelectInSeq
    <3>2. I \subseteq Nat
      OBVIOUS
    <3> HIDE DEF I
    <3>3. I # {} => Min(I) \in Nat
      BY <3>2, Least
    <3> QED
      BY <3>1, <3>3
  <2> QED
    BY <2>2, <2>3 DEF KeysOf
<1>2. n \in Nat
  OBVIOUS
<1>3. keys \in Seq(KeysOf(2)) /\ Len(keys) = n
  <2> HIDE DEF key
  <2> QED
    BY <1>1, <1>2
<1>4. SortedRelocs(section, records) = Sorted(section.relocs, keys)
  BY DEF SortedRelocs
<1> HIDE DEF keys, n
<1>5. \E q : Arranges(q, Len(keys), section.relocs, Sorted(section.relocs, keys))
  BY <1>3, SortedPermutes
<1> QED
  BY <1>3, <1>4, <1>5 DEF n

\* Every name of the builder has its place among the strings.
LEMMA NamesListed ==
  ASSUME NEW b, Fitting(b)
  PROVE  LET records == SortedRecords(b)
             strings == Strings(b, records)
         IN  /\ strings \in Seq(Spelled) /\ Listed(strings, Triple)
             /\ \A s \in 1..Len(b.sections) : Listed(strings, b.sections[s].name)
             /\ \A i \in 1..Len(records) : Listed(strings, records[i].name)
<1> DEFINE records == SortedRecords(b)
           strings == Strings(b, records)
           base == <<Empty, Triple>>
           u == NamesOf(b.sections)
           v == NamesOf(records)
           names == u \o v
<1>1. strings = Interned(base, names)
  BY DEF Strings, Interned
<1>2. /\ u \in Seq(Spelled) /\ Len(u) = Len(b.sections)
      /\ \A s \in 1..Len(b.sections) : u[s] = b.sections[s].name
  BY FittingParts DEF NamesOf
<1>3. /\ v \in Seq(Spelled) /\ Len(v) = Len(records)
      /\ \A i \in 1..Len(records) : v[i] = records[i].name
  <2>1. /\ records \in Seq(FileRecords(Len(b.sections))) /\ Len(records) \in Nat
    BY SortedIn, FittingParts
  <2> HIDE DEF records
  <2>2. ASSUME NEW i \in 1..Len(records) PROVE records[i].name \in Spelled
    <3>1. records[i] \in FileRecords(Len(b.sections))
      BY <2>1
    <3> QED
      BY <3>1 DEF FileRecords
  <2> QED
    BY <2>1, <2>2 DEF NamesOf
<1>4. base \in Seq(Spelled) /\ Listed(base, Triple)
  <2>1. base \in Seq(Spelled) /\ Len(base) = 2 /\ base[2] = Triple
    BY DEF Fitting
  <2> HIDE DEF base
  <2> QED
    BY <2>1 DEF Listed
<1> HIDE DEF u, v, base, records, strings
<1>5. /\ names \in Seq(Spelled) /\ Len(names) = Len(u) + Len(v)
      /\ \A i \in 1..Len(u) : names[i] = u[i]
      /\ \A i \in 1..Len(v) : names[Len(u) + i] = v[i]
  <2>1. u \in Seq(Spelled) /\ v \in Seq(Spelled)
    BY <1>2, <1>3
  <2> QED
    BY <2>1, Joined DEF IsJoined
<1> HIDE DEF names
<1>6. /\ strings \in Seq(Spelled) /\ Listed(strings, Triple)
      /\ \A i \in 1..Len(names) : Listed(strings, names[i])
  BY <1>1, <1>4, <1>5, AllListed
<1>7. Len(u) \in Nat /\ Len(v) \in Nat
  BY <1>2, <1>3
<1>8. ASSUME NEW s \in 1..Len(b.sections) PROVE Listed(strings, b.sections[s].name)
  <2>1. s \in 1..Len(names) /\ names[s] = b.sections[s].name
    BY <1>2, <1>5, <1>7
  <2> QED
    BY <1>6, <2>1
<1>9. ASSUME NEW i \in 1..Len(records) PROVE Listed(strings, records[i].name)
  <2>1. Len(u) + i \in 1..Len(names) /\ names[Len(u) + i] = records[i].name
    BY <1>3, <1>5, <1>7
  <2> QED
    BY <1>6, <2>1
<1> QED
  BY <1>6, <1>8, <1>9 DEF records, strings
-----------------------------------------------------------------------------
(* Where the parts of a file are *)

PayloadSizes(b) ==
  [s \in 1..Len(b.sections) |-> IF HasPayload(b.sections[s]) THEN b.sections[s].size ELSE 0]
RelocCounts(b) == [s \in 1..Len(b.sections) |-> Len(b.sections[s].relocs)]
StringTable(b) == Strings(b, SortedRecords(b))
StringBytes(b) == Start(StringTable(b), Len(StringTable(b)) + 1)

SymbolsAt(b) == HeaderSize + SectionSize * Len(b.sections)
RelocsAt(b, s) ==
  SymbolsAt(b) + SymbolSize * Len(b.records) + RelocSize * Total(RelocCounts(b), s - 1)
StringsAt(b) == RelocsAt(b, Len(b.sections) + 1)
PayloadAt(b, s) == StringsAt(b) + StringBytes(b) + Total(PayloadSizes(b), s - 1)

EntriesOf(b, s) ==
  LET relocs == SortedRelocs(b.sections[s], SortedRecords(b))
  IN  [i \in 1..Len(relocs) |-> Entry(relocs[i], SortedRecords(b))]

SectionRow(b, s) ==
  [name |-> Place(StringTable(b), b.sections[s].name),
   kind |-> b.sections[s].kind, align |-> b.sections[s].align,
   offset |-> IF HasPayload(b.sections[s]) THEN PayloadAt(b, s) ELSE 0,
   size |-> Word(b.sections[s].size),
   relocOffset |-> IF b.sections[s].relocs = <<>> THEN 0 ELSE RelocsAt(b, s),
   relocCount |-> Len(b.sections[s].relocs)]

SymbolRow(b, i) ==
  LET record == SortedRecords(b)[i] IN
  [name |-> Place(StringTable(b), record.name), value |-> record.value,
   section |-> SectionWord(record.section), global |-> record.global,
   kind |-> record.kind, size |-> record.size]

\* What object_write_cc64o writes, part by part.
LEMMA WrittenParts ==
  ASSUME NEW b, Fitting(b)
  PROVE  LET out == Written(b)
             count == Len(b.sections)
             n == Len(b.records)
         IN  /\ out.size = PayloadAt(b, count + 1)
             /\ out.targetOffset = StringsAt(b) + Place(StringTable(b), Triple)
             /\ out.targetSize = Length(Triple) + 1
             /\ out.sectionOffset = HeaderSize /\ out.sectionCount = count
             /\ out.symbolOffset = SymbolsAt(b) /\ out.symbolCount = n
             /\ out.stringOffset = StringsAt(b) /\ out.stringSize = StringBytes(b)
             /\ out.strings = StringTable(b)
             /\ out.sections = [s \in 1..count |-> SectionRow(b, s)]
             /\ out.symbols = [i \in 1..n |-> SymbolRow(b, i)]
             /\ out.relocs = FlattenSeq([s \in 1..count |-> EntriesOf(b, s)])
<1> DEFINE count == Len(b.sections)
           n == Len(SortedRecords(b))
<1>1. Written(b) =
        [size |-> SymbolsAt(b) + SymbolSize * n + RelocSize * Total(RelocCounts(b), (count + 1) - 1)
                    + StringBytes(b) + Total(PayloadSizes(b), (count + 1) - 1),
         targetOffset |->
           SymbolsAt(b) + SymbolSize * n + RelocSize * Total(RelocCounts(b), (count + 1) - 1)
             + Place(StringTable(b), Triple),
         targetSize |-> Length(Triple) + 1,
         sectionOffset |-> HeaderSize, sectionCount |-> count,
         symbolOffset |-> SymbolsAt(b), symbolCount |-> n,
         stringOffset |->
           SymbolsAt(b) + SymbolSize * n + RelocSize * Total(RelocCounts(b), (count + 1) - 1),
         stringSize |-> StringBytes(b),
         strings |-> StringTable(b),
         sections |->
           [s \in 1..count |->
             [name |-> Place(StringTable(b), b.sections[s].name),
              kind |-> b.sections[s].kind, align |-> b.sections[s].align,
              offset |-> IF HasPayload(b.sections[s])
                         THEN SymbolsAt(b) + SymbolSize * n
                                + RelocSize * Total(RelocCounts(b), (count + 1) - 1)
                                + StringBytes(b) + Total(PayloadSizes(b), s - 1)
                         ELSE 0,
              size |-> Word(b.sections[s].size),
              relocOffset |-> IF b.sections[s].relocs = <<>> THEN 0
                              ELSE SymbolsAt(b) + SymbolSize * n
                                     + RelocSize * Total(RelocCounts(b), s - 1),
              relocCount |-> Len(b.sections[s].relocs)]],
         symbols |-> [i \in 1..n |-> SymbolRow(b, i)],
         relocs |-> FlattenSeq([s \in 1..count |-> EntriesOf(b, s)])]
  BY DEF Written, SymbolsAt, StringTable, StringBytes, RelocCounts, PayloadSizes, SymbolRow, EntriesOf
<1>2. n = Len(b.records)
  BY SortedIn
<1> QED
  BY <1>1, <1>2 DEF PayloadAt, StringsAt, RelocsAt, SectionRow

\* The strings have a place for every name.
LEMMA TableListed ==
  ASSUME NEW b, Fitting(b)
  PROVE  /\ StringTable(b) \in Seq(Spelled) /\ Listed(StringTable(b), Triple)
         /\ \A s \in 1..Len(b.sections) : Listed(StringTable(b), b.sections[s].name)
         /\ \A i \in 1..Len(b.records) : Listed(StringTable(b), SortedRecords(b)[i].name)
         /\ StringBytes(b) \in Nat
<1>1. StringTable(b) \in Seq(Spelled)
  BY NamesListed DEF StringTable
<1>2. StringBytes(b) \in Nat
  <2>1. Len(StringTable(b)) + 1 \in 1..(Len(StringTable(b)) + 1)
    BY <1>1
  <2> QED
    BY <1>1, <2>1, StartsApart DEF StringBytes
<1> QED
  BY <1>1, <1>2, NamesListed, SortedIn DEF StringTable

\* The parts follow each other.
LEMMA Laid ==
  ASSUME NEW b, Fitting(b)
  PROVE  LET count == Len(b.sections) IN
         /\ \A s \in 1..count : RelocCounts(b)[s] = Len(b.sections[s].relocs)
                                /\ RelocCounts(b)[s] \in Nat /\ PayloadSizes(b)[s] \in Nat
         /\ SymbolsAt(b) = HeaderSize + SectionSize * count /\ SymbolsAt(b) \in Nat
         /\ RelocsAt(b, 1) = SymbolsAt(b) + SymbolSize * Len(b.records)
         /\ PayloadAt(b, 1) = StringsAt(b) + StringBytes(b)
         /\ StringsAt(b) = RelocsAt(b, count + 1)
         /\ \A s \in 1..(count + 1) : RelocsAt(b, s) \in Nat /\ PayloadAt(b, s) \in Nat
         /\ \A s \in 1..count, t \in 1..(count + 1) :
              s < t => /\ RelocsAt(b, s) + RelocSize * RelocCounts(b)[s] <= RelocsAt(b, t)
                       /\ PayloadAt(b, s) + PayloadSizes(b)[s] <= PayloadAt(b, t)
<1> DEFINE count == Len(b.sections)
           r == RelocCounts(b)
           p == PayloadSizes(b)
           first == SymbolsAt(b) + SymbolSize * Len(b.records)
<1>1. count \in Nat /\ Len(b.records) \in Nat /\ StringBytes(b) \in Nat
  BY FittingParts, TableListed
<1>2. ASSUME NEW s \in 1..count
      PROVE  r[s] = Len(b.sections[s].relocs) /\ r[s] \in Nat /\ p[s] \in Nat
  <2>1. b.sections[s].size \in Nat /\ b.sections[s].relocs \in Seq(FileRelocs)
    BY FittingParts
  <2> QED
    BY <2>1 DEF RelocCounts, PayloadSizes
<1>3. SymbolsAt(b) = HeaderSize + SectionSize * count /\ SymbolsAt(b) \in Nat /\ first \in Nat
  <2>1. SymbolsAt(b) = HeaderSize + SectionSize * count
    BY DEF SymbolsAt
  <2> HIDE DEF count
  <2>2. SymbolsAt(b) \in Nat
    BY <1>1, <2>1 DEF HeaderSize, SectionSize
  <2>3. first \in Nat
    BY <1>1, <2>2 DEF SymbolSize
  <2> QED
    BY <2>1, <2>2, <2>3
<1>4. /\ \A s : RelocsAt(b, s) = first + RelocSize * Total(r, s - 1)
      /\ \A s : PayloadAt(b, s) = StringsAt(b) + StringBytes(b) + Total(p, s - 1)
      /\ StringsAt(b) = RelocsAt(b, count + 1)
  BY DEF RelocsAt, PayloadAt, StringsAt
<1> HIDE DEF count, r, p, first
<1>5. /\ \A s \in 0..count : Total(r, s) \in Nat /\ Total(p, s) \in Nat
      /\ \A s \in 1..count, t \in 0..count :
           s <= t => /\ Total(r, s - 1) + r[s] <= Total(r, t)
                     /\ Total(p, s - 1) + p[s] <= Total(p, t)
  BY <1>1, <1>2, TotalGrows
<1>6. Total(r, 1 - 1) = 0 /\ Total(p, 1 - 1) = 0
  BY TotalStep
<1>7. ASSUME NEW s \in 1..(count + 1) PROVE RelocsAt(b, s) \in Nat
  <2>1. Total(r, s - 1) \in Nat
    <3>1. s - 1 \in 0..count
      BY <1>1
    <3> QED
      BY <1>5, <3>1
  <2> QED
    BY <1>3, <1>4, <2>1 DEF RelocSize
<1>8. StringsAt(b) \in Nat
  <2>1. count + 1 \in 1..(count + 1)
    BY <1>1
  <2> QED
    BY <1>4, <1>7, <2>1
<1>9. ASSUME NEW s \in 1..(count + 1) PROVE PayloadAt(b, s) \in Nat
  <2>1. Total(p, s - 1) \in Nat
    <3>1. s - 1 \in 0..count
      BY <1>1
    <3> QED
      BY <1>5, <3>1
  <2> QED
    BY <1>1, <1>4, <1>8, <2>1
<1>10. ASSUME NEW s \in 1..count, NEW t \in 1..(count + 1), s < t
       PROVE  /\ RelocsAt(b, s) + RelocSize * r[s] <= RelocsAt(b, t)
              /\ PayloadAt(b, s) + p[s] <= PayloadAt(b, t)
  <2>1. s - 1 \in 0..count /\ t - 1 \in 0..count /\ s <= t - 1
    BY <1>1, <1>10
  <2>2. /\ Total(r, s - 1) + r[s] <= Total(r, t - 1)
        /\ Total(p, s - 1) + p[s] <= Total(p, t - 1)
    BY <1>5, <2>1
  <2>3. /\ Total(r, s - 1) \in Nat /\ Total(r, t - 1) \in Nat /\ r[s] \in Nat
        /\ Total(p, s - 1) \in Nat /\ Total(p, t - 1) \in Nat /\ p[s] \in Nat
    BY <1>2, <1>5, <2>1
  <2>4. RelocsAt(b, s) + RelocSize * r[s] <= RelocsAt(b, t)
    <3>1. /\ RelocsAt(b, s) = first + RelocSize * Total(r, s - 1)
          /\ RelocsAt(b, t) = first + RelocSize * Total(r, t - 1)
      BY <1>4
    <3> QED
      BY <1>3, <2>2, <2>3, <3>1 DEF RelocSize
  <2>5. PayloadAt(b, s) + p[s] <= PayloadAt(b, t)
    <3>1. /\ PayloadAt(b, s) = StringsAt(b) + StringBytes(b) + Total(p, s - 1)
          /\ PayloadAt(b, t) = StringsAt(b) + StringBytes(b) + Total(p, t - 1)
      BY <1>4
    <3> QED
      BY <1>1, <1>8, <2>2, <2>3, <3>1
  <2> QED
    BY <2>4, <2>5
<1>11. RelocsAt(b, 1) = first /\ PayloadAt(b, 1) = StringsAt(b) + StringBytes(b)
  <2>1. RelocsAt(b, 1) = first + RelocSize * 0
    BY <1>4, <1>6
  <2>2. PayloadAt(b, 1) = StringsAt(b) + StringBytes(b) + 0
    BY <1>4, <1>6
  <2> QED
    BY <1>1, <1>3, <1>8, <2>1, <2>2 DEF RelocSize
<1> QED
  BY <1>2, <1>3, <1>4, <1>7, <1>9, <1>10, <1>11 DEF count, r, p, first
\* A number that fits a word is written as it is.
LEMMA WordFits ==
  ASSUME NEW n \in Nat, n <= WordMax
  PROVE  Word(n) = n
<1> DEFINE m == WordMax + 1
           q == n \div m
           r == n % m
<1>1. m \in Nat /\ m > 0 /\ n < m
  BY ObjectFileAssumption
<1> HIDE DEF m
<1>2. q \in Int /\ r \in 0..(m - 1) /\ n = m * q + r
  BY <1>1
<1> HIDE DEF q
<1>3. q = 0
  <2>1. q <= 0
    <3> SUFFICES ASSUME q >= 1 PROVE FALSE
      BY <1>2
    <3>1. m * q >= m
      BY <1>1, <1>2
    <3> QED
      BY <1>1, <1>2, <3>1
  <2>2. q >= 0
    <3> SUFFICES ASSUME q <= -1 PROVE FALSE
      BY <1>2
    <3>1. m * q <= -m
      BY <1>1, <1>2
    <3> QED
      BY <1>1, <1>2, <3>1
  <2> QED
    BY <1>2, <2>1, <2>2
<1>4. m * q = 0
  BY <1>1, <1>3
<1> QED
  BY <1>2, <1>4 DEF Word, m

-----------------------------------------------------------------------------
(* The parts of a file do not overlap, and leave nothing out *)

PayloadExtent(b, s) ==
  Extent(IF HasPayload(b.sections[s]) THEN PayloadAt(b, s) ELSE 0, PayloadSizes(b)[s])
RelocsExtent(b, s) ==
  Extent(IF b.sections[s].relocs = <<>> THEN 0 ELSE RelocsAt(b, s),
         RelocSize * RelocCounts(b)[s])

LEMMA RangesAre ==
  ASSUME NEW b, Fitting(b)
  PROVE  LET r == Ranges(Written(b))
             count == Len(b.sections)
         IN  /\ Len(r) = 4 + count + count
             /\ r[1] = Extent(0, HeaderSize)
             /\ r[2] = Extent(HeaderSize, SectionSize * count)
             /\ r[3] = Extent(SymbolsAt(b), SymbolSize * Len(b.records))
             /\ r[4] = Extent(StringsAt(b), StringBytes(b))
             /\ \A s \in 1..count : r[4 + s] = PayloadExtent(b, s)
             /\ \A s \in 1..count : r[4 + count + s] = RelocsExtent(b, s)
<1> DEFINE out == Written(b)
           r == Ranges(out)
           count == Len(b.sections)
           head == <<Extent(0, HeaderSize), Extent(HeaderSize, SectionSize * count),
                     Extent(SymbolsAt(b), SymbolSize * Len(b.records)),
                     Extent(StringsAt(b), StringBytes(b))>>
           u == [s \in 1..count |-> PayloadExtent(b, s)]
           v == [s \in 1..count |-> RelocsExtent(b, s)]
           T == {head[k] : k \in 1..4} \cup {u[s] : s \in 1..count} \cup {v[s] : s \in 1..count}
<1>1. count \in Nat
  BY FittingParts
<1>2. /\ out.sectionOffset = HeaderSize /\ out.sectionCount = count
      /\ out.symbolOffset = SymbolsAt(b) /\ out.symbolCount = Len(b.records)
      /\ out.stringOffset = StringsAt(b) /\ out.stringSize = StringBytes(b)
      /\ out.sections = [s \in 1..count |-> SectionRow(b, s)]
  BY WrittenParts
<1>3. ASSUME NEW s \in 1..count
      PROVE  /\ Extent(out.sections[s].offset,
                       IF HasPayload(out.sections[s]) THEN out.sections[s].size ELSE 0)
                  = PayloadExtent(b, s)
             /\ Extent(out.sections[s].relocOffset, RelocSize * out.sections[s].relocCount)
                  = RelocsExtent(b, s)
  <2>1. out.sections[s] = SectionRow(b, s)
    BY <1>2
  <2>2. /\ PayloadSizes(b)[s] = IF HasPayload(b.sections[s]) THEN b.sections[s].size ELSE 0
        /\ RelocCounts(b)[s] = Len(b.sections[s].relocs)
    BY DEF PayloadSizes, RelocCounts
  <2>3. Word(b.sections[s].size) = b.sections[s].size
    BY FittingParts, WordFits DEF Fitting
  <2>4. HasPayload(SectionRow(b, s)) <=> HasPayload(b.sections[s])
    BY DEF HasPayload, SectionRow
  <2> QED
    BY <2>1, <2>2, <2>3, <2>4 DEF SectionRow, PayloadExtent, RelocsExtent
<1>4. r = head \o u \o v
  <2>1. r = head \o
            [s \in 1..count |->
               Extent(out.sections[s].offset,
                      IF HasPayload(out.sections[s]) THEN out.sections[s].size ELSE 0)] \o
            [s \in 1..count |->
               Extent(out.sections[s].relocOffset, RelocSize * out.sections[s].relocCount)]
    <3> HIDE DEF out
    <3> QED
      BY <1>2 DEF Ranges
  <2>2. u = [s \in 1..count |->
               Extent(out.sections[s].offset,
                      IF HasPayload(out.sections[s]) THEN out.sections[s].size ELSE 0)]
    <3> HIDE DEF out
    <3> QED
      BY <1>3
  <2>3. v = [s \in 1..count |->
               Extent(out.sections[s].relocOffset, RelocSize * out.sections[s].relocCount)]
    <3> HIDE DEF out
    <3> QED
      BY <1>3
  <2> HIDE DEF head, u, v, out, r
  <2> QED
    BY <2>1, <2>2, <2>3
<1>5. head \in Seq(T) /\ Len(head) = 4
  <2>1. Len(head) = 4 /\ \A k \in 1..4 : head[k] \in T
    OBVIOUS
  <2> QED
    BY <2>1
<1>6. /\ u \in Seq(T) /\ Len(u) = count /\ \A s \in 1..count : u[s] = PayloadExtent(b, s)
      /\ v \in Seq(T) /\ Len(v) = count /\ \A s \in 1..count : v[s] = RelocsExtent(b, s)
  <2>1. /\ \A s \in 1..count : u[s] \in T /\ u[s] = PayloadExtent(b, s)
        /\ \A s \in 1..count : v[s] \in T /\ v[s] = RelocsExtent(b, s)
    OBVIOUS
  <2>2. u \in [1..count -> T] /\ v \in [1..count -> T]
    BY <2>1
  <2> HIDE DEF T, u, v, count
  <2>3. u \in Seq(T) /\ Len(u) = count
    BY <1>1, <2>2
  <2>4. v \in Seq(T) /\ Len(v) = count
    BY <1>1, <2>2
  <2> QED
    BY <2>1, <2>3, <2>4
<1>7. /\ head[1] = Extent(0, HeaderSize) /\ head[2] = Extent(HeaderSize, SectionSize * count)
      /\ head[3] = Extent(SymbolsAt(b), SymbolSize * Len(b.records))
      /\ head[4] = Extent(StringsAt(b), StringBytes(b))
  OBVIOUS
<1> DEFINE w == head \o u
<1> HIDE DEF r, head, u, v, T, count
<1>8. /\ w \in Seq(T) /\ Len(w) = 4 + count
      /\ \A k \in 1..4 : w[k] = head[k]
      /\ \A s \in 1..count : w[4 + s] = u[s]
  <2>1. head \in Seq(T) /\ u \in Seq(T) /\ Len(head) = 4 /\ Len(u) = count
    BY <1>5, <1>6
  <2>2. w \in Seq(T) /\ IsJoined(w, head, u)
    BY <2>1, Joined
  <2> HIDE DEF w
  <2> QED
    BY <2>1, <2>2 DEF IsJoined
<1> HIDE DEF w
<1>9. /\ Len(r) = 4 + count + count
      /\ \A k \in 1..(4 + count) : r[k] = w[k]
      /\ \A s \in 1..count : r[4 + count + s] = v[s]
  <2>1. r = w \o v
    BY <1>4 DEF w
  <2>2. w \in Seq(T) /\ v \in Seq(T) /\ Len(w) = 4 + count /\ Len(v) = count
    BY <1>6, <1>8
  <2>3. IsJoined(r, w, v)
    BY <2>1, <2>2, Joined
  <2> QED
    BY <2>2, <2>3 DEF IsJoined
<1>10. \A k \in 1..4 : r[k] = head[k]
  <2>1. \A k \in 1..4 : k \in 1..(4 + count)
    BY <1>1
  <2> QED
    BY <1>8, <1>9, <2>1
<1>11. \A s \in 1..count : r[4 + s] = u[s]
  <2>1. \A s \in 1..count : 4 + s \in 1..(4 + count)
    BY <1>1
  <2> QED
    BY <1>8, <1>9, <2>1
<1>12. /\ r[1] = Extent(0, HeaderSize) /\ r[2] = Extent(HeaderSize, SectionSize * count)
       /\ r[3] = Extent(SymbolsAt(b), SymbolSize * Len(b.records))
       /\ r[4] = Extent(StringsAt(b), StringBytes(b))
  BY <1>7, <1>10
<1>13. \A s \in 1..count : r[4 + s] = PayloadExtent(b, s)
  BY <1>6, <1>11
<1>14. \A s \in 1..count : r[4 + count + s] = RelocsExtent(b, s)
  BY <1>6, <1>9
<1> QED
  BY <1>9, <1>12, <1>13, <1>14 DEF r, count
\* The ends of the parts of a file, in their order: header, sections, symbols,
\* relocations, strings and payloads.
Edge(b, k) ==
  IF k = 0 THEN 0 ELSE IF k = 1 THEN HeaderSize ELSE IF k = 2 THEN SymbolsAt(b)
  ELSE IF k = 3 THEN RelocsAt(b, 1) ELSE IF k = 4 THEN StringsAt(b)
  ELSE IF k = 5 THEN PayloadAt(b, 1) ELSE PayloadAt(b, Len(b.sections) + 1)

\* Which part the i-th range is of.
Zone(count, i) ==
  IF i <= 3 THEN i ELSE IF i = 4 THEN 5 ELSE IF i <= 4 + count THEN 6 ELSE 4

LEMMA EdgesRise ==
  ASSUME NEW b, Fitting(b)
  PROVE  /\ \A k \in 0..6 : Edge(b, k) \in Nat
         /\ \A k, m \in 0..6 : k <= m => Edge(b, k) <= Edge(b, m)
<1> DEFINE count == Len(b.sections)
<1>1. count \in Nat /\ count # 0 /\ Len(b.records) \in Nat /\ StringBytes(b) \in Nat
  BY FittingParts, TableListed
<1>2. /\ SymbolsAt(b) = HeaderSize + SectionSize * count /\ SymbolsAt(b) \in Nat
      /\ RelocsAt(b, 1) = SymbolsAt(b) + SymbolSize * Len(b.records)
      /\ PayloadAt(b, 1) = StringsAt(b) + StringBytes(b)
      /\ StringsAt(b) = RelocsAt(b, count + 1)
  BY Laid
<1>3. /\ RelocsAt(b, 1) \in Nat /\ RelocsAt(b, count + 1) \in Nat
      /\ PayloadAt(b, 1) \in Nat /\ PayloadAt(b, count + 1) \in Nat
      /\ RelocsAt(b, 1) + RelocSize * RelocCounts(b)[1] <= RelocsAt(b, count + 1)
      /\ PayloadAt(b, 1) + PayloadSizes(b)[1] <= PayloadAt(b, count + 1)
      /\ RelocCounts(b)[1] \in Nat /\ PayloadSizes(b)[1] \in Nat
  <2>1. 1 \in 1..count /\ count + 1 \in 1..(count + 1) /\ 1 \in 1..(count + 1) /\ 1 < count + 1
    BY <1>1
  <2> QED
    BY <2>1, Laid
<1> HIDE DEF count
<1>4. /\ HeaderSize <= SymbolsAt(b) /\ SymbolsAt(b) <= RelocsAt(b, 1)
      /\ RelocsAt(b, 1) <= StringsAt(b) /\ StringsAt(b) <= PayloadAt(b, 1)
      /\ PayloadAt(b, 1) <= PayloadAt(b, count + 1) /\ StringsAt(b) \in Nat
      /\ HeaderSize \in Nat
  <2>1. StringsAt(b) \in Nat /\ RelocsAt(b, 1) \in Nat
    BY <1>2, <1>3
  <2>2. HeaderSize \in Nat /\ HeaderSize <= SymbolsAt(b)
    BY <1>1, <1>2 DEF HeaderSize, SectionSize
  <2>3. SymbolsAt(b) <= RelocsAt(b, 1)
    BY <1>1, <1>2, <2>1 DEF SymbolSize
  <2>4. RelocsAt(b, 1) <= StringsAt(b)
    BY <1>2, <1>3, <2>1 DEF RelocSize
  <2>5. StringsAt(b) <= PayloadAt(b, 1)
    BY <1>1, <1>2, <2>1
  <2>6. PayloadAt(b, 1) <= PayloadAt(b, count + 1)
    BY <1>3
  <2> QED
    BY <2>1, <2>2, <2>3, <2>4, <2>5, <2>6
<1>5. /\ Edge(b, 0) = 0 /\ Edge(b, 1) = HeaderSize /\ Edge(b, 2) = SymbolsAt(b)
      /\ Edge(b, 3) = RelocsAt(b, 1) /\ Edge(b, 4) = StringsAt(b)
      /\ Edge(b, 5) = PayloadAt(b, 1) /\ Edge(b, 6) = PayloadAt(b, count + 1)
  BY DEF Edge, count
<1>6. \A k \in 0..6 : k \in {0, 1, 2, 3, 4, 5, 6}
  OBVIOUS
<1>7. \A k \in 0..6 : Edge(b, k) \in Nat
  BY <1>2, <1>3, <1>4, <1>5, <1>6, SMTT(30)
<1>8. ASSUME NEW k \in 0..6, NEW m \in 0..6, k <= m PROVE Edge(b, k) <= Edge(b, m)
  <2> DEFINE e(i) == Edge(b, i)
  <2>1. /\ e(0) <= e(1) /\ e(1) <= e(2) /\ e(2) <= e(3) /\ e(3) <= e(4)
        /\ e(4) <= e(5) /\ e(5) <= e(6)
    BY <1>4, <1>5
  <2>2. /\ e(0) \in Nat /\ e(1) \in Nat /\ e(2) \in Nat /\ e(3) \in Nat
        /\ e(4) \in Nat /\ e(5) \in Nat /\ e(6) \in Nat
    BY <1>7
  <2>3. k \in {0, 1, 2, 3, 4, 5, 6} /\ m \in {0, 1, 2, 3, 4, 5, 6}
    BY <1>6
  <2> HIDE DEF e
  <2>4. e(k) <= e(m)
    <3>1. CASE k = 0
      BY <2>1, <2>2, <2>3, <3>1
    <3>2. CASE k = 1
      BY <1>8, <2>1, <2>2, <2>3, <3>2
    <3>3. CASE k = 2
      BY <1>8, <2>1, <2>2, <2>3, <3>3
    <3>4. CASE k = 3
      BY <1>8, <2>1, <2>2, <2>3, <3>4
    <3>5. CASE k \in {4, 5, 6}
      BY <1>8, <2>1, <2>2, <2>3, <3>5
    <3> QED
      BY <2>3, <3>1, <3>2, <3>3, <3>4, <3>5
  <2> QED
    BY <2>4 DEF e
<1> QED
  BY <1>7, <1>8

\* Each range is empty at the start of the file, or lies within its part.
InZone(b, i, range) ==
  /\ range.offset \in Nat /\ range.size \in Nat
  /\ \/ range.offset = 0 /\ range.size = 0
     \/ LET k == Zone(Len(b.sections), i) IN
        Edge(b, k - 1) <= range.offset /\ range.offset + range.size <= Edge(b, k)

LEMMA RangesInZones ==
  ASSUME NEW b, Fitting(b), NEW i \in 1..(4 + Len(b.sections) + Len(b.sections))
  PROVE  InZone(b, i, Ranges(Written(b))[i])
<1> DEFINE count == Len(b.sections)
           r == Ranges(Written(b))
<1>1. /\ count \in Nat /\ count # 0 /\ Len(b.records) \in Nat /\ StringBytes(b) \in Nat
  BY FittingParts, TableListed
<1>2. /\ SymbolsAt(b) = HeaderSize + SectionSize * count /\ SymbolsAt(b) \in Nat
      /\ RelocsAt(b, 1) = SymbolsAt(b) + SymbolSize * Len(b.records)
      /\ PayloadAt(b, 1) = StringsAt(b) + StringBytes(b)
      /\ StringsAt(b) = RelocsAt(b, count + 1)
      /\ \A s \in 1..count : RelocCounts(b)[s] = Len(b.sections[s].relocs)
                             /\ RelocCounts(b)[s] \in Nat /\ PayloadSizes(b)[s] \in Nat
      /\ \A s \in 1..(count + 1) : RelocsAt(b, s) \in Nat /\ PayloadAt(b, s) \in Nat
      /\ \A s \in 1..count, t \in 1..(count + 1) :
           s < t => /\ RelocsAt(b, s) + RelocSize * RelocCounts(b)[s] <= RelocsAt(b, t)
                    /\ PayloadAt(b, s) + PayloadSizes(b)[s] <= PayloadAt(b, t)
  BY Laid
<1>3. /\ r[1] = Extent(0, HeaderSize)
      /\ r[2] = Extent(HeaderSize, SectionSize * count)
      /\ r[3] = Extent(SymbolsAt(b), SymbolSize * Len(b.records))
      /\ r[4] = Extent(StringsAt(b), StringBytes(b))
      /\ \A s \in 1..count : r[4 + s] = PayloadExtent(b, s)
      /\ \A s \in 1..count : r[4 + count + s] = RelocsExtent(b, s)
  BY RangesAre
<1>4. /\ Edge(b, 0) = 0 /\ Edge(b, 1) = HeaderSize /\ Edge(b, 2) = SymbolsAt(b)
      /\ Edge(b, 3) = RelocsAt(b, 1) /\ Edge(b, 4) = StringsAt(b)
      /\ Edge(b, 5) = PayloadAt(b, 1) /\ Edge(b, 6) = PayloadAt(b, count + 1)
  BY DEF Edge
<1>5. \A offset, size : Extent(offset, size).offset = offset /\ Extent(offset, size).size = size
  BY DEF Extent
<1>6. 1 \in 1..(count + 1) /\ count + 1 \in 1..(count + 1)
  BY <1>1
<1> HIDE DEF count, r
<1>14. StringsAt(b) \in Nat
  BY <1>2, <1>6
<1>7. CASE i \in 1..3
  <2>1. Zone(count, i) = i /\ i \in {1, 2, 3}
    BY <1>7 DEF Zone
  <2>3. HeaderSize = 96 /\ SectionSize = 40 /\ SymbolSize = 32
    BY DEF HeaderSize, SectionSize, SymbolSize
  <2>2. /\ r[i].offset \in Nat /\ r[i].size \in Nat
        /\ Edge(b, i - 1) <= r[i].offset /\ r[i].offset + r[i].size <= Edge(b, i)
    <3>4. CASE i = 1
      <4>1. r[i].offset = 0 /\ r[i].size = HeaderSize
        BY <1>3, <1>5, <3>4
      <4>2. Edge(b, i - 1) = 0 /\ Edge(b, i) = HeaderSize
        BY <1>4, <3>4
      <4> QED
        BY <2>3, <4>1, <4>2
    <3>5. CASE i = 2
      <4>1. r[i].offset = HeaderSize /\ r[i].size = SectionSize * count
        BY <1>3, <1>5, <3>5
      <4>2. Edge(b, i - 1) = HeaderSize /\ Edge(b, i) = SymbolsAt(b)
        BY <1>4, <3>5
      <4>3. SymbolsAt(b) = HeaderSize + SectionSize * count
        BY <1>2
      <4> QED
        BY <1>1, <2>3, <4>1, <4>2, <4>3
    <3>6. CASE i = 3
      <4>1. r[i].offset = SymbolsAt(b) /\ r[i].size = SymbolSize * Len(b.records)
        BY <1>3, <1>5, <3>6
      <4>2. Edge(b, i - 1) = SymbolsAt(b) /\ Edge(b, i) = RelocsAt(b, 1)
        BY <1>4, <3>6
      <4>3. RelocsAt(b, 1) = SymbolsAt(b) + SymbolSize * Len(b.records) /\ SymbolsAt(b) \in Nat
        BY <1>2
      <4> QED
        BY <1>1, <2>3, <4>1, <4>2, <4>3
    <3> QED
      BY <2>1, <3>4, <3>5, <3>6
  <2> QED
    BY <2>1, <2>2 DEF InZone, r, count
<1>8. CASE i = 4
  <2>1. Zone(count, i) = 5
    BY <1>8 DEF Zone
  <2>2. /\ r[i].offset \in Nat /\ r[i].size \in Nat
        /\ Edge(b, 5 - 1) <= r[i].offset /\ r[i].offset + r[i].size <= Edge(b, 5)
    <3>1. r[i].offset = StringsAt(b) /\ r[i].size = StringBytes(b)
      BY <1>3, <1>5, <1>8
    <3>2. Edge(b, 5 - 1) = StringsAt(b) /\ Edge(b, 5) = PayloadAt(b, 1)
      BY <1>4
    <3>3. PayloadAt(b, 1) = StringsAt(b) + StringBytes(b)
      BY <1>2
    <3> QED
      BY <1>1, <1>14, <3>1, <3>2, <3>3
  <2> QED
    BY <2>1, <2>2 DEF InZone, r, count
<1>9. ASSUME NEW s \in 1..count, i = 4 + s PROVE InZone(b, i, r[i])
  <2>1. Zone(count, i) = 6 /\ s \in 1..(count + 1)
    BY <1>1, <1>9 DEF Zone
  <2>2. r[i] = PayloadExtent(b, s)
    BY <1>3, <1>9
  <2>3. /\ r[i].offset = IF HasPayload(b.sections[s]) THEN PayloadAt(b, s) ELSE 0
        /\ r[i].size = PayloadSizes(b)[s]
    BY <1>5, <2>2 DEF PayloadExtent
  <2>4. CASE HasPayload(b.sections[s])
    <3>1. PayloadAt(b, 1) <= PayloadAt(b, s)
      <4>1. CASE s = 1
        BY <1>2, <1>6, <4>1
      <4>2. CASE s # 1
        <5>1. 1 \in 1..count /\ 1 < s
          BY <1>1, <4>2
        <5>2. PayloadAt(b, 1) + PayloadSizes(b)[1] <= PayloadAt(b, s)
          BY <1>2, <2>1, <5>1
        <5> QED
          BY <1>2, <1>6, <2>1, <5>1, <5>2
      <4> QED
        BY <4>1, <4>2
    <3>2. PayloadAt(b, s) + PayloadSizes(b)[s] <= PayloadAt(b, count + 1)
      <4>1. s < count + 1
        BY <1>1
      <4> QED
        BY <1>2, <1>6, <4>1
    <3>3. /\ r[i].offset \in Nat /\ r[i].size \in Nat
          /\ Edge(b, 6 - 1) <= r[i].offset /\ r[i].offset + r[i].size <= Edge(b, 6)
      BY <1>2, <1>4, <2>1, <2>3, <2>4, <3>1, <3>2
    <3> QED
      BY <2>1, <3>3 DEF InZone, count
  <2>5. CASE ~HasPayload(b.sections[s])
    <3>1. PayloadSizes(b)[s] = 0
      BY <2>5 DEF PayloadSizes, count
    <3> QED
      BY <2>3, <2>5, <3>1 DEF InZone
  <2> QED
    BY <2>4, <2>5
<1>10. ASSUME NEW s \in 1..count, i = 4 + count + s PROVE InZone(b, i, r[i])
  <2>1. Zone(count, i) = 4 /\ s \in 1..(count + 1)
    BY <1>1, <1>10 DEF Zone
  <2>2. r[i] = RelocsExtent(b, s)
    BY <1>3, <1>10
  <2>3. /\ r[i].offset = IF b.sections[s].relocs = <<>> THEN 0 ELSE RelocsAt(b, s)
        /\ r[i].size = RelocSize * RelocCounts(b)[s]
    BY <1>5, <2>2 DEF RelocsExtent
  <2>4. CASE b.sections[s].relocs # <<>>
    <3>1. RelocsAt(b, 1) <= RelocsAt(b, s)
      <4>1. CASE s = 1
        BY <1>2, <1>6, <4>1
      <4>2. CASE s # 1
        <5>1. 1 \in 1..count /\ 1 < s
          BY <1>1, <4>2
        <5>2. RelocsAt(b, 1) + RelocSize * RelocCounts(b)[1] <= RelocsAt(b, s)
          BY <1>2, <2>1, <5>1
        <5> QED
          BY <1>2, <1>6, <2>1, <5>1, <5>2 DEF RelocSize
      <4> QED
        BY <4>1, <4>2
    <3>2. RelocsAt(b, s) + RelocSize * RelocCounts(b)[s] <= RelocsAt(b, count + 1)
      <4>1. s < count + 1
        BY <1>1
      <4> QED
        BY <1>2, <1>6, <4>1
    <3>3. /\ r[i].offset \in Nat /\ r[i].size \in Nat
          /\ Edge(b, 4 - 1) <= r[i].offset /\ r[i].offset + r[i].size <= Edge(b, 4)
      BY <1>2, <1>4, <2>1, <2>3, <2>4, <3>1, <3>2, SMTT(30) DEF RelocSize
    <3> QED
      BY <2>1, <3>3 DEF InZone, count
  <2>5. CASE b.sections[s].relocs = <<>>
    <3>1. RelocCounts(b)[s] = 0
      BY <1>2, <2>5
    <3> QED
      BY <2>3, <2>5, <3>1 DEF InZone, RelocSize
  <2> QED
    BY <2>4, <2>5
<1>11. \/ i \in 1..3 \/ i = 4 \/ (\E s \in 1..count : i = 4 + s)
       \/ (\E s \in 1..count : i = 4 + count + s)
  <2>1. CASE i \in 5..(4 + count)
    <3>1. i - 4 \in 1..count /\ i = 4 + (i - 4)
      BY <1>1, <2>1
    <3> QED
      BY <3>1
  <2>2. CASE i \in (5 + count)..(4 + count + count)
    <3>1. i - 4 - count \in 1..count /\ i = 4 + count + (i - 4 - count)
      BY <1>1, <2>2
    <3> QED
      BY <3>1
  <2> QED
    BY <1>1, <2>1, <2>2 DEF count
<1> QED
  BY <1>7, <1>8, <1>9, <1>10, <1>11 DEF r

\* Two ranges of one part follow each other.
LEMMA SamePartApart ==
  ASSUME NEW b, Fitting(b),
         NEW s \in 1..Len(b.sections), NEW t \in 1..Len(b.sections), s < t
  PROVE  /\ Apart(PayloadExtent(b, s), PayloadExtent(b, t))
         /\ Apart(RelocsExtent(b, s), RelocsExtent(b, t))
<1>1. \A offset, size : Extent(offset, size).offset = offset /\ Extent(offset, size).size = size
  BY DEF Extent
<1>2. t \in 1..(Len(b.sections) + 1)
  BY FittingParts
<1>3. /\ PayloadAt(b, s) + PayloadSizes(b)[s] <= PayloadAt(b, t)
      /\ RelocsAt(b, s) + RelocSize * RelocCounts(b)[s] <= RelocsAt(b, t)
      /\ RelocCounts(b)[s] = Len(b.sections[s].relocs)
      /\ RelocCounts(b)[t] = Len(b.sections[t].relocs)
  BY <1>2, Laid
<1>4. /\ PayloadExtent(b, s).size = PayloadSizes(b)[s]
      /\ PayloadExtent(b, t).size = PayloadSizes(b)[t]
      /\ PayloadExtent(b, s).offset = IF HasPayload(b.sections[s]) THEN PayloadAt(b, s) ELSE 0
      /\ PayloadExtent(b, t).offset = IF HasPayload(b.sections[t]) THEN PayloadAt(b, t) ELSE 0
  BY <1>1 DEF PayloadExtent
<1>5. /\ RelocsExtent(b, s).size = RelocSize * RelocCounts(b)[s]
      /\ RelocsExtent(b, t).size = RelocSize * RelocCounts(b)[t]
      /\ RelocsExtent(b, s).offset = IF b.sections[s].relocs = <<>> THEN 0 ELSE RelocsAt(b, s)
      /\ RelocsExtent(b, t).offset = IF b.sections[t].relocs = <<>> THEN 0 ELSE RelocsAt(b, t)
  BY <1>1 DEF RelocsExtent
<1>6. /\ ~HasPayload(b.sections[s]) => PayloadSizes(b)[s] = 0
      /\ ~HasPayload(b.sections[t]) => PayloadSizes(b)[t] = 0
  BY DEF PayloadSizes
<1>7. /\ b.sections[s].relocs = <<>> => RelocSize * RelocCounts(b)[s] = 0
      /\ b.sections[t].relocs = <<>> => RelocSize * RelocCounts(b)[t] = 0
  BY <1>3 DEF RelocSize
<1>8. Apart(PayloadExtent(b, s), PayloadExtent(b, t))
  BY <1>3, <1>4, <1>6 DEF Apart
<1>9. Apart(RelocsExtent(b, s), RelocsExtent(b, t))
  BY <1>3, <1>5, <1>7 DEF Apart
<1> QED
  BY <1>8, <1>9

\* No two of the ranges of a file share a byte.
LEMMA RangesApart ==
  ASSUME NEW b, Fitting(b),
         NEW i \in 1..(4 + Len(b.sections) + Len(b.sections)),
         NEW j \in 1..(4 + Len(b.sections) + Len(b.sections)), i < j
  PROVE  Apart(Ranges(Written(b))[i], Ranges(Written(b))[j])
<1> DEFINE count == Len(b.sections)
           r == Ranges(Written(b))
<1>1. count \in Nat /\ count # 0
  BY FittingParts
<1>2. InZone(b, i, r[i]) /\ InZone(b, j, r[j])
  BY RangesInZones
<1>3. /\ \A s \in 1..count : r[4 + s] = PayloadExtent(b, s)
      /\ \A s \in 1..count : r[4 + count + s] = RelocsExtent(b, s)
  BY RangesAre
<1>4. /\ \A k \in 0..6 : Edge(b, k) \in Nat
      /\ \A k, m \in 0..6 : k <= m => Edge(b, k) <= Edge(b, m)
  BY EdgesRise
<1>5. Zone(count, i) \in 1..6 /\ Zone(count, j) \in 1..6
  BY <1>1 DEF Zone
<1> HIDE DEF r
<1>6. CASE r[i].size = 0 \/ r[j].size = 0
  BY <1>6 DEF Apart, r
<1>7. CASE r[i].size # 0 /\ r[j].size # 0
  <2>1. /\ r[i].offset \in Nat /\ r[i].size \in Nat /\ r[j].offset \in Nat /\ r[j].size \in Nat
        /\ Edge(b, Zone(count, i) - 1) <= r[i].offset
        /\ r[i].offset + r[i].size <= Edge(b, Zone(count, i))
        /\ Edge(b, Zone(count, j) - 1) <= r[j].offset
        /\ r[j].offset + r[j].size <= Edge(b, Zone(count, j))
    BY <1>2, <1>7 DEF InZone
  <2>2. ASSUME NEW k \in 1..6, NEW m \in 1..6, k < m PROVE Edge(b, k) <= Edge(b, m - 1)
    <3>1. k \in 0..6 /\ m - 1 \in 0..6 /\ k <= m - 1
      BY <2>2
    <3> QED
      BY <1>4, <3>1
  <2>3. \A k \in 1..6 : k \in 0..6 /\ k - 1 \in 0..6
    OBVIOUS
  <2> DEFINE k == Zone(count, i)
             m == Zone(count, j)
  <2>4. CASE k < m
    <3>1. Edge(b, k) <= Edge(b, m - 1) /\ Edge(b, k) \in Nat /\ Edge(b, m - 1) \in Nat
      BY <1>4, <1>5, <2>2, <2>3, <2>4
    <3> QED
      BY <2>1, <3>1 DEF Apart, r
  <2>5. CASE m < k
    <3>1. Edge(b, m) <= Edge(b, k - 1) /\ Edge(b, m) \in Nat /\ Edge(b, k - 1) \in Nat
      BY <1>4, <1>5, <2>2, <2>3, <2>5
    <3> QED
      BY <2>1, <3>1 DEF Apart, r
  <2>6. CASE k = m
    <3>1. \/ i \in 5..(4 + count) /\ j \in 5..(4 + count)
          \/ i \in (5 + count)..(4 + count + count) /\ j \in (5 + count)..(4 + count + count)
      BY <1>1, <2>6 DEF Zone
    <3>2. CASE i \in 5..(4 + count) /\ j \in 5..(4 + count)
      <4>1. /\ i - 4 \in 1..count /\ j - 4 \in 1..count /\ i - 4 < j - 4
            /\ i = 4 + (i - 4) /\ j = 4 + (j - 4)
        BY <1>1, <3>2
      <4>2. r[i] = PayloadExtent(b, i - 4) /\ r[j] = PayloadExtent(b, j - 4)
        BY <1>3, <4>1
      <4> QED
        BY <4>1, <4>2, SamePartApart DEF r
    <3>3. CASE /\ i \in (5 + count)..(4 + count + count)
               /\ j \in (5 + count)..(4 + count + count)
      <4>3. i \in Int /\ j \in Int
        BY <1>1, <3>3
      <4>4. i - 4 - count \in 1..count
        BY <1>1, <3>3
      <4>5. j - 4 - count \in 1..count
        BY <1>1, <3>3
      <4>1. /\ i - 4 - count \in 1..count /\ j - 4 - count \in 1..count
            /\ i - 4 - count < j - 4 - count
            /\ i = 4 + count + (i - 4 - count) /\ j = 4 + count + (j - 4 - count)
        <5>4. \A x, y, z \in Int : x < y => x - 4 - z < y - 4 - z
          OBVIOUS
        <5>5. count \in Int
          BY <1>1
        <5>1. i - 4 - count < j - 4 - count
          BY <4>3, <5>4, <5>5
        <5>2. i = 4 + count + (i - 4 - count)
          BY <1>1, <4>3
        <5>3. j = 4 + count + (j - 4 - count)
          BY <1>1, <4>3
        <5> QED
          BY <4>4, <4>5, <5>1, <5>2, <5>3
      <4>2. /\ r[i] = RelocsExtent(b, i - 4 - count)
            /\ r[j] = RelocsExtent(b, j - 4 - count)
        BY <1>3, <4>1
      <4> QED
        BY <4>1, <4>2, SamePartApart DEF r
    <3> QED
      BY <3>1, <3>2, <3>3
  <2> QED
    BY <1>5, <2>4, <2>5, <2>6
<1> QED
  BY <1>1, <1>2, <1>6, <1>7 DEF InZone

\* The sizes of the ranges add up to that of the file.
LEMMA RangesCover ==
  ASSUME NEW b, Fitting(b)
  PROVE  LET r == Ranges(Written(b)) IN
         Total([i \in 1..Len(r) |-> r[i].size], Len(r)) = PayloadAt(b, Len(b.sections) + 1)
<1> DEFINE count == Len(b.sections)
           r == Ranges(Written(b))
           size == [i \in 1..Len(r) |-> r[i].size]
           payload == [s \in 1..(count + count) |-> size[4 + s]]
           table == [s \in 1..count |-> payload[count + s]]
<1>1. count \in Nat /\ count # 0
  BY FittingParts
<1>2. /\ Len(r) = 4 + count + count
      /\ r[1] = Extent(0, HeaderSize)
      /\ r[2] = Extent(HeaderSize, SectionSize * count)
      /\ r[3] = Extent(SymbolsAt(b), SymbolSize * Len(b.records))
      /\ r[4] = Extent(StringsAt(b), StringBytes(b))
      /\ \A s \in 1..count : r[4 + s] = PayloadExtent(b, s)
      /\ \A s \in 1..count : r[4 + count + s] = RelocsExtent(b, s)
  BY RangesAre
<1> HIDE DEF r
<1>3. \A offset, amount : Extent(offset, amount).size = amount
  BY DEF Extent
<1>4. /\ size[1] = HeaderSize /\ size[2] = SectionSize * count
      /\ size[3] = SymbolSize * Len(b.records) /\ size[4] = StringBytes(b)
  <2>1. {1, 2, 3, 4} \subseteq 1..Len(r)
    BY <1>1, <1>2
  <2> QED
    BY <1>2, <1>3, <2>1
<1>5. \A s \in 1..count : size[4 + s] = PayloadSizes(b)[s]
  <2>1. \A s \in 1..count : 4 + s \in 1..Len(r)
    BY <1>1, <1>2
  <2>2. \A s \in 1..count : r[4 + s].size = PayloadSizes(b)[s]
    BY <1>2, <1>3 DEF PayloadExtent
  <2> QED
    BY <2>1, <2>2
<1>6. \A s \in 1..count : size[4 + (count + s)] = RelocSize * RelocCounts(b)[s]
  <2>1. \A s \in 1..count : 4 + (count + s) \in 1..Len(r) /\ 4 + (count + s) = 4 + count + s
    BY <1>1, <1>2
  <2>2. \A s \in 1..count : r[4 + count + s].size = RelocSize * RelocCounts(b)[s]
    BY <1>2, <1>3 DEF RelocsExtent
  <2> QED
    BY <2>1, <2>2
<1>7. \A i \in 1..(4 + (count + count)) : size[i] \in Nat
  <2>1. \A i \in 1..(4 + count + count) : r[i].size \in Nat
    BY RangesInZones DEF InZone, r
  <2> QED
    BY <1>1, <1>2, <2>1
<1> HIDE DEF size
<1>8. \A s \in 1..(count + count) : payload[s] = size[4 + s] /\ payload[s] \in Nat
  <2>1. \A s \in 1..(count + count) : 4 + s \in 1..(4 + (count + count))
    BY <1>1
  <2> QED
    BY <1>7, <2>1
<1>9. \A s \in 1..count : s \in 1..(count + count) /\ count + s \in 1..(count + count)
  BY <1>1
<1>10. Total(size, 4 + (count + count)) = Total(size, 4) + Total(payload, count + count)
  <2>1. count + count \in Nat /\ count + count \in 0..(count + count) /\ 4 \in Nat
    BY <1>1
  <2>2. ASSUME NEW last \in Nat, \A i \in 1..(4 + last) : size[i] \in Nat
        PROVE  Total(size, 4 + last) = Total(size, 4) + Total([s \in 1..last |-> size[4 + s]], last)
    BY <2>1, <2>2, TotalSplit, SMTT(30)
  <2> QED
    BY <1>7, <2>1, <2>2
<1> HIDE DEF payload
<1>11. Total(payload, count + count) = Total(payload, count) + Total(table, count)
  <2>1. count \in 0..count
    BY <1>1
  <2> QED
    BY <1>1, <1>8, <2>1, TotalSplit
<1>12. Total(payload, count) = Total(PayloadSizes(b), count)
  <2>1. count \in 0..count /\ \A s \in 1..count : payload[s] = PayloadSizes(b)[s]
    BY <1>1, <1>5, <1>8, <1>9
  <2> QED
    BY <1>1, <2>1, TotalSame
<1>13. Total(table, count) = RelocSize * Total(RelocCounts(b), count)
  <2>1. count \in 0..count
    BY <1>1
  <2>2. \A s \in 1..count : RelocCounts(b)[s] \in Nat
    BY Laid
  <2>3. \A s \in 1..count : table[s] = payload[count + s]
    OBVIOUS
  <2>4. \A s \in 1..count : table[s] = RelocSize * RelocCounts(b)[s]
    BY <1>6, <1>8, <1>9, <2>3
  <2> HIDE DEF table
  <2> QED
    BY <1>1, <2>1, <2>2, <2>4, TotalScaled
<1>14. Total(size, 4) = size[1] + size[2] + size[3] + size[4]
  <2>1. /\ Total(size, 0) = 0 /\ Total(size, 0 + 1) = Total(size, 0) + size[0 + 1]
        /\ Total(size, 1 + 1) = Total(size, 1) + size[1 + 1]
        /\ Total(size, 2 + 1) = Total(size, 2) + size[2 + 1]
        /\ Total(size, 3 + 1) = Total(size, 3) + size[3 + 1]
    BY TotalStep
  <2>2. size[1] \in Nat /\ size[2] \in Nat /\ size[3] \in Nat /\ size[4] \in Nat
    <3>1. {1, 2, 3, 4} \subseteq 1..(4 + (count + count))
      BY <1>1
    <3> QED
      BY <1>7, <3>1
  <2> QED
    BY <2>1, <2>2
<1>15. PayloadAt(b, count + 1) =
         SymbolsAt(b) + SymbolSize * Len(b.records) + RelocSize * Total(RelocCounts(b), count)
           + StringBytes(b) + Total(PayloadSizes(b), count)
  <2>1. count + 1 - 1 = count
    BY <1>1
  <2> QED
    BY <2>1 DEF PayloadAt, StringsAt, RelocsAt
<1>16. /\ Total(RelocCounts(b), count) \in Nat /\ Total(PayloadSizes(b), count) \in Nat
       /\ StringBytes(b) \in Nat /\ Len(b.records) \in Nat
  <2>1. \A s \in 1..count : RelocCounts(b)[s] \in Nat /\ PayloadSizes(b)[s] \in Nat
    BY Laid
  <2>2. count \in 0..count
    BY <1>1
  <2> QED
    BY <1>1, <2>1, <2>2, TotalGrows, FittingParts, TableListed
<1>17. SymbolsAt(b) = HeaderSize + SectionSize * count
  BY DEF SymbolsAt
<1>18. Total(size, 4 + (count + count)) = PayloadAt(b, count + 1)
  <2>1. Total(size, 4) =
          HeaderSize + SectionSize * count + SymbolSize * Len(b.records) + StringBytes(b)
    BY <1>4, <1>14
  <2>2. Total(payload, count + count) =
          Total(PayloadSizes(b), count) + RelocSize * Total(RelocCounts(b), count)
    BY <1>11, <1>12, <1>13
  <2>3. /\ SectionSize * count \in Nat /\ SymbolSize * Len(b.records) \in Nat
        /\ RelocSize * Total(RelocCounts(b), count) \in Nat /\ HeaderSize \in Nat
    BY <1>1, <1>16 DEF HeaderSize, SectionSize, SymbolSize, RelocSize
  <2> DEFINE h == HeaderSize + SectionSize * count
             marks == SymbolSize * Len(b.records)
             relocs == RelocSize * Total(RelocCounts(b), count)
             strings == StringBytes(b)
             payloads == Total(PayloadSizes(b), count)
  <2>4. Total(size, 4 + (count + count)) = (h + marks + strings) + (payloads + relocs)
    BY <1>10, <2>1, <2>2
  <2>5. PayloadAt(b, count + 1) = h + marks + relocs + strings + payloads
    BY <1>15, <1>17
  <2>6. h \in Nat /\ marks \in Nat /\ relocs \in Nat /\ strings \in Nat /\ payloads \in Nat
    BY <1>16, <2>3
  <2> HIDE DEF h, marks, relocs, strings, payloads
  <2>7. (h + marks + strings) + (payloads + relocs) = h + marks + relocs + strings + payloads
    BY <2>6
  <2> QED
    BY <2>4, <2>5, <2>7
<1>19. Len(r) = 4 + (count + count)
  BY <1>1, <1>2
<1> QED
  BY <1>18, <1>19 DEF size, r

\* So the file says where everything in it is.
LEMMA WrittenDescribed ==
  ASSUME NEW b, Fitting(b)
  PROVE  Described(Written(b))
<1> DEFINE count == Len(b.sections)
           out == Written(b)
           r == Ranges(out)
           n == 4 + count + count
<1>1. count \in Nat /\ Len(r) = n /\ out.size = PayloadAt(b, count + 1)
  BY FittingParts, RangesAre, WrittenParts
<1>2. ASSUME NEW i \in 1..n PROVE r[i].offset + r[i].size <= out.size
  <2>1. InZone(b, i, r[i])
    BY RangesInZones
  <2>2. Zone(count, i) \in 1..6
    BY <1>1 DEF Zone
  <2>3. Edge(b, 6) = out.size /\ Edge(b, 6) \in Nat /\ 0 <= Edge(b, 6)
    <3>1. 6 \in 0..6
      OBVIOUS
    <3>2. Edge(b, 6) \in Nat
      BY <3>1, EdgesRise
    <3> QED
      BY <1>1, <3>2 DEF Edge
  <2> HIDE DEF r, out
  <2>4. CASE r[i].offset = 0 /\ r[i].size = 0
    BY <2>3, <2>4
  <2>5. CASE r[i].offset + r[i].size <= Edge(b, Zone(count, i))
    <3>1. Zone(count, i) \in 0..6 /\ Zone(count, i) <= 6 /\ 6 \in 0..6
      BY <2>2
    <3>2. Edge(b, Zone(count, i)) <= Edge(b, 6) /\ Edge(b, Zone(count, i)) \in Nat
      BY <3>1, EdgesRise
    <3>3. r[i].offset \in Nat /\ r[i].size \in Nat
      BY <2>1 DEF InZone
    <3> QED
      BY <2>3, <2>5, <3>2, <3>3
  <2> QED
    BY <2>1, <2>4, <2>5 DEF InZone
<1>3. ASSUME NEW i \in 1..n, NEW j \in 1..n, i # j PROVE Apart(r[i], r[j])
  <2>1. CASE i < j
    BY <2>1, RangesApart
  <2>2. CASE j < i
    <3>1. Apart(r[j], r[i])
      BY <2>2, RangesApart
    <3> QED
      BY <3>1 DEF Apart
  <2> QED
    BY <1>1, <1>3, <2>1, <2>2
<1>4. Total([i \in 1..Len(r) |-> r[i].size], Len(r)) = out.size
  BY <1>1, RangesCover
<1> QED
  BY <1>1, <1>2, <1>3, <1>4 DEF Described
-----------------------------------------------------------------------------
(* What is read of a file is what was written *)

\* What a reader may have of a file that a builder was written to.
LEMMA WrittenReadable ==
  ASSUME NEW b, Fitting(b), Writable(b)
  PROVE  Readable(Written(b))
<1> DEFINE out == Written(b)
           count == Len(b.sections)
<1>1. /\ out.size <= MaxFile /\ out.symbolCount <= MaxSymbols
      /\ out.targetSize = Length(Triple) + 1
  BY WrittenParts DEF Writable
<1>2. NameAt(out, out.targetOffset - out.stringOffset) = Triple
  <2>1. /\ out.strings = StringTable(b) /\ out.stringOffset = StringsAt(b)
        /\ out.targetOffset = StringsAt(b) + Place(StringTable(b), Triple)
    BY WrittenParts
  <2>2. StringTable(b) \in Seq(Spelled) /\ Listed(StringTable(b), Triple)
    BY TableListed
  <2> HIDE DEF out
  <2>3. /\ NameAt(out, Place(out.strings, Triple)) = Triple
        /\ Place(out.strings, Triple) \in Nat
    BY <2>1, <2>2, PlaceNamed
  <2>4. StringsAt(b) \in Nat
    <3>1. count + 1 \in 1..(count + 1)
      BY FittingParts
    <3> QED
      BY <3>1, Laid
  <2>5. out.targetOffset - out.stringOffset = Place(out.strings, Triple)
    BY <2>1, <2>3, <2>4
  <2> QED
    BY <2>3, <2>5
<1>3. ASSUME NEW s \in 1..out.sectionCount, HasPayload(out.sections[s])
      PROVE  out.sections[s].size <= MaxPayload
  <2>1. out.sectionCount = count /\ out.sections = [t \in 1..count |-> SectionRow(b, t)]
    BY WrittenParts
  <2>2. out.sections[s] = SectionRow(b, s) /\ s \in 1..count
    BY <2>1
  <2> HIDE DEF out
  <2>3. /\ out.sections[s].kind = b.sections[s].kind
        /\ out.sections[s].size = Word(b.sections[s].size)
    BY <2>2 DEF SectionRow
  <2>4. HasPayload(b.sections[s])
    BY <1>3, <2>3 DEF HasPayload, out
  <2>5. /\ b.sections[s].size <= MaxPayload /\ b.sections[s].size <= WordMax
        /\ b.sections[s].size \in Nat
    BY <2>2, <2>4, FittingParts DEF Fitting
  <2> QED
    BY <2>3, <2>5, WordFits
<1>4. Described(out)
  BY WrittenDescribed
<1> QED
  BY <1>1, <1>2, <1>3, <1>4 DEF Readable

LEMMA EntryThere ==
  ASSUME NEW out, NEW offset, NEW n,
         (offset - out.symbolOffset - SymbolSize * out.symbolCount) \div RelocSize + 1 = n
  PROVE  EntryAt(out, offset) = out.relocs[n]
BY DEF EntryAt

\* Each section finds its relocations.
LEMMA EntriesFound ==
  ASSUME NEW b, Fitting(b), NEW s \in 1..Len(b.sections),
         NEW i \in 1..Len(b.sections[s].relocs)
  PROVE  EntryAt(Written(b), RelocsAt(b, s) + RelocSize * (i - 1)) =
           Entry(SortedRelocs(b.sections[s], SortedRecords(b))[i], SortedRecords(b))
<1> DEFINE count == Len(b.sections)
           records == SortedRecords(b)
           seqs == [t \in 1..count |-> EntriesOf(b, t)]
           T == {EntriesOf(b, x[1])[x[2]] : x \in (1..count) \X Nat}
           lens == RelocCounts(b)
           out == Written(b)
<1>1. count \in Nat /\ count # 0 /\ Len(b.records) \in Nat
  BY FittingParts
<1>2. ASSUME NEW t \in 1..count
      PROVE  /\ Len(SortedRelocs(b.sections[t], records)) = Len(b.sections[t].relocs)
             /\ Len(b.sections[t].relocs) \in Nat
  <2>1. b.sections[t].relocs \in Seq(FileRelocs)
    BY FittingParts
  <2>2. records \in Seq(FileRecords(count))
    BY SortedIn
  <2>3. PICK q : Arranges(q, Len(b.sections[t].relocs), b.sections[t].relocs,
                          SortedRelocs(b.sections[t], records))
    BY <2>1, <2>2, RelocsSorted
  <2> QED
    BY <2>1, <2>3, Rearranged
<1>3. ASSUME NEW t \in 1..count
      PROVE  EntriesOf(b, t) \in Seq(T) /\ Len(EntriesOf(b, t)) = Len(b.sections[t].relocs)
  <2> DEFINE n == Len(b.sections[t].relocs)
  <2>1. EntriesOf(b, t) = [k \in 1..n |-> Entry(SortedRelocs(b.sections[t], records)[k], records)]
    BY <1>2 DEF EntriesOf
  <2>2. \A k \in 1..n : EntriesOf(b, t)[k] \in T
    <3> SUFFICES ASSUME NEW k \in 1..n PROVE EntriesOf(b, t)[k] \in T
      OBVIOUS
    <3>1. <<t, k>> \in (1..count) \X Nat
      OBVIOUS
    <3> QED
      BY <3>1
  <2>3. n \in Nat
    BY <1>2
  <2> HIDE DEF T, n
  <2>4. EntriesOf(b, t) \in [1..n -> T]
    BY <2>1, <2>2
  <2> QED
    BY <2>1, <2>3, <2>4 DEF n
<1> HIDE DEF T
<1>4. /\ seqs \in Seq(Seq(T)) /\ Len(seqs) = count
      /\ \A t \in 1..count : seqs[t] = EntriesOf(b, t)
  BY <1>1, <1>3
<1>5. \A t \in 1..count : lens[t] = Len(seqs[t]) /\ lens[t] \in Nat
                          /\ lens[t] = Len(b.sections[t].relocs)
  BY <1>3, <1>4, Laid
<1>6. out.relocs = FlattenSeq(seqs) /\ out.symbolOffset = SymbolsAt(b)
      /\ out.symbolCount = Len(b.records)
  BY WrittenParts
<1> HIDE DEF seqs, lens, out
<1>7. s \in 1..Len(seqs) /\ i \in 1..lens[s]
  BY <1>4, <1>5
<1>8. FlattenSeq(seqs)[Total(lens, s - 1) + i] = seqs[s][i]
  <2>1. Len(seqs) # 0 /\ \A t \in 1..Len(seqs) : lens[t] = Len(seqs[t])
    BY <1>1, <1>4, <1>5
  <2>2. IsFlat(FlattenSeq(seqs), seqs, lens)
    BY <1>4, <2>1, FlatAt
  <2> QED
    BY <1>7, <2>2 DEF IsFlat
<1>9. RelocsAt(b, s) = SymbolsAt(b) + SymbolSize * Len(b.records) + RelocSize * Total(lens, s - 1)
  BY DEF RelocsAt, lens
<1>10. Total(lens, s - 1) \in Nat /\ SymbolsAt(b) \in Nat
  <2>1. s - 1 \in 0..count
    BY <1>1
  <2> QED
    BY <1>1, <1>5, <2>1, TotalGrows, Laid
<1>11. ((RelocsAt(b, s) + RelocSize * (i - 1)) - out.symbolOffset - SymbolSize * out.symbolCount)
          \div RelocSize + 1 = Total(lens, s - 1) + i
  <2> DEFINE t == Total(lens, s - 1)
             n == Len(b.records)
             a == SymbolsAt(b)
  <2>1. i \in Nat /\ i >= 1
    OBVIOUS
  <2> HIDE DEF t, n, a
  <2>2. \A x, y, z, j \in Nat :
          j >= 1 => ((x + 32 * y + 32 * z + 32 * (j - 1)) - x - 32 * y) \div 32 + 1 = z + j
    OBVIOUS
  <2>3. t \in Nat /\ n \in Nat /\ a \in Nat
    BY <1>1, <1>10 DEF t, n, a
  <2>4. ((a + 32 * n + 32 * t + 32 * (i - 1)) - a - 32 * n) \div 32 + 1 = t + i
    BY <2>1, <2>2, <2>3
  <2>5. /\ RelocsAt(b, s) = a + 32 * n + 32 * t
        /\ out.symbolOffset = a /\ out.symbolCount = n
    BY <1>6, <1>9 DEF SymbolSize, RelocSize, t, n, a
  <2>6. ((RelocsAt(b, s) + 32 * (i - 1)) - out.symbolOffset - 32 * out.symbolCount) \div 32 + 1
          = t + i
    BY <2>4, <2>5
  <2>7. SymbolSize = 32 /\ RelocSize = 32
    BY DEF SymbolSize, RelocSize
  <2> QED
    BY <2>6, <2>7 DEF t
<1>12. EntryAt(out, RelocsAt(b, s) + RelocSize * (i - 1)) = EntriesOf(b, s)[i]
  <2>2. EntryAt(out, RelocsAt(b, s) + RelocSize * (i - 1)) = out.relocs[Total(lens, s - 1) + i]
    <3>1. \A x, n :
            (x - out.symbolOffset - SymbolSize * out.symbolCount) \div RelocSize + 1 = n
              => EntryAt(out, x) = out.relocs[n]
      BY EntryThere
    <3> QED
      BY <1>11, <3>1
  <2> QED
    BY <1>4, <1>6, <1>8, <2>2
<1>13. EntriesOf(b, s)[i] = Entry(SortedRelocs(b.sections[s], records)[i], records)
  BY <1>2 DEF EntriesOf
<1> QED
  BY <1>12, <1>13 DEF out

\* A section of the object that is read is that of the builder, with its relocations
\* in the order of their offsets.
SectionRead(b, s, section) ==
  /\ section.name = b.sections[s].name
  /\ section.kind = b.sections[s].kind
  /\ section.align = b.sections[s].align
  /\ section.size = b.sections[s].size
  /\ section.relocs = [i \in 1..Len(b.sections[s].relocs) |->
       Entry(SortedRelocs(b.sections[s], SortedRecords(b))[i], SortedRecords(b))]

LEMMA SectionsRead ==
  ASSUME NEW b, Fitting(b)
  PROVE  /\ Len(Read(Written(b)).sections) = Len(b.sections)
         /\ \A s \in 1..Len(b.sections) : SectionRead(b, s, Read(Written(b)).sections[s])
<1> DEFINE count == Len(b.sections)
           out == Written(b)
           sections == Read(out).sections
<1>1. count \in Nat
  BY FittingParts
<1>2. /\ out.sectionCount = count /\ out.strings = StringTable(b)
      /\ out.sections = [s \in 1..count |-> SectionRow(b, s)]
  BY WrittenParts
<1> HIDE DEF out
<1>3. sections = [s \in 1..count |->
        [name |-> NameAt(out, out.sections[s].name), kind |-> out.sections[s].kind,
         align |-> out.sections[s].align, size |-> out.sections[s].size,
         relocs |-> [i \in 1..out.sections[s].relocCount |->
                      EntryAt(out, out.sections[s].relocOffset + RelocSize * (i - 1))]]]
  BY <1>2 DEF Read
<1> HIDE DEF sections
<1>4. ASSUME NEW s \in 1..count PROVE SectionRead(b, s, sections[s])
  <2> DEFINE n == Len(b.sections[s].relocs)
  <2>1. out.sections[s] = SectionRow(b, s)
    BY <1>2
  <2>2. /\ out.sections[s].name = Place(StringTable(b), b.sections[s].name)
        /\ out.sections[s].kind = b.sections[s].kind
        /\ out.sections[s].align = b.sections[s].align
        /\ out.sections[s].size = Word(b.sections[s].size)
        /\ out.sections[s].relocCount = n
        /\ b.sections[s].relocs # <<>> => out.sections[s].relocOffset = RelocsAt(b, s)
    BY <2>1 DEF SectionRow
  <2>3. /\ sections[s].name = NameAt(out, out.sections[s].name)
        /\ sections[s].kind = out.sections[s].kind
        /\ sections[s].align = out.sections[s].align
        /\ sections[s].size = out.sections[s].size
        /\ sections[s].relocs =
             [i \in 1..n |-> EntryAt(out, out.sections[s].relocOffset + RelocSize * (i - 1))]
    BY <1>3, <2>2
  <2>4. sections[s].name = b.sections[s].name
    <3>1. out.strings \in Seq(Spelled) /\ Listed(out.strings, b.sections[s].name)
      BY <1>2, TableListed
    <3>2. NameAt(out, Place(out.strings, b.sections[s].name)) = b.sections[s].name
      BY <3>1, PlaceNamed
    <3> QED
      BY <1>2, <2>2, <2>3, <3>2
  <2>5. sections[s].size = b.sections[s].size
    BY <2>2, <2>3, WordFits, FittingParts DEF Fitting
  <2>6. b.sections[s].relocs \in Seq(FileRelocs)
    BY FittingParts
  <2>7. ASSUME NEW i \in 1..n
        PROVE  EntryAt(out, out.sections[s].relocOffset + RelocSize * (i - 1)) =
                 Entry(SortedRelocs(b.sections[s], SortedRecords(b))[i], SortedRecords(b))
    <3>1. b.sections[s].relocs # <<>>
      BY <2>6
    <3> QED
      BY <2>2, <3>1, EntriesFound DEF out
  <2>8. sections[s].relocs =
          [i \in 1..n |-> Entry(SortedRelocs(b.sections[s], SortedRecords(b))[i], SortedRecords(b))]
    BY <2>3, <2>7
  <2> QED
    BY <2>2, <2>3, <2>4, <2>5, <2>8 DEF SectionRead
<1>5. Len(sections) = count
  BY <1>1, <1>3
<1> QED
  BY <1>4, <1>5 DEF sections, out

\* A symbol of the object is a record of the builder.
SymbolRead(record, symbol) ==
  /\ symbol.name = record.name /\ symbol.value = record.value
  /\ symbol.section = record.section /\ symbol.global = record.global
  /\ symbol.kind = record.kind /\ symbol.size = record.size

LEMMA SymbolsRead ==
  ASSUME NEW b, Fitting(b)
  PROVE  /\ Len(Read(Written(b)).symbols) = Len(b.records)
         /\ \A i \in 1..Len(b.records) :
              SymbolRead(SortedRecords(b)[i], Read(Written(b)).symbols[i])
<1> DEFINE n == Len(b.records)
           out == Written(b)
           rows == Read(out).symbols
           records == SortedRecords(b)
<1>1. n \in Nat /\ WordMax \in Nat /\ Len(b.sections) <= WordMax /\ Len(b.sections) \in Nat
  BY FittingParts
<1>2. /\ out.symbolCount = n /\ out.strings = StringTable(b)
      /\ out.symbols = [i \in 1..n |-> SymbolRow(b, i)]
  BY WrittenParts
<1> HIDE DEF out
<1>3. rows = [i \in 1..n |->
        [out.symbols[i] EXCEPT
           !.name = NameAt(out, @), !.section = IF @ = WordMax THEN 0 ELSE @ + 1]]
  BY <1>2 DEF Read
<1> HIDE DEF rows
<1>4. ASSUME NEW i \in 1..n PROVE SymbolRead(records[i], rows[i])
  <2>1. records[i] \in FileRecords(Len(b.sections))
    BY SortedIn
  <2>2. records[i].section \in 0..Len(b.sections)
    BY <2>1 DEF FileRecords
  <2>3. Listed(StringTable(b), records[i].name) /\ StringTable(b) \in Seq(Spelled)
    BY TableListed
  <2> HIDE DEF records
  <2>4. NameAt(out, Place(StringTable(b), records[i].name)) = records[i].name
    <3>1. out.strings \in Seq(Spelled) /\ Listed(out.strings, records[i].name)
      BY <1>2, <2>3
    <3>2. NameAt(out, Place(out.strings, records[i].name)) = records[i].name
      BY <3>1, PlaceNamed
    <3> QED
      BY <1>2, <3>2
  <2>5. out.symbols[i] =
          [name |-> Place(StringTable(b), records[i].name), value |-> records[i].value,
           section |-> SectionWord(records[i].section), global |-> records[i].global,
           kind |-> records[i].kind, size |-> records[i].size]
    BY <1>2 DEF SymbolRow, records
  <2>8. rows[i] =
          [out.symbols[i] EXCEPT
             !.name = NameAt(out, @), !.section = IF @ = WordMax THEN 0 ELSE @ + 1]
    BY <1>3
  <2>6. /\ rows[i].name = NameAt(out, out.symbols[i].name)
        /\ rows[i].value = out.symbols[i].value
        /\ rows[i].section =
             IF out.symbols[i].section = WordMax THEN 0 ELSE out.symbols[i].section + 1
        /\ rows[i].global = out.symbols[i].global
        /\ rows[i].kind = out.symbols[i].kind /\ rows[i].size = out.symbols[i].size
    BY <2>5, <2>8
  <2>9. /\ out.symbols[i].name = Place(StringTable(b), records[i].name)
        /\ out.symbols[i].value = records[i].value
        /\ out.symbols[i].section = SectionWord(records[i].section)
        /\ out.symbols[i].global = records[i].global
        /\ out.symbols[i].kind = records[i].kind /\ out.symbols[i].size = records[i].size
    BY <2>5
  <2>7. (IF SectionWord(records[i].section) = WordMax THEN 0
         ELSE SectionWord(records[i].section) + 1) = records[i].section
    BY <1>1, <2>2 DEF SectionWord
  <2> QED
    BY <2>4, <2>6, <2>7, <2>9 DEF SymbolRead
<1>5. Len(rows) = n
  <2> DEFINE row(i) ==
        [out.symbols[i] EXCEPT
           !.name = NameAt(out, @), !.section = IF @ = WordMax THEN 0 ELSE @ + 1]
  <2>1. rows = [i \in 1..n |-> row(i)]
    BY <1>3
  <2> HIDE DEF row
  <2> QED
    BY <1>1, <2>1
<1> QED
  BY <1>4, <1>5 DEF rows, out, records
-----------------------------------------------------------------------------
(* The file as a whole *)

\* A record that owns a relocation is found.
LEMMA FindOwner ==
  ASSUME NEW T, NEW records \in Seq(T), NEW source, NEW name,
         \E i \in 1..Len(records) : Owns(records[i], source, name)
  PROVE  LET i == Find(records, source, name)
         IN  i \in 1..Len(records) /\ Owns(records[i], source, name)
<1> DEFINE I == {i \in 1..Len(records) : Owns(records[i], source, name)}
<1>1. Find(records, source, name) = IF I # {} THEN Min(I) ELSE 0
  BY DEF Find, SelectInSeq
<1>2. I # {} /\ I \subseteq Nat
  OBVIOUS
<1>3. Min(I) \in I
  <2> HIDE DEF I
  <2> QED
    BY <1>2, Least
<1> QED
  BY <1>1, <1>2, <1>3

\* An entry of the object is a relocation of the builder, and refers to a symbol that
\* is a record of what the relocation is of, if there is one.
RelocRead(b, reloc, object, entry) ==
  /\ entry.offset = reloc.offset /\ entry.type = reloc.type /\ entry.addend = 0
  /\ (\E i \in 1..Len(b.records) : Owns(b.records[i], reloc.source, reloc.name)) =>
       /\ entry.symbol \in 1..Len(object.symbols)
       /\ \E i \in 1..Len(b.records) :
            /\ Owns(b.records[i], reloc.source, reloc.name)
            /\ SymbolRead(b.records[i], object.symbols[entry.symbol])

\* The object that is read is the builder's: its symbols are the records in some
\* order, and each section has its relocations in some order.
SymbolsMatch(b, object, p) ==
  /\ Permutes(p, Len(b.records)) /\ Len(object.symbols) = Len(b.records)
  /\ \A i \in 1..Len(b.records) : SymbolRead(b.records[p[i]], object.symbols[i])

RelocsMatch(b, object, s, q) ==
  /\ Permutes(q, Len(b.sections[s].relocs))
  /\ Len(object.sections[s].relocs) = Len(b.sections[s].relocs)
  /\ \A i \in 1..Len(b.sections[s].relocs) :
       RelocRead(b, b.sections[s].relocs[q[i]], object, object.sections[s].relocs[i])

SectionMatches(b, object, s) ==
  /\ object.sections[s].name = b.sections[s].name
  /\ object.sections[s].kind = b.sections[s].kind
  /\ object.sections[s].align = b.sections[s].align
  /\ object.sections[s].size = b.sections[s].size
  /\ \E q : RelocsMatch(b, object, s, q)

ReadAs(b, object) ==
  /\ \E p : SymbolsMatch(b, object, p)
  /\ Len(object.sections) = Len(b.sections)
  /\ \A s \in 1..Len(b.sections) : SectionMatches(b, object, s)

\* object_write_cc64o and read_object_file agree, whatever is in the builder and
\* however much of it: the linker can read what is written, the ranges it checks are
\* apart and cover the file, and every name, section, symbol and relocation is again
\* what it was.
THEOREM FileReadsBack ==
  ASSUME NEW b, Fitting(b), Writable(b)
  PROVE  Readable(Written(b)) /\ ReadAs(b, Read(Written(b)))
<1> DEFINE object == Read(Written(b))
           n == Len(b.records)
           records == SortedRecords(b)
<1>1. n \in Nat /\ records \in Seq(FileRecords(Len(b.sections))) /\ Len(records) = n
  BY SortedIn, FittingParts
<1>2. PICK p : Arranges(p, n, b.records, records)
  BY RecordsSorted
<1>3. /\ \A k \in 1..n : p[k] \in 1..n /\ records[k] = b.records[p[k]]
      /\ \A i \in 1..n : \E k \in 1..n : p[k] = i
  BY <1>2, Rearranged, SMTT(30) DEF Fitting
<1>4. Len(object.symbols) = n /\ \A i \in 1..n : SymbolRead(records[i], object.symbols[i])
  BY SymbolsRead
<1>5. Len(object.sections) = Len(b.sections)
      /\ \A s \in 1..Len(b.sections) : SectionRead(b, s, object.sections[s])
  BY SectionsRead
<1> HIDE DEF object, records, n
<1>6. SymbolsMatch(b, object, p)
  BY <1>2, <1>3, <1>4 DEF SymbolsMatch, Arranges, n
<1>7. ASSUME NEW s \in 1..Len(b.sections) PROVE SectionMatches(b, object, s)
  <2> DEFINE section == b.sections[s]
             m == Len(section.relocs)
             sorted == SortedRelocs(section, records)
  <2>1. section.relocs \in Seq(FileRelocs) /\ m \in Nat
    BY FittingParts
  <2>2. PICK q : Arranges(q, m, section.relocs, sorted)
    BY <1>1, <2>1, RelocsSorted
  <2>3. \A k \in 1..m : q[k] \in 1..m /\ sorted[k] = section.relocs[q[k]]
    <3> DEFINE relocs == section.relocs
    <3>1. relocs \in Seq(FileRelocs) /\ Arranges(q, Len(relocs), relocs, sorted)
      BY <2>1, <2>2
    <3> HIDE DEF relocs, sorted
    <3>2. \A k \in 1..Len(relocs) : q[k] \in 1..Len(relocs) /\ sorted[k] = relocs[q[k]]
      BY <3>1, Rearranged
    <3> QED
      BY <3>2 DEF relocs
  <2>4. /\ object.sections[s].relocs = [i \in 1..m |-> Entry(sorted[i], records)]
        /\ object.sections[s].name = section.name /\ object.sections[s].kind = section.kind
        /\ object.sections[s].align = section.align /\ object.sections[s].size = section.size
    BY <1>5 DEF SectionRead, records
  <2> HIDE DEF sorted
  <2>5. ASSUME NEW i \in 1..m
        PROVE  RelocRead(b, section.relocs[q[i]], object, object.sections[s].relocs[i])
    <3> DEFINE reloc == section.relocs[q[i]]
               entry == object.sections[s].relocs[i]
               owner == Find(records, reloc.source, reloc.name)
    <3>1. entry = Entry(reloc, records)
      BY <2>3, <2>4
    <3>2. /\ entry.offset = reloc.offset /\ entry.type = reloc.type /\ entry.addend = 0
          /\ entry.symbol = owner
      BY <3>1 DEF Entry
    <3> HIDE DEF entry, reloc
    <3>3. ASSUME NEW j \in 1..Len(b.records), Owns(b.records[j], reloc.source, reloc.name)
          PROVE  /\ entry.symbol \in 1..Len(object.symbols)
                 /\ \E k \in 1..Len(b.records) :
                      /\ Owns(b.records[k], reloc.source, reloc.name)
                      /\ SymbolRead(b.records[k], object.symbols[entry.symbol])
      <4>1. PICK k \in 1..n : p[k] = j
        BY <1>3 DEF n
      <4>2. k \in 1..Len(records) /\ Owns(records[k], reloc.source, reloc.name)
        BY <1>1, <1>3, <3>3, <4>1
      <4>3. owner \in 1..n /\ Owns(records[owner], reloc.source, reloc.name)
        BY <1>1, <4>2, FindOwner
      <4>4. p[owner] \in 1..n /\ records[owner] = b.records[p[owner]]
        BY <1>3, <4>3
      <4>5. SymbolRead(records[owner], object.symbols[owner])
        BY <1>4, <4>3
      <4> HIDE DEF owner
      <4>6. /\ Owns(b.records[p[owner]], reloc.source, reloc.name)
            /\ SymbolRead(b.records[p[owner]], object.symbols[entry.symbol])
            /\ p[owner] \in 1..Len(b.records) /\ entry.symbol \in 1..Len(object.symbols)
        BY <1>4, <3>2, <4>3, <4>4, <4>5 DEF n
      <4> QED
        BY <4>6
    <3>4. RelocRead(b, reloc, object, entry)
      BY <3>2, <3>3 DEF RelocRead
    <3> QED
      BY <3>4 DEF reloc, entry
  <2>6. Len(object.sections[s].relocs) = m
    <3> DEFINE row(i) == Entry(sorted[i], records)
    <3>1. object.sections[s].relocs = [i \in 1..m |-> row(i)]
      BY <2>4
    <3> HIDE DEF row, m
    <3> QED
      BY <2>1, <3>1
  <2>7. RelocsMatch(b, object, s, q)
    BY <2>2, <2>5, <2>6 DEF RelocsMatch, Arranges
  <2> QED
    BY <2>4, <2>7 DEF SectionMatches
<1>8. ReadAs(b, object)
  BY <1>5, <1>6, <1>7 DEF ReadAs
<1> QED
  BY <1>8, WrittenReadable DEF object

-----------------------------------------------------------------------------
(* Types *)

Externs(d) == {item \in ToSet(d.body) : item.kind = "extern"}
ExternNames(d) == {item.name : item \in Externs(d)}
ItemNames == UNION {ExternNames(d) : d \in {e \in Declarations : e.kind = "function"}}

Names ==
  {d.name : d \in Declarations} \cup ItemNames
    \cup {Private(n) : n \in Nat} \cup {Literal(n) : n \in Nat} \cup ToSet(Services)

Storages == {d.storage : d \in Declarations} \cup {"static", "extern"}
Positive == Nat \ {0}

SymbolType ==
  [name : Names, function : BOOLEAN, storage : Storages, internal : BOOLEAN,
   initialized : BOOLEAN, initializer : [set : BOOLEAN, target : Nat],
   size : Positive, align : Positive]

RelocType == [offset : Nat, source : Nat, name : Names, type : {Pc32, Data64}]
SectionType ==
  [name : ToSet(SectionNames), kind : Kinds, align : Nat, size : Nat, relocs : Seq(RelocType)]
RecordType(n) ==
  [name : Names, value : Nat, section : 0..3, global : BOOLEAN, kind : Nat, size : Nat,
   source : 0..n]

\* A builder whose records are of the first n Symbols.
BuilderType(n) == [sections : [1..3 -> SectionType], records : Seq(RecordType(n))]

\* Functions from some of the names.
Partial(R) == UNION {[D -> R] : D \in SUBSET Names}

PlaceType == [section : 1..3, offset : Nat, size : Nat]

\* What is placed lies within its section, and apart.
PlacedIn(b, placed) ==
  /\ \A x \in DOMAIN placed :
       placed[x].offset + placed[x].size <= b.sections[placed[x].section].size
  /\ \A x, y \in DOMAIN placed :
       x # y /\ placed[x].section = placed[y].section =>
         \/ placed[x].offset + placed[x].size <= placed[y].offset
         \/ placed[y].offset + placed[y].size <= placed[x].offset

Works(n) ==
  {w \in [builder : BuilderType(n), placed : Partial(PlaceType)] : PlacedIn(w.builder, w.placed)}

\* b's sections are c's, but for what was added.
Grown(b, c) == \A s \in 1..3 : b.sections[s].size <= c.sections[s].size
SameSizes(b, c) == \A s \in 1..3 : b.sections[s].size = c.sections[s].size

\* n Symbols, each initialized with the address of one of them or of none.
Table(all, n) ==
  /\ all \in Seq(SymbolType) /\ Len(all) = n
  /\ \A i \in 1..n : all[i].initializer.target \in 0..n

-----------------------------------------------------------------------------
\* What it is to be a function from some of the names.
LEMMA PartialDef ==
  ASSUME NEW R
  PROVE  \A f : f \in Partial(R) <=>
           /\ f = [x \in DOMAIN f |-> f[x]]
           /\ DOMAIN f \subseteq Names
           /\ \A x \in DOMAIN f : f[x] \in R
<1> SUFFICES ASSUME NEW f
             PROVE f \in Partial(R) <=>
                     /\ f = [x \in DOMAIN f |-> f[x]]
                     /\ DOMAIN f \subseteq Names
                     /\ \A x \in DOMAIN f : f[x] \in R
  OBVIOUS
<1>1. ASSUME f \in Partial(R)
      PROVE  f = [x \in DOMAIN f |-> f[x]] /\ DOMAIN f \subseteq Names
             /\ \A x \in DOMAIN f : f[x] \in R
  <2>1. PICK D \in SUBSET Names : f \in [D -> R]
    BY <1>1 DEF Partial
  <2> QED
    BY <2>1
<1>2. ASSUME f = [x \in DOMAIN f |-> f[x]], DOMAIN f \subseteq Names,
             \A x \in DOMAIN f : f[x] \in R
      PROVE  f \in Partial(R)
  <2>1. f \in [DOMAIN f -> R]
    BY <1>2
  <2> QED
    BY <1>2, <2>1 DEF Partial
<1> QED
  BY <1>1, <1>2

\* The values may be in another set.
LEMMA PartialMore ==
  ASSUME NEW R, NEW T, NEW f \in Partial(R), \A x \in DOMAIN f : f[x] \in T
  PROVE  f \in Partial(T)
<1>1. f = [x \in DOMAIN f |-> f[x]] /\ DOMAIN f \subseteq Names
  BY PartialDef
<1> QED
  BY <1>1, PartialDef

\* Put gives one name its value and leaves the others theirs.
LEMMA PutPartial ==
  ASSUME NEW R, NEW f \in Partial(R), NEW x \in Names, NEW v \in R
  PROVE  /\ Put(f, x, v) \in Partial(R)
         /\ DOMAIN Put(f, x, v) = DOMAIN f \cup {x}
         /\ Put(f, x, v)[x] = v
         /\ \A y \in DOMAIN f : y # x => Put(f, x, v)[y] = f[y]
<1> DEFINE g == Put(f, x, v)
<1>1. DOMAIN f \subseteq Names /\ \A y \in DOMAIN f : f[y] \in R
  BY PartialDef
<1>2. g = [y \in DOMAIN f \cup {x} |-> IF y = x THEN v ELSE f[y]]
  BY DEF Put
<1>3. DOMAIN g = DOMAIN f \cup {x} /\ g[x] = v /\ \A y \in DOMAIN f : y # x => g[y] = f[y]
  BY <1>2
<1>4. g = [y \in DOMAIN g |-> g[y]]
  BY <1>2
<1> HIDE DEF g
<1>5. \A y \in DOMAIN g : g[y] \in R /\ y \in Names
  BY <1>1, <1>3
<1>6. g \in Partial(R)
  BY <1>4, <1>5, PartialDef
<1> QED
  BY <1>3, <1>6 DEF g

\* The sections and the records of a builder.
LEMMA SectionsTyped ==
  ASSUME NEW n, NEW b \in BuilderType(n)
  PROVE  /\ b.sections \in [1..3 -> SectionType] /\ b.records \in Seq(RecordType(n))
         /\ \A s \in 1..3 : b.sections[s] \in SectionType /\ b.sections[s].size \in Nat
<1>1. b.sections \in [1..3 -> SectionType] /\ b.records \in Seq(RecordType(n))
  BY DEF BuilderType
<1>2. ASSUME NEW s \in 1..3 PROVE b.sections[s] \in SectionType /\ b.sections[s].size \in Nat
  <2>1. b.sections[s] \in SectionType
    BY <1>1
  <2> QED
    BY <2>1 DEF SectionType
<1> QED
  BY <1>1, <1>2

\* A section of another size is still one.
LEMMA SectionResized ==
  ASSUME NEW s \in SectionType, NEW k \in Nat
  PROVE  [s EXCEPT !.size = k] \in SectionType /\ [s EXCEPT !.size = k].size = k
BY DEF SectionType

\* Placing a thing behind all that its section has.
LEMMA PlaceMore ==
  ASSUME NEW n, NEW m, NEW b \in BuilderType(n), NEW c \in BuilderType(m), Grown(b, c),
         NEW placed \in Partial(PlaceType), PlacedIn(b, placed),
         NEW x \in Names, NEW s \in 1..3, NEW offset \in Nat, NEW size \in Nat,
         b.sections[s].size <= offset, offset + size <= c.sections[s].size
  PROVE  LET more == Put(placed, x, At(s, offset, size))
         IN  more \in Partial(PlaceType) /\ PlacedIn(c, more)
<1> DEFINE new == At(s, offset, size)
           more == Put(placed, x, new)
<1>1. new \in PlaceType /\ new.section = s /\ new.offset = offset /\ new.size = size
  BY DEF At, PlaceType
<1> HIDE DEF new
<1>2. /\ more \in Partial(PlaceType) /\ DOMAIN more = DOMAIN placed \cup {x} /\ more[x] = new
      /\ \A y \in DOMAIN placed : y # x => more[y] = placed[y]
  BY <1>1, PutPartial
<1> HIDE DEF more
<1>3. \A t \in 1..3 : b.sections[t].size \in Nat /\ c.sections[t].size \in Nat
  BY SectionsTyped
<1>4. \A y \in DOMAIN placed :
        placed[y].section \in 1..3 /\ placed[y].offset \in Nat /\ placed[y].size \in Nat
  <2>1. \A y \in DOMAIN placed : placed[y] \in PlaceType
    BY PartialDef
  <2> QED
    BY <2>1 DEF PlaceType
<1>5. \A y \in DOMAIN placed :
        placed[y].offset + placed[y].size <= b.sections[placed[y].section].size
  BY DEF PlacedIn
<1>6. \A y \in DOMAIN placed :
        placed[y].offset + placed[y].size <= c.sections[placed[y].section].size
  BY <1>3, <1>4, <1>5 DEF Grown
<1>7. \A y \in DOMAIN placed :
        placed[y].section = s => placed[y].offset + placed[y].size <= offset
  BY <1>3, <1>4, <1>5
<1>8. \A y \in DOMAIN more :
        more[y].offset + more[y].size <= c.sections[more[y].section].size
  BY <1>1, <1>2, <1>6
<1>9. ASSUME NEW y \in DOMAIN more, NEW z \in DOMAIN more,
             y # z, more[y].section = more[z].section
      PROVE  \/ more[y].offset + more[y].size <= more[z].offset
             \/ more[z].offset + more[z].size <= more[y].offset
  <2>1. CASE y = x
    BY <1>1, <1>2, <1>7, <1>9, <2>1
  <2>2. CASE z = x
    BY <1>1, <1>2, <1>7, <1>9, <2>2
  <2>3. CASE y # x /\ z # x
    BY <1>2, <1>9, <2>3 DEF PlacedIn
  <2> QED
    BY <2>1, <2>2, <2>3
<1>10. PlacedIn(c, more)
  BY <1>8, <1>9 DEF PlacedIn
<1> QED
  BY <1>2, <1>10 DEF more, new

\* What is placed stays in place when sections grow.
LEMMA PlaceSame ==
  ASSUME NEW n, NEW m, NEW b \in BuilderType(n), NEW c \in BuilderType(m), Grown(b, c),
         NEW placed \in Partial(PlaceType), PlacedIn(b, placed)
  PROVE  PlacedIn(c, placed)
<1>1. \A t \in 1..3 : b.sections[t].size \in Nat /\ c.sections[t].size \in Nat
  BY SectionsTyped
<1>2. \A y \in DOMAIN placed :
        placed[y].section \in 1..3 /\ placed[y].offset \in Nat /\ placed[y].size \in Nat
  <2>1. \A y \in DOMAIN placed : placed[y] \in PlaceType
    BY PartialDef
  <2> QED
    BY <2>1 DEF PlaceType
<1>3. \A y \in DOMAIN placed :
        placed[y].offset + placed[y].size <= c.sections[placed[y].section].size
  BY <1>1, <1>2 DEF Grown, PlacedIn
<1> QED
  BY <1>3 DEF PlacedIn

-----------------------------------------------------------------------------
(* The builder *)

\* object_symbol_index makes a record at most.
LEMMA IndexedType ==
  ASSUME NEW n \in Nat, NEW b \in BuilderType(n), NEW all, Table(all, n), NEW symbol \in 1..n
  PROVE  Indexed(b, symbol, all) \in BuilderType(n) /\ SameSizes(b, Indexed(b, symbol, all))
<1>1. all[symbol] \in SymbolType
  BY DEF Table
<1>2. Blank(symbol, all) \in RecordType(n)
  BY <1>1 DEF Blank, SymbolType, RecordType, Function, Object
<1>3. Append(b.records, Blank(symbol, all)) \in Seq(RecordType(n))
  BY <1>2 DEF BuilderType
<1> HIDE DEF Blank
<1> QED
  BY <1>3 DEF Indexed, BuilderType, SameSizes

\* object_add_relocation changes no size.
LEMMA RelocatedType ==
  ASSUME NEW n \in Nat, NEW b \in BuilderType(n), NEW all, Table(all, n), NEW symbol \in 1..n,
         NEW s \in 1..3, NEW offset \in Nat, NEW type \in {Pc32, Data64}
  PROVE  /\ Relocated(b, s, offset, symbol, type, all) \in BuilderType(n)
         /\ SameSizes(b, Relocated(b, s, offset, symbol, type, all))
<1> DEFINE i == Indexed(b, symbol, all)
           reloc == [offset |-> offset, source |-> symbol, name |-> all[symbol].name, type |-> type]
           r == [i EXCEPT !.sections[s].relocs = <<reloc>> \o @]
<1>1. i \in BuilderType(n) /\ SameSizes(b, i)
  BY IndexedType
<1>2. reloc \in RelocType
  <2>1. all[symbol] \in SymbolType
    BY DEF Table
  <2>2. all[symbol].name \in Names
    BY <2>1 DEF SymbolType
  <2> QED
    BY <2>2 DEF RelocType
<1> HIDE DEF i, reloc
<1>3. i.sections \in [1..3 -> SectionType] /\ i.sections[s] \in SectionType
  BY <1>1 DEF BuilderType
<1>4. <<reloc>> \o i.sections[s].relocs \in Seq(RelocType)
  BY <1>2, <1>3 DEF SectionType
<1> DEFINE relocs == <<reloc>> \o i.sections[s].relocs
<1>5. r = [i EXCEPT !.sections = [i.sections EXCEPT ![s] = [i.sections[s] EXCEPT !.relocs = relocs]]]
  BY <1>1, <1>3 DEF BuilderType, SectionType
<1> HIDE DEF relocs, r
<1> DEFINE section == [i.sections[s] EXCEPT !.relocs = relocs]
<1>6. section \in SectionType /\ section.size = i.sections[s].size
  BY <1>3, <1>4 DEF SectionType, relocs
<1> HIDE DEF section
<1>7. r \in BuilderType(n) /\ SameSizes(i, r)
  BY <1>1, <1>3, <1>5, <1>6 DEF BuilderType, SameSizes, section
<1>8. r = Relocated(b, s, offset, symbol, type, all)
  BY DEF Relocated, r, i, reloc
<1> QED
  BY <1>1, <1>7, <1>8 DEF SameSizes

\* object_append_data
LEMMA AppendedType ==
  ASSUME NEW n \in Nat, NEW b \in BuilderType(n), NEW s \in 1..3, NEW size \in Nat
  PROVE  Appended(b, s, size) \in BuilderType(n)
<1> DEFINE section == [b.sections[s] EXCEPT !.size = b.sections[s].size + size]
<1>1. b.sections \in [1..3 -> SectionType] /\ b.sections[s] \in SectionType
  BY DEF BuilderType
<1>2. section \in SectionType
  <2>1. b.sections[s].size + size \in Nat
    BY SectionsTyped
  <2> QED
    BY <1>1, <2>1, SectionResized
<1>3. Appended(b, s, size) = [b EXCEPT !.sections = [b.sections EXCEPT ![s] = section]]
  BY <1>1 DEF Appended, BuilderType, SectionType
<1> HIDE DEF section
<1> QED
  BY <1>1, <1>2, <1>3 DEF BuilderType

\* It makes the one section larger by what it is given.
LEMMA AppendedSize ==
  ASSUME NEW n \in Nat, NEW b \in BuilderType(n), NEW s \in 1..3, NEW size \in Nat
  PROVE  \A t \in 1..3 : Appended(b, s, size).sections[t].size =
           IF t = s THEN b.sections[t].size + size ELSE b.sections[t].size
<1>1. b.sections \in [1..3 -> SectionType] /\ b.sections[s] \in SectionType
  BY DEF BuilderType
<1>2. Appended(b, s, size) = [b EXCEPT !.sections = [b.sections EXCEPT ![s] =
                               [b.sections[s] EXCEPT !.size = b.sections[s].size + size]]]
  BY <1>1 DEF Appended, BuilderType, SectionType
<1> QED
  BY <1>1, <1>2 DEF BuilderType, SectionType

\* A change of one record, if it is there, to another of the same kind.
LEMMA RecordChanged ==
  ASSUME NEW n \in Nat, NEW b \in BuilderType(n), NEW i, NEW r,
         i \in 1..Len(b.records) => r \in RecordType(n)
  PROVE  /\ [b EXCEPT !.records = [b.records EXCEPT ![i] = r]] \in BuilderType(n)
         /\ SameSizes(b, [b EXCEPT !.records = [b.records EXCEPT ![i] = r]])
<1>1. b.records \in Seq(RecordType(n))
  BY DEF BuilderType
<1>2. [b.records EXCEPT ![i] = r] \in Seq(RecordType(n))
  <2>1. CASE i \in 1..Len(b.records)
    BY <1>1, <2>1
  <2>2. CASE i \notin 1..Len(b.records)
    <3>1. [b.records EXCEPT ![i] = r] = b.records
      BY <1>1, <2>2
    <3> QED
      BY <1>1, <3>1
  <2> QED
    BY <2>1, <2>2
<1> QED
  BY <1>2 DEF BuilderType, SameSizes

\* Giving the first record of a name its value changes no size.
LEMMA ValuedType ==
  ASSUME NEW n \in Nat, NEW b \in BuilderType(n), NEW name, NEW value \in Nat, NEW size \in Nat
  PROVE  Valued(b, name, value, size) \in BuilderType(n) /\ SameSizes(b, Valued(b, name, value, size))
<1> DEFINE i == FirstNamed(b.records, name)
           r == [b.records[i] EXCEPT !.value = value]
           c == [b EXCEPT !.records = [b.records EXCEPT ![i] = r]]
           q == [c.records[i] EXCEPT !.size = size]
<1>1. b.records \in Seq(RecordType(n))
  BY DEF BuilderType
<1>2. i \in 1..Len(b.records) => r \in RecordType(n)
  <2> HIDE DEF i
  <2>1. i \in 1..Len(b.records) => b.records[i] \in RecordType(n)
    BY <1>1
  <2> QED
    BY <2>1 DEF RecordType
<1>3. c \in BuilderType(n) /\ SameSizes(b, c)
  <2> HIDE DEF i, r
  <2> QED
    BY <1>2, RecordChanged
<1>4. i \in 1..Len(c.records) => q \in RecordType(n)
  <2> HIDE DEF i, c
  <2>1. i \in 1..Len(c.records) => c.records[i] \in RecordType(n)
    BY <1>3 DEF BuilderType
  <2> QED
    BY <2>1 DEF RecordType
<1>5. LET d == [c EXCEPT !.records = [c.records EXCEPT ![i] = q]]
      IN  d \in BuilderType(n) /\ SameSizes(c, d)
  <2> HIDE DEF i, c, q
  <2> QED
    BY <1>3, <1>4, RecordChanged
<1>6. Valued(b, name, value, size) = [c EXCEPT !.records = [c.records EXCEPT ![i] = q]]
  <2> HIDE DEF i
  <2> QED
    BY DEF Valued, BuilderType, i
<1> QED
  BY <1>3, <1>5, <1>6 DEF SameSizes

\* A section is given another size.
LEMMA SectionSet ==
  ASSUME NEW n \in Nat, NEW b \in BuilderType(n), NEW s \in 1..3, NEW k \in Nat
  PROVE  LET c == [b EXCEPT !.sections = [b.sections EXCEPT ![s] = [b.sections[s] EXCEPT !.size = k]]]
         IN  /\ c \in BuilderType(n)
             /\ \A t \in 1..3 : c.sections[t].size = IF t = s THEN k ELSE b.sections[t].size
<1> DEFINE section == [b.sections[s] EXCEPT !.size = k]
<1>1. b.sections \in [1..3 -> SectionType] /\ b.sections[s] \in SectionType
  BY DEF BuilderType
<1>2. section \in SectionType /\ section.size = k
  BY <1>1, SectionResized
<1> HIDE DEF section
<1>3. LET c == [b EXCEPT !.sections = [b.sections EXCEPT ![s] = section]]
      IN  /\ c \in BuilderType(n)
          /\ \A t \in 1..3 : c.sections[t].size = IF t = s THEN k ELSE b.sections[t].size
  BY <1>1, <1>2 DEF BuilderType
<1> QED
  BY <1>3 DEF section

\* A function that begins changes no size.
LEMMA BegunType ==
  ASSUME NEW n \in Nat, NEW b \in BuilderType(n), NEW all, Table(all, n), NEW symbol \in 1..n
  PROVE  Begun(b, symbol, all) \in BuilderType(n) /\ SameSizes(b, Begun(b, symbol, all))
<1> DEFINE c == Indexed(b, symbol, all)
           i == Index(c, symbol, all)
           global == ~all[symbol].internal
           r == [c.records[i] EXCEPT !.section = TextSection, !.kind = Function,
                                     !.global = global]
<1>1. c \in BuilderType(n) /\ SameSizes(b, c)
  BY IndexedType
<1>5. global \in BOOLEAN /\ TextSection \in 0..3 /\ Function \in Nat
  BY DEF TextSection, Function
<1> HIDE DEF c, i, global
<1>2. i \in 1..Len(c.records) => r \in RecordType(n)
  <2>1. i \in 1..Len(c.records) => c.records[i] \in RecordType(n)
    BY <1>1 DEF BuilderType
  <2> QED
    BY <1>5, <2>1 DEF RecordType
<1> HIDE DEF r
<1>3. LET d == [c EXCEPT !.records = [c.records EXCEPT ![i] = r]]
      IN  d \in BuilderType(n) /\ SameSizes(c, d)
  BY <1>1, <1>2, RecordChanged
<1>4. Begun(b, symbol, all) = [c EXCEPT !.records = [c.records EXCEPT ![i] = r]]
  BY <1>1 DEF Begun, BuilderType, c, i, r, global
<1> QED
  BY <1>1, <1>3, <1>4 DEF SameSizes

\* Rounding up never makes less.
LEMMA AlignToBounds ==
  ASSUME NEW n \in Nat, NEW align \in Positive
  PROVE  AlignTo(n, align) \in Nat /\ n <= AlignTo(n, align)
<1> DEFINE m == n + align - 1
           q == m \div align
<1>1. m \in Nat /\ align \in Nat /\ align > 0
  BY DEF Positive
<1> HIDE DEF m
<1>2. q \in Nat /\ m % align \in 0..(align - 1) /\ m = align * q + (m % align)
  BY <1>1
<1> HIDE DEF q
<1>3. align * q \in Nat /\ align * q >= m - (align - 1) /\ q * align = align * q
  BY <1>1, <1>2
<1> QED
  BY <1>1, <1>3 DEF AlignTo, m, q

-----------------------------------------------------------------------------
(* What the end of a unit works on *)

\* A Work is a builder and what is placed in it.
LEMMA WorksDef ==
  ASSUME NEW n
  PROVE  /\ \A w \in Works(n) :
              /\ w = [builder |-> w.builder, placed |-> w.placed]
              /\ w.builder \in BuilderType(n) /\ w.placed \in Partial(PlaceType)
              /\ PlacedIn(w.builder, w.placed)
         /\ \A b \in BuilderType(n), placed \in Partial(PlaceType) :
              PlacedIn(b, placed) => [builder |-> b, placed |-> placed] \in Works(n)
<1>1. \A w \in Works(n) :
        /\ w = [builder |-> w.builder, placed |-> w.placed]
        /\ w.builder \in BuilderType(n) /\ w.placed \in Partial(PlaceType)
        /\ PlacedIn(w.builder, w.placed)
  BY DEF Works
<1>2. ASSUME NEW b \in BuilderType(n), NEW placed \in Partial(PlaceType), PlacedIn(b, placed)
      PROVE  [builder |-> b, placed |-> placed] \in Works(n)
  BY <1>2 DEF Works
<1> QED
  BY <1>1, <1>2

\* Sections of the same sizes have not shrunk.
LEMMA GrownSame ==
  ASSUME NEW n, NEW m, NEW b \in BuilderType(n), NEW c \in BuilderType(m), SameSizes(b, c)
  PROVE  Grown(b, c)
BY SectionsTyped DEF SameSizes, Grown

\* A builder with no section smaller holds the same places.
LEMMA WorkSame ==
  ASSUME NEW n, NEW w \in Works(n), NEW b \in BuilderType(n), Grown(w.builder, b)
  PROVE  [w EXCEPT !.builder = b] \in Works(n)
<1>1. /\ w = [builder |-> w.builder, placed |-> w.placed]
      /\ w.builder \in BuilderType(n) /\ w.placed \in Partial(PlaceType)
      /\ PlacedIn(w.builder, w.placed)
  BY WorksDef
<1>2. PlacedIn(b, w.placed)
  BY <1>1, PlaceSame
<1>3. [w EXCEPT !.builder = b] = [builder |-> b, placed |-> w.placed]
  BY <1>1
<1> QED
  BY <1>1, <1>2, <1>3, WorksDef

\* prepare_global_symbol puts an object behind what is in .bss.
LEMMA PrepareIn ==
  ASSUME NEW n \in Nat, Table(symbols, n), NEW work \in Works(n), NEW symbol \in 1..n
  PROVE  Prepare(work, symbol) \in Works(n)
<1> DEFINE s == symbols[symbol]
           b == Indexed(work.builder, symbol, symbols)
           i == Index(b, symbol, symbols)
           section == IF s.initializer.set THEN DataSection ELSE BssSection
           global == ~s.internal
           r == [b.records[i] EXCEPT !.section = section, !.kind = Object,
                                     !.global = global, !.size = s.size]
           marked == [b EXCEPT !.records = [b.records EXCEPT ![i] = r]]
           offset == AlignTo(b.sections[BssSection].size, s.align)
           q == [marked.records[i] EXCEPT !.value = offset]
           valued == [marked EXCEPT !.records = [marked.records EXCEPT ![i] = q]]
           done == [valued EXCEPT !.sections = [valued.sections EXCEPT ![BssSection] =
                     [valued.sections[BssSection] EXCEPT !.size = offset + s.size]]]
<1>1. s \in SymbolType
  BY DEF Table
<1>2. /\ s.name \in Names /\ s.internal \in BOOLEAN /\ s.size \in Positive
      /\ s.align \in Positive /\ s.size \in Nat
  BY <1>1 DEF SymbolType, Positive
<1>3. work.builder \in BuilderType(n) /\ work.placed \in Partial(PlaceType)
      /\ PlacedIn(work.builder, work.placed)
      /\ work = [builder |-> work.builder, placed |-> work.placed]
  BY WorksDef
<1> HIDE DEF s
<1>4. b \in BuilderType(n) /\ SameSizes(work.builder, b)
  BY <1>3, IndexedType
<1>17. section \in 0..3 /\ global \in BOOLEAN
  BY DEF DataSection, BssSection
<1> HIDE DEF b, i, section, global
<1>5. i \in 1..Len(b.records) => r \in RecordType(n)
  <2>1. i \in 1..Len(b.records) => b.records[i] \in RecordType(n)
    BY <1>4 DEF BuilderType
  <2> QED
    BY <1>2, <1>17, <2>1 DEF RecordType, Object
<1> HIDE DEF r
<1>6. marked \in BuilderType(n) /\ SameSizes(b, marked)
  BY <1>4, <1>5, RecordChanged
<1> HIDE DEF marked
<1>7. offset \in Nat /\ b.sections[BssSection].size \in Nat /\ b.sections[BssSection].size <= offset
  <2>1. b.sections[BssSection].size \in Nat
    BY <1>4, SectionsTyped DEF BssSection
  <2> QED
    BY <1>2, <2>1, AlignToBounds
<1> HIDE DEF offset
<1>8. i \in 1..Len(marked.records) => q \in RecordType(n)
  <2>1. i \in 1..Len(marked.records) => marked.records[i] \in RecordType(n)
    BY <1>6 DEF BuilderType
  <2> QED
    BY <1>7, <2>1 DEF RecordType
<1> HIDE DEF q
<1>9. valued \in BuilderType(n) /\ SameSizes(marked, valued)
  BY <1>6, <1>8, RecordChanged
<1> HIDE DEF valued
<1>10. /\ done \in BuilderType(n)
       /\ \A t \in 1..3 : done.sections[t].size =
            IF t = BssSection THEN offset + s.size ELSE valued.sections[t].size
  <2>1. offset + s.size \in Nat /\ BssSection \in 1..3
    BY <1>2, <1>7 DEF BssSection
  <2> QED
    BY <1>9, <2>1, SectionSet
<1> HIDE DEF done
<1>11. SameSizes(work.builder, marked) /\ Grown(work.builder, b) /\ Grown(work.builder, marked)
  BY <1>3, <1>4, <1>6, GrownSame DEF SameSizes
<1>12. [work EXCEPT !.builder = b] \in Works(n) /\ [work EXCEPT !.builder = marked] \in Works(n)
  BY <1>4, <1>6, <1>11, WorkSame
<1>13. /\ Grown(work.builder, done) /\ work.builder.sections[BssSection].size <= offset
       /\ offset + s.size <= done.sections[BssSection].size
  <2>1. \A t \in 1..3 : work.builder.sections[t].size \in Nat
    BY <1>3, SectionsTyped
  <2>2. \A t \in 1..3 : valued.sections[t].size = work.builder.sections[t].size
    BY <1>4, <1>6, <1>9 DEF SameSizes
  <2>3. BssSection \in 1..3
    BY DEF BssSection
  <2>4. work.builder.sections[BssSection].size = b.sections[BssSection].size
    BY <1>4, <2>3 DEF SameSizes
  <2>5. \A t \in 1..3 : work.builder.sections[t].size <= done.sections[t].size
    BY <1>2, <1>7, <1>10, <2>1, <2>2, <2>4
  <2> QED
    BY <1>2, <1>7, <1>10, <2>3, <2>4, <2>5 DEF Grown
<1>14. LET more == Put(work.placed, s.name, At(BssSection, offset, s.size))
       IN  more \in Partial(PlaceType) /\ PlacedIn(done, more)
  <2>1. BssSection \in 1..3
    BY DEF BssSection
  <2> QED
    BY <1>2, <1>3, <1>7, <1>10, <1>13, <2>1, PlaceMore
<1>15. [builder |-> done,
        placed |-> Put(work.placed, s.name, At(BssSection, offset, s.size))] \in Works(n)
  BY <1>10, <1>14, WorksDef
<1>16. Prepare(work, symbol) =
         IF Announced(symbol) THEN [work EXCEPT !.builder = b]
         ELSE IF s.initializer.set THEN [work EXCEPT !.builder = marked]
         ELSE [builder |-> done,
               placed |-> Put(work.placed, s.name, At(BssSection, offset, s.size))]
  BY <1>4, <1>6, <1>9 DEF Prepare, BuilderType, s, b, i, r, section, global, marked, offset, q, valued, done
<1> QED
  BY <1>12, <1>15, <1>16

\* append_global_data puts an object behind what is in .data.
LEMMA EmitIn ==
  ASSUME NEW n \in Nat, Table(symbols, n), NEW work \in Works(n), NEW symbol \in 1..n
  PROVE  Emit(work, symbol) \in Works(n)
<1> DEFINE s == symbols[symbol]
           old == work.builder.sections[DataSection].size
           offset == AlignTo(old, DataAlign(symbol))
           gap == offset - old
           size == s.size
           target == s.initializer.target
           padded == Appended(work.builder, DataSection, gap)
           referred == IF target = 0 THEN padded
                       ELSE Relocated(padded, DataSection, offset, target, Data64, symbols)
           filled == Appended(referred, DataSection, size)
           done == Valued(filled, s.name, offset, size)
           more == Put(work.placed, s.name, At(DataSection, offset, size))
<1>1. /\ s.name \in Names /\ size \in Nat /\ target \in 0..n /\ DataAlign(symbol) \in Positive
  <2>1. s \in SymbolType /\ target \in 0..n
    BY DEF Table
  <2>2. s.name \in Names /\ s.size \in Positive /\ s.align \in Positive
    BY <2>1 DEF SymbolType
  <2> HIDE DEF target
  <2> QED
    BY <2>1, <2>2 DEF DataAlign, Positive
<1>2. work.builder \in BuilderType(n) /\ work.placed \in Partial(PlaceType)
      /\ PlacedIn(work.builder, work.placed)
  BY WorksDef
<1>3. DataSection \in 1..3
  BY DEF DataSection
<1>4. \A t \in 1..3 : work.builder.sections[t].size \in Nat
  BY <1>2, SectionsTyped
<1>5. old \in Nat /\ offset \in Nat /\ old <= offset /\ gap \in Nat
      /\ old + gap = offset
  <2>1. old \in Nat
    BY <1>3, <1>4
  <2> HIDE DEF old
  <2>2. offset \in Nat /\ old <= offset
    BY <1>1, <2>1, AlignToBounds
  <2> HIDE DEF offset
  <2> QED
    BY <2>1, <2>2
<1>6. /\ padded \in BuilderType(n)
      /\ \A t \in 1..3 : padded.sections[t].size =
           IF t = DataSection THEN work.builder.sections[t].size + gap
           ELSE work.builder.sections[t].size
  <2> DEFINE b == work.builder
  <2>1. gap \in Nat /\ b \in BuilderType(n)
    BY <1>2, <1>5
  <2>2. padded = Appended(b, DataSection, gap)
    OBVIOUS
  <2> HIDE DEF gap, b, padded, s, old, offset, size, target, referred, filled, done, more
  <2>3. Appended(b, DataSection, gap) \in BuilderType(n)
    BY <1>3, <2>1, AppendedType
  <2>4. \A t \in 1..3 : Appended(b, DataSection, gap).sections[t].size =
          IF t = DataSection THEN b.sections[t].size + gap ELSE b.sections[t].size
    BY <1>3, <2>1, AppendedSize
  <2> QED
    BY <2>2, <2>3, <2>4 DEF b
<1>7. work.builder.sections[DataSection].size = old
  OBVIOUS
<1> HIDE DEF padded, gap, size, offset, old, target, s
<1>8. referred \in BuilderType(n) /\ SameSizes(padded, referred)
  <2>1. CASE target = 0
    BY <1>6, <2>1 DEF SameSizes
  <2>2. CASE target # 0
    <3>1. target \in 1..n
      BY <1>1, <2>2
    <3> QED
      BY <1>3, <1>5, <1>6, <2>2, <3>1, RelocatedType
  <2> QED
    BY <2>1, <2>2
<1> HIDE DEF referred
<1>9. /\ filled \in BuilderType(n)
      /\ \A t \in 1..3 : filled.sections[t].size =
           IF t = DataSection THEN referred.sections[t].size + size ELSE referred.sections[t].size
  BY <1>1, <1>3, <1>8, AppendedType, AppendedSize
<1> HIDE DEF filled
<1>10. done \in BuilderType(n) /\ SameSizes(filled, done)
  BY <1>1, <1>5, <1>9, ValuedType
<1> HIDE DEF done
<1>11. Grown(work.builder, done)
  BY <1>1, <1>4, <1>5, <1>6, <1>8, <1>9, <1>10 DEF SameSizes, Grown
<1>12. offset + size <= done.sections[DataSection].size
  <2>1. done.sections[DataSection].size = old + gap + size
    BY <1>3, <1>6, <1>7, <1>8, <1>9, <1>10 DEF SameSizes
  <2> QED
    BY <1>1, <1>5, <2>1
<1>13. more \in Partial(PlaceType) /\ PlacedIn(done, more)
  BY <1>1, <1>2, <1>3, <1>5, <1>7, <1>10, <1>11, <1>12, PlaceMore
<1>14. [builder |-> done, placed |-> more] \in Works(n)
  BY <1>10, <1>13, WorksDef
<1>15. Emit(work, symbol) = IF ~s.initializer.set THEN work ELSE [builder |-> done, placed |-> more]
  BY DEF Emit, s, old, offset, gap, size, target, padded, referred, filled, done
<1> QED
  BY <1>14, <1>15

\* append_runtime_functions puts a service behind what is in .text.
LEMMA ProvideIn ==
  ASSUME NEW n \in Nat, Table(symbols, n), main \in 0..n,
         NEW work \in Works(n), NEW service \in Names
  PROVE  Provide(work, service) \in Works(n)
<1> DEFINE startUp == service = StartUp /\ main # 0
           blank == [name |-> service, value |-> 0, section |-> 0, global |-> TRUE,
                     kind |-> Function, size |-> 0, source |-> 0]
           made == IF FirstNamed(work.builder.records, service) = 0 /\ startUp
                   THEN [work.builder EXCEPT !.records = Append(@, blank)]
                   ELSE work.builder
           i == FirstNamed(made.records, service)
           offset == made.sections[TextSection].size
           code == IF startUp THEN Relocated(made, TextSection, offset, main, Pc32, symbols)
                   ELSE made
           size == IF startUp THEN ReferenceSize ELSE ServiceSize
           filled == Appended(code, TextSection, size)
           r == [filled.records[i] EXCEPT !.section = TextSection, !.value = offset, !.size = size]
           done == [filled EXCEPT !.records = [filled.records EXCEPT ![i] = r]]
           more == Put(work.placed, service, At(TextSection, offset, size))
<1>1. work.builder \in BuilderType(n) /\ work.placed \in Partial(PlaceType)
      /\ PlacedIn(work.builder, work.placed)
  BY WorksDef
<1>2. TextSection \in 1..3 /\ TextSection \in 0..3 /\ size \in Nat
  BY UnitAssumption DEF TextSection, ReferenceSize
<1>3. made \in BuilderType(n) /\ SameSizes(work.builder, made)
  <2>1. blank \in RecordType(n)
    BY DEF RecordType, Function
  <2> HIDE DEF blank
  <2>2. Append(work.builder.records, blank) \in Seq(RecordType(n))
    BY <1>1, <2>1 DEF BuilderType
  <2> HIDE DEF startUp
  <2> QED
    BY <1>1, <2>2 DEF BuilderType, SameSizes
<1> HIDE DEF made, i, size
<1>4. offset \in Nat
  BY <1>2, <1>3, SectionsTyped
<1>5. offset = work.builder.sections[TextSection].size
  BY <1>2, <1>3 DEF SameSizes
<1> HIDE DEF offset
<1>6. code \in BuilderType(n) /\ SameSizes(made, code)
  <2>1. CASE startUp
    <3>1. main \in 1..n
      BY <2>1
    <3>2. code = Relocated(made, TextSection, offset, main, Pc32, symbols)
      BY <2>1
    <3> HIDE DEF code
    <3> QED
      BY <1>2, <1>3, <1>4, <3>1, <3>2, RelocatedType
  <2>2. CASE ~startUp
    BY <1>3, <2>2 DEF SameSizes
  <2> QED
    BY <2>1, <2>2
<1> HIDE DEF code
<1>7. /\ filled \in BuilderType(n)
      /\ \A t \in 1..3 : filled.sections[t].size =
           IF t = TextSection THEN code.sections[t].size + size ELSE code.sections[t].size
  BY <1>2, <1>6, AppendedType, AppendedSize
<1> HIDE DEF filled
<1>8. i \in 1..Len(filled.records) => r \in RecordType(n)
  <2>1. i \in 1..Len(filled.records) => filled.records[i] \in RecordType(n)
    BY <1>7 DEF BuilderType
  <2> QED
    BY <1>2, <1>4, <2>1 DEF RecordType
<1> HIDE DEF r
<1>9. done \in BuilderType(n) /\ SameSizes(filled, done)
  BY <1>7, <1>8, RecordChanged
<1> HIDE DEF done
<1>10. \A t \in 1..3 : work.builder.sections[t].size \in Nat
  BY <1>1, SectionsTyped
<1>11. Grown(work.builder, done)
  BY <1>2, <1>3, <1>6, <1>7, <1>9, <1>10 DEF SameSizes, Grown
<1>12. offset + size <= done.sections[TextSection].size
  <2>1. done.sections[TextSection].size = offset + size
    BY <1>2, <1>3, <1>5, <1>6, <1>7, <1>9 DEF SameSizes
  <2> QED
    BY <1>2, <1>4, <2>1
<1>13. more \in Partial(PlaceType) /\ PlacedIn(done, more)
  BY <1>1, <1>2, <1>4, <1>5, <1>9, <1>11, <1>12, PlaceMore
<1>14. [builder |-> done, placed |-> more] \in Works(n)
  BY <1>9, <1>13, WorksDef
<1>15. Provide(work, service) \in {work, [builder |-> done, placed |-> more]}
  BY <1>7 DEF Provide, BuilderType, made, i, offset, code, size, filled, r, done
<1> QED
  BY <1>14, <1>15

-----------------------------------------------------------------------------
(* The folds: what every step keeps the whole keeps *)

\* Prepare, one global symbol after the other: the stages of the fold, and what every
\* step keeps.
LEMMA PreparedStages ==
  ASSUME NEW V, globals \in Seq(Nat), Work \in V,
         \A v \in V, i \in 1..Len(globals) : Prepare(v, globals[i]) \in V
  PROVE  \E h \in [0..Len(globals) -> V] :
           /\ h[0] = Work /\ Prepared = h[Len(globals)]
           /\ \A k \in 1..Len(globals) : h[k] = Prepare(h[k - 1], globals[k])
<1> DEFINE n == Len(globals)
           All == SUBSET (1..n)
           Rule(f, s) == IF s = {} THEN Work ELSE Prepare(f[s \ {Max(s)}], globals[Max(s)])
           F == [p \in V \X (1..n) |-> Prepare(p[1], globals[p[2]])]
           g == CHOOSE f : f = [s \in All |-> Rule(f, s)]
           h == [k \in 0..n |-> g[1..k]]
<1>1. n \in Nat /\ DOMAIN globals = 1..n
  OBVIOUS
<1>2. Prepared = g[1..n]
  BY <1>1 DEF Prepared, FoldLeft, MapThenFoldSet
<1>3. F \in [V \X (1..n) -> V]
  OBVIOUS
<1>4. \A v \in V, i \in 1..n : F[<<v, i>>] = Prepare(v, globals[i])
  OBVIOUS
<1> HIDE DEF n, F
<1>5. PICK f \in [All -> V] : \A s \in All : f[s] = FoldRule(f, s, Work, F)
  <2>1. FoldExists(n, V, Work, F)
    BY <1>1, <1>3, Folding
  <2> QED
    BY <2>1 DEF FoldExists
<1>6. \A s \in All : s # {} => Max(s) \in 1..n /\ s \ {Max(s)} \in All
  BY <1>1, Greatest
<1>7. \A s \in All : f[s] = Rule(f, s)
  BY <1>4, <1>5, <1>6 DEF FoldRule
<1>8. f = [s \in All |-> Rule(f, s)]
  BY <1>7
<1>9. g = [s \in All |-> Rule(g, s)]
  BY <1>8
<1> HIDE DEF g
<1>10. \A s \in All : g[s] = Rule(g, s)
  BY <1>9
<1>11. h[0] = Work
  <2>1. 1..0 = {} /\ {} \in All /\ 0 \in 0..n
    BY <1>1
  <2> QED
    BY <1>10, <2>1
<1>12. ASSUME NEW k \in 1..n PROVE h[k] = Prepare(h[k - 1], globals[k])
  <2>1. /\ Max(1..k) = k /\ (1..k) \ {k} = 1..(k - 1)
        /\ 1..k \in All /\ 1..k # {} /\ k - 1 \in 0..n
    BY <1>1, Initial
  <2>2. g[1..k] = Rule(g, 1..k)
    BY <1>10, <2>1
  <2>3. h[k] = g[1..k] /\ h[k - 1] = g[1..(k - 1)]
    BY <2>1
  <2> QED
    BY <2>1, <2>2, <2>3
<1>13. h[n] = g[1..n]
  BY <1>1
<1>14. h = [k \in 0..n |-> h[k]]
  OBVIOUS
<1> HIDE DEF h
<1>15. \A k \in 0..n : h[k] \in V
  <2>1. \A k \in 1..n : h[k - 1] \in V => h[k] \in V
    BY <1>12 DEF n
  <2> QED
    BY <1>1, <1>11, <2>1, StagesIn
<1>16. h \in [0..n -> V]
  BY <1>14, <1>15
<1> QED
  BY <1>1, <1>2, <1>11, <1>12, <1>13, <1>16 DEF n

LEMMA PreparedIn ==
  ASSUME NEW V, globals \in Seq(Nat), Work \in V,
         \A v \in V, i \in 1..Len(globals) : Prepare(v, globals[i]) \in V
  PROVE  Prepared \in V
<1>1. Len(globals) \in 0..Len(globals)
  OBVIOUS
<1> QED
  BY <1>1, PreparedStages

\* Emit.
LEMMA EmittedStages ==
  ASSUME NEW V, globals \in Seq(Nat), NEW work \in V,
         \A v \in V, i \in 1..Len(globals) : Emit(v, globals[i]) \in V
  PROVE  \E h \in [0..Len(globals) -> V] :
           /\ h[0] = work /\ Emitted(work) = h[Len(globals)]
           /\ \A k \in 1..Len(globals) : h[k] = Emit(h[k - 1], globals[k])
<1> DEFINE n == Len(globals)
           All == SUBSET (1..n)
           Rule(f, s) == IF s = {} THEN work ELSE Emit(f[s \ {Max(s)}], globals[Max(s)])
           F == [p \in V \X (1..n) |-> Emit(p[1], globals[p[2]])]
           g == CHOOSE f : f = [s \in All |-> Rule(f, s)]
           h == [k \in 0..n |-> g[1..k]]
<1>1. n \in Nat /\ DOMAIN globals = 1..n
  OBVIOUS
<1>2. Emitted(work) = g[1..n]
  BY <1>1 DEF Emitted, FoldLeft, MapThenFoldSet
<1>3. F \in [V \X (1..n) -> V]
  OBVIOUS
<1>4. \A v \in V, i \in 1..n : F[<<v, i>>] = Emit(v, globals[i])
  OBVIOUS
<1> HIDE DEF n, F
<1>5. PICK f \in [All -> V] : \A s \in All : f[s] = FoldRule(f, s, work, F)
  <2>1. FoldExists(n, V, work, F)
    BY <1>1, <1>3, Folding
  <2> QED
    BY <2>1 DEF FoldExists
<1>6. \A s \in All : s # {} => Max(s) \in 1..n /\ s \ {Max(s)} \in All
  BY <1>1, Greatest
<1>7. \A s \in All : f[s] = Rule(f, s)
  BY <1>4, <1>5, <1>6 DEF FoldRule
<1>8. f = [s \in All |-> Rule(f, s)]
  BY <1>7
<1>9. g = [s \in All |-> Rule(g, s)]
  BY <1>8
<1> HIDE DEF g
<1>10. \A s \in All : g[s] = Rule(g, s)
  BY <1>9
<1>11. h[0] = work
  <2>1. 1..0 = {} /\ {} \in All /\ 0 \in 0..n
    BY <1>1
  <2> QED
    BY <1>10, <2>1
<1>12. ASSUME NEW k \in 1..n PROVE h[k] = Emit(h[k - 1], globals[k])
  <2>1. /\ Max(1..k) = k /\ (1..k) \ {k} = 1..(k - 1)
        /\ 1..k \in All /\ 1..k # {} /\ k - 1 \in 0..n
    BY <1>1, Initial
  <2>2. g[1..k] = Rule(g, 1..k)
    BY <1>10, <2>1
  <2>3. h[k] = g[1..k] /\ h[k - 1] = g[1..(k - 1)]
    BY <2>1
  <2> QED
    BY <2>1, <2>2, <2>3
<1>13. h[n] = g[1..n]
  BY <1>1
<1>14. h = [k \in 0..n |-> h[k]]
  OBVIOUS
<1> HIDE DEF h
<1>15. \A k \in 0..n : h[k] \in V
  <2>1. \A k \in 1..n : h[k - 1] \in V => h[k] \in V
    BY <1>12 DEF n
  <2> QED
    BY <1>1, <1>11, <2>1, StagesIn
<1>16. h \in [0..n -> V]
  BY <1>14, <1>15
<1> QED
  BY <1>1, <1>2, <1>11, <1>12, <1>13, <1>16 DEF n

LEMMA EmittedIn ==
  ASSUME NEW V, globals \in Seq(Nat), NEW work \in V,
         \A v \in V, i \in 1..Len(globals) : Emit(v, globals[i]) \in V
  PROVE  Emitted(work) \in V
<1>1. Len(globals) \in 0..Len(globals)
  OBVIOUS
<1> QED
  BY <1>1, EmittedStages

\* Provide.
LEMMA ProvidedStages ==
  ASSUME NEW V, Services \in Seq(ToSet(Services)), NEW work \in V,
         \A v \in V, i \in 1..Len(Services) : Provide(v, Services[i]) \in V
  PROVE  \E h \in [0..Len(Services) -> V] :
           /\ h[0] = work /\ Provided(work) = h[Len(Services)]
           /\ \A k \in 1..Len(Services) : h[k] = Provide(h[k - 1], Services[k])
<1> DEFINE n == Len(Services)
           All == SUBSET (1..n)
           Rule(f, s) == IF s = {} THEN work ELSE Provide(f[s \ {Max(s)}], Services[Max(s)])
           F == [p \in V \X (1..n) |-> Provide(p[1], Services[p[2]])]
           g == CHOOSE f : f = [s \in All |-> Rule(f, s)]
           h == [k \in 0..n |-> g[1..k]]
<1>1. n \in Nat /\ DOMAIN Services = 1..n
  OBVIOUS
<1>2. Provided(work) = g[1..n]
  BY <1>1 DEF Provided, FoldLeft, MapThenFoldSet
<1>3. F \in [V \X (1..n) -> V]
  OBVIOUS
<1>4. \A v \in V, i \in 1..n : F[<<v, i>>] = Provide(v, Services[i])
  OBVIOUS
<1> HIDE DEF n, F
<1>5. PICK f \in [All -> V] : \A s \in All : f[s] = FoldRule(f, s, work, F)
  <2>1. FoldExists(n, V, work, F)
    BY <1>1, <1>3, Folding
  <2> QED
    BY <2>1 DEF FoldExists
<1>6. \A s \in All : s # {} => Max(s) \in 1..n /\ s \ {Max(s)} \in All
  BY <1>1, Greatest
<1>7. \A s \in All : f[s] = Rule(f, s)
  BY <1>4, <1>5, <1>6 DEF FoldRule
<1>8. f = [s \in All |-> Rule(f, s)]
  BY <1>7
<1>9. g = [s \in All |-> Rule(g, s)]
  BY <1>8
<1> HIDE DEF g
<1>10. \A s \in All : g[s] = Rule(g, s)
  BY <1>9
<1>11. h[0] = work
  <2>1. 1..0 = {} /\ {} \in All /\ 0 \in 0..n
    BY <1>1
  <2> QED
    BY <1>10, <2>1
<1>12. ASSUME NEW k \in 1..n PROVE h[k] = Provide(h[k - 1], Services[k])
  <2>1. /\ Max(1..k) = k /\ (1..k) \ {k} = 1..(k - 1)
        /\ 1..k \in All /\ 1..k # {} /\ k - 1 \in 0..n
    BY <1>1, Initial
  <2>2. g[1..k] = Rule(g, 1..k)
    BY <1>10, <2>1
  <2>3. h[k] = g[1..k] /\ h[k - 1] = g[1..(k - 1)]
    BY <2>1
  <2> QED
    BY <2>1, <2>2, <2>3
<1>13. h[n] = g[1..n]
  BY <1>1
<1>14. h = [k \in 0..n |-> h[k]]
  OBVIOUS
<1> HIDE DEF h
<1>15. \A k \in 0..n : h[k] \in V
  <2>1. \A k \in 1..n : h[k - 1] \in V => h[k] \in V
    BY <1>12 DEF n
  <2> QED
    BY <1>1, <1>11, <2>1, StagesIn
<1>16. h \in [0..n -> V]
  BY <1>14, <1>15
<1> QED
  BY <1>1, <1>2, <1>11, <1>12, <1>13, <1>16 DEF n

LEMMA ProvidedIn ==
  ASSUME NEW V, Services \in Seq(ToSet(Services)), NEW work \in V,
         \A v \in V, i \in 1..Len(Services) : Provide(v, Services[i]) \in V
  PROVE  Provided(work) \in V
<1>1. Len(Services) \in 0..Len(Services)
  OBVIOUS
<1> QED
  BY <1>1, ProvidedStages

\* AddGlobal.
GlobalsRun(h, V, sequence, added) ==
  /\ h \in [0..Len(added) -> V]
  /\ h[0] = sequence /\ AddGlobals(sequence, added) = h[Len(added)]
  /\ \A k \in 1..Len(added) : h[k] = AddGlobal(h[k - 1], added[k])

LEMMA AddGlobalsStages ==
  ASSUME NEW V, NEW T, NEW added \in Seq(T), NEW sequence \in V,
         \A v \in V, i \in 1..Len(added) : AddGlobal(v, added[i]) \in V
  PROVE  \E h : GlobalsRun(h, V, sequence, added)
<1> DEFINE n == Len(added)
           All == SUBSET (1..n)
           Rule(f, s) == IF s = {} THEN sequence ELSE AddGlobal(f[s \ {Max(s)}], added[Max(s)])
           F == [p \in V \X (1..n) |-> AddGlobal(p[1], added[p[2]])]
           g == CHOOSE f : f = [s \in All |-> Rule(f, s)]
           h == [k \in 0..n |-> g[1..k]]
<1>1. n \in Nat /\ DOMAIN added = 1..n
  OBVIOUS
<1>2. AddGlobals(sequence, added) = g[1..n]
  BY <1>1 DEF AddGlobals, FoldLeft, MapThenFoldSet
<1>3. F \in [V \X (1..n) -> V]
  OBVIOUS
<1>4. \A v \in V, i \in 1..n : F[<<v, i>>] = AddGlobal(v, added[i])
  OBVIOUS
<1> HIDE DEF n, F
<1>5. PICK f \in [All -> V] : \A s \in All : f[s] = FoldRule(f, s, sequence, F)
  <2>1. FoldExists(n, V, sequence, F)
    BY <1>1, <1>3, Folding
  <2> QED
    BY <2>1 DEF FoldExists
<1>6. \A s \in All : s # {} => Max(s) \in 1..n /\ s \ {Max(s)} \in All
  BY <1>1, Greatest
<1>7. \A s \in All : f[s] = Rule(f, s)
  BY <1>4, <1>5, <1>6 DEF FoldRule
<1>8. f = [s \in All |-> Rule(f, s)]
  BY <1>7
<1>9. g = [s \in All |-> Rule(g, s)]
  BY <1>8
<1> HIDE DEF g
<1>10. \A s \in All : g[s] = Rule(g, s)
  BY <1>9
<1>11. h[0] = sequence
  <2>1. 1..0 = {} /\ {} \in All /\ 0 \in 0..n
    BY <1>1
  <2> QED
    BY <1>10, <2>1
<1>12. ASSUME NEW k \in 1..n PROVE h[k] = AddGlobal(h[k - 1], added[k])
  <2>1. /\ Max(1..k) = k /\ (1..k) \ {k} = 1..(k - 1)
        /\ 1..k \in All /\ 1..k # {} /\ k - 1 \in 0..n
    BY <1>1, Initial
  <2>2. g[1..k] = Rule(g, 1..k)
    BY <1>10, <2>1
  <2>3. h[k] = g[1..k] /\ h[k - 1] = g[1..(k - 1)]
    BY <2>1
  <2> QED
    BY <2>1, <2>2, <2>3
<1>13. h[n] = g[1..n]
  BY <1>1
<1>14. h = [k \in 0..n |-> h[k]]
  OBVIOUS
<1> HIDE DEF h
<1>15. \A k \in 0..n : h[k] \in V
  <2>1. \A k \in 1..n : h[k - 1] \in V => h[k] \in V
    BY <1>12 DEF n
  <2> QED
    BY <1>1, <1>11, <2>1, StagesIn
<1>16. h \in [0..n -> V]
  BY <1>14, <1>15
<1> QED
  BY <1>1, <1>2, <1>11, <1>12, <1>13, <1>16 DEF n, GlobalsRun

LEMMA AddGlobalsIn ==
  ASSUME NEW V, NEW T, NEW added \in Seq(T), NEW sequence \in V,
         \A v \in V, i \in 1..Len(added) : AddGlobal(v, added[i]) \in V
  PROVE  AddGlobals(sequence, added) \in V
<1>1. Len(added) \in 0..Len(added)
  OBVIOUS
<1>2. PICK h : GlobalsRun(h, V, sequence, added)
  BY AddGlobalsStages
<1> QED
  BY <1>1, <1>2 DEF GlobalsRun

\* Relocated.
LEMMA ReferredStages ==
  ASSUME NEW V, NEW all, NEW uses, NEW start, Len(uses) \in Nat, NEW b \in V,
         \A v \in V, i \in 1..Len(uses) :
           Relocated(v, TextSection, start + ReferenceSize * (i - 1), uses[i], Pc32, all) \in V
  PROVE  \E h \in [0..Len(uses) -> V] :
           /\ h[0] = b /\ Referred(b, start, uses, all) = h[Len(uses)]
           /\ \A k \in 1..Len(uses) :
                h[k] = Relocated(h[k - 1], TextSection, start + ReferenceSize * (k - 1), uses[k],
                                 Pc32, all)
<1> DEFINE n == Len(uses)
           order == [i \in 1..Len(uses) |-> i]
           Step(v, i) == Relocated(v, TextSection, start + ReferenceSize * (i - 1), uses[i], Pc32, all)
           All == SUBSET (1..n)
           Rule(f, s) == IF s = {} THEN b ELSE Step(f[s \ {Max(s)}], order[Max(s)])
           F == [p \in V \X (1..n) |-> Step(p[1], p[2])]
           g == CHOOSE f : f = [s \in SUBSET DOMAIN order |-> Rule(f, s)]
<1>1. n \in Nat /\ DOMAIN order = 1..n
  OBVIOUS
<1>2. Referred(b, start, uses, all) = g[DOMAIN order]
  BY DEF Referred, FoldLeft, MapThenFoldSet
<1>13. \A v \in V, i \in 1..n : Step(v, i) \in V
  OBVIOUS
<1>14. \A i \in 1..n : order[i] = i
  OBVIOUS
<1> HIDE DEF Step, order, n
<1>3. F \in [V \X (1..n) -> V]
  BY <1>13
<1>4. \A v \in V, i \in 1..n : F[<<v, i>>] = Step(v, i)
  OBVIOUS
<1> HIDE DEF F
<1>5. PICK f \in [All -> V] : \A s \in All : f[s] = FoldRule(f, s, b, F)
  <2>1. FoldExists(n, V, b, F)
    BY <1>1, <1>3, Folding
  <2> QED
    BY <2>1 DEF FoldExists
<1>6. \A s \in All : s # {} => Max(s) \in 1..n /\ s \ {Max(s)} \in All
  BY <1>1, Greatest
<1>7. \A s \in All : f[s] = Rule(f, s)
  <2>1. SUFFICES ASSUME NEW s \in All, s # {} PROVE f[s] = Step(f[s \ {Max(s)}], order[Max(s)])
    BY <1>5 DEF FoldRule
  <2>2. Max(s) \in 1..n /\ f[s \ {Max(s)}] \in V /\ order[Max(s)] = Max(s)
    BY <1>6, <1>14, <2>1
  <2>3. f[s] = F[<<f[s \ {Max(s)}], Max(s)>>]
    BY <1>5, <2>1 DEF FoldRule
  <2> QED
    BY <1>4, <2>2, <2>3
<1>8. f = [s \in SUBSET DOMAIN order |-> Rule(f, s)]
  BY <1>1, <1>7
<1>9. g = [s \in SUBSET DOMAIN order |-> Rule(g, s)]
  BY <1>8
<1> HIDE DEF g
<1>10. \A s \in All : g[s] = Rule(g, s)
  BY <1>1, <1>9
<1> DEFINE h == [k \in 0..n |-> g[1..k]]
<1>11. h[0] = b
  <2>1. 1..0 = {} /\ {} \in All /\ 0 \in 0..n
    BY <1>1
  <2> QED
    BY <1>10, <2>1
<1>12. ASSUME NEW k \in 1..n PROVE h[k] = Step(h[k - 1], k)
  <2>1. /\ Max(1..k) = k /\ (1..k) \ {k} = 1..(k - 1)
        /\ 1..k \in All /\ 1..k # {} /\ k - 1 \in 0..n /\ order[k] = k
    BY <1>1, <1>14, Initial
  <2>2. g[1..k] = Rule(g, 1..k)
    BY <1>10, <2>1
  <2>3. h[k] = g[1..k] /\ h[k - 1] = g[1..(k - 1)]
    BY <2>1
  <2> QED
    BY <2>1, <2>2, <2>3
<1>15. h[n] = g[1..n]
  BY <1>1
<1>16. h = [k \in 0..n |-> h[k]]
  OBVIOUS
<1> HIDE DEF h
<1>17. \A k \in 0..n : h[k] \in V
  <2>1. \A k \in 1..n : h[k - 1] \in V => h[k] \in V
    BY <1>12, <1>13
  <2> QED
    BY <1>1, <1>11, <2>1, StagesIn
<1>18. h \in [0..n -> V]
  BY <1>16, <1>17
<1> QED
  BY <1>1, <1>2, <1>11, <1>12, <1>15, <1>18 DEF n, Step

LEMMA ReferredIn ==
  ASSUME NEW V, NEW all, NEW uses, NEW start, Len(uses) \in Nat, NEW b \in V,
         \A v \in V, i \in 1..Len(uses) :
           Relocated(v, TextSection, start + ReferenceSize * (i - 1), uses[i], Pc32, all) \in V
  PROVE  Referred(b, start, uses, all) \in V
<1>1. Len(uses) \in 0..Len(uses)
  OBVIOUS
<1> QED
  BY <1>1, ReferredStages

\* A builder of n Symbols is one of more.
LEMMA BuilderMore ==
  ASSUME NEW n \in Nat, NEW m \in Nat, n <= m, NEW b \in BuilderType(n)
  PROVE  b \in BuilderType(m)
<1>1. \A r \in RecordType(n) : r \in RecordType(m)
  BY DEF RecordType
<1>2. b.records \in Seq(RecordType(m))
  <2>1. b.records \in Seq(RecordType(n))
    BY DEF BuilderType
  <2> QED
    BY <1>1, <2>1
<1> QED
  BY <1>2 DEF BuilderType

\* A function takes CodeSize bytes of .text, and nothing else.
LEMMA EncodedType ==
  ASSUME NEW n \in Nat, builder \in BuilderType(n), NEW all, Table(all, n),
         NEW function \in 1..n, NEW uses \in Seq(1..n)
  PROVE  /\ CodeSize(uses) \in Nat /\ Encoded(function, uses, all) \in BuilderType(n)
         /\ \A t \in 1..3 : Encoded(function, uses, all).sections[t].size =
              IF t = TextSection THEN builder.sections[t].size + CodeSize(uses)
              ELSE builder.sections[t].size
<1> DEFINE V == {b \in BuilderType(n) : SameSizes(builder, b)}
           start == builder.sections[TextSection].size
           begun == Begun(builder, function, all)
           referred == Referred(begun, start, uses, all)
           size == CodeSize(uses)
           filled == Appended(referred, TextSection, size)
           done == Valued(filled, all[function].name, start, size)
<1>1. TextSection \in 1..3 /\ Len(uses) \in Nat /\ size \in Nat
  BY DEF TextSection, CodeSize, ReferenceSize
<1>2. start \in Nat
  BY <1>1, SectionsTyped
<1>3. begun \in V
  BY BegunType
<1> HIDE DEF start, begun, size
<1>4. ASSUME NEW v \in V, NEW i \in 1..Len(uses)
      PROVE  Relocated(v, TextSection, start + ReferenceSize * (i - 1), uses[i], Pc32, all) \in V
  <2>1. start + ReferenceSize * (i - 1) \in Nat /\ uses[i] \in 1..n
    BY <1>2 DEF ReferenceSize
  <2> DEFINE offset == start + ReferenceSize * (i - 1)
             c == Relocated(v, TextSection, offset, uses[i], Pc32, all)
  <2> HIDE DEF offset
  <2>2. c \in BuilderType(n) /\ SameSizes(v, c)
    BY <1>1, <2>1, RelocatedType DEF offset
  <2>3. c \in V
    BY <2>2 DEF SameSizes
  <2> QED
    BY <2>3 DEF offset
<1>5. referred \in V
  <2> HIDE DEF V
  <2> QED
    BY <1>1, <1>3, <1>4, ReferredIn
<1>6. referred \in BuilderType(n) /\ SameSizes(builder, referred)
  BY <1>5
<1> HIDE DEF referred, V
<1>7. /\ filled \in BuilderType(n)
      /\ \A t \in 1..3 : filled.sections[t].size =
           IF t = TextSection THEN referred.sections[t].size + size ELSE referred.sections[t].size
  <2>1. Appended(referred, TextSection, size) \in BuilderType(n)
    BY <1>1, <1>6, AppendedType
  <2>2. \A t \in 1..3 : Appended(referred, TextSection, size).sections[t].size =
          IF t = TextSection THEN referred.sections[t].size + size ELSE referred.sections[t].size
    BY <1>1, <1>6, AppendedSize
  <2> QED
    BY <2>1, <2>2
<1> HIDE DEF filled
<1>8. done \in BuilderType(n) /\ SameSizes(filled, done)
  BY <1>1, <1>2, <1>7, ValuedType
<1> HIDE DEF done
<1>9. Encoded(function, uses, all) = done
  BY DEF Encoded, done, filled, referred, begun, size, start
<1>10. \A t \in 1..3 : done.sections[t].size =
         IF t = TextSection THEN builder.sections[t].size + size ELSE builder.sections[t].size
  BY <1>6, <1>7, <1>8 DEF SameSizes
<1> QED
  BY <1>1, <1>8, <1>9, <1>10 DEF size

\* What the end of the unit makes of the builder and of the places.
LEMMA FinishedIn ==
  ASSUME NEW n \in Nat, Table(symbols, n), main \in 0..n, globals \in Seq(1..n),
         builder \in BuilderType(n), claims.placed \in Partial(PlaceType),
         PlacedIn(builder, claims.placed)
  PROVE  Provided(Emitted(Prepared)) \in Works(n)
<1> DEFINE V == Works(n)
<1>1. Work \in V
  BY WorksDef DEF Work
<1>2. \A i \in 1..Len(globals) : globals[i] \in 1..n
  OBVIOUS
<1>3. globals \in Seq(Nat)
  OBVIOUS
<1>4. \A v \in V, i \in 1..Len(globals) : Prepare(v, globals[i]) \in V /\ Emit(v, globals[i]) \in V
  BY <1>2, PrepareIn, EmitIn
<1>5. \A v \in V, i \in 1..Len(Services) : Provide(v, Services[i]) \in V
  <2>1. \A i \in 1..Len(Services) : Services[i] \in Names
    <3>1. ASSUME NEW x \in ToSet(Services) PROVE x \in Names
      BY DEF Names
    <3>2. Services \in Seq(ToSet(Services))
      BY UnitAssumption
    <3> QED
      BY <3>1, <3>2
  <2> QED
    BY <2>1, ProvideIn
<1> HIDE DEF V
<1>6. Prepared \in V
  BY <1>1, <1>3, <1>4, PreparedIn
<1>7. Emitted(Prepared) \in V
  BY <1>3, <1>4, <1>6, EmittedIn
<1>8. Provided(Emitted(Prepared)) \in V
  BY <1>5, <1>7, UnitAssumption, ProvidedIn
<1> QED
  BY <1>8 DEF V

\* program_add_global adds only Symbols there are.
LEMMA AddGlobalsType ==
  ASSUME NEW n \in Nat, NEW sequence \in Seq(1..n), NEW added \in Seq(1..n)
  PROVE  AddGlobals(sequence, added) \in Seq(1..n)
<1> DEFINE V == Seq(1..n)
<1>1. \A v \in V, i \in 1..Len(added) : AddGlobal(v, added[i]) \in V
  <2>1. SUFFICES ASSUME NEW v \in Seq(1..n), NEW i \in 1..Len(added)
                 PROVE  AddGlobal(v, added[i]) \in Seq(1..n)
    OBVIOUS
  <2>2. added[i] \in 1..n
    OBVIOUS
  <2>3. Append(v, added[i]) \in Seq(1..n)
    BY <2>2
  <2> QED
    BY <2>3 DEF AddGlobal
<1>2. sequence \in V /\ added \in Seq(1..n)
  OBVIOUS
<1> HIDE DEF V
<1>3. AddGlobals(sequence, added) \in V
  BY <1>1, <1>2, AddGlobalsIn
<1> QED
  BY <1>3 DEF V

-----------------------------------------------------------------------------
(* The Symbols of a function's body *)

CountersType == [static : Nat, literal : Nat]

BodyType(T) ==
  [symbols : Seq(SymbolType), bound : Partial(Nat), counters : CountersType,
   uses : Seq(T), statics : Seq(Nat), literals : Seq(Nat)]

\* A use of what is not bound may be of anything.
Meanings(items) ==
  Nat \cup UNION {{b[items[i].name] : b \in Partial(Nat)} : i \in 1..Len(items)}

ItemsTyped(items) ==
  /\ items \in Seq(ToSet(items))
  /\ \A i \in 1..Len(items) :
       /\ items[i].kind \in {"use", "extern", "static", "literal"}
       /\ items[i].kind = "extern" => items[i].name \in Names /\ SizeOf(items[i].name) \in Positive

\* symbol_new
LEMMA NewSymbolType ==
  ASSUME NEW name \in Names, NEW function \in BOOLEAN, NEW storage \in Storages,
         NEW size \in Positive
  PROVE  /\ NewSymbol(name, function, storage, size) \in SymbolType
         /\ NewSymbol(name, function, storage, size).name = name
         /\ NewSymbol(name, function, storage, size).initializer = NoInitializer
<1> DEFINE internal == storage = "static"
<1>1. internal \in BOOLEAN /\ NoInitializer \in [set : BOOLEAN, target : Nat]
  BY DEF NoInitializer
<1>2. NewSymbol(name, function, storage, size) =
        [name |-> name, function |-> function, storage |-> storage,
         internal |-> internal, initialized |-> FALSE,
         initializer |-> NoInitializer, size |-> size, align |-> size]
  BY Zenon DEF NewSymbol
<1> HIDE DEF internal
<1> QED
  BY <1>1, <1>2 DEF SymbolType

\* A Symbol with storage of its own points to no other.
LEMMA StorageType ==
  ASSUME NEW name \in Names, NEW initializer \in {Plain, NoInitializer},
         NEW size \in Positive, NEW align \in Positive
  PROVE  /\ Storage(name, initializer, size, align) \in SymbolType
         /\ Storage(name, initializer, size, align).initializer.target = 0
<1> DEFINE s == NewSymbol(name, FALSE, "static", size)
<1>1. s \in SymbolType
  <2>1. "static" \in Storages /\ FALSE \in BOOLEAN
    BY DEF Storages
  <2> QED
    BY <2>1, NewSymbolType
<1>2. initializer \in [set : BOOLEAN, target : Nat] /\ initializer.target = 0
  <2>1. Plain \in [set : BOOLEAN, target : Nat] /\ Plain.target = 0
    BY DEF Plain
  <2>2. NoInitializer \in [set : BOOLEAN, target : Nat] /\ NoInitializer.target = 0
    BY DEF NoInitializer
  <2> QED
    BY <2>1, <2>2
<1>3. Storage(name, initializer, size, align) =
        [s EXCEPT !.initializer = initializer, !.align = align]
  BY DEF Storage
<1> HIDE DEF s
<1> QED
  BY <1>1, <1>2, <1>3 DEF SymbolType

\* What each item makes of the parts of a body.
LEMMA BodyParts ==
  ASSUME NEW T, NEW body \in BodyType(T), NEW symbol, NEW initializer, NEW name
  PROVE  /\ Uses(body, symbol) =
              [symbols |-> body.symbols, bound |-> body.bound, counters |-> body.counters,
               uses |-> Append(body.uses, symbol),
               statics |-> body.statics, literals |-> body.literals]
         /\ AddExtern(body, name) =
              LET all == Append(body.symbols, NewSymbol(name, FALSE, "extern", SizeOf(name))) IN
              [symbols |-> all, bound |-> Put(body.bound, name, Len(all)),
               counters |-> body.counters, uses |-> body.uses,
               statics |-> body.statics, literals |-> body.literals]
         /\ AddStatic(body, initializer) =
              LET all == Append(body.symbols,
                                Storage(Private(body.counters.static), initializer, 4, 4))
              IN [symbols |-> all, bound |-> body.bound,
                  counters |-> [body.counters EXCEPT !.static = @ + 1],
                  uses |-> Append(body.uses, Len(all)),
                  statics |-> Append(body.statics, Len(all)), literals |-> body.literals]
         /\ AddLiteral(body) =
              LET all == Append(body.symbols,
                                Storage(Literal(body.counters.literal), Plain, 2, 1))
              IN [symbols |-> all, bound |-> body.bound,
                  counters |-> [body.counters EXCEPT !.literal = @ + 1],
                  uses |-> Append(body.uses, Len(all)),
                  statics |-> body.statics, literals |-> Append(body.literals, Len(all))]
<1>1. body = [symbols |-> body.symbols, bound |-> body.bound, counters |-> body.counters,
              uses |-> body.uses, statics |-> body.statics, literals |-> body.literals]
  BY DEF BodyType
<1> DEFINE With(s) == [symbols |-> Append(body.symbols, s), bound |-> body.bound,
                       counters |-> body.counters, uses |-> body.uses,
                       statics |-> body.statics, literals |-> body.literals]
<1>2. \A s : WithSymbol(body, s) = With(s)
  BY <1>1, SMTT(30) DEF WithSymbol
<1>3. Uses(body, symbol) =
        [symbols |-> body.symbols, bound |-> body.bound, counters |-> body.counters,
         uses |-> Append(body.uses, symbol), statics |-> body.statics, literals |-> body.literals]
  BY <1>1 DEF Uses
<1> HIDE DEF With
<1>4. AddExtern(body, name) =
        LET all == Append(body.symbols, NewSymbol(name, FALSE, "extern", SizeOf(name))) IN
        [symbols |-> all, bound |-> Put(body.bound, name, Len(all)),
         counters |-> body.counters, uses |-> body.uses,
         statics |-> body.statics, literals |-> body.literals]
  <2> DEFINE s == NewSymbol(name, FALSE, "extern", SizeOf(name))
             w == With(s)
  <2>1. AddExtern(body, name) = [w EXCEPT !.bound = Put(w.bound, name, Len(w.symbols))]
    BY <1>2 DEF AddExtern, Latest
  <2>2. w = [symbols |-> Append(body.symbols, s), bound |-> body.bound,
             counters |-> body.counters, uses |-> body.uses,
             statics |-> body.statics, literals |-> body.literals]
    BY DEF With
  <2> HIDE DEF w, s
  <2>3. w.bound = body.bound /\ w.symbols = Append(body.symbols, s)
    BY <2>2
  <2>4. AddExtern(body, name) = [w EXCEPT !.bound = Put(body.bound, name, Len(Append(body.symbols, s)))]
    BY <2>1, <2>3
  <2>5. AddExtern(body, name) =
          [symbols |-> Append(body.symbols, s),
           bound |-> Put(body.bound, name, Len(Append(body.symbols, s))),
           counters |-> body.counters, uses |-> body.uses,
           statics |-> body.statics, literals |-> body.literals]
    BY <2>2, <2>4
  <2> QED
    BY <2>5 DEF s
<1>5. AddStatic(body, initializer) =
        LET all == Append(body.symbols,
                          Storage(Private(body.counters.static), initializer, 4, 4))
        IN [symbols |-> all, bound |-> body.bound,
            counters |-> [body.counters EXCEPT !.static = @ + 1],
            uses |-> Append(body.uses, Len(all)),
            statics |-> Append(body.statics, Len(all)), literals |-> body.literals]
  <2> DEFINE s == Storage(Private(body.counters.static), initializer, 4, 4)
             w == With(s)
  <2>1. AddStatic(body, initializer) =
          [[w EXCEPT !.uses = Append(w.uses, Len(w.symbols))] EXCEPT
             !.statics = Append(@, Len(w.symbols)),
             !.counters.static = @ + 1]
    BY <1>2 DEF AddStatic, Latest, Uses
  <2>2. w = [symbols |-> Append(body.symbols, s), bound |-> body.bound,
             counters |-> body.counters, uses |-> body.uses,
             statics |-> body.statics, literals |-> body.literals]
    BY DEF With
  <2> HIDE DEF w, s
  <2>3. AddStatic(body, initializer) =
          [symbols |-> Append(body.symbols, s), bound |-> body.bound,
           counters |-> [body.counters EXCEPT !.static = @ + 1],
           uses |-> Append(body.uses, Len(Append(body.symbols, s))),
           statics |-> Append(body.statics, Len(Append(body.symbols, s))),
           literals |-> body.literals]
    BY <2>1, <2>2
  <2> QED
    BY <2>3 DEF s
<1>6. AddLiteral(body) =
        LET all == Append(body.symbols, Storage(Literal(body.counters.literal), Plain, 2, 1))
        IN [symbols |-> all, bound |-> body.bound,
            counters |-> [body.counters EXCEPT !.literal = @ + 1],
            uses |-> Append(body.uses, Len(all)),
            statics |-> body.statics, literals |-> Append(body.literals, Len(all))]
  <2> DEFINE s == Storage(Literal(body.counters.literal), Plain, 2, 1)
             w == With(s)
  <2>1. AddLiteral(body) =
          [[w EXCEPT !.uses = Append(w.uses, Len(w.symbols))] EXCEPT
             !.literals = Append(@, Len(w.symbols)),
             !.counters.literal = @ + 1]
    BY <1>2 DEF AddLiteral, Latest, Uses
  <2>2. w = [symbols |-> Append(body.symbols, s), bound |-> body.bound,
             counters |-> body.counters, uses |-> body.uses,
             statics |-> body.statics, literals |-> body.literals]
    BY DEF With
  <2> HIDE DEF w, s
  <2>3. AddLiteral(body) =
          [symbols |-> Append(body.symbols, s), bound |-> body.bound,
           counters |-> [body.counters EXCEPT !.literal = @ + 1],
           uses |-> Append(body.uses, Len(Append(body.symbols, s))),
           statics |-> body.statics,
           literals |-> Append(body.literals, Len(Append(body.symbols, s)))]
    BY <2>1, <2>2
  <2> QED
    BY <2>3 DEF s
<1> QED
  BY <1>3, <1>4, <1>5, <1>6

\* The types of a body, even if a use is not bound.
LEMMA ReadItemTyped ==
  ASSUME NEW items, ItemsTyped(items), NEW v \in BodyType(Meanings(items)),
         NEW i \in 1..Len(items)
  PROVE  ReadItem(v, items[i]) \in BodyType(Meanings(items))
<1> DEFINE M == Meanings(items)
           item == items[i]
           R == ReadItem(v, item)
<1>1. /\ item.kind \in {"use", "extern", "static", "literal"}
      /\ item.kind = "extern" => item.name \in Names /\ SizeOf(item.name) \in Positive
  BY DEF ItemsTyped
<1>2. /\ v.symbols \in Seq(SymbolType) /\ v.bound \in Partial(Nat) /\ v.counters \in CountersType
      /\ v.uses \in Seq(M) /\ v.statics \in Seq(Nat) /\ v.literals \in Seq(Nat)
  BY DEF BodyType
<1>3. v.bound[item.name] \in M
  <2>1. v.bound[items[i].name] \in {b[items[i].name] : b \in Partial(Nat)}
    BY <1>2
  <2> QED
    BY <2>1 DEF Meanings
<1>4. \A x \in Nat : x \in M
  BY DEF Meanings
<1>5. v \in BodyType(M)
  OBVIOUS
<1> HIDE DEF item, M
<1>6. CASE item.kind = "use"
  <2>1. R = Uses(v, v.bound[item.name])
    BY <1>6 DEF ReadItem
  <2>2. R = [symbols |-> v.symbols, bound |-> v.bound, counters |-> v.counters,
             uses |-> Append(v.uses, v.bound[item.name]),
             statics |-> v.statics, literals |-> v.literals]
    BY <1>5, <2>1, BodyParts
  <2>3. Append(v.uses, v.bound[item.name]) \in Seq(M)
    BY <1>2, <1>3
  <2> QED
    BY <1>2, <2>2, <2>3 DEF BodyType, M, item
<1>7. ASSUME NEW s \in SymbolType
      PROVE  /\ Append(v.symbols, s) \in Seq(SymbolType)
             /\ Len(Append(v.symbols, s)) \in Nat
             /\ Append(v.uses, Len(Append(v.symbols, s))) \in Seq(M)
             /\ Append(v.statics, Len(Append(v.symbols, s))) \in Seq(Nat)
             /\ Append(v.literals, Len(Append(v.symbols, s))) \in Seq(Nat)
  <2>1. Append(v.symbols, s) \in Seq(SymbolType)
    BY <1>2
  <2>2. Len(Append(v.symbols, s)) \in Nat
    BY <2>1
  <2> QED
    BY <1>2, <1>4, <2>1, <2>2
<1>8. CASE item.kind = "extern"
  <2> DEFINE s == NewSymbol(item.name, FALSE, "extern", SizeOf(item.name))
             all == Append(v.symbols, s)
  <2>1. R = AddExtern(v, item.name)
    BY <1>8 DEF ReadItem
  <2>2. s \in SymbolType
    <3>1. FALSE \in BOOLEAN /\ "extern" \in Storages
      BY DEF Storages
    <3> QED
      BY <1>1, <1>8, <3>1, NewSymbolType
  <2>3. R = [symbols |-> all, bound |-> Put(v.bound, item.name, Len(all)),
             counters |-> v.counters, uses |-> v.uses,
             statics |-> v.statics, literals |-> v.literals]
    BY <1>5, <2>1, BodyParts
  <2> HIDE DEF s
  <2>4. all \in Seq(SymbolType) /\ Len(all) \in Nat
    BY <1>7, <2>2
  <2> HIDE DEF all
  <2>5. Put(v.bound, item.name, Len(all)) \in Partial(Nat)
    BY <1>1, <1>2, <1>8, <2>4, PutPartial
  <2> QED
    BY <1>2, <2>3, <2>4, <2>5 DEF BodyType, M, item
<1>9. CASE item.kind = "static"
  <2> DEFINE initializer == IF item.set THEN Plain ELSE NoInitializer
             s == Storage(Private(v.counters.static), initializer, 4, 4)
             all == Append(v.symbols, s)
             counts == [v.counters EXCEPT !.static = @ + 1]
  <2>1. R = AddStatic(v, initializer)
    BY <1>9 DEF ReadItem
  <2>2. s \in SymbolType /\ counts \in CountersType
    <3>1. v.counters.static \in Nat /\ counts \in CountersType
      <4> DEFINE c == v.counters
      <4>1. c \in CountersType
        BY <1>2
      <4> HIDE DEF c
      <4>2. c.static \in Nat /\ [c EXCEPT !.static = @ + 1] \in CountersType
        BY <4>1 DEF CountersType
      <4> QED
        BY <4>2 DEF c
    <3>2. Private(v.counters.static) \in Names /\ 4 \in Positive
      BY <3>1 DEF Names, Positive
    <3>3. initializer \in {Plain, NoInitializer}
      OBVIOUS
    <3> HIDE DEF initializer
    <3> QED
      BY <3>1, <3>2, <3>3, StorageType
  <2> HIDE DEF initializer
  <2>3. R = [symbols |-> all, bound |-> v.bound, counters |-> counts,
             uses |-> Append(v.uses, Len(all)),
             statics |-> Append(v.statics, Len(all)), literals |-> v.literals]
    BY <1>5, <2>1, BodyParts
  <2> HIDE DEF s, counts
  <2>4. /\ all \in Seq(SymbolType) /\ Append(v.uses, Len(all)) \in Seq(M)
        /\ Append(v.statics, Len(all)) \in Seq(Nat)
    BY <1>7, <2>2
  <2> HIDE DEF all
  <2> QED
    BY <1>2, <2>2, <2>3, <2>4 DEF BodyType, M, item
<1>10. CASE item.kind = "literal"
  <2> DEFINE s == Storage(Literal(v.counters.literal), Plain, 2, 1)
             all == Append(v.symbols, s)
             counts == [v.counters EXCEPT !.literal = @ + 1]
  <2>1. R = AddLiteral(v)
    <3>1. item.kind # "use" /\ item.kind # "extern" /\ item.kind # "static"
      BY <1>10
    <3> QED
      BY <1>10, <3>1, Zenon DEF ReadItem
  <2>2. s \in SymbolType /\ counts \in CountersType
    <3>1. v.counters.literal \in Nat /\ counts \in CountersType
      <4> DEFINE c == v.counters
      <4>1. c \in CountersType
        BY <1>2
      <4> HIDE DEF c
      <4>2. c.literal \in Nat /\ [c EXCEPT !.literal = @ + 1] \in CountersType
        BY <4>1 DEF CountersType
      <4> QED
        BY <4>2 DEF c
    <3>2. Literal(v.counters.literal) \in Names /\ 2 \in Positive /\ 1 \in Positive
      BY <3>1 DEF Names, Positive
    <3> QED
      BY <3>1, <3>2, StorageType
  <2>3. R = [symbols |-> all, bound |-> v.bound, counters |-> counts,
             uses |-> Append(v.uses, Len(all)),
             statics |-> v.statics, literals |-> Append(v.literals, Len(all))]
    BY <1>5, <2>1, BodyParts
  <2> HIDE DEF s, counts
  <2>4. /\ all \in Seq(SymbolType) /\ Append(v.uses, Len(all)) \in Seq(M)
        /\ Append(v.literals, Len(all)) \in Seq(Nat)
    BY <1>7, <2>2
  <2> HIDE DEF all
  <2> QED
    BY <1>2, <2>2, <2>3, <2>4 DEF BodyType, M, item
<1> QED
  BY <1>1, <1>6, <1>8, <1>9, <1>10

\* One more Symbol.
LEMMA TableMore ==
  ASSUME NEW all, NEW n \in Nat, Table(all, n), NEW s \in SymbolType, s.initializer.target = 0
  PROVE  /\ Table(Append(all, s), n + 1)
         /\ \A i \in 1..n : Append(all, s)[i] = all[i]
         /\ Len(Append(all, s)) = n + 1
         /\ Seq(1..n) \subseteq Seq(1..(n + 1))
         /\ n \in 0..(n + 1) /\ n + 1 \in 1..(n + 1) /\ 1..n \subseteq 1..(n + 1)
<1> DEFINE more == Append(all, s)
<1>1. all \in Seq(SymbolType) /\ Len(all) = n /\ \A i \in 1..n : all[i].initializer.target \in 0..n
  BY DEF Table
<1>2. more \in Seq(SymbolType) /\ Len(more) = n + 1 /\ \A i \in 1..n : more[i] = all[i]
  BY <1>1
<1>3. more[n + 1] = s
  BY <1>1
<1> HIDE DEF more
<1>4. ASSUME NEW i \in 1..(n + 1) PROVE more[i].initializer.target \in 0..(n + 1)
  <2>1. CASE i = n + 1
    BY <1>3, <2>1
  <2>2. CASE i # n + 1
    <3>1. i \in 1..n
      BY <2>2
    <3>2. more[i].initializer.target \in 0..n
      BY <1>1, <1>2, <3>1
    <3> QED
      BY <3>2
  <2> QED
    BY <2>1, <2>2
<1>5. Table(more, n + 1)
  BY <1>2, <1>4 DEF Table
<1>6. n \in 0..(n + 1) /\ n + 1 \in 1..(n + 1) /\ 1..n \subseteq 1..(n + 1)
  OBVIOUS
<1>7. Seq(1..n) \subseteq Seq(1..(n + 1))
  BY <1>6
<1> QED
  BY <1>2, <1>5, <1>6, <1>7 DEF more

\* A body once its first k items are read: it has the Symbols there were, uses and
\* keeps only its own Symbols, and binds what was known and what it has declared.
GoodBody(body, all, known, items, k) ==
  /\ body \in BodyType(Nat)
  /\ Table(body.symbols, Len(body.symbols))
  /\ Len(all) <= Len(body.symbols) /\ \A i \in 1..Len(all) : body.symbols[i] = all[i]
  /\ body.uses \in Seq(1..Len(body.symbols))
  /\ body.statics \in Seq(1..Len(body.symbols))
  /\ body.literals \in Seq(1..Len(body.symbols))
  /\ \A y \in DOMAIN body.bound : body.bound[y] \in 1..Len(body.symbols)
  /\ DOMAIN known \subseteq DOMAIN body.bound
  /\ \A j \in 1..k : items[j].kind = "extern" => items[j].name \in DOMAIN body.bound

\* The next item keeps a body good.
LEMMA GoodStep ==
  ASSUME NEW all \in Seq(SymbolType), NEW known, NEW items, ItemsTyped(items), Resolves(items, known),
         NEW k \in 1..Len(items), NEW v, GoodBody(v, all, known, items, k - 1)
  PROVE  GoodBody(ReadItem(v, items[k]), all, known, items, k)
<1> DEFINE item == items[k]
           R == ReadItem(v, item)
           n == Len(v.symbols)
<1>1. /\ item.kind \in {"use", "extern", "static", "literal"}
      /\ item.kind = "extern" => item.name \in Names /\ SizeOf(item.name) \in Positive
  BY DEF ItemsTyped
<1>2. /\ v.symbols \in Seq(SymbolType) /\ v.bound \in Partial(Nat) /\ v.counters \in CountersType
      /\ v.uses \in Seq(Nat) /\ v.statics \in Seq(Nat) /\ v.literals \in Seq(Nat)
  BY DEF BodyType, GoodBody
<1>3. /\ n \in Nat /\ v \in BodyType(Nat) /\ Table(v.symbols, n)
      /\ Len(all) <= n /\ \A i \in 1..Len(all) : v.symbols[i] = all[i]
      /\ v.uses \in Seq(1..n) /\ v.statics \in Seq(1..n) /\ v.literals \in Seq(1..n)
      /\ \A y \in DOMAIN v.bound : v.bound[y] \in 1..n
      /\ DOMAIN known \subseteq DOMAIN v.bound
      /\ \A j \in 1..(k - 1) : items[j].kind = "extern" => items[j].name \in DOMAIN v.bound
  BY <1>2 DEF GoodBody
<1>4. \A j \in 1..k : j \in 1..(k - 1) \/ j = k
  OBVIOUS
<1>5. k \in Nat /\ Len(all) \in Nat
  BY DEF ItemsTyped
<1> DEFINE m == n + 1
<1>6. ASSUME NEW s \in SymbolType, s.initializer.target = 0
      PROVE  /\ Table(Append(v.symbols, s), m) /\ Len(Append(v.symbols, s)) = m
             /\ Len(all) <= m /\ \A i \in 1..Len(all) : Append(v.symbols, s)[i] = all[i]
  <2>1. /\ Table(Append(v.symbols, s), m) /\ Len(Append(v.symbols, s)) = m
        /\ \A i \in 1..n : Append(v.symbols, s)[i] = v.symbols[i]
    BY <1>3, <1>6, TableMore
  <2>2. Len(all) <= m /\ \A i \in 1..Len(all) : i \in 1..n
    BY <1>3, <1>5
  <2> QED
    BY <1>3, <2>1, <2>2
<1>7. /\ m \in Nat /\ m \in 1..m /\ \A i \in 1..n : i \in 1..m
      /\ v.uses \in Seq(1..m) /\ v.statics \in Seq(1..m) /\ v.literals \in Seq(1..m)
      /\ \A y \in DOMAIN v.bound : v.bound[y] \in 1..m
  <2>1. m \in Nat /\ m \in 1..m /\ \A i \in 1..n : i \in 1..m
    BY <1>3
  <2>2. v.uses \in Seq(1..m) /\ v.statics \in Seq(1..m) /\ v.literals \in Seq(1..m)
    BY <1>3, <2>1
  <2> QED
    BY <1>3, <2>1, <2>2
<1> HIDE DEF m, n
<1>8. \A q \in Seq(1..m) : Append(q, m) \in Seq(1..m)
  BY <1>7
<1>9. CASE item.kind = "use"
  <2>1. item.name \in DOMAIN v.bound
    <3>1. \/ item.name \in DOMAIN known
          \/ \E j \in 1..(k - 1) : items[j].kind = "extern" /\ items[j].name = item.name
      BY <1>9 DEF Resolves
    <3> HIDE DEF item
    <3> QED
      BY <1>3, <3>1
  <2> DEFINE symbol == v.bound[item.name]
             uses == Append(v.uses, symbol)
  <2>2. symbol \in 1..n
    BY <1>3, <2>1
  <2>3. R = Uses(v, symbol)
    BY <1>9 DEF ReadItem
  <2> HIDE DEF item, symbol
  <2>4. R = [symbols |-> v.symbols, bound |-> v.bound, counters |-> v.counters,
             uses |-> uses, statics |-> v.statics, literals |-> v.literals]
    BY <1>3, <2>3, BodyParts
  <2>5. uses \in Seq(1..n) /\ uses \in Seq(Nat)
    BY <1>2, <1>3, <2>2
  <2> HIDE DEF uses, R
  <2>6. R \in BodyType(Nat)
    BY <1>2, <2>4, <2>5 DEF BodyType
  <2>7. \A j \in 1..k : items[j].kind = "extern" => items[j].name \in DOMAIN v.bound
    BY <1>3, <1>4, <1>9 DEF item
  <2>8. /\ R.symbols = v.symbols /\ R.bound = v.bound /\ R.uses = uses
        /\ R.statics = v.statics /\ R.literals = v.literals
    BY <2>4
  <2>9. GoodBody(R, all, known, items, k)
    BY <1>3, <2>5, <2>6, <2>7, <2>8 DEF GoodBody, n
  <2> QED
    BY <2>9 DEF R, item
<1>10. CASE item.kind = "extern"
  <2> DEFINE s == NewSymbol(item.name, FALSE, "extern", SizeOf(item.name))
             more == Append(v.symbols, s)
             bound == Put(v.bound, item.name, m)
  <2>1. s \in SymbolType /\ s.initializer.target = 0
    <3>1. FALSE \in BOOLEAN /\ "extern" \in Storages
      BY DEF Storages
    <3>2. s \in SymbolType /\ s.initializer = NoInitializer
      BY <1>1, <1>10, <3>1, NewSymbolType
    <3> HIDE DEF s
    <3>3. NoInitializer.target = 0
      BY DEF NoInitializer
    <3> QED
      BY <3>2, <3>3
  <2>2. R = AddExtern(v, item.name)
    BY <1>10 DEF ReadItem
  <2>3. R = [symbols |-> more, bound |-> Put(v.bound, item.name, Len(more)),
             counters |-> v.counters, uses |-> v.uses,
             statics |-> v.statics, literals |-> v.literals]
    BY <1>3, <2>2, BodyParts
  <2> HIDE DEF s
  <2>4. /\ Table(more, m) /\ Len(more) = m /\ Len(all) <= m
        /\ \A i \in 1..Len(all) : more[i] = all[i]
    BY <1>6, <2>1
  <2> HIDE DEF more
  <2>5. /\ bound \in Partial(Nat) /\ DOMAIN bound = DOMAIN v.bound \cup {item.name}
        /\ bound[item.name] = m
        /\ \A y \in DOMAIN v.bound : y # item.name => bound[y] = v.bound[y]
    <3> DEFINE f == v.bound
    <3>1. item.name \in Names /\ f \in Partial(Nat) /\ m \in Nat
      BY <1>1, <1>2, <1>7, <1>10
    <3> HIDE DEF f, item
    <3>2. bound = Put(f, item.name, m)
      BY DEF f
    <3> HIDE DEF bound
    <3>3. /\ DOMAIN bound = DOMAIN f \cup {item.name} /\ bound[item.name] = m
          /\ \A y \in DOMAIN f : y # item.name => bound[y] = f[y]
      BY <3>2 DEF Put
    <3>4. bound \in Partial(Nat)
      BY <3>1, <3>2, PutPartial
    <3> QED
      BY <3>3, <3>4 DEF f
  <2> HIDE DEF bound, R
  <2>6. R = [symbols |-> more, bound |-> bound, counters |-> v.counters, uses |-> v.uses,
             statics |-> v.statics, literals |-> v.literals]
    BY <2>3, <2>4 DEF bound
  <2>7. R \in BodyType(Nat)
    BY <1>2, <2>4, <2>5, <2>6 DEF BodyType, Table
  <2>8. \A j \in 1..k : items[j].kind = "extern" => items[j].name \in DOMAIN bound
    BY <1>3, <1>4, <2>5
  <2>9. /\ R.symbols = more /\ R.bound = bound /\ R.uses = v.uses
        /\ R.statics = v.statics /\ R.literals = v.literals
    BY <2>6
  <2>10. \A y \in DOMAIN bound : bound[y] \in 1..m
    BY <1>7, <2>5
  <2>11. DOMAIN known \subseteq DOMAIN bound
    BY <1>3, <2>5
  <2>12. GoodBody(R, all, known, items, k)
    BY <1>7, <2>4, <2>7, <2>8, <2>9, <2>10, <2>11 DEF GoodBody
  <2> QED
    BY <2>12 DEF R, item
<1>11. CASE item.kind = "static"
  <2> DEFINE initializer == IF item.set THEN Plain ELSE NoInitializer
             s == Storage(Private(v.counters.static), initializer, 4, 4)
             more == Append(v.symbols, s)
             counts == [v.counters EXCEPT !.static = @ + 1]
             kept == Append(v.statics, m)
             uses == Append(v.uses, m)
  <2>1. R = AddStatic(v, initializer)
    BY <1>11 DEF ReadItem
  <2>2. counts \in CountersType /\ v.counters.static \in Nat
    <3> DEFINE c == v.counters
    <3>1. c \in CountersType
      BY <1>2
    <3> HIDE DEF c
    <3>2. c.static \in Nat /\ [c EXCEPT !.static = @ + 1] \in CountersType
      BY <3>1 DEF CountersType
    <3> QED
      BY <3>2 DEF c
  <2>3. s \in SymbolType /\ s.initializer.target = 0
    <3>1. Private(v.counters.static) \in Names /\ 4 \in Positive
      BY <2>2 DEF Names, Positive
    <3>2. initializer \in {Plain, NoInitializer}
      OBVIOUS
    <3> HIDE DEF initializer
    <3> QED
      BY <3>1, <3>2, StorageType
  <2> HIDE DEF initializer
  <2>4. R = [symbols |-> more, bound |-> v.bound, counters |-> counts,
             uses |-> Append(v.uses, Len(more)),
             statics |-> Append(v.statics, Len(more)), literals |-> v.literals]
    BY <1>3, <2>1, BodyParts
  <2> HIDE DEF s, counts
  <2>5. /\ Table(more, m) /\ Len(more) = m /\ Len(all) <= m
        /\ \A i \in 1..Len(all) : more[i] = all[i]
    BY <1>6, <2>3
  <2> HIDE DEF more
  <2>6. /\ uses \in Seq(1..m) /\ kept \in Seq(1..m) /\ uses \in Seq(Nat) /\ kept \in Seq(Nat)
    BY <1>2, <1>7, <1>8
  <2>7. R = [symbols |-> more, bound |-> v.bound, counters |-> counts, uses |-> uses,
             statics |-> kept, literals |-> v.literals]
    BY <2>4, <2>5
  <2> HIDE DEF uses, kept, R
  <2>8. R \in BodyType(Nat)
    BY <1>2, <2>2, <2>5, <2>6, <2>7 DEF BodyType, Table
  <2>9. \A j \in 1..k : items[j].kind = "extern" => items[j].name \in DOMAIN v.bound
    BY <1>3, <1>4, <1>11 DEF item
  <2>10. /\ R.symbols = more /\ R.bound = v.bound /\ R.uses = uses
         /\ R.statics = kept /\ R.literals = v.literals
    BY <2>7
  <2>11. GoodBody(R, all, known, items, k)
    BY <1>3, <1>7, <2>5, <2>6, <2>8, <2>9, <2>10 DEF GoodBody
  <2> QED
    BY <2>11 DEF R, item
<1>12. CASE item.kind = "literal"
  <2> DEFINE s == Storage(Literal(v.counters.literal), Plain, 2, 1)
             more == Append(v.symbols, s)
             counts == [v.counters EXCEPT !.literal = @ + 1]
             kept == Append(v.literals, m)
             uses == Append(v.uses, m)
  <2>1. R = AddLiteral(v)
    <3>1. item.kind # "use" /\ item.kind # "extern" /\ item.kind # "static"
      BY <1>12
    <3> QED
      BY <1>12, <3>1, Zenon DEF ReadItem
  <2>2. counts \in CountersType /\ v.counters.literal \in Nat
    <3> DEFINE c == v.counters
    <3>1. c \in CountersType
      BY <1>2
    <3> HIDE DEF c
    <3>2. c.literal \in Nat /\ [c EXCEPT !.literal = @ + 1] \in CountersType
      BY <3>1 DEF CountersType
    <3> QED
      BY <3>2 DEF c
  <2>3. s \in SymbolType /\ s.initializer.target = 0
    <3>1. Literal(v.counters.literal) \in Names /\ 2 \in Positive /\ 1 \in Positive
      BY <2>2 DEF Names, Positive
    <3> QED
      BY <3>1, StorageType
  <2>4. R = [symbols |-> more, bound |-> v.bound, counters |-> counts,
             uses |-> Append(v.uses, Len(more)),
             statics |-> v.statics, literals |-> Append(v.literals, Len(more))]
    BY <1>3, <2>1, BodyParts
  <2> HIDE DEF s, counts
  <2>5. /\ Table(more, m) /\ Len(more) = m /\ Len(all) <= m
        /\ \A i \in 1..Len(all) : more[i] = all[i]
    BY <1>6, <2>3
  <2> HIDE DEF more
  <2>6. /\ uses \in Seq(1..m) /\ kept \in Seq(1..m) /\ uses \in Seq(Nat) /\ kept \in Seq(Nat)
    BY <1>2, <1>7, <1>8
  <2>7. R = [symbols |-> more, bound |-> v.bound, counters |-> counts, uses |-> uses,
             statics |-> v.statics, literals |-> kept]
    BY <2>4, <2>5
  <2> HIDE DEF uses, kept, R
  <2>8. R \in BodyType(Nat)
    BY <1>2, <2>2, <2>5, <2>6, <2>7 DEF BodyType, Table
  <2>9. \A j \in 1..k : items[j].kind = "extern" => items[j].name \in DOMAIN v.bound
    BY <1>3, <1>4, <1>12 DEF item
  <2>10. /\ R.symbols = more /\ R.bound = v.bound /\ R.uses = uses
         /\ R.statics = v.statics /\ R.literals = kept
    BY <2>7
  <2>11. GoodBody(R, all, known, items, k)
    BY <1>3, <1>7, <2>5, <2>6, <2>8, <2>9, <2>10 DEF GoodBody
  <2> QED
    BY <2>11 DEF R, item
<1> QED
  BY <1>1, <1>9, <1>10, <1>11, <1>12

\* Reading the items one after the other: what is so of the first ones stays so.
LEMMA Reading ==
  ASSUME NEW V, NEW items, items \in Seq(ToSet(items)), NEW body \in V,
         \A v \in V, i \in 1..Len(items) : ReadItem(v, items[i]) \in V,
         NEW W, body \in W[0],
         \A k \in 1..Len(items) : \A v \in W[k - 1] : ReadItem(v, items[k]) \in W[k]
  PROVE  ReadItems(body, items) \in W[Len(items)]
<1> DEFINE n == Len(items)
           All == SUBSET (1..n)
           Rule(f, s) == IF s = {} THEN body ELSE ReadItem(f[s \ {Max(s)}], items[Max(s)])
           F == [p \in V \X (1..n) |-> ReadItem(p[1], items[p[2]])]
           g == CHOOSE f : f = [s \in All |-> Rule(f, s)]
<1>1. n \in Nat /\ DOMAIN items = 1..n
  OBVIOUS
<1>2. ReadItems(body, items) = g[1..n]
  BY <1>1 DEF ReadItems, FoldLeft, MapThenFoldSet
<1>3. F \in [V \X (1..n) -> V]
  OBVIOUS
<1>4. \A v \in V, i \in 1..n : F[<<v, i>>] = ReadItem(v, items[i])
  OBVIOUS
<1>12. \A k \in 1..n : \A v \in W[k - 1] : ReadItem(v, items[k]) \in W[k]
  OBVIOUS
<1> HIDE DEF n, F
<1>5. PICK f \in [All -> V] : \A s \in All : f[s] = FoldRule(f, s, body, F)
  <2>1. FoldExists(n, V, body, F)
    BY <1>1, <1>3, Folding
  <2> QED
    BY <2>1 DEF FoldExists
<1>6. \A s \in All : s # {} => Max(s) \in 1..n /\ s \ {Max(s)} \in All
  BY <1>1, Greatest
<1>7. \A s \in All : f[s] = Rule(f, s)
  BY <1>4, <1>5, <1>6 DEF FoldRule
<1>8. f = [s \in All |-> Rule(f, s)]
  BY <1>7
<1>9. g = [s \in All |-> Rule(g, s)]
  BY <1>8
<1> HIDE DEF g
<1>10. \A s \in All : g[s] = Rule(g, s)
  BY <1>9
<1> DEFINE S == {k \in Nat : k <= n => g[1..k] \in W[k]}
<1>11. 0 \in S
  <2>1. 1..0 = {} /\ {} \in All
    BY <1>1
  <2> QED
    BY <1>10, <2>1
<1>13. ASSUME NEW k \in Nat, k \in S PROVE k + 1 \in S
  <2> SUFFICES ASSUME k + 1 <= n PROVE g[1..(k + 1)] \in W[k + 1]
    OBVIOUS
  <2>1. k + 1 \in 1..n /\ (k + 1) - 1 = k /\ g[1..k] \in W[k]
    BY <1>1, <1>13
  <2>2. g[1..(k + 1)] = ReadItem(g[1..k], items[k + 1])
    <3> DEFINE s == 1..(k + 1)
    <3>1. Max(s) = k + 1 /\ s \ {k + 1} = 1..k /\ s \in All /\ s # {}
      BY <1>1, <2>1, Initial
    <3>2. g[s] = Rule(g, s)
      BY <1>10, <3>1
    <3> HIDE DEF s
    <3>3. g[s] = ReadItem(g[1..k], items[k + 1])
      BY <3>1, <3>2
    <3> QED
      BY <3>3 DEF s
  <2> QED
    BY <1>12, <2>1, <2>2
<1> HIDE DEF S
<1>14. n \in S
  BY <1>1, <1>11, <1>13, Counting
<1>15. g[1..n] \in W[n]
  BY <1>1, <1>14 DEF S
<1> QED
  BY <1>2, <1>15 DEF n

\* ReadBody's Symbols, and what it refers to and keeps.
LEMMA ReadBodyGood ==
  ASSUME NEW d, ItemsTyped(d.body), counters \in CountersType,
         NEW n \in Nat, NEW all, Table(all, n), NEW known \in Partial(1..n), Resolves(d.body, known)
  PROVE  GoodBody(ReadBody(d, all, known), all, known, d.body, Len(d.body))
         /\ ReadBody(d, all, known).counters \in CountersType
<1> DEFINE items == d.body
           self == WithSymbol(Body(all, known, [counters EXCEPT !.static = @ + 1]),
                              Storage(Private(counters.static), Plain, 2, 1))
           read == ReadItems(self, items)
           last == Len(items)
           V == BodyType(Meanings(items))
           s == Storage(Private(counters.static), Plain, 2, 1)
           counts == [counters EXCEPT !.static = @ + 1]
           more == Append(all, s)
           W == [k \in 0..last |-> {v \in BodyType(Nat) : GoodBody(v, more, known, items, k)}]
<1>1. counters.static \in Nat /\ counts \in CountersType
  BY DEF CountersType
<1>2. s \in SymbolType /\ s.initializer.target = 0
  <2>1. Private(counters.static) \in Names /\ 2 \in Positive /\ 1 \in Positive
    BY <1>1 DEF Names, Positive
  <2> QED
    BY <2>1, StorageType
<1>3. self = [symbols |-> more, bound |-> known, counters |-> counts,
              uses |-> <<>>, statics |-> <<>>, literals |-> <<>>]
  <2> HIDE DEF s, counts
  <2>1. self = WithSymbol(Body(all, known, counts), s)
    BY DEF s, counts
  <2> HIDE DEF self
  <2>2. self = [Body(all, known, counts) EXCEPT !.symbols = Append(@, s)]
    BY <2>1 DEF WithSymbol
  <2>3. Body(all, known, counts) = [symbols |-> all, bound |-> known, counters |-> counts,
                                    uses |-> <<>>, statics |-> <<>>, literals |-> <<>>]
    BY DEF Body
  <2> DEFINE b == Body(all, known, counts)
  <2> HIDE DEF b, more
  <2>4. b = [symbols |-> all, bound |-> known, counters |-> counts,
             uses |-> <<>>, statics |-> <<>>, literals |-> <<>>]
    BY <2>3 DEF b
  <2>5. self = [b EXCEPT !.symbols = more]
    <3>1. b.symbols = all
      BY <2>4
    <3> QED
      BY <2>2, <3>1 DEF b, more
  <2> QED
    BY <2>4, <2>5
<1> HIDE DEF s, counts
<1>4. /\ Table(more, n + 1) /\ Len(more) = n + 1 /\ \A i \in 1..n : more[i] = all[i]
      /\ 1..n \subseteq 1..(n + 1) /\ n + 1 \in 1..(n + 1)
  BY <1>2, TableMore
<1>5. Len(all) = n /\ all \in Seq(SymbolType) /\ more \in Seq(SymbolType)
  BY <1>4 DEF Table
<1>6. known \in Partial(Nat) /\ \A y \in DOMAIN known : known[y] \in 1..n
  BY PartialDef
<1> HIDE DEF more, self
<1>7. self \in BodyType(Nat) /\ self \in V
  BY <1>1, <1>3, <1>5, <1>6 DEF BodyType
<1>8. GoodBody(self, more, known, items, 0)
  <2>1. /\ self.symbols = more /\ self.bound = known /\ self.uses = <<>>
        /\ self.statics = <<>> /\ self.literals = <<>>
    BY <1>3
  <2> QED
    BY <1>4, <1>5, <1>6, <1>7, <2>1 DEF GoodBody
<1>9. last \in Nat /\ 0 \in 0..last /\ last \in 0..last
  BY DEF ItemsTyped
<1>10. self \in W[0]
  BY <1>7, <1>8, <1>9
<1>11. ASSUME NEW k \in 1..last, NEW v \in W[k - 1] PROVE ReadItem(v, items[k]) \in W[k]
  <2>1. k - 1 \in 0..last /\ k \in 0..last
    BY <1>9
  <2>2. GoodBody(v, more, known, items, k - 1)
    BY <2>1
  <2>3. GoodBody(ReadItem(v, items[k]), more, known, items, k)
    BY <1>5, <2>2, GoodStep
  <2>4. ReadItem(v, items[k]) \in BodyType(Nat)
    BY <2>3 DEF GoodBody
  <2> QED
    BY <2>1, <2>3, <2>4
<1>12. \A v \in V, i \in 1..Len(items) : ReadItem(v, items[i]) \in V
  BY ReadItemTyped
<1> HIDE DEF V, W
<1>13. read \in W[last]
  BY <1>7, <1>10, <1>11, <1>12, Reading DEF ItemsTyped
<1>14. GoodBody(read, more, known, items, last) /\ read \in BodyType(Nat)
  BY <1>9, <1>13 DEF W
<1>15. ReadBody(d, all, known) = [read EXCEPT !.statics = Append(@, n + 1)]
  <2>1. ReadBody(d, all, known) = [read EXCEPT !.statics = Append(@, Latest(self))]
    BY DEF ReadBody, read, self
  <2>2. Latest(self) = n + 1
    BY <1>3, <1>4 DEF Latest
  <2> QED
    BY <2>1, <2>2
<1> HIDE DEF read
<1> DEFINE m == Len(read.symbols)
           statics == Append(read.statics, n + 1)
           R == [read EXCEPT !.statics = statics]
<1>16. /\ m \in Nat /\ n + 1 <= m /\ \A i \in 1..(n + 1) : read.symbols[i] = more[i]
       /\ Table(read.symbols, m)
       /\ read.uses \in Seq(1..m) /\ read.statics \in Seq(1..m) /\ read.literals \in Seq(1..m)
       /\ \A y \in DOMAIN read.bound : read.bound[y] \in 1..m
       /\ DOMAIN known \subseteq DOMAIN read.bound
       /\ \A j \in 1..last : items[j].kind = "extern" => items[j].name \in DOMAIN read.bound
  <2>1. m \in Nat
    BY <1>14 DEF BodyType
  <2> QED
    BY <1>4, <1>14, <2>1 DEF GoodBody
<1>17. n <= m /\ n + 1 \in 1..m /\ \A i \in 1..n : read.symbols[i] = all[i]
  <2> HIDE DEF m
  <2>1. \A i \in 1..n : i \in 1..(n + 1)
    BY <1>4
  <2> QED
    BY <1>4, <1>16, <2>1
<1>18. statics \in Seq(1..m) /\ statics \in Seq(Nat)
  <2> HIDE DEF m
  <2> QED
    BY <1>16, <1>17
<1> HIDE DEF statics
<1>19. /\ R \in BodyType(Nat) /\ R.symbols = read.symbols /\ R.bound = read.bound
       /\ R.uses = read.uses /\ R.statics = statics /\ R.literals = read.literals
       /\ R.counters = read.counters /\ read.counters \in CountersType
  BY <1>14, <1>18 DEF BodyType
<1> HIDE DEF R
<1>20. GoodBody(R, all, known, items, last)
  BY <1>5, <1>16, <1>17, <1>18, <1>19 DEF GoodBody
<1>21. ReadBody(d, all, known) = R
  BY <1>15 DEF R, statics
<1> HIDE DEF last
<1> QED
  BY <1>19, <1>20, <1>21 DEF last

-----------------------------------------------------------------------------
(* The unit *)

\* The names in scope are those of Symbols there are.
Scoped(known, all) ==
  /\ known \in Partial(1..Len(all))
  /\ \A x \in DOMAIN known : all[known[x]].name = x

\* claims keeps the parts it has.
Parts(c) ==
  c = [owed |-> c.owed, seen |-> c.seen, internal |-> c.internal, meant |-> c.meant,
       placed |-> c.placed]

Placed == claims.placed \in Partial(PlaceType) /\ PlacedIn(builder, claims.placed)

Bounded ==
  /\ builder.sections[TextSection].size <= MaxPayload
  /\ builder.sections[DataSection].size <= MaxPayload

UnitInv ==
  /\ stage \in {"declarations", "encoded", "written", "refused"}
  /\ declared \in 0..MaxDeclarations
  /\ Table(symbols, Len(symbols))
  /\ Scoped(scope, symbols)
  /\ globals \in Seq(1..Len(symbols))
  /\ counters \in CountersType
  /\ main \in 0..Len(symbols)
  /\ builder \in BuilderType(Len(symbols)) /\ Bounded
  /\ Parts(claims) /\ Placed

\* What UnitAssumption says of a declaration.
LEMMA DeclarationTyped ==
  ASSUME NEW d \in Declarations
  PROVE  /\ d.name \in Names /\ SizeOf(d.name) \in Positive /\ d.storage \in Storages
         /\ d.kind = "object" => d.init \in {"none", "plain", "address"}
         /\ d.kind = "function" => ItemsTyped(d.body)
<1>1. d.name \in Names
  <2>1. d.name \in {e.name : e \in Declarations}
    OBVIOUS
  <2> QED
    BY <2>1 DEF Names
<1>2. d.storage \in Storages
  <2>1. d.storage \in {e.storage : e \in Declarations}
    OBVIOUS
  <2> QED
    BY <2>1 DEF Storages
<1>3. /\ SizeOf(d.name) \in Positive
      /\ d.kind = "object" => d.init \in {"none", "plain", "address"}
      /\ d.kind = "function" => BodyAssumption(d.body)
  BY UnitAssumption DEF Positive
<1>4. ASSUME d.kind = "function" PROVE ItemsTyped(d.body)
  <2> DEFINE T == ToSet(d.body)
  <2>1. /\ d.body \in Seq(T)
        /\ \A item \in T :
             /\ item.kind \in {"use", "extern", "static", "literal"}
             /\ item.kind = "extern" => SizeOf(item.name) \in Nat \ {0}
    BY <1>3, <1>4 DEF BodyAssumption
  <2>2. \A item \in T : item.kind = "extern" => item.name \in Names
    <3>1. SUFFICES ASSUME NEW item \in T, item.kind = "extern" PROVE item.name \in ItemNames
      BY DEF Names
    <3>2. item.name \in ExternNames(d)
      BY <3>1 DEF ExternNames, Externs
    <3>3. ExternNames(d) \in {ExternNames(e) : e \in {f \in Declarations : f.kind = "function"}}
      BY <1>4
    <3> QED
      BY <3>2, <3>3 DEF ItemNames
  <2> HIDE DEF T
  <2>3. \A i \in 1..Len(d.body) : d.body[i] \in T
    BY <2>1
  <2> QED
    BY <2>1, <2>2, <2>3 DEF ItemsTyped, Positive, T
<1> QED
  BY <1>1, <1>2, <1>3, <1>4

\* define_symbol: the Symbols keep their names, and the declared one has its.
LEMMA DefinedTable ==
  ASSUME NEW n \in Nat, Table(symbols, n), Scoped(scope, symbols), NEW name \in Names,
         SizeOf(name) \in Positive, NEW function \in BOOLEAN, NEW storage \in Storages,
         NEW initialized \in BOOLEAN
  PROVE  LET all == Defined(name, function, storage, initialized)
             known == Put(scope, name, Number(name))
         IN  /\ Len(all) \in Nat /\ n <= Len(all) /\ Table(all, Len(all))
             /\ Number(name) \in 1..Len(all) /\ Scoped(known, all)
<1> DEFINE new == NewSymbol(name, function, storage, SizeOf(name))
           grown == IF Known(name) THEN symbols ELSE Append(symbols, new)
           k == Number(name)
           m == Len(grown)
           inner == storage = "static"
           named == grown[k].initialized \/ initialized
           r == [grown[k] EXCEPT !.storage = storage, !.internal = inner, !.initialized = named]
           all == [grown EXCEPT ![k] = r]
           known == Put(scope, name, k)
<1>1. /\ symbols \in Seq(SymbolType) /\ Len(symbols) = n
      /\ \A i \in 1..n : symbols[i].initializer.target \in 0..n
      /\ scope \in Partial(1..n) /\ \A x \in DOMAIN scope : scope[x] \in 1..n /\ symbols[scope[x]].name = x
  BY PartialDef DEF Table, Scoped
<1>2. new \in SymbolType /\ new.name = name /\ new.initializer.target = 0
  <2>1. new \in SymbolType /\ new.name = name /\ new.initializer = NoInitializer
    BY NewSymbolType
  <2>2. NoInitializer.target = 0
    BY DEF NoInitializer
  <2> HIDE DEF new
  <2> QED
    BY <2>1, <2>2
<1> HIDE DEF new
<1>3. /\ m \in Nat /\ n <= m /\ Table(grown, m) /\ k \in 1..m /\ grown[k].name = name
      /\ \A i \in 1..n : grown[i] = symbols[i]
  <2>1. CASE Known(name)
    <3>1. grown = symbols /\ m = n
      BY <1>1, <2>1
    <3>2. k \in 1..n /\ symbols[k].name = name
      BY <1>1, <2>1 DEF Number, Known
    <3> HIDE DEF grown, k, m
    <3> QED
      BY <3>1, <3>2
  <2>2. CASE ~Known(name)
    <3>1. grown = Append(symbols, new) /\ k = n + 1
      BY <1>1, <2>2 DEF Number
    <3>2. /\ Table(Append(symbols, new), n + 1) /\ Len(Append(symbols, new)) = n + 1
          /\ \A i \in 1..n : Append(symbols, new)[i] = symbols[i]
      BY <1>2, TableMore
    <3>3. Append(symbols, new)[n + 1] = new
      BY <1>1
    <3>4. m = n + 1
      BY <3>1, <3>2
    <3> HIDE DEF grown, k, m
    <3> QED
      BY <1>2, <3>1, <3>2, <3>3, <3>4
  <2> QED
    BY <2>1, <2>2
<1> HIDE DEF grown, k, m
<1>4. /\ grown \in Seq(SymbolType) /\ Len(grown) = m /\ grown[k] \in SymbolType
      /\ \A i \in 1..m : grown[i].initializer.target \in 0..m
  BY <1>3 DEF Table
<1>5. inner \in BOOLEAN /\ named \in BOOLEAN
  <2>1. grown[k].initialized \in BOOLEAN
    BY <1>4 DEF SymbolType
  <2> QED
    OBVIOUS
<1> HIDE DEF inner, named
<1>6. r \in SymbolType /\ r.name = name /\ r.initializer = grown[k].initializer
  BY <1>3, <1>4, <1>5 DEF SymbolType
<1> HIDE DEF r
<1>7. all \in Seq(SymbolType) /\ Len(all) = m /\ all[k] = r /\ \A i \in 1..m : i # k => all[i] = grown[i]
  BY <1>3, <1>4, <1>6
<1> HIDE DEF all
<1>8. Table(all, m)
  <2>1. ASSUME NEW i \in 1..m PROVE all[i].initializer.target \in 0..m
    <3>1. grown[i].initializer.target \in 0..m
      BY <1>4
    <3>2. all[i].initializer = grown[i].initializer
      BY <1>6, <1>7
    <3> QED
      BY <3>1, <3>2
  <2> QED
    BY <1>7, <2>1 DEF Table
<1>9. \A i \in 1..n : i \in 1..m /\ all[i].name = symbols[i].name
  <2>1. ASSUME NEW i \in 1..n PROVE i \in 1..m /\ all[i].name = symbols[i].name
    <3>1. i \in 1..m
      BY <1>3
    <3>2. CASE i = k
      BY <1>3, <1>6, <1>7, <3>2
    <3>3. CASE i # k
      BY <1>3, <1>7, <3>1, <3>3
    <3> QED
      BY <3>1, <3>2, <3>3
  <2> QED
    BY <2>1
<1>10. known \in Partial(1..m)
  <2>1. \A x \in DOMAIN scope : scope[x] \in 1..m
    BY <1>1, <1>9
  <2>2. scope \in Partial(1..m)
    BY <1>1, <2>1, PartialMore
  <2> QED
    BY <1>3, <2>2, PutPartial
<1>11. /\ DOMAIN known = DOMAIN scope \cup {name} /\ known[name] = k
       /\ \A y \in DOMAIN scope : y # name => known[y] = scope[y]
  BY DEF Put
<1> HIDE DEF known
<1>12. \A x \in DOMAIN known : all[known[x]].name = x
  BY <1>1, <1>6, <1>7, <1>9, <1>11
<1>13. Scoped(known, all)
  BY <1>7, <1>10, <1>12 DEF Scoped
<1>14. Defined(name, function, storage, initialized) = all
  <2>1. Redeclared(grown[k], storage, initialized) = r
    BY Zenon DEF Redeclared, r, inner, named
  <2>2. Defined(name, function, storage, initialized) =
          [grown EXCEPT ![k] = Redeclared(grown[k], storage, initialized)]
    BY Zenon DEF Defined, grown, k, new
  <2> QED
    BY <2>1, <2>2, Zenon DEF all
<1> QED
  BY <1>3, <1>7, <1>8, <1>13, <1>14 DEF known, k

\* More Symbols leave what there was as it was.
LEMMA Carried ==
  ASSUME NEW n \in Nat, NEW m \in Nat, n <= m, builder \in BuilderType(n),
         globals \in Seq(1..n), main \in 0..n
  PROVE  builder \in BuilderType(m) /\ globals \in Seq(1..m) /\ main \in 0..m
<1>1. \A i \in 1..n : i \in 1..m
  OBVIOUS
<1> QED
  BY <1>1, BuilderMore

\* What C says of a declaration moves nothing that is placed.
LEMMA ClaimParts ==
  ASSUME Parts(claims), NEW name, NEW defines, NEW static
  PROVE  LET c == Claim(name, defines, static) IN Parts(c) /\ c.placed = claims.placed
<1> DEFINE owed == IF defines THEN claims.owed \cup {name} ELSE claims.owed
           internal == IF static /\ name \notin claims.seen THEN claims.internal \cup {name}
                       ELSE claims.internal
           seen == claims.seen \cup {name}
<1>1. Claim(name, defines, static) =
        [claims EXCEPT !.owed = owed, !.seen = seen, !.internal = internal]
  BY DEF Claim
<1> HIDE DEF owed, internal, seen
<1>2. Claim(name, defines, static) =
        [owed |-> owed, seen |-> seen, internal |-> internal, meant |-> claims.meant,
         placed |-> claims.placed]
  BY <1>1 DEF Parts
<1> QED
  BY <1>2 DEF Parts

\* program_add_global adds a Symbol there is.
LEMMA AddGlobalType ==
  ASSUME NEW m, NEW sequence \in Seq(1..m), NEW symbol \in 1..m
  PROVE  AddGlobal(sequence, symbol) \in Seq(1..m)
<1>1. Append(sequence, symbol) \in Seq(1..m)
  OBVIOUS
<1> QED
  BY <1>1 DEF AddGlobal

\* parse_global_declaration, of an object.
LEMMA ObjectStep ==
  ASSUME UnitInv, NEW d \in Declarations, DeclareObject(d), stage' = stage,
         declared' \in 0..MaxDeclarations
  PROVE  UnitInv'
<1> DEFINE n == Len(symbols)
           initialized == d.init # "none"
           tentative == ~initialized /\ d.storage # "extern"
           symbol == Number(d.name)
           known == Put(scope, d.name, symbol)
           all == Defined(d.name, FALSE, d.storage, initialized)
           m == Len(all)
           old == all[symbol].initializer
           new == CASE d.init = "none" -> old
                    [] d.init = "plain" -> Plain
                    [] d.init = "address" -> AddressOf(known[d.of])
           s == [all[symbol] EXCEPT !.initializer = new]
<1>1. /\ d.kind = "object" /\ (d.init = "address" => d.of \in DOMAIN known)
      /\ scope' = known
      /\ globals' = IF initialized \/ tentative THEN AddGlobal(globals, symbol) ELSE globals
      /\ claims' = Claim(d.name, initialized \/ tentative, d.storage = "static")
      /\ counters' = counters /\ main' = main /\ builder' = builder
  BY DEF DeclareObject
<1>2. symbols' = [all EXCEPT ![symbol] = s]
  BY DEF DeclareObject
<1>3. /\ n \in Nat /\ Table(symbols, n) /\ Scoped(scope, symbols) /\ globals \in Seq(1..n)
      /\ counters \in CountersType /\ main \in 0..n /\ builder \in BuilderType(n) /\ Bounded
      /\ Parts(claims) /\ Placed
  <2>1. n \in Nat
    BY DEF UnitInv, Table
  <2> QED
    BY <2>1 DEF UnitInv
<1>4. /\ d.name \in Names /\ SizeOf(d.name) \in Positive /\ d.storage \in Storages
      /\ d.init \in {"none", "plain", "address"} /\ FALSE \in BOOLEAN /\ initialized \in BOOLEAN
  BY <1>1, DeclarationTyped
<1> HIDE DEF initialized, n
<1>5. /\ m \in Nat /\ n <= m /\ Table(all, m) /\ symbol \in 1..m /\ Scoped(known, all)
  BY <1>3, <1>4, DefinedTable
<1>6. builder \in BuilderType(m) /\ globals \in Seq(1..m) /\ main \in 0..m
  BY <1>3, <1>5, Carried
<1> HIDE DEF known, all, symbol, m
<1>7. /\ all \in Seq(SymbolType) /\ Len(all) = m /\ all[symbol] \in SymbolType
      /\ \A i \in 1..m : all[i].initializer.target \in 0..m
  BY <1>5 DEF Table, m
<1>8. /\ known \in Partial(1..m) /\ \A x \in DOMAIN known : known[x] \in 1..m
      /\ \A x \in DOMAIN known : all[known[x]].name = x
  BY <1>5, <1>7, PartialDef DEF Scoped
<1>9. new \in [set : BOOLEAN, target : Nat] /\ new.target \in 0..m
  <2>1. CASE d.init = "none"
    <3>1. new = old
      BY <2>1
    <3>2. old \in [set : BOOLEAN, target : Nat] /\ old.target \in 0..m
      BY <1>5, <1>7 DEF SymbolType
    <3> QED
      BY <3>1, <3>2
  <2>2. CASE d.init = "plain"
    <3>1. new = Plain
      BY <2>2
    <3>2. Plain \in [set : BOOLEAN, target : Nat] /\ Plain.target = 0 /\ 0 \in 0..m
      BY <1>5 DEF Plain
    <3> HIDE DEF new
    <3> QED
      BY <3>1, <3>2
  <2>3. CASE d.init = "address"
    <3>1. new = AddressOf(known[d.of])
      BY <2>3
    <3>2. known[d.of] \in 1..m
      BY <1>1, <1>8, <2>3
    <3> DEFINE target == known[d.of]
    <3> HIDE DEF new, target
    <3>3. /\ AddressOf(target) \in [set : BOOLEAN, target : Nat]
          /\ AddressOf(target).target = target /\ target \in 0..m
      BY <1>5, <3>2 DEF AddressOf, target
    <3> QED
      BY <3>1, <3>3 DEF target
  <2> QED
    BY <1>4, <2>1, <2>2, <2>3
<1> HIDE DEF new
<1>10. s \in SymbolType /\ s.name = all[symbol].name /\ s.initializer = new
  BY <1>7, <1>9 DEF SymbolType
<1> HIDE DEF s
<1>11. /\ symbols' \in Seq(SymbolType) /\ Len(symbols') = m /\ symbols'[symbol] = s
       /\ \A i \in 1..m : i # symbol => symbols'[i] = all[i]
  BY <1>2, <1>5, <1>7, <1>10
<1>12. \A i \in 1..m : symbols'[i].name = all[i].name /\ symbols'[i].initializer.target \in 0..m
  BY <1>7, <1>9, <1>10, <1>11
<1>13. Table(symbols', m)
  BY <1>11, <1>12 DEF Table
<1>14. Scoped(known, symbols')
  BY <1>8, <1>11, <1>12 DEF Scoped
<1>15. globals' \in Seq(1..m)
  BY <1>1, <1>5, <1>6, AddGlobalType
<1>16. Parts(claims') /\ claims'.placed = claims.placed
  BY <1>1, <1>3, ClaimParts
<1>17. Placed' /\ Bounded'
  BY <1>1, <1>3, <1>16 DEF Placed, Bounded
<1> QED
  BY <1>1, <1>3, <1>6, <1>11, <1>13, <1>14, <1>15, <1>16, <1>17 DEF UnitInv

\* parse_global_declaration, of a function.
LEMMA PrototypeStep ==
  ASSUME UnitInv, NEW d \in Declarations, DeclareFunction(d), stage' = stage,
         declared' \in 0..MaxDeclarations
  PROVE  UnitInv'
<1> DEFINE n == Len(symbols)
           symbol == Number(d.name)
           known == Put(scope, d.name, symbol)
           all == Defined(d.name, TRUE, d.storage, FALSE)
           m == Len(all)
<1>1. /\ symbols' = all /\ scope' = known
      /\ claims' = Claim(d.name, FALSE, d.storage = "static")
      /\ globals' = globals /\ counters' = counters /\ main' = main /\ builder' = builder
  BY DEF DeclareFunction
<1>2. /\ n \in Nat /\ Table(symbols, n) /\ Scoped(scope, symbols) /\ globals \in Seq(1..n)
      /\ counters \in CountersType /\ main \in 0..n /\ builder \in BuilderType(n) /\ Bounded
      /\ Parts(claims) /\ Placed
  <2>1. n \in Nat
    BY DEF UnitInv, Table
  <2> QED
    BY <2>1 DEF UnitInv
<1>3. /\ d.name \in Names /\ SizeOf(d.name) \in Positive /\ d.storage \in Storages
      /\ FALSE \in BOOLEAN /\ TRUE \in BOOLEAN
  BY DeclarationTyped
<1> HIDE DEF n
<1>4. /\ m \in Nat /\ n <= m /\ Table(all, m) /\ Scoped(known, all)
  BY <1>2, <1>3, DefinedTable
<1>5. builder \in BuilderType(m) /\ globals \in Seq(1..m) /\ main \in 0..m
  BY <1>2, <1>4, Carried
<1> HIDE DEF known, all, symbol
<1>6. Parts(claims') /\ claims'.placed = claims.placed
  <2> DEFINE static == d.storage = "static"
             c == Claim(d.name, FALSE, static)
  <2>1. claims' = c
    BY <1>1
  <2> HIDE DEF static
  <2>2. Parts(c) /\ c.placed = claims.placed
    BY <1>2, Zenon, ClaimParts
  <2> HIDE DEF c
  <2> QED
    BY <2>1, <2>2 DEF Parts
<1>7. Placed' /\ Bounded'
  BY <1>1, <1>2, <1>6 DEF Placed, Bounded
<1> QED
  BY <1>1, <1>2, <1>4, <1>5, <1>6, <1>7 DEF UnitInv

\* parse_function_definition and ir_encoder_add_function.
LEMMA FunctionStep ==
  ASSUME UnitInv, NEW d \in Declarations, DefineFunction(d), stage' = stage,
         declared' \in 0..MaxDeclarations
  PROVE  UnitInv'
<1> DEFINE n == Len(symbols)
           function == Number(d.name)
           known == Put(scope, d.name, function)
           all == Defined(d.name, TRUE, d.storage, TRUE)
           k == Len(all)
           read == ReadBody(d, all, known)
           m == Len(read.symbols)
           start == builder.sections[TextSection].size
           size == CodeSize(read.uses)
           place == At(TextSection, start, size)
           claim == Claim(d.name, TRUE, d.storage = "static")
           Meant(i) == [section |-> TextSection, offset |-> start + ReferenceSize * (i - 1),
                        name |-> read.symbols[read.uses[i]].name]
           kept == {read.symbols[s].name : s \in ToSet(read.statics \o read.literals)}
           meant == claim.meant \cup {Meant(i) : i \in 1..Len(read.uses)}
           placed == Put(claims.placed, d.name, place)
<1>1. /\ d.kind = "function" /\ Resolves(d.body, known) /\ Fits(start, size)
      /\ scope' = known /\ symbols' = read.symbols /\ counters' = read.counters
      /\ globals' = AddGlobals(globals, read.statics \o read.literals)
      /\ main' = (IF d.name = Main THEN function ELSE main)
      /\ builder' = Encoded(function, read.uses, read.symbols)
  BY DEF DefineFunction
<1>2. claims' = [claim EXCEPT !.meant = meant, !.owed = claim.owed \cup kept,
                              !.internal = claim.internal \cup kept,
                              !.placed = Put(claim.placed, d.name, place)]
  BY DEF DefineFunction
<1>3. /\ n \in Nat /\ Table(symbols, n) /\ Scoped(scope, symbols) /\ globals \in Seq(1..n)
      /\ counters \in CountersType /\ main \in 0..n /\ builder \in BuilderType(n) /\ Bounded
      /\ Parts(claims) /\ Placed
  <2>1. n \in Nat
    BY DEF UnitInv, Table
  <2> QED
    BY <2>1 DEF UnitInv
<1>4. /\ d.name \in Names /\ SizeOf(d.name) \in Positive /\ d.storage \in Storages
      /\ ItemsTyped(d.body) /\ TRUE \in BOOLEAN
  BY <1>1, DeclarationTyped
<1> HIDE DEF n
<1>5. /\ k \in Nat /\ n <= k /\ Table(all, k) /\ function \in 1..k /\ Scoped(known, all)
  BY <1>3, <1>4, DefinedTable
<1> HIDE DEF known, all, function
<1>6. /\ known \in Partial(1..k) /\ \A x \in DOMAIN known : known[x] \in 1..k
      /\ \A x \in DOMAIN known : all[known[x]].name = x
  BY <1>5, PartialDef DEF Scoped
<1>7. GoodBody(read, all, known, d.body, Len(d.body)) /\ read.counters \in CountersType
  BY <1>1, <1>3, <1>4, <1>5, <1>6, ReadBodyGood
<1> HIDE DEF read, k
<1>8. /\ m \in Nat /\ k <= m /\ Table(read.symbols, m) /\ \A i \in 1..k : read.symbols[i] = all[i]
      /\ read.uses \in Seq(1..m) /\ read.statics \in Seq(1..m) /\ read.literals \in Seq(1..m)
  <2>1. m \in Nat
    BY <1>7 DEF GoodBody, BodyType
  <2> QED
    BY <1>7, <2>1 DEF GoodBody, k
<1>9. n <= m /\ function \in 1..m /\ \A i \in 1..k : i \in 1..m
  BY <1>3, <1>5, <1>8
<1>10. builder \in BuilderType(m) /\ globals \in Seq(1..m) /\ main \in 0..m
  BY <1>3, <1>8, <1>9, Carried
<1>11. Scoped(known, read.symbols)
  <2>1. known \in Partial(1..m)
    BY <1>6, <1>9, PartialMore
  <2>2. \A x \in DOMAIN known : read.symbols[known[x]].name = x
    BY <1>6, <1>8
  <2> QED
    BY <2>1, <2>2 DEF Scoped
<1> HIDE DEF m
<1>12. /\ size \in Nat /\ builder' \in BuilderType(m)
       /\ \A t \in 1..3 : builder'.sections[t].size =
            IF t = TextSection THEN builder.sections[t].size + size ELSE builder.sections[t].size
  BY <1>1, <1>8, <1>9, <1>10, EncodedType
<1>13. globals' \in Seq(1..m)
  <2>1. read.statics \o read.literals \in Seq(1..m)
    BY <1>8
  <2> QED
    BY <1>1, <1>8, <1>10, <2>1, AddGlobalsType
<1>14. main' \in 0..m
  BY <1>1, <1>8, <1>9, <1>10
<1>15. TextSection \in 1..3 /\ DataSection \in 1..3 /\ DataSection # TextSection
  BY DEF TextSection, DataSection
<1>16. \A t \in 1..3 : builder.sections[t].size \in Nat
  BY <1>10, SectionsTyped
<1> HIDE DEF size
<1>17. /\ start \in Nat /\ Grown(builder, builder')
       /\ start + size <= builder'.sections[TextSection].size
  BY <1>12, <1>15, <1>16 DEF Grown
<1>18. Bounded'
  <2>1. builder'.sections[DataSection].size = builder.sections[DataSection].size
    BY <1>12, <1>15
  <2>2. builder'.sections[TextSection].size = start + size
    BY <1>12, <1>15
  <2>3. start + size <= MaxPayload
    <3>1. MaxPayload \in Nat
      BY ObjectFileAssumption
    <3> QED
      BY <1>1, <1>12, <1>17, <3>1 DEF Fits
  <2> QED
    BY <1>3, <2>1, <2>2, <2>3 DEF Bounded
<1>19. Parts(claim) /\ claim.placed = claims.placed
  <2> DEFINE static == d.storage = "static"
  <2>1. claim = Claim(d.name, TRUE, static)
    OBVIOUS
  <2> HIDE DEF static, claim
  <2> QED
    BY <1>3, <2>1, Zenon, ClaimParts
<1> HIDE DEF claim, meant, kept, place
<1>20. Parts(claims') /\ claims'.placed = placed
  <2>1. claims' = [owed |-> claim.owed \cup kept, seen |-> claim.seen,
                   internal |-> claim.internal \cup kept, meant |-> meant, placed |-> placed]
    BY <1>2, <1>19 DEF Parts
  <2> QED
    BY <2>1 DEF Parts
<1>21. Placed'
  <2>1. claims.placed \in Partial(PlaceType) /\ PlacedIn(builder, claims.placed)
    BY <1>3 DEF Placed
  <2>2. placed \in Partial(PlaceType) /\ PlacedIn(builder', placed)
    <3> DEFINE c == builder'
    <3>1. c \in BuilderType(m) /\ Grown(builder, c) /\ start + size <= c.sections[TextSection].size
      BY <1>12, <1>17
    <3> HIDE DEF c
    <3>2. builder.sections[TextSection].size <= start
      BY <1>17
    <3> HIDE DEF start
    <3>3. /\ Put(claims.placed, d.name, At(TextSection, start, size)) \in Partial(PlaceType)
          /\ PlacedIn(c, Put(claims.placed, d.name, At(TextSection, start, size)))
      BY <1>4, <1>8, <1>10, <1>12, <1>15, <1>17, <2>1, <3>1, <3>2, PlaceMore
    <3> QED
      BY <3>3 DEF place, c
  <2> QED
    BY <1>20, <2>2 DEF Placed
<1> QED
  BY <1>1, <1>7, <1>8, <1>11, <1>12, <1>13, <1>14, <1>18, <1>20, <1>21, UnitInv DEF UnitInv, m

\* ir_encoder_finish
LEMMA FinishStep ==
  ASSUME UnitInv, Finish
  PROVE  UnitInv'
<1> DEFINE n == Len(symbols)
           done == Provided(Emitted(Prepared))
           meant == claims.meant \cup Pointers(done.placed) \cup
                    {[section |-> TextSection, offset |-> done.placed[StartUp].offset,
                      name |-> Main] : s \in {StartUp} \cap DOMAIN done.placed}
<1>1. CASE /\ \A s \in {TextSection, DataSection} : Fits(done.builder.sections[s].size, 0)
           /\ stage' = "encoded" /\ builder' = done.builder
           /\ claims' = [claims EXCEPT !.placed = done.placed, !.meant = meant]
           /\ UNCHANGED <<declared, symbols, scope, globals, counters, main, file>>
  <2>1. /\ n \in Nat /\ Table(symbols, n) /\ globals \in Seq(1..n) /\ main \in 0..n
        /\ builder \in BuilderType(n) /\ Parts(claims)
        /\ claims.placed \in Partial(PlaceType) /\ PlacedIn(builder, claims.placed)
    <3>1. n \in Nat
      BY DEF UnitInv, Table
    <3> QED
      BY <3>1 DEF UnitInv, Placed
  <2> HIDE DEF n
  <2>2. done \in Works(n)
    BY <2>1, FinishedIn
  <2> HIDE DEF done, meant
  <2>3. /\ done.builder \in BuilderType(n) /\ done.placed \in Partial(PlaceType)
        /\ PlacedIn(done.builder, done.placed)
    BY <2>2, WorksDef
  <2>4. Parts(claims') /\ claims'.placed = done.placed
    <3>1. claims' = [owed |-> claims.owed, seen |-> claims.seen, internal |-> claims.internal,
                     meant |-> meant, placed |-> done.placed]
      BY <1>1, <2>1 DEF Parts
    <3> QED
      BY <3>1 DEF Parts
  <2>5. Placed'
    BY <1>1, <2>3, <2>4 DEF Placed
  <2>6. Bounded'
    BY <1>1 DEF Bounded, Fits
  <2>7. /\ symbols' = symbols /\ scope' = scope /\ globals' = globals /\ counters' = counters
        /\ main' = main /\ declared' = declared /\ stage' = "encoded" /\ builder' = done.builder
    BY <1>1
  <2> QED
    BY <2>3, <2>4, <2>5, <2>6, <2>7, UnitInv DEF UnitInv, n
<1>2. CASE Refuse
  BY <1>2, UnitInv DEF Refuse, UnitInv, Placed, Bounded
<1> HIDE DEF done, meant
<1> QED
  BY <1>1, <1>2 DEF Finish, done, meant

\* A new unit.
LEMMA UnitInit == Init => UnitInv
<1> SUFFICES ASSUME Init PROVE UnitInv
  OBVIOUS
<1>1. Table(symbols, Len(symbols)) /\ Len(symbols) = 0
  BY DEF Init, Table
<1>2. Scoped(scope, symbols)
  <2>1. DOMAIN scope = {} /\ scope = [x \in DOMAIN scope |-> scope[x]]
    BY DEF Init
  <2>2. scope \in Partial(1..Len(symbols))
    BY <2>1, PartialDef
  <2> QED
    BY <2>1, <2>2 DEF Scoped
<1>3. builder \in BuilderType(0) /\ Bounded
  <2>1. ASSUME NEW name \in ToSet(SectionNames), NEW kind \in Kinds, NEW align \in Nat
        PROVE  SectionOf(name, kind, align) \in SectionType /\ SectionOf(name, kind, align).size = 0
    BY DEF SectionOf, SectionType
  <2>2. \A i \in 1..3 : SectionNames[i] \in ToSet(SectionNames)
    BY UnitAssumption DEF ToSet
  <2>3. Text \in Kinds /\ Data \in Kinds /\ Bss \in Kinds
    BY DEF Text, Data, Bss, Kinds
  <2> DEFINE a == SectionOf(SectionNames[1], Text, 16)
             b == SectionOf(SectionNames[2], Data, 8)
             c == SectionOf(SectionNames[3], Bss, 8)
  <2>4. a \in SectionType /\ b \in SectionType /\ c \in SectionType /\ a.size = 0 /\ b.size = 0
    BY <2>1, <2>2, <2>3
  <2>5. builder = [sections |-> <<a, b, c>>, records |-> <<>>]
    BY DEF Init
  <2> HIDE DEF a, b, c
  <2>6. <<a, b, c>> \in [1..3 -> SectionType]
    BY <2>4
  <2>7. builder \in BuilderType(0)
    BY <2>5, <2>6 DEF BuilderType
  <2>8. Bounded
    BY <2>4, <2>5, ObjectFileAssumption DEF Bounded, TextSection, DataSection
  <2> QED
    BY <2>7, <2>8
<1>4. Parts(claims)
  BY DEF Init, Parts
<1>5. Placed
  <2> DEFINE placed == claims.placed
  <2>1. DOMAIN placed = {} /\ placed = [x \in DOMAIN placed |-> placed[x]]
    BY DEF Init
  <2> HIDE DEF placed
  <2>2. placed \in Partial(PlaceType)
    BY <2>1, PartialDef
  <2>3. PlacedIn(builder, placed)
    BY <2>1 DEF PlacedIn
  <2> QED
    BY <2>2, <2>3 DEF Placed, placed
<1>6. counters \in CountersType /\ globals \in Seq(1..Len(symbols)) /\ main \in 0..Len(symbols)
      /\ stage = "declarations" /\ declared \in 0..MaxDeclarations
  BY <1>1, UnitAssumption DEF Init, CountersType
<1> QED
  BY <1>1, <1>2, <1>3, <1>4, <1>5, <1>6 DEF UnitInv

\* Each declaration, and the end of the unit.
LEMMA UnitStep == UnitInv /\ [Next]_vars => UnitInv'
<1> SUFFICES ASSUME UnitInv, [Next]_vars PROVE UnitInv'
  OBVIOUS
<1>1. CASE Declare
  <2>1. PICK d \in Declarations :
          \/ /\ DeclareObject(d) \/ DeclareFunction(d) \/ DefineFunction(d)
             /\ declared' = declared + 1
             /\ UNCHANGED <<stage, file>>
          \/ Refused(d) /\ Refuse
    BY <1>1 DEF Declare
  <2>2. CASE Refuse
    BY <2>2 DEF Refuse, UnitInv, Placed, Bounded
  <2>3. CASE /\ DeclareObject(d) \/ DeclareFunction(d) \/ DefineFunction(d)
             /\ declared' = declared + 1 /\ UNCHANGED <<stage, file>>
    <3>1. declared' \in 0..MaxDeclarations /\ stage' = stage
      BY <1>1, <2>3, UnitAssumption DEF Declare, UnitInv
    <3> QED
      BY <2>3, <3>1, ObjectStep, PrototypeStep, FunctionStep
  <2> QED
    BY <2>1, <2>2, <2>3
<1>2. CASE Finish
  BY <1>2, FinishStep
<1>3. CASE Write
  BY <1>3 DEF Write, Refuse, UnitInv, Placed, Bounded
<1>4. CASE UNCHANGED vars
  BY <1>4 DEF vars, UnitInv, Placed, Bounded
<1> QED
  BY <1>1, <1>2, <1>3, <1>4 DEF Next

\* The inductive invariant.
THEOREM UnitInvariant == Spec => []UnitInv
BY UnitInit, UnitStep, PTL DEF Spec

\* Every name in scope is of the Symbol that has it, every Symbol a record or a
\* global is for is there, and what has bytes in the object fits: TypeOK.
THEOREM TypeCorrect == Spec => []TypeOK
<1>1. UnitInv => TypeOK
  <2> SUFFICES ASSUME UnitInv PROVE TypeOK
    OBVIOUS
  <2> DEFINE n == Len(symbols)
  <2>1. /\ n \in Nat /\ globals \in Seq(1..n) /\ main \in 0..n /\ builder \in BuilderType(n)
        /\ Scoped(scope, symbols) /\ Bounded
        /\ stage \in {"declarations", "encoded", "written", "refused"}
        /\ declared \in 0..MaxDeclarations
    BY DEF UnitInv, Table
  <2> HIDE DEF n
  <2>2. \A name \in DOMAIN scope : symbols[scope[name]].name = name
    BY <2>1 DEF Scoped
  <2>3. ToSet(globals) \subseteq Numbers \ {0} /\ main \in Numbers
    <3>1. ASSUME NEW x \in ToSet(globals) PROVE x \in 1..n
      BY <2>1, <3>1 DEF ToSet
    <3> QED
      BY <2>1, <3>1 DEF Numbers, n
  <2>4. Len(builder.sections) = 3
    <3>1. builder.sections \in [1..3 -> SectionType]
      BY <2>1, SectionsTyped
    <3>2. builder.sections \in Seq(SectionType)
      BY <3>1, SeqDef
    <3>3. DOMAIN builder.sections = 1..Len(builder.sections) /\ Len(builder.sections) \in Nat
      BY <3>2, LenProperties
    <3> QED
      BY <3>1, <3>3
  <2>5. \A i \in 1..Len(builder.records) :
          /\ builder.records[i].section \in 0..Len(builder.sections)
          /\ builder.records[i].source \in Numbers
    <3>1. \A i \in 1..Len(builder.records) : builder.records[i] \in RecordType(n)
      BY <2>1, SectionsTyped
    <3> QED
      BY <2>4, <3>1 DEF RecordType, Numbers, n
  <2>6. \A s \in {TextSection, DataSection} : builder.sections[s].size \in 0..MaxPayload
    <3>1. \A s \in {TextSection, DataSection} : s \in 1..3
      BY DEF TextSection, DataSection
    <3>2. \A s \in {TextSection, DataSection} : builder.sections[s].size \in Nat
      BY <2>1, <3>1, SectionsTyped
    <3>3. MaxPayload \in Nat
      BY ObjectFileAssumption
    <3> QED
      BY <2>1, <3>2, <3>3 DEF Bounded
  <2> QED
    BY <2>1, <2>2, <2>3, <2>5, <2>6 DEF TypeOK
<1> QED
  BY <1>1, UnitInvariant, PTL

\* No two functions, objects or services share a byte of the object, whatever was
\* declared in whatever order, and however many of them there are: StorageApart.
THEOREM StorageKeptApart == Spec => []StorageApart
<1>1. UnitInv => StorageApart
  <2> SUFFICES ASSUME UnitInv PROVE StorageApart
    OBVIOUS
  <2>1. PlacedIn(builder, claims.placed)
    BY DEF UnitInv, Placed
  <2> QED
    BY <2>1 DEF PlacedIn, StorageApart
<1> QED
  BY <1>1, UnitInvariant, PTL
=============================================================================
