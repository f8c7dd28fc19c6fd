---------------------------- MODULE SetInduction ----------------------------
(***************************************************************************)
(* Induction on the natural numbers over a set instead of a predicate, and *)
(* what follows from it for the recursive functions of the models: that    *)
(* their defining equations have a solution and determine it.              *)
(***************************************************************************)
EXTENDS Integers, TLAPS, WellFoundedInduction, FiniteSetTheorems

\* A set of natural numbers has a least element.
LEMMA LeastNatural ==
    ASSUME NEW S \in SUBSET Nat, S # {}
    PROVE  \E n \in S : \A m \in S : n <= m
<1> DEFINE R == OpToRel(<, Nat)
<1>1. IsWellFoundedOn(R, Nat)
  BY NatLessThanWellFounded
<1>2. \A n, m \in Nat : n < m => <<n, m>> \in R
  BY DEF OpToRel
<1> HIDE DEF R
<1>3. \E n \in S : \A m \in S : ~ (<<m, n>> \in R)
  BY <1>1, WFMin
<1>4. PICK n \in S : \A m \in S : ~ (<<m, n>> \in R)
  BY <1>3
<1>5. n \in Nat /\ \A m \in S : m \in Nat
  OBVIOUS
<1>6. \A m \in S : ~(m < n)
  BY <1>2, <1>4, <1>5
<1> QED
  BY <1>4, <1>5, <1>6

\* A set that holds 0 and the successor of what it holds holds every natural.
LEMMA InductionOverSet ==
    ASSUME NEW S, 0 \in S, \A n \in Nat : n \in S => n + 1 \in S
    PROVE  \A n \in Nat : n \in S
<1> DEFINE T == Nat \ S
<1>1. SUFFICES ASSUME T # {} PROVE FALSE
  OBVIOUS
<1>2. PICK n \in T : \A m \in T : n <= m
  BY <1>1, LeastNatural
<1>3. n # 0 /\ n - 1 \in Nat /\ n - 1 \notin T
  BY <1>2
<1>4. n - 1 + 1 \in S
  BY <1>3
<1> QED BY <1>2, <1>4

\* The same for the first numbers, each from all before it.
LEMMA InductionFromBelow ==
    ASSUME NEW N \in Nat, NEW S,
           \A n \in 1 .. N : (\A m \in 1 .. n - 1 : m \in S) => n \in S
    PROVE  \A n \in 1 .. N : n \in S
<1> DEFINE T == {n \in 1 .. N : n \notin S}
<1>1. SUFFICES ASSUME T # {} PROVE FALSE
  OBVIOUS
<1>2. T \in SUBSET Nat
  OBVIOUS
<1>3. PICK n \in T : \A m \in T : n <= m
  BY <1>1, <1>2, LeastNatural
<1>4. n \in 1 .. N /\ n \notin S
  OBVIOUS
<1>5. \A m \in 1 .. n - 1 : m \in S
  BY <1>3, <1>4
<1> QED BY <1>4, <1>5

\* A finite set of naturals that is not empty has a greatest element.
LEMMA GreatestNatural ==
    ASSUME NEW S \in SUBSET Nat, IsFiniteSet(S), S # {}
    PROVE  \E n \in S : \A m \in S : m <= n
<1>1. \E n \in Nat : \E f \in [1 .. n -> S] : \A x \in S : \E i \in 1 .. n : f[i] = x
  <2>1. ExistsBijection(1 .. Cardinality(S), S) /\ Cardinality(S) \in Nat
    BY FS_CardinalityType
  <2> QED BY <2>1 DEF ExistsBijection, Bijection, Surjection
<1>n. PICK N \in Nat : \E f \in [1 .. N -> S] : \A x \in S : \E i \in 1 .. N : f[i] = x
  BY <1>1
<1>f. PICK f \in [1 .. N -> S] : \A x \in S : \E i \in 1 .. N : f[i] = x
  BY <1>n
<1>2. \A i \in 1 .. N : i \in Nat /\ f[i] \in Nat
  <2>1. \A i \in 1 .. N : f[i] \in S
    OBVIOUS
  <2>2. \A x \in S : x \in Nat
    OBVIOUS
  <2>3. \A i \in 1 .. N : i \in Nat
    OBVIOUS
  <2> QED BY <2>1, <2>2, <2>3, Zenon
<1> DEFINE Bounded == {n \in Nat : \E k \in Nat : \A i \in 1 .. N : i <= n => f[i] <= k}
<1>3. 0 \in Bounded
  OBVIOUS
<1>4. ASSUME NEW n \in Nat, n \in Bounded PROVE n + 1 \in Bounded
  <2>1. PICK k \in Nat : \A i \in 1 .. N : i <= n => f[i] <= k
    BY <1>4
  <2>2. CASE n + 1 \in 1 .. N
    <3> DEFINE l == k + f[n + 1]
    <3>1. l \in Nat /\ k <= l /\ f[n + 1] <= l
      BY <1>2, <2>2
    <3>2. \A i \in 1 .. N : i <= n + 1 => f[i] <= l
      <4> TAKE i \in 1 .. N
      <4>1. f[i] \in Nat /\ i \in Nat
        BY <1>2
      <4>2. i <= n + 1 => i <= n \/ i = n + 1
        BY <4>1
      <4> HIDE DEF l
      <4> QED BY <2>1, <3>1, <4>1, <4>2
    <3> HIDE DEF l
    <3>3. n + 1 \in Nat
      OBVIOUS
    <3> QED BY <3>1, <3>2, <3>3
  <2>3. CASE n + 1 \notin 1 .. N
    <3>1. \A i \in 1 .. N : i <= n + 1 => i <= n
      BY <2>3
    <3>2. \A i \in 1 .. N : i <= n + 1 => f[i] <= k
      BY <2>1, <3>1
    <3>3. n + 1 \in Nat
      OBVIOUS
    <3> QED BY <3>2, <3>3
  <2> QED BY <2>2, <2>3
<1>5. \A n \in Nat : n \in Bounded
  <2> HIDE DEF Bounded
  <2> QED BY <1>3, <1>4, InductionOverSet
<1>6. PICK k \in Nat : \A x \in S : x <= k
  <2>1. N \in Bounded
    BY <1>5
  <2>2. PICK k \in Nat : \A i \in 1 .. N : i <= N => f[i] <= k
    BY <2>1
  <2>3. \A i \in 1 .. N : f[i] <= k
    BY <2>2
  <2>4. \A x \in S : x <= k
    BY <1>f, <2>3
  <2> QED BY <2>4
<1> DEFINE Below == {k - x : x \in S}
<1>7. Below \in SUBSET Nat /\ Below # {}
  <2>1. \A x \in S : k - x \in Nat
    <3>1. \A x \in S : x \in Nat /\ x <= k
      BY <1>6
    <3> QED BY <3>1
  <2> QED BY <2>1
<1>8. PICK b \in Below : \A c \in Below : b <= c
  BY <1>7, LeastNatural
<1>9. PICK n \in S : b = k - n
  BY <1>8
<1>10. \A m \in S : k - n <= k - m
  BY <1>8, <1>9
<1>11. \A m \in S : m \in Nat
  OBVIOUS
<1>12. \A m \in S : m <= n
  BY <1>10, <1>11
<1> QED BY <1>12
=============================================================================
