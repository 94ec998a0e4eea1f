----------------------------- MODULE FiniteNumbers -----------------------------
(***************************************************************************)
(* Facts about finite sets of numbers that several proofs need: each place *)
(* in such a set has its number, and one of its members is the least.      *)
(***************************************************************************)
EXTENDS Integers, FiniteSets, Functions, FiniteSetTheorems, TLAPS

\* In a finite set of numbers each place has its number: counting from below is one to
\* one into 1..n, and so onto.
LEMMA EveryRank ==
  ASSUME NEW S, S \subseteq Nat, IsFiniteSet(S), NEW j \in 1..Cardinality(S)
  PROVE  \E i \in S : Cardinality({k \in S : k <= i}) = j
<1> DEFINE n == Cardinality(S)
           upto(i) == {k \in S : k <= i}
           rank == [i \in S |-> Cardinality(upto(i))]
<1>1. n \in Nat
  BY FS_CardinalityType
<1>2. ASSUME NEW i \in S
      PROVE  IsFiniteSet(upto(i)) /\ Cardinality(upto(i)) \in 1..n
  <2>1. upto(i) \in SUBSET S /\ i \in upto(i)
    OBVIOUS
  <2> HIDE DEF upto
  <2>2. IsFiniteSet(upto(i)) /\ Cardinality(upto(i)) <= n /\ Cardinality(upto(i)) \in Nat
    BY <1>1, <2>1, FS_Subset, FS_CardinalityType
  <2>3. Cardinality(upto(i)) # 0
    BY <2>1, <2>2, FS_EmptySet
  <2> QED
    BY <1>1, <2>2, <2>3
<1>3. ASSUME NEW i \in S, NEW k \in S, i < k
      PROVE  Cardinality(upto(i)) # Cardinality(upto(k))
  <2>0. k \in upto(k) /\ k \notin upto(i) /\ \A l \in upto(i) : l \in upto(k)
    BY <1>3
  <2>1. upto(i) \in SUBSET upto(k) /\ k \in upto(k) /\ k \notin upto(i)
    <3> HIDE DEF upto
    <3> QED
      BY <2>0
  <2> HIDE DEF upto
  <2>2. IsFiniteSet(upto(k))
    BY <1>2
  <2> QED
    BY <2>1, <2>2, FS_Subset
<1>4. rank \in Injection(S, 1..n)
  <2>1. rank \in [S -> 1..n]
    BY <1>2
  <2>2. \A i, k \in S : rank[i] = rank[k] => i = k
    <3> SUFFICES ASSUME NEW i \in S, NEW k \in S, i # k
                 PROVE  Cardinality(upto(i)) # Cardinality(upto(k))
      BY Zenon
    <3>1. i < k \/ k < i
      OBVIOUS
    <3> HIDE DEF upto
    <3> QED
      BY <3>1, <1>3
  <2> QED
    BY <2>1, <2>2 DEF Injection, IsInjective
<1>5. IsFiniteSet(1..n) /\ Cardinality(1..n) = n
  BY <1>1, FS_Interval
<1> HIDE DEF n, rank
<1>6. rank \in Surjection(S, 1..n)
  BY <1>4, <1>5, FS_Injection DEF n
<1>7. PICK i \in S : rank[i] = j
  BY <1>6 DEF Surjection, n
<1> QED
  BY <1>7 DEF rank

LEMMA Smallest ==
  ASSUME NEW S, S \subseteq Nat, IsFiniteSet(S), S # {}
  PROVE  \E m \in S : \A k \in S : m <= k
<1>1. Cardinality(S) \in Nat /\ Cardinality(S) # 0
  BY FS_CardinalityType, FS_EmptySet
<1>2. PICK m \in S : Cardinality({k \in S : k <= m}) = 1
  <2>1. 1 \in 1..Cardinality(S)
    BY <1>1
  <2> QED
    BY <2>1, EveryRank
<1> DEFINE T == {k \in S : k <= m}
<1>3. T \in SUBSET S /\ m \in T
  OBVIOUS
<1> HIDE DEF T
<1>4. PICK x : T = {x}
  BY <1>2, <1>3, FS_Subset, FS_Singleton DEF T
<1>5. T = {m}
  BY <1>3, <1>4
<1>6. \A k \in S : k <= m => k = m
  BY <1>5 DEF T
<1> QED
  BY <1>6
===============================================================================
