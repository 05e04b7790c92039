---------------------------- MODULE PlacesProofs ----------------------------
(***************************************************************************)
(* What the operators of Places return, for every list: the lemmas that    *)
(* the proofs about devices and about partitions share.  Induction is on   *)
(* sets of numbers: a set that holds 0 and the successors of its members   *)
(* holds every number, since the least number it lacks would have a        *)
(* predecessor in it.                                                      *)
(***************************************************************************)
EXTENDS Places, FiniteSetTheorems, SequenceTheorems, WellFoundedInduction, TLAPS

Before == {pair \in Nat \X Nat : pair[1] < pair[2]}

\* A set of natural numbers that is not empty has a smallest member.
LEMMA Smallest ==
    ASSUME NEW S \in SUBSET Nat, S # {}
    PROVE  \E m \in S : \A i \in S : m <= i
<1>1. IsWellFoundedOn(Before, Nat)
  BY NatLessThanWellFounded DEF OpToRel, Before
<1>2. PICK m \in S : \A i \in S : <<i, m>> \notin Before
  BY <1>1, WFMin
<1>3. ASSUME NEW i \in S PROVE m <= i
  <2>1. ~(i < m)
    BY <1>2 DEF Before
  <2> QED BY <2>1
<1> QED BY <1>3

\* A set of places of a list that is not empty has a last one.
LEMMA Largest ==
    ASSUME NEW n \in Nat, NEW S \in SUBSET (1..n), S # {}
    PROVE  \E m \in S : \A i \in S : i <= m
<1> DEFINE R == {n - i : i \in S}
<1>1. R \in SUBSET Nat /\ R # {}
  <2>1. \A i \in S : n - i \in Nat
    OBVIOUS
  <2>2. PICK i \in S : TRUE
    OBVIOUS
  <2>3. n - i \in R
    BY <2>2
  <2> QED BY <2>1, <2>3
<1>2. PICK r \in R : \A q \in R : r <= q
  <2> HIDE DEF R
  <2> QED BY <1>1, Smallest
<1>3. PICK m \in S : r = n - m
  BY <1>2
<1>4. ASSUME NEW i \in S PROVE i <= m
  <2>1. r <= n - i
    BY <1>2
  <2> QED BY <1>3, <2>1
<1> QED BY <1>4

\* Induction, on a set of natural numbers.
LEMMA Counting ==
    ASSUME NEW S \in SUBSET Nat, 0 \in S, \A i \in S : i + 1 \in S
    PROVE  S = Nat
<1> SUFFICES ASSUME Nat \ S # {} PROVE FALSE
  OBVIOUS
<1>1. PICK m \in Nat \ S : \A i \in Nat \ S : m <= i
  BY Smallest
<1>2. m - 1 \in Nat /\ m - 1 \notin Nat \ S
  BY <1>1
<1> QED BY <1>1, <1>2

\* The numbers of a set can be put in order: first the smallest, then the others.
Increasing(p, n) == \A i, j \in 1..n : i < j => p[i] < p[j]

LEMMA CanBeOrdered ==
    ASSUME NEW S \in SUBSET Nat, IsFiniteSet(S)
    PROVE  \E p \in [1..Cardinality(S) -> S] : Increasing(p, Cardinality(S))
<1> DEFINE Orderable(n) == \A R \in SUBSET Nat : IsFiniteSet(R) /\ Cardinality(R) = n =>
              \E p \in [1..n -> R] : Increasing(p, n)
           T == {n \in Nat : Orderable(n)}
<1>1. 0 \in T
  <2> SUFFICES ASSUME NEW R \in SUBSET Nat PROVE \E p \in [1..0 -> R] : Increasing(p, 0)
    OBVIOUS
  <2>1. [i \in 1..0 |-> 0] \in [1..0 -> R]
    OBVIOUS
  <2>2. Increasing([i \in 1..0 |-> 0], 0)
    BY DEF Increasing
  <2> QED BY <2>1, <2>2
<1>2. ASSUME NEW n \in T PROVE n + 1 \in T
  <2> SUFFICES ASSUME NEW R \in SUBSET Nat, IsFiniteSet(R), Cardinality(R) = n + 1
               PROVE  \E p \in [1..(n + 1) -> R] : Increasing(p, n + 1)
    OBVIOUS
  <2>0. n \in Nat /\ Orderable(n)
    OBVIOUS
  <2>1. R # {}
    BY <2>0, FS_EmptySet
  <2>2. PICK m \in R : \A i \in R : m <= i
    BY <2>1, Smallest
  <2>3. IsFiniteSet(R \ {m}) /\ Cardinality(R \ {m}) = n
    BY <2>0, FS_RemoveElement
  <2>4. PICK q \in [1..n -> R \ {m}] : Increasing(q, n)
    BY <2>0, <2>3
  <2> DEFINE p == [i \in 1..(n + 1) |-> IF i = 1 THEN m ELSE q[i - 1]]
  <2>5. ASSUME NEW i \in 1..(n + 1), i # 1
        PROVE  i - 1 \in 1..n /\ p[i] = q[i - 1] /\ p[i] \in R \ {m}
    BY <2>0, <2>4, <2>5
  <2>6. p \in [1..(n + 1) -> R]
    BY <2>0, <2>2, <2>5
  <2>7. ASSUME NEW i \in 1..(n + 1), NEW j \in 1..(n + 1), i < j PROVE p[i] < p[j]
    <3>1. j # 1 /\ p[j] \in R \ {m} /\ p[j] = q[j - 1] /\ j - 1 \in 1..n
      BY <2>0, <2>5, <2>7
    <3>2. CASE i = 1
      <4>1. p[i] = m
        BY <3>2
      <4>2. p[j] \in Nat /\ m \in Nat /\ m <= p[j] /\ p[j] # m
        BY <2>2, <3>1
      <4> QED BY <4>1, <4>2
    <3>3. CASE i # 1
      <4>1. p[i] = q[i - 1] /\ i - 1 \in 1..n /\ i - 1 < j - 1
        BY <2>0, <2>5, <2>7, <3>3
      <4> QED BY <2>4, <3>1, <4>1 DEF Increasing
    <3> QED BY <3>2, <3>3
  <2>8. Increasing(p, n + 1)
    BY <2>7 DEF Increasing
  <2> QED BY <2>6, <2>8
<1>3. T = Nat
  BY <1>1, <1>2, Counting
<1>4. Cardinality(S) \in T
  BY <1>3, FS_CardinalityType
<1> QED BY <1>4

\* InOrder lists every number of the set, each once and in order.
LEMMA InOrderIs ==
    ASSUME NEW S \in SUBSET Nat, IsFiniteSet(S)
    PROVE  /\ Cardinality(S) \in Nat /\ InOrder(S) \in [1..Cardinality(S) -> S]
           /\ \A i, j \in 1..Cardinality(S) : i < j => InOrder(S)[i] < InOrder(S)[j]
           /\ \A m \in S : \E i \in 1..Cardinality(S) : InOrder(S)[i] = m
<1>1. Cardinality(S) \in Nat
  BY FS_CardinalityType
<1>2. \E p \in [1..Cardinality(S) -> S] :
         \A i, j \in 1..Cardinality(S) : i < j => p[i] < p[j]
  BY CanBeOrdered DEF Increasing
<1>3. /\ InOrder(S) \in [1..Cardinality(S) -> S]
      /\ \A i, j \in 1..Cardinality(S) : i < j => InOrder(S)[i] < InOrder(S)[j]
  BY <1>2 DEF InOrder
<1>4. \A m \in S : \E i \in 1..Cardinality(S) : InOrder(S)[i] = m
  <2>1. ASSUME NEW i \in 1..Cardinality(S), NEW j \in 1..Cardinality(S), i # j
        PROVE  InOrder(S)[i] # InOrder(S)[j]
    <3>1. i < j \/ j < i
      BY <1>1, <2>1
    <3>2. InOrder(S)[i] \in Nat /\ InOrder(S)[j] \in Nat
      BY <1>3
    <3> QED BY <1>3, <3>1, <3>2
  <2>2. InOrder(S) \in Injection(1..Cardinality(S), S)
    BY <1>3, <2>1 DEF Injection, IsInjective
  <2>3. Cardinality(1..Cardinality(S)) = Cardinality(S)
    BY <1>1, FS_Interval
  <2>4. InOrder(S) \in Surjection(1..Cardinality(S), S)
    BY <2>2, <2>3, FS_Injection
  <2> QED BY <2>4 DEF Surjection
<1> QED BY <1>1, <1>3, <1>4

\* What is at some places of a list: entries of the list, one for each place.
LEMMA AtIs ==
    ASSUME NEW T, NEW list \in Seq(T), NEW places \in SUBSET DOMAIN list
    PROVE  /\ IsFiniteSet(places) /\ Cardinality(places) \in Nat
           /\ At(list, places) \in Seq(T) /\ Len(At(list, places)) = Cardinality(places)
           /\ \A k \in 1..Cardinality(places) :
                 InOrder(places)[k] \in places
                 /\ At(list, places)[k] = list[InOrder(places)[k]]
           /\ \A i \in places : \E k \in 1..Cardinality(places) : At(list, places)[k] = list[i]
<1>1. places \in SUBSET Nat /\ IsFiniteSet(places)
  <2>1. Len(list) \in Nat /\ DOMAIN list = 1..Len(list)
    OBVIOUS
  <2>2. IsFiniteSet(1..Len(list))
    BY <2>1, FS_Interval
  <2> QED BY <2>1, <2>2, FS_Subset
<1>2. /\ Cardinality(places) \in Nat
      /\ InOrder(places) \in [1..Cardinality(places) -> places]
      /\ \A m \in places : \E i \in 1..Cardinality(places) : InOrder(places)[i] = m
  BY <1>1, InOrderIs
<1>3. At(list, places) \in [1..Cardinality(places) -> T]
  BY <1>2 DEF At
<1>4. At(list, places) \in Seq(T) /\ Len(At(list, places)) = Cardinality(places)
  <2>1. At(list, places) \in Seq(T)
    BY <1>2, <1>3, SeqDef
  <2> QED BY <1>2, <1>3, <2>1, LenProperties
<1> QED BY <1>1, <1>2, <1>4 DEF At
=============================================================================
