------------------------------- MODULE SeqLemmas ------------------------------
(* Facts about the stack operations the evaluator is built from. *)
EXTENDS SequencesExt, Integers, SequenceTheorems, FiniteSetTheorems,
        WellFoundedInduction, TLAPS

(* Dropping results from the top of a stack. *)
LEMMA Prefix ==
  ASSUME NEW S, NEW s \in Seq(S), NEW n \in 0 .. Len(s)
  PROVE  /\ SubSeq(s, 1, Len(s) - n) \in Seq(S)
         /\ Len(SubSeq(s, 1, Len(s) - n)) = Len(s) - n
         /\ \A i \in 1 .. Len(s) - n : SubSeq(s, 1, Len(s) - n)[i] = s[i]
<1>1. Len(s) \in Nat
  BY LenProperties
<1>2. \A i \in 1 .. Len(s) - n : s[i] \in S
  BY <1>1, ElementOfSeq
<1> QED  BY <1>1, <1>2, SubSeqProperties

(* Popping a computation (UnsafeArenaReleaseLast). *)
LEMMA FrontLast ==
  ASSUME NEW S, NEW s \in Seq(S), s # <<>>
  PROVE  /\ Len(s) \in Nat \ {0}
         /\ Front(s) \in Seq(S) /\ Last(s) \in S /\ Last(s) = s[Len(s)]
         /\ Len(Front(s)) = Len(s) - 1
         /\ \A i \in 1 .. Len(s) - 1 : Front(s)[i] = s[i]
<1>1. Len(s) \in Nat \ {0}
  BY EmptySeq, LenProperties
<1>2. s[Len(s)] \in S
  BY <1>1, ElementOfSeq
<1>3. 1 \in 0 .. Len(s)
  BY <1>1
<1>4. /\ SubSeq(s, 1, Len(s) - 1) \in Seq(S)
      /\ Len(SubSeq(s, 1, Len(s) - 1)) = Len(s) - 1
      /\ \A i \in 1 .. Len(s) - 1 : SubSeq(s, 1, Len(s) - 1)[i] = s[i]
  BY <1>3, Prefix
<1> QED  BY <1>1, <1>2, <1>4 DEF Front, Last

(* Scheduling the elements of a list in reverse. *)
LEMMA ReverseType ==
  ASSUME NEW S, NEW s \in Seq(S)
  PROVE  /\ Reverse(s) \in Seq(S) /\ Len(Reverse(s)) = Len(s)
         /\ \A i \in 1 .. Len(s) : Reverse(s)[i] = s[Len(s) - i + 1]
<1>1. Len(s) \in Nat
  BY LenProperties
<1>2. \A i \in 1 .. Len(s) : s[Len(s) - i + 1] \in S
  BY <1>1, ElementOfSeq
<1>3. [i \in 1 .. Len(s) |-> s[(Len(s) - i) + 1]] \in [1 .. Len(s) -> S]
  BY <1>2
<1> QED  BY <1>1, <1>3 DEF Reverse

LEMMA ConcatType ==
  ASSUME NEW S, NEW s \in Seq(S), NEW t \in Seq(S)
  PROVE  /\ s \o t \in Seq(S)
         /\ Len(s) \in Nat /\ Len(t) \in Nat /\ Len(s \o t) = Len(s) + Len(t)
         /\ \A i \in 1 .. Len(s) : (s \o t)[i] = s[i]
         /\ \A i \in 1 .. Len(t) : (s \o t)[Len(s) + i] = t[i]
BY LenProperties, ConcatProperties

(* A non-empty set of indices has a greatest element. *)
LEMMA MaxOfIndices ==
  ASSUME NEW n \in Nat, NEW I \in SUBSET (1 .. n), I # {}
  PROVE  Max(I) \in I /\ \A j \in I : j <= Max(I)
<1> DEFINE D == {n - i : i \in I}
<1>1. D \subseteq Nat /\ D # {}
  <2>1. \A i \in I : n - i \in Nat
    OBVIOUS
  <2>2. PICK i \in I : TRUE
    OBVIOUS
  <2>3. n - i \in D
    OBVIOUS
  <2> QED  BY <2>1, <2>3
<1>2. PICK d \in D : \A e \in D : <<e, d>> \notin OpToRel(<, Nat)
  BY <1>1, NatLessThanWellFounded, WFMin
<1>3. \A e \in D : ~(e < d)
  BY <1>1, <1>2 DEF OpToRel
<1>4. PICK m \in I : d = n - m
  OBVIOUS
<1>5. \A j \in I : m >= j
  <2> TAKE j \in I
  <2>1. ~(n - j < n - m)
    BY <1>3, <1>4
  <2> QED  BY <2>1
<1>6. \E x \in I : \A y \in I : x >= y
  BY <1>5
<1> HIDE DEF D
<1> QED  BY <1>6 DEF Max
(* A non-empty set of indices has a least element. *)
LEMMA LeastIndex ==
  ASSUME NEW n \in Nat, NEW I \in SUBSET (1 .. n), I # {}
  PROVE  \E m \in I : \A j \in I : m <= j
<1>1. I \subseteq Nat
  OBVIOUS
<1>2. PICK m \in I : \A j \in I : <<j, m>> \notin OpToRel(<, Nat)
  BY <1>1, NatLessThanWellFounded, WFMin
<1>3. \A j \in I : ~(j < m)
  BY <1>1, <1>2 DEF OpToRel
<1>4. \A j \in I : m <= j
  BY <1>3
<1> QED  BY <1>4

(* The ranks of the elements of a finite set of indices: each is below the  *)
(* number of elements, and every number below it is the rank of one.        *)
LEMMA Ranks ==
  ASSUME NEW n \in Nat, NEW I \in SUBSET (1 .. n)
  PROVE  /\ Cardinality(I) \in Nat
         /\ \A i \in I : Cardinality({j \in I : j < i}) \in 0 .. Cardinality(I) - 1
         /\ \A i, k \in I : Cardinality({j \in I : j < i}) = Cardinality({j \in I : j < k}) => i = k
         /\ \A c \in 0 .. Cardinality(I) - 1 : \E i \in I : Cardinality({j \in I : j < i}) = c
<1> DEFINE below(i) == {j \in I : j < i}
           rank == [i \in I |-> Cardinality(below(i))]
<1>1. IsFiniteSet(I) /\ Cardinality(I) \in Nat
  <2>1. IsFiniteSet(1 .. n)
    BY FS_Interval
  <2>2. IsFiniteSet(I)
    BY <2>1, FS_Subset
  <2> QED  BY <2>2, FS_CardinalityType
<1>2. \A i \in I : IsFiniteSet(below(i)) /\ Cardinality(below(i)) \in Nat
  BY <1>1, FS_Subset, FS_CardinalityType
<1>3. \A i \in I : Cardinality(below(i)) < Cardinality(I)
  <2> SUFFICES ASSUME NEW i \in I  PROVE Cardinality(below(i)) < Cardinality(I)
    OBVIOUS
  <2>1. below(i) \in SUBSET I /\ i \notin below(i)
    OBVIOUS
  <2>2. Cardinality(below(i)) <= Cardinality(I) /\ Cardinality(I) # Cardinality(below(i))
    BY <1>1, <2>1, FS_Subset
  <2> QED  BY <1>1, <1>2, <2>2
<1>4. \A i, k \in I : i < k => Cardinality(below(i)) < Cardinality(below(k))
  <2> SUFFICES ASSUME NEW i \in I, NEW k \in I, i < k
               PROVE  Cardinality(below(i)) < Cardinality(below(k))
    OBVIOUS
  <2>1. below(i) \in SUBSET below(k) /\ i \in below(k) /\ i \notin below(i)
    <3>1. \A j \in I : j < i => j < k
      OBVIOUS
    <3>2. below(i) \in SUBSET below(k)
      BY <3>1
    <3>3. i \in below(k) /\ i \notin below(i)
      OBVIOUS
    <3> QED  BY <3>2, <3>3
  <2>2. /\ Cardinality(below(i)) <= Cardinality(below(k))
        /\ Cardinality(below(k)) # Cardinality(below(i))
    BY <1>2, <2>1, FS_Subset
  <2> QED  BY <1>2, <2>2
<1>5. \A i, k \in I : Cardinality(below(i)) = Cardinality(below(k)) => i = k
  <2> SUFFICES ASSUME NEW i \in I, NEW k \in I, i # k
               PROVE  Cardinality(below(i)) # Cardinality(below(k))
    OBVIOUS
  <2>1. i < k \/ k < i
    OBVIOUS
  <2> QED  BY <1>2, <1>4, <2>1
<1>6. \A i \in I : Cardinality(below(i)) \in 0 .. Cardinality(I) - 1
  BY <1>1, <1>2, <1>3
<1>7. \A c \in 0 .. Cardinality(I) - 1 : \E i \in I : Cardinality(below(i)) = c
  <2>1. rank \in [I -> 0 .. Cardinality(I) - 1]
    BY <1>6
  <2>2. rank \in Injection(I, 0 .. Cardinality(I) - 1)
    <3> HIDE DEF below
    <3> QED  BY <2>1, <1>5 DEF Injection, IsInjective
  <2>3. /\ IsFiniteSet(0 .. Cardinality(I) - 1)
        /\ Cardinality(0 .. Cardinality(I) - 1) = Cardinality(I)
    BY <1>1, FS_Interval
  <2>4. rank \in Surjection(I, 0 .. Cardinality(I) - 1)
    <3> HIDE DEF rank
    <3> QED  BY <2>2, <2>3, FS_Injection
  <2>5. \A c \in 0 .. Cardinality(I) - 1 : \E i \in I : rank[i] = c
    <3> HIDE DEF rank
    <3> QED  BY <2>4 DEF Surjection
  <2> QED  BY <2>5
<1> QED  BY <1>1, <1>5, <1>6, <1>7
===============================================================================
