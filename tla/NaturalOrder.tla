----------------------------- MODULE NaturalOrder -----------------------------
(* Least elements of sets of natural numbers, for the proofs about Backlog's *)
(* First and SkillRelease's Latest and Bumped.                               *)
EXTENDS Naturals, WellFoundedInduction, TLAPS

Smaller == {pair \in Nat \X Nat : pair[1] < pair[2]}

\* A non-empty set of natural numbers has a least element.
LEMMA LeastExists ==
    ASSUME NEW S \in SUBSET Nat, S # {}
    PROVE  \E m \in S : \A n \in S : m =< n
<1>1. Smaller = OpToRel(<, Nat)
  BY DEF Smaller, OpToRel
<1>2. IsWellFoundedOn(Smaller, Nat)
  BY <1>1, NatLessThanWellFounded
<1>3. PICK m \in S : \A n \in S : ~(<<n, m>> \in Smaller)
  BY <1>2, WFMin, Zenon
<1>4. \A n \in S : m =< n
  <2> SUFFICES ASSUME NEW n \in S, ~(m =< n) PROVE FALSE
    OBVIOUS
  <2>1. n \in Nat /\ m \in Nat /\ n < m
    OBVIOUS
  <2>2. <<n, m>> \in Smaller
    BY <2>1 DEF Smaller
  <2> QED BY <1>3, <2>2
<1> QED BY <1>4

\* A non-empty set of natural numbers with an upper bound has a greatest
\* element.
LEMMA GreatestExists ==
    ASSUME NEW N \in Nat, NEW S \in SUBSET (0 .. N), S # {}
    PROVE  \E m \in S : \A n \in S : n =< m
<1> DEFINE D == {d \in 0 .. N : N - d \in S}
<1>1. D \in SUBSET Nat
  OBVIOUS
<1>2. D # {}
  <2>1. PICK n \in S : TRUE
    OBVIOUS
  <2>2. N - n \in 0 .. N /\ N - (N - n) = n
    BY <2>1
  <2> QED BY <2>1, <2>2
<1>3. PICK d \in D : \A e \in D : d =< e
  <2> HIDE DEF D
  <2> QED BY <1>1, <1>2, LeastExists
<1>4. ASSUME NEW n \in S PROVE n =< N - d
  <2>1. n \in Nat /\ n =< N /\ N - n \in 0 .. N /\ N - (N - n) = n
    OBVIOUS
  <2>2. N - n \in D
    BY <2>1
  <2>3. d =< N - n /\ d \in Nat
    BY <1>3, <2>2
  <2> QED BY <2>1, <2>3
<1>5. N - d \in S
  BY <1>3
<1> QED BY <1>4, <1>5
=============================================================================
