------------------------------ MODULE NatFacts -------------------------------
(***************************************************************************)
(* Facts about sets of natural numbers that the proofs about SST and       *)
(* segment ids rest on: the ids FlowDB hands out are one more than the     *)
(* largest in use, so there has to be a largest.                           *)
(***************************************************************************)
EXTENDS Integers, TLAPS, WellFoundedInduction

\* Every non-empty set of naturals has a least element.
LEMMA LeastNatural ==
    ASSUME NEW T \in SUBSET Nat, T # {}
    PROVE  \E x \in T : \A y \in T : x <= y
  <1> DEFINE R == {ss \in Nat \X Nat : ss[1] < ss[2]}
  <1>1. IsWellFoundedOn(R, Nat)
    BY NatLessThanWellFounded DEF OpToRel
  <1>2. PICK x \in T : \A y \in T : ~ (<<y, x>> \in R)
    <2> HIDE DEF R
    <2> QED
      BY <1>1, WFMin
  <1>3. \A y \in T : ~(y < x)
    BY <1>2
  <1> QED
    BY <1>3

\* Every non-empty set of naturals with an upper bound has a greatest element:
\* the least of its upper bounds.
LEMMA GreatestNatural ==
    ASSUME NEW S \in SUBSET Nat, S # {}, NEW b \in Nat, \A x \in S : x <= b
    PROVE  \E m \in S : \A x \in S : x <= m
  <1> DEFINE T == {n \in Nat : \A x \in S : x <= n}
  <1>1. PICK m \in T : \A n \in T : m <= n
    BY LeastNatural
  <1>2. m \in S
    <2> SUFFICES ASSUME m \notin S PROVE FALSE
      OBVIOUS
    <2>1. \A x \in S : x <= m - 1 /\ m - 1 \in Nat
      BY <1>1
    <2>2. m - 1 \in T
      BY <2>1
    <2> QED
      BY <1>1, <2>2
  <1> QED
    BY <1>1, <1>2

\* Induction up to c, with the set of the numbers that have a property in place
\* of the property.
LEMMA UpTo ==
    ASSUME NEW c \in Nat, NEW G, 0 \in G,
           \A k \in 0..c : k # c /\ k \in G => k + 1 \in G
    PROVE  \A k \in 0..c : k \in G
  <1> DEFINE Bad == {k \in 0..c : k \notin G}
  <1> SUFFICES ASSUME Bad # {} PROVE FALSE
    OBVIOUS
  <1>1. PICK m \in Bad : \A n \in Bad : m <= n
    <2>1. Bad \in SUBSET Nat
      OBVIOUS
    <2> HIDE DEF Bad
    <2> QED
      BY <2>1, LeastNatural
  <1>2. m # 0 /\ m - 1 \in 0..c /\ m - 1 # c /\ (m - 1) + 1 = m
    BY <1>1
  <1>3. m - 1 \in G
    BY <1>1, <1>2
  <1> QED
    BY <1>1, <1>2, <1>3
=============================================================================
