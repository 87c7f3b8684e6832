---------------------------- MODULE NatSetLemmas ----------------------------
(***************************************************************************)
(* The least and the greatest element of a set of natural numbers, as Min  *)
(* and Max of FiniteSetsExt choose them.                                   *)
(***************************************************************************)
EXTENDS Integers, FiniteSetsExt, WellFoundedInduction, TLAPS

\* A non-empty set of naturals has a least element.
LEMMA LeastNatural ==
  ASSUME NEW S, S \subseteq Nat, S # {}
  PROVE  \E m \in S : \A k \in S : m <= k
<1>1. PICK m \in S : \A k \in S : ~ (<<k, m>> \in OpToRel(<, Nat))
  BY NatLessThanWellFounded, WFMin
<1>2. ASSUME NEW k \in S, k < m PROVE <<k, m>> \in OpToRel(<, Nat)
  BY <1>2 DEF OpToRel
<1>3. ASSUME NEW k \in S PROVE m <= k
  <2>1. m \in Nat /\ k \in Nat
    OBVIOUS
  <2>2. ~ (k < m)
    BY <1>1, <1>2
  <2>. QED BY <2>1, <2>2, SMT
<1>. QED BY <1>3

\* Max is the greatest element of a bounded non-empty set.
LEMMA MaxIn ==
  ASSUME NEW n \in Nat, NEW S \in SUBSET (0 .. n), S # {}
  PROVE  Max(S) \in S /\ \A y \in S : Max(S) >= y
<1>. DEFINE T == {n - x : x \in S}
<1>0. T \subseteq Nat /\ T # {}
  <2>1. \A x \in S : n - x \in Nat
    BY SMT
  <2>2. PICK x \in S : TRUE
    OBVIOUS
  <2>3. n - x \in T
    BY <2>2
  <2>. QED BY <2>1, <2>3, Zenon
<1>. HIDE DEF T
<1>1. PICK m \in T : \A k \in T : m <= k
  BY <1>0, LeastNatural
<1>2. PICK x \in S : m = n - x
  BY DEF T
<1>3. ASSUME NEW y \in S PROVE x >= y
  <2>1. m <= n - y
    BY <1>1 DEF T
  <2>. QED BY <2>1, <1>2
<1>4. \A y \in S : x >= y
  BY <1>3
<1>. QED BY <1>4, Zenon DEF Max

\* Min is the least element of a non-empty set.
LEMMA MinIn ==
  ASSUME NEW S, S \subseteq Nat, S # {}
  PROVE  Min(S) \in S /\ \A y \in S : Min(S) <= y
<1>1. PICK m \in S : \A k \in S : m <= k
  BY LeastNatural
<1>. QED BY <1>1, Zenon DEF Min
=============================================================================
