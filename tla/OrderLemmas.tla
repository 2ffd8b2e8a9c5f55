---------------------------- MODULE OrderLemmas ----------------------------
(***************************************************************************)
(* Every non-empty set of naturals has a least element, and a bounded one  *)
(* has a greatest.  The modules take minima and maxima of such sets to say *)
(* which sector or node an iteration reaches first, and where a sector's   *)
(* last node ends.                                                         *)
(***************************************************************************)
EXTENDS Integers, FiniteSetsExt, WellFoundedInduction, TLAPS

LEMMA LeastNatural ==
    ASSUME NEW S \in SUBSET Nat, S # {}
    PROVE  \E x \in S : \A y \in S : x <= y
<1> DEFINE R == OpToRel(<, Nat)
<1>1. PICK x \in S : \A y \in S : ~ (<<y, x>> \in R)
  <2>1. IsWellFoundedOn(R, Nat)
    BY NatLessThanWellFounded
  <2> HIDE DEF R
  <2>2. QED
    BY <2>1, WFMin
<1>2. \A y \in S : <<y, x>> \in R <=> y < x
  BY DEF OpToRel
<1>3. \A y \in S : ~ (y < x)
  BY <1>1, <1>2, Zenon
<1> HIDE DEF R
<1>4. \A y \in S : x <= y
  BY ONLY <1>3, x \in S, S \in SUBSET Nat, SMT
<1>5. QED
  BY ONLY <1>4, x \in S, Zenon

LEMMA MinOfNaturals ==
    ASSUME NEW S \in SUBSET Nat, S # {}
    PROVE  /\ Min(S) \in S
           /\ \A y \in S : Min(S) <= y
BY LeastNatural DEF Min

LEMMA MaxOfNaturals ==
    ASSUME NEW b \in Nat, NEW S \in SUBSET (0..b), S # {}
    PROVE  /\ Max(S) \in S
           /\ \A y \in S : y <= Max(S)
<1> DEFINE T == {b - x : x \in S}
<1>1. T \in SUBSET Nat /\ T # {}
  <2>1. \A x \in S : b - x \in Nat
    BY SMT
  <2>2. \A t \in T : t \in Nat
    BY ONLY <2>1, Zenon
  <2>3. PICK x \in S : TRUE
    BY ONLY S # {}, Zenon
  <2>4. b - x \in T
    BY ONLY x \in S, Zenon
  <2> HIDE DEF T
  <2>5. QED
    BY ONLY <2>2, <2>4, Zenon
<1>2. PICK t \in T : \A u \in T : t <= u
  <2> HIDE DEF T
  <2>1. QED
    BY <1>1, LeastNatural
<1>3. PICK x \in S : t = b - x
  OBVIOUS
<1>4. \A y \in S : x >= y
  <2> TAKE y \in S
  <2>1. t <= b - y
    BY <1>2
  <2>2. QED
    BY <1>3, <2>1
<1>5. QED
  BY <1>4 DEF Max
=============================================================================
