------------------------------- MODULE MinMax -------------------------------
(***************************************************************************)
(* Facts about Min and Max of FiniteSetsExt.                               *)
(***************************************************************************)
EXTENDS Integers, FiniteSetsExt, FiniteSetTheorems, WellFoundedInduction, TLAPS

(* A nonempty set of naturals has a least element, which Min returns: the  *)
(* intervals 0 .. x are well-founded under strict inclusion.               *)
LEMMA MinProperty ==
  ASSUME NEW S, S \subseteq Nat, S # {}
  PROVE  Min(S) \in S /\ \A x \in S : Min(S) <= x
<1>. DEFINE T == {0 .. x : x \in S}
<1>1. T \subseteq FiniteSubsetsOf(Nat)
  <2>. SUFFICES ASSUME NEW x \in S PROVE IsFiniteSet(0 .. x)
    BY DEF FiniteSubsetsOf
  <2>. QED  BY FS_Interval
<1>2. PICK t \in T : \A u \in T : ~ (<<u, t>> \in StrictSubsetOrdering(Nat))
  <2>1. T # {}
    OBVIOUS
  <2>. HIDE DEF T
  <2>. QED  BY <1>1, <2>1, FS_StrictSubsetOrderingWellFounded, WFMin
<1>3. PICK x \in S : t = 0 .. x
  OBVIOUS
<1>4. ASSUME NEW y \in S PROVE x <= y
  <2>. SUFFICES ASSUME y < x PROVE FALSE
    OBVIOUS
  <2>1. 0 .. y \subseteq 0 .. x /\ 0 .. y # 0 .. x
    <3>1. x \in 0 .. x /\ x \notin 0 .. y
      OBVIOUS
    <3>. QED  BY <3>1
  <2>2. <<0 .. y, t>> \in StrictSubsetOrdering(Nat)
    BY <2>1, <1>3 DEF StrictSubsetOrdering
  <2>. QED  BY <1>2, <2>2
<1>5. \E m \in S : \A y \in S : m =< y
  BY <1>4
<1>. QED  BY <1>5 DEF Min

(* A bounded nonempty set of naturals has a greatest element. *)
LEMMA MaxProperty ==
  ASSUME NEW S, S \subseteq Nat, S # {}, NEW b \in Nat, \A x \in S : x <= b
  PROVE  Max(S) \in S /\ \A x \in S : x <= Max(S)
<1>. DEFINE T == {y \in Nat : \A x \in S : x <= y}
<1>1. T \subseteq Nat /\ b \in T
  OBVIOUS
<1>2. Min(T) \in T /\ \A y \in T : Min(T) <= y
  BY <1>1, MinProperty
<1>3. Min(T) \in S
  <2>. SUFFICES ASSUME Min(T) \notin S PROVE FALSE
    OBVIOUS
  <2>1. PICK x \in S : TRUE
    OBVIOUS
  <2>2. Min(T) \in Nat /\ Min(T) - 1 \in Nat
    BY <1>2, <2>1
  <2>3. Min(T) - 1 \in T
    BY <1>2, <2>2
  <2>. QED  BY <1>2, <2>2, <2>3
<1>4. \E x \in S : \A y \in S : x >= y
  BY <1>2, <1>3
<1>. QED  BY <1>4 DEF Max
=============================================================================
