------------------------------ MODULE SetLemmas ------------------------------
(***************************************************************************)
(* Facts about finite sets of integers, such as the positions of a list,   *)
(* that the library of theorems does not have.                             *)
(***************************************************************************)
EXTENDS Integers, FiniteSetsExt, FiniteSetTheorems, WellFoundedInduction, TLAPS

(* A finite set of integers has a least and a greatest element: a smallest *)
(* set without one would still have none when an element is taken out.     *)
LEMMA Extremes ==
  ASSUME NEW S \in SUBSET Int, IsFiniteSet(S), S # {}
  PROVE  /\ \E x \in S : \A y \in S : x <= y
         /\ \E x \in S : \A y \in S : x >= y
<1> DEFINE Good(T) == /\ \E x \in T : \A y \in T : x <= y
                      /\ \E x \in T : \A y \in T : x >= y
           Without == {T \in FiniteSubsetsOf(S) : T # {} /\ ~Good(T)}
<1>1. SUFFICES ASSUME Without # {} PROVE FALSE
  BY DEF FiniteSubsetsOf
<1>2. PICK T \in Without : \A U \in Without : ~(<<U, T>> \in StrictSubsetOrdering(S))
  <2>1. IsWellFoundedOn(StrictSubsetOrdering(S), FiniteSubsetsOf(S))
    BY FS_StrictSubsetOrderingWellFounded
  <2>2. Without \subseteq FiniteSubsetsOf(S)
    OBVIOUS
  <2> HIDE DEF Without
  <2> QED
    BY <2>1, <2>2, <1>1, WFMin
<1>3. T \in SUBSET S /\ IsFiniteSet(T) /\ T # {} /\ ~Good(T)
  BY DEF FiniteSubsetsOf
<1>4. PICK x \in T : TRUE
  BY <1>3
<1> DEFINE U == T \ {x}
<1>5. U \in FiniteSubsetsOf(S) /\ <<U, T>> \in StrictSubsetOrdering(S)
  BY <1>3, <1>4, FS_RemoveElement DEF FiniteSubsetsOf, StrictSubsetOrdering
<1>6. U = {} \/ Good(U)
  BY <1>2, <1>5
<1>7. Good(T)
  BY <1>3, <1>4, <1>6
<1> QED
  BY <1>3, <1>7

LEMMA MinFacts ==
  ASSUME NEW S \in SUBSET Int, IsFiniteSet(S), S # {}
  PROVE  Min(S) \in S /\ \A y \in S : Min(S) <= y
BY Extremes DEF Min

LEMMA MaxFacts ==
  ASSUME NEW S \in SUBSET Int, IsFiniteSet(S), S # {}
  PROVE  Max(S) \in S /\ \A y \in S : Max(S) >= y
BY Extremes DEF Max

(* And so has any set of positions that is not empty.                      *)
LEMMA FirstPosition ==
  ASSUME NEW n \in Nat, NEW P \in SUBSET (1..n), P # {}
  PROVE  Min(P) \in P /\ \A i \in P : Min(P) <= i
<1>1. IsFiniteSet(P)
  <2>1. IsFiniteSet(1..n)
    BY FS_Interval
  <2> QED
    BY <2>1, FS_Subset
<1>2. P \in SUBSET Int
  OBVIOUS
<1> QED
  BY <1>1, <1>2, MinFacts
=============================================================================
