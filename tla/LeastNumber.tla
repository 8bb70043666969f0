---------------------------- MODULE LeastNumber ----------------------------
(***************************************************************************)
(* Induction over the natural numbers in a form the first-order provers    *)
(* can use: a set of naturals that is not empty has a least element.  It   *)
(* comes from the library's theorem that strict inclusion is well-founded  *)
(* on finite sets, applied to the intervals that start at 0.               *)
(***************************************************************************)
EXTENDS Integers, WellFoundedInduction, FiniteSetTheorems, TLAPS

\* What proofs about recursive definitions rest on: to show P for all numbers,
\* take the least one without it.
LEMMA LeastNatural ==
    ASSUME NEW T \in SUBSET Nat, T # {}
    PROVE  \E m \in T : \A k \in T : m <= k
<1> DEFINE R  == StrictSubsetOrdering(Nat)
           Up == {0 .. n : n \in T}
<1>1. Up \subseteq FiniteSubsetsOf(Nat)
  <2> SUFFICES ASSUME NEW n \in T PROVE 0 .. n \in FiniteSubsetsOf(Nat)
    BY Zenon
  <2>1. IsFiniteSet(0 .. n)
    BY SMT, FS_Interval
  <2>2. 0 .. n \in SUBSET Nat
    BY SMT
  <2> QED BY Zenon, <2>1, <2>2 DEF FiniteSubsetsOf
<1>2. PICK X \in Up : \A Y \in Up : ~(<<Y, X>> \in R)
  <2>1. Up # {}
    BY Zenon
  <2>2. IsWellFoundedOn(R, FiniteSubsetsOf(Nat))
    BY Zenon, FS_StrictSubsetOrderingWellFounded
  <2> HIDE DEF Up, R
  <2> QED BY Zenon, <1>1, <2>1, <2>2, WFMin
<1>3. PICK m \in T : X = 0 .. m
  BY Zenon
<1>4. ASSUME NEW k \in T, k < m PROVE FALSE
  <2>1. 0 .. k \in SUBSET Nat /\ 0 .. m \in SUBSET Nat /\ 0 .. k \subseteq 0 .. m
    BY SMT, <1>4
  <2>2. m \in 0 .. m /\ m \notin 0 .. k
    BY SMT, <1>4
  <2>3. <<0 .. k, X>> \in R
    BY Zenon, <1>3, <2>1, <2>2 DEF StrictSubsetOrdering
  <2> QED BY Zenon, <1>2, <2>3
<1> QED BY SMT, <1>4
=============================================================================
