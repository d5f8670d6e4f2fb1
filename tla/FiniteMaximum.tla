----------------------------- MODULE FiniteMaximum -----------------------------
(***************************************************************************)
(* What is known of Max: the modules that number their rows by the         *)
(* greatest number so far cite it.                                         *)
(***************************************************************************)
EXTENDS Naturals, FiniteSetsExt, FiniteSetTheorems, TLAPS

\* A finite set of numbers that is not empty has a greatest one: a smallest set without one
\* would have it together with any element taken away.
LEMMA MaxOfFinite ==
  ASSUME NEW S, IsFiniteSet(S), S \subseteq Nat, S # {}
  PROVE  Max(S) \in S /\ \A n \in S : n <= Max(S)
<1> DEFINE Bounded(T) == \E m \in T : \A n \in T : n <= m
           Bad == {T \in SUBSET S : T # {} /\ ~Bounded(T)}
<1>1. Bad = {}
  <2> SUFFICES ASSUME Bad # {} PROVE FALSE
    OBVIOUS
  <2>1. IsWellFoundedOn(StrictSubsetOrdering(S), FiniteSubsetsOf(S))
    BY FS_StrictSubsetOrderingWellFounded
  <2>2. Bad \subseteq FiniteSubsetsOf(S)
    BY FS_FiniteSubsetsOfFinite
  <2>3. PICK T \in Bad : \A U \in Bad : ~(<<U, T>> \in StrictSubsetOrdering(S))
    BY <2>1, <2>2, WFMin
  <2>4. PICK x \in T : TRUE
    OBVIOUS
  <2> DEFINE U == T \ {x}
  <2>5. U \in SUBSET S /\ T \in SUBSET S /\ U \subseteq T /\ U # T /\ T \subseteq Nat
    BY <2>4
  <2>6. <<U, T>> \in StrictSubsetOrdering(S)
    BY <2>5 DEF StrictSubsetOrdering
  <2>7. U = {} \/ Bounded(U)
    BY <2>3, <2>5, <2>6
  <2>8. Bounded(T)
    <3>1. CASE U = {}
      BY <2>4, <2>5, <3>1
    <3>2. CASE Bounded(U)
      <4>1. PICK m \in U : \A n \in U : n <= m
        BY <3>2
      <4>2. m \in Nat /\ x \in Nat /\ m \in T /\ x \in T
        BY <2>4, <2>5
      <4>3. CASE x <= m
        BY <4>1, <4>2, <4>3
      <4>4. CASE m < x
        <5>1. \A n \in T : n <= x
          BY <2>5, <4>1, <4>2, <4>4
        <5> QED
          BY <4>2, <5>1
      <4> QED
        BY <4>2, <4>3, <4>4
    <3> QED
      BY <2>7, <3>1, <3>2
  <2> QED
    BY <2>3, <2>8
<1>2. Bounded(S)
  BY <1>1
<1> QED
  BY <1>2 DEF Max

=============================================================================
