---------------------------- MODULE Sums_proofs ----------------------------
(***************************************************************************)
(* Sums over finite sets: the recursion behind the community modules'      *)
(* MapThenSumSet has a solution, and the sum is a natural number no larger *)
(* than as many times the largest member.  The inductions are over the     *)
(* natural numbers and over the finite subsets, each by a smallest         *)
(* counterexample.                                                         *)
(***************************************************************************)
EXTENDS FiniteSetTheorems, WellFoundedInduction, Integers, TLAPS

\* A set of subsets of a finite set that is not empty has a smallest member.
LEMMA SmallestSubset ==
    ASSUME NEW S, IsFiniteSet(S), NEW T \in SUBSET SUBSET S, T # {}
    PROVE  \E s \in T : \A t \in T : ~(t \subseteq s /\ t # s)
<1>1. FiniteSubsetsOf(S) = SUBSET S
  BY FS_FiniteSubsetsOfFinite
<1>2. IsWellFoundedOn(StrictSubsetOrdering(S), SUBSET S)
  BY <1>1, FS_StrictSubsetOrderingWellFounded
<1>3. PICK s \in T : \A t \in T : <<t, s>> \notin StrictSubsetOrdering(S)
  BY <1>2, WFMin
<1> QED
  BY <1>3 DEF StrictSubsetOrdering

---------------------------------------------------------------------------
(* The recursion of MapThenSumSet, on a domain of sets.                    *)

Pick(s) == CHOOSE x \in s : TRUE

\* f sums w over the sets of D.
SumsOn(f, w, D) ==
    f = [s \in D |-> IF s = {} THEN 0 ELSE w[Pick(s)] + f[s \ {Pick(s)}]]

Sized(S, k) == {s \in SUBSET S : Cardinality(s) <= k}

LEMMA PickSmaller ==
    ASSUME NEW S, IsFiniteSet(S), NEW s \in SUBSET S, s # {}
    PROVE  /\ Pick(s) \in s
           /\ s \ {Pick(s)} \in SUBSET S
           /\ s \ {Pick(s)} # s
           /\ Cardinality(s) \in Nat /\ Cardinality(s \ {Pick(s)}) \in Nat
           /\ Cardinality(s) = Cardinality(s \ {Pick(s)}) + 1
<1>1. Pick(s) \in s
  BY DEF Pick
<1>2. IsFiniteSet(s) /\ IsFiniteSet(s \ {Pick(s)})
  BY FS_Subset
<1>3. Cardinality(s \ {Pick(s)}) = Cardinality(s) - 1
  BY <1>1, <1>2, FS_RemoveElement
<1>4. Cardinality(s) \in Nat /\ Cardinality(s \ {Pick(s)}) \in Nat
  BY <1>2, FS_CardinalityType
<1> QED
  BY <1>1, <1>3, <1>4

\* Sums over sets of one element more.
LEMMA SumsExtend ==
    ASSUME NEW S, IsFiniteSet(S), NEW w, NEW k \in Nat, NEW f,
           SumsOn(f, w, Sized(S, k))
    PROVE  \E g : SumsOn(g, w, Sized(S, k + 1))
<1> DEFINE g == [s \in Sized(S, k + 1) |->
                    IF s = {} THEN 0 ELSE w[Pick(s)] + f[s \ {Pick(s)}]]
<1>1. ASSUME NEW s \in Sized(S, k + 1), s # {}
      PROVE  f[s \ {Pick(s)}] = g[s \ {Pick(s)}]
  <2> DEFINE t == s \ {Pick(s)}
  <2>1. t \in Sized(S, k) /\ t \in Sized(S, k + 1)
    BY <1>1, PickSmaller DEF Sized
  <2>2. f[t] = IF t = {} THEN 0 ELSE w[Pick(t)] + f[t \ {Pick(t)}]
    <3> HIDE DEF t
    <3> QED
      BY <2>1 DEF SumsOn
  <2>3. g[t] = IF t = {} THEN 0 ELSE w[Pick(t)] + f[t \ {Pick(t)}]
    <3> HIDE DEF t
    <3> QED
      BY <2>1
  <2> QED
    BY <2>2, <2>3
<1>2. g = [s \in Sized(S, k + 1) |->
              IF s = {} THEN 0 ELSE w[Pick(s)] + g[s \ {Pick(s)}]]
  <2> DEFINE h == [s \in Sized(S, k + 1) |->
                      IF s = {} THEN 0 ELSE w[Pick(s)] + g[s \ {Pick(s)}]]
  <2>1. \A s \in Sized(S, k + 1) : g[s] = h[s]
    <3> SUFFICES ASSUME NEW s \in Sized(S, k + 1) PROVE g[s] = h[s]
      OBVIOUS
    <3>1. g[s] = IF s = {} THEN 0 ELSE w[Pick(s)] + f[s \ {Pick(s)}]
      OBVIOUS
    <3>2. h[s] = IF s = {} THEN 0 ELSE w[Pick(s)] + g[s \ {Pick(s)}]
      <4> HIDE DEF g
      <4> QED
        OBVIOUS
    <3> HIDE DEF g, h
    <3> QED
      BY <3>1, <3>2, <1>1
  <2>2. g = [s \in Sized(S, k + 1) |-> g[s]]
    OBVIOUS
  <2>3. h = [s \in Sized(S, k + 1) |-> h[s]]
    <3> HIDE DEF g
    <3> QED
      OBVIOUS
  <2>4. g = h
    <3> HIDE DEF g, h
    <3> QED
      BY <2>1, <2>2, <2>3
  <2> HIDE DEF g
  <2> QED
    BY <2>4
<1> HIDE DEF g
<1> QED
  BY <1>2 DEF SumsOn

\* The recursion has a solution on all subsets of a finite set.
LEMMA SumExists ==
    ASSUME NEW S, IsFiniteSet(S), NEW w
    PROVE  \E f : SumsOn(f, w, SUBSET S)
<1> DEFINE Solved(k) == \E f : SumsOn(f, w, Sized(S, k))
           Unsolved == {s \in SUBSET S : ~Solved(Cardinality(s))}
<1>1. \A s \in SUBSET S : /\ IsFiniteSet(s) /\ Cardinality(s) \in Nat
                          /\ Cardinality(s) = 0 <=> s = {}
  BY FS_Subset, FS_CardinalityType, FS_EmptySet
<1>2. Solved(0)
  <2>1. Sized(S, 0) = {{}}
    BY <1>1 DEF Sized
  <2>2. SumsOn([s \in {{}} |-> 0], w, {{}})
    BY DEF SumsOn
  <2> QED
    BY <2>1, <2>2
<1>3. \A k \in Nat : Solved(k) => Solved(k + 1)
  BY SumsExtend
<1> HIDE DEF Solved
<1>4. Unsolved = {}
  <2>1. SUFFICES ASSUME Unsolved # {} PROVE FALSE
    OBVIOUS
  <2>2. PICK s \in Unsolved : \A t \in Unsolved : ~(t \subseteq s /\ t # s)
    <3>1. Unsolved \in SUBSET SUBSET S
      OBVIOUS
    <3> HIDE DEF Unsolved
    <3> QED
      BY <2>1, <3>1, SmallestSubset
  <2>3. s \in SUBSET S /\ ~Solved(Cardinality(s))
    OBVIOUS
  <2>4. s # {}
    BY <2>3, <1>1, <1>2
  <2>5. /\ s \ {Pick(s)} \in SUBSET S /\ s \ {Pick(s)} # s
        /\ Cardinality(s \ {Pick(s)}) \in Nat
        /\ Cardinality(s) = Cardinality(s \ {Pick(s)}) + 1
    BY <2>3, <2>4, PickSmaller
  <2>6. Solved(Cardinality(s \ {Pick(s)}))
    BY <2>2, <2>5
  <2> QED
    BY <2>3, <2>5, <2>6, <1>3
<1>5. Solved(Cardinality(S))
  BY <1>4
<1>6. Sized(S, Cardinality(S)) = SUBSET S
  BY FS_Subset DEF Sized
<1> QED
  BY <1>5, <1>6 DEF Solved

\* A sum of natural numbers is a natural number, and at most as many times a
\* bound on them.
LEMMA SumBounds ==
    ASSUME NEW S, IsFiniteSet(S), NEW w, NEW M \in Nat,
           \A x \in S : w[x] \in Nat /\ w[x] <= M,
           NEW f, SumsOn(f, w, SUBSET S)
    PROVE  f[S] \in Nat /\ f[S] <= Cardinality(S) * M
<1> DEFINE Bad == {s \in SUBSET S : ~(f[s] \in Nat /\ f[s] <= Cardinality(s) * M)}
<1>1. Bad = {}
  <2>1. SUFFICES ASSUME Bad # {} PROVE FALSE
    OBVIOUS
  <2>2. PICK s \in Bad : \A t \in Bad : ~(t \subseteq s /\ t # s)
    <3> HIDE DEF Bad
    <3>1. Bad \in SUBSET SUBSET S
      BY DEF Bad
    <3> QED
      BY <2>1, <3>1, SmallestSubset
  <2>3. s \in SUBSET S /\ ~(f[s] \in Nat /\ f[s] <= Cardinality(s) * M)
    OBVIOUS
  <2>4. f[s] = IF s = {} THEN 0 ELSE w[Pick(s)] + f[s \ {Pick(s)}]
    BY <2>3 DEF SumsOn
  <2>5. s # {}
    <3>1. 0 \in Nat /\ 0 <= 0 * M /\ Cardinality({}) = 0
      BY FS_EmptySet
    <3> QED
      BY <2>3, <2>4, <3>1
  <2> DEFINE t == s \ {Pick(s)}
  <2>6. /\ Pick(s) \in s /\ t \in SUBSET S /\ t # s
        /\ Cardinality(s) \in Nat /\ Cardinality(t) \in Nat
        /\ Cardinality(s) = Cardinality(t) + 1
    BY <2>3, <2>5, PickSmaller
  <2>7. f[t] \in Nat /\ f[t] <= Cardinality(t) * M
    BY <2>2, <2>6
  <2>8. w[Pick(s)] \in Nat /\ w[Pick(s)] <= M
    BY <2>3, <2>6
  <2>9. f[s] = w[Pick(s)] + f[t]
    BY <2>4, <2>5
  <2>10. (Cardinality(t) + 1) * M = Cardinality(t) * M + M /\ Cardinality(t) * M \in Nat
    BY <2>6
  <2> HIDE DEF t
  <2> QED
    BY <2>3, <2>6, <2>7, <2>8, <2>9, <2>10
<1> QED
  BY <1>1
===========================================================================
