----------------------------- MODULE FiniteData -----------------------------
(***************************************************************************)
(* Facts about finite data, for the proofs: what MapThenSumSet, Min and    *)
(* RemoveFirst of the community modules return for a set or a sequence of  *)
(* any size.  MapThenSumSet is a recursive function on the subsets of its  *)
(* argument; that the recursion has a solution, and only one, follows from *)
(* the fact that strict inclusion is well-founded on the subsets of a      *)
(* finite set: a smallest subset without a property is what an induction   *)
(* would have stepped over.                                                *)
(***************************************************************************)
EXTENDS Integers, FiniteSets, Sequences, FiniteSetsExt, SequencesExt, FiniteSetTheorems,
        WellFoundedInduction, TLAPS

\* The sum of a function over a set.
SumOf(f, S) == MapThenSumSet(LAMBDA x : f[x], S)

Picked(s) == CHOOSE x \in s : TRUE

\* One unfolding of the recursion, and the function it defines.
Unfolded(g, f, s) == IF s = {} THEN 0 ELSE f[Picked(s)] + g[s \ {Picked(s)}]
IsSum(g, f, S) == g = [s \in SUBSET S |-> Unfolded(g, f, s)]

-----------------------------------------------------------------------------
\* A set of subsets of a finite set has a smallest member.
LEMMA SmallestSubset ==
  ASSUME NEW S, IsFiniteSet(S), NEW T \in SUBSET (SUBSET S), T # {}
  PROVE  \E x \in T : \A y \in T : ~(y \subseteq x /\ y # x)
<1>1. IsWellFoundedOn(StrictSubsetOrdering(S), FiniteSubsetsOf(S))
  BY FS_StrictSubsetOrderingWellFounded
<1>2. T \subseteq FiniteSubsetsOf(S)
  BY FS_FiniteSubsetsOfFinite
<1>3. PICK x \in T : \A y \in T : ~(<<y, x>> \in StrictSubsetOrdering(S))
  BY <1>1, <1>2, WFMin
<1> QED
  BY <1>3 DEF StrictSubsetOrdering

\* The element a nonempty set gives up first is one of its own.
LEMMA PickedIsMember == \A s : s # {} => Picked(s) \in s
BY DEF Picked

\* Two solutions agree wherever both are defined and their summands agree.
LEMMA SumIsUnique ==
  ASSUME NEW S, IsFiniteSet(S), NEW R, IsFiniteSet(R), NEW T \in SUBSET S, T \in SUBSET R,
         NEW f, NEW g, IsSum(g, f, S), NEW e, NEW h, IsSum(h, e, R),
         \A x \in T : f[x] = e[x]
  PROVE  g[T] = h[T]
<1> DEFINE Different == {s \in SUBSET T : g[s] # h[s]}
<1>1. SUFFICES ASSUME Different # {} PROVE FALSE
  OBVIOUS
<1>2. Different \in SUBSET (SUBSET S)
  OBVIOUS
<1> HIDE DEF Different
<1>3. PICK s \in Different : \A t \in Different : ~(t \subseteq s /\ t # s)
  BY <1>1, <1>2, SmallestSubset
<1>4. s \in SUBSET T /\ g[s] # h[s]
  BY <1>3 DEF Different
<1>5. g[s] = Unfolded(g, f, s) /\ h[s] = Unfolded(h, e, s)
  BY <1>4 DEF IsSum
<1>6. s # {}
  BY <1>4, <1>5 DEF Unfolded
<1>7. Picked(s) \in s
  BY <1>6, PickedIsMember
<1>8. f[Picked(s)] = e[Picked(s)]
  BY <1>4, <1>7
<1>9. g[s \ {Picked(s)}] # h[s \ {Picked(s)}]
  BY <1>4, <1>5, <1>6, <1>8 DEF Unfolded
<1>10. s \ {Picked(s)} \in Different
  BY <1>9, <1>4 DEF Different
<1> QED
  BY <1>10, <1>3, <1>7

\* The recursion has a solution, with natural numbers as values.
LEMMA SumExists ==
  ASSUME NEW S, IsFiniteSet(S), NEW f, \A x \in S : f[x] \in Nat
  PROVE  \E g \in [SUBSET S -> Nat] : IsSum(g, f, S)
<1> DEFINE Upto(g, n) == \A s \in SUBSET S : Cardinality(s) <= n => g[s] = Unfolded(g, f, s)
<1> DEFINE Unsolved == {T \in SUBSET S : ~ \E g \in [SUBSET S -> Nat] : Upto(g, Cardinality(T))}
<1>1. \A T \in SUBSET S : IsFiniteSet(T) /\ Cardinality(T) \in Nat
  BY FS_Subset, FS_CardinalityType
<1>2. ASSUME NEW g \in [SUBSET S -> Nat]
      PROVE  [s \in SUBSET S |-> Unfolded(g, f, s)] \in [SUBSET S -> Nat]
  <2> SUFFICES ASSUME NEW s \in SUBSET S PROVE Unfolded(g, f, s) \in Nat
    OBVIOUS
  <2>1. CASE s = {}
    BY <2>1 DEF Unfolded
  <2>2. CASE s # {}
    <3>1. Picked(s) \in s
      BY <2>2, PickedIsMember
    <3>2. f[Picked(s)] \in Nat /\ g[s \ {Picked(s)}] \in Nat
      BY <3>1, <1>2
    <3> QED
      BY <2>2, <3>2 DEF Unfolded
  <2> QED
    BY <2>1, <2>2
<1>3. Unsolved = {}
  <2>1. SUFFICES ASSUME Unsolved # {} PROVE FALSE
    OBVIOUS
  <2>2. Unsolved \in SUBSET (SUBSET S)
    OBVIOUS
  <2> HIDE DEF Unsolved
  <2>3. PICK T \in Unsolved : \A U \in Unsolved : ~(U \subseteq T /\ U # T)
    BY <2>1, <2>2, SmallestSubset
  <2>4. T \in SUBSET S /\ ~ \E g \in [SUBSET S -> Nat] : Upto(g, Cardinality(T))
    BY <2>3 DEF Unsolved
  <2>5. CASE T = {}
    <3> DEFINE zero == [s \in SUBSET S |-> 0]
    <3>1. zero \in [SUBSET S -> Nat]
      OBVIOUS
    <3>2. Upto(zero, Cardinality(T))
      <4> SUFFICES ASSUME NEW s \in SUBSET S, Cardinality(s) <= Cardinality(T)
                   PROVE  zero[s] = Unfolded(zero, f, s)
        OBVIOUS
      <4>1. s = {}
        BY <2>5, <1>1, FS_EmptySet
      <4> QED
        BY <4>1 DEF Unfolded
    <3> QED
      BY <3>1, <3>2, <2>4
  <2>6. CASE T # {}
    <3> DEFINE U == T \ {Picked(T)}
    <3>1. U \subseteq T /\ U # T /\ U \in SUBSET S
      BY <2>4, <2>6, PickedIsMember
    <3>2. Cardinality(U) = Cardinality(T) - 1
      BY <2>4, <2>6, <1>1, PickedIsMember, FS_RemoveElement
    <3> HIDE DEF U
    <3>3. U \notin Unsolved
      BY <2>3, <3>1
    <3>4. PICK g \in [SUBSET S -> Nat] : Upto(g, Cardinality(U))
      BY <3>3, <3>1 DEF Unsolved
    <3> DEFINE next == [s \in SUBSET S |-> Unfolded(g, f, s)]
    <3>5. next \in [SUBSET S -> Nat]
      BY <1>2
    <3>6. Upto(next, Cardinality(T))
      <4> SUFFICES ASSUME NEW s \in SUBSET S, Cardinality(s) <= Cardinality(T)
                   PROVE  next[s] = Unfolded(next, f, s)
        OBVIOUS
      <4>1. next[s] = Unfolded(g, f, s)
        OBVIOUS
      <4>2. CASE s = {}
        BY <4>2 DEF Unfolded
      <4>3. CASE s # {}
        <5> DEFINE t == s \ {Picked(s)}
        <5>1. t \in SUBSET S
          OBVIOUS
        <5>2. Cardinality(t) = Cardinality(s) - 1
          BY <4>3, <1>1, PickedIsMember, FS_RemoveElement
        <5>3. Cardinality(t) <= Cardinality(U)
          BY <5>2, <3>2, <1>1, <2>4, <3>1
        <5>4. g[t] = Unfolded(g, f, t)
          BY <5>1, <5>3, <3>4
        <5>5. next[t] = g[t]
          BY <5>1, <5>4
        <5> HIDE DEF next
        <5> QED
          BY <4>1, <4>3, <5>5 DEF Unfolded
      <4> QED
        BY <4>2, <4>3
    <3> QED
      BY <3>5, <3>6, <2>4
  <2> QED
    BY <2>5, <2>6
<1>4. PICK g \in [SUBSET S -> Nat] : Upto(g, Cardinality(S))
  BY <1>3
<1>5. \A s \in SUBSET S : Cardinality(s) <= Cardinality(S)
  BY FS_Subset
<1>6. \A s \in SUBSET S : g[s] = Unfolded(g, f, s)
  BY <1>4, <1>5
<1>7. IsSum(g, f, S)
  BY <1>6 DEF IsSum
<1> QED
  BY <1>7

\* What SumOf computes is the value of such a solution.
LEMMA SumIsSolution ==
  ASSUME NEW S, IsFiniteSet(S), NEW f, \A x \in S : f[x] \in Nat,
         NEW g, IsSum(g, f, S)
  PROVE  SumOf(f, S) = g[S]
<1> DEFINE chosen == CHOOSE h : IsSum(h, f, S)
<1>1. SumOf(f, S) = chosen[S]
  BY DEF SumOf, MapThenSumSet, MapThenFoldSet, IsSum, Unfolded, Picked
<1>2. IsSum(chosen, f, S)
  OBVIOUS
<1> HIDE DEF chosen
<1>3. chosen[S] = g[S]
  BY <1>2, SumIsUnique
<1> QED
  BY <1>1, <1>3

-----------------------------------------------------------------------------
(* The laws of sums                                                        *)

\* The sum over the empty set is zero.
LEMMA SumOfNothing == ASSUME NEW f PROVE SumOf(f, {}) = 0
<1>1. IsFiniteSet({})
  BY FS_EmptySet
<1>2. PICK g \in [SUBSET {} -> Nat] : IsSum(g, f, {})
  BY <1>1, SumExists
<1>3. SumOf(f, {}) = g[{}]
  BY <1>1, <1>2, SumIsSolution
<1> QED
  BY <1>2, <1>3 DEF IsSum, Unfolded

\* A sum of naturals is a natural.
LEMMA SumType ==
  ASSUME NEW S, IsFiniteSet(S), NEW f, \A x \in S : f[x] \in Nat
  PROVE  SumOf(f, S) \in Nat
<1>1. PICK g \in [SUBSET S -> Nat] : IsSum(g, f, S)
  BY SumExists
<1>2. SumOf(f, S) = g[S]
  BY <1>1, SumIsSolution
<1> QED
  BY <1>2

\* The sum depends only on the summands.
LEMMA SumCongruence ==
  ASSUME NEW S, IsFiniteSet(S), NEW f, NEW e,
         \A x \in S : f[x] \in Nat /\ e[x] = f[x]
  PROVE  SumOf(e, S) = SumOf(f, S)
<1>1. PICK g \in [SUBSET S -> Nat] : IsSum(g, f, S)
  BY SumExists
<1>2. PICK h \in [SUBSET S -> Nat] : IsSum(h, e, S)
  BY SumExists
<1>3. g[S] = h[S]
  BY <1>1, <1>2, SumIsUnique
<1> QED
  BY <1>1, <1>2, <1>3, SumIsSolution

TakesAny(g, f, S) == \A s \in SUBSET S : \A x \in s : g[s] = f[x] + g[s \ {x}]

\* Addition is commutative, so any member may be taken out first.
LEMMA SumTakesAny ==
  ASSUME NEW S, IsFiniteSet(S), NEW f, \A x \in S : f[x] \in Nat,
         NEW g \in [SUBSET S -> Nat], IsSum(g, f, S)
  PROVE  TakesAny(g, f, S)
<1> SUFFICES \A s \in SUBSET S : \A x \in s : g[s] = f[x] + g[s \ {x}]
  BY DEF TakesAny
<1> DEFINE Wrong == {s \in SUBSET S : \E x \in s : g[s] # f[x] + g[s \ {x}]}
<1>1. SUFFICES ASSUME Wrong # {} PROVE FALSE
  OBVIOUS
<1>2. Wrong \in SUBSET (SUBSET S)
  OBVIOUS
<1>3. \A s \in SUBSET S : s \notin Wrong => \A x \in s : g[s] = f[x] + g[s \ {x}]
  OBVIOUS
<1>4. \A s \in Wrong : s \in SUBSET S /\ \E x \in s : g[s] # f[x] + g[s \ {x}]
  OBVIOUS
<1> HIDE DEF Wrong
<1>5. PICK s \in Wrong : \A t \in Wrong : ~(t \subseteq s /\ t # s)
  BY <1>1, <1>2, SmallestSubset
<1>6. PICK x \in s : g[s] # f[x] + g[s \ {x}]
  BY <1>4, <1>5
<1>7. s \in SUBSET S
  BY <1>4, <1>5
<1> DEFINE y == Picked(s)
<1>8. y \in s
  BY <1>6, PickedIsMember
<1>9. g[s] = f[y] + g[s \ {y}]
  BY <1>6, <1>7 DEF IsSum, Unfolded
<1> HIDE DEF y
<1>10. x # y
  BY <1>6, <1>9
<1>11. s \ {x} \notin Wrong /\ s \ {y} \notin Wrong
  BY <1>5, <1>6, <1>8
<1>12. g[s \ {y}] = f[x] + g[(s \ {y}) \ {x}]
  BY <1>3, <1>6, <1>7, <1>10, <1>11
<1>13. g[s \ {x}] = f[y] + g[(s \ {x}) \ {y}]
  BY <1>3, <1>7, <1>8, <1>10, <1>11
<1>14. (s \ {y}) \ {x} = (s \ {x}) \ {y}
  OBVIOUS
<1>15. f[x] \in Nat /\ f[y] \in Nat /\ g[(s \ {x}) \ {y}] \in Nat
  BY <1>6, <1>7, <1>8
<1>16. g[s \ {y}] = f[x] + g[(s \ {x}) \ {y}]
  BY <1>12, <1>14
<1>17. g[s] = f[y] + (f[x] + g[(s \ {x}) \ {y}])
  BY <1>9, <1>16
<1>18. f[x] + g[s \ {x}] = f[x] + (f[y] + g[(s \ {x}) \ {y}])
  BY <1>13
<1> HIDE DEF Wrong
<1>19. \A a, b, c \in Nat : a + (b + c) = b + (a + c)
  OBVIOUS
<1>20. f[y] + (f[x] + g[(s \ {x}) \ {y}]) = f[x] + (f[y] + g[(s \ {x}) \ {y}])
  BY <1>15, <1>19
<1> QED
  BY <1>6, <1>17, <1>18, <1>20

\* A sum splits into one term and the sum of the others.
LEMMA SumRemove ==
  ASSUME NEW S, IsFiniteSet(S), NEW f, \A x \in S : f[x] \in Nat, NEW x \in S
  PROVE  SumOf(f, S) = f[x] + SumOf(f, S \ {x})
<1>1. PICK g \in [SUBSET S -> Nat] : IsSum(g, f, S)
  BY SumExists
<1>2. SumOf(f, S) = g[S]
  BY <1>1, SumIsSolution
<1>3. IsFiniteSet(S \ {x})
  BY FS_RemoveElement
<1>4. PICK h \in [SUBSET (S \ {x}) -> Nat] : IsSum(h, f, S \ {x})
  BY <1>3, SumExists
<1>5. SumOf(f, S \ {x}) = h[S \ {x}]
  BY <1>3, <1>4, SumIsSolution
<1>6. g[S \ {x}] = h[S \ {x}]
  BY <1>1, <1>3, <1>4, SumIsUnique
<1>7. TakesAny(g, f, S)
  BY <1>1, SumTakesAny
<1>8. g[S] = f[x] + g[S \ {x}]
  BY <1>7 DEF TakesAny
<1> QED
  BY <1>2, <1>5, <1>6, <1>8

\* A new element adds its own term to the sum.
LEMMA SumAdd ==
  ASSUME NEW S, IsFiniteSet(S), NEW x, x \notin S, NEW f, \A y \in S \cup {x} : f[y] \in Nat
  PROVE  SumOf(f, S \cup {x}) = f[x] + SumOf(f, S)
<1>1. IsFiniteSet(S \cup {x})
  BY FS_AddElement
<1>2. (S \cup {x}) \ {x} = S
  OBVIOUS
<1> QED
  BY <1>1, <1>2, SumRemove, x \in S \cup {x}

\* A part of the set has at most the sum of the whole.
LEMMA SumMonotonic ==
  ASSUME NEW S, IsFiniteSet(S), NEW T \in SUBSET S, NEW f, \A x \in S : f[x] \in Nat
  PROVE  SumOf(f, T) <= SumOf(f, S)
<1> DEFINE Wrong == {s \in SUBSET S : T \subseteq s /\ ~(SumOf(f, T) <= SumOf(f, s))}
<1>1. SUFFICES ASSUME Wrong # {} PROVE FALSE
  OBVIOUS
<1>2. Wrong \in SUBSET (SUBSET S)
  OBVIOUS
<1>3. \A s \in SUBSET S : s \in Wrong <=> (T \subseteq s /\ ~(SumOf(f, T) <= SumOf(f, s)))
  OBVIOUS
<1> HIDE DEF Wrong
<1>4. PICK s \in Wrong : \A t \in Wrong : ~(t \subseteq s /\ t # s)
  BY <1>1, <1>2, SmallestSubset
<1>5. s \in SUBSET S /\ T \subseteq s /\ ~(SumOf(f, T) <= SumOf(f, s))
  BY <1>2, <1>3, <1>4
<1>6. IsFiniteSet(s) /\ IsFiniteSet(T)
  BY <1>5, FS_Subset
<1>7. SumOf(f, s) \in Nat /\ SumOf(f, T) \in Nat
  BY <1>5, <1>6, SumType
<1>8. PICK x \in s : x \notin T
  BY <1>5, <1>7
<1>9. SumOf(f, s) = f[x] + SumOf(f, s \ {x})
  BY <1>5, <1>6, SumRemove
<1>10. s \ {x} \notin Wrong
  BY <1>4
<1>11. SumOf(f, T) <= SumOf(f, s \ {x})
  BY <1>3, <1>5, <1>8, <1>10
<1>12. IsFiniteSet(s \ {x})
  BY <1>6, FS_RemoveElement
<1>13. SumOf(f, s \ {x}) \in Nat /\ f[x] \in Nat
  BY <1>5, <1>12, SumType
<1> QED
  BY <1>5, <1>7, <1>9, <1>11, <1>13

\* One summand changes.
LEMMA SumUpdate ==
  ASSUME NEW S, IsFiniteSet(S), NEW x \in S, NEW f, NEW e,
         \A y \in S : f[y] \in Nat /\ e[y] \in Nat,
         \A y \in S : y # x => e[y] = f[y]
  PROVE  SumOf(e, S) = SumOf(f, S) - f[x] + e[x]
<1>1. IsFiniteSet(S \ {x})
  BY FS_RemoveElement
<1>2. SumOf(f, S) = f[x] + SumOf(f, S \ {x})
  BY SumRemove
<1>3. SumOf(e, S) = e[x] + SumOf(e, S \ {x})
  BY SumRemove
<1>4. SumOf(e, S \ {x}) = SumOf(f, S \ {x})
  BY <1>1, SumCongruence
<1>5. SumOf(f, S \ {x}) \in Nat
  BY <1>1, SumType
<1> QED
  BY <1>2, <1>3, <1>4, <1>5

-----------------------------------------------------------------------------
(* Least and greatest numbers, folds                                       *)

\* A set of natural numbers that is not empty has a least one, and Min is it.
LEMMA LeastNatural ==
  ASSUME NEW F \in SUBSET Nat, F # {}
  PROVE  Min(F) \in F /\ \A y \in F : Min(F) <= y
<1>1. PICK x \in F : \A y \in F : ~(<<y, x>> \in OpToRel(<, Nat))
  BY NatLessThanWellFounded, WFMin
<1>0. OpToRel(<, Nat) = {ss \in Nat \X Nat : ss[1] < ss[2]}
  BY DEF OpToRel
<1>2. ASSUME NEW y \in F PROVE x <= y
  <2>0. <<y, x>> \in Nat \X Nat
    OBVIOUS
  <2>1. <<y, x>> \notin {ss \in Nat \X Nat : ss[1] < ss[2]}
    BY <1>0, <1>1
  <2> QED
    BY <2>0, <2>1
<1>3. \E z \in F : \A y \in F : z <= y
  BY <1>2
<1> QED
  BY <1>3 DEF Min

\* A set of indices that is not empty has a greatest one, and Max is it.
LEMMA GreatestIndex ==
  ASSUME NEW n \in Nat, NEW F \in SUBSET (1 .. n), F # {}
  PROVE  Max(F) \in F /\ \A y \in F : Max(F) >= y
<1> DEFINE Below == {n - x : x \in F}
<1>0. \A x \in 1 .. n : n - x \in Nat
  OBVIOUS
<1>1. Below \in SUBSET Nat /\ Below # {}
  BY <1>0
<1>2. Min(Below) \in Below /\ \A z \in Below : Min(Below) <= z
  BY <1>1, LeastNatural
<1>3. PICK x \in F : Min(Below) = n - x
  BY <1>2
<1>4. ASSUME NEW y \in F PROVE x >= y
  <2>1. n - x <= n - y
    BY <1>2, <1>3
  <2>2. x \in Int /\ y \in Int
    OBVIOUS
  <2> HIDE DEF Below
  <2> QED
    BY <2>1, <2>2
<1>5. \E z \in F : \A y \in F : z >= y
  BY <1>4
<1> QED
  BY <1>5 DEF Max

\* A fold of step over 1 .. n, one unfolding of it: as in FoldLeft, the last index
\* is the outermost.  The recursion has a solution whose values are in V.
FoldStep(g, step, base, s) == IF s = {} THEN base ELSE step[g[s \ {Max(s)}]][Max(s)]
IsFold(g, step, base, n) == \A s \in SUBSET (1 .. n) : g[s] = FoldStep(g, step, base, s)
StepsOver(V, n) == [V -> [1 .. n -> V]]
FoldsOver(V, n) == [SUBSET (1 .. n) -> V]

LEMMA FoldExists ==
  ASSUME NEW n \in Nat, NEW V, NEW base \in V, NEW step \in StepsOver(V, n)
  PROVE  \E g \in FoldsOver(V, n) : IsFold(g, step, base, n)
<1> USE DEF StepsOver, FoldsOver, IsFold
<1> DEFINE S == 1 .. n
           Upto(g, k) == \A s \in SUBSET S : Cardinality(s) <= k => g[s] = FoldStep(g, step, base, s)
           Unsolved == {T \in SUBSET S : ~ \E g \in [SUBSET S -> V] : Upto(g, Cardinality(T))}
<1>0. IsFiniteSet(S) /\ \A s \in SUBSET S : IsFiniteSet(s) /\ Cardinality(s) \in Nat
  <2>1. n \in Int /\ 1 \in Int
    OBVIOUS
  <2>2. IsFiniteSet(S)
    BY <2>1, FS_Interval
  <2> HIDE DEF S
  <2> QED
    BY <2>2, FS_Subset, FS_CardinalityType
<1>1. \A s \in SUBSET S : s # {} => Max(s) \in s
  BY GreatestIndex
<1>2. ASSUME NEW g \in [SUBSET S -> V]
      PROVE  [s \in SUBSET S |-> FoldStep(g, step, base, s)] \in [SUBSET S -> V]
  <2> SUFFICES ASSUME NEW s \in SUBSET S PROVE FoldStep(g, step, base, s) \in V
    OBVIOUS
  <2>1. CASE s = {}
    BY <2>1 DEF FoldStep
  <2>2. CASE s # {}
    <3>1. Max(s) \in S /\ g[s \ {Max(s)}] \in V
      BY <1>1, <2>2
    <3>2. \A v \in V : \A i \in S : step[v][i] \in V
      OBVIOUS
    <3>3. step[g[s \ {Max(s)}]][Max(s)] \in V
      BY ONLY <3>1, <3>2
    <3> QED
      BY <2>2, <3>3 DEF FoldStep
  <2> QED
    BY <2>1, <2>2
<1>3. Unsolved = {}
  <2>1. SUFFICES ASSUME Unsolved # {} PROVE FALSE
    OBVIOUS
  <2>2. Unsolved \in SUBSET (SUBSET S)
    OBVIOUS
  <2> HIDE DEF Unsolved, S
  <2>3. PICK T \in Unsolved : \A U \in Unsolved : ~(U \subseteq T /\ U # T)
    BY <1>0, <2>1, <2>2, SmallestSubset
  <2>4. T \in SUBSET S /\ ~ \E g \in [SUBSET S -> V] : Upto(g, Cardinality(T))
    BY <2>3 DEF Unsolved
  <2>5. CASE T = {}
    <3> DEFINE all == [s \in SUBSET S |-> base]
    <3>1. all \in [SUBSET S -> V]
      OBVIOUS
    <3>2. Upto(all, Cardinality(T))
      <4> SUFFICES ASSUME NEW s \in SUBSET S, Cardinality(s) <= Cardinality(T)
                   PROVE  all[s] = FoldStep(all, step, base, s)
        OBVIOUS
      <4>1. s = {}
        BY <1>0, <2>5, FS_EmptySet
      <4> QED
        BY <4>1 DEF FoldStep
    <3> QED
      BY <2>4, <3>1, <3>2
  <2>6. CASE T # {}
    <3> DEFINE U == T \ {Max(T)}
    <3>1. Max(T) \in T /\ U \subseteq T /\ U # T /\ U \in SUBSET S
      BY <1>1, <2>4, <2>6
    <3>2. Cardinality(U) = Cardinality(T) - 1
      BY <1>0, <2>4, <3>1, FS_RemoveElement
    <3> HIDE DEF U
    <3>3. U \notin Unsolved
      BY <2>3, <3>1
    <3>4. PICK g \in [SUBSET S -> V] : Upto(g, Cardinality(U))
      BY <3>1, <3>3 DEF Unsolved
    <3> DEFINE next == [s \in SUBSET S |-> FoldStep(g, step, base, s)]
    <3>5. next \in [SUBSET S -> V]
      BY <1>2
    <3>6. Upto(next, Cardinality(T))
      <4> SUFFICES ASSUME NEW s \in SUBSET S, Cardinality(s) <= Cardinality(T)
                   PROVE  next[s] = FoldStep(next, step, base, s)
        OBVIOUS
      <4>1. next[s] = FoldStep(g, step, base, s)
        OBVIOUS
      <4>2. CASE s = {}
        BY <4>1, <4>2 DEF FoldStep
      <4>3. CASE s # {}
        <5> DEFINE t == s \ {Max(s)}
        <5>1. t \in SUBSET S
          OBVIOUS
        <5>2. Cardinality(t) = Cardinality(s) - 1
          BY <1>0, <1>1, <4>3, FS_RemoveElement
        <5>3. Cardinality(t) <= Cardinality(U)
          <6>1. Cardinality(s) \in Nat /\ Cardinality(T) \in Nat
            BY <1>0, <2>4
          <6>2. Cardinality(s) <= Cardinality(T)
            OBVIOUS
          <6> QED
            BY ONLY <3>2, <5>2, <6>1, <6>2
        <5>4. g[t] = FoldStep(g, step, base, t)
          BY <3>4, <5>1, <5>3
        <5>5. next[t] = g[t]
          BY <5>1, <5>4
        <5> HIDE DEF next
        <5> QED
          BY <4>1, <4>3, <5>5 DEF FoldStep
      <4> QED
        BY <4>2, <4>3
    <3> QED
      BY <2>4, <3>5, <3>6
  <2> QED
    BY <2>5, <2>6
<1>4. PICK g \in [SUBSET S -> V] : Upto(g, Cardinality(S))
  BY <1>3
<1>5. \A s \in SUBSET S : Cardinality(s) <= Cardinality(S)
  BY <1>0, FS_Subset
<1> QED
  BY <1>4, <1>5

-----------------------------------------------------------------------------
(* Recursion over 0 .. n                                                   *)

\* What holds at first, and at each step after one where it holds, holds throughout.
LEMMA CountUp ==
  ASSUME NEW n \in Nat, NEW P, 0 \in P, \A k \in 1 .. n : k - 1 \in P => k \in P
  PROVE  \A k \in 0 .. n : k \in P
<1> DEFINE Bad == {k \in 0 .. n : k \notin P}
<1>1. SUFFICES ASSUME Bad # {} PROVE FALSE
  OBVIOUS
<1>2. Bad \in SUBSET Nat
  OBVIOUS
<1> HIDE DEF Bad
<1> DEFINE m == Min(Bad)
<1>3. m \in Bad /\ \A y \in Bad : m <= y
  BY <1>1, <1>2, LeastNatural
<1> HIDE DEF m
<1>4. m \in 0 .. n /\ m \notin P /\ \A y \in 0 .. n : y \notin P => m <= y
  BY <1>3 DEF Bad
<1>5. m \in 1 .. n /\ m - 1 \in 0 .. n /\ ~(m <= m - 1)
  BY <1>4
<1> QED
  BY <1>4, <1>5

\* A function that starts with first and takes n steps, whose values are in V.
Iterates(g, first, step, n) == g[0] = first /\ \A k \in 1 .. n : g[k] = step[g[k - 1]][k]

LEMMA IteratesExist ==
  ASSUME NEW n \in Nat, NEW V, NEW first \in V, NEW step \in StepsOver(V, n)
  PROVE  \E g \in [0 .. n -> V] : Iterates(g, first, step, n)
<1> DEFINE Upto(g, m) == g[0] = first /\ \A k \in 1 .. m : g[k] = step[g[k - 1]][k]
           Solved == {m \in 0 .. n : \E g \in [0 .. n -> V] : Upto(g, m)}
<1>1. \A v \in V : \A k \in 1 .. n : step[v][k] \in V
  BY DEF StepsOver
<1>2. 0 \in Solved
  <2> DEFINE g == [k \in 0 .. n |-> first]
  <2>1. g \in [0 .. n -> V] /\ Upto(g, 0) /\ 0 \in 0 .. n
    OBVIOUS
  <2> HIDE DEF g, Upto
  <2> QED
    BY <2>1
<1>3. ASSUME NEW m \in 1 .. n, m - 1 \in Solved PROVE m \in Solved
  <2>1. PICK g \in [0 .. n -> V] : Upto(g, m - 1)
    BY <1>3
  <2>2. m - 1 \in 0 .. n /\ m \in 0 .. n
    OBVIOUS
  <2>3. g[m - 1] \in V
    BY <2>2
  <2> DEFINE next == [g EXCEPT ![m] = step[g[m - 1]][m]]
  <2>4. next \in [0 .. n -> V]
    BY <1>1, <2>2, <2>3
  <2>5. next[m] = step[g[m - 1]][m] /\ \A k \in 0 .. n : k # m => next[k] = g[k]
    BY <2>2
  <2> HIDE DEF next
  <2>6. ASSUME NEW k \in 1 .. m PROVE next[k] = step[next[k - 1]][k]
    <3>1. k - 1 \in 0 .. n /\ k - 1 # m /\ k \in 0 .. n
      OBVIOUS
    <3>2. next[k - 1] = g[k - 1]
      BY <2>5, <3>1
    <3>3. CASE k = m
      BY <2>5, <3>2, <3>3
    <3>4. CASE k # m
      <4>1. k \in 1 .. m - 1
        BY <3>4
      <4> QED
        BY <2>1, <2>5, <3>1, <3>2, <3>4, <4>1
    <3> QED
      BY <3>3, <3>4
  <2>7. next[0] = first
    BY <2>1, <2>5
  <2> QED
    BY <2>2, <2>4, <2>6, <2>7
<1>4. n \in Solved
  <2> HIDE DEF Solved
  <2>1. \A m \in 1 .. n : m - 1 \in Solved => m \in Solved
    BY <1>3
  <2>2. \A m \in 0 .. n : m \in Solved
    BY <1>2, <2>1, CountUp
  <2> QED
    BY <2>2
<1> QED
  BY <1>4 DEF Iterates

\* Whatever takes these steps has its values in V.
LEMMA IteratesType ==
  ASSUME NEW n \in Nat, NEW V, NEW first \in V, NEW step \in StepsOver(V, n), NEW g,
         g[0] = first, \A k \in 1 .. n : g[k - 1] \in V => g[k] = step[g[k - 1]][k]
  PROVE  \A k \in 0 .. n : g[k] \in V
<1> DEFINE P == {k \in 0 .. n : g[k] \in V}
<1>1. 0 \in P
  OBVIOUS
<1>2. ASSUME NEW k \in 1 .. n, k - 1 \in P PROVE k \in P
  <2>1. g[k - 1] \in V /\ k \in 0 .. n
    BY <1>2
  <2>2. g[k] = step[g[k - 1]][k]
    BY <2>1
  <2> QED
    BY <2>1, <2>2 DEF StepsOver
<1> HIDE DEF P
<1>3. \A k \in 1 .. n : k - 1 \in P => k \in P
  BY <1>2
<1>4. \A k \in 0 .. n : k \in P
  BY <1>1, <1>3, CountUp
<1> QED
  BY <1>4 DEF P

-----------------------------------------------------------------------------
(* Sequences                                                               *)

\* Two sequences in a row.
LEMMA ConcatFacts ==
  ASSUME NEW S, NEW s \in Seq(S), NEW t \in Seq(S)
  PROVE  /\ s \o t \in Seq(S)
         /\ Len(s \o t) = Len(s) + Len(t)
         /\ \A i \in 1 .. Len(s) : (s \o t)[i] = s[i]
         /\ \A i \in 1 .. Len(t) : (s \o t)[Len(s) + i] = t[i]
OBVIOUS

\* A stretch of a sequence.
LEMMA SubSeqFacts ==
  ASSUME NEW S, NEW s \in Seq(S), NEW a \in 1 .. Len(s) + 1, NEW b \in 0 .. Len(s), a <= b + 1
  PROVE  /\ SubSeq(s, a, b) \in Seq(S)
         /\ Len(SubSeq(s, a, b)) = b - a + 1
         /\ \A i \in 1 .. b - a + 1 : SubSeq(s, a, b)[i] = s[a + i - 1]
OBVIOUS

\* What RemoveFirst leaves: everything but the first k, in the same order.
LEMMA RemoveFirstFacts ==
  ASSUME NEW S, NEW s \in Seq(S), NEW k
  PROVE  /\ RemoveFirst(s, k) \in Seq(S)
         /\ \/ /\ RemoveFirst(s, k) = s
               /\ \A i \in 1 .. Len(s) : s[i] # k
            \/ \E m \in 1 .. Len(s) :
                 /\ s[m] = k
                 /\ Len(RemoveFirst(s, k)) = Len(s) - 1
                 /\ \A i \in 1 .. Len(s) - 1 :
                      RemoveFirst(s, k)[i] = IF i < m THEN s[i] ELSE s[i + 1]
<1> DEFINE Found == {i \in 1 .. Len(s) : s[i] = k}
<1>1. CASE Found = {}
  BY <1>1 DEF RemoveFirst
<1>2. CASE Found # {}
  <2> DEFINE m == Min(Found)
  <2>0. Found \in SUBSET Nat
    OBVIOUS
  <2> HIDE DEF Found
  <2>1. m \in Found
    BY <1>2, <2>0, LeastNatural
  <2>2. m \in 1 .. Len(s) /\ s[m] = k
    BY <2>1 DEF Found
  <2>3. RemoveFirst(s, k) = SubSeq(s, 1, m - 1) \o SubSeq(s, m + 1, Len(s))
    BY <2>2, <1>2 DEF Found, RemoveFirst, RemoveAt, SelectInSeq
  <2> HIDE DEF m
  <2>4. /\ SubSeq(s, 1, m - 1) \in Seq(S)
        /\ Len(SubSeq(s, 1, m - 1)) = m - 1
        /\ \A i \in 1 .. m - 1 : SubSeq(s, 1, m - 1)[i] = s[i]
    BY <2>2
  <2>5. /\ SubSeq(s, m + 1, Len(s)) \in Seq(S)
        /\ Len(SubSeq(s, m + 1, Len(s))) = Len(s) - m
        /\ \A i \in 1 .. Len(s) - m : SubSeq(s, m + 1, Len(s))[i] = s[m + i]
    BY <2>2
  <2> DEFINE before == SubSeq(s, 1, m - 1)
             after == SubSeq(s, m + 1, Len(s))
             rest == RemoveFirst(s, k)
  <2> HIDE DEF before, after, rest
  <2>6. rest = before \o after
    BY <2>3 DEF before, after, rest
  <2>7. before \in Seq(S) /\ Len(before) = m - 1 /\ \A i \in 1 .. m - 1 : before[i] = s[i]
    BY <2>4 DEF before
  <2>8. /\ after \in Seq(S) /\ Len(after) = Len(s) - m
        /\ \A i \in 1 .. Len(s) - m : after[i] = s[m + i]
    BY <2>5 DEF after
  <2>9. rest \in Seq(S) /\ Len(rest) = Len(s) - 1
    BY <2>2, <2>6, <2>7, <2>8, ConcatFacts
  <2>10. ASSUME NEW i \in 1 .. Len(s) - 1 PROVE rest[i] = IF i < m THEN s[i] ELSE s[i + 1]
    <3>1. CASE i < m
      BY <2>2, <2>6, <2>7, <2>8, <3>1
    <3>2. CASE i >= m
      <4>1. PICK j \in 1 .. Len(s) - m : j = i - (m - 1)
        BY <2>2, <3>2
      <4>2. rest[m - 1 + j] = after[j]
        BY <2>2, <2>6, <2>7, <2>8, <4>1, ConcatFacts
      <4> QED
        BY <2>2, <2>8, <3>2, <4>1, <4>2
    <3> QED
      BY <2>2, <3>1, <3>2
  <2> QED
    BY <2>2, <2>9, <2>10 DEF rest
<1> QED
  BY <1>1, <1>2

=============================================================================
