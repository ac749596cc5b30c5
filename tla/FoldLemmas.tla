------------------------------ MODULE FoldLemmas ------------------------------
(***************************************************************************)
(* What the proofs need to know of the folds that the modules use, and of  *)
(* induction.  The steps of an induction and of a fold are given as sets   *)
(* and functions, so that the lemmas can be cited for any of them.         *)
(***************************************************************************)
EXTENDS FiniteSetsExt, FiniteSetTheorems, TLAPS

(***************************************************************************)
(* Induction on a natural number, the property being given as a set.       *)
(***************************************************************************)
LEMMA NatSetInduction ==
  ASSUME NEW G \in SUBSET Nat, 0 \in G, \A k \in G : k + 1 \in G
  PROVE  G = Nat
<1> SUFFICES ASSUME Nat \ G # {} PROVE FALSE
  OBVIOUS
<1>1. IsWellFoundedOn(OpToRel(<, Nat), Nat)
  BY NatLessThanWellFounded
<1> DEFINE B == Nat \ G
<1>2. B \subseteq Nat /\ B # {}
  OBVIOUS
<1>3. \E x \in B : \A y \in B : <<y, x>> \notin OpToRel(<, Nat)
  <2> HIDE DEF B
  <2> QED BY <1>1, <1>2, WFMin
<1>4. PICK x \in B : \A y \in B : <<y, x>> \notin OpToRel(<, Nat)
  BY <1>3
<1>5. \A y \in B : ~(y < x)
  BY <1>4 DEF OpToRel
<1>6. x # 0 /\ x - 1 \in Nat
  OBVIOUS
<1>7. x - 1 \in G
  BY <1>5, <1>6
<1> QED BY <1>7

(***************************************************************************)
(* Induction on the subsets of a finite set.                               *)
(***************************************************************************)
LEMMA SubsetInduction ==
  ASSUME NEW S, IsFiniteSet(S), NEW G \in SUBSET SUBSET S,
         \A U \in SUBSET S : (\A V \in SUBSET U : V # U => V \in G) => U \in G
  PROVE  G = SUBSET S
<1> SUFFICES ASSUME (SUBSET S) \ G # {} PROVE FALSE
  OBVIOUS
<1>1. IsWellFoundedOn(StrictSubsetOrdering(S), SUBSET S)
  <2>1. IsWellFoundedOn(StrictSubsetOrdering(S), FiniteSubsetsOf(S))
    BY FS_StrictSubsetOrderingWellFounded
  <2>2. FiniteSubsetsOf(S) = SUBSET S
    BY FS_FiniteSubsetsOfFinite
  <2> QED BY <2>1, <2>2, Zenon
<1> DEFINE B == (SUBSET S) \ G
<1>2. B \subseteq SUBSET S /\ B # {}
  OBVIOUS
<1>3. \E U \in B : \A V \in B : <<V, U>> \notin StrictSubsetOrdering(S)
  <2> HIDE DEF B
  <2> QED BY <1>1, <1>2, WFMin
<1>4. PICK U \in B : \A V \in B : <<V, U>> \notin StrictSubsetOrdering(S)
  BY <1>3
<1>5. \A V \in SUBSET U : V # U => V \in G
  BY <1>4 DEF StrictSubsetOrdering
<1> QED BY <1>5

(***************************************************************************)
(* Sets of indexes have a largest and a smallest element.                  *)
(***************************************************************************)
LEMMA MaxOfInterval ==
  ASSUME NEW a \in Nat, NEW b \in Nat, NEW S \in SUBSET (a .. b), S # {}
  PROVE  Max(S) \in S
<1> DEFINE HasMax == \E x \in S : \A y \in S : x >= y
           G == {k \in Nat : \A x \in S : b - x <= k => HasMax}
<1>1. 0 \in G
  <2> SUFFICES ASSUME NEW x \in S, b - x <= 0 PROVE HasMax
    OBVIOUS
  <2>1. \A y \in S : x >= y
    OBVIOUS
  <2> QED BY <2>1
<1>2. ASSUME NEW k \in G PROVE k + 1 \in G
  <2> SUFFICES ASSUME NEW x \in S, b - x <= k + 1, ~HasMax PROVE FALSE
    OBVIOUS
  <2>1. PICK y \in S : ~(x >= y)
    OBVIOUS
  <2>2. b - y <= k
    BY <2>1
  <2> QED BY <2>2
<1>3. G = Nat
  <2>1. G \in SUBSET Nat
    OBVIOUS
  <2> HIDE DEF G
  <2> QED BY <1>1, <1>2, <2>1, NatSetInduction
<1>4. PICK x \in S : TRUE
  OBVIOUS
<1>5. b - x \in Nat
  OBVIOUS
<1>6. b - x \in G
  <2> HIDE DEF G
  <2> QED BY <1>3, <1>5
<1>7. HasMax
  BY <1>5, <1>6
<1> QED BY <1>7 DEF Max

\* A set of integers within bounds has a least one.
LEMMA MinOfInterval ==
  ASSUME NEW a \in Nat, NEW b \in Nat, NEW S \in SUBSET (a .. b), S # {}
  PROVE  Min(S) \in S
<1> DEFINE HasMin == \E x \in S : \A y \in S : x <= y
           G == {k \in Nat : \A x \in S : x - a <= k => HasMin}
<1>1. 0 \in G
  <2> SUFFICES ASSUME NEW x \in S, x - a <= 0 PROVE HasMin
    OBVIOUS
  <2>1. \A y \in S : x <= y
    OBVIOUS
  <2> QED BY <2>1
<1>2. ASSUME NEW k \in G PROVE k + 1 \in G
  <2> SUFFICES ASSUME NEW x \in S, x - a <= k + 1, ~HasMin PROVE FALSE
    OBVIOUS
  <2>1. PICK y \in S : ~(x <= y)
    OBVIOUS
  <2>2. y - a <= k
    BY <2>1
  <2> QED BY <2>2
<1>3. G = Nat
  <2>1. G \in SUBSET Nat
    OBVIOUS
  <2> HIDE DEF G
  <2> QED BY <1>1, <1>2, <2>1, NatSetInduction
<1>4. PICK x \in S : TRUE
  OBVIOUS
<1>5. x - a \in Nat
  OBVIOUS
<1>6. x - a \in G
  <2> HIDE DEF G
  <2> QED BY <1>3, <1>5
<1>7. HasMin
  BY <1>5, <1>6
<1> QED BY <1>7 DEF Min

-----------------------------------------------------------------------------
(***************************************************************************)
(* fold is a fold over the finite set S: it starts with base and takes in  *)
(* the element c[U] of U last, by the function step.                       *)
(***************************************************************************)
IsChoice(c, S) == \A U \in SUBSET S : U # {} => c[U] \in U

CanFold(S, T, base, c, step) ==
    /\ IsFiniteSet(S)
    /\ base \in T
    /\ IsChoice(c, S)
    /\ \A x \in S, v \in T : step[x][v] \in T

IsFold(fold, S, T, base, c, step) ==
    /\ fold \in [SUBSET S -> T]
    /\ \A U \in SUBSET S :
          fold[U] = IF U = {} THEN base ELSE step[c[U]][fold[U \ {c[U]}]]

(***************************************************************************)
(* There is one, and it stays in the type of base if step does.            *)
(***************************************************************************)
LEMMA FoldExists ==
  ASSUME NEW S, NEW T, NEW base, NEW c, NEW step, CanFold(S, T, base, c, step)
  PROVE  \E fold : IsFold(fold, S, T, base, c, step)
<1> DEFINE Small(n) == {U \in SUBSET S : Cardinality(U) <= n}
           Good(g, n) == \A U \in Small(n) :
                            g[U] = IF U = {} THEN base ELSE step[c[U]][g[U \ {c[U]}]]
           G == {n \in Nat : \E g \in [Small(n) -> T] : Good(g, n)}
<1> USE DEF CanFold
<1>0. \A U \in SUBSET S : /\ IsFiniteSet(U) /\ Cardinality(U) \in Nat
                          /\ Cardinality(U) <= Cardinality(S)
                          /\ Cardinality(U) = 0 => U = {}
  BY FS_Subset, FS_CardinalityType, FS_EmptySet
<1>1. \A n \in Nat : \A U \in Small(n + 1) : U # {} =>
          c[U] \in S /\ U \ {c[U]} \in Small(n)
  <2> SUFFICES ASSUME NEW n \in Nat, NEW U \in Small(n + 1), U # {}
               PROVE  c[U] \in S /\ U \ {c[U]} \in Small(n)
    OBVIOUS
  <2>1. c[U] \in U
    BY DEF IsChoice
  <2>2. Cardinality(U \ {c[U]}) = Cardinality(U) - 1
    BY <1>0, <2>1, FS_RemoveElement
  <2> QED BY <1>0, <2>1, <2>2
<1>2. 0 \in G
  <2> DEFINE g == [U \in Small(0) |-> base]
  <2>1. \A U \in Small(0) : U = {}
    BY <1>0
  <2>2. Good(g, 0)
    BY <2>1
  <2>3. g \in [Small(0) -> T]
    OBVIOUS
  <2> QED BY <2>2, <2>3
<1>3. ASSUME NEW n \in G PROVE n + 1 \in G
  <2>1. PICK g \in [Small(n) -> T] : Good(g, n)
    BY <1>3
  <2> DEFINE h == [U \in Small(n + 1) |-> IF U = {} THEN base ELSE step[c[U]][g[U \ {c[U]}]]]
  <2>2. h \in [Small(n + 1) -> T]
    <3> SUFFICES ASSUME NEW U \in Small(n + 1) PROVE h[U] \in T
      OBVIOUS
    <3>1. U # {} => c[U] \in S /\ g[U \ {c[U]}] \in T
      BY <1>1
    <3> QED BY <3>1
  <2>3. \A U \in Small(n) : U \in Small(n + 1) /\ h[U] = g[U]
    <3> SUFFICES ASSUME NEW U \in Small(n) PROVE U \in Small(n + 1) /\ h[U] = g[U]
      OBVIOUS
    <3>1. U \in Small(n + 1)
      BY <1>0
    <3>2. g[U] = IF U = {} THEN base ELSE step[c[U]][g[U \ {c[U]}]]
      BY <2>1
    <3> QED BY <3>1, <3>2
  <2>4. Good(h, n + 1)
    <3> SUFFICES ASSUME NEW U \in Small(n + 1), U # {}
                 PROVE  h[U] = step[c[U]][h[U \ {c[U]}]]
      BY DEF Good
    <3>1. U \ {c[U]} \in Small(n)
      BY <1>1
    <3>2. h[U \ {c[U]}] = g[U \ {c[U]}]
      BY <3>1, <2>3
    <3> QED BY <3>2
  <2>5. n + 1 \in Nat /\ \E f \in [Small(n + 1) -> T] : Good(f, n + 1)
    <3> HIDE DEF Good, Small, h
    <3> QED BY <2>2, <2>4
  <2> QED BY <2>5
<1>4. G = Nat
  <2>1. G \in SUBSET Nat
    OBVIOUS
  <2> HIDE DEF G
  <2> QED BY <2>1, <1>2, <1>3, NatSetInduction
<1>5. Cardinality(S) \in Nat /\ Small(Cardinality(S)) = SUBSET S
  BY <1>0
<1>6. PICK g \in [SUBSET S -> T] : Good(g, Cardinality(S))
  <2>1. Cardinality(S) \in G
    BY <1>4, <1>5
  <2>2. \E g \in [Small(Cardinality(S)) -> T] : Good(g, Cardinality(S))
    <3> HIDE DEF Good, Small
    <3> QED BY <2>1
  <2> QED BY <2>2, <1>5
<1>7. IsFold(g, S, T, base, c, step)
  BY <1>5, <1>6 DEF IsFold
<1> QED BY <1>7

-----------------------------------------------------------------------------
(***************************************************************************)
(* Sums of natural numbers over a finite set: g[U] is the sum of w over    *)
(* the subset U of S, in the order that MapThenSumSet takes the elements.  *)
(***************************************************************************)
First(U) == CHOOSE x \in U : TRUE

IsSum(g, S, w) ==
    /\ g \in [SUBSET S -> Nat]
    /\ \A U \in SUBSET S : g[U] = IF U = {} THEN 0 ELSE w[First(U)] + g[U \ {First(U)}]

\* The weights of a finite set can be added.
LEMMA SumExists ==
  ASSUME NEW S, IsFiniteSet(S), NEW w \in [S -> Nat]
  PROVE  \E g : IsSum(g, S, w)
<1> DEFINE c == [U \in SUBSET S |-> First(U)]
           step == [x \in S |-> [v \in Nat |-> w[x] + v]]
<1>1. \A U \in SUBSET S : U # {} => First(U) \in U
  BY DEF First
<1>2. \A x \in S, v \in Nat : step[x][v] = w[x] + v /\ w[x] + v \in Nat
  OBVIOUS
<1>3. IsChoice(c, S)
  BY <1>1 DEF IsChoice
<1> HIDE DEF step
<1>4. CanFold(S, Nat, 0, c, step)
  BY <1>2, <1>3 DEF CanFold
<1>5. PICK g : IsFold(g, S, Nat, 0, c, step)
  <2> HIDE DEF c
  <2> QED BY <1>4, FoldExists
<1>6. IsSum(g, S, w)
  <2>1. g \in [SUBSET S -> Nat]
    BY <1>5 DEF IsFold
  <2>2. ASSUME NEW U \in SUBSET S
        PROVE  g[U] = IF U = {} THEN 0 ELSE w[First(U)] + g[U \ {First(U)}]
    <3>1. g[U] = IF U = {} THEN 0 ELSE step[c[U]][g[U \ {c[U]}]]
      BY <1>5 DEF IsFold
    <3>2. c[U] = First(U) /\ g[U \ {First(U)}] \in Nat
      BY <2>1
    <3> HIDE DEF c
    <3> QED BY <1>1, <1>2, <3>1, <3>2
  <2> QED BY <2>1, <2>2 DEF IsSum
<1> QED BY <1>6

\* In whatever order they are taken, from however large a set.
LEMMA SumUnique ==
  ASSUME NEW S, IsFiniteSet(S), NEW R, S \subseteq R, NEW g, NEW h, NEW w, NEW v,
         IsSum(g, S, w), IsSum(h, R, v), \A x \in S : w[x] = v[x] /\ w[x] \in Nat
  PROVE  g[S] = h[S]
<1> DEFINE G == {U \in SUBSET S : g[U] = h[U]}
<1>1. ASSUME NEW U \in SUBSET S, \A V \in SUBSET U : V # U => V \in G
      PROVE  U \in G
  <2>1. /\ g[U] = IF U = {} THEN 0 ELSE w[First(U)] + g[U \ {First(U)}]
        /\ h[U] = IF U = {} THEN 0 ELSE v[First(U)] + h[U \ {First(U)}]
    BY DEF IsSum
  <2>2. CASE U = {}
    BY <2>1, <2>2
  <2>3. CASE U # {}
    <3>1. First(U) \in U
      BY <2>3 DEF First
    <3>2. U \ {First(U)} \in G
      BY <1>1, <3>1
    <3> QED BY <2>1, <2>3, <3>1, <3>2
  <2> QED BY <2>2, <2>3
<1>2. G \in SUBSET SUBSET S
  OBVIOUS
<1>3. G = SUBSET S
  <2> HIDE DEF G
  <2> QED BY <1>1, <1>2, SubsetInduction
<1> QED BY <1>3

\* Any element can be taken out first.
LEMMA SumRemove ==
  ASSUME NEW S, IsFiniteSet(S), NEW w \in [S -> Nat], NEW g, IsSum(g, S, w), NEW x \in S
  PROVE  g[S] = w[x] + g[S \ {x}]
<1> DEFINE G == {U \in SUBSET S : \A y \in U : g[U] = w[y] + g[U \ {y}]}
<1>1. ASSUME NEW U \in SUBSET S, \A V \in SUBSET U : V # U => V \in G
      PROVE  U \in G
  <2> SUFFICES ASSUME NEW y \in U PROVE g[U] = w[y] + g[U \ {y}]
    OBVIOUS
  <2> DEFINE c == First(U)
  <2>1. c \in U
    BY DEF First
  <2>2. g[U] = w[c] + g[U \ {c}]
    BY DEF IsSum
  <2> HIDE DEF c
  <2>3. CASE y # c
    <3>1. U \ {c} \in G /\ U \ {y} \in G
      BY <1>1, <2>1
    <3>2. g[U \ {c}] = w[y] + g[(U \ {c}) \ {y}]
      BY <2>3, <3>1
    <3>3. g[U \ {y}] = w[c] + g[(U \ {y}) \ {c}]
      BY <2>1, <2>3, <3>1
    <3>4. (U \ {c}) \ {y} = (U \ {y}) \ {c}
      OBVIOUS
    <3>5. w[c] \in Nat /\ w[y] \in Nat /\ g[(U \ {c}) \ {y}] \in Nat
      BY <2>1 DEF IsSum
    <3> QED BY <2>2, <3>2, <3>3, <3>4, <3>5
  <2> QED BY <2>2, <2>3
<1>2. G \in SUBSET SUBSET S
  OBVIOUS
<1>3. G = SUBSET S
  <2> HIDE DEF G
  <2> QED BY <1>1, <1>2, SubsetInduction
<1> QED BY <1>3

-----------------------------------------------------------------------------
(***************************************************************************)
(* Sums of sums, and sums of few terms.                                    *)
(***************************************************************************)
\* The equation of MapThenSumSet.
Adds(iter, S, w) ==
    \A U \in SUBSET S : iter[U] = IF U = {} THEN 0 ELSE w[First(U)] + iter[U \ {First(U)}]

\* A function that satisfies it has the sum.
LEMMA SumFixpoint ==
  ASSUME NEW S, IsFiniteSet(S), NEW w \in [S -> Nat], NEW g, IsSum(g, S, w), NEW iter,
         Adds(iter, S, w)
  PROVE  iter[S] = g[S]
<1> DEFINE G == {U \in SUBSET S : iter[U] = g[U]}
<1>1. ASSUME NEW U \in SUBSET S, \A V \in SUBSET U : V # U => V \in G
      PROVE  U \in G
  <2>1. /\ g[U] = IF U = {} THEN 0 ELSE w[First(U)] + g[U \ {First(U)}]
        /\ iter[U] = IF U = {} THEN 0 ELSE w[First(U)] + iter[U \ {First(U)}]
    BY DEF IsSum, Adds
  <2>2. U # {} => First(U) \in U
    BY DEF First
  <2>3. U # {} => U \ {First(U)} \in G
    BY <1>1, <2>2
  <2> QED BY <2>1, <2>3
<1>2. G \in SUBSET SUBSET S
  OBVIOUS
<1>3. G = SUBSET S
  <2> HIDE DEF G
  <2> QED BY <1>1, <1>2, SubsetInduction
<1> QED BY <1>3

\* Sums add up.
LEMMA SumPlus ==
  ASSUME NEW S, IsFiniteSet(S), NEW v \in [S -> Nat], NEW w \in [S -> Nat],
         NEW both \in [S -> Nat], \A x \in S : both[x] = v[x] + w[x],
         NEW g, NEW h, NEW sum, IsSum(g, S, v), IsSum(h, S, w), IsSum(sum, S, both)
  PROVE  sum[S] = g[S] + h[S]
<1> DEFINE G == {U \in SUBSET S : sum[U] = g[U] + h[U]}
<1>1. ASSUME NEW U \in SUBSET S, \A V \in SUBSET U : V # U => V \in G
      PROVE  U \in G
  <2> DEFINE c == First(U)
             R == U \ {c}
  <2>1. /\ g[U] = IF U = {} THEN 0 ELSE v[c] + g[R]
        /\ h[U] = IF U = {} THEN 0 ELSE w[c] + h[R]
        /\ sum[U] = IF U = {} THEN 0 ELSE both[c] + sum[R]
    BY DEF IsSum
  <2>2. U # {} => c \in U
    BY DEF First
  <2> HIDE DEF c
  <2>3. CASE U # {}
    <3>1. R \in G /\ c \in S /\ R \in SUBSET S
      BY <1>1, <2>2, <2>3
    <3>2. g[R] \in Nat /\ h[R] \in Nat /\ v[c] \in Nat /\ w[c] \in Nat
      BY <3>1 DEF IsSum
    <3>3. sum[R] = g[R] + h[R] /\ both[c] = v[c] + w[c]
      BY <3>1
    <3> HIDE DEF R
    <3> QED BY <2>1, <2>3, <3>2, <3>3
  <2> QED BY <2>1, <2>3
<1>2. G \in SUBSET SUBSET S
  OBVIOUS
<1>3. G = SUBSET S
  <2> HIDE DEF G
  <2> QED BY <1>1, <1>2, SubsetInduction
<1> QED BY <1>3

\* Nothing adds up to nothing.
LEMMA SumZero ==
  ASSUME NEW S, IsFiniteSet(S), NEW w \in [S -> Nat], NEW g, IsSum(g, S, w),
         NEW T \in SUBSET S, \A x \in T : w[x] = 0
  PROVE  g[T] = 0
<1> DEFINE G == {U \in SUBSET S : U \subseteq T => g[U] = 0}
<1>1. ASSUME NEW U \in SUBSET S, \A V \in SUBSET U : V # U => V \in G
      PROVE  U \in G
  <2>1. g[U] = IF U = {} THEN 0 ELSE w[First(U)] + g[U \ {First(U)}]
    BY DEF IsSum
  <2>2. U # {} => First(U) \in U
    BY DEF First
  <2>3. U # {} => U \ {First(U)} \in G
    BY <1>1, <2>2
  <2> QED BY <2>1, <2>2, <2>3
<1>2. G \in SUBSET SUBSET S
  OBVIOUS
<1>3. G = SUBSET S
  <2> HIDE DEF G
  <2> QED BY <1>1, <1>2, SubsetInduction
<1> QED BY <1>3

\* A sum with one term that is not zero.
LEMMA SumOfOne ==
  ASSUME NEW S, IsFiniteSet(S), NEW w \in [S -> Nat], NEW g, IsSum(g, S, w),
         NEW a \in S, \A x \in S \ {a} : w[x] = 0
  PROVE  g[S] = w[a]
<1>1. g[S] = w[a] + g[S \ {a}]
  BY SumRemove
<1>2. g[S \ {a}] = 0
  BY SumZero
<1> QED BY <1>1, <1>2

\* The same with two.
LEMMA SumOfTwo ==
  ASSUME NEW S, IsFiniteSet(S), NEW w \in [S -> Nat], NEW g, IsSum(g, S, w),
         NEW a \in S, NEW b \in S, a # b, \A x \in S \ {a, b} : w[x] = 0
  PROVE  g[S] = w[a] + w[b]
<1> DEFINE R == S \ {a}
           v == [x \in R |-> w[x]]
<1>1. g[S] = w[a] + g[R]
  BY SumRemove
<1>2. R \subseteq S /\ IsFiniteSet(R) /\ v \in [R -> Nat] /\ b \in R
      /\ (\A x \in R : v[x] = w[x] /\ v[x] \in Nat) /\ (\A x \in R \ {b} : v[x] = 0)
  BY FS_Subset
<1> HIDE DEF R, v
<1>3. PICK h : IsSum(h, R, v)
  BY <1>2, SumExists
<1>4. h[R] = g[R]
  BY <1>2, <1>3, SumUnique
<1>5. h[R] = v[b]
  BY <1>2, <1>3, SumOfOne
<1> QED BY <1>1, <1>2, <1>4, <1>5

\* SumFunction is such a sum.
LEMMA FunctionSum ==
  ASSUME NEW S, IsFiniteSet(S), NEW w \in [S -> Nat]
  PROVE  \E g : IsSum(g, S, w) /\ SumFunction(w) = g[S]
<1> DEFINE Body(f) == [U \in SUBSET S |->
                        IF U = {} THEN 0
                        ELSE w[CHOOSE x \in U : TRUE] + f[U \ {CHOOSE x \in U : TRUE}]]
           iter == CHOOSE f : f = Body(f)
<1>1. SumFunction(w) = iter[S]
  <2>1. DOMAIN w = S
    OBVIOUS
  <2> QED
    BY <2>1 DEF SumFunction, SumFunctionOnSet, FoldFunctionOnSet, MapThenFoldSet
<1>2. PICK g : IsSum(g, S, w)
  BY SumExists
<1>3. g = Body(g)
  BY <1>2 DEF IsSum, First
<1>4. iter = Body(iter)
  <2> HIDE DEF Body
  <2> QED
    BY <1>3
<1> HIDE DEF iter
<1>5. Adds(iter, S, w)
  BY <1>4 DEF Adds, First
<1>6. iter[S] = g[S]
  <2> HIDE DEF Body
  <2> QED
    BY <1>2, <1>5, SumFixpoint
<1> QED
  BY <1>1, <1>2, <1>6
=============================================================================
