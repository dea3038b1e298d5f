------------------------------ MODULE NumberSets ------------------------------
(***************************************************************************)
(* What the models' folds and sums compute, for the other modules' proofs: *)
(* the largest and the least of a set of numbers, induction, the existence *)
(* of what a fold over a finite set or a sequence stands for, and sums.    *)
(* An induction theorem cannot take the claim as an operator here, so      *)
(* induction is stated with the set of the arguments at which it holds.    *)
(***************************************************************************)
EXTENDS FiniteSetsExt, FiniteSetTheorems, Functions, Sequences, TLAPS

-----------------------------------------------------------------------------
(* The largest and the least *)

\* S has a largest and a least element.
HasExtremes(S) ==
    /\ \E x \in S : \A y \in S : x >= y
    /\ \E x \in S : \A y \in S : x <= y

\* An element more leaves a set with a largest and a least one.
LEMMA OneMore ==
    ASSUME NEW S \in SUBSET Nat, NEW x \in S, S \ {x} = {} \/ HasExtremes(S \ {x})
    PROVE  HasExtremes(S)
<1>1. CASE S \ {x} = {}
  BY <1>1 DEF HasExtremes
<1>2. CASE HasExtremes(S \ {x})
  <2>1. PICK high \in S \ {x} : \A y \in S \ {x} : high >= y
    BY <1>2 DEF HasExtremes
  <2>2. PICK low \in S \ {x} : \A y \in S \ {x} : low <= y
    BY <1>2 DEF HasExtremes
  <2>3. \E z \in S : \A y \in S : z >= y
    <3>1. CASE x >= high
      BY <2>1, <3>1
    <3>2. CASE high >= x
      BY <2>1, <3>2
    <3> QED
      BY <3>1, <3>2
  <2>4. \E z \in S : \A y \in S : z <= y
    <3>1. CASE x <= low
      BY <2>2, <3>1
    <3>2. CASE low <= x
      BY <2>2, <3>2
    <3> QED
      BY <3>1, <3>2
  <2> QED
    BY <2>3, <2>4 DEF HasExtremes
<1> QED
  BY <1>1, <1>2

\* The smallest non-empty subset without one would lose an element to a subset
\* that has one: induction over finite sets, by the order of their subsets.
LEMMA Extremes ==
    ASSUME NEW S \in SUBSET Nat, IsFiniteSet(S), S # {}
    PROVE  HasExtremes(S)
<1> DEFINE T == {U \in SUBSET S : U # {} /\ ~HasExtremes(U)}
           R == StrictSubsetOrdering(S)
<1> SUFFICES ASSUME T # {} PROVE FALSE
  OBVIOUS
<1>1. IsWellFoundedOn(R, FiniteSubsetsOf(S))
  BY FS_StrictSubsetOrderingWellFounded
<1>2. T \subseteq FiniteSubsetsOf(S)
  BY FS_FiniteSubsetsOfFinite
<1> HIDE DEF T, R
<1>3. PICK U \in T : \A V \in T : ~(<<V, U>> \in R)
  BY <1>1, <1>2, WFMin
<1>4. U \in SUBSET S /\ U # {} /\ ~HasExtremes(U)
  BY DEF T
<1>5. PICK x \in U : TRUE
  BY <1>4
<1>6. U \ {x} \notin T
  <2>1. <<U \ {x}, U>> \in R
    BY <1>4, <1>5 DEF R, StrictSubsetOrdering
  <2> QED
    BY <1>3, <2>1
<1>7. U \ {x} = {} \/ HasExtremes(U \ {x})
  BY <1>4, <1>6 DEF T
<1> QED
  BY <1>4, <1>5, <1>7, OneMore

\* Max and Min are elements and bounds of a finite, non-empty set of numbers.
LEMMA MaxMin ==
    ASSUME NEW S \in SUBSET Nat, IsFiniteSet(S), S # {}
    PROVE  /\ Max(S) \in S /\ Max(S) \in Nat /\ \A y \in S : y <= Max(S)
           /\ Min(S) \in S /\ Min(S) \in Nat /\ \A y \in S : Min(S) <= y
<1>1. PICK x \in S : \A y \in S : x >= y
  BY Extremes DEF HasExtremes
<1>2. PICK z \in S : \A y \in S : z <= y
  BY Extremes DEF HasExtremes
<1>3. Max(S) \in S /\ \A y \in S : Max(S) >= y
  BY <1>1 DEF Max
<1>4. Min(S) \in S /\ \A y \in S : Min(S) <= y
  BY <1>2 DEF Min
<1> QED
  BY <1>3, <1>4

\* Max and Min of the numbers of an interval that have some property.
LEMMA IntervalMaxMin ==
    ASSUME NEW m \in Nat, NEW n \in Nat, NEW S \in SUBSET (m..n), S # {}
    PROVE  /\ Max(S) \in S /\ Max(S) \in Nat /\ \A y \in S : y <= Max(S)
           /\ Min(S) \in S /\ Min(S) \in Nat /\ \A y \in S : Min(S) <= y
<1>1. IsFiniteSet(S)
  <2>1. m \in Int /\ n \in Int
    OBVIOUS
  <2>2. IsFiniteSet(m..n)
    BY <2>1, FS_Interval
  <2> QED
    BY <2>2, FS_Subset
<1>2. S \in SUBSET Nat
  OBVIOUS
<1> QED
  BY <1>1, <1>2, MaxMin

\* The least element is Min, of any set of numbers.
LEMMA MinIsLeast ==
    ASSUME NEW S \in SUBSET Nat, NEW d \in S, \A e \in S : d <= e
    PROVE  Min(S) = d
<1>1. \A x \in S : (\A y \in S : x <= y) => x = d
  OBVIOUS
<1>2. Min(S) \in S /\ \A y \in S : Min(S) <= y
  BY DEF Min
<1> QED
  BY <1>1, <1>2

\* The larger and the smaller of two numbers.
LEMMA OfTwo ==
    ASSUME NEW x \in Int, NEW y \in Int
    PROVE  /\ Max({x, y}) = IF x >= y THEN x ELSE y
           /\ Min({x, y}) = IF x <= y THEN x ELSE y
<1>1. \E z \in {x, y} : \A w \in {x, y} : z >= w
  OBVIOUS
<1>2. \E z \in {x, y} : \A w \in {x, y} : z <= w
  OBVIOUS
<1>3. Max({x, y}) \in {x, y} /\ \A w \in {x, y} : Max({x, y}) >= w
  BY <1>1 DEF Max
<1>4. Min({x, y}) \in {x, y} /\ \A w \in {x, y} : Min({x, y}) <= w
  BY <1>2 DEF Min
<1> QED
  BY <1>3, <1>4

-----------------------------------------------------------------------------
(* Induction *)

\* Induction, with the set of the arguments at which the claim holds in place of
\* the claim: over the naturals,
LEMMA NatInduct ==
    ASSUME NEW Good, 0 \in Good, \A n \in Nat : n \in Good => n + 1 \in Good
    PROVE  \A n \in Nat : n \in Good
<1> DEFINE Bad == Nat \ Good
           R == {p \in Nat \X Nat : p[1] < p[2]}
<1> SUFFICES ASSUME Bad # {} PROVE FALSE
  OBVIOUS
<1>1. IsWellFoundedOn(R, Nat)
  BY NatLessThanWellFounded, Zenon DEF OpToRel
<1>2. \A m, n \in Nat : m < n => <<m, n>> \in R
  OBVIOUS
<1> HIDE DEF R
<1>3. PICK n \in Bad : \A m \in Bad : <<m, n>> \notin R
  <2>1. Bad \subseteq Nat
    OBVIOUS
  <2> HIDE DEF Bad
  <2> QED
    BY <1>1, <2>1, WFMin
<1>4. n \in Nat /\ n # 0 /\ n - 1 \in Nat /\ n - 1 < n
  BY <1>3
<1>5. n - 1 \in Good
  BY <1>2, <1>3, <1>4
<1> QED
  BY <1>3, <1>4, <1>5

\* and over the subsets of a finite set, from the subsets with one element less.
LEMMA SetInduct ==
    ASSUME NEW S, IsFiniteSet(S), NEW Good,
           \A U \in SUBSET S : (\A x \in U : U \ {x} \in Good) => U \in Good
    PROVE  \A U \in SUBSET S : U \in Good
<1> DEFINE Bad == {U \in SUBSET S : U \notin Good}
           R == StrictSubsetOrdering(S)
<1> SUFFICES ASSUME Bad # {} PROVE FALSE
  OBVIOUS
<1>1. IsWellFoundedOn(R, FiniteSubsetsOf(S))
  BY FS_StrictSubsetOrderingWellFounded
<1>2. Bad \subseteq FiniteSubsetsOf(S)
  BY FS_FiniteSubsetsOfFinite
<1> HIDE DEF Bad, R
<1>3. PICK U \in Bad : \A V \in Bad : <<V, U>> \notin R
  BY <1>1, <1>2, WFMin
<1>4. U \in SUBSET S /\ U \notin Good
  BY DEF Bad
<1>5. ASSUME NEW x \in U PROVE U \ {x} \in Good
  <2>1. U \ {x} \in SUBSET S
    BY <1>4
  <2>2. <<U \ {x}, U>> \in R
    BY <1>4 DEF R, StrictSubsetOrdering
  <2> QED
    BY <1>3, <2>1, <2>2 DEF Bad
<1> QED
  BY <1>4, <1>5

-----------------------------------------------------------------------------
(* Folds *)

\* What a recursive definition over the subsets of a set gives at U.
OneRound(U, g, base, step, pick) ==
    IF U = {} THEN base ELSE step[<<pick[U], g[U \ {pick[U]}]>>]

\* A fold takes out of a finite set D one element at a time, by pick,
Foldable(D, A, base, step, pick) ==
    /\ IsFiniteSet(D)
    /\ base \in A
    /\ step \in [D \X A -> A]
    /\ \A U \in SUBSET D : U # {} => pick[U] \in U

\* and g is what it gives for the subsets of D.
FoldOf(g, D, A, base, step, pick) ==
    /\ g \in [SUBSET D -> A]
    /\ \A U \in SUBSET D : g[U] = OneRound(U, g, base, step, pick)

\* A fold exists: a recursive function over the subsets of a finite set that takes
\* out one element at a time.
LEMMA FoldExists ==
    ASSUME NEW D, NEW A, NEW base, NEW step, NEW pick, Foldable(D, A, base, step, pick)
    PROVE  \E g : FoldOf(g, D, A, base, step, pick)
<1> USE DEF Foldable
<1> DEFINE Upto(n) == {U \in SUBSET D : Cardinality(U) <= n}
           Good == {n \in Nat : \E g \in [SUBSET D -> A] :
                       \A U \in Upto(n) : g[U] = OneRound(U, g, base, step, pick)}
<1>1. \A U \in SUBSET D : IsFiniteSet(U) /\ Cardinality(U) \in Nat
  BY FS_Subset, FS_CardinalityType
<1>2. 0 \in Good
  <2>1. \A U \in Upto(0) : U = {}
    BY <1>1, FS_EmptySet
  <2>2. [U \in SUBSET D |-> base] \in [SUBSET D -> A]
    OBVIOUS
  <2>3. \A U \in Upto(0) : [V \in SUBSET D |-> base][U]
                              = OneRound(U, [V \in SUBSET D |-> base], base, step, pick)
    BY <2>1 DEF OneRound
  <2> QED
    BY <2>2, <2>3
<1>3. ASSUME NEW n \in Nat, n \in Good PROVE n + 1 \in Good
  <2>1. PICK g \in [SUBSET D -> A] :
            \A U \in Upto(n) : g[U] = OneRound(U, g, base, step, pick)
    BY <1>3
  <2> DEFINE h == [U \in SUBSET D |-> OneRound(U, g, base, step, pick)]
  <2>2. ASSUME NEW U \in SUBSET D, U # {}
        PROVE  pick[U] \in U /\ U \ {pick[U]} \in SUBSET D
    BY <2>2
  <2>3. h \in [SUBSET D -> A]
    <3>1. ASSUME NEW U \in SUBSET D PROVE OneRound(U, g, base, step, pick) \in A
      <4>1. CASE U = {}
        BY <4>1 DEF OneRound
      <4>2. CASE U # {}
        BY <2>1, <2>2, <4>2 DEF OneRound
      <4> QED
        BY <4>1, <4>2
    <3> QED
      BY <3>1
  <2>4. ASSUME NEW U \in Upto(n + 1) PROVE h[U] = OneRound(U, h, base, step, pick)
    <3>1. CASE U = {}
      BY <3>1 DEF OneRound
    <3>2. CASE U # {}
      <4> DEFINE V == U \ {pick[U]}
      <4>1. pick[U] \in U /\ V \in SUBSET D
        BY <2>2, <3>2
      <4>2. Cardinality(V) = Cardinality(U) - 1
        BY <1>1, <4>1, FS_RemoveElement
      <4>3. V \in Upto(n)
        BY <1>1, <1>3, <4>1, <4>2
      <4>4. g[V] = h[V]
        BY <2>1, <4>1, <4>3
      <4> QED
        BY <3>2, <4>1, <4>4 DEF OneRound
    <3> QED
      BY <3>1, <3>2
  <2> HIDE DEF h
  <2> QED
    BY <1>3, <2>3, <2>4
<1> HIDE DEF Good
<1>4. \A n \in Nat : n \in Good
  BY <1>2, <1>3, NatInduct
<1>5. Cardinality(D) \in Good
  BY <1>4, FS_CardinalityType
<1>6. \A U \in SUBSET D : U \in Upto(Cardinality(D))
  BY FS_Subset
<1> QED
  BY <1>5, <1>6 DEF Good, FoldOf

-----------------------------------------------------------------------------
(* Sums *)

\* The element a sum over U takes out first.
First(U) == CHOOSE x \in U : TRUE

\* g is the running sum of f over the subsets of S.
RunsSum(g, f, S) ==
    /\ g \in [SUBSET S -> Int]
    /\ \A U \in SUBSET S : g[U] = IF U = {} THEN 0 ELSE f[First(U)] + g[U \ {First(U)}]

\* SumFunctionOnSet is such a running sum,
LEMMA SumRuns ==
    ASSUME NEW S, IsFiniteSet(S), NEW f, \A x \in S : f[x] \in Int
    PROVE  \E g : RunsSum(g, f, S) /\ SumFunctionOnSet(f, S) = g[S]
<1> DEFINE step == [p \in S \X Int |-> f[p[1]] + p[2]]
           pick == [U \in SUBSET S |-> First(U)]
           Runs(g) == g = [U \in SUBSET S |->
                             IF U = {} THEN 0 ELSE f[First(U)] + g[U \ {First(U)}]]
<1>1. step \in [S \X Int -> Int]
  OBVIOUS
<1>2. \A U \in SUBSET S : U # {} => First(U) \in U
  BY DEF First
<1>3. \A U \in SUBSET S : pick[U] = First(U) /\ (U # {} => pick[U] \in U)
  BY <1>2
<1>4. PICK g : FoldOf(g, S, Int, 0, step, pick)
  <2> HIDE DEF step, pick
  <2>1. Foldable(S, Int, 0, step, pick)
    BY <1>1, <1>3 DEF Foldable
  <2> QED
    BY <2>1, FoldExists
<1>5. \A U \in SUBSET S : g[U] = IF U = {} THEN 0 ELSE f[First(U)] + g[U \ {First(U)}]
  <2>1. ASSUME NEW U \in SUBSET S, U # {} PROVE g[U] = f[First(U)] + g[U \ {First(U)}]
    BY <1>2, <1>4, <2>1 DEF FoldOf, OneRound
  <2>2. g[{}] = 0
    BY <1>4 DEF FoldOf, OneRound
  <2> QED
    BY <2>1, <2>2
<1>6. Runs(g)
  BY <1>4, <1>5 DEF FoldOf
<1>7. SumFunctionOnSet(f, S) = (CHOOSE h : Runs(h))[S]
  BY Zenon DEF SumFunctionOnSet, FoldFunctionOnSet, MapThenFoldSet, First
<1>8. ASSUME NEW h, Runs(h) PROVE RunsSum(h, f, S)
  <2> DEFINE Good == {U \in SUBSET S : h[U] \in Int}
  <2>1. ASSUME NEW U \in SUBSET S, \A x \in U : U \ {x} \in Good PROVE U \in Good
    <3>1. CASE U = {}
      BY <1>8, <3>1
    <3>2. CASE U # {}
      <4>1. First(U) \in U /\ h[U] = f[First(U)] + h[U \ {First(U)}]
        BY <1>2, <1>8, <3>2
      <4>2. h[U \ {First(U)}] \in Int
        BY <2>1, <4>1
      <4> QED
        BY <4>1, <4>2
    <3> QED
      BY <3>1, <3>2
  <2> HIDE DEF Good
  <2>2. \A U \in SUBSET S : U \in Good
    BY <2>1, SetInduct
  <2>3. \A U \in SUBSET S : h[U] \in Int
    BY <2>2 DEF Good
  <2>4. h = [U \in SUBSET S |-> h[U]]
    BY <1>8
  <2> QED
    BY <1>8, <2>3, <2>4 DEF RunsSum
<1> QED
  BY <1>6, <1>7, <1>8

\* A sum may take out any element first.
LEMMA RunsAny ==
    ASSUME NEW S, IsFiniteSet(S), NEW f, \A x \in S : f[x] \in Int,
           NEW g, RunsSum(g, f, S)
    PROVE  \A U \in SUBSET S : \A x \in U : g[U] = f[x] + g[U \ {x}]
<1> DEFINE Good == {U \in SUBSET S : \A x \in U : g[U] = f[x] + g[U \ {x}]}
<1>1. ASSUME NEW U \in SUBSET S, \A x \in U : U \ {x} \in Good,
             NEW x \in U
      PROVE  g[U] = f[x] + g[U \ {x}]
  <2> DEFINE y == First(U)
  <2>1. y \in U /\ g[U] = f[y] + g[U \ {y}]
    BY DEF RunsSum, First
  <2>2. CASE x = y
    BY <2>1, <2>2
  <2>3. CASE x # y
    <3> HIDE DEF y
    <3>1. g[U \ {y}] = f[x] + g[(U \ {y}) \ {x}]
      BY <1>1, <2>1, <2>3
    <3>2. g[U \ {x}] = f[y] + g[(U \ {x}) \ {y}]
      BY <1>1, <2>1, <2>3
    <3>3. (U \ {y}) \ {x} = (U \ {x}) \ {y}
      OBVIOUS
    <3>4. (U \ {x}) \ {y} \in SUBSET S
      OBVIOUS
    <3>5. f[x] \in Int /\ f[y] \in Int /\ g[(U \ {x}) \ {y}] \in Int
      BY <2>1, <3>4 DEF RunsSum
    <3> DEFINE rest == g[(U \ {x}) \ {y}]
    <3>6. g[U] = f[y] + (f[x] + rest) /\ f[x] + g[U \ {x}] = f[x] + (f[y] + rest)
      BY <2>1, <3>1, <3>2, <3>3
    <3> QED
      BY <3>5, <3>6
  <2> QED
    BY <2>2, <2>3
<1>2. \A U \in SUBSET S : (\A x \in U : U \ {x} \in Good) => U \in Good
  BY <1>1
<1> HIDE DEF Good
<1>3. \A U \in SUBSET S : U \in Good
  BY <1>2, SetInduct
<1> QED
  BY <1>3 DEF Good

\* Two sums of the same values are one.
LEMMA RunsSame ==
    ASSUME NEW S, IsFiniteSet(S), NEW T \in SUBSET S, NEW f, NEW e,
           \A x \in T : f[x] = e[x],
           NEW g, RunsSum(g, f, S), NEW h, RunsSum(h, e, T)
    PROVE  \A U \in SUBSET T : g[U] = h[U]
<1> DEFINE Good == {U \in SUBSET T : g[U] = h[U]}
<1>1. ASSUME NEW U \in SUBSET T, \A x \in U : U \ {x} \in Good PROVE g[U] = h[U]
  <2>1. CASE U = {}
    BY <2>1 DEF RunsSum
  <2>2. CASE U # {}
    <3>1. First(U) \in U
      BY <2>2 DEF First
    <3>2. g[U] = f[First(U)] + g[U \ {First(U)}] /\ h[U] = e[First(U)] + h[U \ {First(U)}]
      BY <2>2 DEF RunsSum
    <3> QED
      BY <1>1, <3>1, <3>2
  <2> QED
    BY <2>1, <2>2
<1>2. IsFiniteSet(T)
  BY FS_Subset
<1>3. \A U \in SUBSET T : (\A x \in U : U \ {x} \in Good) => U \in Good
  BY <1>1
<1> HIDE DEF Good
<1>4. \A U \in SUBSET T : U \in Good
  BY <1>2, <1>3, SetInduct
<1> QED
  BY <1>4 DEF Good

\* What a sum is: 0 for no elements, and any element and the sum of the others.
LEMMA SumEmpty ==
    ASSUME NEW f
    PROVE  SumFunctionOnSet(f, {}) = 0
<1>1. IsFiniteSet({})
  BY FS_EmptySet
<1>2. PICK g : RunsSum(g, f, {}) /\ SumFunctionOnSet(f, {}) = g[{}]
  BY <1>1, SumRuns
<1> QED
  BY <1>2 DEF RunsSum

\* A sum takes out any of its elements first,
LEMMA SumStep ==
    ASSUME NEW S, IsFiniteSet(S), NEW f, \A x \in S : f[x] \in Int, NEW x \in S
    PROVE  SumFunctionOnSet(f, S) = f[x] + SumFunctionOnSet(f, S \ {x})
<1>1. PICK g : RunsSum(g, f, S) /\ SumFunctionOnSet(f, S) = g[S]
  BY SumRuns
<1>2. IsFiniteSet(S \ {x}) /\ S \ {x} \in SUBSET S
  BY FS_Subset
<1>3. PICK h : RunsSum(h, f, S \ {x}) /\ SumFunctionOnSet(f, S \ {x}) = h[S \ {x}]
  BY <1>2, SumRuns
<1>4. g[S \ {x}] = h[S \ {x}]
  BY <1>1, <1>2, <1>3, RunsSame
<1>5. g[S] = f[x] + g[S \ {x}]
  BY <1>1, RunsAny
<1> QED
  BY <1>1, <1>3, <1>4, <1>5

\* and depends on the function only where it sums it.
LEMMA SumSame ==
    ASSUME NEW S, IsFiniteSet(S), NEW f, NEW e, \A x \in S : f[x] = e[x] /\ e[x] \in Int
    PROVE  /\ SumFunctionOnSet(f, S) = SumFunctionOnSet(e, S)
           /\ SumFunctionOnSet(e, S) \in Int
<1>1. PICK g : RunsSum(g, f, S) /\ SumFunctionOnSet(f, S) = g[S]
  BY SumRuns
<1>2. PICK h : RunsSum(h, e, S) /\ SumFunctionOnSet(e, S) = h[S]
  BY SumRuns
<1>3. g[S] = h[S]
  BY <1>1, <1>2, RunsSame
<1>4. h[S] \in Int
  BY <1>2 DEF RunsSum
<1> QED
  BY <1>1, <1>2, <1>3, <1>4

\* The induction over sums: the elements come in one at a time.
LEMMA SumInduct ==
    ASSUME NEW S, IsFiniteSet(S), NEW Good, {} \in Good,
           \A U \in SUBSET S : \A x \in U : U \ {x} \in Good => U \in Good
    PROVE  S \in Good
<1>1. \A U \in SUBSET S : (\A x \in U : U \ {x} \in Good) => U \in Good
  <2> SUFFICES ASSUME NEW U \in SUBSET S, \A x \in U : U \ {x} \in Good PROVE U \in Good
    OBVIOUS
  <2>1. CASE U = {}
    BY <2>1
  <2>2. CASE U # {}
    BY <2>2
  <2> QED
    BY <2>1, <2>2
<1> QED
  BY <1>1, SetInduct

\* The values of d on S are a times those of f and b times those of e.
Combines(d, S, a, f, b, e) ==
    /\ IsFiniteSet(S) /\ a \in Int /\ b \in Int
    /\ \A x \in S : f[x] \in Int /\ e[x] \in Int /\ d[x] = a * f[x] + b * e[x]

\* Sums of multiples and of sums.
LEMMA SumLinear ==
    ASSUME NEW S, NEW a, NEW b, NEW f, NEW e, NEW d, Combines(d, S, a, f, b, e)
    PROVE  SumFunctionOnSet(d, S) = a * SumFunctionOnSet(f, S) + b * SumFunctionOnSet(e, S)
<1> DEFINE F(U) == SumFunctionOnSet(f, U)
           E(U) == SumFunctionOnSet(e, U)
           D(U) == SumFunctionOnSet(d, U)
           Good == {U \in SUBSET S : D(U) = a * F(U) + b * E(U)}
<1> USE DEF Combines
<1>1. \A x \in S : d[x] \in Int
  OBVIOUS
<1>2. {} \in Good
  BY SumEmpty
<1>3. ASSUME NEW U \in SUBSET S, NEW x \in U, U \ {x} \in Good PROVE U \in Good
  <2>1. IsFiniteSet(U) /\ IsFiniteSet(U \ {x})
    BY FS_Subset
  <2>2. F(U) = f[x] + F(U \ {x}) /\ E(U) = e[x] + E(U \ {x}) /\ D(U) = d[x] + D(U \ {x})
    BY <1>1, <2>1, SumStep
  <2>3. F(U \ {x}) \in Int /\ E(U \ {x}) \in Int
    BY <2>1, SumSame
  <2>4. D(U \ {x}) = a * F(U \ {x}) + b * E(U \ {x}) /\ d[x] = a * f[x] + b * e[x]
    BY <1>3
  <2>5. f[x] \in Int /\ e[x] \in Int
    OBVIOUS
  <2> HIDE DEF F, E, D
  <2>6. D(U) = a * F(U) + b * E(U)
    BY <2>2, <2>3, <2>4, <2>5
  <2> QED
    BY <2>6
<1> HIDE DEF Good
<1>4. S \in Good
  BY <1>2, <1>3, SumInduct
<1> QED
  BY <1>4 DEF Good

\* A sum of n values between lo and hi is between n * lo and n * hi.
LEMMA SumBounds ==
    ASSUME NEW S, IsFiniteSet(S), NEW lo \in Int, NEW hi \in Int, NEW f,
           \A x \in S : f[x] \in Int /\ lo <= f[x] /\ f[x] <= hi
    PROVE  /\ SumFunctionOnSet(f, S) \in Int
           /\ Cardinality(S) * lo <= SumFunctionOnSet(f, S)
           /\ SumFunctionOnSet(f, S) <= Cardinality(S) * hi
<1> DEFINE F(U) == SumFunctionOnSet(f, U)
           C(U) == Cardinality(U)
           Good == {U \in SUBSET S : F(U) \in Int /\ C(U) * lo <= F(U) /\ F(U) <= C(U) * hi}
<1>1. {} \in Good
  BY SumEmpty, FS_EmptySet
<1>2. ASSUME NEW U \in SUBSET S, NEW x \in U, U \ {x} \in Good PROVE U \in Good
  <2>1. IsFiniteSet(U) /\ IsFiniteSet(U \ {x})
    BY FS_Subset
  <2>2. F(U) = f[x] + F(U \ {x})
    BY <2>1, SumStep
  <2>3. C(U) = C(U \ {x}) + 1 /\ C(U \ {x}) \in Nat
    BY <2>1, FS_RemoveElement, FS_CardinalityType
  <2>4. /\ F(U \ {x}) \in Int
        /\ C(U \ {x}) * lo <= F(U \ {x}) /\ F(U \ {x}) <= C(U \ {x}) * hi
    BY <1>2
  <2>5. f[x] \in Int /\ lo <= f[x] /\ f[x] <= hi
    OBVIOUS
  <2> HIDE DEF F, C
  <2>6. F(U) \in Int /\ C(U) * lo <= F(U) /\ F(U) <= C(U) * hi
    BY <2>2, <2>3, <2>4, <2>5
  <2> QED
    BY <2>6
<1> HIDE DEF Good
<1>3. S \in Good
  BY <1>1, <1>2, SumInduct
<1> QED
  BY <1>3 DEF Good

\* Elements of value 0 do not count.
LEMMA SumSubset ==
    ASSUME NEW S, IsFiniteSet(S), NEW T \in SUBSET S, NEW f,
           \A x \in S : f[x] \in Int, \A x \in S \ T : f[x] = 0
    PROVE  SumFunctionOnSet(f, S) = SumFunctionOnSet(f, T)
<1> DEFINE F(U) == SumFunctionOnSet(f, U)
           Good == {U \in SUBSET (S \ T) : F(U \cup T) = F(T)}
<1>1. {} \in Good
  OBVIOUS
<1>2. ASSUME NEW U \in SUBSET (S \ T), NEW x \in U, U \ {x} \in Good PROVE U \in Good
  <2>1. IsFiniteSet(U \cup T) /\ (U \cup T) \ {x} = (U \ {x}) \cup T /\ f[x] = 0
    BY FS_Subset
  <2>2. F(U \cup T) = f[x] + F((U \cup T) \ {x})
    BY <2>1, SumStep
  <2>3. F(T) \in Int
    BY FS_Subset, SumSame
  <2>4. F((U \ {x}) \cup T) = F(T)
    BY <1>2
  <2> HIDE DEF F
  <2>5. F(U \cup T) = 0 + F(T)
    BY <2>1, <2>2, <2>4, Zenon
  <2> QED
    BY <2>3, <2>5
<1> HIDE DEF Good
<1>3. IsFiniteSet(S \ T)
  BY FS_Subset
<1>4. S \ T \in Good
  BY <1>1, <1>2, <1>3, SumInduct
<1>5. (S \ T) \cup T = S
  OBVIOUS
<1> QED
  BY <1>4, <1>5 DEF Good
-----------------------------------------------------------------------------
(* Folds of sequences *)

\* FoldLeft takes the last element out first.
LastOf(n) == [U \in SUBSET (1..n) |-> Max(U)]

\* A fold over the positions of a sequence that takes out the last one exists.
LEMMA SeqFoldExists ==
    ASSUME NEW n \in Nat, NEW A, NEW base \in A, NEW step \in [(1..n) \X A -> A]
    PROVE  \E g : FoldOf(g, 1..n, A, base, step, LastOf(n))
<1>1. IsFiniteSet(1..n)
  <2>1. 1 \in Int /\ n \in Int
    OBVIOUS
  <2> QED
    BY <2>1, FS_Interval
<1>2. \A U \in SUBSET (1..n) : U # {} => LastOf(n)[U] \in U
  <2> SUFFICES ASSUME NEW U \in SUBSET (1..n), U # {} PROVE Max(U) \in U
    BY DEF LastOf
  <2>1. 1 \in Nat
    OBVIOUS
  <2> QED
    BY <2>1, IntervalMaxMin
<1>3. Foldable(1..n, A, base, step, LastOf(n))
  BY <1>1, <1>2 DEF Foldable
<1> QED
  BY <1>3, FoldExists

\* The first i elements without the last of them.
LEMMA InitialSegment ==
    ASSUME NEW n \in Nat, NEW i \in 1..n
    PROVE  /\ 1..i \in SUBSET (1..n) /\ 1..i # {}
           /\ Max(1..i) = i /\ (1..i) \ {i} = 1..(i - 1)
<1>1. 1..i \in SUBSET (1..n) /\ 1..i # {} /\ (1..i) \ {i} = 1..(i - 1) /\ 1 \in Nat
  OBVIOUS
<1>2. Max(1..i) \in 1..i /\ \A y \in 1..i : y <= Max(1..i)
  BY <1>1, IntervalMaxMin
<1>3. Max(1..i) = i
  BY <1>2
<1> QED
  BY <1>1, <1>3

\* The numbers of P up to i.
UpTo(P, i) == {m \in 1..i : m \in P}

Summable(n, P, f) == n \in Nat /\ P \in SUBSET (1..n) /\ \A m \in 1..n : f[m] \in Int

\* A sum over them, number by number.
LEMMA SumUpto ==
    ASSUME NEW n, NEW P, NEW f, Summable(n, P, f)
    PROVE  /\ SumFunctionOnSet(f, UpTo(P, 0)) = 0
           /\ \A i \in 0..n : SumFunctionOnSet(f, UpTo(P, i)) \in Int
           /\ \A i \in 1..n : SumFunctionOnSet(f, UpTo(P, i))
                 = SumFunctionOnSet(f, UpTo(P, i - 1))
                     + (IF i \in P THEN f[i] ELSE 0)
<1> DEFINE Q(i) == UpTo(P, i)
<1> USE DEF UpTo, Summable
<1>1. ASSUME NEW i \in 0..n
      PROVE  IsFiniteSet(Q(i)) /\ \A m \in Q(i) : f[m] \in Int
  <2>1. 1 \in Int /\ i \in Int
    OBVIOUS
  <2>2. IsFiniteSet(1..i) /\ Q(i) \subseteq 1..i
    BY <2>1, FS_Interval
  <2> QED
    BY <2>2, FS_Subset
<1>2. ASSUME NEW i \in 0..n PROVE SumFunctionOnSet(f, Q(i)) \in Int
  <2> HIDE DEF Q
  <2> QED
    BY <1>1, SumSame
<1>3. SumFunctionOnSet(f, Q(0)) = 0
  <2>1. Q(0) = {}
    OBVIOUS
  <2> QED
    BY <2>1, SumEmpty
<1>4. ASSUME NEW i \in 1..n
      PROVE  SumFunctionOnSet(f, Q(i))
                = SumFunctionOnSet(f, Q(i - 1)) + (IF i \in P THEN f[i] ELSE 0)
  <2>1. i \in 0..n /\ i - 1 \in 0..n
    OBVIOUS
  <2>2. CASE i \in P
    <3>1. i \in Q(i) /\ Q(i) \ {i} = Q(i - 1)
      BY <2>2
    <3>2. f[i] \in Int
      BY <2>2
    <3> HIDE DEF Q
    <3>3. SumFunctionOnSet(f, Q(i)) = f[i] + SumFunctionOnSet(f, Q(i) \ {i})
      BY <1>1, <2>1, <3>1, SumStep
    <3> QED
      BY <1>2, <2>1, <2>2, <3>1, <3>2, <3>3
  <2>3. CASE i \notin P
    <3>1. Q(i) = Q(i - 1)
      BY <2>3
    <3> HIDE DEF Q
    <3> QED
      BY <1>2, <2>1, <2>3, <3>1
  <2> QED
    BY <2>2, <2>3
<1> QED
  BY <1>2, <1>3, <1>4
=============================================================================
