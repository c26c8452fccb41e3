-------------------------------- MODULE Sums --------------------------------
(***************************************************************************)
(* Lemmas about the sums of the models: SumFunction of the community       *)
(* modules, over a finite set.  It is a fold, that is a recursive function *)
(* on the subsets of its domain.  The induction that unfolds it cites that *)
(* strict inclusion is well founded on the finite subsets of a set, in the *)
(* form that every non-empty collection of subsets has a minimal member.   *)
(***************************************************************************)
EXTENDS Integers, FiniteSetTheorems, Functions, TLAPS

\* A collection of subsets of a finite set has a minimal member.
LEMMA MinimalSubset ==
  ASSUME NEW S, IsFiniteSet(S), NEW Bad \in SUBSET SUBSET S, Bad # {}
  PROVE  \E T \in Bad : \A U \in SUBSET T : U # T => U \notin Bad
<1>1. IsWellFoundedOn(StrictSubsetOrdering(S), SUBSET S)
  BY FS_StrictSubsetOrderingWellFounded, FS_FiniteSubsetsOfFinite
<1>2. PICK T \in Bad : \A U \in Bad : <<U, T>> \notin StrictSubsetOrdering(S)
  BY <1>1, WFMin
<1>3. ASSUME NEW U \in SUBSET T, U # T, U \in Bad PROVE FALSE
  <2>1. <<U, T>> \in StrictSubsetOrdering(S)
    BY <1>3 DEF StrictSubsetOrdering
  <2> QED BY <1>2, <1>3, <2>1
<1> QED BY <1>2, <1>3

\* The element the fold takes from a set first.
First(s) == CHOOSE x \in s : TRUE

\* g is the function the fold of f over the subsets of S computes.
IsSum(g, f, S) ==
  g = [s \in SUBSET S |-> IF s = {} THEN 0 ELSE f[First(s)] + g[s \ {First(s)}]]

LEMMA SumIsChosen ==
  ASSUME NEW f, NEW S
  PROVE  SumFunctionOnSet(f, S) = (CHOOSE g : IsSum(g, f, S))[S]
  BY DEF SumFunctionOnSet, FoldFunctionOnSet, MapThenFoldSet, IsSum, First

LEMMA IsSumUnfolds ==
  ASSUME NEW g, NEW f, NEW S, IsSum(g, f, S), NEW s \in SUBSET S
  PROVE  g[s] = IF s = {} THEN 0 ELSE f[First(s)] + g[s \ {First(s)}]
  BY DEF IsSum

\* Such functions agree wherever they are defined.
LEMMA IsSumUnique ==
  ASSUME NEW f, NEW S, NEW T, IsFiniteSet(S),
         NEW g, NEW h, IsSum(g, f, S), IsSum(h, f, T),
         NEW u, u \subseteq S, u \subseteq T
  PROVE  g[u] = h[u]
<1> DEFINE Bad == {v \in SUBSET u : g[v] # h[v]}
<1> SUFFICES ASSUME Bad # {} PROVE FALSE
  OBVIOUS
<1>1. IsFiniteSet(u)
  BY FS_Subset
<1>2. PICK v \in Bad : \A w \in SUBSET v : w # v => w \notin Bad
  <2>1. Bad \in SUBSET SUBSET u
    OBVIOUS
  <2> HIDE DEF Bad
  <2> QED BY <1>1, <2>1, MinimalSubset
<1>3. v # {}
  BY <1>2, IsSumUnfolds
<1>4. PICK rest : rest = v \ {First(v)}
  OBVIOUS
<1>5. First(v) \in v
  BY <1>3 DEF First
<1>6. g[rest] = h[rest]
  BY <1>2, <1>4, <1>5
<1>7. v \in SUBSET S /\ v \in SUBSET T
  BY <1>2
<1>8. g[v] = f[First(v)] + g[rest] /\ h[v] = f[First(v)] + h[rest]
  <2>1. /\ IsSum(g, f, S) /\ v \in SUBSET S
        /\ IsSum(h, f, T) /\ v \in SUBSET T
    BY <1>7
  <2>2. g[v] = IF v = {} THEN 0 ELSE f[First(v)] + g[v \ {First(v)}]
    BY ONLY <2>1, IsSumUnfolds
  <2>3. h[v] = IF v = {} THEN 0 ELSE f[First(v)] + h[v \ {First(v)}]
    BY ONLY <2>1, IsSumUnfolds
  <2> QED BY ONLY <1>3, <1>4, <2>2, <2>3
<1> QED BY <1>2, <1>6, <1>8

\* And there is one.
LEMMA IsSumExists ==
  ASSUME NEW f, NEW S, IsFiniteSet(S)
  PROVE  \E g : IsSum(g, f, S)
<1> DEFINE Bad == {v \in SUBSET S : ~ \E g : IsSum(g, f, v)}
<1> SUFFICES ASSUME Bad # {} PROVE FALSE
  OBVIOUS
<1>1. PICK T \in Bad : \A w \in SUBSET T : w # T => w \notin Bad
  <2>1. Bad \in SUBSET SUBSET S
    OBVIOUS
  <2> HIDE DEF Bad
  <2> QED BY <2>1, MinimalSubset
<1> DEFINE of(u) == CHOOSE g : IsSum(g, f, u)
<1>2. \A u \in SUBSET T : u # T => IsSum(of(u), f, u) /\ IsFiniteSet(u)
  <2> SUFFICES ASSUME NEW u \in SUBSET T, u # T
               PROVE  IsSum(of(u), f, u) /\ IsFiniteSet(u)
    OBVIOUS
  <2>1. u \in SUBSET S /\ u \notin Bad
    BY <1>1
  <2>2. \E g : IsSum(g, f, u)
    BY <2>1
  <2> QED BY <2>1, <2>2, FS_Subset
<1> DEFINE sum == [s \in SUBSET T |-> IF s = {} THEN 0
                     ELSE f[First(s)] + of(s \ {First(s)})[s \ {First(s)}]]
<1> HIDE DEF of
<1>3. ASSUME NEW s \in SUBSET T, s # {}
      PROVE  sum[s \ {First(s)}] = of(s \ {First(s)})[s \ {First(s)}]
  <2>1. PICK u : u = s \ {First(s)}
    OBVIOUS
  <2>2. u \in SUBSET T /\ u # T
    BY <1>3, <2>1 DEF First
  <2>3. of(u)[u] = IF u = {} THEN 0 ELSE f[First(u)] + of(u)[u \ {First(u)}]
    BY <1>2, <2>2, IsSumUnfolds
  <2>4. u # {} => of(u)[u \ {First(u)}] = of(u \ {First(u)})[u \ {First(u)}]
    <3>1. PICK w : w = u \ {First(u)}
      OBVIOUS
    <3>2. w \subseteq u /\ w \in SUBSET T /\ w # T
      BY <2>2, <3>1
    <3>3. of(u)[w] = of(w)[w]
      BY <1>2, <2>2, <3>2, IsSumUnique
    <3> QED BY <3>1, <3>3
  <2>5. sum[u] = of(u)[u]
    BY <2>2, <2>3, <2>4
  <2> QED BY <2>1, <2>5
<1>4. \A s \in SUBSET T : sum[s] = IF s = {} THEN 0 ELSE f[First(s)] + sum[s \ {First(s)}]
  <2> SUFFICES ASSUME NEW s \in SUBSET T
               PROVE  sum[s] = IF s = {} THEN 0 ELSE f[First(s)] + sum[s \ {First(s)}]
    OBVIOUS
  <2>1. sum[s] = IF s = {} THEN 0
                 ELSE f[First(s)] + of(s \ {First(s)})[s \ {First(s)}]
    OBVIOUS
  <2> HIDE DEF sum
  <2> QED BY <1>3, <2>1
<1>5. sum = [s \in SUBSET T |-> sum[s]]
  OBVIOUS
<1> HIDE DEF sum
<1>6. IsSum(sum, f, T)
  BY <1>4, <1>5 DEF IsSum
<1> QED BY <1>1, <1>6

\* The sum over a set is what any such function says, on this set or a larger.
LEMMA SumIsSum ==
  ASSUME NEW f, NEW S, IsFiniteSet(S), NEW g, IsSum(g, f, S), NEW T \in SUBSET S
  PROVE  SumFunctionOnSet(f, T) = g[T]
<1>1. IsFiniteSet(T)
  BY FS_Subset
<1>2. PICK h : h = CHOOSE sum : IsSum(sum, f, T)
  OBVIOUS
<1>3. IsSum(h, f, T)
  BY <1>1, <1>2, IsSumExists
<1>4. SumFunctionOnSet(f, T) = h[T]
  BY <1>2, SumIsChosen
<1> QED BY <1>1, <1>3, <1>4, IsSumUnique

LEMMA SumOfNone ==
  ASSUME NEW f
  PROVE  SumFunctionOnSet(f, {}) = 0
<1>1. IsFiniteSet({})
  BY FS_EmptySet
<1>2. PICK g : IsSum(g, f, {})
  BY <1>1, IsSumExists
<1>3. g[{}] = 0
  BY <1>2, IsSumUnfolds
<1> QED BY <1>1, <1>2, <1>3, SumIsSum

LEMMA SumTakesFirst ==
  ASSUME NEW f, NEW S, IsFiniteSet(S), S # {}
  PROVE  SumFunctionOnSet(f, S) = f[First(S)] + SumFunctionOnSet(f, S \ {First(S)})
<1>1. PICK g : IsSum(g, f, S)
  BY IsSumExists
<1>2. g[S] = f[First(S)] + g[S \ {First(S)}]
  BY <1>1, IsSumUnfolds
<1>3. SumFunctionOnSet(f, S) = g[S]
  BY <1>1, SumIsSum
<1>4. SumFunctionOnSet(f, S \ {First(S)}) = g[S \ {First(S)}]
  BY <1>1, SumIsSum
<1> QED BY <1>2, <1>3, <1>4

\* Sums of integers are integers, and of amounts amounts.
LEMMA SumType ==
  ASSUME NEW f, NEW S, IsFiniteSet(S), NEW Amount \in {Nat, Int},
         \A x \in S : f[x] \in Amount
  PROVE  SumFunctionOnSet(f, S) \in Amount
<1> DEFINE Bad == {v \in SUBSET S : SumFunctionOnSet(f, v) \notin Amount}
<1> SUFFICES ASSUME Bad # {} PROVE FALSE
  OBVIOUS
<1>1. PICK T \in Bad : \A w \in SUBSET T : w # T => w \notin Bad
  <2>1. Bad \in SUBSET SUBSET S
    OBVIOUS
  <2> HIDE DEF Bad
  <2> QED BY <2>1, MinimalSubset
<1>2. T # {}
  <2>1. 0 \in Amount
    OBVIOUS
  <2>2. SumFunctionOnSet(f, {}) \in Amount
    BY <2>1, SumOfNone
  <2> QED BY <1>1, <2>2
<1>3. PICK x \in T : x = First(T)
  BY <1>2 DEF First
<1>4. SumFunctionOnSet(f, T \ {x}) \in Amount
  BY <1>1
<1>5. SumFunctionOnSet(f, T) = f[x] + SumFunctionOnSet(f, T \ {x})
  BY <1>1, <1>2, <1>3, SumTakesFirst, FS_Subset
<1>6. \A m, n \in Amount : m + n \in Amount
  OBVIOUS
<1>7. f[x] \in Amount
  BY <1>1
<1> QED BY <1>1, <1>4, <1>5, <1>6, <1>7

\* The order of the fold does not matter: any element may be taken first.
LEMMA SumTakes ==
  ASSUME NEW f, NEW S, IsFiniteSet(S), \A x \in S : f[x] \in Int, NEW x \in S
  PROVE  SumFunctionOnSet(f, S) = f[x] + SumFunctionOnSet(f, S \ {x})
<1> DEFINE Bad == {v \in SUBSET S : \E e \in v :
                     SumFunctionOnSet(f, v) # f[e] + SumFunctionOnSet(f, v \ {e})}
<1> SUFFICES ASSUME Bad # {} PROVE FALSE
  OBVIOUS
<1>1. PICK T \in Bad : \A w \in SUBSET T : w # T => w \notin Bad
  <2>1. Bad \in SUBSET SUBSET S
    OBVIOUS
  <2> HIDE DEF Bad
  <2> QED BY <2>1, MinimalSubset
<1>2. PICK e \in T : SumFunctionOnSet(f, T) # f[e] + SumFunctionOnSet(f, T \ {e})
  BY <1>1
<1>3. T \subseteq S /\ T # {}
  BY <1>1, <1>2
<1>4. PICK c \in T : c = First(T)
  BY <1>3 DEF First
<1>5. IsFiniteSet(T)
  BY <1>3, FS_Subset
<1>6. SumFunctionOnSet(f, T) = f[c] + SumFunctionOnSet(f, T \ {c})
  BY <1>3, <1>4, <1>5, SumTakesFirst
<1>7. c # e
  BY <1>2, <1>6
<1>8. PICK less, other, both :
        less = T \ {c} /\ other = T \ {e} /\ both = T \ {c, e}
  OBVIOUS
<1>9. /\ less \in SUBSET T /\ less # T /\ e \in less /\ less \ {e} = both
      /\ other \in SUBSET T /\ other # T /\ c \in other /\ other \ {c} = both
  BY <1>7, <1>8
<1>10. SumFunctionOnSet(f, less) = f[e] + SumFunctionOnSet(f, both)
  <2>1. less \notin Bad
    BY <1>1, <1>9
  <2> QED BY <1>3, <1>9, <2>1
<1>11. SumFunctionOnSet(f, other) = f[c] + SumFunctionOnSet(f, both)
  <2>1. other \notin Bad
    BY <1>1, <1>9
  <2> QED BY <1>3, <1>9, <2>1
<1>12. SumFunctionOnSet(f, both) \in Int /\ f[c] \in Int /\ f[e] \in Int
  <2>1. both \subseteq S
    BY <1>3, <1>8
  <2>2. IsFiniteSet(both)
    BY <2>1, FS_Subset
  <2> QED BY <1>3, <2>1, <2>2, SumType
<1> QED BY <1>2, <1>6, <1>8, <1>10, <1>11, <1>12

\* The sum grows with what is summed.
LEMMA SumMonotone ==
  ASSUME NEW f, NEW h, NEW S, IsFiniteSet(S),
         \A x \in S : f[x] \in Int /\ h[x] \in Int /\ f[x] <= h[x]
  PROVE  SumFunctionOnSet(f, S) <= SumFunctionOnSet(h, S)
<1> DEFINE Bad == {v \in SUBSET S : ~(SumFunctionOnSet(f, v) <= SumFunctionOnSet(h, v))}
<1> SUFFICES ASSUME Bad # {} PROVE FALSE
  OBVIOUS
<1>1. PICK T \in Bad : \A w \in SUBSET T : w # T => w \notin Bad
  <2>1. Bad \in SUBSET SUBSET S
    OBVIOUS
  <2> HIDE DEF Bad
  <2> QED BY <2>1, MinimalSubset
<1>2. T \in SUBSET S /\ ~(SumFunctionOnSet(f, T) <= SumFunctionOnSet(h, T))
  BY <1>1
<1>3. T # {}
  BY <1>2, SumOfNone
<1>4. PICK x \in T : x = First(T)
  BY <1>3 DEF First
<1>5. IsFiniteSet(T) /\ IsFiniteSet(T \ {x})
  BY <1>2, FS_Subset
<1>6. /\ SumFunctionOnSet(f, T) = f[x] + SumFunctionOnSet(f, T \ {x})
      /\ SumFunctionOnSet(h, T) = h[x] + SumFunctionOnSet(h, T \ {x})
  BY <1>3, <1>4, <1>5, SumTakesFirst
<1>7. SumFunctionOnSet(f, T \ {x}) <= SumFunctionOnSet(h, T \ {x})
  BY <1>1, <1>2
<1>8. SumFunctionOnSet(f, T \ {x}) \in Int /\ SumFunctionOnSet(h, T \ {x}) \in Int
  BY <1>2, <1>5, SumType
<1>9. f[x] \in Int /\ h[x] \in Int /\ f[x] <= h[x]
  BY <1>2
<1> QED BY <1>2, <1>6, <1>7, <1>8, <1>9

\* What a sum does not range over, it does not depend on.
LEMMA SumAgrees ==
  ASSUME NEW f, NEW h, NEW S, IsFiniteSet(S), \A x \in S : f[x] \in Int /\ h[x] = f[x]
  PROVE  SumFunctionOnSet(h, S) = SumFunctionOnSet(f, S)
<1>1. SumFunctionOnSet(h, S) <= SumFunctionOnSet(f, S)
  BY SumMonotone
<1>2. SumFunctionOnSet(f, S) <= SumFunctionOnSet(h, S)
  BY SumMonotone
<1>3. SumFunctionOnSet(f, S) \in Int /\ SumFunctionOnSet(h, S) \in Int
  BY SumType
<1> QED BY <1>1, <1>2, <1>3

\* One entry changes: so does the sum, by as much.
LEMMA SumUpdates ==
  ASSUME NEW S, IsFiniteSet(S), NEW f \in [S -> Int], NEW h \in [S -> Int],
         NEW x \in S, \A y \in S : y # x => h[y] = f[y]
  PROVE  SumFunction(h) = SumFunction(f) - f[x] + h[x]
<1>1. SumFunction(f) = SumFunctionOnSet(f, S) /\ SumFunction(h) = SumFunctionOnSet(h, S)
  BY DEF SumFunction
<1>2. SumFunctionOnSet(f, S) = f[x] + SumFunctionOnSet(f, S \ {x})
  BY SumTakes
<1>3. SumFunctionOnSet(h, S) = h[x] + SumFunctionOnSet(h, S \ {x})
  BY SumTakes
<1>4. IsFiniteSet(S \ {x})
  BY FS_Subset
<1>5. SumFunctionOnSet(h, S \ {x}) = SumFunctionOnSet(f, S \ {x})
  BY <1>4, SumAgrees
<1>6. SumFunctionOnSet(f, S \ {x}) \in Int
  BY <1>4, SumType
<1> QED BY <1>1, <1>2, <1>3, <1>5, <1>6

\* Nothing adds up to nothing.
LEMMA SumOfZeros ==
  ASSUME NEW f, NEW S, IsFiniteSet(S), \A x \in S : f[x] = 0
  PROVE  SumFunctionOnSet(f, S) = 0
<1> DEFINE Bad == {v \in SUBSET S : SumFunctionOnSet(f, v) # 0}
<1> SUFFICES ASSUME Bad # {} PROVE FALSE
  OBVIOUS
<1>1. PICK T \in Bad : \A w \in SUBSET T : w # T => w \notin Bad
  <2>1. Bad \in SUBSET SUBSET S
    OBVIOUS
  <2> HIDE DEF Bad
  <2> QED BY <2>1, MinimalSubset
<1>2. T # {} /\ T \in SUBSET S
  BY <1>1, SumOfNone
<1>3. PICK x \in T : x = First(T)
  BY <1>2 DEF First
<1>4. SumFunctionOnSet(f, T) = f[x] + SumFunctionOnSet(f, T \ {x})
  BY <1>2, <1>3, SumTakesFirst, FS_Subset
<1>5. SumFunctionOnSet(f, T \ {x}) = 0
  BY <1>1, <1>2
<1> QED BY <1>1, <1>2, <1>4, <1>5

\* The sum of a function, and of one with a single entry that is not zero.
LEMMA SumOne ==
  ASSUME NEW S, IsFiniteSet(S), NEW f \in [S -> Int],
         NEW x \in S, \A y \in S : y # x => f[y] = 0
  PROVE  SumFunction(f) = f[x]
<1> DEFINE zero == [y \in S |-> 0]
<1>1. zero \in [S -> Int] /\ \A y \in S : zero[y] = 0
  OBVIOUS
<1> HIDE DEF zero
<1>2. SumFunction(f) = SumFunction(zero) - zero[x] + f[x]
  BY <1>1, SumUpdates
<1>3. SumFunction(zero) = 0
  <2>1. SumFunction(zero) = SumFunctionOnSet(zero, S)
    BY DEF SumFunction, zero
  <2> QED BY <1>1, <2>1, SumOfZeros
<1> QED BY <1>1, <1>2, <1>3

\* The sum of a function's values, and how it grows with them.
LEMMA SumFunctionType ==
  ASSUME NEW S, IsFiniteSet(S), NEW Amount \in {Nat, Int}, NEW f \in [S -> Amount]
  PROVE  SumFunction(f) \in Amount
<1>1. \A x \in S : f[x] \in Amount
  OBVIOUS
<1>2. SumFunction(f) = SumFunctionOnSet(f, S)
  BY DEF SumFunction
<1> QED BY <1>1, <1>2, SumType

LEMMA SumFunctionMonotone ==
  ASSUME NEW S, IsFiniteSet(S), NEW f \in [S -> Int], NEW h \in [S -> Int],
         \A x \in S : f[x] <= h[x]
  PROVE  SumFunction(f) <= SumFunction(h)
<1>1. SumFunction(f) = SumFunctionOnSet(f, S) /\ SumFunction(h) = SumFunctionOnSet(h, S)
  BY DEF SumFunction
<1> QED BY <1>1, SumMonotone
=============================================================================
