----------------------------- MODULE SumsProofs -----------------------------
(***************************************************************************)
(* What the sums of the community modules add up to, over finite sets and  *)
(* for natural summands: the limiter counts with them, refunds are kept    *)
(* within a payment by them.                                               *)
(***************************************************************************)
EXTENDS FiniteSetsExt, FiniteSetTheorems, TLAPS

\* The element that the library takes out next.
Chosen(s) == CHOOSE x \in s : TRUE

\* The function that its recursion defines.
IsSum(g, f, S) ==
  g = [s \in SUBSET S |-> IF s = {} THEN 0 ELSE f[Chosen(s)] + g[s \ {Chosen(s)}]]

\* The sum over a set is the value there of the function that its recursion defines.
LEMMA SumUnfolds ==
  ASSUME NEW f, NEW S
  PROVE  SumFunctionOnSet(f, S) = (CHOOSE g : IsSum(g, f, S))[S]
BY DEF SumFunctionOnSet, FoldFunctionOnSet, MapThenFoldSet, IsSum, Chosen

\* Of the subsets of a finite set with some property one is minimal: the induction
\* that the proofs about sums rest on.
LEMMA MinimalSubset ==
  ASSUME NEW S, IsFiniteSet(S), NEW T \in SUBSET (SUBSET S), T # {}
  PROVE  \E s \in T : \A t \in T : t \subseteq s => t = s
<1>1. IsWellFoundedOn(StrictSubsetOrdering(S), SUBSET S)
  BY FS_StrictSubsetOrderingWellFounded, FS_FiniteSubsetsOfFinite
<1>2. \E s \in T : \A t \in T : <<t, s>> \notin StrictSubsetOrdering(S)
  BY <1>1, WFMin
<1> QED
  BY <1>2 DEF StrictSubsetOrdering

\* Two such functions agree wherever their summands do.
LEMMA SumsAgree ==
  ASSUME NEW S, IsFiniteSet(S), NEW R, NEW f, NEW e, NEW g, NEW h,
         IsSum(g, f, S), IsSum(h, e, R), \A x \in S \cap R : f[x] = e[x],
         NEW s \in SUBSET (S \cap R)
  PROVE  g[s] = h[s]
<1> DEFINE T == {t \in SUBSET (S \cap R) : g[t] # h[t]}
<1> SUFFICES ASSUME T # {} PROVE FALSE
  OBVIOUS
<1>1. IsFiniteSet(S \cap R)
  BY FS_Intersection
<1>0. T \in SUBSET (SUBSET (S \cap R))
  OBVIOUS
<1> HIDE DEF T
<1>2. PICK t \in T : \A u \in T : u \subseteq t => u = t
  BY <1>0, <1>1, MinimalSubset
<1> USE DEF T
<1>3. /\ g[t] = IF t = {} THEN 0 ELSE f[Chosen(t)] + g[t \ {Chosen(t)}]
      /\ h[t] = IF t = {} THEN 0 ELSE e[Chosen(t)] + h[t \ {Chosen(t)}]
  BY <1>2 DEF IsSum
<1>4. t # {}
  BY <1>2, <1>3
<1>5. Chosen(t) \in t
  BY <1>4 DEF Chosen
<1>6. t \ {Chosen(t)} \notin T
  BY <1>2, <1>5
<1> QED
  BY <1>2, <1>3, <1>4, <1>5, <1>6

\* There is one for each finite set, so that the CHOOSE behind the sum finds it.
LEMMA SumsExist ==
  ASSUME NEW S, IsFiniteSet(S), NEW f
  PROVE  \E g : IsSum(g, f, S)
<1> DEFINE T == {s \in SUBSET S : ~ \E g : IsSum(g, f, s)}
<1> SUFFICES ASSUME T # {} PROVE FALSE
  OBVIOUS
<1>0. T \in SUBSET (SUBSET S)
  OBVIOUS
<1> HIDE DEF T
<1>1. PICK s \in T : \A t \in T : t \subseteq s => t = s
  BY <1>0, MinimalSubset
<1> USE DEF T
<1> DEFINE sum(t) == CHOOSE g : IsSum(g, f, t)
           value(t) == IF t = {} THEN 0 ELSE f[Chosen(t)] + sum(t \ {Chosen(t)})[t \ {Chosen(t)}]
           g == [t \in SUBSET s |-> value(t)]
<1>2. \A t \in SUBSET s : t # s => IsSum(sum(t), f, t)
  BY <1>1
<1>3. ASSUME NEW t \in SUBSET s, t # s
      PROVE  g[t] = sum(t)[t]
  <2>1. sum(t)[t] = IF t = {} THEN 0 ELSE f[Chosen(t)] + sum(t)[t \ {Chosen(t)}]
    <3>1. IsSum(sum(t), f, t)
      BY <1>2, <1>3
    <3> HIDE DEF sum
    <3> QED
      BY <3>1 DEF IsSum
  <2>2. CASE t = {}
    BY <2>1, <2>2
  <2>3. CASE t # {}
    <3> DEFINE u == t \ {Chosen(t)}
    <3>1. u \in SUBSET s /\ u # s /\ u \subseteq t
      BY <1>3
    <3>2. IsFiniteSet(t) /\ IsFiniteSet(u)
      BY FS_Subset
    <3>3. IsSum(sum(t), f, t) /\ IsSum(sum(u), f, u)
      BY <1>2, <1>3, <3>1
    <3> HIDE DEF sum
    <3>4. sum(t)[u] = sum(u)[u]
      BY <3>1, <3>2, <3>3, SumsAgree
    <3> QED
      BY <2>1, <2>3, <3>4
  <2> QED
    BY <2>2, <2>3
<1>4. IsSum(g, f, s)
  <2>1. ASSUME NEW t \in SUBSET s
        PROVE  value(t) = IF t = {} THEN 0 ELSE f[Chosen(t)] + g[t \ {Chosen(t)}]
    <3>1. CASE t # {}
      <4> DEFINE u == t \ {Chosen(t)}
      <4>1. u \in SUBSET s /\ u # s
        BY <3>1 DEF Chosen
      <4>2. g[u] = sum(u)[u]
        BY <4>1, <1>3
      <4> HIDE DEF g, sum
      <4> QED
        BY <3>1, <4>2
    <3> QED
      BY <3>1
  <2> HIDE DEF value
  <2> QED
    BY <2>1 DEF IsSum
<1> HIDE DEF g
<1> QED
  BY <1>1, <1>4

\* One and the same gives the sums over all subsets of a set.
LEMMA SumIsSum ==
  ASSUME NEW S, IsFiniteSet(S), NEW f
  PROVE  \E g : IsSum(g, f, S) /\ \A s \in SUBSET S : SumFunctionOnSet(f, s) = g[s]
<1> DEFINE sum(s) == CHOOSE g : IsSum(g, f, s)
<1>1. \A s \in SUBSET S : IsFiniteSet(s) /\ IsSum(sum(s), f, s)
  BY SumsExist, FS_Subset
<1>2. ASSUME NEW s \in SUBSET S
      PROVE  SumFunctionOnSet(f, s) = sum(S)[s]
  <2>1. SumFunctionOnSet(f, s) = sum(s)[s]
    BY SumUnfolds
  <2>2. IsSum(sum(s), f, s) /\ IsSum(sum(S), f, S)
    BY <1>1
  <2> HIDE DEF sum
  <2> QED
    BY <2>1, <2>2, SumsAgree
<1> HIDE DEF sum
<1> QED
  BY <1>1, <1>2

\* Nothing adds up to nothing.
LEMMA SumOfNone ==
  ASSUME NEW f
  PROVE  SumFunctionOnSet(f, {}) = 0
<1>1. IsFiniteSet({})
  BY FS_EmptySet
<1>2. PICK g : IsSum(g, f, {}) /\ \A s \in SUBSET {} : SumFunctionOnSet(f, s) = g[s]
  BY <1>1, SumIsSum
<1> QED
  BY <1>2 DEF IsSum

\* The recursion, one step of it.
LEMMA SumOfChosen ==
  ASSUME NEW S, IsFiniteSet(S), NEW f, S # {}
  PROVE  /\ Chosen(S) \in S
         /\ SumFunctionOnSet(f, S)
              = f[Chosen(S)] + SumFunctionOnSet(f, S \ {Chosen(S)})
<1>1. PICK g : IsSum(g, f, S) /\ \A s \in SUBSET S : SumFunctionOnSet(f, s) = g[s]
  BY SumIsSum
<1> QED
  BY <1>1 DEF IsSum, Chosen

\* A sum of naturals is one.
LEMMA SumIsNatural ==
  ASSUME NEW S, IsFiniteSet(S), NEW f, \A x \in S : f[x] \in Nat
  PROVE  SumFunctionOnSet(f, S) \in Nat
<1> DEFINE T == {s \in SUBSET S : SumFunctionOnSet(f, s) \notin Nat}
<1> SUFFICES ASSUME T # {} PROVE FALSE
  OBVIOUS
<1>0. T \in SUBSET (SUBSET S)
  OBVIOUS
<1> HIDE DEF T
<1>1. PICK s \in T : \A t \in T : t \subseteq s => t = s
  BY <1>0, MinimalSubset
<1> USE DEF T
<1>2. s # {}
  <2>1. SumFunctionOnSet(f, {}) = 0
    BY SumOfNone
  <2>2. {} \notin T
    BY <2>1
  <2> QED
    BY <1>1, <2>2
<1>3. IsFiniteSet(s)
  BY FS_Subset
<1>4. /\ Chosen(s) \in s
      /\ SumFunctionOnSet(f, s) = f[Chosen(s)] + SumFunctionOnSet(f, s \ {Chosen(s)})
  BY <1>2, <1>3, SumOfChosen
<1>5. SumFunctionOnSet(f, s \ {Chosen(s)}) \in Nat
  <2>1. s \ {Chosen(s)} \notin T
    BY <1>1, <1>4
  <2> QED
    BY <1>1, <2>1
<1> QED
  BY <1>1, <1>4, <1>5

\* A sum does not depend on the order of what is added.
LEMMA SumTakesOut ==
  ASSUME NEW S, IsFiniteSet(S), NEW f, \A x \in S : f[x] \in Nat, NEW x \in S
  PROVE  SumFunctionOnSet(f, S) = f[x] + SumFunctionOnSet(f, S \ {x})
<1> DEFINE sum(s) == SumFunctionOnSet(f, s)
           T == {s \in SUBSET S : \E y \in s : sum(s) # f[y] + sum(s \ {y})}
<1> SUFFICES ASSUME T # {} PROVE FALSE
  OBVIOUS
<1>0. T \in SUBSET (SUBSET S)
  OBVIOUS
<1> HIDE DEF T
<1>1. PICK s \in T : \A t \in T : t \subseteq s => t = s
  BY <1>0, MinimalSubset
<1> USE DEF T
<1>2. PICK y \in s : sum(s) # f[y] + sum(s \ {y})
  BY <1>1
<1> DEFINE c == Chosen(s)
<1>3. \A t \in SUBSET S : IsFiniteSet(t) /\ sum(t) \in Nat
  BY FS_Subset, SumIsNatural
<1>4. c \in s /\ sum(s) = f[c] + sum(s \ {c})
  BY <1>1, <1>2, <1>3, SumOfChosen
<1> HIDE DEF sum, c
<1>5. c # y
  BY <1>2, <1>4
<1>6. s \ {c} \notin T /\ s \ {y} \notin T
  BY <1>1, <1>2, <1>4
<1>7. sum(s \ {c}) = f[y] + sum((s \ {c}) \ {y})
  BY <1>1, <1>2, <1>5, <1>6
<1>8. sum(s \ {y}) = f[c] + sum((s \ {y}) \ {c})
  BY <1>1, <1>4, <1>5, <1>6
<1>9. (s \ {y}) \ {c} = (s \ {c}) \ {y}
  OBVIOUS
<1>10. /\ f[y] \in Nat /\ f[c] \in Nat
       /\ sum((s \ {c}) \ {y}) \in Nat
  BY <1>1, <1>2, <1>3, <1>4
<1> QED
  BY <1>2, <1>4, <1>7, <1>8, <1>9, <1>10

\* Equal summands have equal sums.
LEMMA SumOfEqual ==
  ASSUME NEW S, IsFiniteSet(S), NEW f, NEW e, \A x \in S : f[x] = e[x]
  PROVE  SumFunctionOnSet(f, S) = SumFunctionOnSet(e, S)
<1>1. PICK g : IsSum(g, f, S) /\ \A s \in SUBSET S : SumFunctionOnSet(f, s) = g[s]
  BY SumIsSum
<1>2. PICK h : IsSum(h, e, S) /\ \A s \in SUBSET S : SumFunctionOnSet(e, s) = h[s]
  BY SumIsSum
<1>3. g[S] = h[S]
  BY <1>1, <1>2, SumsAgree
<1> QED
  BY <1>1, <1>2, <1>3

\* Sums over disjoint sets add up.
LEMMA SumOfUnion ==
  ASSUME NEW R, NEW S, IsFiniteSet(R), IsFiniteSet(S), R \cap S = {},
         NEW f, \A x \in R \cup S : f[x] \in Nat
  PROVE  SumFunctionOnSet(f, R \cup S) = SumFunctionOnSet(f, R) + SumFunctionOnSet(f, S)
<1> DEFINE sum(s) == SumFunctionOnSet(f, s)
           T == {s \in SUBSET R : sum(s \cup S) # sum(s) + sum(S)}
<1> SUFFICES ASSUME T # {} PROVE FALSE
  OBVIOUS
<1>0. T \in SUBSET (SUBSET R)
  OBVIOUS
<1> HIDE DEF T
<1>1. PICK s \in T : \A t \in T : t \subseteq s => t = s
  BY <1>0, MinimalSubset
<1> USE DEF T
<1>2. \A t \in SUBSET R : IsFiniteSet(t) /\ IsFiniteSet(t \cup S)
  BY FS_Subset, FS_Union
<1>3. \A t \in SUBSET R : sum(t) \in Nat
  BY <1>2, SumIsNatural
<1>4. sum(S) \in Nat /\ sum({}) = 0
  BY SumIsNatural, SumOfNone
<1>5. s # {}
  <2> DEFINE all == {} \cup S
  <2>1. all = S
    OBVIOUS
  <2> HIDE DEF all, sum
  <2>2. sum(all) = sum({}) + sum(S)
    BY <1>4, <2>1
  <2>3. {} \notin T
    BY <2>2 DEF all
  <2> QED
    BY <1>1, <2>3
<1>6. PICK x \in s : TRUE
  BY <1>5
<1>7. sum(s) = f[x] + sum(s \ {x}) /\ sum(s \cup S) = f[x] + sum((s \cup S) \ {x})
  BY <1>1, <1>2, SumTakesOut
<1>8. (s \cup S) \ {x} = (s \ {x}) \cup S
  BY <1>1, <1>6
<1>9. s \ {x} \notin T
  BY <1>1, <1>6
<1>10. sum((s \ {x}) \cup S) = sum(s \ {x}) + sum(S)
  BY <1>1, <1>9
<1>11. f[x] \in Nat /\ sum(s \ {x}) \in Nat
  BY <1>1, <1>3
<1> HIDE DEF sum
<1> QED
  BY <1>1, <1>4, <1>7, <1>8, <1>10, <1>11

\* Zeros add up to zero.
LEMMA SumOfZeros ==
  ASSUME NEW S, IsFiniteSet(S), NEW f, \A x \in S : f[x] = 0
  PROVE  SumFunctionOnSet(f, S) = 0
<1> DEFINE sum(s) == SumFunctionOnSet(f, s)
           T == {s \in SUBSET S : sum(s) # 0}
<1> SUFFICES ASSUME T # {} PROVE FALSE
  OBVIOUS
<1>0. T \in SUBSET (SUBSET S)
  OBVIOUS
<1> HIDE DEF T
<1>1. PICK s \in T : \A t \in T : t \subseteq s => t = s
  BY <1>0, MinimalSubset
<1> USE DEF T
<1>2. sum({}) = 0
  BY SumOfNone
<1>3. PICK x \in s : TRUE
  BY <1>1, <1>2
<1>4. sum(s) = f[x] + sum(s \ {x})
  <2>1. IsFiniteSet(s) /\ \A y \in s : f[y] \in Nat
    BY <1>1, FS_Subset
  <2> QED
    BY <2>1, SumTakesOut
<1>5. sum(s \ {x}) = 0
  BY <1>1, <1>3
<1> HIDE DEF sum
<1> QED
  BY <1>1, <1>4, <1>5

\* The larger the summands, the larger the sum.
LEMMA SumIsMonotone ==
  ASSUME NEW S, IsFiniteSet(S), NEW f, NEW e,
         \A x \in S : f[x] \in Nat /\ e[x] \in Nat /\ f[x] <= e[x]
  PROVE  SumFunctionOnSet(f, S) <= SumFunctionOnSet(e, S)
<1> DEFINE low(s) == SumFunctionOnSet(f, s)
           high(s) == SumFunctionOnSet(e, s)
           T == {s \in SUBSET S : ~ (low(s) <= high(s))}
<1> SUFFICES ASSUME T # {} PROVE FALSE
  OBVIOUS
<1>0. T \in SUBSET (SUBSET S)
  OBVIOUS
<1> HIDE DEF T
<1>1. PICK s \in T : \A t \in T : t \subseteq s => t = s
  BY <1>0, MinimalSubset
<1> USE DEF T
<1>2. low({}) <= high({})
  BY SumOfNone
<1>3. PICK x \in s : TRUE
  BY <1>1, <1>2
<1>4. \A t \in SUBSET S : low(t) \in Nat /\ high(t) \in Nat
  BY FS_Subset, SumIsNatural
<1>5. low(s) = f[x] + low(s \ {x}) /\ high(s) = e[x] + high(s \ {x})
  <2>1. IsFiniteSet(s) /\ \A y \in s : f[y] \in Nat /\ e[y] \in Nat
    BY <1>1, FS_Subset
  <2> QED
    BY <2>1, SumTakesOut
<1>6. low(s \ {x}) <= high(s \ {x})
  BY <1>1, <1>3
<1>7. f[x] \in Nat /\ e[x] \in Nat /\ f[x] <= e[x]
  BY <1>1
<1>8. low(s \ {x}) \in Nat /\ high(s \ {x}) \in Nat
  BY <1>1, <1>4
<1>9. ~ (low(s) <= high(s))
  BY <1>1
<1> HIDE DEF low, high
<1> QED
  BY <1>5, <1>6, <1>7, <1>8, <1>9

\* A part adds up to no more than the whole.
LEMMA SumOfPart ==
  ASSUME NEW S, IsFiniteSet(S), NEW R \in SUBSET S, NEW f, \A x \in S : f[x] \in Nat
  PROVE  SumFunctionOnSet(f, R) <= SumFunctionOnSet(f, S)
<1>1. IsFiniteSet(R) /\ IsFiniteSet(S \ R)
  BY FS_Subset
<1>2. SumFunctionOnSet(f, R) \in Nat /\ SumFunctionOnSet(f, S \ R) \in Nat
  BY <1>1, SumIsNatural
<1> DEFINE all == R \cup (S \ R)
<1>3. all = S
  OBVIOUS
<1>4. SumFunctionOnSet(f, all) = SumFunctionOnSet(f, R) + SumFunctionOnSet(f, S \ R)
  BY <1>1, SumOfUnion
<1> HIDE DEF all
<1> QED
  BY <1>2, <1>3, <1>4

\* The library's sum over records, as one over a function.
LEMMA SumOfAmounts ==
  ASSUME NEW f, NEW S
  PROVE  MapThenSumSet(LAMBDA x : f[x].amount, S)
           = SumFunctionOnSet([x \in S |-> f[x].amount], S)
BY DEF MapThenSumSet, SumFunctionOnSet, FoldFunctionOnSet, MapThenFoldSet

\* When the summands of each kind add up to at most a bound, those of some kinds
\* add up to at most as many times the bound.
LEMMA SumOfKinds ==
  ASSUME NEW S, IsFiniteSet(S), NEW f, \A x \in S : f[x] \in Nat, NEW kind,
         NEW K, IsFiniteSet(K), NEW n \in Nat,
         \A k \in K : SumFunctionOnSet(f, {x \in S : kind[x] = k}) <= n
  PROVE  SumFunctionOnSet(f, {x \in S : kind[x] \in K}) <= n * Cardinality(K)
<1> DEFINE of(t) == {x \in S : kind[x] \in t}
           only(k) == {x \in S : kind[x] = k}
           sum(s) == SumFunctionOnSet(f, s)
           T == {t \in SUBSET K : ~ (sum(of(t)) <= n * Cardinality(t))}
<1> SUFFICES ASSUME T # {} PROVE FALSE
  OBVIOUS
<1>0. T \in SUBSET (SUBSET K)
  OBVIOUS
<1> HIDE DEF T
<1>1. PICK t \in T : \A u \in T : u \subseteq t => u = t
  BY <1>0, MinimalSubset
<1>2. \A s \in SUBSET S : IsFiniteSet(s) /\ sum(s) \in Nat
  BY FS_Subset, SumIsNatural
<1>3. t # {}
  <2>1. of({}) = {}
    OBVIOUS
  <2>2. sum({}) = 0 /\ Cardinality({}) = 0
    BY SumOfNone, FS_EmptySet
  <2>3. sum(of({})) <= n * Cardinality({})
    BY <2>1, <2>2
  <2>4. {} \notin T
    <3> HIDE DEF of, sum
    <3> QED
      BY <2>3 DEF T
  <2> QED
    BY <1>1, <2>4
<1>4. PICK k \in t : TRUE
  BY <1>3
<1> DEFINE rest == t \ {k}
<1>5. t \in SUBSET K /\ k \in K /\ rest \in SUBSET K /\ IsFiniteSet(t)
  BY <1>0, <1>1, <1>4, FS_Subset
<1>6. sum(of(rest)) <= n * Cardinality(rest)
  <2>1. rest \notin T
    BY <1>1, <1>4
  <2> QED
    BY <1>5, <2>1 DEF T
<1>7. sum(of(t)) = sum(of(rest)) + sum(only(k))
  <2> DEFINE all == of(rest) \cup only(k)
  <2>1. all = of(t)
    BY <1>4
  <2>2. of(rest) \in SUBSET S /\ only(k) \in SUBSET S /\ of(rest) \cap only(k) = {}
    OBVIOUS
  <2>3. IsFiniteSet(of(rest)) /\ IsFiniteSet(only(k)) /\ \A x \in all : f[x] \in Nat
    BY <1>2, <2>2
  <2> HIDE DEF of, only, rest
  <2>4. sum(all) = sum(of(rest)) + sum(only(k))
    BY <2>2, <2>3, SumOfUnion
  <2> HIDE DEF all, sum
  <2> QED
    BY <2>1, <2>4
<1>8. Cardinality(t) \in Nat /\ Cardinality(rest) = Cardinality(t) - 1
  BY <1>4, <1>5, FS_RemoveElement, FS_CardinalityType
<1>9. n * Cardinality(rest) = n * Cardinality(t) - n /\ n * Cardinality(t) \in Nat
  BY <1>8
<1>10. sum(only(k)) <= n /\ sum(only(k)) \in Nat /\ sum(of(rest)) \in Nat
  BY <1>2, <1>5
<1>11. sum(of(t)) <= n * Cardinality(t)
  <2> HIDE DEF of, only, sum, rest
  <2> QED
    BY <1>6, <1>7, <1>9, <1>10
<1> QED
  BY <1>1, <1>11 DEF T

\* Amounts of at most m add up to at most m times their number.
LEMMA SumIsBounded ==
  ASSUME NEW S, IsFiniteSet(S), NEW m \in Nat, NEW f, \A x \in S : f[x] \in 0..m
  PROVE  /\ SumFunctionOnSet(f, S) \in Nat
         /\ Cardinality(S) \in Nat
         /\ SumFunctionOnSet(f, S) <= m * Cardinality(S)
<1> DEFINE itself == [x \in S |-> x]
<1>1. \A x \in S : f[x] \in Nat
  OBVIOUS
<1>2. ASSUME NEW k \in S
      PROVE  SumFunctionOnSet(f, {x \in S : itself[x] = k}) <= m
  <2> DEFINE only == {x \in S : itself[x] = k}
  <2>1. only = {k}
    OBVIOUS
  <2>2. IsFiniteSet({k}) /\ IsFiniteSet({})
    BY FS_Singleton, FS_EmptySet
  <2>3. SumFunctionOnSet(f, {k}) = f[k] + SumFunctionOnSet(f, {k} \ {k})
    BY <1>1, <2>2, SumTakesOut
  <2>4. {k} \ {k} = {}
    OBVIOUS
  <2>5. SumFunctionOnSet(f, {}) = 0
    BY SumOfNone
  <2>6. SumFunctionOnSet(f, {k}) = f[k]
    BY <1>1, <2>3, <2>4, <2>5
  <2>7. SumFunctionOnSet(f, only) = f[k]
    BY <2>1, <2>6
  <2> QED
    BY <2>7
<1>3. {x \in S : itself[x] \in S} = S
  OBVIOUS
<1>4. Cardinality(S) \in Nat
  BY FS_CardinalityType
<1> HIDE DEF itself
<1>5. SumFunctionOnSet(f, {x \in S : itself[x] \in S}) <= m * Cardinality(S)
  BY <1>1, <1>2, SumOfKinds
<1>6. SumFunctionOnSet(f, S) \in Nat
  BY <1>1, SumIsNatural
<1> QED
  BY <1>3, <1>4, <1>5, <1>6
=============================================================================
