---------------------------- MODULE PlateauProofs ----------------------------
(***************************************************************************)
(* Three things about repair and plateau search. Its nodes: no part spends *)
(* more than it was given, and what a round or level has is divided        *)
(* evenly. Its layouts: every one it keeps is legal. Its best result: only *)
(* one that is no worse, or better, ever takes its place.                  *)
(*                                                                         *)
(* The invariant of the nodes is about numbers, but what is divided is a   *)
(* sequence of neighbourhoods that comes out of the placements, the walk's *)
(* plan and the archive, so most of the first lemmas say that these are    *)
(* finite. The invariant of the layouts adds where each of them comes      *)
(* from. That of the best result adds that layouts can be compared: their  *)
(* scores are made of numbers, and no two placements have the same key.    *)
(*                                                                         *)
(* Where the library's operators fold, their unfolding is proved first,    *)
(* since no theorem about operators given as arguments can be cited.       *)
(***************************************************************************)
EXTENDS Plateau, NumberLemmas, FiniteSetTheorems, FunctionTheorems, TLAPS

-----------------------------------------------------------------------------
(* Totals.                                                                  *)

\* Induction over the subsets of a finite set, for the collection P of those with
\* some property: one element less at a time.
LEMMA SubsetInduction ==
    ASSUME NEW S, IsFiniteSet(S), NEW P,
           \A s \in SUBSET S : (\A x \in s : s \ {x} \in P) => s \in P
    PROVE  (SUBSET S) \subseteq P
<1>. DEFINE N == Cardinality(S)
            T == {k \in 0..N : \A s \in SUBSET S : Cardinality(s) = k => s \in P}
<1>0. N \in Nat /\ \A s \in SUBSET S : IsFiniteSet(s) /\ Cardinality(s) \in 0..N
  BY FS_Subset, FS_CardinalityType
<1>1. 0 \in T
  BY <1>0, FS_EmptySet
<1>2. ASSUME NEW k \in 0..(N - 1), k \in T
      PROVE  k + 1 \in T
  <2>1. ASSUME NEW s \in SUBSET S, Cardinality(s) = k + 1
        PROVE  s \in P
    <3>1. ASSUME NEW x \in s PROVE s \ {x} \in P
      <4>1. Cardinality(s \ {x}) = Cardinality(s) - 1
        BY <1>0, FS_RemoveElement
      <4>2. Cardinality(s \ {x}) = k
        BY <4>1, <2>1
      <4>. QED  BY <4>2, <1>2
    <3>. QED  BY <3>1
  <2>2. k + 1 \in 0..N
    BY <1>0
  <2>. QED  BY <2>1, <2>2
<1>3. 0..N \subseteq T
  <2>. HIDE DEF T, N
  <2>. QED  BY <1>0, <1>1, <1>2, InductionUpTo
<1>4. ASSUME NEW s \in SUBSET S PROVE s \in P
  <2>1. Cardinality(s) \in T
    BY <1>0, <1>3
  <2>. QED  BY <2>1
<1>. QED  BY <1>4

\* Recursion over the subsets of a finite set: what a set comes to is a step from
\* the element picked of it and from what the rest comes to.
Unfolds(f, D, base, pick, step) ==
    \A s \in D : f[s] = IF s = {} THEN base ELSE step[<<pick[s], f[s \ {pick[s]}]>>]

\* Such a recursion has a function, on all subsets of a finite set.
LEMMA FiniteRecursion ==
    ASSUME NEW S, IsFiniteSet(S), NEW V, NEW base \in V, NEW step \in [S \X V -> V],
           NEW pick, \A s \in SUBSET S : s # {} => pick[s] \in s
    PROVE  \E f \in [SUBSET S -> V] : Unfolds(f, SUBSET S, base, pick, step)
<1>. DEFINE N == Cardinality(S)
            UpTo(k) == {s \in SUBSET S : Cardinality(s) <= k}
            T == {k \in 0..N : \E f \in [UpTo(k) -> V] : Unfolds(f, UpTo(k), base, pick, step)}
<1>0. N \in Nat /\ \A s \in SUBSET S : IsFiniteSet(s) /\ Cardinality(s) \in 0..N
  BY FS_Subset, FS_CardinalityType
<1>1. 0 \in T
  <2>1. UpTo(0) = {{}}
    BY <1>0, FS_EmptySet
  <2>2. [s \in {{}} |-> base] \in [{{}} -> V] /\ Unfolds([s \in {{}} |-> base], {{}}, base, pick, step)
    BY DEF Unfolds
  <2>3. \E f \in [UpTo(0) -> V] : Unfolds(f, UpTo(0), base, pick, step)
    BY <2>1, <2>2
  <2>4. 0 \in 0..N
    BY <1>0
  <2>. HIDE DEF UpTo, N
  <2>. QED  BY <2>3, <2>4
<1>2. ASSUME NEW k \in 0..(N - 1), k \in T
      PROVE  k + 1 \in T
  <2>1. PICK f \in [UpTo(k) -> V] : Unfolds(f, UpTo(k), base, pick, step)
    BY <1>2
  <2>. DEFINE D == UpTo(k + 1)
              g == [s \in D |-> IF s = {} THEN base ELSE step[<<pick[s], f[s \ {pick[s]}]>>]]
  <2>2. ASSUME NEW s \in D, s # {}
        PROVE  pick[s] \in S /\ s \ {pick[s]} \in UpTo(k)
    <3>1. pick[s] \in s /\ s \in SUBSET S
      BY <2>2
    <3>2. Cardinality(s \ {pick[s]}) = Cardinality(s) - 1
      BY <3>1, <1>0, FS_RemoveElement
    <3>3. Cardinality(s) \in Nat /\ Cardinality(s) <= k + 1
      BY <3>1, <1>0, <2>2
    <3>4. Cardinality(s \ {pick[s]}) <= k
      BY <3>2, <3>3
    <3>. QED  BY <3>1, <3>4
  <2>3. ASSUME NEW s \in UpTo(k) PROVE s \in D /\ f[s] = g[s]
    <3>1. s \in D
      BY <1>0
    <3>. QED  BY <3>1, <2>1 DEF Unfolds
  <2>4. ASSUME NEW s \in D PROVE g[s] \in V
    <3>1. CASE s = {}
      BY <3>1
    <3>2. CASE s # {}
      <4>1. <<pick[s], f[s \ {pick[s]}]>> \in S \X V
        BY <2>2, <3>2
      <4>2. g[s] = step[<<pick[s], f[s \ {pick[s]}]>>]
        BY <3>2
      <4>. QED  BY <4>1, <4>2
    <3>. QED  BY <3>1, <3>2
  <2>5. ASSUME NEW s \in D
        PROVE  g[s] = IF s = {} THEN base ELSE step[<<pick[s], g[s \ {pick[s]}]>>]
    <3>1. CASE s = {}
      BY <3>1
    <3>2. CASE s # {}
      <4>1. f[s \ {pick[s]}] = g[s \ {pick[s]}]
        BY <2>2, <2>3, <3>2
      <4>. QED  BY <4>1, <3>2
    <3>. QED  BY <3>1, <3>2
  <2>6. g \in [D -> V] /\ Unfolds(g, D, base, pick, step)
    <3>1. g \in [D -> V]
      BY <2>4
    <3>. HIDE DEF g, D
    <3>. QED  BY <3>1, <2>5 DEF Unfolds
  <2>7. k + 1 \in 0..N
    BY <1>0
  <2>. QED  BY <2>6, <2>7
<1>3. N \in T
  <2>. HIDE DEF T, N
  <2>1. 0..N \subseteq T
    BY <1>0, <1>1, <1>2, InductionUpTo
  <2>. QED  BY <2>1, <1>0
<1>4. UpTo(N) = SUBSET S
  BY <1>0
<1>. QED  BY <1>3, <1>4
-----------------------------------------------------------------------------
\* A function with finitely many values, all integers, and part of it.
Summable(f) == IsFiniteSet(DOMAIN f) /\ f \in [DOMAIN f -> Int]
Only(f, s) == [x \in s |-> f[x]]

\* Some element, and the sum that takes such elements one after another.
AnyOf(s) == CHOOSE x \in s : TRUE
SumsUp(sum, f, S) ==
    sum = [s \in SUBSET S |-> IF s = {} THEN 0 ELSE f[AnyOf(s)] + sum[s \ {AnyOf(s)}]]

\* Whichever element is taken, it is added to the sum of the rest.
Peels(sum, f, S) == \A s \in SUBSET S : \A x \in s : sum[s] = f[x] + sum[s \ {x}]

\* The library's sum is the total of a recursion over the subsets of the domain.
LEMMA TotalUnfolds ==
    ASSUME NEW f, Summable(f)
    PROVE  /\ SumsUp(CHOOSE sum : SumsUp(sum, f, DOMAIN f), f, DOMAIN f)
           /\ Total(f) = (CHOOSE sum : SumsUp(sum, f, DOMAIN f))[DOMAIN f]
<1>. DEFINE S == DOMAIN f
            pick == [s \in SUBSET S |-> AnyOf(s)]
            step == [p \in S \X Int |-> f[p[1]] + p[2]]
<1>1. \A s \in SUBSET S : s # {} => pick[s] \in s
  BY DEF AnyOf
<1>2. step \in [S \X Int -> Int] /\ 0 \in Int /\ IsFiniteSet(S)
  BY DEF Summable
<1>3. PICK sum \in [SUBSET S -> Int] : Unfolds(sum, SUBSET S, 0, pick, step)
  <2>. HIDE DEF S, pick, step
  <2>. QED  BY <1>1, <1>2, FiniteRecursion
<1>4. ASSUME NEW s \in SUBSET S
      PROVE  sum[s] = IF s = {} THEN 0 ELSE f[AnyOf(s)] + sum[s \ {AnyOf(s)}]
  <2>1. CASE s = {}
    BY <1>3, <2>1 DEF Unfolds
  <2>2. CASE s # {}
    <3>1. pick[s] = AnyOf(s) /\ AnyOf(s) \in S /\ s \ {AnyOf(s)} \in SUBSET S
      BY <1>1, <2>2
    <3>2. <<AnyOf(s), sum[s \ {AnyOf(s)}]>> \in S \X Int
      BY <3>1, <1>3
    <3>3. sum[s] = step[<<AnyOf(s), sum[s \ {AnyOf(s)}]>>]
      BY <1>3, <2>2, <3>1 DEF Unfolds
    <3>4. step[<<AnyOf(s), sum[s \ {AnyOf(s)}]>>] = f[AnyOf(s)] + sum[s \ {AnyOf(s)}]
      BY <3>2
    <3>. QED  BY <3>3, <3>4, <2>2
  <2>. QED  BY <2>1, <2>2
<1>5. SumsUp(sum, f, S)
  BY <1>3, <1>4 DEF SumsUp
<1>6. \E g : SumsUp(g, f, DOMAIN f)
  BY <1>5
<1>7. SumsUp(CHOOSE g : SumsUp(g, f, DOMAIN f), f, DOMAIN f)
  BY <1>6
<1>8. Total(f) = (CHOOSE g : SumsUp(g, f, DOMAIN f))[DOMAIN f]
  BY Zenon DEF Total, FoldFunction, FoldFunctionOnSet, MapThenFoldSet, SumsUp, AnyOf
<1>. QED  BY <1>7, <1>8

\* Whichever elements are picked first the sum is the same, of a function and of
\* part of it.
LEMMA SumsUpUnique ==
    ASSUME NEW f, Summable(f), NEW S \in SUBSET DOMAIN f,
           NEW sum, SumsUp(sum, f, S),
           NEW other, SumsUp(other, f, DOMAIN f)
    PROVE  \A s \in SUBSET S : sum[s] \in Int /\ sum[s] = other[s]
<1>. DEFINE P == {s \in SUBSET S : sum[s] \in Int /\ sum[s] = other[s]}
<1>1. ASSUME NEW s \in SUBSET S, \A x \in s : s \ {x} \in P
      PROVE  s \in P
  <2>1. CASE s = {}
    BY <2>1 DEF SumsUp
  <2>2. CASE s # {}
    <3>1. AnyOf(s) \in s
      BY <2>2 DEF AnyOf
    <3>2. s \ {AnyOf(s)} \in P /\ f[AnyOf(s)] \in Int
      BY <1>1, <3>1 DEF Summable
    <3>3. sum[s] = f[AnyOf(s)] + sum[s \ {AnyOf(s)}]
      BY <2>2 DEF SumsUp
    <3>4. other[s] = f[AnyOf(s)] + other[s \ {AnyOf(s)}]
      BY <2>2 DEF SumsUp
    <3>. QED  BY <3>2, <3>3, <3>4
  <2>. QED  BY <2>1, <2>2
<1>2. IsFiniteSet(S)
  BY FS_Subset DEF Summable
<1>3. (SUBSET S) \subseteq P
  <2>. HIDE DEF P
  <2>. QED  BY <1>1, <1>2, SubsetInduction
<1>. QED  BY <1>3

\* Part of a function with integer values is one.
LEMMA OnlyIsSummable ==
    ASSUME NEW f, Summable(f), NEW s \in SUBSET DOMAIN f
    PROVE  Summable(Only(f, s)) /\ DOMAIN Only(f, s) = s
BY FS_Subset DEF Summable, Only

\* Any element may come first in a sum.
LEMMA AnyFirst ==
    ASSUME NEW f, Summable(f), NEW sum, SumsUp(sum, f, DOMAIN f)
    PROVE  Peels(sum, f, DOMAIN f)
<1>. DEFINE S == DOMAIN f
            P == {s \in SUBSET S : \A x \in s : sum[s] = f[x] + sum[s \ {x}]}
<1>0. \A s \in SUBSET S : sum[s] \in Int
  BY SumsUpUnique
<1>1. ASSUME NEW s \in SUBSET S, \A x \in s : s \ {x} \in P
      PROVE  s \in P
  <2>1. ASSUME NEW x \in s PROVE sum[s] = f[x] + sum[s \ {x}]
    <3>. DEFINE y == AnyOf(s)
    <3>1. y \in s
      BY DEF AnyOf
    <3>2. sum[s] = f[y] + sum[s \ {y}]
      BY <3>1 DEF SumsUp
    <3>. HIDE DEF y
    <3>3. CASE x = y
      BY <3>2, <3>3
    <3>4. CASE x # y
      <4>1. x \in s \ {y} /\ y \in s \ {x}
        BY <3>1, <3>4
      <4>2. sum[s \ {y}] = f[x] + sum[(s \ {y}) \ {x}]
        BY <3>1, <4>1, <1>1
      <4>3. sum[s \ {x}] = f[y] + sum[(s \ {x}) \ {y}]
        BY <4>1, <1>1
      <4>4. (s \ {y}) \ {x} = (s \ {x}) \ {y}
        OBVIOUS
      <4>5. f[x] \in Int /\ f[y] \in Int
        BY <3>1 DEF Summable
      <4>6. (s \ {x}) \ {y} \in SUBSET S
        OBVIOUS
      <4>7. sum[(s \ {x}) \ {y}] \in Int
        BY <1>0, <4>6
      <4>8. sum[s] = f[y] + (f[x] + sum[(s \ {x}) \ {y}])
        BY <3>2, <4>2, <4>4
      <4>9. f[y] + (f[x] + sum[(s \ {x}) \ {y}]) = f[x] + (f[y] + sum[(s \ {x}) \ {y}])
        BY <4>5, <4>7
      <4>. QED  BY <4>3, <4>8, <4>9
    <3>. QED  BY <3>3, <3>4
  <2>. QED  BY <2>1
<1>2. IsFiniteSet(S)
  BY DEF Summable
<1>3. (SUBSET S) \subseteq P
  <2>. HIDE DEF P, S
  <2>. QED  BY <1>1, <1>2, SubsetInduction
<1>. QED  BY <1>3 DEF Peels

\* The total of a function is one of its values, of any element, and the total of
\* the rest.
LEMMA TotalOfPart ==
    ASSUME NEW f, Summable(f)
    PROVE  \E sum : /\ SumsUp(sum, f, DOMAIN f)
                    /\ \A s \in SUBSET DOMAIN f : sum[s] \in Int /\ sum[s] = Total(Only(f, s))
                    /\ Peels(sum, f, DOMAIN f)
<1>. DEFINE sum == CHOOSE g : SumsUp(g, f, DOMAIN f)
<1>1. SumsUp(sum, f, DOMAIN f)
  BY TotalUnfolds
<1>2. ASSUME NEW s \in SUBSET DOMAIN f
      PROVE  sum[s] \in Int /\ sum[s] = Total(Only(f, s))
  <2>. DEFINE part == CHOOSE g : SumsUp(g, Only(f, s), DOMAIN Only(f, s))
  <2>1. Summable(Only(f, s)) /\ DOMAIN Only(f, s) = s
    BY OnlyIsSummable
  <2>2. SumsUp(part, Only(f, s), DOMAIN Only(f, s)) /\ Total(Only(f, s)) = part[DOMAIN Only(f, s)]
    BY <2>1, TotalUnfolds
  <2>. HIDE DEF part, sum
  <2>3. SumsUp(part, Only(f, s), s) /\ Total(Only(f, s)) = part[s]
    BY <2>1, <2>2
  <2>4. \A t \in SUBSET s : t # {} => AnyOf(t) \in t
    BY DEF AnyOf
  <2>5. \A t \in SUBSET s : t # {} => Only(f, s)[AnyOf(t)] = f[AnyOf(t)]
    BY <2>4 DEF Only
  <2>6. ASSUME NEW t \in SUBSET s
        PROVE  (IF t = {} THEN 0 ELSE Only(f, s)[AnyOf(t)] + part[t \ {AnyOf(t)}])
               = (IF t = {} THEN 0 ELSE f[AnyOf(t)] + part[t \ {AnyOf(t)}])
    BY <2>5
  <2>7. SumsUp(part, f, s)
    BY <2>3, <2>6 DEF SumsUp
  <2>. QED  BY <1>1, <2>3, <2>7, SumsUpUnique
<1>3. Peels(sum, f, DOMAIN f)
  <2>. HIDE DEF sum
  <2>. QED  BY <1>1, AnyFirst
<1>. QED  BY <1>1, <1>2, <1>3

\* The total is an integer, 0 of nothing, and one value plus the total of the others.
LEMMA TotalRest ==
    ASSUME NEW f, Summable(f)
    PROVE  /\ Total(f) \in Int
           /\ DOMAIN f = {} => Total(f) = 0
           /\ \A x \in DOMAIN f : Total(f) = f[x] + Total(Only(f, DOMAIN f \ {x}))
<1>1. PICK sum : /\ SumsUp(sum, f, DOMAIN f)
                 /\ \A s \in SUBSET DOMAIN f : sum[s] \in Int /\ sum[s] = Total(Only(f, s))
                 /\ Peels(sum, f, DOMAIN f)
  BY TotalOfPart
<1>2. Total(f) = (CHOOSE g : SumsUp(g, f, DOMAIN f))[DOMAIN f] /\ SumsUp(CHOOSE g : SumsUp(g, f, DOMAIN f), f, DOMAIN f)
  BY TotalUnfolds
<1>3. Total(f) = sum[DOMAIN f]
  <2>. DEFINE g == CHOOSE h : SumsUp(h, f, DOMAIN f)
  <2>1. SumsUp(g, f, DOMAIN f) /\ Total(f) = g[DOMAIN f]
    BY <1>2
  <2>. HIDE DEF g
  <2>. QED  BY <1>1, <2>1, SumsUpUnique
<1>4. DOMAIN f = {} => Total(f) = 0
  BY <1>1, <1>3 DEF SumsUp
<1>5. ASSUME NEW x \in DOMAIN f
      PROVE  Total(f) = f[x] + Total(Only(f, DOMAIN f \ {x}))
  <2>0. \A s \in SUBSET DOMAIN f : \A y \in s : sum[s] = f[y] + sum[s \ {y}]
    BY <1>1 DEF Peels
  <2>1. sum[DOMAIN f] = f[x] + sum[DOMAIN f \ {x}]
    BY <2>0
  <2>2. sum[DOMAIN f \ {x}] = Total(Only(f, DOMAIN f \ {x}))
    BY <1>1
  <2>. QED  BY <1>3, <2>1, <2>2
<1>. QED  BY <1>1, <1>3, <1>4, <1>5

\* The total over a set that gains an element, and over two sets apart.
LEMMA TotalGains ==
    ASSUME NEW f, Summable(f), NEW s \in SUBSET DOMAIN f, NEW x \in DOMAIN f \ s
    PROVE  Total(Only(f, s \cup {x})) = f[x] + Total(Only(f, s))
<1>. DEFINE g == Only(f, s \cup {x})
<1>1. Summable(g) /\ DOMAIN g = s \cup {x} /\ x \in DOMAIN g /\ g[x] = f[x]
  BY OnlyIsSummable DEF Only
<1>2. Only(g, DOMAIN g \ {x}) = Only(f, s)
  BY <1>1 DEF Only
<1>. HIDE DEF g
<1>3. Total(g) = g[x] + Total(Only(g, DOMAIN g \ {x}))
  BY <1>1, TotalRest
<1>. QED  BY <1>1, <1>2, <1>3 DEF g

\* Where no value is smaller no total is.
LEMMA TotalMonotone ==
    ASSUME NEW f, NEW g, Summable(f), Summable(g), DOMAIN f = DOMAIN g,
           \A x \in DOMAIN f : f[x] <= g[x]
    PROVE  Total(f) <= Total(g)
<1>. DEFINE S == DOMAIN f
            P == {s \in SUBSET S : Total(Only(f, s)) <= Total(Only(g, s))}
<1>1. ASSUME NEW s \in SUBSET S, \A x \in s : s \ {x} \in P
      PROVE  s \in P
  <2>0. /\ Summable(Only(f, s)) /\ DOMAIN Only(f, s) = s
        /\ Summable(Only(g, s)) /\ DOMAIN Only(g, s) = s
    BY OnlyIsSummable
  <2>1. CASE s = {}
    BY <2>0, <2>1, TotalRest
  <2>2. CASE s # {}
    <3>1. PICK x \in s : TRUE
      BY <2>2
    <3>2. s \ {x} \in SUBSET S /\ x \in S \ (s \ {x}) /\ (s \ {x}) \cup {x} = s
      BY <3>1
    <3>3. Total(Only(f, s)) = f[x] + Total(Only(f, s \ {x}))
      BY <3>2, TotalGains
    <3>4. Total(Only(g, s)) = g[x] + Total(Only(g, s \ {x}))
      BY <3>2, TotalGains
    <3>5. Total(Only(f, s \ {x})) <= Total(Only(g, s \ {x}))
      BY <1>1, <3>1
    <3>6. Total(Only(f, s \ {x})) \in Int /\ Total(Only(g, s \ {x})) \in Int
      BY <3>2, OnlyIsSummable, TotalRest
    <3>7. f[x] \in Int /\ g[x] \in Int /\ f[x] <= g[x]
      BY <3>1 DEF Summable
    <3>. QED  BY <3>3, <3>4, <3>5, <3>6, <3>7
  <2>. QED  BY <2>1, <2>2
<1>2. IsFiniteSet(S)
  BY DEF Summable
<1>3. (SUBSET S) \subseteq P
  <2>. HIDE DEF P, S
  <2>. QED  BY <1>1, <1>2, SubsetInduction
<1>4. Total(Only(f, S)) <= Total(Only(g, S))
  BY <1>3
<1>5. Only(f, S) = f /\ Only(g, S) = g
  BY DEF Only, Summable
<1>. QED  BY <1>4, <1>5

\* Over two sets apart, and over a part of a set.
LEMMA TotalUnion ==
    ASSUME NEW f, Summable(f), NEW s \in SUBSET DOMAIN f, NEW t \in SUBSET DOMAIN f, s \cap t = {}
    PROVE  Total(Only(f, s \cup t)) = Total(Only(f, s)) + Total(Only(f, t))
<1>. DEFINE P == {u \in SUBSET t : Total(Only(f, s \cup u)) = Total(Only(f, s)) + Total(Only(f, u))}
<1>0. ASSUME NEW u \in SUBSET DOMAIN f PROVE Total(Only(f, u)) \in Int
  BY OnlyIsSummable, TotalRest
<1>1. ASSUME NEW u \in SUBSET t, \A x \in u : u \ {x} \in P
      PROVE  u \in P
  <2>1. CASE u = {}
    <3>1. s \cup u = s
      BY <2>1
    <3>2. Total(Only(f, u)) = 0
      <4>1. Summable(Only(f, u)) /\ DOMAIN Only(f, u) = u
        BY OnlyIsSummable
      <4>. QED  BY <4>1, <2>1, TotalRest
    <3>3. Total(Only(f, s)) \in Int
      BY <1>0
    <3>4. Total(Only(f, s)) = Total(Only(f, s)) + 0
      BY <3>3
    <3>5. Total(Only(f, s \cup u)) = Total(Only(f, s)) + Total(Only(f, u))
      BY <3>1, <3>2, <3>4
    <3>. QED  BY <3>5
  <2>2. CASE u # {}
    <3>1. PICK x \in u : TRUE
      BY <2>2
    <3>. DEFINE v == u \ {x}
    <3>2. /\ v \in SUBSET DOMAIN f /\ x \in DOMAIN f \ v /\ v \cup {x} = u
          /\ s \cup v \in SUBSET DOMAIN f /\ x \in DOMAIN f \ (s \cup v) /\ (s \cup v) \cup {x} = s \cup u
      BY <3>1
    <3>3. Total(Only(f, s \cup v)) = Total(Only(f, s)) + Total(Only(f, v))
      BY <1>1, <3>1
    <3>. HIDE DEF v
    <3>4. Total(Only(f, u)) = f[x] + Total(Only(f, v))
      BY <3>2, TotalGains
    <3>5. Total(Only(f, s \cup u)) = f[x] + Total(Only(f, s \cup v))
      BY <3>2, TotalGains
    <3>6. f[x] \in Int
      BY <3>2 DEF Summable
    <3>7. Total(Only(f, s)) \in Int /\ Total(Only(f, v)) \in Int
      BY <1>0, <3>2
    <3>8. Total(Only(f, s \cup u)) = f[x] + (Total(Only(f, s)) + Total(Only(f, v)))
      BY <3>3, <3>5
    <3>9. f[x] + (Total(Only(f, s)) + Total(Only(f, v))) = Total(Only(f, s)) + (f[x] + Total(Only(f, v)))
      BY <3>6, <3>7
    <3>10. Total(Only(f, s \cup u)) = Total(Only(f, s)) + Total(Only(f, u))
      BY <3>4, <3>8, <3>9
    <3>. QED  BY <3>10 DEF P
  <2>. QED  BY <2>1, <2>2
<1>2. IsFiniteSet(t)
  BY FS_Subset DEF Summable
<1>3. (SUBSET t) \subseteq P
  <2>. HIDE DEF P
  <2>. QED  BY <1>1, <1>2, SubsetInduction
<1>. QED  BY <1>3

\* No total of natural numbers is negative.
LEMMA TotalIsNatural ==
    ASSUME NEW f, IsFiniteSet(DOMAIN f), f \in [DOMAIN f -> Nat]
    PROVE  Summable(f) /\ Total(f) \in Nat
<1>. DEFINE z == [x \in DOMAIN f |-> 0]
            S == DOMAIN f
<1>1. Summable(f)
  BY DEF Summable
<1>2. Summable(z) /\ DOMAIN z = S /\ IsFiniteSet(S)
  BY DEF Summable
<1>3. \A x \in DOMAIN z : z[x] <= f[x]
  OBVIOUS
<1>4. Total(z) = 0
  <2>. DEFINE P == {s \in SUBSET S : Total(Only(z, s)) = 0}
  <2>1. ASSUME NEW s \in SUBSET S, \A x \in s : s \ {x} \in P
        PROVE  s \in P
    <3>0. Summable(Only(z, s)) /\ DOMAIN Only(z, s) = s
      BY <1>2, OnlyIsSummable
    <3>1. CASE s = {}
      BY <3>0, <3>1, TotalRest
    <3>2. CASE s # {}
      <4>1. PICK x \in s : TRUE
        BY <3>2
      <4>2. s \ {x} \in SUBSET DOMAIN z /\ x \in DOMAIN z \ (s \ {x}) /\ (s \ {x}) \cup {x} = s
        BY <4>1
      <4>3. Total(Only(z, s)) = z[x] + Total(Only(z, s \ {x}))
        <5>. HIDE DEF z
        <5>. QED  BY <1>2, <4>2, TotalGains
      <4>4. Total(Only(z, s \ {x})) = 0 /\ z[x] = 0
        BY <2>1, <4>1
      <4>. QED  BY <4>3, <4>4
    <3>. QED  BY <3>1, <3>2
  <2>2. (SUBSET S) \subseteq P
    <3>1. IsFiniteSet(S)
      BY <1>2
    <3>. HIDE DEF P, z, S
    <3>. QED  BY <3>1, <2>1, SubsetInduction
  <2>3. Only(z, DOMAIN z) = z
    BY DEF Only
  <2>4. S \in P
    <3>. HIDE DEF P, z, S
    <3>. QED  BY <2>2
  <2>. QED  BY <1>2, <2>3, <2>4
<1>5. Total(f) \in Int
  BY <1>1, TotalRest
<1>6. Total(z) <= Total(f)
  <2>. HIDE DEF z
  <2>. QED  BY <1>1, <1>2, <1>3, TotalMonotone
<1>. QED  BY <1>1, <1>4, <1>5, <1>6

\* Fewer natural numbers come to no more.
LEMMA TotalOfFewer ==
    ASSUME NEW f, IsFiniteSet(DOMAIN f), f \in [DOMAIN f -> Nat],
           NEW s \in SUBSET DOMAIN f, NEW t \in SUBSET s
    PROVE  Total(Only(f, t)) \in Nat /\ Total(Only(f, s)) \in Nat /\ Total(Only(f, t)) <= Total(Only(f, s))
<1>1. ASSUME NEW u \in SUBSET DOMAIN f PROVE Total(Only(f, u)) \in Nat
  <2>1. IsFiniteSet(DOMAIN Only(f, u)) /\ Only(f, u) \in [DOMAIN Only(f, u) -> Nat]
    BY FS_Subset DEF Only
  <2>. QED  BY <2>1, TotalIsNatural
<1>2. Total(Only(f, t \cup (s \ t))) = Total(Only(f, t)) + Total(Only(f, s \ t))
  <2>1. Summable(f)
    BY DEF Summable
  <2>2. t \in SUBSET DOMAIN f /\ s \ t \in SUBSET DOMAIN f /\ t \cap (s \ t) = {}
    OBVIOUS
  <2>. QED  BY <2>1, <2>2, TotalUnion
<1>3. t \cup (s \ t) = s
  OBVIOUS
<1>4. Total(Only(f, t)) \in Nat /\ Total(Only(f, s)) \in Nat /\ Total(Only(f, s \ t)) \in Nat
  BY <1>1
<1>5. Total(Only(f, s)) = Total(Only(f, t)) + Total(Only(f, s \ t))
  BY <1>2, <1>3
<1>. QED  BY <1>4, <1>5

-----------------------------------------------------------------------------
(* Parts of a total, and the bases of a batch.                              *)

\* The parts of a total, one after another.
Parts(total, p) == [n \in 1..p |-> Part(total, p, n)]

\* A part, as divideNodeBudget gives it: the quotient, and one more for the first ones.
LEMMA PartIsNatural ==
    ASSUME NEW total \in Nat, NEW p \in Nat \ {0}, NEW n \in Int
    PROVE  /\ Part(total, p, n) \in Nat
           /\ Part(total, p, n) = (total \div p) + (IF n <= (total % p) THEN 1 ELSE 0)
<1>1. total \div p \in Nat /\ (total % p) \in Int
  BY Division
<1>. QED  BY <1>1 DEF Part

\* No two parts are more than one apart.
LEMMA PartsAreEven ==
    ASSUME NEW total \in Nat, NEW p \in Nat \ {0}, NEW m \in Int, NEW n \in Int
    PROVE  Part(total, p, m) - Part(total, p, n) <= 1
<1>1. total \div p \in Nat /\ (total % p) \in Int
  BY Division
<1>. DEFINE q == total \div p
            r == total % p
<1>2. Part(total, p, m) = q + (IF m <= r THEN 1 ELSE 0) /\ Part(total, p, n) = q + (IF n <= r THEN 1 ELSE 0)
  BY PartIsNatural
<1>3. q \in Int /\ r \in Int
  BY <1>1
<1>. HIDE DEF q, r
<1>. QED  BY <1>2, <1>3

\* The parts are finitely many natural numbers.
LEMMA PartsAreSummable ==
    ASSUME NEW total \in Nat, NEW p \in Nat \ {0}
    PROVE  /\ Summable(Parts(total, p)) /\ DOMAIN Parts(total, p) = 1..p
           /\ Parts(total, p) \in [1..p -> Nat] /\ IsFiniteSet(1..p)
<1>1. Parts(total, p) \in [1..p -> Nat]
  BY PartIsNatural DEF Parts
<1>2. IsFiniteSet(1..p)
  BY FS_Interval
<1>. QED  BY <1>1, <1>2 DEF Summable

\* The parts of a total come to that total: nothing is lost in rounding.
LEMMA PartsTotal ==
    ASSUME NEW total \in Nat, NEW p \in Nat \ {0}
    PROVE  Total(Parts(total, p)) = total
<1>. DEFINE q == total \div p
            r == total % p
            ps == Parts(total, p)
            upTo(k) == Total(Only(ps, 1..k))
            T == {k \in 0..p : upTo(k) = (k * q) + (IF k <= r THEN k ELSE r)}
<1>0. total = (p * q) + r /\ q \in Nat /\ r \in 0..(p - 1)
  BY Division
<1>00. Summable(ps) /\ DOMAIN ps = 1..p
  BY PartsAreSummable
<1>1. 0 \in T
  <2>1. Summable(Only(ps, 1..0)) /\ DOMAIN Only(ps, 1..0) = {}
    <3>1. 1..0 \in SUBSET DOMAIN ps /\ 1..0 = {}
      BY <1>00
    <3>. HIDE DEF ps
    <3>. QED  BY <1>00, <3>1, OnlyIsSummable
  <2>2. upTo(0) = 0
    BY <2>1, TotalRest
  <2>3. 0 = (0 * q) + (IF 0 <= r THEN 0 ELSE r)
    BY <1>0
  <2>. QED  BY <2>2, <2>3
<1>2. ASSUME NEW k \in 0..(p - 1), k \in T
      PROVE  k + 1 \in T
  <2>1. 1..k \in SUBSET DOMAIN ps /\ k + 1 \in DOMAIN ps \ (1..k) /\ (1..k) \cup {k + 1} = 1..(k + 1)
    <3>. HIDE DEF ps
    <3>. QED  BY <1>00
  <2>2. upTo(k + 1) = ps[k + 1] + upTo(k)
    <3>. HIDE DEF ps
    <3>. QED  BY <2>1, <1>00, TotalGains
  <2>3. ps[k + 1] = q + (IF k + 1 <= r THEN 1 ELSE 0)
    <3>1. k + 1 \in 1..p
      OBVIOUS
    <3>2. ps[k + 1] = Part(total, p, k + 1)
      BY <3>1 DEF Parts
    <3>3. k + 1 \in Int
      OBVIOUS
    <3>4. Part(total, p, k + 1) = (total \div p) + (IF k + 1 <= (total % p) THEN 1 ELSE 0)
      BY <3>3, PartIsNatural
    <3>. QED  BY <3>2, <3>4
  <2>4. upTo(k) = (k * q) + (IF k <= r THEN k ELSE r)
    BY <1>2
  <2>5. (k + 1) * q = (k * q) + q /\ k * q \in Int
    BY <1>0
  <2>6. upTo(k + 1) = ((k + 1) * q) + (IF k + 1 <= r THEN k + 1 ELSE r)
    <3>. HIDE DEF q, r, upTo
    <3>. QED  BY <2>2, <2>3, <2>4, <2>5, <1>0
  <2>. QED  BY <2>6
<1>3. p \in T
  <2>1. 0..p \subseteq T
    <3>. HIDE DEF T
    <3>. QED  BY <1>1, <1>2, InductionUpTo
  <2>. QED  BY <2>1
<1>4. upTo(p) = Total(Parts(total, p))
  BY DEF Only, Parts
<1>5. upTo(p) = total
  <2>1. upTo(p) = (p * q) + (IF p <= r THEN p ELSE r)
    BY <1>3
  <2>. HIDE DEF q, r, upTo
  <2>. QED  BY <2>1, <1>0
<1>. QED  BY <1>4, <1>5
-----------------------------------------------------------------------------
\* Distinct(s) has the elements of s, each once.
LEMMA GreatestOfPart ==
    ASSUME NEW n \in Nat, NEW t \in SUBSET (1..n), t # {}
    PROVE  Max(t) \in t /\ \A k \in t : k <= Max(t)
<1>1. PICK m \in t : \A k \in t : k <= m
  <2>1. t \in SUBSET (0..n)
    OBVIOUS
  <2>. QED  BY <2>1, GreatestUpTo
<1>2. m \in t /\ \A k \in t : m >= k
  BY <1>1
<1>3. Max(t) \in t /\ \A k \in t : Max(t) >= k
  BY <1>2, Zenon DEF Max
<1>. QED  BY <1>3

\* The last place comes off an interval.
LEMMA GreatestUpToNext ==
    ASSUME NEW k \in Nat
    PROVE  Max(1..(k + 1)) = k + 1 /\ (1..(k + 1)) \ {k + 1} = 1..k
<1>1. 1..(k + 1) # {} /\ k + 1 \in Nat /\ 1..(k + 1) \in SUBSET (1..(k + 1))
  OBVIOUS
<1>2. Max(1..(k + 1)) \in 1..(k + 1) /\ \A j \in 1..(k + 1) : j <= Max(1..(k + 1))
  BY <1>1, GreatestOfPart
<1>3. k + 1 <= Max(1..(k + 1))
  BY <1>1, <1>2
<1>. QED  BY <1>2, <1>3

\* A step of Distinct, and its steps over some places of a list.
Joined(kept, x) == IF x \in Range(kept) THEN kept ELSE Append(kept, x)
Joins(kept, s) ==
    kept = [t \in SUBSET DOMAIN s |-> IF t = {} THEN <<>> ELSE Joined(kept[t \ {Max(t)}], s[Max(t)])]

\* The steps of Distinct are sequences of the elements it was given.
LEMMA JoinsSequences ==
    ASSUME NEW R, NEW s \in Seq(R), NEW kept, Joins(kept, s)
    PROVE  \A t \in SUBSET DOMAIN s : kept[t] \in Seq(R)
<1>. DEFINE D == DOMAIN s
            P == {t \in SUBSET D : kept[t] \in Seq(R)}
<1>0. D = 1..Len(s) /\ Len(s) \in Nat /\ IsFiniteSet(D)
  BY FS_Interval
<1>1. ASSUME NEW t \in SUBSET D, \A x \in t : t \ {x} \in P
      PROVE  t \in P
  <2>1. CASE t = {}
    BY <2>1 DEF Joins
  <2>2. CASE t # {}
    <3>1. Max(t) \in t
      BY <1>0, <2>2, GreatestOfPart
    <3>2. t \ {Max(t)} \in P
      <4>. HIDE DEF P
      <4>. QED  BY <1>1, <3>1
    <3>3. s[Max(t)] \in R
      BY <3>1
    <3>4. kept[t] = Joined(kept[t \ {Max(t)}], s[Max(t)])
      BY <2>2 DEF Joins
    <3>5. Joined(kept[t \ {Max(t)}], s[Max(t)]) \in Seq(R)
      BY <3>2, <3>3 DEF Joined
    <3>. QED  BY <3>4, <3>5
  <2>. QED  BY <2>1, <2>2
<1>2. IsFiniteSet(D)
  BY <1>0
<1>3. (SUBSET D) \subseteq P
  <2>. HIDE DEF P, D
  <2>. QED  BY <1>1, <1>2, SubsetInduction
<1>. QED  BY <1>3

\* Distinct is the last of its steps.
LEMMA DistinctUnfolds ==
    ASSUME NEW R, NEW s \in Seq(R)
    PROVE  \E kept : /\ \A t \in SUBSET DOMAIN s : kept[t] \in Seq(R)
                     /\ Joins(kept, s) /\ Distinct(s) = kept[DOMAIN s]
<1>. DEFINE D == DOMAIN s
            pick == [t \in SUBSET D |-> Max(t)]
            step == [p \in D \X Seq(R) |-> Joined(p[2], s[p[1]])]
<1>0. D = 1..Len(s) /\ Len(s) \in Nat /\ IsFiniteSet(D)
  BY FS_Interval
<1>1. \A t \in SUBSET D : t # {} => pick[t] \in t
  BY <1>0, GreatestOfPart
<1>2. step \in [D \X Seq(R) -> Seq(R)] /\ <<>> \in Seq(R)
  BY DEF Joined
<1>3. PICK f \in [SUBSET D -> Seq(R)] : Unfolds(f, SUBSET D, <<>>, pick, step)
  <2>. HIDE DEF D, pick, step
  <2>. QED  BY <1>0, <1>1, <1>2, FiniteRecursion
<1>4. ASSUME NEW t \in SUBSET D
      PROVE  f[t] = IF t = {} THEN <<>> ELSE Joined(f[t \ {Max(t)}], s[Max(t)])
  <2>1. CASE t = {}
    BY <1>3, <2>1 DEF Unfolds
  <2>2. CASE t # {}
    <3>1. pick[t] = Max(t) /\ Max(t) \in D /\ t \ {Max(t)} \in SUBSET D
      BY <1>1, <2>2
    <3>2. <<Max(t), f[t \ {Max(t)}]>> \in D \X Seq(R)
      BY <3>1, <1>3
    <3>3. f[t] = step[<<Max(t), f[t \ {Max(t)}]>>]
      BY <1>3, <2>2, <3>1 DEF Unfolds
    <3>4. step[<<Max(t), f[t \ {Max(t)}]>>] = Joined(f[t \ {Max(t)}], s[Max(t)])
      BY <3>2
    <3>. QED  BY <3>3, <3>4, <2>2
  <2>. QED  BY <2>1, <2>2
<1>5. Joins(f, s)
  BY <1>3, <1>4 DEF Joins
<1>6. \E g : Joins(g, s)
  BY <1>5
<1>. DEFINE kept == CHOOSE g : Joins(g, s)
<1>7. Joins(kept, s)
  BY <1>6
<1>8. Distinct(s) = kept[D]
  BY Zenon DEF Distinct, FoldLeft, MapThenFoldSet, Joins, Joined
<1>9. \A t \in SUBSET D : kept[t] \in Seq(R)
  <2>. HIDE DEF kept
  <2>. QED  BY <1>7, JoinsSequences
<1>. QED  BY <1>7, <1>8, <1>9

\* Distinct leaves out repetitions, and nothing else.
LEMMA DistinctElements ==
    ASSUME NEW R, NEW s \in Seq(R)
    PROVE  /\ Distinct(s) \in Seq(R)
           /\ \A m, n \in DOMAIN Distinct(s) : Distinct(s)[m] = Distinct(s)[n] => m = n
           /\ \A k \in DOMAIN s : \E m \in DOMAIN Distinct(s) : Distinct(s)[m] = s[k]
           /\ \A m \in DOMAIN Distinct(s) : \E k \in DOMAIN s : Distinct(s)[m] = s[k]
<1>. DEFINE N == Len(s)
<1>0. N \in Nat /\ DOMAIN s = 1..N
  OBVIOUS
<1>1. PICK kept : /\ \A t \in SUBSET DOMAIN s : kept[t] \in Seq(R)
                  /\ Joins(kept, s) /\ Distinct(s) = kept[DOMAIN s]
  BY DistinctUnfolds
<1>. DEFINE Good(d, k) ==
                /\ \A m, n \in DOMAIN d : d[m] = d[n] => m = n
                /\ \A j \in 1..k : \E m \in DOMAIN d : d[m] = s[j]
                /\ \A m \in DOMAIN d : \E j \in 1..k : d[m] = s[j]
            T == {k \in 0..N : Good(kept[1..k], k)}
<1>2. 0 \in T
  <2>1. kept[1..0] = <<>>
    BY <1>1 DEF Joins
  <2>2. Good(<<>>, 0)
    OBVIOUS
  <2>. QED  BY <2>1, <2>2, <1>0
<1>3. ASSUME NEW k \in 0..(N - 1), k \in T
      PROVE  k + 1 \in T
  <2>. DEFINE d == kept[1..k]
              x == s[k + 1]
  <2>0. k \in Nat /\ k + 1 \in DOMAIN s /\ 1..k \in SUBSET DOMAIN s
    <3>. HIDE DEF N
    <3>. QED  BY <1>0
  <2>00. 1..(k + 1) \in SUBSET DOMAIN s /\ 1..(k + 1) # {}
    <3>. HIDE DEF N
    <3>. QED  BY <1>0
  <2>1. kept[1..(k + 1)] = Joined(d, x)
    <3>1. kept[1..(k + 1)] = Joined(kept[(1..(k + 1)) \ {Max(1..(k + 1))}], s[Max(1..(k + 1))])
      BY <2>00, <1>1 DEF Joins
    <3>2. Max(1..(k + 1)) = k + 1 /\ (1..(k + 1)) \ {k + 1} = 1..k
      BY <2>0, GreatestUpToNext
    <3>. QED  BY <3>1, <3>2
  <2>2. d \in Seq(R) /\ x \in R
    BY <2>0, <1>1
  <2>3. Good(d, k)
    BY <1>3
  <2>. HIDE DEF d
  <2>4. CASE x \in Range(d)
    <3>1. Joined(d, x) = d /\ \E m \in DOMAIN d : d[m] = x
      BY <2>4 DEF Joined, Range
    <3>2. Good(d, k + 1)
      BY <2>3, <3>1, <2>0
    <3>. QED  BY <2>1, <3>1, <3>2, <1>0
  <2>5. CASE x \notin Range(d)
    <3>. DEFINE e == Append(d, x)
    <3>1. Joined(d, x) = e /\ \A m \in DOMAIN d : d[m] # x
      BY <2>5 DEF Joined, Range
    <3>2. /\ DOMAIN d = 1..Len(d) /\ Len(d) \in Nat /\ DOMAIN e = 1..(Len(d) + 1)
          /\ e[Len(d) + 1] = x /\ \A m \in DOMAIN d : e[m] = d[m]
      BY <2>2
    <3>. HIDE DEF e
    <3>3. \A m, n \in DOMAIN e : e[m] = e[n] => m = n
      <4>1. \A m \in DOMAIN e : m \in DOMAIN d \/ m = Len(d) + 1
        BY <3>2
      <4>2. ASSUME NEW m \in DOMAIN e, NEW n \in DOMAIN e, e[m] = e[n]
            PROVE  m = n
        <5>1. CASE m \in DOMAIN d /\ n \in DOMAIN d
          BY <5>1, <4>2, <3>2, <2>3
        <5>2. CASE m \in DOMAIN d /\ n = Len(d) + 1
          BY <5>2, <4>2, <3>1, <3>2
        <5>3. CASE m = Len(d) + 1 /\ n \in DOMAIN d
          BY <5>3, <4>2, <3>1, <3>2
        <5>. QED  BY <4>1, <5>1, <5>2, <5>3
      <4>. QED  BY <4>2
    <3>4. \A j \in 1..(k + 1) : \E m \in DOMAIN e : e[m] = s[j]
      <4>1. ASSUME NEW j \in 1..(k + 1) PROVE \E m \in DOMAIN e : e[m] = s[j]
        <5>1. CASE j = k + 1
          BY <5>1, <3>2
        <5>2. CASE j # k + 1
          <6>1. j \in 1..k
            BY <5>2, <2>0
          <6>2. PICK m \in DOMAIN d : d[m] = s[j]
            BY <6>1, <2>3
          <6>. QED  BY <6>2, <3>2
        <5>. QED  BY <5>1, <5>2
      <4>. QED  BY <4>1
    <3>5. \A m \in DOMAIN e : \E j \in 1..(k + 1) : e[m] = s[j]
      <4>1. ASSUME NEW m \in DOMAIN e PROVE \E j \in 1..(k + 1) : e[m] = s[j]
        <5>1. CASE m = Len(d) + 1
          BY <5>1, <3>2, <2>0
        <5>2. CASE m # Len(d) + 1
          <6>1. m \in DOMAIN d
            BY <5>2, <3>2
          <6>2. PICK j \in 1..k : d[m] = s[j]
            BY <6>1, <2>3
          <6>. QED  BY <6>1, <6>2, <3>2, <2>0
        <5>. QED  BY <5>1, <5>2
      <4>. QED  BY <4>1
    <3>6. Good(e, k + 1)
      BY <3>3, <3>4, <3>5
    <3>. QED  BY <2>1, <3>1, <3>6, <1>0
  <2>. QED  BY <2>4, <2>5
<1>4. N \in T
  <2>1. 0..N \subseteq T
    <3>. HIDE DEF T, N
    <3>. QED  BY <1>0, <1>2, <1>3, InductionUpTo
  <2>. QED  BY <2>1, <1>0
<1>5. Distinct(s) = kept[1..N] /\ kept[1..N] \in Seq(R)
  BY <1>0, <1>1
<1>6. Good(Distinct(s), N)
  BY <1>4, <1>5
<1>. QED  BY <1>0, <1>5, <1>6

\* The places of one base among the named, and those of them up to a place.
PlacesOfBase(named, x) == {n \in DOMAIN named : named[n] = x}
UpToPlace(named, x, k) == {n \in 1..k : named[n] = x}

\* How often a base is named up to a place is how many places up to it name it.
LEMMA CountUpTo ==
    ASSUME NEW B, NEW named \in Seq(B), NEW x, NEW k \in 0..Len(named)
    PROVE  /\ Count(SubSeq(named, 1, k), x) = Cardinality(UpToPlace(named, x, k))
           /\ IsFiniteSet(UpToPlace(named, x, k)) /\ Cardinality(UpToPlace(named, x, k)) \in 0..k
<1>. DEFINE t == SubSeq(named, 1, k)
<1>1. DOMAIN t = 1..k /\ \A n \in 1..k : t[n] = named[n]
  OBVIOUS
<1>2. {n \in DOMAIN t : t[n] = x} = UpToPlace(named, x, k)
  BY <1>1 DEF UpToPlace
<1>3. IsFiniteSet(1..k) /\ Cardinality(1..k) = k
  <2>1. k \in Nat
    OBVIOUS
  <2>. QED  BY <2>1, FS_Interval
<1>4. UpToPlace(named, x, k) \in SUBSET (1..k)
  BY DEF UpToPlace
<1>5. IsFiniteSet(UpToPlace(named, x, k)) /\ Cardinality(UpToPlace(named, x, k)) <= k
  BY <1>3, <1>4, FS_Subset
<1>6. Cardinality(UpToPlace(named, x, k)) \in Nat
  BY <1>5, FS_CardinalityType
<1>7. Count(SubSeq(named, 1, k), x) = Cardinality(UpToPlace(named, x, k))
  BY <1>2 DEF Count
<1>8. Cardinality(UpToPlace(named, x, k)) \in 0..k
  BY <1>5, <1>6
<1>. QED  BY <1>5, <1>7, <1>8

\* A base that is named is counted.
LEMMA CountOfBase ==
    ASSUME NEW B, NEW named \in Seq(B), NEW n \in DOMAIN named
    PROVE  /\ Count(named, named[n]) \in Nat \ {0}
           /\ Count(named, named[n]) = Cardinality(UpToPlace(named, named[n], Len(named)))
<1>. DEFINE x == named[n]
<1>1. Len(named) \in 0..Len(named) /\ SubSeq(named, 1, Len(named)) = named
  OBVIOUS
<1>. DEFINE u == UpToPlace(named, x, Len(named))
<1>2. Count(SubSeq(named, 1, Len(named)), x) = Cardinality(u) /\ IsFiniteSet(u) /\ Cardinality(u) \in 0..Len(named)
  <2>. HIDE DEF x
  <2>. QED  BY <1>1, CountUpTo
<1>20. Count(named, x) = Cardinality(u) /\ IsFiniteSet(u) /\ Cardinality(u) \in Nat
  <2>1. Count(named, x) = Cardinality(u) /\ IsFiniteSet(u)
    <3>. HIDE DEF x, u
    <3>. QED  BY <1>1, <1>2
  <2>. QED  BY <2>1, FS_CardinalityType
<1>3. n \in UpToPlace(named, x, Len(named))
  BY DEF UpToPlace
<1>4. Cardinality(UpToPlace(named, x, Len(named))) # 0
  BY <1>20, <1>3, FS_EmptySet
<1>. QED  BY <1>20, <1>4

\* What the neighbourhoods of one base have together is the part of that base.
LEMMA ShareOfBase ==
    ASSUME NEW B, NEW named \in Seq(B), NEW x \in Range(named), NEW share \in Nat,
           NEW f, Summable(f), DOMAIN f = DOMAIN named,
           \A n \in DOMAIN named : named[n] = x =>
               f[n] = Part(share, Count(named, x), Count(SubSeq(named, 1, n), x))
    PROVE  Total(Only(f, PlacesOfBase(named, x))) = share
<1>. DEFINE N == Len(named)
            c == Count(named, x)
            ps == Parts(share, c)
            occ(k) == Cardinality(UpToPlace(named, x, k))
            T == {k \in 0..N : Total(Only(f, UpToPlace(named, x, k))) = Total(Only(ps, 1..occ(k)))}
<1>0. N \in Nat /\ DOMAIN named = 1..N
  OBVIOUS
<1>1. c \in Nat \ {0} /\ c = occ(N)
  BY CountOfBase DEF Range
<1>2. Summable(ps) /\ DOMAIN ps = 1..c
  BY <1>1, PartsAreSummable
<1>3. \A k \in 0..N : /\ Count(SubSeq(named, 1, k), x) = occ(k) /\ occ(k) \in 0..k
                      /\ IsFiniteSet(UpToPlace(named, x, k)) /\ occ(k) <= c
  <2>1. ASSUME NEW k \in 0..N
        PROVE  /\ Count(SubSeq(named, 1, k), x) = occ(k) /\ occ(k) \in 0..k
               /\ IsFiniteSet(UpToPlace(named, x, k)) /\ occ(k) <= c
    <3>1. Count(SubSeq(named, 1, k), x) = occ(k) /\ occ(k) \in 0..k /\ IsFiniteSet(UpToPlace(named, x, k))
      BY CountUpTo
    <3>2. IsFiniteSet(UpToPlace(named, x, N)) /\ UpToPlace(named, x, k) \subseteq UpToPlace(named, x, N)
      <4>1. N \in 0..N
        BY <1>0
      <4>2. IsFiniteSet(UpToPlace(named, x, N))
        BY <4>1, CountUpTo
      <4>3. UpToPlace(named, x, k) \subseteq UpToPlace(named, x, N)
        BY DEF UpToPlace
      <4>. QED  BY <4>2, <4>3
    <3>3. occ(k) <= occ(N)
      BY <3>2, FS_Subset
    <3>. QED  BY <3>1, <3>3, <1>1
  <2>. QED  BY <2>1
<1>4. 0 \in T
  <2>1. UpToPlace(named, x, 0) = {} /\ occ(0) = 0
    <3>1. UpToPlace(named, x, 0) = {}
      BY DEF UpToPlace
    <3>. QED  BY <3>1, FS_EmptySet
  <2>2. Total(Only(f, {})) = 0
    <3>1. Summable(Only(f, {})) /\ DOMAIN Only(f, {}) = {}
      BY OnlyIsSummable
    <3>. QED  BY <3>1, TotalRest
  <2>3. Total(Only(ps, {})) = 0
    <3>. HIDE DEF ps
    <3>1. Summable(Only(ps, {})) /\ DOMAIN Only(ps, {}) = {}
      BY <1>2, OnlyIsSummable
    <3>. QED  BY <3>1, TotalRest
  <2>4. 1..0 = {}
    OBVIOUS
  <2>5. Total(Only(f, UpToPlace(named, x, 0))) = Total(Only(ps, 1..occ(0)))
    <3>. HIDE DEF ps, occ
    <3>. QED  BY <2>1, <2>2, <2>3, <2>4
  <2>. QED  BY <2>5, <1>0
<1>5. ASSUME NEW k \in 0..(N - 1), k \in T
      PROVE  k + 1 \in T
  <2>0. k \in 0..N /\ k + 1 \in 0..N /\ k + 1 \in DOMAIN named
    <3>. HIDE DEF N
    <3>. QED  BY <1>0
  <2>00. Total(Only(f, UpToPlace(named, x, k))) = Total(Only(ps, 1..occ(k)))
    BY <1>5
  <2>1. CASE named[k + 1] = x
    <3>1. /\ UpToPlace(named, x, k + 1) = UpToPlace(named, x, k) \cup {k + 1}
          /\ k + 1 \notin UpToPlace(named, x, k) /\ UpToPlace(named, x, k) \in SUBSET DOMAIN f
      BY <2>0, <2>1 DEF UpToPlace
    <3>2. occ(k + 1) = occ(k) + 1
      BY <3>1, <1>3, <2>0, FS_AddElement
    <3>3. f[k + 1] = Part(share, c, occ(k + 1))
      BY <2>0, <2>1, <1>3
    <3>4. Total(Only(f, UpToPlace(named, x, k + 1))) = f[k + 1] + Total(Only(f, UpToPlace(named, x, k)))
      <4>1. k + 1 \in DOMAIN f \ UpToPlace(named, x, k)
        BY <2>0, <3>1
      <4>. QED  BY <3>1, <4>1, TotalGains
    <3>5. /\ 1..occ(k) \in SUBSET (1..c) /\ occ(k) + 1 \in (1..c) \ (1..occ(k))
          /\ (1..occ(k)) \cup {occ(k) + 1} = 1..(occ(k) + 1)
      <4>1. occ(k) \in Nat /\ occ(k) + 1 <= c /\ c \in Nat
        BY <1>3, <2>0, <3>2, <1>1
      <4>. HIDE DEF occ, c
      <4>. QED  BY <4>1
    <3>6. Total(Only(ps, 1..(occ(k) + 1))) = ps[occ(k) + 1] + Total(Only(ps, 1..occ(k)))
      <4>. HIDE DEF ps, occ, c
      <4>1. 1..occ(k) \in SUBSET DOMAIN ps /\ occ(k) + 1 \in DOMAIN ps \ (1..occ(k))
        BY <3>5, <1>2
      <4>2. Total(Only(ps, (1..occ(k)) \cup {occ(k) + 1})) = ps[occ(k) + 1] + Total(Only(ps, 1..occ(k)))
        BY <4>1, <1>2, TotalGains
      <4>. QED  BY <4>2, <3>5
    <3>7. ps[occ(k) + 1] = Part(share, c, occ(k) + 1)
      <4>. HIDE DEF occ, c
      <4>. QED  BY <3>5 DEF Parts
    <3>8. Total(Only(f, UpToPlace(named, x, k + 1))) = Total(Only(ps, 1..occ(k + 1)))
      <4>. HIDE DEF occ, c, ps
      <4>. QED  BY <2>00, <3>2, <3>3, <3>4, <3>6, <3>7
    <3>. QED  BY <3>8, <2>0
  <2>2. CASE named[k + 1] # x
    <3>1. UpToPlace(named, x, k + 1) = UpToPlace(named, x, k)
      BY <2>0, <2>2 DEF UpToPlace
    <3>. QED  BY <3>1, <2>0, <2>00
  <2>. QED  BY <2>1, <2>2
<1>6. N \in T
  <2>1. 0..N \subseteq T
    <3>. HIDE DEF T, N
    <3>. QED  BY <1>0, <1>4, <1>5, InductionUpTo
  <2>. QED  BY <2>1, <1>0
<1>7. UpToPlace(named, x, N) = PlacesOfBase(named, x)
  BY <1>0 DEF UpToPlace, PlacesOfBase
<1>8. Total(Only(f, PlacesOfBase(named, x))) = Total(Only(ps, 1..c))
  <2>. HIDE DEF ps
  <2>. QED  BY <1>1, <1>6, <1>7
<1>9. Only(ps, 1..c) = ps
  BY DEF Only, Parts
<1>10. Total(ps) = share
  BY <1>1, PartsTotal
<1>. QED  BY <1>8, <1>9, <1>10

\* The bases of which the distinct ones up to a place are.
PlacesUpTo(named, d, p) == {n \in DOMAIN named : PlaceIn(d, named[n]) <= p}

\* All are given out, the bases have equal parts and so have the neighbourhoods
\* of each.
LEMMA SharesOfBases ==
    ASSUME NEW B, NEW named \in Seq(B), named # <<>>, NEW total \in Nat,
           NEW f, f = SharesOver(total, named, Distinct(named))
    PROVE  /\ f \in [DOMAIN named -> Nat] /\ Total(f) = total
           /\ Len(Distinct(named)) \in Nat \ {0}
           /\ \A n \in DOMAIN named :
                 /\ PlaceIn(Distinct(named), named[n]) \in Nat
                 /\ Total(Only(f, PlacesOfBase(named, named[n])))
                       = Part(total, Len(Distinct(named)), PlaceIn(Distinct(named), named[n]))
           /\ \A m, n \in DOMAIN named : named[m] = named[n] => f[m] - f[n] <= 1
<1>. DEFINE d == Distinct(named)
            D == Len(d)
            place(n) == PlaceIn(d, named[n])
            share(n) == Part(total, D, place(n))
            count(n) == Count(SubSeq(named, 1, n), named[n])
<1>1. /\ d \in Seq(B)
      /\ \A m, n \in DOMAIN d : d[m] = d[n] => m = n
      /\ \A k \in DOMAIN named : \E m \in DOMAIN d : d[m] = named[k]
      /\ \A m \in DOMAIN d : \E k \in DOMAIN named : d[m] = named[k]
  BY DistinctElements
<1>. HIDE DEF d
<1>2. D \in Nat /\ DOMAIN d = 1..D
  BY <1>1
<1>3. DOMAIN named = 1..Len(named) /\ Len(named) \in Nat /\ Len(named) > 0
  OBVIOUS
<1>4. \A n \in DOMAIN named : place(n) \in 1..D /\ d[place(n)] = named[n]
  BY <1>1, <1>2 DEF PlaceIn
<1>5. D \in Nat \ {0}
  <2>1. 1 \in DOMAIN named
    BY <1>3
  <2>. QED  BY <2>1, <1>4, <1>2
<1>6. \A n \in DOMAIN named : share(n) \in Nat
  <2>1. ASSUME NEW n \in DOMAIN named PROVE share(n) \in Nat
    <3>1. place(n) \in Int
      BY <1>4
    <3>. HIDE DEF place, D
    <3>. QED  BY <3>1, <1>5, PartIsNatural
  <2>. QED  BY <2>1
<1>7. \A n \in DOMAIN named :
         /\ Count(named, named[n]) \in Nat \ {0}
         /\ count(n) \in Int
  <2>1. ASSUME NEW n \in DOMAIN named
        PROVE  Count(named, named[n]) \in Nat \ {0} /\ count(n) \in Int
    <3>1. Count(named, named[n]) \in Nat \ {0}
      BY CountOfBase
    <3>2. n \in 0..Len(named)
      BY <1>3
    <3>3. count(n) = Cardinality(UpToPlace(named, named[n], n)) /\ Cardinality(UpToPlace(named, named[n], n)) \in 0..n
      BY <3>2, CountUpTo
    <3>. QED  BY <3>1, <3>3
  <2>. QED  BY <2>1
<1>8. \A n \in DOMAIN named : f[n] = Part(share(n), Count(named, named[n]), count(n))
  BY DEF SharesOver, d
<1>9. \A n \in DOMAIN named : f[n] \in Nat
  <2>1. ASSUME NEW n \in DOMAIN named PROVE f[n] \in Nat
    <3>1. share(n) \in Nat /\ Count(named, named[n]) \in Nat \ {0} /\ count(n) \in Int
      BY <1>6, <1>7
    <3>2. f[n] = Part(share(n), Count(named, named[n]), count(n))
      BY <1>8
    <3>. HIDE DEF share, count
    <3>. QED  BY <3>1, <3>2, PartIsNatural
  <2>. QED  BY <2>1
<1>10. DOMAIN f = DOMAIN named /\ f = [n \in DOMAIN f |-> f[n]]
  BY DEF SharesOver
<1>11. f \in [DOMAIN named -> Nat]
  BY <1>9, <1>10
<1>12. IsFiniteSet(DOMAIN f) /\ Summable(f)
  <2>1. IsFiniteSet(DOMAIN f)
    <3>1. IsFiniteSet(1..Len(named))
      BY <1>3, FS_Interval
    <3>. QED  BY <3>1, <1>3, <1>10
  <2>2. \A n \in DOMAIN f : f[n] \in Int
    BY <1>9, <1>10
  <2>. QED  BY <2>1, <2>2, <1>10 DEF Summable
<1>13. ASSUME NEW n \in DOMAIN named
       PROVE  Total(Only(f, PlacesOfBase(named, named[n]))) = share(n)
  <2>. DEFINE x == named[n]
              s == share(n)
  <2>1. x \in Range(named) /\ s \in Nat
    BY <1>6 DEF Range
  <2>2. \A m \in DOMAIN named : named[m] = x =>
            f[m] = Part(s, Count(named, x), Count(SubSeq(named, 1, m), x))
    BY <1>8
  <2>. HIDE DEF x, s
  <2>3. Total(Only(f, PlacesOfBase(named, x))) = s
    BY <2>1, <2>2, <1>10, <1>12, ShareOfBase
  <2>. QED  BY <2>3 DEF x, s
<1>14. ASSUME NEW m \in DOMAIN named, NEW n \in DOMAIN named, named[m] = named[n]
       PROVE  f[m] - f[n] <= 1
  <2>. DEFINE c == Count(named, named[m])
              s == share(m)
  <2>1. f[m] = Part(s, c, count(m)) /\ f[n] = Part(s, c, count(n))
    BY <1>8, <1>14
  <2>2. s \in Nat /\ c \in Nat \ {0} /\ count(m) \in Int /\ count(n) \in Int
    BY <1>6, <1>7
  <2>. HIDE DEF s, c, count
  <2>. QED  BY <2>1, <2>2, PartsAreEven
<1>15. Total(f) = total
  <2>. DEFINE ps == Parts(total, D)
              T == {p \in 0..D : Total(Only(f, PlacesUpTo(named, d, p))) = Total(Only(ps, 1..p))}
  <2>0. Summable(ps) /\ DOMAIN ps = 1..D /\ Total(ps) = total
    <3>. HIDE DEF D
    <3>. QED  BY <1>5, PartsAreSummable, PartsTotal
  <2>00. \A g : Summable(g) => Total(Only(g, {})) = 0
    <3>1. ASSUME NEW g, Summable(g) PROVE Total(Only(g, {})) = 0
      <4>1. Summable(Only(g, {})) /\ DOMAIN Only(g, {}) = {}
        BY <3>1, OnlyIsSummable
      <4>. QED  BY <4>1, TotalRest
    <3>. QED  BY <3>1
  <2>1. 0 \in T
    <3>1. PlacesUpTo(named, d, 0) = {} /\ 1..0 = {}
      BY <1>4 DEF PlacesUpTo
    <3>2. Total(Only(f, {})) = 0 /\ Total(Only(ps, {})) = 0
      <4>. HIDE DEF ps
      <4>. QED  BY <2>0, <2>00, <1>12
    <3>3. Total(Only(f, PlacesUpTo(named, d, 0))) = Total(Only(ps, 1..0))
      <4>. HIDE DEF ps
      <4>. QED  BY <3>1, <3>2
    <3>. QED  BY <3>3, <1>2
  <2>2. ASSUME NEW p \in 0..(D - 1), p \in T
        PROVE  p + 1 \in T
    <3>. DEFINE s == PlacesUpTo(named, d, p)
                t == PlacesOfBase(named, d[p + 1])
    <3>1. p + 1 \in 1..D /\ p \in Nat
      BY <1>2
    <3>2. PlacesUpTo(named, d, p + 1) = s \cup t
      <4>1. ASSUME NEW n \in DOMAIN named PROVE place(n) = p + 1 <=> named[n] = d[p + 1]
        <5>1. place(n) \in DOMAIN d /\ d[place(n)] = named[n] /\ p + 1 \in DOMAIN d
          BY <1>4, <1>2, <3>1
        <5>. HIDE DEF place
        <5>. QED  BY <5>1, <1>1
      <4>2. \A n \in DOMAIN named : place(n) <= p + 1 <=> (place(n) <= p \/ named[n] = d[p + 1])
        <5>1. ASSUME NEW n \in DOMAIN named
              PROVE  place(n) <= p + 1 <=> (place(n) <= p \/ named[n] = d[p + 1])
          <6>1. place(n) \in Nat
            BY <1>4
          <6>2. place(n) = p + 1 <=> named[n] = d[p + 1]
            BY <4>1
          <6>. HIDE DEF place
          <6>. QED  BY <6>1, <6>2, <3>1
        <5>. QED  BY <5>1
      <4>. QED  BY <4>2 DEF PlacesUpTo, PlacesOfBase
    <3>3. s \cap t = {}
      <4>1. ASSUME NEW n \in s, n \in t PROVE FALSE
        <5>1. n \in DOMAIN named /\ place(n) <= p /\ named[n] = d[p + 1]
          BY <4>1 DEF PlacesUpTo, PlacesOfBase
        <5>2. d[place(n)] = d[p + 1] /\ place(n) \in DOMAIN d /\ p + 1 \in DOMAIN d
          BY <5>1, <1>4, <1>2, <3>1
        <5>3. place(n) = p + 1
          <6>. HIDE DEF place
          <6>. QED  BY <5>2, <1>1
        <5>. QED  BY <5>1, <5>3, <3>1
      <4>. QED  BY <4>1
    <3>4. s \in SUBSET DOMAIN f /\ t \in SUBSET DOMAIN f
      BY <1>10 DEF PlacesUpTo, PlacesOfBase
    <3>5. Total(Only(f, s \cup t)) = Total(Only(f, s)) + Total(Only(f, t))
      <4>. HIDE DEF s, t
      <4>. QED  BY <3>3, <3>4, <1>12, TotalUnion
    <3>6. Total(Only(f, t)) = Part(total, D, p + 1)
      <4>1. PICK n \in DOMAIN named : d[p + 1] = named[n]
        BY <3>1, <1>1, <1>2
      <4>2. place(n) = p + 1
        <5>1. d[place(n)] = d[p + 1] /\ place(n) \in DOMAIN d /\ p + 1 \in DOMAIN d
          BY <4>1, <1>4, <1>2, <3>1
        <5>. HIDE DEF place
        <5>. QED  BY <5>1, <1>1
      <4>3. Total(Only(f, PlacesOfBase(named, named[n]))) = share(n)
        BY <1>13
      <4>. QED  BY <4>1, <4>2, <4>3
    <3>7. /\ 1..p \in SUBSET DOMAIN ps /\ p + 1 \in DOMAIN ps \ (1..p)
          /\ (1..p) \cup {p + 1} = 1..(p + 1)
      <4>1. 1..p \in SUBSET (1..D) /\ p + 1 \in (1..D) \ (1..p) /\ (1..p) \cup {p + 1} = 1..(p + 1)
        BY <1>2
      <4>. HIDE DEF ps, D
      <4>. QED  BY <2>0, <4>1
    <3>8. Total(Only(ps, (1..p) \cup {p + 1})) = ps[p + 1] + Total(Only(ps, 1..p))
      <4>. HIDE DEF ps
      <4>. QED  BY <3>7, <2>0, TotalGains
    <3>9. ps[p + 1] = Part(total, D, p + 1)
      BY <3>1 DEF Parts
    <3>10. Total(Only(f, s)) = Total(Only(ps, 1..p))
      BY <2>2
    <3>11. Total(Only(f, s)) \in Int /\ Part(total, D, p + 1) \in Int
      <4>1. Total(Only(f, s)) \in Int
        <5>. HIDE DEF s
        <5>1. Summable(Only(f, s))
          BY <3>4, <1>12, OnlyIsSummable
        <5>. QED  BY <5>1, TotalRest
      <4>2. p + 1 \in Int
        BY <3>1
      <4>3. Part(total, D, p + 1) \in Nat
        <5>. HIDE DEF D
        <5>. QED  BY <4>2, <1>5, PartIsNatural
      <4>. QED  BY <4>1, <4>3
    <3>12. Total(Only(f, s \cup t)) = Total(Only(ps, 1..(p + 1)))
      <4>. HIDE DEF s, t, ps, D
      <4>1. Total(Only(f, s \cup t)) = Total(Only(ps, 1..p)) + Part(total, D, p + 1)
        BY <3>5, <3>6, <3>10
      <4>2. Total(Only(ps, 1..(p + 1))) = Part(total, D, p + 1) + Total(Only(ps, 1..p))
        BY <3>7, <3>8, <3>9
      <4>. QED  BY <4>1, <4>2, <3>10, <3>11
    <3>13. Total(Only(f, PlacesUpTo(named, d, p + 1))) = Total(Only(ps, 1..(p + 1)))
      BY <3>2, <3>12
    <3>14. p + 1 \in 0..D
      BY <3>1, <1>2
    <3>. HIDE DEF ps, D
    <3>. QED  BY <3>13, <3>14
  <2>3. D \in T
    <3>1. 0..D \subseteq T
      <4>. HIDE DEF T, D
      <4>. QED  BY <1>5, <2>1, <2>2, InductionUpTo
    <3>. QED  BY <3>1, <1>2
  <2>4. PlacesUpTo(named, d, D) = DOMAIN f
      <3>1. \A n \in DOMAIN named : place(n) <= D
      <4>1. \A n \in DOMAIN named : place(n) \in 1..D
        BY <1>4
      <4>. HIDE DEF place
      <4>. QED  BY <4>1, <1>2
    <3>. QED  BY <3>1, <1>10 DEF PlacesUpTo
  <2>5. Total(Only(f, PlacesUpTo(named, d, D))) = Total(Only(ps, 1..D))
    BY <2>3
  <2>6. Only(f, DOMAIN f) = f /\ Only(ps, 1..D) = ps
    BY <1>10 DEF Only, Parts
  <2>. HIDE DEF ps
  <2>. QED  BY <2>0, <2>4, <2>5, <2>6
<1>. QED  BY <1>4, <1>5, <1>11, <1>13, <1>14, <1>15 DEF d

-----------------------------------------------------------------------------
(* Orders and ranks.                                                        *)

\* A table is the function it holds.
LEMMA TableIs ==
    ASSUME NEW f PROVE  Table(f) = f
BY DEF Table

\* The place of each element in a finite set, by how many are before it.
Before(S, R, x) == {y \in S : <<y, x>> \in R}
Places(S, R) == [x \in S |-> 1 + Cardinality(Before(S, R, x))]

\* In a strict order of a finite set the elements have all the places, one each.
LEMMA PlacesAreAll ==
    ASSUME NEW S, IsFiniteSet(S), NEW R,
           \A x \in S : <<x, x>> \notin R,
           \A x, y, z \in S : <<x, y>> \in R /\ <<y, z>> \in R => <<x, z>> \in R,
           \A x, y \in S : x # y => <<x, y>> \in R \/ <<y, x>> \in R
    PROVE  /\ Places(S, R) \in [S -> 1..Cardinality(S)]
           /\ \A x, y \in S : Places(S, R)[x] = Places(S, R)[y] => x = y
           /\ \A n \in 1..Cardinality(S) : \E x \in S : Places(S, R)[x] = n
<1>. DEFINE N == Cardinality(S)
            f == Places(S, R)
<1>0. N \in Nat
  BY FS_CardinalityType
<1>1. \A x \in S : /\ IsFiniteSet(Before(S, R, x)) /\ Cardinality(Before(S, R, x)) \in Nat
                   /\ Cardinality(Before(S, R, x)) < N
  <2>1. ASSUME NEW x \in S
        PROVE  /\ IsFiniteSet(Before(S, R, x)) /\ Cardinality(Before(S, R, x)) \in Nat
               /\ Cardinality(Before(S, R, x)) < N
    <3>. DEFINE b == Before(S, R, x)
    <3>1. b \in SUBSET S /\ b # S
      BY DEF Before
    <3>. HIDE DEF b
    <3>2. IsFiniteSet(b) /\ Cardinality(b) <= Cardinality(S) /\ Cardinality(b) # Cardinality(S)
      BY <3>1, FS_Subset
    <3>3. Cardinality(b) \in Nat
      BY <3>2, FS_CardinalityType
    <3>. QED  BY <3>2, <3>3, <1>0 DEF b
  <2>. QED  BY <2>1
<1>2. ASSUME NEW x \in S, NEW z \in S, <<x, z>> \in R
      PROVE  f[x] < f[z]
  <2>. DEFINE b == Before(S, R, x)
              c == Before(S, R, z)
  <2>1. b \in SUBSET c /\ x \in c /\ x \notin b
    BY <1>2 DEF Before
  <2>2. IsFiniteSet(c) /\ Cardinality(c) \in Nat /\ Cardinality(b) \in Nat
    BY <1>1
  <2>3. f[x] = 1 + Cardinality(b) /\ f[z] = 1 + Cardinality(c)
    BY DEF Places
  <2>. HIDE DEF b, c, f
  <2>4. Cardinality(b) <= Cardinality(c) /\ Cardinality(b) # Cardinality(c)
    BY <2>1, <2>2, FS_Subset
  <2>. QED  BY <2>2, <2>3, <2>4
<1>3. \A x \in S : f[x] \in 1..N
  <2>1. \A x \in S : f[x] = 1 + Cardinality(Before(S, R, x))
    BY DEF Places
  <2>. HIDE DEF N, f
  <2>. QED  BY <1>0, <1>1, <2>1
<1>4. f \in [S -> 1..N]
  BY <1>3 DEF Places
<1>5. \A x, y \in S : f[x] = f[y] => x = y
  <2>. HIDE DEF f, N
  <2>1. ASSUME NEW x \in S, NEW y \in S, f[x] = f[y], x # y PROVE FALSE
    <3>1. f[x] < f[y] \/ f[y] < f[x]
      BY <1>2, <2>1
    <3>. QED  BY <3>1, <2>1, <1>3
  <2>. QED  BY <2>1
<1>6. f \in Injection(S, 1..N)
  <2>. HIDE DEF f
  <2>. QED  BY <1>4, <1>5 DEF Injection, IsInjective
<1>7. f \in Surjection(S, 1..N)
  <2>1. IsFiniteSet(1..N) /\ Cardinality(1..N) = N
    <3>. HIDE DEF N
    <3>. QED  BY <1>0, FS_Interval
  <2>. HIDE DEF f
  <2>2. Cardinality(S) = Cardinality(1..N)
    BY <2>1
  <2>. QED  BY <1>6, <2>1, <2>2, FS_Injection
<1>8. \A n \in 1..N : \E x \in S : f[x] = n
  BY <1>7 DEF Surjection
<1>. QED  BY <1>4, <1>5, <1>8

\* The lexicographic order of the tuples of one length.
LEMMA SeqLessOrders ==
    ASSUME NEW K \in Nat, NEW s \in [1..K -> Int], NEW t \in [1..K -> Int]
    PROVE  /\ ~SeqLess(s, s)
           /\ s # t => SeqLess(s, t) \/ SeqLess(t, s)
           /\ \A u \in [1..K -> Int] : SeqLess(s, t) /\ SeqLess(t, u) => SeqLess(s, u)
<1>1. ~SeqLess(s, s)
  BY DEF SeqLess
<1>2. ASSUME s # t PROVE SeqLess(s, t) \/ SeqLess(t, s)
  <2>. DEFINE A == {k \in 1..K : s[k] # t[k]}
  <2>1. A # {} /\ A \subseteq Nat
    BY <1>2
  <2>2. PICK k \in A : \A j \in A : k <= j
    BY <2>1, LeastNatural
  <2>3. k \in 1..K /\ s[k] \in Int /\ t[k] \in Int /\ s[k] # t[k]
    BY <2>2
  <2>4. \A j \in 1..(k - 1) : s[j] = t[j]
    BY <2>2, <2>3
  <2>5. DOMAIN s = 1..K /\ DOMAIN t = 1..K
    OBVIOUS
  <2>6. CASE s[k] < t[k]
    BY <2>3, <2>4, <2>5, <2>6 DEF SeqLess
  <2>7. CASE t[k] < s[k]
    BY <2>3, <2>4, <2>5, <2>7 DEF SeqLess
  <2>. QED  BY <2>3, <2>6, <2>7
<1>3. ASSUME NEW u \in [1..K -> Int], SeqLess(s, t), SeqLess(t, u)
      PROVE  SeqLess(s, u)
  <2>1. PICK k \in 1..K : s[k] < t[k] /\ \A j \in 1..(k - 1) : s[j] = t[j]
    BY <1>3 DEF SeqLess
  <2>2. PICK m \in 1..K : t[m] < u[m] /\ \A j \in 1..(m - 1) : t[j] = u[j]
    BY <1>3 DEF SeqLess
  <2>3. /\ \A j \in 1..K : s[j] \in Int /\ t[j] \in Int /\ u[j] \in Int
        /\ DOMAIN u = 1..K
    OBVIOUS
  <2>4. CASE k < m
    <3>1. s[k] < u[k] /\ \A j \in 1..(k - 1) : s[j] = u[j]
      BY <2>1, <2>2, <2>3, <2>4
    <3>. QED  BY <3>1, <2>3 DEF SeqLess
  <2>5. CASE m < k
    <3>1. s[m] < u[m] /\ \A j \in 1..(m - 1) : s[j] = u[j]
      BY <2>1, <2>2, <2>3, <2>5
    <3>. QED  BY <3>1, <2>3 DEF SeqLess
  <2>6. CASE m = k
    <3>1. s[m] < u[m] /\ \A j \in 1..(m - 1) : s[j] = u[j]
      BY <2>1, <2>2, <2>3, <2>6
    <3>. QED  BY <3>1, <2>3 DEF SeqLess
  <2>. QED  BY <2>4, <2>5, <2>6
<1>. QED  BY <1>1, <1>2, <1>3

\* HasRanks(T, K): pairs whose first parts are tuples of K integers, no two the same.
HasRanks(T, K) ==
    /\ IsFiniteSet(T) /\ \A a \in T : a[1] \in [1..K -> Int]
    /\ \A a, b \in T : a[1] = b[1] => a = b

\* Sorting pairs by their ranks gives the second parts of them all, in a sequence.
LEMMA RanksSort ==
    ASSUME NEW K \in Nat, NEW T, HasRanks(T, K)
    PROVE  /\ ByRank(T) \in [1..Cardinality(T) -> {a[2] : a \in T}] /\ Cardinality(T) \in Nat
           /\ \A a \in T : \E n \in 1..Cardinality(T) : ByRank(T)[n] = a[2]
           /\ (\A a, b \in T : a[2] = b[2] => a = b) =>
                  \A m, n \in 1..Cardinality(T) : ByRank(T)[m] = ByRank(T)[n] => m = n
<1>. DEFINE R == {p \in T \X T : SeqLess(p[1][1], p[2][1])}
            place == [x \in T |-> 1 + Cardinality({y \in T : SeqLess(y[1], x[1])})]
            ranked == [n \in 1..Cardinality(T) |-> CHOOSE x \in T : place[x] = n]
<1>0. Cardinality(T) \in Nat /\ IsFiniteSet(T)
  BY FS_CardinalityType DEF HasRanks
<1>1. \A x, y \in T : <<x, y>> \in R <=> SeqLess(x[1], y[1])
  OBVIOUS
<1>2. /\ \A x \in T : <<x, x>> \notin R
      /\ \A x, y, z \in T : <<x, y>> \in R /\ <<y, z>> \in R => <<x, z>> \in R
      /\ \A x, y \in T : x # y => <<x, y>> \in R \/ <<y, x>> \in R
  <2>1. ASSUME NEW x \in T PROVE <<x, x>> \notin R
    BY <1>1, SeqLessOrders DEF HasRanks
  <2>2. ASSUME NEW x \in T, NEW y \in T, NEW z \in T, <<x, y>> \in R, <<y, z>> \in R
        PROVE  <<x, z>> \in R
    <3>1. SeqLess(x[1], y[1]) /\ SeqLess(y[1], z[1])
      BY <1>1, <2>2
    <3>2. x[1] \in [1..K -> Int] /\ y[1] \in [1..K -> Int] /\ z[1] \in [1..K -> Int]
      BY DEF HasRanks
    <3>3. SeqLess(x[1], z[1])
      BY <3>1, <3>2, SeqLessOrders
    <3>. QED  BY <1>1, <3>3
  <2>3. ASSUME NEW x \in T, NEW y \in T, x # y
        PROVE  <<x, y>> \in R \/ <<y, x>> \in R
    <3>1. x[1] \in [1..K -> Int] /\ y[1] \in [1..K -> Int] /\ x[1] # y[1]
      BY <2>3 DEF HasRanks
    <3>2. SeqLess(x[1], y[1]) \/ SeqLess(y[1], x[1])
      BY <3>1, SeqLessOrders
    <3>. QED  BY <1>1, <3>2
  <2>. QED  BY <2>1, <2>2, <2>3
<1>30. place = Places(T, R)
  <2>1. \A x \in T : Before(T, R, x) = {y \in T : SeqLess(y[1], x[1])}
    BY <1>1 DEF Before
  <2>. QED  BY <2>1 DEF Places
<1>3. /\ place \in [T -> 1..Cardinality(T)]
      /\ \A x, y \in T : place[x] = place[y] => x = y
      /\ \A n \in 1..Cardinality(T) : \E x \in T : place[x] = n
  <2>1. /\ Places(T, R) \in [T -> 1..Cardinality(T)]
        /\ \A x, y \in T : Places(T, R)[x] = Places(T, R)[y] => x = y
        /\ \A n \in 1..Cardinality(T) : \E x \in T : Places(T, R)[x] = n
    <3>. HIDE DEF R
    <3>. QED  BY <1>0, <1>2, PlacesAreAll
  <2>. HIDE DEF place, R
  <2>. QED  BY <2>1, <1>30
<1>4. ByRank(T) = [n \in DOMAIN ranked |-> ranked[n][2]]
  <2>1. InOrder(T, LAMBDA a, b : SeqLess(a[1], b[1]))
           = Table([n \in 1..Cardinality(T) |-> CHOOSE x \in T : Table(place)[x] = n])
    BY Zenon DEF InOrder
  <2>2. Table(place) = place
    BY Zenon, TableIs
  <2>3. Table(ranked) = ranked
    BY Zenon, TableIs
  <2>4. Table([n \in 1..Cardinality(T) |-> CHOOSE x \in T : Table(place)[x] = n]) = Table(ranked)
    <3>. HIDE DEF place
    <3>. QED  BY <2>2
  <2>5. InOrder(T, LAMBDA a, b : SeqLess(a[1], b[1])) = ranked
    <3>. HIDE DEF place, ranked
    <3>. QED  BY Zenon, <2>1, <2>3, <2>4
  <2>. QED  BY Zenon, <2>5 DEF ByRank
<1>5. \A n \in 1..Cardinality(T) : ranked[n] \in T /\ place[ranked[n]] = n
  <2>. HIDE DEF place
  <2>. QED  BY <1>3
<1>6. DOMAIN ranked = 1..Cardinality(T)
  OBVIOUS
<1>. HIDE DEF place, ranked
<1>7. ByRank(T) \in [1..Cardinality(T) -> {a[2] : a \in T}]
  BY <1>4, <1>5, <1>6
<1>8. ASSUME NEW a \in T PROVE \E n \in 1..Cardinality(T) : ByRank(T)[n] = a[2]
  <2>1. place[a] \in 1..Cardinality(T)
    BY <1>3
  <2>2. ranked[place[a]] = a
    BY <2>1, <1>3, <1>5
  <2>. QED  BY <2>1, <2>2, <1>4, <1>6
<1>9. ASSUME \A a, b \in T : a[2] = b[2] => a = b,
             NEW m \in 1..Cardinality(T), NEW n \in 1..Cardinality(T), ByRank(T)[m] = ByRank(T)[n]
      PROVE  m = n
  <2>1. ranked[m][2] = ranked[n][2]
    BY <1>4, <1>6, <1>9
  <2>2. ranked[m] = ranked[n]
    BY <2>1, <1>5, <1>9
  <2>. QED  BY <2>2, <1>5
<1>. QED  BY <1>0, <1>7, <1>8, <1>9

\* A finite set in the order of a rank has each of its elements once.
LEMMA SortedElements ==
    ASSUME NEW K \in Nat, NEW S, IsFiniteSet(S), NEW rank \in [S -> [1..K -> Int]],
           \A x, y \in S : rank[x] = rank[y] => x = y
    PROVE  /\ ByRank({<<rank[x], x>> : x \in S}) \in Seq(S)
           /\ Range(ByRank({<<rank[x], x>> : x \in S})) = S
           /\ ByRank({<<rank[x], x>> : x \in S}) \in [1..Cardinality(S) -> S]
           /\ Cardinality(S) \in Nat
           /\ \A z \in S : \E n \in 1..Cardinality(S) : ByRank({<<rank[x], x>> : x \in S})[n] = z
           /\ \A m, n \in 1..Cardinality(S) :
                  ByRank({<<rank[x], x>> : x \in S})[m] = ByRank({<<rank[x], x>> : x \in S})[n] => m = n
<1>. DEFINE T == {<<rank[x], x>> : x \in S}
            f == [x \in S |-> <<rank[x], x>>]
<1>1. f \in Surjection(S, T) /\ f \in Injection(S, T)
  BY DEF Surjection, Injection, IsInjective
<1>2. IsFiniteSet(T) /\ Cardinality(T) = Cardinality(S)
  <2>. HIDE DEF f, T
  <2>. QED  BY <1>1, FS_Surjection
<1>3. /\ \A a \in T : a[1] \in [1..K -> Int] /\ a[2] \in S
      /\ \A a, b \in T : a[1] = b[1] => a = b
      /\ \A a, b \in T : a[2] = b[2] => a = b
  OBVIOUS
<1>4. \A x \in S : <<rank[x], x>> \in T
  OBVIOUS
<1>5. {a[2] : a \in T} = S
  <2>1. ASSUME NEW x \in S PROVE x \in {a[2] : a \in T}
    <3>1. <<rank[x], x>> \in T /\ <<rank[x], x>>[2] = x
      OBVIOUS
    <3>. HIDE DEF T
    <3>. QED  BY <3>1
  <2>. HIDE DEF T
  <2>. QED  BY <1>3, <2>1
<1>. HIDE DEF T
<1>6. HasRanks(T, K)
  BY <1>2, <1>3 DEF HasRanks
<1>7. /\ ByRank(T) \in [1..Cardinality(T) -> {a[2] : a \in T}] /\ Cardinality(T) \in Nat
      /\ \A a \in T : \E n \in 1..Cardinality(T) : ByRank(T)[n] = a[2]
      /\ \A m, n \in 1..Cardinality(T) : ByRank(T)[m] = ByRank(T)[n] => m = n
  BY <1>3, <1>6, RanksSort
<1>8. \A x \in S : \E n \in 1..Cardinality(T) : ByRank(T)[n] = x
  <2>1. ASSUME NEW x \in S PROVE \E n \in 1..Cardinality(T) : ByRank(T)[n] = x
    <3>1. <<rank[x], x>> \in T /\ <<rank[x], x>>[2] = x
      BY <1>4
    <3>. QED  BY <3>1, <1>7
  <2>. QED  BY <2>1
<1>9. ByRank(T) \in [1..Cardinality(S) -> S] /\ Cardinality(S) \in Nat
  BY <1>2, <1>5, <1>7
<1>10. ByRank(T) \in Seq(S) /\ Range(ByRank(T)) = S
  <2>1. \A n \in 1..Cardinality(S) : ByRank(T)[n] \in S
    BY <1>9
  <2>2. DOMAIN ByRank(T) = 1..Cardinality(S)
    BY <1>9
  <2>3. \A x \in S : \E n \in 1..Cardinality(S) : ByRank(T)[n] = x
    BY <1>2, <1>8
  <2>4. ByRank(T) \in Seq(S)
    BY <1>9
  <2>5. Range(ByRank(T)) = S
    <3>1. ASSUME NEW q, NEW N, DOMAIN q = 1..N, \A n \in 1..N : q[n] \in S,
                 \A x \in S : \E n \in 1..N : q[n] = x
          PROVE  Range(q) = S
      <4>1. ASSUME NEW y \in Range(q) PROVE y \in S
        BY <3>1, <4>1 DEF Range
      <4>2. ASSUME NEW y \in S PROVE y \in Range(q)
        <5>1. PICK n \in DOMAIN q : q[n] = y
          BY <3>1, <4>2
        <5>. QED  BY <5>1 DEF Range
      <4>. QED  BY <4>1, <4>2
    <3>. QED  BY <2>1, <2>2, <2>3, <3>1
  <2>. QED  BY <2>4, <2>5
<1>. QED  BY <1>2, <1>7, <1>8, <1>9, <1>10 DEF T

-----------------------------------------------------------------------------
(* Sequences, and where they come from.                                     *)

\* What a function has for the elements of a finite set is a finite set.
LEMMA ImageIsFinite ==
    ASSUME NEW S, IsFiniteSet(S), NEW f
    PROVE  IsFiniteSet({f[x] : x \in S})
<1>. DEFINE g == [x \in S |-> f[x]]
            T == {f[x] : x \in S}
<1>1. g \in Surjection(S, T)
  BY DEF Surjection
<1>. HIDE DEF g, T
<1>2. IsFiniteSet(T)
  BY <1>1, FS_Surjection
<1>. QED  BY <1>2 DEF T

\* A function on a finite set takes finitely many values.
LEMMA RangeIsFinite ==
    ASSUME NEW s, IsFiniteSet(DOMAIN s)
    PROVE  IsFiniteSet(Range(s))
BY ImageIsFinite DEF Range

\* Finitely many finite sets have finitely many elements.
LEMMA UnionIsFinite ==
    ASSUME NEW S, IsFiniteSet(S), NEW f, \A x \in S : IsFiniteSet(f[x])
    PROVE  IsFiniteSet(UNION {f[x] : x \in S})
<1>. DEFINE T == {f[x] : x \in S}
<1>1. IsFiniteSet(T) /\ \A t \in T : IsFiniteSet(t)
  BY ImageIsFinite
<1>. HIDE DEF T
<1>2. IsFiniteSet(UNION T)
  BY <1>1, FS_UNION
<1>. QED  BY <1>2 DEF T


\* What is lined up from place 1 is a sequence of what is in it.
LEMMA AreSequences ==
    ASSUME NEW s, IsSequence(s)
    PROVE  /\ s \in Seq(Range(s)) /\ DOMAIN s = 1..Len(s) /\ IsFiniteSet(DOMAIN s)
           /\ IsFiniteSet(Range(s)) /\ \A n \in DOMAIN s : s[n] \in Range(s)
<1>1. Len(s) \in Nat /\ DOMAIN s = 1..Len(s) /\ \A n \in DOMAIN s : s[n] \in Range(s)
  BY DEF IsSequence, Range
<1>2. s \in [1..Len(s) -> Range(s)]
  BY <1>1 DEF IsSequence
<1>3. s \in Seq(Range(s))
  BY <1>1, <1>2
<1>4. IsFiniteSet(DOMAIN s)
  BY <1>1, FS_Interval
<1>. QED  BY <1>1, <1>3, <1>4, RangeIsFinite

\* A function on an interval is a sequence.
LEMMA SequencesAre ==
    ASSUME NEW s, NEW k \in Nat, s = [n \in 1..k |-> s[n]]
    PROVE  IsSequence(s) /\ Len(s) = k
<1>1. s \in Seq({s[n] : n \in 1..k}) /\ Len(s) = k
  <2>1. s \in [1..k -> {s[n] : n \in 1..k}]
    OBVIOUS
  <2>. QED  BY <2>1
<1>. QED  BY <1>1 DEF IsSequence

\* A finite set of numbers, in order.
LEMMA UpwardsIsSequence ==
    ASSUME NEW S, IsFiniteSet(S)
    PROVE  IsSequence(Upwards(S))
<1>. DEFINE place == [x \in S |-> 1 + Cardinality({y \in S : y < x})]
            nth(n) == CHOOSE x \in S : Table(place)[x] = n
            f == [n \in 1..Cardinality(S) |-> nth(n)]
<1>1. Upwards(S) = Table(f)
  BY Zenon DEF Upwards, InOrder
<1>2. Table(f) = f
  BY Zenon, TableIs
<1>3. Cardinality(S) \in Nat
  BY FS_CardinalityType
<1>4. f = [n \in 1..Cardinality(S) |-> f[n]]
  <2>. HIDE DEF nth
  <2>. QED  OBVIOUS
<1>. HIDE DEF f
<1>. QED  BY <1>1, <1>2, <1>3, <1>4, SequencesAre

\* Sorting pairs gives a sequence, equal ranks or not.
LEMMA ByRankIsSequence ==
    ASSUME NEW T, IsFiniteSet(T)
    PROVE  IsSequence(ByRank(T))
<1>. DEFINE place == [x \in T |-> 1 + Cardinality({y \in T : SeqLess(y[1], x[1])})]
            f == [n \in 1..Cardinality(T) |-> CHOOSE x \in T : Table(place)[x] = n]
            g == [n \in DOMAIN f |-> f[n][2]]
<1>1. InOrder(T, LAMBDA a, b : SeqLess(a[1], b[1])) = Table(f)
  BY Zenon DEF InOrder
<1>2. Table(f) = f
  BY Zenon, TableIs
<1>3. ByRank(T) = g
  <2>. HIDE DEF f
  <2>1. InOrder(T, LAMBDA a, b : SeqLess(a[1], b[1])) = f
    BY Zenon, <1>1, <1>2
  <2>. QED  BY Zenon, <2>1 DEF ByRank
<1>4. Cardinality(T) \in Nat
  BY FS_CardinalityType
<1>5. DOMAIN f = 1..Cardinality(T)
  OBVIOUS
<1>6. g = [n \in 1..Cardinality(T) |-> g[n]]
  <2>. HIDE DEF f
  <2>. QED  BY <1>5
<1>. HIDE DEF g
<1>. QED  BY <1>3, <1>4, <1>6, SequencesAre

\* So does sorting a finite set by ranks of its elements.
LEMMA RankedIsSequence ==
    ASSUME NEW S, IsFiniteSet(S), NEW rank
    PROVE  IsSequence(ByRank({<<rank[x], x>> : x \in S}))
<1>. DEFINE f == [x \in S |-> <<rank[x], x>>]
<1>1. {<<rank[x], x>> : x \in S} = {f[x] : x \in S}
  OBVIOUS
<1>2. IsFiniteSet({f[x] : x \in S})
  <2>. HIDE DEF f
  <2>. QED  BY ImageIsFinite
<1>. QED  BY <1>1, <1>2, ByRankIsSequence

\* What is taken of some places is a sequence.
LEMMA PlacesTaken ==
    ASSUME NEW s, NEW P, IsFiniteSet(P)
    PROVE  /\ IsSequence(TakePlaces(s, Upwards(P)))
           /\ DOMAIN TakePlaces(s, Upwards(P)) = DOMAIN Upwards(P)
<1>. DEFINE u == Upwards(P)
<1>1. IsSequence(u)
  BY UpwardsIsSequence
<1>2. Len(u) \in Nat /\ DOMAIN u = 1..Len(u)
  BY <1>1, AreSequences DEF IsSequence
<1>. DEFINE t == [n \in DOMAIN u |-> s[u[n]]]
<1>3. TakePlaces(s, u) = t /\ DOMAIN t = DOMAIN u
  BY DEF TakePlaces
<1>4. t = [n \in 1..Len(u) |-> t[n]]
  <2>. HIDE DEF u
  <2>. QED  BY <1>2
<1>. HIDE DEF t, u
<1>. QED  BY <1>2, <1>3, <1>4, SequencesAre DEF u

\* However many are asked for, the first of anything are finitely many.
LEMMA FirstIsSequence ==
    ASSUME NEW s, NEW k \in Nat
    PROVE  IsSequence(First(s, k)) /\ Len(First(s, k)) \in 0..k
<1>. DEFINE D == {m \in 1..k : 1..m \subseteq DOMAIN s}
            T == {m \in 0..k : 1..m \subseteq DOMAIN s}
<1>1. 0 \in T /\ T \in SUBSET (0..k)
  OBVIOUS
<1>2. PICK m \in T : \A j \in T : j <= m
  <2>. HIDE DEF T
  <2>. QED  BY <1>1, GreatestUpTo
<1>3. D = 1..m
  <2>1. ASSUME NEW j \in D PROVE j \in 1..m
    BY <1>2
  <2>2. ASSUME NEW j \in 1..m PROVE j \in D
    <3>1. 1..j \subseteq 1..m /\ 1..m \subseteq DOMAIN s
      OBVIOUS
    <3>. QED  BY <3>1
  <2>. HIDE DEF D, T
  <2>. QED  BY <2>1, <2>2
<1>4. First(s, k) = [n \in D |-> s[n]]
  BY DEF First
<1>5. m \in Nat /\ m \in 0..k
  OBVIOUS
<1>. HIDE DEF D, T
<1>6. First(s, k) = [n \in 1..m |-> First(s, k)[n]]
  BY <1>3, <1>4
<1>. QED  BY <1>5, <1>6, SequencesAre

-----------------------------------------------------------------------------
(* Sorting.                                                                 *)

\* What is taken of a finite set of numbers, in order, is in it.
LEMMA UpwardsIn ==
    ASSUME NEW P \in SUBSET Int, IsFiniteSet(P)
    PROVE  \A n \in DOMAIN Upwards(P) : Upwards(P)[n] \in P
<1>. DEFINE R == {c \in P \X P : c[1] < c[2]}
            place == [x \in P |-> 1 + Cardinality({y \in P : y < x})]
            nth(n) == CHOOSE x \in P : Table(place)[x] = n
            f == [n \in 1..Cardinality(P) |-> nth(n)]
<1>1. Upwards(P) = Table(f)
  BY Zenon DEF Upwards, InOrder
<1>2. Table(f) = f /\ Table(place) = place
  BY Zenon, TableIs
<1>3. \A x \in P : Before(P, R, x) = {y \in P : y < x}
  BY DEF Before
<1>4. Places(P, R) = place
  BY <1>3 DEF Places
<1>5. \A n \in 1..Cardinality(P) : \E x \in P : place[x] = n
  <2>1. /\ \A x \in P : <<x, x>> \notin R
        /\ \A x, y, z \in P : <<x, y>> \in R /\ <<y, z>> \in R => <<x, z>> \in R
        /\ \A x, y \in P : x # y => <<x, y>> \in R \/ <<y, x>> \in R
    OBVIOUS
  <2>. HIDE DEF R, place
  <2>2. \A n \in 1..Cardinality(P) : \E x \in P : Places(P, R)[x] = n
    BY <2>1, PlacesAreAll
  <2>. QED  BY <2>2, <1>4
<1>6. \A n \in 1..Cardinality(P) : nth(n) \in P
  <2>. HIDE DEF place
  <2>. QED  BY <1>2, <1>5
<1>. HIDE DEF nth
<1>. QED  BY <1>1, <1>2, <1>6

\* What a sequence has at some of its places, in their order.
LEMMA TakenAre ==
    ASSUME NEW s, IsSequence(s), NEW P \in SUBSET DOMAIN s
    PROVE  /\ IsSequence(TakePlaces(s, Upwards(P)))
           /\ Range(TakePlaces(s, Upwards(P))) \subseteq {s[n] : n \in P}
           /\ Range(TakePlaces(s, Upwards(P))) \subseteq Range(s)
<1>1. IsFiniteSet(P) /\ P \in SUBSET Int
  BY AreSequences, FS_Subset DEF IsSequence
<1>2. \A n \in DOMAIN Upwards(P) : Upwards(P)[n] \in P
  BY <1>1, UpwardsIn
<1>3. IsSequence(TakePlaces(s, Upwards(P)))
  BY <1>1, PlacesTaken
<1>4. Range(TakePlaces(s, Upwards(P))) \subseteq {s[n] : n \in P}
  BY <1>2 DEF TakePlaces, Range
<1>5. {s[n] : n \in P} \subseteq Range(s)
  BY DEF Range
<1>. QED  BY <1>3, <1>4, <1>5

\* A place in a sequence for one more element.
LEMMA InsertedIn ==
    ASSUME NEW S, NEW s \in Seq(S), NEW k \in 0..Len(s), NEW a \in S
    PROVE  /\ InsertAt(s, 1 + k, a) \in Seq(S) /\ Len(InsertAt(s, 1 + k, a)) = Len(s) + 1
           /\ \A n \in 1..k : InsertAt(s, 1 + k, a)[n] = s[n]
           /\ InsertAt(s, 1 + k, a)[k + 1] = a
           /\ \A n \in k + 1..Len(s) : InsertAt(s, 1 + k, a)[n + 1] = s[n]
<1>. DEFINE front == SubSeq(s, 1, k)
            back == SubSeq(s, 1 + k, Len(s))
<1>0. Len(s) \in Nat /\ k \in Nat /\ k <= Len(s)
  OBVIOUS
<1>1. InsertAt(s, 1 + k, a) = front \o <<a>> \o back
  <2>1. (1 + k) - 1 = k
    BY <1>0
  <2>. QED  BY <2>1 DEF InsertAt
<1>2. front \in Seq(S) /\ Len(front) = k /\ \A n \in 1..k : front[n] = s[n]
  BY <1>0
<1>3. back \in Seq(S) /\ Len(back) = Len(s) - k /\ \A n \in 1..Len(s) - k : back[n] = s[n + k]
  BY <1>0
<1>. HIDE DEF front, back
<1>4. <<a>> \in Seq(S) /\ Len(<<a>>) = 1 /\ <<a>>[1] = a
  OBVIOUS
<1>5. /\ front \o <<a>> \in Seq(S) /\ Len(front \o <<a>>) = k + 1
      /\ \A n \in 1..k : (front \o <<a>>)[n] = s[n]
      /\ (front \o <<a>>)[k + 1] = a
  BY <1>0, <1>2, <1>4
<1>. DEFINE head == front \o <<a>>
<1>. HIDE DEF head
<1>6. head \in Seq(S) /\ Len(head) = k + 1 /\ (\A n \in 1..k : head[n] = s[n]) /\ head[k + 1] = a
  BY <1>5 DEF head
<1>7. head \o back \in Seq(S) /\ Len(head \o back) = Len(s) + 1
  BY <1>0, <1>3, <1>6
<1>8. \A n \in 1..k + 1 : (head \o back)[n] = head[n]
  BY <1>0, <1>3, <1>6
<1>9. \A n \in k + 1..Len(s) : (head \o back)[n + 1] = s[n]
  <2>1. ASSUME NEW n \in k + 1..Len(s) PROVE (head \o back)[n + 1] = s[n]
    <3>1. n + 1 \in Len(head) + 1..Len(head) + Len(back) /\ (n + 1) - Len(head) = n - k /\ n - k \in 1..Len(s) - k
      BY <1>0, <1>3, <1>6
    <3>2. (head \o back)[n + 1] = back[(n + 1) - Len(head)]
      BY <3>1, <1>3, <1>6
    <3>3. back[n - k] = s[(n - k) + k] /\ (n - k) + k = n
      BY <3>1, <1>0, <1>3
    <3>. QED  BY <3>1, <3>2, <3>3
  <2>. QED  BY <2>1
<1>10. \A n \in 1..k : n \in 1..k + 1
  BY <1>0
<1>11. k + 1 \in 1..k + 1
  BY <1>0
<1>. QED  BY <1>1, <1>6, <1>7, <1>8, <1>9, <1>10, <1>11 DEF head

\* The place an element comes to that passes, from the back, those of P.
Bubbles(place, L, P) == \A n \in 0..L : place[n] = IF n > 0 /\ n \in P THEN place[n - 1] ELSE n

\* For every place of a list, how far down an element sinks from it.
LEMMA BubblesExists ==
    ASSUME NEW L \in Nat, NEW P
    PROVE  \E place : place = [n \in 0..L |-> IF n > 0 /\ n \in P THEN place[n - 1] ELSE n]
<1>. DEFINE g == [p \in (0..L) \X (1..L) |-> IF p[2] \in P THEN p[1] ELSE p[2]]
<1>1. g \in [(0..L) \X (1..L) -> 0..L] /\ 0 \in 0..L
  OBVIOUS
<1>2. PICK h : Recursion(h, L, 0..L, 0, g)
  <2>. HIDE DEF g
  <2>. QED  BY <1>1, RecursionDefined
<1>3. h \in [0..L -> 0..L] /\ h[0] = 0
  BY <1>2 DEF Recursion
<1>4. ASSUME NEW n \in 0..L PROVE h[n] = IF n > 0 /\ n \in P THEN h[n - 1] ELSE n
  <2>1. CASE n = 0
    BY <2>1, <1>3
  <2>2. CASE n # 0
    <3>1. n \in 1..L /\ n - 1 \in 0..L /\ n > 0
      BY <2>2
    <3>2. h[n] = g[<<h[n - 1], n>>] /\ h[n - 1] \in 0..L
      BY <3>1, <1>2, <1>3 DEF Recursion
    <3>3. g[<<h[n - 1], n>>] = IF n \in P THEN h[n - 1] ELSE n
      BY <3>1, <3>2
    <3>. QED  BY <3>1, <3>2, <3>3
  <2>. QED  BY <2>1, <2>2
<1>5. h = [n \in 0..L |-> h[n]]
  BY <1>3
<1>6. h = [n \in 0..L |-> IF n > 0 /\ n \in P THEN h[n - 1] ELSE n]
  BY <1>4, <1>5
<1>. QED  BY <1>6

\* It is behind all it did not pass.
LEMMA BubblesStop ==
    ASSUME NEW L \in Nat, NEW P, NEW place, Bubbles(place, L, P)
    PROVE  /\ place[L] \in 0..L
           /\ \A k \in place[L] + 1..L : k \in P
           /\ place[L] > 0 => place[L] \notin P
<1>. DEFINE T == {n \in 0..L : /\ place[n] \in 0..n
                               /\ \A k \in place[n] + 1..n : k \in P
                               /\ place[n] > 0 => place[n] \notin P}
<1>1. 0 \in T
  <2>1. place[0] = 0 /\ 0 \in 0..L
    BY DEF Bubbles
  <2>. QED  BY <2>1
<1>2. ASSUME NEW m \in 0..(L - 1), m \in T PROVE m + 1 \in T
  <2>0. m + 1 \in 0..L /\ m + 1 > 0 /\ (m + 1) - 1 = m /\ m \in Nat
    OBVIOUS
  <2>1. place[m + 1] = IF m + 1 \in P THEN place[m] ELSE m + 1
    BY <2>0 DEF Bubbles
  <2>2. /\ place[m] \in 0..m /\ (\A k \in place[m] + 1..m : k \in P) /\ (place[m] > 0 => place[m] \notin P)
    BY <1>2
  <2>3. CASE m + 1 \in P
    <3>1. \A k \in place[m] + 1..m + 1 : k \in P
      <4>1. ASSUME NEW k \in place[m] + 1..m + 1 PROVE k \in P
        <5>1. k = m + 1 \/ k \in place[m] + 1..m
          BY <2>0, <2>2
        <5>. QED  BY <5>1, <2>2, <2>3
      <4>. QED  BY <4>1
    <3>2. place[m] \in 0..m + 1
      BY <2>0, <2>2
    <3>. QED  BY <2>0, <2>1, <2>2, <2>3, <3>1, <3>2
  <2>4. CASE m + 1 \notin P
    <3>1. place[m + 1] = m + 1
      BY <2>1, <2>4
    <3>2. \A k \in (m + 1) + 1..m + 1 : k \in P
      BY <2>0
    <3>3. m + 1 \in 0..m + 1
      BY <2>0
    <3>. QED  BY <2>0, <2>4, <3>1, <3>2, <3>3
  <2>. QED  BY <2>3, <2>4
<1>3. 0..L \subseteq T
  <2>. HIDE DEF T
  <2>. QED  BY <1>1, <1>2, InductionUpTo
<1>4. L \in 0..L
  OBVIOUS
<1>5. L \in T
  <2>. HIDE DEF T
  <2>. QED  BY <1>3, <1>4
<1>. QED  BY <1>5

\* An element sinks past those it goes before, and stops under one that it does
\* not: bubbleSolutionBackward.
LEMMA InsertPasses ==
    ASSUME NEW kept, NEW s, Len(kept) \in Nat
    PROVE  \E k \in 0..Len(kept) :
              /\ Insert(kept, s) = InsertAt(kept, 1 + k, s)
              /\ \A m \in k + 1..Len(kept) : SolutionLess(s, kept[m])
              /\ k > 0 => ~SolutionLess(s, kept[k])
<1>. DEFINE L == Len(kept)
            P == {n \in 1..L : SolutionLess(s, kept[n])}
            Passes(place) ==
                place = [n \in 0..L |-> IF n > 0 /\ SolutionLess(s, kept[n]) THEN place[n - 1] ELSE n]
            place == CHOOSE p : Passes(p)
<1>0. L \in Nat
  OBVIOUS
<1>1. Insert(kept, s) = InsertAt(kept, 1 + place[L], s)
  BY Zenon DEF Insert
<1>2. \A p, n : n \in 0..L =>
          (IF n > 0 /\ SolutionLess(s, kept[n]) THEN p[n - 1] ELSE n) = (IF n > 0 /\ n \in P THEN p[n - 1] ELSE n)
  OBVIOUS
<1>3. \E p : Passes(p)
  <2>1. PICK p : p = [n \in 0..L |-> IF n > 0 /\ n \in P THEN p[n - 1] ELSE n]
    <3>. HIDE DEF P, L
    <3>. QED  BY <1>0, BubblesExists
  <2>2. Passes(p)
    <3>. HIDE DEF P, L
    <3>. QED  BY <1>2, <2>1
  <2>. QED  BY <2>2
<1>4. Passes(place)
  <2>. HIDE DEF Passes
  <2>. QED  BY <1>3
<1>. HIDE DEF place
<1>5. Bubbles(place, L, P)
  <2>1. \A n \in 0..L : place[n] = IF n > 0 /\ SolutionLess(s, kept[n]) THEN place[n - 1] ELSE n
    <3>. HIDE DEF L
    <3>. QED  BY <1>4
  <2>. HIDE DEF Passes, P, L
  <2>. QED  BY <2>1, <1>2 DEF Bubbles
<1>6. /\ place[L] \in 0..L
      /\ \A m \in place[L] + 1..L : m \in P
      /\ place[L] > 0 => place[L] \notin P
  <2>. HIDE DEF Passes, P, L
  <2>. QED  BY <1>0, <1>5, BubblesStop
<1>. HIDE DEF Passes
<1>7. place[L] > 0 => place[L] \in 1..L
  BY <1>6
<1>. QED  BY <1>1, <1>6, <1>7

\* So does an element of any list that is sorted by keys.
LEMMA PutInPlacePasses ==
    ASSUME NEW ranked, NEW a, Len(ranked) \in Nat
    PROVE  \E k \in 0..Len(ranked) : PutInPlace(ranked, a) = InsertAt(ranked, 1 + k, a)
<1>. DEFINE L == Len(ranked)
            P == {n \in 1..L : SeqLess(a[1], ranked[n][1])}
            Passes(place) ==
                place = [n \in 0..L |-> IF n > 0 /\ SeqLess(a[1], ranked[n][1]) THEN place[n - 1] ELSE n]
            place == CHOOSE p : Passes(p)
<1>0. L \in Nat
  OBVIOUS
<1>1. PutInPlace(ranked, a) = InsertAt(ranked, 1 + place[L], a)
  BY Zenon DEF PutInPlace
<1>2. \A p, n : n \in 0..L =>
          (IF n > 0 /\ SeqLess(a[1], ranked[n][1]) THEN p[n - 1] ELSE n) = (IF n > 0 /\ n \in P THEN p[n - 1] ELSE n)
  OBVIOUS
<1>3. \E p : Passes(p)
  <2>1. PICK p : p = [n \in 0..L |-> IF n > 0 /\ n \in P THEN p[n - 1] ELSE n]
    <3>. HIDE DEF P, L
    <3>. QED  BY <1>0, BubblesExists
  <2>2. Passes(p)
    <3>. HIDE DEF P, L
    <3>. QED  BY <1>2, <2>1
  <2>. QED  BY <2>2
<1>4. Passes(place)
  <2>. HIDE DEF Passes
  <2>. QED  BY <1>3
<1>. HIDE DEF place
<1>5. Bubbles(place, L, P)
  <2>1. \A n \in 0..L : place[n] = IF n > 0 /\ SeqLess(a[1], ranked[n][1]) THEN place[n - 1] ELSE n
    <3>. HIDE DEF L
    <3>. QED  BY <1>4
  <2>. HIDE DEF Passes, P, L
  <2>. QED  BY <2>1, <1>2 DEF Bubbles
<1>6. place[L] \in 0..L
  <2>. HIDE DEF Passes, P, L
  <2>. QED  BY <1>0, <1>5, BubblesStop
<1>. HIDE DEF Passes
<1>. QED  BY <1>1, <1>6

\* A list with one more element is a list of elements of the same kind.
LEMMA InsertIn ==
    ASSUME NEW S, NEW kept \in Seq(S), NEW s \in S
    PROVE  Insert(kept, s) \in Seq(S) /\ Len(Insert(kept, s)) = Len(kept) + 1
<1>1. Len(kept) \in Nat
  OBVIOUS
<1>2. PICK k \in 0..Len(kept) : Insert(kept, s) = InsertAt(kept, 1 + k, s)
  BY <1>1, InsertPasses
<1>. QED  BY <1>2, InsertedIn

\* The same for a list that is sorted by keys.
LEMMA PutInPlaceIn ==
    ASSUME NEW S, NEW ranked \in Seq(S), NEW a \in S
    PROVE  PutInPlace(ranked, a) \in Seq(S)
<1>1. Len(ranked) \in Nat
  OBVIOUS
<1>2. PICK k \in 0..Len(ranked) : PutInPlace(ranked, a) = InsertAt(ranked, 1 + k, a)
  BY <1>1, PutInPlacePasses
<1>. QED  BY <1>2, InsertedIn

\* The steps of a sort.
SortsUpTo(upTo, s) == upTo = [n \in 0..Len(s) |-> IF n = 0 THEN <<>> ELSE Insert(upTo[n - 1], s[n])]
RanksUpTo(upTo, s) == upTo = [n \in 0..Len(s) |-> IF n = 0 THEN <<>> ELSE PutInPlace(upTo[n - 1], s[n])]

\* Layouts are put in their places one after another.
LEMMA SortsExists ==
    ASSUME NEW S, NEW s \in Seq(S)
    PROVE  \E f : SortsUpTo(f, s) /\ f \in [0..Len(s) -> Seq(S)]
<1>. DEFINE L == Len(s)
            V == Seq(S)
            g == [p \in V \X (1..L) |-> Insert(p[1], s[p[2]])]
<1>0. L \in Nat /\ <<>> \in V /\ \A n \in 1..L : s[n] \in S
  OBVIOUS
<1>1. g \in [V \X (1..L) -> V]
  <2>1. ASSUME NEW p \in V \X (1..L) PROVE Insert(p[1], s[p[2]]) \in V
    <3>1. p[1] \in V /\ s[p[2]] \in S
      BY <1>0
    <3>. HIDE DEF L
    <3>. QED  BY <3>1, InsertIn
  <2>. HIDE DEF V, L
  <2>. QED  BY <2>1
<1>2. PICK f : Recursion(f, L, V, <<>>, g)
  <2>. HIDE DEF g, V, L
  <2>. QED  BY <1>0, <1>1, RecursionDefined
<1>. HIDE DEF V, L
<1>3. f \in [0..L -> V] /\ f[0] = <<>>
  BY <1>2 DEF Recursion
<1>4. ASSUME NEW n \in 0..L PROVE f[n] = IF n = 0 THEN <<>> ELSE Insert(f[n - 1], s[n])
  <2>1. CASE n = 0
    BY <2>1, <1>3
  <2>2. CASE n # 0
    <3>1. n \in 1..L /\ n - 1 \in 0..L
      BY <2>2, <1>0
    <3>2. f[n] = g[<<f[n - 1], n>>] /\ <<f[n - 1], n>> \in V \X (1..L)
      BY <3>1, <1>2, <1>3 DEF Recursion
    <3>3. g[<<f[n - 1], n>>] = Insert(f[n - 1], s[n])
      BY <3>2
    <3>. QED  BY <3>2, <3>3, <2>2
  <2>. QED  BY <2>1, <2>2
<1>5. f = [n \in 0..L |-> f[n]]
  BY <1>3
<1>6. SortsUpTo(f, s)
  BY <1>4, <1>5 DEF SortsUpTo, L
<1>. QED  BY <1>3, <1>6 DEF L, V

\* Elements with keys are put in their places one after another.
LEMMA RanksExists ==
    ASSUME NEW S, NEW s \in Seq(S)
    PROVE  \E f : RanksUpTo(f, s) /\ f \in [0..Len(s) -> Seq(S)]
<1>. DEFINE L == Len(s)
            V == Seq(S)
            g == [p \in V \X (1..L) |-> PutInPlace(p[1], s[p[2]])]
<1>0. L \in Nat /\ <<>> \in V /\ \A n \in 1..L : s[n] \in S
  OBVIOUS
<1>1. g \in [V \X (1..L) -> V]
  <2>1. ASSUME NEW p \in V \X (1..L) PROVE PutInPlace(p[1], s[p[2]]) \in V
    <3>1. p[1] \in V /\ s[p[2]] \in S
      BY <1>0
    <3>. HIDE DEF L
    <3>. QED  BY <3>1, PutInPlaceIn
  <2>. HIDE DEF V, L
  <2>. QED  BY <2>1
<1>2. PICK f : Recursion(f, L, V, <<>>, g)
  <2>. HIDE DEF g, V, L
  <2>. QED  BY <1>0, <1>1, RecursionDefined
<1>. HIDE DEF V, L
<1>3. f \in [0..L -> V] /\ f[0] = <<>>
  BY <1>2 DEF Recursion
<1>4. ASSUME NEW n \in 0..L PROVE f[n] = IF n = 0 THEN <<>> ELSE PutInPlace(f[n - 1], s[n])
  <2>1. CASE n = 0
    BY <2>1, <1>3
  <2>2. CASE n # 0
    <3>1. n \in 1..L /\ n - 1 \in 0..L
      BY <2>2, <1>0
    <3>2. f[n] = g[<<f[n - 1], n>>] /\ <<f[n - 1], n>> \in V \X (1..L)
      BY <3>1, <1>2, <1>3 DEF Recursion
    <3>3. g[<<f[n - 1], n>>] = PutInPlace(f[n - 1], s[n])
      BY <3>2
    <3>. QED  BY <3>2, <3>3, <2>2
  <2>. QED  BY <2>1, <2>2
<1>5. f = [n \in 0..L |-> f[n]]
  BY <1>3
<1>6. RanksUpTo(f, s)
  BY <1>4, <1>5 DEF RanksUpTo, L
<1>. QED  BY <1>3, <1>6 DEF L, V

\* Two functions with the same steps agree.
LEMMA SortedIn ==
    ASSUME NEW S, NEW s \in Seq(S)
    PROVE  /\ Sorted(s) \in Seq(S) /\ Len(Sorted(s)) = Len(s)
           /\ \E f \in [0..Len(s) -> Seq(S)] :
                 /\ Sorted(s) = f[Len(s)] /\ f[0] = <<>>
                 /\ \A n \in 1..Len(s) : f[n] = Insert(f[n - 1], s[n])
<1>. DEFINE f == CHOOSE g : SortsUpTo(g, s)
            L == Len(s)
            T == {n \in 0..L : f[n] \in Seq(S) /\ Len(f[n]) = n}
<1>0. L \in Nat /\ \A n \in 1..L : s[n] \in S
  OBVIOUS
<1>1. Sorted(s) = f[L]
  BY Zenon DEF Sorted, SortsUpTo
<1>2. SortsUpTo(f, s)
  BY SortsExists
<1>. HIDE DEF f
<1>3. f = [n \in 0..L |-> f[n]] /\ f[0] = <<>> /\ \A n \in 1..L : f[n] = Insert(f[n - 1], s[n])
  BY <1>0, <1>2 DEF SortsUpTo
<1>4. 0 \in T
  <2>1. 0 \in 0..L /\ <<>> \in Seq(S) /\ Len(<<>>) = 0
    BY <1>0
  <2>. QED  BY <1>3, <2>1
<1>5. ASSUME NEW n \in 0..(L - 1), n \in T PROVE n + 1 \in T
  <2>1. n + 1 \in 1..L /\ (n + 1) - 1 = n /\ n + 1 \in 0..L
    BY <1>0
  <2>2. f[n + 1] = Insert(f[n], s[n + 1]) /\ s[n + 1] \in S
    BY <1>0, <1>3, <2>1
  <2>3. f[n] \in Seq(S) /\ Len(f[n]) = n
    BY <1>5
  <2>4. Insert(f[n], s[n + 1]) \in Seq(S) /\ Len(Insert(f[n], s[n + 1])) = Len(f[n]) + 1
    BY <2>2, <2>3, InsertIn
  <2>5. f[n + 1] \in Seq(S) /\ Len(f[n + 1]) = n + 1
    BY <2>2, <2>3, <2>4
  <2>. QED  BY <2>1, <2>5
<1>6. 0..L \subseteq T
  <2>. HIDE DEF T, L
  <2>. QED  BY <1>0, <1>4, <1>5, InductionUpTo
<1>7. L \in 0..L
  BY <1>0
<1>8. \A n \in 0..L : f[n] \in Seq(S) /\ Len(f[n]) = n
  BY <1>6
<1>9. f \in [0..L -> Seq(S)]
  BY <1>3, <1>8
<1>. HIDE DEF L, T
<1>. QED  BY <1>1, <1>3, <1>7, <1>8, <1>9 DEF L

\* Sorting by keys gives a sequence of what it was given.
LEMMA RanksIn ==
    ASSUME NEW S, NEW s \in Seq(S)
    PROVE  Ranks(s) \in Seq(S)
<1>. DEFINE f == CHOOSE g : RanksUpTo(g, s)
            L == Len(s)
            T == {n \in 0..L : f[n] \in Seq(S)}
<1>0. L \in Nat /\ \A n \in 1..L : s[n] \in S
  OBVIOUS
<1>1. Ranks(s) = f[L]
  BY Zenon DEF Ranks, RanksUpTo
<1>2. RanksUpTo(f, s)
  BY RanksExists
<1>. HIDE DEF f
<1>3. f[0] = <<>> /\ \A n \in 1..L : f[n] = PutInPlace(f[n - 1], s[n])
  BY <1>0, <1>2 DEF RanksUpTo
<1>4. 0 \in T
  <2>1. 0 \in 0..L /\ <<>> \in Seq(S) /\ Len(<<>>) = 0
    BY <1>0
  <2>. QED  BY <1>3, <2>1
<1>5. ASSUME NEW n \in 0..(L - 1), n \in T PROVE n + 1 \in T
  <2>1. n + 1 \in 1..L /\ (n + 1) - 1 = n /\ n + 1 \in 0..L
    BY <1>0
  <2>2. f[n + 1] = PutInPlace(f[n], s[n + 1]) /\ s[n + 1] \in S
    BY <1>0, <1>3, <2>1
  <2>3. f[n] \in Seq(S)
    BY <1>5
  <2>4. f[n + 1] \in Seq(S)
    BY <2>2, <2>3, PutInPlaceIn
  <2>. QED  BY <2>1, <2>4
<1>6. 0..L \subseteq T
  <2>. HIDE DEF T, L
  <2>. QED  BY <1>0, <1>4, <1>5, InductionUpTo
<1>7. L \in T
  <2>1. L \in 0..L
    BY <1>0
  <2>. HIDE DEF T, L
  <2>. QED  BY <1>6, <2>1
<1>. HIDE DEF L
<1>. QED  BY <1>1, <1>7

\* Arranging a sequence by a rank gives a sequence of what is in it.
Ranked1(s, keys) == [n \in DOMAIN s |-> <<keys[n], s[n]>>]

\* The pairs without their keys.
Seconds(pairs) == [n \in DOMAIN pairs |-> pairs[n][2]]

\* Sorting by keys, and dropping the keys, adds nothing.
LEMMA ArrangedIn ==
    ASSUME NEW s, IsSequence(s), NEW keys
    PROVE  /\ IsSequence(Seconds(Ranks(Ranked1(s, keys))))
           /\ Range(Seconds(Ranks(Ranked1(s, keys)))) \subseteq Range(s)
<1>. DEFINE pairs == Ranked1(s, keys)
            K == {keys[n] : n \in DOMAIN s}
            ranked == Ranks(pairs)
            t == Seconds(ranked)
<1>0. Len(s) \in Nat /\ DOMAIN s = 1..Len(s) /\ \A n \in DOMAIN s : s[n] \in Range(s)
  BY AreSequences DEF IsSequence
<1>1. pairs \in Seq(K \X Range(s))
  <2>1. pairs = [n \in 1..Len(s) |-> pairs[n]]
    BY <1>0 DEF Ranked1
  <2>2. \A n \in 1..Len(s) : pairs[n] \in K \X Range(s)
    BY <1>0 DEF Ranked1
  <2>. HIDE DEF pairs, K
  <2>3. pairs \in [1..Len(s) -> K \X Range(s)]
    BY <2>1, <2>2
  <2>. QED  BY <1>0, <2>3
<1>. HIDE DEF pairs, K
<1>2. ranked \in Seq(K \X Range(s))
  BY <1>1, RanksIn
<1>. HIDE DEF ranked
<1>3. Len(ranked) \in Nat /\ DOMAIN ranked = 1..Len(ranked) /\ \A n \in DOMAIN ranked : ranked[n] \in K \X Range(s)
  BY <1>2
<1>4. \A n \in DOMAIN ranked : ranked[n][2] \in Range(s)
  BY <1>3
<1>5. t = [n \in 1..Len(ranked) |-> t[n]] /\ DOMAIN t = DOMAIN ranked /\ \A n \in DOMAIN t : t[n] \in Range(s)
  BY <1>3, <1>4 DEF Seconds
<1>. HIDE DEF t
<1>6. IsSequence(t)
  BY <1>3, <1>5, SequencesAre
<1>7. Range(t) \subseteq Range(s)
  BY <1>5 DEF Range
<1>. QED  BY <1>6, <1>7 DEF t, ranked, pairs

\* A fold from the left over a sequence: what the places t of it come to.
LeftFold(kept, s, base, step) ==
    \A t \in SUBSET DOMAIN s :
        kept[t] = IF t = {} THEN base ELSE step[<<Max(t), kept[t \ {Max(t)}]>>]

\* The last of some places of a sequence is one of them.
LEMMA GreatestPlace ==
    ASSUME NEW s, IsSequence(s), NEW t \in SUBSET DOMAIN s, t # {}
    PROVE  Max(t) \in t /\ t \ {Max(t)} \in SUBSET DOMAIN s
<1>1. DOMAIN s = 1..Len(s) /\ Len(s) \in Nat
  BY AreSequences DEF IsSequence
<1>. QED  BY <1>1, GreatestOfPart

\* A fold from the left has a value for all places of a sequence.
LEMMA LeftFoldExists ==
    ASSUME NEW s, IsSequence(s), NEW V, NEW base \in V, NEW step \in [(DOMAIN s) \X V -> V]
    PROVE  \E kept \in [SUBSET DOMAIN s -> V] : LeftFold(kept, s, base, step)
<1>. DEFINE D == DOMAIN s
            pick == [t \in SUBSET D |-> Max(t)]
<1>1. IsFiniteSet(D)
  BY AreSequences
<1>2. \A t \in SUBSET D : t # {} => pick[t] \in t
  BY GreatestPlace
<1>3. \E f \in [SUBSET D -> V] : Unfolds(f, SUBSET D, base, pick, step)
  <2>. HIDE DEF D, pick
  <2>. USE DEF D
  <2>. QED  BY <1>1, <1>2, FiniteRecursion
<1>4. PICK f \in [SUBSET D -> V] : Unfolds(f, SUBSET D, base, pick, step)
  BY <1>3
<1>5. LeftFold(f, s, base, step)
  BY <1>4 DEF Unfolds, LeftFold
<1>. QED  BY <1>4, <1>5

\* A fold whose steps stay in a set, from an element of it, stays there.
LEMMA LeftFoldStays ==
    ASSUME NEW s, IsSequence(s), NEW V, NEW base \in V, NEW kept, kept[{}] = base,
           \A t \in SUBSET DOMAIN s : t # {} /\ kept[t \ {Max(t)}] \in V => kept[t] \in V
    PROVE  kept[DOMAIN s] \in V
<1>. DEFINE D == DOMAIN s
            P == {t \in SUBSET D : kept[t] \in V}
<1>1. ASSUME NEW t \in SUBSET D, \A x \in t : t \ {x} \in P
      PROVE  t \in P
  <2>1. CASE t = {}
    BY <2>1
  <2>2. CASE t # {}
    <3>1. Max(t) \in t
      BY <2>2, GreatestPlace
    <3>2. t \ {Max(t)} \in P
      <4>. HIDE DEF P
      <4>. QED  BY <1>1, <3>1
    <3>. QED  BY <3>2, <2>2
  <2>. QED  BY <2>1, <2>2
<1>2. IsFiniteSet(D)
  BY AreSequences
<1>3. (SUBSET D) \subseteq P
  <2>. HIDE DEF P, D
  <2>. QED  BY <1>1, <1>2, SubsetInduction
<1>4. D \in SUBSET D
  OBVIOUS
<1>5. D \in P
  <2>. HIDE DEF P, D
  <2>. QED  BY <1>3, <1>4
<1>. QED  BY <1>5

\* selectPlateauLevelNeighborhoods makes a list of a list.
Taken(s, n, lv) ==
    IF \/ lv.perBase > 0 /\ Cardinality({m \in DOMAIN s : s[m].base = n.base}) >= lv.perBase
       \/ lv.selected > 0 /\ Len(s) >= lv.selected
    THEN s ELSE Append(s, n)

\* The steps of selectPlateauLevelNeighborhoods over some places of a list.
Selects(kept, s, lv) ==
    kept = [t \in SUBSET DOMAIN s |-> IF t = {} THEN <<>> ELSE Taken(kept[t \ {Max(t)}], s[Max(t)], lv)]

\* selectPlateauLevelNeighborhoods gives a sequence of what it was given.
LEMMA SelectLevelIsSequence ==
    ASSUME NEW s, IsSequence(s), NEW lv
    PROVE  IsSequence(SelectLevel(s, lv)) /\ SelectLevel(s, lv) \in Seq(Range(s))
<1>. DEFINE D == DOMAIN s
            V == Seq(Range(s))
            step == [p \in D \X V |-> Taken(p[2], s[p[1]], lv)]
<1>0. \A n \in D : s[n] \in Range(s)
  BY AreSequences
<1>1. \A v \in V, n \in D : Taken(v, s[n], lv) \in V
  BY <1>0 DEF Taken
<1>2. step \in [D \X V -> V] /\ <<>> \in V
  BY <1>1
<1>3. PICK f \in [SUBSET D -> V] : LeftFold(f, s, <<>>, step)
  <2>. HIDE DEF V, step
  <2>. QED  BY <1>2, LeftFoldExists
<1>4. ASSUME NEW t \in SUBSET D
      PROVE  f[t] = IF t = {} THEN <<>> ELSE Taken(f[t \ {Max(t)}], s[Max(t)], lv)
  <2>1. CASE t = {}
    BY <1>3, <2>1 DEF LeftFold
  <2>2. CASE t # {}
    <3>1. Max(t) \in D /\ t \ {Max(t)} \in SUBSET D
      BY <2>2, GreatestPlace
    <3>2. <<Max(t), f[t \ {Max(t)}]>> \in D \X V
      <4>. HIDE DEF V
      <4>. QED  BY <3>1, <1>3
    <3>3. f[t] = step[<<Max(t), f[t \ {Max(t)}]>>]
      BY <1>3, <2>2 DEF LeftFold
    <3>4. step[<<Max(t), f[t \ {Max(t)}]>>] = Taken(f[t \ {Max(t)}], s[Max(t)], lv)
      <4>. HIDE DEF V, D
      <4>. QED  BY <3>2
    <3>. QED  BY <3>3, <3>4, <2>2
  <2>. QED  BY <2>1, <2>2
<1>5. Selects(f, s, lv)
  BY <1>3, <1>4 DEF Selects
<1>6. \E g : Selects(g, s, lv)
  BY <1>5
<1>. DEFINE kept == CHOOSE g : Selects(g, s, lv)
<1>7. Selects(kept, s, lv)
  BY <1>6
<1>8. SelectLevel(s, lv) = kept[D]
  BY Zenon DEF SelectLevel, FoldLeft, MapThenFoldSet, Selects, Taken
<1>9. kept[D] \in V
  <2>. HIDE DEF kept
  <2>1. kept[{}] = <<>>
    BY <1>7 DEF Selects
  <2>2. ASSUME NEW t \in SUBSET D, t # {}, kept[t \ {Max(t)}] \in V
        PROVE  kept[t] \in V
    <3>1. Max(t) \in D
      BY <2>2, GreatestPlace
    <3>2. kept[t] = Taken(kept[t \ {Max(t)}], s[Max(t)], lv)
      BY <1>7, <2>2 DEF Selects
    <3>. HIDE DEF V, D
    <3>. QED  BY <1>1, <2>2, <3>1, <3>2
  <2>3. <<>> \in V
    BY <1>2
  <2>. HIDE DEF V
  <2>. QED  BY <2>1, <2>2, <2>3, LeftFoldStays
<1>10. \A v \in V : IsSequence(v)
  <2>1. ASSUME NEW v \in V PROVE Len(v) \in Nat /\ v = [n \in 1..Len(v) |-> v[n]]
    OBVIOUS
  <2>. QED  BY <2>1 DEF IsSequence
<1>. QED  BY <1>8, <1>9, <1>10

-----------------------------------------------------------------------------
(* Placements.                                                              *)

\* The rotations of an item, its orientations, and the steps that collect them.
RotationsOf(item) == IF item.rotations = <<>> THEN <<0, 90, 180, 270>> ELSE item.rotations
VariantsOf(item) == [n \in DOMAIN RotationsOf(item) |-> NormalizeVariant(item, RotationsOf(item)[n])]
AddVariant(kept, v) == IF \E w \in Range(kept) : SameVariant(v, w) THEN kept ELSE Append(kept, v)
AddsVariants(kept, s) ==
    kept = [t \in SUBSET DOMAIN s |-> IF t = {} THEN <<>> ELSE AddVariant(kept[t \ {Max(t)}], s[Max(t)])]

\* The orientations of an item are collected one rotation after another.
LEMMA VariantsFold ==
    ASSUME NEW s, IsSequence(s)
    PROVE  \E kept : AddsVariants(kept, s)
<1>. DEFINE D == DOMAIN s
            V == Seq(Range(s))
            step == [p \in D \X V |-> AddVariant(p[2], s[p[1]])]
<1>0. \A n \in D : s[n] \in Range(s)
  BY AreSequences
<1>1. \A v \in V, n \in D : AddVariant(v, s[n]) \in V
  BY <1>0 DEF AddVariant
<1>2. step \in [D \X V -> V] /\ <<>> \in V
  BY <1>1
<1>3. PICK f \in [SUBSET D -> V] : LeftFold(f, s, <<>>, step)
  <2>. HIDE DEF V, step
  <2>. QED  BY <1>2, LeftFoldExists
<1>4. ASSUME NEW t \in SUBSET D
      PROVE  f[t] = IF t = {} THEN <<>> ELSE AddVariant(f[t \ {Max(t)}], s[Max(t)])
  <2>1. CASE t = {}
    BY <1>3, <2>1 DEF LeftFold
  <2>2. CASE t # {}
    <3>1. Max(t) \in D /\ t \ {Max(t)} \in SUBSET D
      BY <2>2, GreatestPlace
    <3>2. <<Max(t), f[t \ {Max(t)}]>> \in D \X V
      <4>. HIDE DEF V
      <4>. QED  BY <3>1, <1>3
    <3>3. f[t] = step[<<Max(t), f[t \ {Max(t)}]>>]
      BY <1>3, <2>2 DEF LeftFold
    <3>4. step[<<Max(t), f[t \ {Max(t)}]>>] = AddVariant(f[t \ {Max(t)}], s[Max(t)])
      <4>. HIDE DEF V, D
      <4>. QED  BY <3>2
    <3>. QED  BY <3>3, <3>4, <2>2
  <2>. QED  BY <2>1, <2>2
<1>5. AddsVariants(f, s)
  BY <1>3, <1>4 DEF AddsVariants
<1>. QED  BY <1>5

\* An item has finitely many orientations.
LEMMA VariantsAreFinite ==
    ASSUME NEW item, item.rotations \in Seq({0, 90, 180, 270})
    PROVE  /\ IsFiniteSet(Range(VariantsForItem(item)))
           /\ \A v \in Range(VariantsForItem(item)) :
                 \E r \in {0, 90, 180, 270} : v = NormalizeVariant(item, r)
<1>. DEFINE s == VariantsOf(item)
            D == DOMAIN s
            V == Seq(Range(s))
            kept == CHOOSE f : AddsVariants(f, s)
<1>0. IsSequence(s) /\ \A n \in D : \E q \in {0, 90, 180, 270} : s[n] = NormalizeVariant(item, q)
  <2>. DEFINE r == RotationsOf(item)
  <2>1. r \in Seq({0, 90, 180, 270})
    <3>1. <<0, 90, 180, 270>> \in Seq({0, 90, 180, 270})
      OBVIOUS
    <3>2. r = <<0, 90, 180, 270>> \/ r = item.rotations
      BY DEF RotationsOf
    <3>. HIDE DEF r
    <3>. QED  BY <3>1, <3>2
  <2>2. Len(r) \in Nat /\ DOMAIN r = 1..Len(r)
    <3>. HIDE DEF r
    <3>. QED  BY <2>1
  <2>3. s = [n \in DOMAIN r |-> s[n]]
    BY DEF VariantsOf
  <2>4. ASSUME NEW n \in D PROVE \E q \in {0, 90, 180, 270} : s[n] = NormalizeVariant(item, q)
    <3>1. n \in DOMAIN r /\ s[n] = NormalizeVariant(item, r[n])
      BY DEF VariantsOf
    <3>2. r[n] \in {0, 90, 180, 270}
      <4>. HIDE DEF r
      <4>. QED  BY <2>1, <2>2, <3>1
    <3>. QED  BY <3>1, <3>2
  <2>5. IsSequence(s)
    <3>. HIDE DEF r, s
    <3>. QED  BY <2>2, <2>3, SequencesAre
  <2>. QED  BY <2>4, <2>5
<1>1. IsSequence(s)
  <2>. HIDE DEF s
  <2>. QED  BY <1>0
<1>2. AddsVariants(kept, s)
  BY <1>1, VariantsFold
<1>3. VariantsForItem(item) = kept[D]
  BY Zenon DEF VariantsForItem, VariantsOf, RotationsOf, FoldLeft, MapThenFoldSet, AddsVariants, AddVariant
<1>. HIDE DEF kept, s
<1>9. \A n \in D : s[n] \in Range(s)
  BY <1>1, AreSequences
<1>4. kept[D] \in V
  <2>1. kept[{}] = <<>>
    BY <1>2 DEF AddsVariants
  <2>2. ASSUME NEW t \in SUBSET D, t # {}, kept[t \ {Max(t)}] \in V
        PROVE  kept[t] \in V
    <3>1. Max(t) \in D
      BY <2>2, <1>1, GreatestPlace
    <3>2. kept[t] = AddVariant(kept[t \ {Max(t)}], s[Max(t)])
      BY <1>2, <2>2 DEF AddsVariants
    <3>3. AddVariant(kept[t \ {Max(t)}], s[Max(t)]) \in V
      BY <1>9, <2>2, <3>1 DEF AddVariant
    <3>. QED  BY <3>2, <3>3
  <2>3. <<>> \in V
    OBVIOUS
  <2>. HIDE DEF V
  <2>. QED  BY <1>1, <2>1, <2>2, <2>3, LeftFoldStays
<1>5. DOMAIN kept[D] = 1..Len(kept[D]) /\ Len(kept[D]) \in Nat
  BY <1>4
<1>6. IsFiniteSet(DOMAIN kept[D])
  BY <1>5, FS_Interval
<1>7. ASSUME NEW v \in Range(kept[D])
      PROVE  \E r \in {0, 90, 180, 270} : v = NormalizeVariant(item, r)
  <2>1. v \in Range(s)
    <3>1. kept[D] \in Seq(Range(s))
      BY <1>4
    <3>. QED  BY <1>5, <1>7, <3>1 DEF Range
  <2>2. PICK n \in D : v = s[n]
    BY <2>1 DEF Range
  <2>. QED  BY <1>0, <2>2
<1>8. IsFiniteSet(Range(kept[D]))
  BY <1>6, RangeIsFinite
<1>. QED  BY <1>3, <1>7, <1>8

\* Placements in the order of their keys are a sequence.
LEMMA InKeyOrderIsSequence ==
    ASSUME NEW S, IsFiniteSet(S)
    PROVE  IsSequence(InOrder(S, KeyLess))
<1>. DEFINE place == [x \in S |-> 1 + Cardinality({y \in S : KeyLess(y, x)})]
            nth(n) == CHOOSE x \in S : Table(place)[x] = n
            f == [n \in 1..Cardinality(S) |-> nth(n)]
<1>1. InOrder(S, KeyLess) = Table(f)
  BY Zenon DEF InOrder
<1>2. Table(f) = f
  BY Zenon, TableIs
<1>3. Cardinality(S) \in Nat
  BY FS_CardinalityType
<1>4. f = [n \in 1..Cardinality(S) |-> f[n]]
  <2>. HIDE DEF nth
  <2>. QED  OBVIOUS
<1>5. InOrder(S, KeyLess) = f
  BY Zenon, <1>1, <1>2
<1>6. IsSequence(f)
  <2>. HIDE DEF f
  <2>. QED  BY <1>3, <1>4, SequencesAre
<1>. QED  BY Zenon, <1>5, <1>6

\* The places of an item that fit the owned cells.
PlacesOn(id) ==
    {p \in {PlaceVariant(v, origin) : v \in Range(VariantsForItem(Items[id])), origin \in Board} :
        p.cells \subseteq GridMask}

\* The places of an item are finitely many.
LEMMA PlacesOnIsFinite ==
    ASSUME NEW id \in ItemIDs
    PROVE  IsFiniteSet(PlacesOn(id))
<1>. DEFINE vs == Range(VariantsForItem(Items[id]))
            f == [c \in vs \X Board |-> PlaceVariant(c[1], c[2])]
            T == {PlaceVariant(v, origin) : v \in vs, origin \in Board}
            S == {p \in T : p.cells \subseteq GridMask}
<1>1. IsFiniteSet(vs)
  <2>1. Items[id].rotations \in Seq({0, 90, 180, 270})
    BY CatalogAssumption DEF CatalogAssumption
  <2>. QED  BY <2>1, VariantsAreFinite
<1>2. IsFiniteSet(Board)
  <2>1. GridRows - 1 \in Int /\ GridCols - 1 \in Int
    BY CatalogAssumption DEF CatalogAssumption
  <2>2. IsFiniteSet(0..(GridRows - 1)) /\ IsFiniteSet(0..(GridCols - 1))
    BY <2>1, FS_Interval
  <2>. QED  BY <2>2, FS_Product DEF Board
<1>3. IsFiniteSet(vs \X Board)
  <2>. HIDE DEF vs
  <2>. QED  BY <1>1, <1>2, FS_Product
<1>4. f \in Surjection(vs \X Board, T)
  <2>1. ASSUME NEW c \in vs \X Board PROVE PlaceVariant(c[1], c[2]) \in T
    <3>1. c[1] \in vs /\ c[2] \in Board
      OBVIOUS
    <3>. HIDE DEF vs
    <3>. QED  BY <3>1
  <2>2. f \in [vs \X Board -> T]
    <3>. HIDE DEF vs, T
    <3>. QED  BY <2>1
  <2>3. ASSUME NEW t \in T PROVE \E c \in vs \X Board : f[c] = t
    <3>1. PICK v \in vs, origin \in Board : t = PlaceVariant(v, origin)
      BY <2>3
    <3>2. <<v, origin>> \in vs \X Board /\ f[<<v, origin>>] = PlaceVariant(v, origin)
      <4>. HIDE DEF vs
      <4>. QED  BY <3>1
    <3>. QED  BY <3>1, <3>2
  <2>. HIDE DEF vs, f, T
  <2>. QED  BY <2>2, <2>3 DEF Surjection
<1>5. IsFiniteSet(T)
  <2>. HIDE DEF f, vs, T
  <2>. QED  BY <1>3, <1>4, FS_Surjection
<1>6. IsFiniteSet(S)
  <2>1. S \in SUBSET T
    OBVIOUS
  <2>. HIDE DEF S, T
  <2>. QED  BY <1>5, <2>1, FS_Subset
<1>7. PlacesOn(id) = S
  BY DEF PlacesOn
<1>. QED  BY <1>6, <1>7

\* The placements of an item on the board are a sequence.
LEMMA PlacesAreFinite ==
    ASSUME NEW id \in ItemIDs
    PROVE  IsSequence(OptionsOf[id]) /\ OptionsOf[id] = InOrder(PlacesOn(id), KeyLess)
<1>1. OptionsOf[id] = PlacementOptions(id)
  BY TableIs DEF OptionsOf
<1>2. PlacementOptions(id) = InOrder(PlacesOn(id), KeyLess)
  BY DEF PlacementOptions, PlacesOn
<1>. QED  BY <1>1, <1>2, PlacesOnIsFinite, InKeyOrderIsSequence

\* Every instance has finitely many placements.
LEMMA OptionsAreFinite ==
    ASSUME NEW i \in Instances
    PROVE  /\ IsFiniteSet(OptionSet(i)) /\ IsSequence(OptionsForInstance(i))
           /\ Len(OptionsForInstance(i)) \in Nat
<1>1. Inventory[i] \in ItemIDs
  BY CatalogAssumption DEF CatalogAssumption, Instances
<1>2. IsSequence(OptionsForInstance(i))
  BY <1>1, PlacesAreFinite DEF OptionsForInstance
<1>. QED  BY <1>2, AreSequences DEF OptionSet, IsSequence

\* The placements of an instance in the order they are tried.
LEMMA OrderIsSequence ==
    ASSUME NEW config, NEW ctx, NEW i \in Instances
    PROVE  /\ IsSequence(OptionOrder(config, ctx, i))
           /\ Range(OptionOrder(config, ctx, i)) \subseteq OptionSet(i)
<1>. DEFINE rank(p) == <<IF ctx = NoContext THEN 0 ELSE -CoveragePlacementPriority(ctx, i, p),
                         IF UsesPotential(config) THEN -PriorityForPlacement(config, i, p) ELSE 0>>
                       \o PlacementKey(p)
            s == OptionsForInstance(i)
            keys == [n \in DOMAIN s |-> rank(s[n])]
            pairs == [n \in DOMAIN s |-> <<rank(s[n]), s[n]>>]
<1>1. OptionOrder(config, ctx, i) = [n \in DOMAIN Ranks(pairs) |-> Ranks(pairs)[n][2]]
  BY Zenon DEF OptionOrder, Arranged
<1>2. pairs = Ranked1(s, keys)
  <2>. HIDE DEF rank
  <2>. QED  BY DEF Ranked1
<1>3. OptionOrder(config, ctx, i) = Seconds(Ranks(Ranked1(s, keys)))
  <2>. HIDE DEF keys, pairs
  <2>. QED  BY <1>1, <1>2 DEF Seconds
<1>. HIDE DEF keys, rank, s
<1>4. IsSequence(s) /\ Range(s) = OptionSet(i)
  BY OptionsAreFinite DEF OptionSet, s
<1>. QED  BY <1>3, <1>4, ArrangedIn

\* The plan of a solve has a sequence of placements for each instance.
LEMMA PreparedOptions ==
    ASSUME NEW config, NEW i \in Instances
    PROVE  IsSequence(PlanOf(config).options[i]) /\ Range(PlanOf(config).options[i]) \subseteq OptionSet(i)
<1>1. PlanOf(config).options[i] = OptionOrder(config, ContextForConfig(config), i)
  BY TableIs DEF PlanOf, PlanWith
<1>. QED  BY <1>1, OrderIsSequence

-----------------------------------------------------------------------------
(* Legal layouts, and placing one instance after another.                   *)

\* A layout on the way: on the board, apart, the copies in order.
Partly(l) ==
    /\ DOMAIN l \subseteq Instances
    /\ \A i \in DOMAIN l : l[i] \in OptionSet(i) /\ Fits(Without(l, i), l[i])
    /\ Canonical(l)

\* What a layout has after the first d instances of an order are decided, where
\* nothing may be left out: all that are not in the order, and those.
Decided(order, d) == (Instances \ Range(order)) \cup {order[k] : k \in 1..d}
Placed(config, order, l, d) == Partly(l) /\ (config.allowSkips \/ DOMAIN l = Decided(order, d))

\* The instances are numbers.
LEMMA InstancesAreNumbers ==
    Instances \subseteq Int
<1>1. Inventory \in Seq(ItemIDs)
  BY CatalogAssumption DEF CatalogAssumption
<1>. QED  BY <1>1 DEF Instances

\* A layout is legal when what it places is placed legally, and either instances may
\* be skipped or none is.
LEMMA LegalIsPartly ==
    ASSUME NEW config, NEW l
    PROVE  LegalLayout(config, l) <=> Partly(l) /\ (config.allowSkips \/ DOMAIN l = Instances)
BY DEF LegalLayout, Partly

\* A placement fits a layout when it shares no cell with another one of it.
LEMMA CellsApart ==
    ASSUME NEW l, NEW i \in DOMAIN l
    PROVE  Fits(Without(l, i), l[i]) <=> \A j \in DOMAIN l \ {i} : l[i].cells \cap l[j].cells = {}
<1>1. DOMAIN Without(l, i) = DOMAIN l \ {i} /\ \A j \in DOMAIN l \ {i} : Without(l, i)[j] = l[j]
  BY DEF Without
<1>. HIDE DEF Without
<1>. QED  BY <1>1 DEF Fits, Occupied

\* An instance that fits, in the order of its copies, may be placed.
LEMMA WithKeepsPartly ==
    ASSUME NEW l, Partly(l), NEW i \in Instances, NEW p \in OptionSet(i),
           Fits(Without(l, i), p), RespectsCopyOrder(l, i, p)
    PROVE  Partly(With(l, i, p)) /\ DOMAIN With(l, i, p) = DOMAIN l \cup {i}
<1>. DEFINE m == With(l, i, p)
            D == DOMAIN l \cup {i}
<1>1. DOMAIN m = D /\ m[i] = p /\ \A j \in D \ {i} : j \in DOMAIN l /\ m[j] = l[j]
  BY DEF With
<1>2. D \subseteq Instances
  BY DEF Partly
<1>3. \A j \in DOMAIN l \ {i} : p.cells \cap l[j].cells = {}
  <2>1. DOMAIN Without(l, i) = DOMAIN l \ {i} /\ \A j \in DOMAIN l \ {i} : Without(l, i)[j] = l[j]
    BY DEF Without
  <2>. HIDE DEF Without
  <2>. QED  BY <2>1 DEF Fits, Occupied
<1>. HIDE DEF m
<1>4. ASSUME NEW j \in D PROVE m[j] \in OptionSet(j) /\ Fits(Without(m, j), m[j])
  <2>1. m[j] \in OptionSet(j)
    BY <1>1 DEF Partly
  <2>2. ASSUME NEW k \in D \ {j} PROVE m[j].cells \cap m[k].cells = {}
    <3>1. CASE j = i
      BY <1>1, <1>3, <2>2, <3>1
    <3>2. CASE k = i
      BY <1>1, <1>3, <2>2, <3>2
    <3>3. CASE j # i /\ k # i
      <4>1. j \in DOMAIN l /\ k \in DOMAIN l \ {j} /\ m[j] = l[j] /\ m[k] = l[k]
        BY <1>1, <2>2, <3>3
      <4>2. Fits(Without(l, j), l[j])
        BY <4>1 DEF Partly
      <4>. QED  BY <4>1, <4>2, CellsApart
    <3>. QED  BY <3>1, <3>2, <3>3
  <2>3. Fits(Without(m, j), m[j])
    BY <1>1, <2>2, CellsApart
  <2>. QED  BY <2>1, <2>3
<1>5. ASSUME NEW j \in D, NEW k \in D, j < k, SameItem(j, k) PROVE ~KeyLess(m[k], m[j])
  <2>1. CASE j = i
    <3>1. k \in DOMAIN l \ {i} /\ m[k] = l[k] /\ m[j] = p
      <4>1. k # i
        BY <1>2, <1>5, <2>1, InstancesAreNumbers
      <4>. QED  BY <1>1, <2>1, <4>1
    <3>2. SameItem(i, k) /\ k > i
      BY <1>2, <1>5, <2>1, InstancesAreNumbers
    <3>. QED  BY <3>1, <3>2 DEF RespectsCopyOrder
  <2>2. CASE k = i
    <3>1. j \in DOMAIN l \ {i} /\ m[j] = l[j] /\ m[k] = p
      <4>1. j # i
        BY <1>2, <1>5, <2>2, InstancesAreNumbers
      <4>. QED  BY <1>1, <2>2, <4>1
    <3>2. SameItem(i, j) /\ j < i
      BY <1>5, <2>2 DEF SameItem
    <3>. QED  BY <3>1, <3>2 DEF RespectsCopyOrder
  <2>3. CASE j # i /\ k # i
    BY <1>1, <1>5, <2>3 DEF Partly, Canonical
  <2>. QED  BY <2>1, <2>2, <2>3
<1>6. Canonical(m)
  BY <1>1, <1>5 DEF Canonical
<1>. QED  BY <1>1, <1>2, <1>4, <1>6 DEF Partly, m

\* What was placed legally stays so when part of it is taken out.
LEMMA FewerArePartly ==
    ASSUME NEW l, Partly(l), NEW S \in SUBSET DOMAIN l
    PROVE  Partly([i \in S |-> l[i]])
<1>. DEFINE m == [i \in S |-> l[i]]
<1>1. DOMAIN m = S /\ \A j \in S : m[j] = l[j]
  OBVIOUS
<1>. HIDE DEF m
<1>2. ASSUME NEW j \in S PROVE Fits(Without(m, j), m[j])
  <2>1. Fits(Without(l, j), l[j])
    BY DEF Partly
  <2>2. \A k \in DOMAIN l \ {j} : l[j].cells \cap l[k].cells = {}
    BY <2>1, CellsApart
  <2>. QED  BY <1>1, <2>2, CellsApart
<1>3. Canonical(m)
  BY <1>1 DEF Partly, Canonical
<1>4. \A j \in S : m[j] \in OptionSet(j)
  BY <1>1 DEF Partly
<1>5. S \subseteq Instances
  BY DEF Partly
<1>6. Partly(m)
  BY <1>1, <1>2, <1>3, <1>4, <1>5 DEF Partly
<1>. QED  BY <1>6 DEF m

\* What is taken out of a layout leaves one to put it back in.
LEMMA TakenOutIsPlaced ==
    ASSUME NEW config, NEW l, LegalLayout(config, l), NEW ids, NEW order, Range(order) = ids \cap Instances
    PROVE  Placed(config, order, [i \in DOMAIN l \ ids |-> l[i]], 0)
<1>. DEFINE S == DOMAIN l \ ids
            m == [i \in S |-> l[i]]
<1>1. Partly(l) /\ (config.allowSkips \/ DOMAIN l = Instances)
  BY LegalIsPartly
<1>2. Partly(m)
  <2>1. S \in SUBSET DOMAIN l
    OBVIOUS
  <2>. HIDE DEF S
  <2>. QED  BY <1>1, <2>1, FewerArePartly
<1>3. DOMAIN m = S
  OBVIOUS
<1>4. DOMAIN l = Instances => S = Decided(order, 0)
  BY DEF Decided
<1>. HIDE DEF m, S
<1>5. Placed(config, order, m, 0)
  BY <1>1, <1>2, <1>3, <1>4 DEF Placed
<1>. QED  BY <1>5 DEF m, S

\* A layout whose whole order was placed or skipped is legal.
LEMMA PlacedInFull ==
    ASSUME NEW config, NEW l, NEW order, IsSequence(order), Range(order) \subseteq Instances,
           Placed(config, order, l, Len(order))
    PROVE  LegalLayout(config, l)
<1>1. DOMAIN order = 1..Len(order)
  BY AreSequences
<1>2. Range(order) = {order[k] : k \in 1..Len(order)}
  BY <1>1 DEF Range
<1>3. Decided(order, Len(order)) = Instances
  BY <1>2 DEF Decided
<1>. QED  BY <1>3, LegalIsPartly DEF Placed

\* One step down the order keeps what the walk knows of its nodes.
LEMMA OneMorePlaced ==
    ASSUME NEW config, NEW order, IsSequence(order), Range(order) \subseteq Instances,
           NEW d \in 0..(Len(order) - 1), NEW l, Placed(config, order, l, d)
    PROVE  /\ \A p \in OptionSet(order[d + 1]) :
                  Fits(l, p) /\ RespectsCopyOrder(l, order[d + 1], p) =>
                      Placed(config, order, With(l, order[d + 1], p), d + 1)
           /\ config.allowSkips => Placed(config, order, l, d + 1)
<1>. DEFINE i == order[d + 1]
<1>1. i \in Instances
  <2>1. d + 1 \in DOMAIN order
    BY AreSequences DEF IsSequence
  <2>. QED  BY <2>1 DEF Range
<1>2. Decided(order, d + 1) = Decided(order, d) \cup {i}
  <2>1. 1..(d + 1) = (1..d) \cup {d + 1}
    BY AreSequences DEF IsSequence
  <2>. QED  BY <2>1 DEF Decided
<1>. HIDE DEF i
<1>3. ASSUME NEW p \in OptionSet(i), Fits(l, p), RespectsCopyOrder(l, i, p)
      PROVE  Placed(config, order, With(l, i, p), d + 1)
  <2>1. Fits(Without(l, i), p)
    <3>1. DOMAIN Without(l, i) \subseteq DOMAIN l /\ \A j \in DOMAIN Without(l, i) : Without(l, i)[j] = l[j]
      BY DEF Without
    <3>. HIDE DEF Without
    <3>. QED  BY <1>3, <3>1 DEF Fits, Occupied
  <2>2. Partly(With(l, i, p)) /\ DOMAIN With(l, i, p) = DOMAIN l \cup {i}
    BY <1>1, <1>3, <2>1, WithKeepsPartly DEF Placed
  <2>. QED  BY <1>2, <2>2 DEF Placed
<1>4. config.allowSkips => Placed(config, order, l, d + 1)
  BY DEF Placed
<1>. QED  BY <1>3, <1>4 DEF i

-----------------------------------------------------------------------------
(* The tasks of a neighbourhood.                                            *)

\* The steps of joining lists, and what is in any of them.
Flattens(f, seqs) == f = [k \in 1..Len(seqs) |-> IF k = 1 THEN seqs[k] ELSE f[k - 1] \o seqs[k]]
PartsOf(seqs) == UNION {Range(seqs[n]) : n \in DOMAIN seqs}

\* Sequences are joined one after another.
LEMMA FlattensExists ==
    ASSUME NEW seqs, IsSequence(seqs), Len(seqs) # 0, \A n \in DOMAIN seqs : IsSequence(seqs[n])
    PROVE  \E f : Flattens(f, seqs)
<1>. DEFINE R == PartsOf(seqs)
            m == Len(seqs) - 1
            g == [p \in Seq(R) \X (1..m) |-> p[1] \o seqs[p[2] + 1]]
<1>1. m \in Nat /\ DOMAIN seqs = 1..Len(seqs) /\ Len(seqs) = m + 1
  BY AreSequences DEF IsSequence
<1>2. ASSUME NEW n \in DOMAIN seqs PROVE seqs[n] \in Seq(R)
  <2>1. seqs[n] \in Seq(Range(seqs[n])) /\ Range(seqs[n]) \subseteq R
    BY AreSequences DEF PartsOf
  <2>. HIDE DEF R
  <2>. QED  BY <2>1
<1>3. g \in [Seq(R) \X (1..m) -> Seq(R)]
  <2>1. ASSUME NEW p \in Seq(R) \X (1..m) PROVE p[1] \o seqs[p[2] + 1] \in Seq(R)
    <3>1. p[1] \in Seq(R) /\ p[2] \in 1..m
      OBVIOUS
    <3>2. p[2] + 1 \in 1..Len(seqs)
      <4>. HIDE DEF m
      <4>. QED  BY <3>1, <1>1
    <3>3. seqs[p[2] + 1] \in Seq(R)
      BY <3>2, <1>1, <1>2
    <3>. HIDE DEF R, m
    <3>. QED  BY <3>1, <3>3
  <2>. HIDE DEF R, m
  <2>. QED  BY <2>1
<1>4. seqs[1] \in Seq(R)
  <2>1. 1 \in DOMAIN seqs
    <3>. HIDE DEF m
    <3>. QED  BY <1>1
  <2>. QED  BY <2>1, <1>2
<1>5. PICK h : Recursion(h, m, Seq(R), seqs[1], g)
  <2>. HIDE DEF m, R, g
  <2>. QED  BY <1>1, <1>3, <1>4, RecursionDefined
<1>. DEFINE f == [k \in 1..Len(seqs) |-> h[k - 1]]
<1>6. ASSUME NEW k \in 1..Len(seqs)
      PROVE  f[k] = IF k = 1 THEN seqs[k] ELSE f[k - 1] \o seqs[k]
  <2>1. CASE k = 1
    BY <2>1, <1>5 DEF Recursion
  <2>2. CASE k # 1
    <3>1. k - 1 \in 1..m /\ (k - 1) - 1 \in 0..m /\ k - 1 \in 1..Len(seqs)
      <4>. HIDE DEF m
      <4>. QED  BY <2>2, <1>1
    <3>2. h[k - 1] = g[<<h[(k - 1) - 1], k - 1>>] /\ h[(k - 1) - 1] \in Seq(R)
      <4>. HIDE DEF m, R, g
      <4>. QED  BY <3>1, <1>5 DEF Recursion
    <3>3. f[k] = h[k - 1] /\ f[k - 1] = h[(k - 1) - 1] /\ (k - 1) + 1 = k
      BY <3>1
    <3>4. g[<<h[(k - 1) - 1], k - 1>>] = h[(k - 1) - 1] \o seqs[(k - 1) + 1]
      <4>1. <<h[(k - 1) - 1], k - 1>> \in Seq(R) \X (1..m)
        <5>. HIDE DEF m, R
        <5>. QED  BY <3>1, <3>2
      <4>. HIDE DEF m, R
      <4>. QED  BY <4>1
    <3>. HIDE DEF f, g, m
    <3>. QED  BY <3>2, <3>3, <3>4, <2>2
  <2>. QED  BY <2>1, <2>2
<1>7. Flattens(f, seqs)
  <2>1. f = [k \in 1..Len(seqs) |-> f[k]]
    OBVIOUS
  <2>. HIDE DEF f
  <2>. QED  BY <2>1, <1>6 DEF Flattens
<1>. QED  BY <1>7

\* Joined they are a sequence of the elements of all.
LEMMA FlattenIsSequence ==
    ASSUME NEW seqs, IsSequence(seqs), \A n \in DOMAIN seqs : IsSequence(seqs[n])
    PROVE  FlattenSeq(seqs) \in Seq(PartsOf(seqs))
<1>. DEFINE f == CHOOSE h : Flattens(h, seqs)
            R == PartsOf(seqs)
<1>0. Len(seqs) \in Nat /\ DOMAIN seqs = 1..Len(seqs)
  BY AreSequences DEF IsSequence
<1>1. FlattenSeq(seqs) = IF Len(seqs) = 0 THEN seqs ELSE f[Len(seqs)]
  BY Zenon DEF FlattenSeq, Flattens
<1>2. CASE Len(seqs) = 0
  <2>1. seqs = [n \in 1..0 |-> seqs[n]]
    BY <1>2 DEF IsSequence
  <2>2. seqs \in Seq(R)
    <3>. HIDE DEF R
    <3>. QED  BY <2>1
  <2>. QED  BY <2>2, <1>1, <1>2
<1>3. CASE Len(seqs) # 0
  <2>1. Flattens(f, seqs)
    BY <1>3, FlattensExists
  <2>. HIDE DEF f
  <2>2. ASSUME NEW n \in DOMAIN seqs PROVE seqs[n] \in Seq(R)
    <3>1. seqs[n] \in Seq(Range(seqs[n])) /\ Range(seqs[n]) \subseteq R
      BY AreSequences DEF PartsOf
    <3>. HIDE DEF R
    <3>. QED  BY <3>1
  <2>. DEFINE m == Len(seqs) - 1
              T == {k \in 0..m : f[k + 1] \in Seq(R)}
  <2>3. m \in Nat /\ Len(seqs) = m + 1
    BY <1>0, <1>3
  <2>4. 0 \in T
    <3>1. f[1] = seqs[1] /\ 1 \in DOMAIN seqs
      BY <2>1, <1>0, <1>3 DEF Flattens
    <3>2. f[0 + 1] \in Seq(R) /\ 0 \in 0..m
      <4>. HIDE DEF m, R
      <4>. QED  BY <3>1, <2>2, <2>3
    <3>. HIDE DEF m, R
    <3>. QED  BY <3>2
  <2>5. ASSUME NEW k \in 0..(m - 1), k \in T PROVE k + 1 \in T
    <3>1. k + 1 \in 0..m /\ (k + 1) + 1 \in 1..Len(seqs) /\ (k + 1) + 1 # 1 /\ ((k + 1) + 1) - 1 = k + 1
      <4>. HIDE DEF m, T
      <4>. QED  BY <2>3
    <3>2. f[(k + 1) + 1] = f[k + 1] \o seqs[(k + 1) + 1]
      <4>. HIDE DEF T, m
      <4>. QED  BY <3>1, <2>1 DEF Flattens
    <3>3. f[k + 1] \in Seq(R)
      BY <2>5
    <3>4. seqs[(k + 1) + 1] \in Seq(R)
      BY <3>1, <1>0, <2>2
    <3>5. f[(k + 1) + 1] \in Seq(R)
      <4>. HIDE DEF R, m, T
      <4>. QED  BY <3>2, <3>3, <3>4
    <3>. HIDE DEF R, m
    <3>. QED  BY <3>1, <3>5
  <2>6. 0..m \subseteq T
    <3>. HIDE DEF T, m
    <3>. QED  BY <2>3, <2>4, <2>5, InductionUpTo
  <2>7. m \in T
    <3>. HIDE DEF T, m
    <3>. QED  BY <2>3, <2>6
  <2>8. f[m + 1] \in Seq(R)
    BY <2>7
  <2>9. FlattenSeq(seqs) = f[m + 1]
    <3>. HIDE DEF m
    <3>. QED  BY <2>3, <1>1, <1>3
  <2>. QED  BY <2>8, <2>9
<1>. QED  BY <1>2, <1>3
-----------------------------------------------------------------------------
\* The walk of a neighbourhood.
NodeAt(config, order, placed, node, d) ==
    node.depth = d /\ (placed => Placed(config, order, node.layout, d))

\* A list of nodes of one depth.
AllAt(config, order, placed, s, d) ==
    IsSequence(s) /\ \A n \in DOMAIN s : NodeAt(config, order, placed, s[n], d)

\* A plan whose order and placements are lists of instances and their placements.
Prepares(plan) ==
    /\ IsSequence(plan.order) /\ Range(plan.order) \subseteq Instances
    /\ \A i \in Instances : IsSequence(plan.options[i]) /\ Range(plan.options[i]) \subseteq OptionSet(i)

\* What the library calls a sequence is one here.
LEMMA SeqIsSequence ==
    ASSUME NEW R, NEW s \in Seq(R)
    PROVE  IsSequence(s) /\ Range(s) \subseteq R
<1>1. Len(s) \in Nat /\ s = [n \in 1..Len(s) |-> s[n]] /\ \A n \in DOMAIN s : s[n] \in R
  OBVIOUS
<1>. QED  BY <1>1 DEF IsSequence, Range

\* Two sequences make one.
LEMMA JoinedSequences ==
    ASSUME NEW s, IsSequence(s), NEW t, IsSequence(t)
    PROVE  s \o t \in Seq(Range(s) \cup Range(t))
<1>1. s \in Seq(Range(s)) /\ t \in Seq(Range(t))
  BY AreSequences
<1>2. s \in Seq(Range(s) \cup Range(t)) /\ t \in Seq(Range(s) \cup Range(t))
  BY <1>1
<1>. QED  BY <1>2

\* Part of a sequence, in its order, is one.
LEMMA WhereIsSequence ==
    ASSUME NEW s, IsSequence(s), NEW P \in SUBSET DOMAIN s
    PROVE  IsSequence(TakePlaces(s, Upwards(P)))
<1>1. IsFiniteSet(P)
  BY AreSequences, FS_Subset
<1>. QED  BY <1>1, PlacesTaken

\* The children of a node are a sequence of nodes one level deeper.
LEMMA ChildrenAt ==
    ASSUME NEW config, NEW plan, Prepares(plan), NEW node,
           NEW placed, NEW d \in 0..(Len(plan.order) - 1), NodeAt(config, plan.order, placed, node, d)
    PROVE  AllAt(config, plan.order, placed, Children(config, plan, node), d + 1)
<1>. DEFINE i == plan.order[node.depth + 1]
            P == {n \in DOMAIN plan.options[i] :
                     /\ Fits(node.layout, plan.options[i][n])
                     /\ RespectsCopyOrder(node.layout, i, plan.options[i][n])}
            fitting == TakePlaces(plan.options[i], Upwards(P))
            place(p) == [depth |-> node.depth + 1, layout |-> With(node.layout, i, p),
                         covers |-> Table([n \in DOMAIN node.covers |->
                             CoverPlacement(plan.contexts[n], node.covers[n], node.layout, i, p)])]
            skip == [depth |-> node.depth + 1, layout |-> node.layout,
                     covers |-> Table([n \in DOMAIN node.covers |->
                         CoverSkip(plan.contexts[n], node.covers[n], i)])]
            deeper == [n \in DOMAIN fitting |-> place(fitting[n])]
            skipped == IF config.allowSkips THEN <<skip>> ELSE <<>>
<1>1. Children(config, plan, node) = deeper \o skipped
  BY Zenon DEF Children, Where
<1>0. node.depth = d /\ i = plan.order[d + 1]
  BY DEF NodeAt
<1>2. i \in Instances
  <2>1. IsSequence(plan.order) /\ Range(plan.order) \subseteq Instances
    BY DEF Prepares
  <2>2. d + 1 \in DOMAIN plan.order
    BY <2>1, AreSequences DEF IsSequence
  <2>3. plan.order[d + 1] \in Range(plan.order)
    BY <2>2 DEF Range
  <2>. QED  BY <1>0, <2>1, <2>3
<1>3. /\ IsSequence(fitting)
      /\ \A p \in Range(fitting) :
             p \in OptionSet(i) /\ Fits(node.layout, p) /\ RespectsCopyOrder(node.layout, i, p)
  <2>1. IsSequence(plan.options[i]) /\ Range(plan.options[i]) \subseteq OptionSet(i)
    BY <1>2 DEF Prepares
  <2>2. P \in SUBSET DOMAIN plan.options[i]
    OBVIOUS
  <2>3. \A n \in P : /\ plan.options[i][n] \in OptionSet(i) /\ Fits(node.layout, plan.options[i][n])
                     /\ RespectsCopyOrder(node.layout, i, plan.options[i][n])
    BY <2>1, AreSequences
  <2>. HIDE DEF P, i
  <2>4. IsSequence(fitting) /\ Range(fitting) \subseteq {plan.options[i][n] : n \in P}
    BY <2>1, <2>2, TakenAre
  <2>. QED  BY <2>3, <2>4
<1>31. /\ \A p \in Range(fitting) : placed => Placed(config, plan.order, With(node.layout, i, p), d + 1)
       /\ config.allowSkips /\ placed => Placed(config, plan.order, node.layout, d + 1)
  <2>1. IsSequence(plan.order) /\ Range(plan.order) \subseteq Instances
    BY DEF Prepares
  <2>2. placed => Placed(config, plan.order, node.layout, d)
    BY DEF NodeAt
  <2>. HIDE DEF fitting, i
  <2>. QED  BY <1>0, <1>3, <2>1, <2>2, OneMorePlaced
<1>. HIDE DEF fitting
<1>4. Len(fitting) \in Nat /\ DOMAIN fitting = 1..Len(fitting) /\ \A n \in DOMAIN fitting : fitting[n] \in Range(fitting)
  BY <1>3, AreSequences DEF IsSequence
<1>5. \A p : place(p).depth = d + 1 /\ place(p).layout = With(node.layout, i, p)
  <2>. HIDE DEF i
  <2>. QED  BY <1>0
<1>6. skip.depth = d + 1 /\ skip.layout = node.layout
  <2>. HIDE DEF i
  <2>. QED  BY <1>0
<1>. HIDE DEF place, skip, i
<1>61. \A p \in Range(fitting) : NodeAt(config, plan.order, placed, place(p), d + 1)
  <2>1. ASSUME NEW p \in Range(fitting) PROVE NodeAt(config, plan.order, placed, place(p), d + 1)
    <3>1. place(p).depth = d + 1 /\ place(p).layout = With(node.layout, i, p)
      BY <1>5
    <3>2. placed => Placed(config, plan.order, With(node.layout, i, p), d + 1)
      BY <1>31
    <3>. QED  BY <3>1, <3>2 DEF NodeAt
  <2>. QED  BY <2>1
<1>62. config.allowSkips => NodeAt(config, plan.order, placed, skip, d + 1)
  <2>1. config.allowSkips /\ placed => Placed(config, plan.order, skip.layout, d + 1)
    BY <1>31, <1>6
  <2>. QED  BY <1>6, <2>1 DEF NodeAt
<1>7. /\ deeper = [n \in 1..Len(fitting) |-> deeper[n]]
      /\ \A n \in DOMAIN deeper : NodeAt(config, plan.order, placed, deeper[n], d + 1)
  BY <1>4, <1>61
<1>8. IsSequence(deeper) /\ \A x \in Range(deeper) : NodeAt(config, plan.order, placed, x, d + 1)
  <2>. HIDE DEF deeper
  <2>. QED  BY <1>4, <1>7, SequencesAre DEF Range
<1>9. IsSequence(skipped) /\ \A x \in Range(skipped) : NodeAt(config, plan.order, placed, x, d + 1)
  <2>1. CASE config.allowSkips
    <3>1. <<skip>> \in Seq({skip})
      OBVIOUS
    <3>2. IsSequence(<<skip>>) /\ Range(<<skip>>) \subseteq {skip}
      BY <3>1, SeqIsSequence
    <3>. QED  BY <1>62, <2>1, <3>2
  <2>2. CASE ~config.allowSkips
    <3>1. <<>> \in Seq({})
      OBVIOUS
    <3>2. IsSequence(<<>>)
      BY <3>1, SeqIsSequence
    <3>3. skipped = <<>> /\ DOMAIN <<>> = {}
      BY <2>2
    <3>. QED  BY <3>2, <3>3 DEF Range
  <2>. QED  BY <2>1, <2>2
<1>. HIDE DEF deeper, skipped
<1>10. deeper \o skipped \in Seq(Range(deeper) \cup Range(skipped))
  BY <1>8, <1>9, JoinedSequences
<1>11. IsSequence(deeper \o skipped) /\ Range(deeper \o skipped) \subseteq Range(deeper) \cup Range(skipped)
  BY <1>10, SeqIsSequence
<1>12. \A n \in DOMAIN (deeper \o skipped) : (deeper \o skipped)[n] \in Range(deeper \o skipped)
  BY <1>11, AreSequences
<1>. QED  BY <1>1, <1>8, <1>9, <1>11, <1>12 DEF AllAt

\* So are the children of a sequence of nodes.
LEMMA ChildrenOfAllAt ==
    ASSUME NEW config, NEW plan, Prepares(plan),
           NEW d \in 0..(Len(plan.order) - 1), NEW placed, NEW s, AllAt(config, plan.order, placed, s, d)
    PROVE  AllAt(config, plan.order, placed, ChildrenOfAll(config, plan, s), d + 1)
<1>. DEFINE ps == [n \in DOMAIN s |-> Children(config, plan, s[n])]
<1>1. IsSequence(s) /\ Len(s) \in Nat /\ DOMAIN s = 1..Len(s)
  BY AreSequences DEF AllAt, IsSequence
<1>2. \A n \in DOMAIN s : AllAt(config, plan.order, placed, Children(config, plan, s[n]), d + 1)
  BY ChildrenAt DEF AllAt
<1>3. /\ IsSequence(ps) /\ DOMAIN ps = DOMAIN s
      /\ \A n \in DOMAIN ps : AllAt(config, plan.order, placed, ps[n], d + 1)
  <2>1. ps = [n \in 1..Len(s) |-> ps[n]]
    BY <1>1
  <2>2. DOMAIN ps = DOMAIN s /\ \A n \in DOMAIN ps : AllAt(config, plan.order, placed, ps[n], d + 1)
    BY <1>2
  <2>. HIDE DEF ps
  <2>. QED  BY <2>1, <2>2, <1>1, SequencesAre
<1>4. ChildrenOfAll(config, plan, s) = FlattenSeq(ps)
  BY DEF ChildrenOfAll
<1>. HIDE DEF ps
<1>5. FlattenSeq(ps) \in Seq(PartsOf(ps))
  BY <1>3, FlattenIsSequence DEF AllAt
<1>6. \A x \in PartsOf(ps) : NodeAt(config, plan.order, placed, x, d + 1)
  BY <1>3 DEF PartsOf, Range, AllAt
<1>7. IsSequence(FlattenSeq(ps)) /\ Range(FlattenSeq(ps)) \subseteq PartsOf(ps)
  BY <1>5, SeqIsSequence
<1>8. \A n \in DOMAIN FlattenSeq(ps) : FlattenSeq(ps)[n] \in Range(FlattenSeq(ps))
  BY <1>7, AreSequences
<1>. QED  BY <1>4, <1>6, <1>7, <1>8 DEF AllAt

\* The nodes of every level down to one.
LevelsBelow(f, config, plan, node, n) ==
    f = [d \in 0..n |-> IF d = 0 THEN <<node>> ELSE ChildrenOfAll(config, plan, f[d - 1])]

\* The nodes of every level down to the split follow from those above.
LEMMA LevelsBelowExist ==
    ASSUME NEW config, NEW plan, NEW node, NEW n \in Nat
    PROVE  \E f : LevelsBelow(f, config, plan, node, n)
<1>. DEFINE T == {m \in 0..n : \E f : LevelsBelow(f, config, plan, node, m)}
<1>1. 0 \in T
  <2>1. LevelsBelow([d \in 0..0 |-> <<node>>], config, plan, node, 0)
    BY DEF LevelsBelow
  <2>2. \E f : LevelsBelow(f, config, plan, node, 0)
    BY <2>1
  <2>. QED  BY <2>2
<1>2. ASSUME NEW m \in 0..(n - 1), m \in T
      PROVE  m + 1 \in T
  <2>1. PICK f : LevelsBelow(f, config, plan, node, m)
    BY <1>2
  <2>. DEFINE h == [d \in 0..(m + 1) |-> IF d = m + 1 THEN ChildrenOfAll(config, plan, f[m]) ELSE f[d]]
  <2>2. ASSUME NEW d \in 0..m
        PROVE  f[d] = IF d = 0 THEN <<node>> ELSE ChildrenOfAll(config, plan, f[d - 1])
    BY <2>1 DEF LevelsBelow
  <2>4. ASSUME NEW d \in 0..(m + 1)
        PROVE  h[d] = IF d = 0 THEN <<node>> ELSE ChildrenOfAll(config, plan, h[d - 1])
    <3>1. CASE d = m + 1
      <4>1. d # 0 /\ d - 1 = m /\ h[m] = f[m] /\ h[d] = ChildrenOfAll(config, plan, f[m])
        BY <3>1
      <4>. HIDE DEF h
      <4>. QED  BY <4>1
    <3>2. CASE d # m + 1
      <4>1. d \in 0..m /\ h[d] = f[d] /\ (d # 0 => h[d - 1] = f[d - 1])
        BY <3>2
      <4>. HIDE DEF h
      <4>. QED  BY <4>1, <2>2
    <3>. QED  BY <3>1, <3>2
  <2>5. h = [d \in 0..(m + 1) |-> h[d]]
    OBVIOUS
  <2>. HIDE DEF h
  <2>6. LevelsBelow(h, config, plan, node, m + 1)
    BY <2>4, <2>5 DEF LevelsBelow
  <2>7. \E e : LevelsBelow(e, config, plan, node, m + 1)
    BY <2>6
  <2>. QED  BY <2>7
<1>3. n \in T
  <2>. HIDE DEF T
  <2>1. 0..n \subseteq T
    BY <1>1, <1>2, InductionUpTo
  <2>. QED  BY <2>1
<1>. QED  BY <1>3

\* The smaller of two numbers.
LEMMA LeastOfTwo ==
    ASSUME NEW a \in Int, NEW b \in Int
    PROVE  /\ Min({a, b}) \in {a, b} /\ Min({a, b}) <= a /\ Min({a, b}) <= b
<1>1. \E x \in {a, b} : \A y \in {a, b} : x <= y
  <2>1. CASE a <= b
    BY <2>1
  <2>2. CASE b <= a
    BY <2>2
  <2>. QED  BY <2>1, <2>2
<1>. QED  BY <1>1 DEF Min

\* Splitting a node at any depth gives a sequence of tasks.
LEMMA ExpandedAt ==
    ASSUME NEW config, NEW plan, Prepares(plan), NEW node, node.depth = 0, NEW depth \in Nat
    PROVE  \E n \in 0..Len(plan.order) :
               AllAt(config, plan.order, Placed(config, plan.order, node.layout, 0),
                     Expanded(config, plan, node, depth), n)
<1>. DEFINE placed == Placed(config, plan.order, node.layout, 0)
            n == Min({depth, Len(plan.order)})
            f == CHOOSE g : LevelsBelow(g, config, plan, node, n)
            T == {d \in 0..n : AllAt(config, plan.order, placed, f[d], d)}
<1>0. Len(plan.order) \in Nat
  BY DEF Prepares, IsSequence
<1>1. n \in Nat /\ n <= Len(plan.order)
  <2>0. depth \in Int /\ Len(plan.order) \in Int
    BY <1>0
  <2>1. n \in {depth, Len(plan.order)} /\ n <= Len(plan.order)
    BY <2>0, LeastOfTwo
  <2>. HIDE DEF n
  <2>. QED  BY <2>1, <1>0
<1>2. Expanded(config, plan, node, depth) = f[n]
  BY Zenon DEF Expanded, LevelsBelow
<1>. HIDE DEF n
<1>3. LevelsBelow(f, config, plan, node, n)
  BY <1>1, LevelsBelowExist
<1>. HIDE DEF f
<1>4. ASSUME NEW d \in 0..n
      PROVE  f[d] = IF d = 0 THEN <<node>> ELSE ChildrenOfAll(config, plan, f[d - 1])
  BY <1>3 DEF LevelsBelow
<1>5. 0 \in T
  <2>1. f[0] = <<node>> /\ 0 \in 0..n
    BY <1>1, <1>4
  <2>2. <<node>> \in Seq({node}) /\ DOMAIN <<node>> = 1..1 /\ <<node>>[1] = node
    OBVIOUS
  <2>3. \A k \in DOMAIN <<node>> : NodeAt(config, plan.order, placed, <<node>>[k], 0)
    BY <2>2 DEF NodeAt
  <2>4. IsSequence(<<node>>)
    BY <2>2, SeqIsSequence
  <2>5. AllAt(config, plan.order, placed, <<node>>, 0)
    BY <2>3, <2>4 DEF AllAt
  <2>. QED  BY <2>1, <2>5
<1>6. ASSUME NEW d \in 0..(n - 1), d \in T PROVE d + 1 \in T
  <2>1. d + 1 \in 0..n /\ d + 1 # 0 /\ (d + 1) - 1 = d /\ d \in 0..(Len(plan.order) - 1)
    BY <1>0, <1>1
  <2>2. f[d + 1] = ChildrenOfAll(config, plan, f[d])
    BY <2>1, <1>4
  <2>3. AllAt(config, plan.order, placed, f[d], d)
    BY <1>6
  <2>4. AllAt(config, plan.order, placed, f[d + 1], d + 1)
    BY <2>1, <2>2, <2>3, ChildrenOfAllAt
  <2>. QED  BY <2>1, <2>4
<1>7. 0..n \subseteq T
  <2>. HIDE DEF T
  <2>. QED  BY <1>1, <1>5, <1>6, InductionUpTo
<1>8. n \in T
  <2>. HIDE DEF T
  <2>. QED  BY <1>1, <1>7
<1>9. AllAt(config, plan.order, placed, f[n], n)
  BY <1>8
<1>. QED  BY <1>0, <1>1, <1>2, <1>9

-----------------------------------------------------------------------------
(* The plan of a neighbourhood.                                             *)

\* A target has finitely many sources that could reach it.
FinitelyReached(ctx) == \A i \in ctx.targets : IsFiniteSet(ctx.possible[i])

\* The instances are finitely many, numbered from 1.
LEMMA InventoryIsFinite ==
    /\ IsFiniteSet(Instances) /\ IsFiniteSet(Range(Inventory)) /\ IsSequence(Inventory)
    /\ Instances = 1..Len(Inventory) /\ Instances \subseteq Nat
    /\ \A i \in Instances : Inventory[i] \in ItemIDs
<1>1. Inventory \in Seq(ItemIDs)
  BY CatalogAssumption DEF CatalogAssumption
<1>2. IsSequence(Inventory)
  BY <1>1, SeqIsSequence
<1>3. Instances = 1..Len(Inventory) /\ Len(Inventory) \in Nat
  BY <1>2, AreSequences DEF Instances, IsSequence
<1>4. \A i \in Instances : Inventory[i] \in ItemIDs
  BY <1>1 DEF Instances
<1>5. IsFiniteSet(Instances) /\ IsFiniteSet(Range(Inventory))
  BY <1>2, AreSequences DEF Instances
<1>6. Instances \subseteq Nat
  BY <1>3
<1>. QED  BY <1>2, <1>3, <1>4, <1>5, <1>6

\* The coverage context of a configuration counts finitely many sources.
LEMMA ContextsAreFinite ==
    ASSUME NEW config
    PROVE  FinitelyReached(ContextForConfig(config))
<1>1. ASSUME NEW wanted, NEW filter, NEW start, NEW from
      PROVE  FinitelyReached(ContextOver(wanted, filter, start, PossibleSources(from)))
  <2>. DEFINE possible == PossibleSources(from)
              targets == {t \in Instances : IF filter = {} THEN possible[t] # {} ELSE Inventory[t] \in filter}
  <2>1. \A t \in Instances : IsFiniteSet(possible[t])
    <3>1. possible = [t \in Instances |->
              {s \in Range(from) \cap Range(Inventory) : MatchingStars[s][Inventory[t]] # {}}]
      BY Zenon, TableIs DEF PossibleSources
    <3>2. ASSUME NEW t \in Instances PROVE IsFiniteSet(possible[t])
      <4>1. possible[t] \in SUBSET Range(Inventory)
        BY <3>1
      <4>. HIDE DEF possible
      <4>. QED  BY <4>1, InventoryIsFinite, FS_Subset
    <3>. QED  BY <3>2
  <2>. HIDE DEF possible
  <2>2. CASE wanted = <<>>
    <3>1. ContextOver(wanted, filter, start, possible) = NoContext
      BY <2>2 DEF ContextOver
    <3>2. NoContext.targets = {}
      BY DEF NoContext
    <3>. QED  BY <3>1, <3>2 DEF FinitelyReached, possible
  <2>3. CASE wanted # <<>>
    <3>1. ContextOver(wanted, filter, start, possible)
            = [sources |-> wanted, targets |-> targets,
               possible |-> Table([t \in targets |-> possible[t]]), start |-> start]
      BY <2>3 DEF ContextOver
    <3>2. Table([t \in targets |-> possible[t]]) = [t \in targets |-> possible[t]]
      BY Zenon, TableIs
    <3>3. targets \subseteq Instances
      OBVIOUS
    <3>. HIDE DEF targets
    <3>4. FinitelyReached(ContextOver(wanted, filter, start, possible))
      BY <2>1, <3>1, <3>2, <3>3 DEF FinitelyReached
    <3>. QED  BY <3>4 DEF possible
  <2>. QED  BY <2>2, <2>3
<1>2. ASSUME NEW group, NEW start PROVE FinitelyReached(CoverageContext(group, start))
  BY <1>1 DEF CoverageContext
<1>. QED  BY <1>2 DEF ContextForConfig

\* The priority by which repair orders instances is a number.
LEMMA InstancePriorityIsInteger ==
    ASSUME NEW config, NEW ctx, FinitelyReached(ctx), NEW i \in Instances, NEW worth \in Int
    PROVE  InstancePriority(config, ctx, i, worth) \in Int
<1>. DEFINE id == Inventory[i]
            asked(kind, value) ==
                \E n \in DOMAIN config.priorities :
                    config.priorities[n].kind = kind /\ config.priorities[n].value = value
            gain(r) ==
                (IF r.anchor = id THEN 8 + (IF asked("craft", r.result) THEN 32 ELSE 0) ELSE 0)
                + (IF id \in Range(r.ingredients) THEN 2 + (IF asked("craft", r.result) THEN 16 ELSE 0) ELSE 0)
            D == {m \in DOMAIN Recipes : PossibleWithInventory(Recipes[m])}
            f == [n \in D |-> gain(Recipes[n])]
            a == Cardinality(Items[id].shape)
            b == IF i \in ctx.targets THEN 256 + 16 * Cardinality(ctx.possible[i]) ELSE 0
            c == IF Reaching(ctx, i) # {} THEN 128 ELSE 0
            e == IF asked("star_source", id) THEN 32 ELSE 0
<1>1. InstancePriority(config, ctx, i, worth) = a + 6 * worth + b + c + e + Total(f)
  BY DEF InstancePriority
<1>2. a \in Int
  <2>1. IsFiniteSet(Items[id].shape)
    BY CatalogAssumption, InventoryIsFinite DEF CatalogAssumption
  <2>. QED  BY <2>1, FS_CardinalityType
<1>3. b \in Int
  <2>1. CASE i \in ctx.targets
    <3>1. Cardinality(ctx.possible[i]) \in Nat
      BY <2>1, FS_CardinalityType DEF FinitelyReached
    <3>. QED  BY <2>1, <3>1
  <2>2. CASE i \notin ctx.targets
    BY <2>2
  <2>. QED  BY <2>1, <2>2
<1>4. c \in Int /\ e \in Int
  <2>. HIDE DEF asked
  <2>. QED  OBVIOUS
<1>5. Total(f) \in Int
  <2>1. IsFiniteSet(D)
    <3>1. IsSequence(Recipes)
      BY SeqIsSequence, CatalogAssumption DEF CatalogAssumption
    <3>2. IsFiniteSet(DOMAIN Recipes) /\ D \in SUBSET DOMAIN Recipes
      BY <3>1, AreSequences
    <3>. HIDE DEF D
    <3>. QED  BY <3>2, FS_Subset
  <2>2. \A r : gain(r) \in Int
    <3>. HIDE DEF asked, id
    <3>. QED  OBVIOUS
  <2>3. Summable(f)
    <3>. HIDE DEF gain, D
    <3>. QED  BY <2>1, <2>2 DEF Summable
  <2>. HIDE DEF f
  <2>. QED  BY <2>3, TotalRest
<1>. HIDE DEF a, b, c, e, f
<1>. QED  BY <1>1, <1>2, <1>3, <1>4, <1>5

\* The state the searches of the neighbourhoods work from.
PreparedIs == which \in DOMAIN Configs /\ prepared = PlanOf(Cfg)

\* What solveLayoutStage prepared is such a context.
LEMMA PreparedCoverage ==
    ASSUME PreparedIs
    PROVE  FinitelyReached(prepared.coverage)
BY ContextsAreFinite DEF PreparedIs, PlanOf, PlanWith

\* The stars of an instance are counted.
LEMMA StarCountIsNatural ==
    ASSUME NEW i \in Instances
    PROVE  StarCount(i) \in Nat
<1>1. Items[Inventory[i]].stars \in Seq(Range(Items[Inventory[i]].stars))
  BY InventoryIsFinite, CatalogAssumption DEF CatalogAssumption
<1>. QED  BY <1>1 DEF StarCount

\* Sorting by three numbers that tell the elements apart keeps them all.
LEMMA SortedByThree ==
    ASSUME NEW S, IsFiniteSet(S), NEW rank \in [S -> [1..3 -> Int]],
           \A x, y \in S : rank[x] = rank[y] => x = y
    PROVE  /\ ByRank({<<rank[x], x>> : x \in S}) \in Seq(S)
           /\ Range(ByRank({<<rank[x], x>> : x \in S})) = S
<1>. DEFINE K == 3
<1>1. K \in Nat /\ rank \in [S -> [1..K -> Int]]
  OBVIOUS
<1>. HIDE DEF K
<1>. QED  BY <1>1, SortedElements

\* The instances taken out are put back in an order of them.
LEMMA RepairOrderIsSequence ==
    ASSUME PreparedIs, NEW ids
    PROVE  IsSequence(RepairOrder(ids)) /\ Range(RepairOrder(ids)) = ids \cap Instances
<1>. DEFINE S == ids \cap Instances
            rank(i) == <<-InstancePriority(Cfg, prepared.coverage, i, StarCount(i)),
                         Len(OptionsForInstance(i)), i>>
            f == [i \in S |-> rank(i)]
<1>1. RepairOrder(ids) = ByRank({<<rank(i), i>> : i \in S})
  BY Zenon DEF RepairOrder, SortedBy
<1>2. IsFiniteSet(S)
  BY InventoryIsFinite, FS_Subset
<1>3. ASSUME NEW i \in S
      PROVE  rank(i) \in [1..3 -> Int] /\ rank(i)[3] = i
  <2>1. InstancePriority(Cfg, prepared.coverage, i, StarCount(i)) \in Int
    BY StarCountIsNatural, PreparedCoverage, InstancePriorityIsInteger
  <2>2. Len(OptionsForInstance(i)) \in Int /\ i \in Int
    BY OptionsAreFinite, InventoryIsFinite
  <2>3. -InstancePriority(Cfg, prepared.coverage, i, StarCount(i)) \in Int
    BY <2>1
  <2>4. \A x, y, z \in Int : <<x, y, z>> \in [1..3 -> Int] /\ <<x, y, z>>[3] = z
    OBVIOUS
  <2>. QED  BY Zenon, <2>2, <2>3, <2>4
<1>4. {<<rank(i), i>> : i \in S} = {<<f[i], i>> : i \in S}
  <2>. HIDE DEF rank
  <2>. QED  OBVIOUS
<1>. HIDE DEF rank
<1>5. f \in [S -> [1..3 -> Int]] /\ \A x, y \in S : f[x] = f[y] => x = y
  <2>1. \A x \in S : f[x][3] = x
    BY <1>3
  <2>2. f \in [S -> [1..3 -> Int]]
    BY <1>3
  <2>. HIDE DEF f
  <2>. QED  BY <2>1, <2>2
<1>. HIDE DEF f, S
<1>6. ByRank({<<f[x], x>> : x \in S}) \in Seq(S) /\ Range(ByRank({<<f[x], x>> : x \in S})) = S
  BY <1>2, <1>5, SortedByThree
<1>8. RepairOrder(ids) \in Seq(S) /\ Range(RepairOrder(ids)) = S
  BY <1>1, <1>4, <1>6
<1>9. IsSequence(RepairOrder(ids)) /\ Range(RepairOrder(ids)) = S
  BY <1>8, SeqIsSequence
<1>. QED  BY <1>9 DEF S

\* The plan of a neighbourhood can be walked.
LEMMA PlanPrepares ==
    ASSUME PreparedIs, NEW ids
    PROVE  Prepares(PlanFor(RepairOrder(ids)))
<1>1. \A i \in Instances : IsSequence(prepared.options[i]) /\ Range(prepared.options[i]) \subseteq OptionSet(i)
  BY PreparedOptions DEF PreparedIs
<1>2. IsSequence(RepairOrder(ids)) /\ Range(RepairOrder(ids)) \subseteq Instances
  BY RepairOrderIsSequence
<1>. QED  BY <1>1, <1>2 DEF Prepares, PlanFor

\* The depth of the split is a number of levels.
LEMMA SplitIsNatural ==
    ASSUME NEW order, IsSequence(order), NEW share
    PROVE  SplitDepthFor(order, share) \in Nat
<1>. DEFINE target == Min({Cfg.workers * TasksPerWorker, share \div MinParallel})
            worthIt(d) == TaskCount(order, d) \in 1..MaxTasks /\ TaskCount(order, d) * MinParallel <= share
            k == Min({MaxSplit, Len(order)})
            T == {0} \cup {d \in 1..k : /\ \A e \in 1..d : worthIt(e)
                                        /\ \A e \in 1..(d - 1) : TaskCount(order, e) < target}
<1>1. SplitDepthFor(order, share) = IF Cfg.workers <= 1 \/ target < 2 THEN 0 ELSE Max(T)
  BY DEF SplitDepthFor
<1>2. k \in Nat
  <2>1. MaxSplit \in Int /\ Len(order) \in Int /\ MaxSplit \in Nat /\ Len(order) \in Nat
    BY RepairAssumption DEF RepairAssumption, IsSequence
  <2>2. k \in {MaxSplit, Len(order)}
    BY <2>1, LeastOfTwo
  <2>. HIDE DEF k
  <2>. QED  BY <2>1, <2>2
<1>3. T \in SUBSET (0..k) /\ T # {}
  <2>. HIDE DEF k, worthIt, target
  <2>. QED  BY <1>2
<1>. HIDE DEF k, T, target
<1>4. \E m \in T : \A n \in T : n <= m
  BY <1>2, <1>3, GreatestUpTo
<1>5. \E m \in T : \A n \in T : m >= n
  <2>1. \A n \in T : n \in Int
    BY <1>2, <1>3
  <2>. QED  BY <1>4, <2>1
<1>6. Max(T) \in T
  BY <1>5 DEF Max
<1>7. Max(T) \in Nat
  <2>1. Max(T) \in 0..k
    BY <1>3, <1>6
  <2>. QED  BY <1>2, <2>1
<1>. QED  BY <1>1, <1>7

\* A node of the walk over an order of instances, with what is decided placed.
NodeOf(config, order, node) ==
    node.depth \in 0..Len(order) /\ Placed(config, order, node.layout, node.depth)
NodesOf(config, order, s) == IsSequence(s) /\ \A n \in DOMAIN s : NodeOf(config, order, s[n])

\* The walk of a neighbourhood is split into finitely many tasks.
LEMMA TasksAreSequences ==
    ASSUME PreparedIs, NEW base, NEW ids, NEW share, NEW target, NEW incumbents
    PROVE  /\ IsSequence(TasksOf(Job(PlanFor(RepairOrder(ids)), base, ids, share, target, incumbents)))
           /\ LegalLayout(Cfg, base) =>
                  NodesOf(Cfg, RepairOrder(ids), TasksOf(Job(PlanFor(RepairOrder(ids)), base, ids, share, target, incumbents)))
<1>. DEFINE j == Job(PlanFor(RepairOrder(ids)), base, ids, share, target, incumbents)
            start == [depth |-> 0, layout |-> j.fixed, covers |-> InitialCovers(j.plan, 0, j.fixed)]
            depth == SplitDepthFor(j.plan.order, j.quota)
            order == RepairOrder(ids)
            fixed == [i \in DOMAIN base \ ids |-> base[i]]
<1>1. j.plan = PlanFor(order) /\ j.plan.order = order /\ j.fixed = fixed
  BY DEF Job, PlanFor
<1>2. TasksOf(j) = Expanded(Cfg, j.plan, start, depth)
  BY DEF TasksOf
<1>3. start.depth = 0 /\ start.layout = fixed
  BY <1>1
<1>. HIDE DEF j, start
<1>4. depth \in Nat
  BY <1>1, RepairOrderIsSequence, SplitIsNatural
<1>. HIDE DEF depth
<1>5. IsSequence(order) /\ Range(order) = ids \cap Instances
  BY RepairOrderIsSequence
<1>6. Prepares(j.plan)
  BY <1>1, PlanPrepares
<1>. HIDE DEF order, fixed
<1>7. PICK n \in 0..Len(order) : AllAt(Cfg, order, Placed(Cfg, order, fixed, 0), TasksOf(j), n)
  BY <1>1, <1>2, <1>3, <1>4, <1>6, ExpandedAt
<1>8. IsSequence(TasksOf(j))
  BY <1>7 DEF AllAt
<1>9. ASSUME LegalLayout(Cfg, base) PROVE NodesOf(Cfg, order, TasksOf(j))
  <2>1. Placed(Cfg, order, fixed, 0)
    BY <1>5, <1>9, TakenOutIsPlaced DEF fixed
  <2>2. ASSUME NEW k \in DOMAIN TasksOf(j) PROVE NodeOf(Cfg, order, TasksOf(j)[k])
    <3>1. NodeAt(Cfg, order, Placed(Cfg, order, fixed, 0), TasksOf(j)[k], n)
      BY <1>7 DEF AllAt
    <3>. QED  BY <2>1, <3>1 DEF NodeAt, NodeOf
  <2>. QED  BY <1>8, <2>2 DEF NodesOf
<1>. QED  BY <1>8, <1>9 DEF j, order

-----------------------------------------------------------------------------
(* The archive, and the neighbourhoods of a level.                          *)

\* Lists of elements of a set.
LEMMA SequenceIn ==
    ASSUME NEW s, IsSequence(s), NEW V, Range(s) \subseteq V
    PROVE  s \in Seq(V)
<1>1. s \in Seq(Range(s))
  BY AreSequences
<1>. QED  BY <1>1

\* What is written for each place from 1 is a sequence.
LEMMA ListIn ==
    ASSUME NEW V, NEW k \in Nat, NEW s, s = [n \in 1..k |-> s[n]], \A n \in 1..k : s[n] \in V
    PROVE  s \in Seq(V)
<1>1. s \in [1..k -> V]
  OBVIOUS
<1>. QED  BY <1>1

\* Some places of a sequence, in their order.
LEMMA TakenIn ==
    ASSUME NEW V, NEW s \in Seq(V), NEW P \in SUBSET DOMAIN s
    PROVE  TakePlaces(s, Upwards(P)) \in Seq(V)
<1>1. IsSequence(s) /\ Range(s) \subseteq V
  BY SeqIsSequence
<1>2. IsSequence(TakePlaces(s, Upwards(P))) /\ Range(TakePlaces(s, Upwards(P))) \subseteq Range(s)
  BY <1>1, TakenAre
<1>3. Range(TakePlaces(s, Upwards(P))) \subseteq V
  BY <1>1, <1>2
<1>. QED  BY <1>2, <1>3, SequenceIn

\* Sorting by keys keeps the kind of the elements.
LEMMA SecondsIn ==
    ASSUME NEW V, NEW s \in Seq(V), NEW keys
    PROVE  Seconds(Ranks(Ranked1(s, keys))) \in Seq(V)
<1>. DEFINE t == Seconds(Ranks(Ranked1(s, keys)))
<1>1. IsSequence(s) /\ Range(s) \subseteq V
  BY SeqIsSequence
<1>2. IsSequence(t) /\ Range(t) \subseteq Range(s)
  BY <1>1, ArrangedIn
<1>3. Range(t) \subseteq V
  BY <1>1, <1>2
<1>. HIDE DEF t
<1>4. t \in Seq(V)
  BY <1>2, <1>3, SequenceIn
<1>. QED  BY <1>4 DEF t

\* The first few elements of a sequence.
LEMMA FirstIn ==
    ASSUME NEW V, NEW s \in Seq(V), NEW k \in Nat
    PROVE  First(s, k) \in Seq(V)
<1>. DEFINE t == First(s, k)
<1>1. IsSequence(t)
  BY FirstIsSequence
<1>2. Range(t) \subseteq V
  <2>1. \A n \in DOMAIN t : n \in DOMAIN s /\ t[n] = s[n]
    BY DEF First
  <2>2. \A n \in DOMAIN s : s[n] \in V
    OBVIOUS
  <2>. HIDE DEF t
  <2>. QED  BY <2>1, <2>2 DEF Range
<1>. HIDE DEF t
<1>3. t \in Seq(V)
  BY <1>1, <1>2, SequenceIn
<1>. QED  BY <1>3 DEF t

\* A finite set of numbers, in order, has just those numbers.
LEMMA UpwardsAre ==
    ASSUME NEW P \in SUBSET Int, IsFiniteSet(P)
    PROVE  Upwards(P) \in Seq(P)
<1>1. IsSequence(Upwards(P)) /\ \A n \in DOMAIN Upwards(P) : Upwards(P)[n] \in P
  BY UpwardsIsSequence, UpwardsIn
<1>2. Range(Upwards(P)) \subseteq P
  BY <1>1 DEF Range
<1>. QED  BY <1>1, <1>2, SequenceIn
-----------------------------------------------------------------------------
\* The archive keeps some of what it has, and of what it is shown.
LEMMA ArchiveOrderIn ==
    ASSUME NEW V, NEW s \in Seq(V)
    PROVE  ByEntryRank(s) \in Seq(V)
<1>. DEFINE keys == [n \in DOMAIN s |-> EntryRank(s[n])]
            pairs == [n \in DOMAIN s |-> <<EntryRank(s[n]), s[n]>>]
<1>1. ByEntryRank(s) = [n \in DOMAIN Ranks(pairs) |-> Ranks(pairs)[n][2]]
  BY Zenon DEF ByEntryRank, Arranged
<1>2. pairs = Ranked1(s, keys)
  BY DEF Ranked1
<1>3. ByEntryRank(s) = Seconds(Ranks(Ranked1(s, keys)))
  <2>. HIDE DEF keys, pairs
  <2>. QED  BY <1>1, <1>2 DEF Seconds
<1>. HIDE DEF keys
<1>. QED  BY <1>3, SecondsIn

\* What the archive keeps was offered to it.
LEMMA EntriesAreSome ==
    ASSUME NEW V, NEW ordered \in Seq(V)
    PROVE  SelectEntries(ordered) \in Seq(V)
<1>. DEFINE links == Table([n \in DOMAIN ordered |-> LinkSignature(ordered[n].layout)])
            D == DOMAIN ordered
            F == {n \in D : \A m \in 1..n - 1 : links[m] # links[n]}
            rest == D \ F
            P == Range(First(Upwards(F) \o Upwards(rest), ArchiveCapacity))
<1>1. SelectEntries(ordered) = TakePlaces(ordered, Upwards(P))
  BY Zenon DEF SelectEntries, Chosen
<1>2. F \in SUBSET D /\ rest \in SUBSET D
  OBVIOUS
<1>3. D \in SUBSET Int /\ IsFiniteSet(D)
  <2>1. D = 1..Len(ordered) /\ Len(ordered) \in Nat
    OBVIOUS
  <2>. QED  BY <2>1, FS_Interval
<1>. HIDE DEF F, D, rest
<1>4. /\ F \in SUBSET Int /\ IsFiniteSet(F) /\ rest \in SUBSET Int /\ IsFiniteSet(rest)
  BY <1>2, <1>3, FS_Subset
<1>5. Upwards(F) \in Seq(D) /\ Upwards(rest) \in Seq(D)
  <2>1. Upwards(F) \in Seq(F) /\ Upwards(rest) \in Seq(rest)
    BY <1>4, UpwardsAre
  <2>. QED  BY <1>2, <2>1
<1>6. Upwards(F) \o Upwards(rest) \in Seq(D)
  BY <1>5
<1>7. First(Upwards(F) \o Upwards(rest), ArchiveCapacity) \in Seq(D)
  BY <1>6, CapacityAssumption, FirstIn DEF CapacityAssumption
<1>8. P \in SUBSET DOMAIN ordered
  BY <1>7, SeqIsSequence DEF D
<1>. HIDE DEF P
<1>. QED  BY <1>1, <1>8, TakenIn

\* An archive that was offered an entry has entries of the same kind.
LEMMA ObserveKeeps ==
    ASSUME NEW config, NEW V, NEW entries \in Seq(V), NEW s \in V
    PROVE  Observe(config, entries, s) \in Seq(V)
<1>1. Append(entries, s) \in Seq(V)
  OBVIOUS
<1>2. SelectEntries(ByEntryRank(Append(entries, s))) \in Seq(V)
  BY <1>1, ArchiveOrderIn, EntriesAreSome
<1>. QED  BY <1>2 DEF Observe

\* It has no entry but those it had and the new one.
LEMMA ArchiveKeeps ==
    ASSUME NEW config, NEW entries, IsSequence(entries), NEW s
    PROVE  /\ IsSequence(Observe(config, entries, s))
           /\ Range(Observe(config, entries, s)) \subseteq Range(entries) \cup {s}
<1>. DEFINE V == Range(entries) \cup {s}
<1>1. entries \in Seq(V) /\ s \in V
  BY SequenceIn
<1>. HIDE DEF V
<1>2. Observe(config, entries, s) \in Seq(V)
  BY <1>1, ObserveKeeps
<1>. QED  BY <1>2, SeqIsSequence DEF V

\* The archive after some of the layouts it is offered.
Observes(kept, s) ==
    kept = [t \in SUBSET DOMAIN s |-> IF t = {} THEN <<>> ELSE Observe(Cfg, kept[t \ {Max(t)}], s[Max(t)])]

\* The archive of the seeds.
LEMMA ObserveAllIn ==
    ASSUME NEW R, NEW s \in Seq(R)
    PROVE  ObserveAll(<<>>, s) \in Seq(R)
<1>. DEFINE D == DOMAIN s
            V == Seq(R)
            step == [p \in D \X V |-> Observe(Cfg, p[2], s[p[1]])]
<1>0. IsSequence(s) /\ \A n \in D : s[n] \in R
  BY SeqIsSequence
<1>1. \A v \in V, n \in D : Observe(Cfg, v, s[n]) \in V
  BY <1>0, ObserveKeeps
<1>2. step \in [D \X V -> V] /\ <<>> \in V
  BY <1>1
<1>3. PICK f \in [SUBSET D -> V] : LeftFold(f, s, <<>>, step)
  <2>. HIDE DEF V, step
  <2>. QED  BY <1>0, <1>2, LeftFoldExists
<1>4. ASSUME NEW t \in SUBSET D
      PROVE  f[t] = IF t = {} THEN <<>> ELSE Observe(Cfg, f[t \ {Max(t)}], s[Max(t)])
  <2>1. CASE t = {}
    BY <1>3, <2>1 DEF LeftFold
  <2>2. CASE t # {}
    <3>1. Max(t) \in D /\ t \ {Max(t)} \in SUBSET D
      BY <1>0, <2>2, GreatestPlace
    <3>2. <<Max(t), f[t \ {Max(t)}]>> \in D \X V
      <4>. HIDE DEF V
      <4>. QED  BY <3>1, <1>3
    <3>3. f[t] = step[<<Max(t), f[t \ {Max(t)}]>>]
      BY <1>3, <2>2 DEF LeftFold
    <3>4. step[<<Max(t), f[t \ {Max(t)}]>>] = Observe(Cfg, f[t \ {Max(t)}], s[Max(t)])
      <4>. HIDE DEF V, D
      <4>. QED  BY <3>2
    <3>. QED  BY <3>3, <3>4, <2>2
  <2>. QED  BY <2>1, <2>2
<1>5. Observes(f, s)
  BY <1>3, <1>4 DEF Observes
<1>6. \E g : Observes(g, s)
  BY <1>5
<1>. DEFINE kept == CHOOSE g : Observes(g, s)
<1>7. Observes(kept, s)
  BY <1>6
<1>8. ObserveAll(<<>>, s) = kept[D]
  BY Zenon DEF ObserveAll, FoldLeft, MapThenFoldSet, Observes
<1>9. kept[D] \in V
  <2>. HIDE DEF kept
  <2>1. kept[{}] = <<>>
    BY <1>7 DEF Observes
  <2>2. ASSUME NEW t \in SUBSET D, t # {}, kept[t \ {Max(t)}] \in V
        PROVE  kept[t] \in V
    <3>1. Max(t) \in D
      BY <1>0, <2>2, GreatestPlace
    <3>2. kept[t] = Observe(Cfg, kept[t \ {Max(t)}], s[Max(t)])
      BY <1>7, <2>2 DEF Observes
    <3>. HIDE DEF V, D
    <3>. QED  BY <1>1, <2>2, <3>1, <3>2
  <2>3. <<>> \in V
    BY <1>2
  <2>. HIDE DEF V
  <2>. QED  BY <1>0, <2>1, <2>2, <2>3, LeftFoldStays
<1>. QED  BY <1>8, <1>9

-----------------------------------------------------------------------------
(* The bases of a batch.                                                    *)

\* Neighbourhoods made for the layouts of B.
Based(ns, B) == IsSequence(ns) /\ \A n \in DOMAIN ns : "base" \in DOMAIN ns[n] /\ ns[n].base \in B

\* Some of the neighbourhoods of some bases are neighbourhoods of those bases.
LEMMA SomeAreBased ==
    ASSUME NEW B, NEW ns, Based(ns, B), NEW some \in Seq(Range(ns))
    PROVE  Based(some, B)
<1>1. IsSequence(some) /\ Range(some) \subseteq Range(ns)
  BY SeqIsSequence
<1>2. \A x \in Range(ns) : "base" \in DOMAIN x /\ x.base \in B
  BY DEF Based, Range
<1>3. \A n \in DOMAIN some : some[n] \in Range(some)
  BY <1>1, AreSequences
<1>. QED  BY <1>1, <1>2, <1>3 DEF Based

\* No neighbourhood has no base.
LEMMA NoneAreBased ==
    ASSUME NEW B
    PROVE  Based(<<>>, B)
<1>1. <<>> \in Seq({}) /\ DOMAIN <<>> = {}
  OBVIOUS
<1>2. IsSequence(<<>>)
  BY <1>1, SeqIsSequence
<1>. QED  BY <1>1, <1>2 DEF Based

\* One neighbourhood has its base.
LEMMA OneIsBased ==
    ASSUME NEW B, NEW x, "base" \in DOMAIN x, x.base \in B
    PROVE  Based(<<x>>, B)
<1>1. <<x>> \in Seq({x}) /\ DOMAIN <<x>> = 1..1 /\ <<x>>[1] = x
  OBVIOUS
<1>2. IsSequence(<<x>>)
  BY <1>1, SeqIsSequence
<1>. QED  BY <1>1, <1>2 DEF Based

\* Neighbourhoods that are joined keep their bases.
LEMMA JoinedAreBased ==
    ASSUME NEW B, NEW seqs, IsSequence(seqs), \A n \in DOMAIN seqs : Based(seqs[n], B)
    PROVE  Based(FlattenSeq(seqs), B)
<1>1. FlattenSeq(seqs) \in Seq(PartsOf(seqs))
  BY FlattenIsSequence DEF Based
<1>2. \A x \in PartsOf(seqs) : "base" \in DOMAIN x /\ x.base \in B
  BY DEF PartsOf, Range, Based
<1>3. IsSequence(FlattenSeq(seqs)) /\ Range(FlattenSeq(seqs)) \subseteq PartsOf(seqs)
  BY <1>1, SeqIsSequence
<1>4. \A n \in DOMAIN FlattenSeq(seqs) : FlattenSeq(seqs)[n] \in Range(FlattenSeq(seqs))
  BY <1>3, AreSequences
<1>. QED  BY <1>2, <1>3, <1>4 DEF Based

\* At most one neighbourhood comes of an opportunity.
LEMMA OpportunityIsBased ==
    ASSUME NEW l, NEW lv, NEW worth, NEW closure
    PROVE  Based(Opportunity(l, lv, worth, closure), {l})
<1>. DEFINE one == [base |-> l, mandatory |-> Cardinality(closure),
                    ids |-> Filled(closure, Nearby(l, closure), lv.size), priority |-> worth]
<1>1. Opportunity(l, lv, worth, closure) \in {<<>>, <<one>>}
  BY Zenon DEF Opportunity
<1>2. "base" \in DOMAIN one /\ one.base = l
  OBVIOUS
<1>. HIDE DEF one
<1>3. Based(<<>>, {l}) /\ Based(<<one>>, {l})
  BY <1>2, NoneAreBased, OneIsBased
<1>. QED  BY <1>1, <1>3

\* The targets of an instance are a sequence.
LEMMA TargetsAreSequences ==
    ASSUME NEW l, NEW stars, NEW s
    PROVE  IsSequence(Opportunities(l, stars, s))
<1>. DEFINE S == {t \in Instances : CanTarget(s, t) /\ Compatibility(s, t) > 0}
            rank(t) == <<-OpportunityValue(l, s, t), IDRank[t]>>
            f == [t \in S |-> rank(t)]
<1>1. Opportunities(l, stars, s) = <<>> \/ Opportunities(l, stars, s) = ByRank({<<rank(t), t>> : t \in S})
  BY Zenon DEF Opportunities, SortedBy
<1>2. IsFiniteSet(S)
  BY InventoryIsFinite, FS_Subset
<1>3. {<<rank(t), t>> : t \in S} = {<<f[t], t>> : t \in S}
  <2>. HIDE DEF rank
  <2>. QED  OBVIOUS
<1>4. IsSequence(ByRank({<<f[t], t>> : t \in S}))
  <2>. HIDE DEF f, S
  <2>. QED  BY <1>2, RankedIsSequence
<1>5. IsSequence(<<>>)
  BY NoneAreBased DEF Based
<1>. HIDE DEF rank, f, S
<1>. QED  BY <1>1, <1>3, <1>4, <1>5

\* The opportunities of an instance are all of the layout it was looked at in.
LEMMA OpportunitiesAreBased ==
    ASSUME NEW l, NEW lv, NEW options, NEW s, NEW targets, IsSequence(targets)
    PROVE  Based(OpportunitiesOf(l, lv, options, s, targets), {l})
<1>. DEFINE found == [n \in DOMAIN targets |->
                OpportunityFor(l, lv, options, s, targets[n], Blockers(l, options, <<s, targets[n]>>))]
<1>1. ASSUME NEW t, NEW direct
      PROVE  Based(OpportunityFor(l, lv, options, s, t, direct), {l})
  BY OpportunityIsBased DEF OpportunityFor
<1>2. OpportunitiesOf(l, lv, options, s, targets) = FlattenSeq(found)
  BY DEF OpportunitiesOf
<1>3. Len(targets) \in Nat /\ DOMAIN targets = 1..Len(targets)
  BY AreSequences DEF IsSequence
<1>4. found = [n \in 1..Len(targets) |-> found[n]] /\ \A n \in DOMAIN found : Based(found[n], {l})
  BY <1>1, <1>3
<1>. HIDE DEF found
<1>5. IsSequence(found)
  BY <1>3, <1>4, SequencesAre
<1>. QED  BY <1>2, <1>4, <1>5, JoinedAreBased

\* So are those of all its instances.
LEMMA OpportunitiesInAreBased ==
    ASSUME NEW l, NEW lv, NEW options, NEW stars
    PROVE  Based(OpportunitiesIn(l, lv, options, stars), {l})
<1>. DEFINE found == [s \in Instances |-> OpportunitiesOf(l, lv, options, s, Opportunities(l, stars, s))]
            all == FlattenSeq(found)
            P == {n \in DOMAIN all :
                     /\ Cardinality(all[n].ids) >= Min({MinPlateau, Len(Inventory)})
                     /\ \A m \in 1..n - 1 : all[m].ids # all[n].ids}
<1>1. OpportunitiesIn(l, lv, options, stars) = TakePlaces(all, Upwards(P))
  BY Zenon DEF OpportunitiesIn, FirstOfIDs
<1>2. \A n \in DOMAIN found : Based(found[n], {l})
  BY TargetsAreSequences, OpportunitiesAreBased
<1>3. Len(Inventory) \in Nat /\ Instances = 1..Len(Inventory)
  BY InventoryIsFinite DEF IsSequence
<1>4. IsSequence(found)
  <2>1. found = [n \in 1..Len(Inventory) |-> found[n]]
    BY <1>3
  <2>. HIDE DEF found
  <2>. QED  BY <1>3, <2>1, SequencesAre
<1>. HIDE DEF found
<1>5. Based(all, {l})
  BY <1>2, <1>4, JoinedAreBased
<1>6. P \in SUBSET DOMAIN all
  OBVIOUS
<1>. HIDE DEF P, all
<1>7. all \in Seq(Range(all))
  BY <1>5, AreSequences DEF Based
<1>8. TakePlaces(all, Upwards(P)) \in Seq(Range(all))
  BY <1>6, <1>7, TakenIn
<1>. QED  BY <1>1, <1>5, <1>8, SomeAreBased

\* Ordering opportunities adds none.
LEMMA OpportunityOrderIn ==
    ASSUME NEW V, NEW s \in Seq(V), NEW lv
    PROVE  ByOpportunity(s) \in Seq(V) /\ Ranked(s, lv) \in Seq(V)
<1>. DEFINE rank(n) == <<-n.priority>> \o OpportunityKey(n)
            other(n) == <<-n.priority, n.mandatory>> \o OpportunityKey(n)
            keys == [n \in DOMAIN s |-> rank(s[n])]
            others == [n \in DOMAIN s |-> other(s[n])]
            p == [n \in DOMAIN s |-> <<rank(s[n]), s[n]>>]
            q == [n \in DOMAIN s |-> <<other(s[n]), s[n]>>]
            byOther == [n \in DOMAIN Ranks(q) |-> Ranks(q)[n][2]]
<1>1. ByOpportunity(s) = [n \in DOMAIN Ranks(p) |-> Ranks(p)[n][2]]
  BY Zenon DEF ByOpportunity, Arranged
<1>2. Ranked(s, lv) = ByOpportunity(s) \/ Ranked(s, lv) = byOther
  BY Zenon DEF Ranked, Arranged
<1>3. p = Ranked1(s, keys) /\ q = Ranked1(s, others)
  <2>. HIDE DEF rank, other
  <2>. QED  BY DEF Ranked1
<1>4. ByOpportunity(s) = Seconds(Ranks(Ranked1(s, keys))) /\ byOther = Seconds(Ranks(Ranked1(s, others)))
  <2>. HIDE DEF keys, others, p, q
  <2>. QED  BY <1>1, <1>3 DEF Seconds
<1>. HIDE DEF keys, others, byOther
<1>5. Seconds(Ranks(Ranked1(s, keys))) \in Seq(V) /\ Seconds(Ranks(Ranked1(s, others))) \in Seq(V)
  BY SecondsIn
<1>. QED  BY <1>2, <1>4, <1>5

\* Nor does leaving out those that promise nothing.
LEMMA PromisingAreBased ==
    ASSUME NEW B, NEW ns, Based(ns, B)
    PROVE  Based(Promising(ns), B)
<1>. DEFINE raised(n) == [ns[n] EXCEPT !.priority = @ + RelaxedStarUpper(Kept(ns[n]), ns[n].ids)]
            t == [n \in DOMAIN ns |-> raised(n)]
<1>1. Promising(ns) = t
  BY DEF Promising
<1>2. Len(ns) \in Nat /\ DOMAIN ns = 1..Len(ns)
  BY AreSequences DEF Based, IsSequence
<1>3. \A n \in DOMAIN ns : "base" \in DOMAIN raised(n) /\ raised(n).base = ns[n].base
  BY DEF Based
<1>. HIDE DEF raised
<1>4. t = [n \in 1..Len(ns) |-> t[n]] /\ \A n \in DOMAIN t : "base" \in DOMAIN t[n] /\ t[n].base \in B
  BY <1>2, <1>3 DEF Based
<1>. HIDE DEF t
<1>5. IsSequence(t)
  BY <1>2, <1>4, SequencesAre
<1>. QED  BY <1>1, <1>4, <1>5 DEF Based

\* The neighbourhoods of a level are made for the layouts of the archive.
LEMMA LevelIsBased ==
    ASSUME NEW lv, NEW solutions, IsSequence(solutions), NEW target
    PROVE  Based(LevelNeighbourhoods(lv, solutions, target), {solutions[n].layout : n \in DOMAIN solutions})
<1>. DEFINE B == {solutions[n].layout : n \in DOMAIN solutions}
            found == [n \in DOMAIN solutions |->
                OpportunitiesIn(solutions[n].layout, lv, prepared.options, Stars(solutions[n].layout))]
            all == FlattenSeq(found)
            listed == Listed(all, lv)
            P == {n \in DOMAIN listed : PartialRepairFeasible(Cfg, Kept(listed[n]), listed[n].ids, target)}
            feasible == TakePlaces(listed, Upwards(P))
            promising == Promising(feasible)
            ordered == Ranked(promising, lv)
<1>1. LevelNeighbourhoods(lv, solutions, target) = SelectLevel(ordered, lv)
  BY Zenon DEF LevelNeighbourhoods, Feasible
<1>2. Len(solutions) \in Nat /\ DOMAIN solutions = 1..Len(solutions)
  BY AreSequences DEF IsSequence
<1>3. \A n \in DOMAIN found : Based(found[n], B)
  <2>1. ASSUME NEW n \in DOMAIN solutions PROVE Based(found[n], B)
    <3>1. Based(found[n], {solutions[n].layout}) /\ solutions[n].layout \in B
      BY OpportunitiesInAreBased
    <3>. HIDE DEF found, B
    <3>. QED  BY <3>1 DEF Based
  <2>2. DOMAIN found = DOMAIN solutions
    OBVIOUS
  <2>. HIDE DEF found, B
  <2>. QED  BY <2>1, <2>2
<1>. HIDE DEF B
<1>4. IsSequence(found)
  <2>1. found = [n \in 1..Len(solutions) |-> found[n]]
    BY <1>2
  <2>. HIDE DEF found
  <2>. QED  BY <1>2, <2>1, SequencesAre
<1>. HIDE DEF found
<1>5. Based(all, B)
  BY <1>3, <1>4, JoinedAreBased
<1>. HIDE DEF all
<1>6. Based(listed, B)
  <2>1. all \in Seq(Range(all))
    BY <1>5, AreSequences DEF Based
  <2>2. ByOpportunity(all) \in Seq(Range(all))
    BY <2>1, OpportunityOrderIn
  <2>3. First(ByOpportunity(all), MaxNeighbourhoods) \in Seq(Range(all))
    BY <2>2, LimitAssumption, FirstIn DEF LimitAssumption
  <2>4. listed \in Seq(Range(all))
    BY <2>1, <2>3 DEF Listed
  <2>. HIDE DEF listed
  <2>. QED  BY <1>5, <2>4, SomeAreBased
<1>. HIDE DEF listed
<1>7. Based(feasible, B)
  <2>1. listed \in Seq(Range(listed)) /\ P \in SUBSET DOMAIN listed
    BY <1>6, AreSequences DEF Based
  <2>. HIDE DEF P
  <2>2. feasible \in Seq(Range(listed))
    BY <2>1, TakenIn
  <2>. HIDE DEF feasible
  <2>. QED  BY <1>6, <2>2, SomeAreBased
<1>. HIDE DEF feasible
<1>8. Based(promising, B)
  BY <1>7, PromisingAreBased
<1>. HIDE DEF promising
<1>9. ordered \in Seq(Range(promising))
  <2>1. promising \in Seq(Range(promising))
    BY <1>8, AreSequences DEF Based
  <2>. QED  BY <2>1, OpportunityOrderIn
<1>. HIDE DEF ordered
<1>10. Based(ordered, B)
  BY <1>8, <1>9, SomeAreBased
<1>11. SelectLevel(ordered, lv) \in Seq(Range(ordered))
  BY <1>10, SelectLevelIsSequence DEF Based
<1>12. Based(SelectLevel(ordered, lv), B)
  BY <1>10, <1>11, SomeAreBased
<1>. QED  BY <1>1, <1>12 DEF B

-----------------------------------------------------------------------------
(* Batches and their quotas.                                                *)

\* dividePlateauBudget and the shares of a round: whatever the neighbourhoods and
\* whatever there is to give, all of it is given, the bases have equal shares, and
\* the neighbourhoods of one base equal ones, to the node.
LEMMA DividedEvenly ==
    ASSUME NEW ns, IsSequence(ns), ns # <<>>, NEW total \in Nat \ {0}
    PROVE  /\ EvenlyDivided(Divided(ns, total), total)
           /\ IsSequence(Divided(ns, total)) /\ \A n \in DOMAIN ns : Divided(ns, total)[n].quota \in Nat
           /\ DOMAIN Divided(ns, total) = DOMAIN ns
           /\ Total([n \in DOMAIN Divided(ns, total) |-> Divided(ns, total)[n].quota]) = total
<1>. DEFINE named == [n \in DOMAIN ns |-> ns[n].base]
            f == SharesOver(total, named, Distinct(named))
            s == Divided(ns, total)
            B == Range(named)
            L == Len(Distinct(named))
<1>0. Len(ns) \in Nat /\ DOMAIN ns = 1..Len(ns) /\ Len(ns) # 0
  <2>1. Len(ns) \in Nat /\ DOMAIN ns = 1..Len(ns) /\ ns \in Seq(Range(ns))
    BY AreSequences DEF IsSequence
  <2>2. Len(ns) # 0
    BY <2>1
  <2>. QED  BY <2>1, <2>2
<1>1. IsSequence(named) /\ DOMAIN named = DOMAIN ns /\ Len(named) = Len(ns)
  <2>1. named = [n \in 1..Len(ns) |-> named[n]] /\ DOMAIN named = DOMAIN ns
    BY <1>0
  <2>. HIDE DEF named
  <2>. QED  BY <2>1, <1>0, SequencesAre
<1>2. named \in Seq(B) /\ named # <<>>
  <2>. HIDE DEF named
  <2>1. named \in Seq(B)
    BY <1>1, AreSequences
  <2>2. Len(<<>>) = 0
    OBVIOUS
  <2>. QED  BY <2>1, <2>2, <1>0, <1>1
<1>3. SharesOver(total, named, Distinct(named)) = f /\ Shares(total, ns) = f
  <2>1. Shares(total, ns) = SharesOf(total, named)
    BY DEF Shares
  <2>2. SharesOf(total, named) = SharesOver(total, named, Distinct(named))
    <3>. HIDE DEF named
    <3>. QED  BY DEF SharesOf
  <2>. QED  BY <2>1, <2>2
<1>4. s = [n \in DOMAIN ns |-> [of |-> ns[n], quota |-> f[n]]]
  <2>. HIDE DEF f
  <2>. QED  BY <1>3 DEF Divided, WithQuotas
<1>5. /\ f \in [DOMAIN named -> Nat] /\ Total(f) = total /\ L \in Nat \ {0}
      /\ \A n \in DOMAIN named :
            /\ PlaceIn(Distinct(named), named[n]) \in Nat
            /\ Total(Only(f, PlacesOfBase(named, named[n]))) = Part(total, L, PlaceIn(Distinct(named), named[n]))
      /\ \A m, n \in DOMAIN named : named[m] = named[n] => f[m] - f[n] <= 1
  <2>. HIDE DEF named, B
  <2>1. total \in Nat
    OBVIOUS
  <2>. QED  BY <1>2, <2>1, SharesOfBases
<1>6. \A n \in DOMAIN ns : named[n] = ns[n].base
  OBVIOUS
<1>. HIDE DEF named, f, s, B, L
<1>7. /\ DOMAIN s = DOMAIN ns /\ DOMAIN f = DOMAIN ns
      /\ \A n \in DOMAIN ns : s[n].quota = f[n] /\ s[n].of.base = named[n] /\ f[n] \in Nat
  BY <1>1, <1>4, <1>5, <1>6
<1>8. [n \in DOMAIN s |-> s[n].quota] = f
  BY <1>1, <1>5, <1>7
<1>9. ASSUME NEW x PROVE OfBase(s, x) = PlacesOfBase(named, x) /\ ShareOf(s, x) = Total(Only(f, PlacesOfBase(named, x)))
  <2>1. OfBase(s, x) = PlacesOfBase(named, x)
    BY <1>1, <1>7 DEF OfBase, PlacesOfBase
  <2>2. [n \in OfBase(s, x) |-> s[n].quota] = Only(f, PlacesOfBase(named, x))
    BY <1>1, <1>7, <2>1 DEF Only, PlacesOfBase
  <2>. QED  BY <2>1, <2>2 DEF ShareOf
<1>. DEFINE all == {s[n].of.base : n \in DOMAIN s}
<1>10. Even({ShareOf(s, base) : base \in all})
  <2>1. ASSUME NEW m \in DOMAIN s, NEW n \in DOMAIN s
        PROVE  ShareOf(s, s[m].of.base) - ShareOf(s, s[n].of.base) <= 1
    <3>1. ShareOf(s, s[m].of.base) = Part(total, L, PlaceIn(Distinct(named), named[m]))
      BY <1>1, <1>5, <1>7, <1>9
    <3>2. ShareOf(s, s[n].of.base) = Part(total, L, PlaceIn(Distinct(named), named[n]))
      BY <1>1, <1>5, <1>7, <1>9
    <3>3. PlaceIn(Distinct(named), named[m]) \in Int /\ PlaceIn(Distinct(named), named[n]) \in Int
      BY <1>1, <1>5, <1>7
    <3>4. Part(total, L, PlaceIn(Distinct(named), named[m])) - Part(total, L, PlaceIn(Distinct(named), named[n])) <= 1
      <4>1. total \in Nat /\ L \in Nat \ {0}
        BY <1>5
      <4>. QED  BY <3>3, <4>1, PartsAreEven
    <3>. QED  BY <3>1, <3>2, <3>4
  <2>. QED  BY <2>1 DEF Even
<1>11. \A base \in all : Even({s[n].quota : n \in OfBase(s, base)})
  <2>1. ASSUME NEW base, NEW m \in OfBase(s, base), NEW n \in OfBase(s, base)
        PROVE  s[m].quota - s[n].quota <= 1
    <3>1. m \in DOMAIN named /\ n \in DOMAIN named /\ named[m] = named[n]
      BY <1>9 DEF PlacesOfBase
    <3>. QED  BY <1>1, <1>5, <1>7, <3>1
  <2>. QED  BY <2>1 DEF Even
<1>12. Total([n \in DOMAIN s |-> s[n].quota]) = total
  BY <1>5, <1>8
<1>13. EvenlyDivided(s, total)
  BY <1>10, <1>11, <1>12 DEF EvenlyDivided
<1>14. IsSequence(s)
  <2>1. s = [n \in 1..Len(ns) |-> s[n]]
    BY <1>0, <1>4
  <2>. QED  BY <2>1, <1>0, SequencesAre
<1>. QED  BY <1>7, <1>12, <1>13, <1>14 DEF s
-----------------------------------------------------------------------------
\* What is left to give the neighbourhoods that wait.
HasQuotas(s) == IsSequence(s) /\ \A n \in DOMAIN s : s[n].quota \in Nat
Quotas(s) == [n \in DOMAIN s |-> s[n].quota]
QuotaLeft(s) == Total(Quotas(s))

\* What the quotas of a batch come to.
LEMMA QuotaIsNatural ==
    ASSUME NEW s, HasQuotas(s)
    PROVE  /\ Summable(Quotas(s)) /\ QuotaLeft(s) \in Nat /\ Quotas(s) \in [DOMAIN s -> Nat]
           /\ DOMAIN Quotas(s) = DOMAIN s /\ IsFiniteSet(DOMAIN s) /\ DOMAIN s = 1..Len(s) /\ Len(s) \in Nat
<1>1. IsFiniteSet(DOMAIN s) /\ DOMAIN s = 1..Len(s) /\ Len(s) \in Nat
  BY AreSequences DEF HasQuotas, IsSequence
<1>2. Quotas(s) \in [DOMAIN s -> Nat] /\ DOMAIN Quotas(s) = DOMAIN s
  BY DEF Quotas, HasQuotas
<1>3. Summable(Quotas(s)) /\ Total(Quotas(s)) \in Nat
  BY <1>1, <1>2, TotalIsNatural
<1>. QED  BY <1>1, <1>2, <1>3 DEF QuotaLeft

\* An empty batch has none.
LEMMA NothingLeft ==
    HasQuotas(<<>>) /\ QuotaLeft(<<>>) = 0
<1>1. <<>> \in Seq({}) /\ DOMAIN <<>> = {}
  OBVIOUS
<1>2. HasQuotas(<<>>)
  BY <1>1, SeqIsSequence DEF HasQuotas
<1>3. Summable(Quotas(<<>>)) /\ DOMAIN Quotas(<<>>) = {}
  BY <1>1, <1>2, QuotaIsNatural
<1>4. QuotaLeft(<<>>) = 0
  BY <1>3, TotalRest DEF QuotaLeft
<1>. QED  BY <1>2, <1>4

\* The first of a row of numbers, and the rest moved down by one place.
LEMMA TotalShifts ==
    ASSUME NEW N \in Nat \ {0}, NEW f \in [1..N -> Nat], NEW g, g = [n \in 1..(N - 1) |-> f[n + 1]]
    PROVE  Total(f) = f[1] + Total(g)
<1>. DEFINE M == N - 1
            T == {k \in 0..M : Total(Only(g, 1..k)) = Total(Only(f, 2..(k + 1)))}
<1>0. M \in Nat /\ N = M + 1 /\ DOMAIN g = 1..M /\ DOMAIN f = 1..N
  OBVIOUS
<1>1. Summable(f) /\ Summable(g)
  <2>1. IsFiniteSet(1..N) /\ IsFiniteSet(1..M)
    BY <1>0, FS_Interval
  <2>2. \A n \in 1..M : g[n] \in Nat
    OBVIOUS
  <2>3. g = [n \in 1..M |-> g[n]]
    OBVIOUS
  <2>. HIDE DEF M
  <2>. QED  BY <1>0, <2>1, <2>2, <2>3 DEF Summable
<1>2. 0 \in T
  <2>1. 1..0 = {} /\ 2..(0 + 1) = {} /\ 0 \in 0..M
    BY <1>0
  <2>2. /\ Summable(Only(g, {})) /\ DOMAIN Only(g, {}) = {}
        /\ Summable(Only(f, {})) /\ DOMAIN Only(f, {}) = {}
    BY <1>1, OnlyIsSummable
  <2>3. Total(Only(g, {})) = 0 /\ Total(Only(f, {})) = 0
    BY <2>2, TotalRest
  <2>. QED  BY <2>1, <2>3
<1>3. ASSUME NEW k \in 0..(M - 1), k \in T PROVE k + 1 \in T
  <2>1. /\ 1..(k + 1) = (1..k) \cup {k + 1} /\ k + 1 \in 1..M /\ k + 1 \in (1..M) \ (1..k)
        /\ 2..((k + 1) + 1) = (2..(k + 1)) \cup {k + 2}
        /\ k + 2 \in (1..N) \ (2..(k + 1)) /\ 1..k \in SUBSET (1..M) /\ 2..(k + 1) \in SUBSET (1..N)
        /\ k + 1 \in 0..M
    <3>0. k \in Nat /\ k + 1 <= M /\ k + 1 \in 0..M /\ k + 2 <= N
      BY <1>0
    <3>1. 1..(k + 1) = (1..k) \cup {k + 1} /\ k + 1 \in 1..M /\ k + 1 \in (1..M) \ (1..k)
      <4>1. ASSUME NEW j \in Nat PROVE 1..(j + 1) = (1..j) \cup {j + 1} /\ j + 1 \notin 1..j
        OBVIOUS
      <4>2. k + 1 \in 1..M
        <5>. HIDE DEF M
        <5>. QED  BY <1>0, <3>0
      <4>. HIDE DEF M
      <4>. QED  BY <3>0, <4>1, <4>2
    <3>2. 2..((k + 1) + 1) = (2..(k + 1)) \cup {k + 2}
      <4>. HIDE DEF M
      <4>. QED  BY <3>0
    <3>3. k + 2 \in (1..N) \ (2..(k + 1)) /\ 2..(k + 1) \in SUBSET (1..N)
      <4>. HIDE DEF M
      <4>. QED  BY <1>0, <3>0
    <3>4. 1..k \in SUBSET (1..M)
      <4>. HIDE DEF M
      <4>. QED  BY <1>0, <3>0
    <3>. HIDE DEF M
    <3>. QED  BY <3>0, <3>1, <3>2, <3>3, <3>4
  <2>2. Total(Only(g, (1..k) \cup {k + 1})) = g[k + 1] + Total(Only(g, 1..k))
    BY <1>0, <1>1, <2>1, TotalGains
  <2>3. Total(Only(f, (2..(k + 1)) \cup {k + 2})) = f[k + 2] + Total(Only(f, 2..(k + 1)))
    BY <1>0, <1>1, <2>1, TotalGains
  <2>4. g[k + 1] = f[k + 2]
    <3>1. g[k + 1] = f[(k + 1) + 1] /\ (k + 1) + 1 = k + 2
      BY <2>1
    <3>. QED  BY <3>1
  <2>5. Total(Only(g, 1..k)) = Total(Only(f, 2..(k + 1)))
    BY <1>3
  <2>6. Total(Only(g, 1..(k + 1))) = Total(Only(f, 2..((k + 1) + 1)))
    BY <2>1, <2>2, <2>3, <2>4, <2>5
  <2>. QED  BY <2>1, <2>6
<1>4. 0..M \subseteq T
  <2>. HIDE DEF T, M
  <2>. QED  BY <1>0, <1>2, <1>3, InductionUpTo
<1>5. Total(Only(g, 1..M)) = Total(Only(f, 2..(M + 1)))
  <2>1. M \in 0..M
    BY <1>0
  <2>2. M \in T
    <3>. HIDE DEF T, M
    <3>. QED  BY <2>1, <1>4
  <2>. QED  BY <2>2
<1>6. Only(g, 1..M) = g
  BY DEF Only
<1>7. Total(f) = f[1] + Total(Only(f, (1..N) \ {1}))
  <2>1. 1 \in DOMAIN f
    BY <1>0
  <2>. QED  BY <1>0, <1>1, <2>1, TotalRest
<1>8. (1..N) \ {1} = 2..(M + 1)
  BY <1>0
<1>. QED  BY <1>5, <1>6, <1>7, <1>8

\* Taking the first neighbourhood off a batch takes its quota off what is left.
LEMMA QuotaOfFirst ==
    ASSUME NEW s, HasQuotas(s), s # <<>>
    PROVE  /\ HasQuotas(Tail(s)) /\ Head(s).quota \in Nat
           /\ QuotaLeft(s) = Head(s).quota + QuotaLeft(Tail(s))
<1>. DEFINE N == Len(s)
            f == Quotas(s)
            g == Quotas(Tail(s))
<1>1. N \in Nat /\ DOMAIN s = 1..N /\ f \in [1..N -> Nat] /\ s \in Seq(Range(s))
  BY QuotaIsNatural, AreSequences DEF HasQuotas
<1>2. N # 0
  BY <1>1
<1>3. Tail(s) \in Seq(Range(s)) /\ Len(Tail(s)) = N - 1 /\ DOMAIN Tail(s) = 1..(N - 1)
  BY <1>1, <1>2
<1>4. \A n \in 1..(N - 1) : Tail(s)[n] = s[n + 1]
  BY <1>1, <1>2
<1>5. g = [n \in 1..(N - 1) |-> f[n + 1]]
  <2>1. ASSUME NEW n \in 1..(N - 1) PROVE Tail(s)[n].quota = f[n + 1]
    <3>1. n + 1 \in DOMAIN s
      BY <1>1
    <3>. QED  BY <1>4, <3>1 DEF Quotas
  <2>. QED  BY <1>3, <2>1 DEF Quotas
<1>6. Head(s).quota = f[1] /\ f[1] \in Nat
  <2>1. 1 \in DOMAIN s /\ Head(s) = s[1]
    BY <1>1, <1>2
  <2>. QED  BY <1>1, <2>1 DEF Quotas
<1>7. HasQuotas(Tail(s))
  <2>1. IsSequence(Tail(s))
    BY <1>3, SeqIsSequence
  <2>2. \A n \in DOMAIN Tail(s) : Tail(s)[n].quota \in Nat
    <3>1. \A n \in 1..(N - 1) : n + 1 \in DOMAIN s
      BY <1>1
    <3>. QED  BY <1>3, <1>4, <3>1 DEF HasQuotas
  <2>. QED  BY <2>1, <2>2 DEF HasQuotas
<1>. HIDE DEF f, g, N
<1>8. Total(f) = f[1] + Total(g)
  BY <1>1, <1>2, <1>5, TotalShifts
<1>. QED  BY <1>6, <1>7, <1>8 DEF QuotaLeft, f, g

\* What a round has to do is a sequence of neighbourhoods.
LEMMA RoundIsSequence ==
    ASSUME NEW config, NEW plan, NEW results, NEW seen
    PROVE  IsSequence(BuildNeighbourhoods(config, plan, results, seen))
<1>. DEFINE layout(k) == results[k].layout
            all == UNION {ForLayout(config, plan, k, layout(k), Stars(layout(k)), Crafts(layout(k))) :
                              k \in 1..Min({EliteCandidates, Len(results)})}
            s == FirstOfKey(ByPriority({n \in all : Key(n) \notin seen}))
<1>1. BuildNeighbourhoods(config, plan, results, seen) = First(s, MaxNeighbourhoods)
  BY Zenon DEF BuildNeighbourhoods
<1>. HIDE DEF s
<1>2. MaxNeighbourhoods \in Nat
  BY LimitAssumption DEF LimitAssumption
<1>. QED  BY <1>1, <1>2, FirstIsSequence

-----------------------------------------------------------------------------
(* The inductive invariant of the nodes.                                    *)

\* What is counted is never negative.
Counters ==
    /\ nodes \in Nat /\ work \in Nat /\ spent \in Nat /\ used \in Nat /\ budget \in Nat
    /\ began \in Nat /\ quota \in Nat /\ level \in Nat /\ carried \in Int

\* Where a phase is within its stage.
Control ==
    /\ stage \in {"repair", "lns", "between", "walk", "done"}
    /\ stage = "repair" => phase \in {"round", "batch", "walk", "ended"}
    /\ stage = "lns" => phase \in {"level", "batch", "walk"}
    /\ stage = "between" => phase = "ended"
    /\ stage = "walk" => phase = "walking"
    /\ stage = "done" => phase \in {"ended", "walking"}

\* The nodes of the tasks that ended are no more than those tasks were given.
Given(s) == Total(Only(Parts(job.quota, Len(tasks)), s))
InWalk ==
    /\ IsSequence(tasks) /\ job.quota \in Nat
    /\ waiting \subseteq DOMAIN tasks /\ at \in {0} \cup (DOMAIN tasks \ waiting)
    /\ at = 0 => spent = 0
    /\ at # 0 => spent <= TaskBudget
    /\ work <= Given(DOMAIN tasks \ (waiting \cup {at}))

\* Outside the walk of a neighbourhood no task has nodes.
OutOfWalk == job = NoJob /\ work = 0 /\ spent = 0
TasksWithinQuota == IF phase = "walk" THEN InWalk ELSE OutOfWalk

\* What the neighbourhoods still to do were given, and the one being searched.
Pledged == (IF phase = "walk" THEN job.quota ELSE 0) + QuotaLeft(batch)

\* While a batch is worked on, its neighbourhoods have quotas.
Batched == phase \in {"batch", "walk"}
BatchHasQuotas == Batched => HasQuotas(batch)

\* Repair, the phases on the plateau, the walk and the rest of the solve: what is
\* spent, and what is pledged, is within what was given.
RepairWithinBudget ==
    stage = "repair" =>
        /\ used = 0 /\ nodes <= Cfg.repairNodes
        /\ Batched => nodes + Pledged <= Cfg.repairNodes
LNSWithinBudget ==
    stage = "lns" =>
        /\ level # 0 /\ nodes <= budget /\ used + budget <= Cfg.maxNodes
        /\ \A n \in DOMAIN Levels : IsSequence(ready[n])
        /\ Batched => /\ began <= nodes /\ began + quota <= budget
                      /\ nodes + Pledged <= began + quota
WalkWithinBudget == stage = "walk" => nodes <= budget /\ used + budget <= Cfg.maxNodes
RestWithinBudget == stage \in {"between", "done"} => used + nodes <= Cfg.maxNodes

\* The inductive invariant of the nodes.
IInv ==
    /\ PreparedIs /\ IsSequence(archive)
    /\ Counters /\ Control /\ TasksWithinQuota /\ BatchHasQuotas
    /\ RepairWithinBudget /\ LNSWithinBudget /\ WalkWithinBudget /\ RestWithinBudget
-----------------------------------------------------------------------------

\* No tasks were given no nodes.
LEMMA NoTasksNoNodes ==
    ASSUME NEW P
    PROVE  Total(Only(P, {})) = 0
<1>1. Summable(Only(P, {})) /\ DOMAIN Only(P, {}) = {}
  BY FS_EmptySet DEF Only, Summable
<1>. QED  BY <1>1, TotalRest

\* Whichever of its tasks, together they were given no more than the neighbourhood.
LEMMA TotalWithinQuota ==
    ASSUME NEW s, IsSequence(s), NEW q \in Nat, NEW t \in SUBSET DOMAIN s
    PROVE  Total(Only(Parts(q, Len(s)), t)) \in Nat /\ Total(Only(Parts(q, Len(s)), t)) <= q
<1>. DEFINE P == Parts(q, Len(s))
<1>0. Len(s) \in Nat /\ DOMAIN s = 1..Len(s)
  BY AreSequences DEF IsSequence
<1>1. CASE Len(s) = 0
  <2>1. t = {}
    BY <1>0, <1>1
  <2>2. Total(Only(P, {})) = 0
    BY NoTasksNoNodes
  <2>. QED  BY <2>1, <2>2
<1>2. CASE Len(s) # 0
  <2>0. Len(s) \in Nat \ {0}
    BY <1>0, <1>2
  <2>1. Summable(P) /\ DOMAIN P = DOMAIN s /\ P \in [DOMAIN s -> Nat] /\ IsFiniteSet(DOMAIN s)
    BY <1>0, <2>0, PartsAreSummable
  <2>2. Total(P) = q
    BY <2>0, PartsTotal
  <2>. HIDE DEF P
  <2>3. Only(P, DOMAIN P) = P
    BY <2>1 DEF Only
  <2>4. IsFiniteSet(DOMAIN P) /\ P \in [DOMAIN P -> Nat] /\ t \in SUBSET DOMAIN P
    BY <2>1
  <2>5. Total(Only(P, t)) \in Nat /\ Total(Only(P, t)) <= Total(Only(P, DOMAIN P))
    BY <2>4, TotalOfFewer
  <2>6. Total(Only(P, t)) \in Nat /\ Total(Only(P, t)) <= q
    BY <2>2, <2>3, <2>5
  <2>. QED  BY <2>6 DEF P
<1>. QED  BY <1>1, <1>2

\* One more task adds its own part.
LEMMA TotalWithOneMore ==
    ASSUME NEW s, IsSequence(s), NEW q \in Nat,
           NEW t \in SUBSET DOMAIN s, NEW x \in DOMAIN s \ t
    PROVE  /\ Part(q, Len(s), x) \in Nat
           /\ Total(Only(Parts(q, Len(s)), t \cup {x})) =
                  Part(q, Len(s), x) + Total(Only(Parts(q, Len(s)), t))
<1>. DEFINE P == Parts(q, Len(s))
<1>0. Len(s) \in Nat /\ DOMAIN s = 1..Len(s)
  BY AreSequences DEF IsSequence
<1>1. Len(s) \in Nat \ {0}
  BY <1>0
<1>2. Summable(P) /\ DOMAIN P = DOMAIN s /\ P \in [DOMAIN s -> Nat] /\ IsFiniteSet(DOMAIN s)
  BY <1>0, <1>1, PartsAreSummable
<1>3. P[x] = Part(q, Len(s), x) /\ P[x] \in Nat
  BY <1>0, <1>2 DEF Parts
<1>. HIDE DEF P
<1>4. Total(Only(P, t \cup {x})) = P[x] + Total(Only(P, t))
  BY <1>2, TotalGains
<1>5. /\ Part(q, Len(s), x) \in Nat
      /\ Total(Only(P, t \cup {x})) = Part(q, Len(s), x) + Total(Only(P, t))
  BY <1>3, <1>4
<1>. QED  BY <1>5 DEF P

\* What the walk of a neighbourhood visits.
LEMMA WalkWithinQuota ==
    ASSUME InWalk, Counters
    PROVE  work + spent <= job.quota
<1>. DEFINE t == DOMAIN tasks \ (waiting \cup {at})
<1>0. IsSequence(tasks) /\ job.quota \in Nat /\ work \in Nat /\ spent \in Nat
  BY DEF InWalk, Counters
<1>1. work <= Total(Only(Parts(job.quota, Len(tasks)), t))
  BY DEF InWalk, Given
<1>2. t \in SUBSET DOMAIN tasks
  OBVIOUS
<1>3. CASE at = 0
  <2>1. spent = 0
    BY <1>3 DEF InWalk
  <2>. HIDE DEF t
  <2>2. /\ Total(Only(Parts(job.quota, Len(tasks)), t)) \in Nat
        /\ Total(Only(Parts(job.quota, Len(tasks)), t)) <= job.quota
    BY <1>0, <1>2, TotalWithinQuota
  <2>. QED  BY <1>0, <1>1, <2>1, <2>2
<1>4. CASE at # 0
  <2>1. at \in DOMAIN tasks \ t
    BY <1>4 DEF InWalk
  <2>2. spent <= Part(job.quota, Len(tasks), at)
    BY <1>4 DEF InWalk, TaskBudget
  <2>. HIDE DEF t
  <2>3. /\ Total(Only(Parts(job.quota, Len(tasks)), t)) \in Nat
        /\ Total(Only(Parts(job.quota, Len(tasks)), t \cup {at})) <= job.quota
        /\ Part(job.quota, Len(tasks), at) \in Nat
        /\ Total(Only(Parts(job.quota, Len(tasks)), t \cup {at})) =
               Part(job.quota, Len(tasks), at) + Total(Only(Parts(job.quota, Len(tasks)), t))
    <3>1. t \cup {at} \in SUBSET DOMAIN tasks
      BY <1>2, <2>1
    <3>. QED  BY <1>0, <1>2, <2>1, <3>1, TotalWithinQuota, TotalWithOneMore
  <2>. QED  BY <1>0, <1>1, <2>2, <2>3
<1>. QED  BY <1>3, <1>4

\* Where the inductive invariant holds nothing has spent more than it was given.
LEMMA InvariantKeepsBudgets ==
    IInv => BudgetsAreKept
<1>. SUFFICES ASSUME IInv PROVE BudgetsAreKept
  OBVIOUS
<1>0. Counters
  BY DEF IInv
<1>1. CASE phase = "walk"
  <2>1. InWalk /\ HasQuotas(batch)
    BY <1>1 DEF IInv, TasksWithinQuota, BatchHasQuotas, Batched
  <2>2. work + spent <= job.quota
    BY <1>0, <2>1, WalkWithinQuota
  <2>3. QuotaLeft(batch) \in Nat /\ job.quota \in Nat
    BY <2>1, QuotaIsNatural DEF InWalk
  <2>4. stage \in {"repair", "lns"}
    BY <1>1 DEF IInv, Control
  <2>5. CASE stage = "repair"
    <3>1. nodes + (job.quota + QuotaLeft(batch)) <= Cfg.repairNodes /\ used = 0
      BY <1>1, <2>5 DEF IInv, RepairWithinBudget, Batched, Pledged
    <3>2. Cfg.repairNodes <= Cfg.maxNodes /\ Cfg.repairNodes \in Nat /\ Cfg.maxNodes \in Nat
      BY RepairAssumption, PhaseAssumption DEF IInv, PreparedIs, RepairAssumption, PhaseAssumption, Cfg
    <3>. QED  BY <1>0, <1>1, <2>2, <2>3, <2>5, <3>1, <3>2 DEF BudgetsAreKept, Spending, Counters, InLevel
  <2>6. CASE stage = "lns"
    <3>1. /\ nodes + (job.quota + QuotaLeft(batch)) <= began + quota /\ began + quota <= budget
          /\ used + budget <= Cfg.maxNodes
      BY <1>1, <2>6 DEF IInv, LNSWithinBudget, Batched, Pledged
    <3>2. Cfg.maxNodes \in Nat
      BY PhaseAssumption DEF IInv, PreparedIs, PhaseAssumption, Cfg
    <3>. QED  BY <1>0, <1>1, <2>2, <2>3, <2>6, <3>1, <3>2 DEF BudgetsAreKept, Spending, Counters, InLevel
  <2>. QED  BY <2>4, <2>5, <2>6
<1>2. CASE phase # "walk"
  <2>1. job = NoJob /\ work = 0 /\ spent = 0
    BY <1>2 DEF IInv, TasksWithinQuota, OutOfWalk
  <2>2. Cfg.repairNodes <= Cfg.maxNodes /\ Cfg.repairNodes \in Nat /\ Cfg.maxNodes \in Nat
    BY RepairAssumption, PhaseAssumption DEF IInv, PreparedIs, RepairAssumption, PhaseAssumption, Cfg
  <2>3. stage = "repair" => used = 0 /\ nodes <= Cfg.repairNodes
    BY DEF IInv, RepairWithinBudget
  <2>4. stage = "lns" => nodes <= budget /\ used + budget <= Cfg.maxNodes
    BY DEF IInv, LNSWithinBudget
  <2>5. stage = "walk" => nodes <= budget /\ used + budget <= Cfg.maxNodes
    BY DEF IInv, WalkWithinBudget
  <2>6. stage \in {"between", "done"} => used + nodes <= Cfg.maxNodes
    BY DEF IInv, RestWithinBudget
  <2>7. stage = "lns" /\ phase = "batch" => nodes <= began + quota
    <3>1. SUFFICES ASSUME stage = "lns", phase = "batch" PROVE nodes <= began + quota
      OBVIOUS
    <3>2. HasQuotas(batch)
      BY <3>1 DEF IInv, BatchHasQuotas, Batched
    <3>3. QuotaLeft(batch) \in Nat
      BY <3>2, QuotaIsNatural
    <3>4. nodes + (0 + QuotaLeft(batch)) <= began + quota
      BY <3>1 DEF IInv, LNSWithinBudget, Batched, Pledged
    <3>. QED  BY <1>0, <3>3, <3>4 DEF Counters
  <2>8. stage \in {"repair", "lns", "between", "walk", "done"}
    BY DEF IInv, Control
  <2>. QED  BY <1>0, <1>2, <2>1, <2>2, <2>3, <2>4, <2>5, <2>6, <2>7, <2>8 DEF BudgetsAreKept, Spending, Counters, InLevel
<1>. QED  BY <1>1, <1>2
-----------------------------------------------------------------------------

\* The layouts of the seed search are a sequence.
LEMMA SeedsAreFound ==
    ASSUME PreparedIs
    PROVE  IsSequence(prepared.found)
<1>. DEFINE s == [n \in DOMAIN Cfg.seeds |-> Solution(Cfg.seeds[n], Cfg)]
<1>1. prepared.found = s
  BY DEF PreparedIs, PlanOf, PlanWith
<1>2. Cfg.seeds \in Seq(Range(Cfg.seeds))
  BY RepairAssumption DEF PreparedIs, RepairAssumption, Cfg
<1>3. Len(Cfg.seeds) \in Nat /\ DOMAIN Cfg.seeds = 1..Len(Cfg.seeds)
  BY <1>2
<1>4. s = [n \in 1..Len(Cfg.seeds) |-> s[n]]
  BY <1>3
<1>. HIDE DEF s
<1>. QED  BY <1>1, <1>3, <1>4, SequencesAre

\* The invariant holds when repair begins.
LEMMA InvariantHoldsAtFirst ==
    Init => IInv
<1>. SUFFICES ASSUME Init PROVE IInv
  OBVIOUS
<1>1. PreparedIs
  BY DEF Init, RepairInit, PreparedIs
<1>2. IsSequence(archive)
  <2>1. prepared.found \in Seq(Range(prepared.found))
    BY <1>1, SeedsAreFound, AreSequences
  <2>2. archive \in Seq(Range(prepared.found))
    BY <2>1, ObserveAllIn DEF Init, RepairInit
  <2>. QED  BY <2>2, SeqIsSequence
<1>3. Counters /\ Control
  BY DEF Init, RepairInit, Counters, Control
<1>4. TasksWithinQuota /\ BatchHasQuotas
  BY DEF Init, RepairInit, TasksWithinQuota, OutOfWalk, BatchHasQuotas, Batched
<1>5. 0 <= Cfg.repairNodes
  BY <1>1, RepairAssumption DEF PreparedIs, RepairAssumption, Cfg
<1>6. RepairWithinBudget /\ LNSWithinBudget /\ WalkWithinBudget /\ RestWithinBudget
  BY <1>5 DEF Init, RepairInit, RepairWithinBudget, LNSWithinBudget, WalkWithinBudget, RestWithinBudget, Batched
<1>. QED  BY <1>1, <1>2, <1>3, <1>4, <1>6 DEF IInv

-----------------------------------------------------------------------------
(* The walk of a neighbourhood.                                             *)

\* What the invariant looks at.
readVars ==
    <<fixedVars, stage, phase, batch, nodes, job, tasks, waiting, at, spent, work, archive,
      used, budget, ready, level, carried, quota, began>>

\* What the invariant does not look at leaves it as it is.
LEMMA InvariantIsStable ==
    IInv /\ UNCHANGED readVars => IInv'
<1>. SUFFICES ASSUME IInv, UNCHANGED readVars PROVE IInv'
  OBVIOUS
<1>1. PreparedIs' /\ IsSequence(archive)'
  BY DEF IInv, readVars, fixedVars, PreparedIs, Cfg
<1>2. Counters' /\ Control' /\ BatchHasQuotas'
  BY DEF IInv, readVars, Counters, Control, BatchHasQuotas, Batched
<1>3. TasksWithinQuota'
  BY DEF IInv, readVars, TasksWithinQuota, InWalk, OutOfWalk, Given, TaskBudget
<1>4. RepairWithinBudget' /\ LNSWithinBudget'
  BY DEF IInv, readVars, fixedVars, RepairWithinBudget, LNSWithinBudget, Batched, Pledged, Cfg, Levels
<1>5. WalkWithinBudget' /\ RestWithinBudget'
  BY DEF IInv, readVars, fixedVars, WalkWithinBudget, RestWithinBudget, Cfg
<1>. QED  BY <1>1, <1>2, <1>3, <1>4, <1>5 DEF IInv

\* What was prepared stays for the whole solve.
LEMMA PreparedStays ==
    ASSUME PreparedIs, UNCHANGED fixedVars
    PROVE  PreparedIs' /\ Cfg' = Cfg /\ Levels' = Levels
BY DEF PreparedIs, fixedVars, Cfg, Levels

\* What a step of the walk of a neighbourhood leaves alone.
restVars ==
    <<fixedVars, stage, phase, batch, nodes, job, tasks, used, budget, ready, level, carried, quota, began>>

\* A step of the walk of a neighbourhood has only that walk to account for.
LEMMA WalkStepKeeps ==
    ASSUME IInv, phase = "walk", UNCHANGED restVars, IsSequence(archive)',
           work' \in Nat, spent' \in Nat, InWalk'
    PROVE  IInv'
<1>1. PreparedIs'
  BY PreparedStays DEF IInv, restVars
<1>2. Counters' /\ Control' /\ BatchHasQuotas'
  BY DEF IInv, restVars, Counters, Control, BatchHasQuotas, Batched
<1>3. TasksWithinQuota'
  BY DEF restVars, TasksWithinQuota
<1>4. RepairWithinBudget' /\ LNSWithinBudget'
  BY DEF IInv, restVars, fixedVars, RepairWithinBudget, LNSWithinBudget, Batched, Pledged, Cfg, Levels
<1>5. WalkWithinBudget' /\ RestWithinBudget'
  BY DEF IInv, restVars, fixedVars, WalkWithinBudget, RestWithinBudget, Cfg
<1>. QED  BY <1>1, <1>2, <1>3, <1>4, <1>5 DEF IInv

\* The index of a task is never that of no task.
LEMMA TasksAreNumbered ==
    ASSUME InWalk
    PROVE  /\ Len(tasks) \in Nat /\ DOMAIN tasks = 1..Len(tasks) /\ 0 \notin DOMAIN tasks
           /\ DOMAIN tasks \in SUBSET Nat
<1>1. Len(tasks) \in Nat /\ DOMAIN tasks = 1..Len(tasks)
  BY AreSequences DEF InWalk, IsSequence
<1>. QED  BY <1>1

\* A task starts with nothing visited, and its budget is its own part.
LEMMA StartTaskKeeps ==
    ASSUME IInv, StartTask, UNCHANGED <<used, budget, lnsVars>>
    PROVE  IInv'
<1>0. InWalk /\ Counters /\ IsSequence(archive)
  BY DEF IInv, TasksWithinQuota, StartTask
<1>1. phase = "walk" /\ UNCHANGED restVars
  BY DEF StartTask, restVars, fixedVars, roundVars, lnsVars
<1>2. at = 0 /\ waiting # {} /\ UNCHANGED <<job, tasks, work, archive>> /\ waiting' = waiting \ {at'} /\ spent' = 0
  BY DEF StartTask, roundVars
<1>3. at' \in waiting
  <2>1. CASE Cfg.workers > 1
    BY <2>1 DEF StartTask
  <2>2. CASE ~(Cfg.workers > 1)
    <3>1. at' = Min(waiting)
      BY <2>2 DEF StartTask
    <3>2. waiting \in SUBSET Nat
      BY <1>0, TasksAreNumbered DEF InWalk
    <3>3. \E m \in waiting : \A n \in waiting : m <= n
      BY <1>2, <3>2, LeastNatural
    <3>. QED  BY <3>1, <3>3 DEF Min
  <2>. QED  BY <2>1, <2>2
<1>4. waiting \subseteq DOMAIN tasks /\ at' # 0 /\ Len(tasks) \in Nat \ {0} /\ at' \in DOMAIN tasks /\ DOMAIN tasks = 1..Len(tasks)
  BY <1>0, <1>3, TasksAreNumbered DEF InWalk
<1>5. waiting' \subseteq DOMAIN tasks' /\ at' \in DOMAIN tasks' \ waiting'
  BY <1>2, <1>4
<1>6. spent' <= TaskBudget'
  <2>1. Part(job.quota, Len(tasks), at') \in Nat
    <3>1. {} \in SUBSET DOMAIN tasks /\ at' \in DOMAIN tasks \ {}
      BY <1>4
    <3>2. IsSequence(tasks) /\ job.quota \in Nat
      BY <1>0 DEF InWalk
    <3>. QED  BY <3>1, <3>2, TotalWithOneMore
  <2>2. TaskBudget' = Part(job.quota, Len(tasks), at')
    BY <1>2 DEF TaskBudget
  <2>. QED  BY <1>2, <2>1, <2>2
<1>7. work' <= Given(DOMAIN tasks \ (waiting \cup {at}))'
  <2>1. DOMAIN tasks \ (waiting \cup {at}) = DOMAIN tasks \ (waiting' \cup {at'})
    BY <1>0, <1>2, <1>3, TasksAreNumbered
  <2>2. work <= Given(DOMAIN tasks \ (waiting' \cup {at'}))
    BY <1>0, <2>1 DEF InWalk
  <2>. QED  BY <1>2, <2>2 DEF Given
<1>8. InWalk'
  <2>1. IsSequence(tasks)' /\ (job.quota \in Nat)'
    BY <1>0, <1>2 DEF InWalk
  <2>. QED  BY <1>4, <1>5, <1>6, <1>7, <2>1 DEF InWalk
<1>9. work' \in Nat /\ spent' \in Nat /\ IsSequence(archive)'
  BY <1>0, <1>2 DEF Counters
<1>. QED  BY <1>1, <1>8, <1>9, WalkStepKeeps

\* A visit counts one node while the task has one left.
LEMMA VisitKeeps ==
    ASSUME IInv, NEW next, Visit(next), IsSequence(archive'), UNCHANGED <<used, budget, lnsVars>>
    PROVE  IInv'
<1>0. Walking /\ phase = "walk" /\ at # 0 /\ spent < TaskBudget
  BY DEF Visit, Walking
<1>1. InWalk /\ Counters
  BY <1>0 DEF IInv, TasksWithinQuota
<1>2. UNCHANGED restVars /\ UNCHANGED <<job, tasks, waiting, at, work>> /\ spent' = spent + 1
  BY DEF Visit, restVars, fixedVars, roundVars, taskVars, lnsVars
<1>3. spent \in Nat /\ work \in Nat
  BY <1>1 DEF Counters
<1>4. TaskBudget \in Nat
  <2>1. IsSequence(tasks) /\ job.quota \in Nat /\ at \in DOMAIN tasks \ {} /\ {} \in SUBSET DOMAIN tasks
    BY <1>0, <1>1 DEF InWalk
  <2>. QED  BY <2>1, TotalWithOneMore DEF TaskBudget
<1>5. TaskBudget' = TaskBudget
  BY <1>2 DEF TaskBudget
<1>6. spent' <= TaskBudget'
  BY <1>0, <1>2, <1>3, <1>4, <1>5
<1>7. InWalk'
  BY <1>0, <1>1, <1>2, <1>6 DEF InWalk, Given
<1>8. work' \in Nat /\ spent' \in Nat
  BY <1>2, <1>3
<1>. QED  BY <1>0, <1>2, <1>7, <1>8, WalkStepKeeps

\* A task that ends hands its nodes to those of the tasks that ended.
LEMMA EndTaskKeeps ==
    ASSUME IInv, EndTask, UNCHANGED <<used, budget, lnsVars>>
    PROVE  IInv'
<1>0. InWalk /\ Counters /\ IsSequence(archive) /\ phase = "walk" /\ at # 0
  BY DEF IInv, TasksWithinQuota, EndTask
<1>1. UNCHANGED restVars
  BY DEF EndTask, restVars, fixedVars, roundVars, lnsVars
<1>2. UNCHANGED <<job, tasks, waiting, archive>> /\ work' = work + spent /\ spent' = 0 /\ at' = 0
  BY DEF EndTask, roundVars
<1>. DEFINE t == DOMAIN tasks \ (waiting \cup {at})
<1>3. work \in Nat /\ spent \in Nat /\ work <= Given(t)
  BY <1>0 DEF InWalk, Counters
<1>4. spent <= TaskBudget
  BY <1>0 DEF InWalk
<1>5. IsSequence(tasks) /\ job.quota \in Nat /\ at \in DOMAIN tasks \ t /\ t \in SUBSET DOMAIN tasks
  BY <1>0 DEF InWalk
<1>6. DOMAIN tasks \ (waiting \cup {0}) = t \cup {at}
  BY <1>0, TasksAreNumbered DEF InWalk
<1>7. Given(t \cup {at}) = TaskBudget + Given(t) /\ Given(t) \in Nat /\ TaskBudget \in Nat
  <2>. HIDE DEF t
  <2>. QED  BY <1>5, TotalWithinQuota, TotalWithOneMore DEF Given, TaskBudget
<1>8. work + spent <= Given(t \cup {at})
  <2>. HIDE DEF t
  <2>. QED  BY <1>3, <1>4, <1>7
<1>9. work' <= Given(DOMAIN tasks \ (waiting \cup {at}))'
  <2>1. Given(DOMAIN tasks \ (waiting \cup {at}))' = Given(t \cup {at})
    BY <1>2, <1>6 DEF Given
  <2>. HIDE DEF t
  <2>. QED  BY <1>2, <1>8, <2>1
<1>10. InWalk'
  <2>. HIDE DEF t
  <2>1. (waiting \subseteq DOMAIN tasks)' /\ IsSequence(tasks)' /\ (job.quota \in Nat)'
    BY <1>0, <1>2 DEF InWalk
  <2>. QED  BY <1>2, <1>9, <2>1 DEF InWalk
<1>11. work' \in Nat /\ spent' \in Nat /\ IsSequence(archive)'
  <2>. HIDE DEF t
  <2>. QED  BY <1>0, <1>2, <1>3
<1>. QED
  <2>. HIDE DEF t
  <2>. QED  BY <1>0, <1>1, <1>10, <1>11, WalkStepKeeps

\* The walk of a neighbourhood keeps the invariant, whatever the order of its tasks.
LEMMA WalkKeeps ==
    ASSUME IInv, WalkNext, UNCHANGED <<used, budget, lnsVars, stepVars>>
    PROVE  IInv'
<1>0. IsSequence(archive)
  BY DEF IInv
<1>1. CASE StartTask
  BY <1>1, StartTaskKeeps
<1>2. CASE Halt
  <2>1. Visit(todo) /\ IsSequence(archive')
    BY <1>0, <1>2 DEF Halt
  <2>. QED  BY <2>1, VisitKeeps
<1>3. CASE Prune
  <2>1. Visit(Tail(todo)) /\ IsSequence(archive')
    BY <1>0, <1>3 DEF Prune
  <2>. QED  BY <2>1, VisitKeeps
<1>4. CASE Descend
  <2>1. Visit(Children(Cfg, job.plan, Head(todo)) \o Tail(todo)) /\ IsSequence(archive')
    BY <1>0, <1>4 DEF Descend
  <2>. QED  BY <2>1, VisitKeeps
<1>5. CASE Complete
  <2>1. Visit(Tail(todo))
    BY <1>5 DEF Complete
  <2>2. archive' = archive \/ \E s : archive' = Observe(Cfg, archive, s)
    BY <1>5 DEF Complete, Accept
  <2>3. IsSequence(archive')
    BY <1>0, <2>2, ArchiveKeeps
  <2>. QED  BY <2>1, <2>3, VisitKeeps
<1>6. CASE EndTask
  BY <1>6, EndTaskKeeps
<1>. QED  BY <1>1, <1>2, <1>3, <1>4, <1>5, <1>6 DEF WalkNext

-----------------------------------------------------------------------------
(* Repair.                                                                  *)

\* A batch that was divided pledges all there was.
LEMMA DividedIsPledged ==
    ASSUME NEW ns, IsSequence(ns), ns # <<>>, NEW total \in Nat \ {0}
    PROVE  HasQuotas(Divided(ns, total)) /\ QuotaLeft(Divided(ns, total)) = total
<1>. DEFINE s == Divided(ns, total)
<1>1. /\ IsSequence(s) /\ \A n \in DOMAIN ns : s[n].quota \in Nat
      /\ DOMAIN s = DOMAIN ns /\ Total([n \in DOMAIN s |-> s[n].quota]) = total
  BY DividedEvenly
<1>. HIDE DEF s
<1>2. HasQuotas(s) /\ QuotaLeft(s) = total
  BY <1>1 DEF HasQuotas, QuotaLeft, Quotas
<1>. QED  BY <1>2 DEF s

\* The budgets of a configuration.
LEMMA BudgetsOfConfig ==
    ASSUME PreparedIs
    PROVE  /\ Cfg.repairNodes \in Nat /\ Cfg.maxNodes \in Nat /\ Cfg.repairNodes <= Cfg.maxNodes
           /\ Cfg.lnsPercent \in Nat /\ Cfg.refinePercent \in Nat
           /\ Len(Levels) \in Nat /\ DOMAIN Levels = 1..Len(Levels)
           /\ \A n \in DOMAIN Levels : Levels[n].bps \in Nat /\ Levels[n].minNodes \in Nat
<1>1. /\ Cfg.repairNodes \in Nat /\ Cfg.maxNodes \in Nat /\ Cfg.repairNodes <= Cfg.maxNodes
      /\ Cfg.lnsPercent \in Nat /\ Cfg.refinePercent \in Nat
  BY RepairAssumption, PhaseAssumption DEF PreparedIs, RepairAssumption, PhaseAssumption, Cfg
<1>2. Levels \in Seq(Range(Levels)) /\ \A lv \in Range(Levels) : lv.bps \in Nat /\ lv.minNodes \in Nat
  BY PhaseAssumption DEF PreparedIs, PhaseAssumption, Cfg, Levels
<1>3. Len(Levels) \in Nat /\ DOMAIN Levels = 1..Len(Levels) /\ \A n \in DOMAIN Levels : Levels[n] \in Range(Levels)
  BY <1>2 DEF Range
<1>. QED  BY <1>1, <1>2, <1>3

\* A step outside of the walks.
LEMMA QuietStep ==
    ASSUME IInv, phase # "walk", phase' # "walk", UNCHANGED <<fixedVars, archive, job, work, spent>>
    PROVE  /\ PreparedIs' /\ IsSequence(archive)' /\ TasksWithinQuota' /\ Cfg' = Cfg /\ Levels' = Levels
           /\ work \in Nat /\ spent \in Nat
<1>1. PreparedIs' /\ Cfg' = Cfg /\ Levels' = Levels
  BY PreparedStays DEF IInv
<1>2. IsSequence(archive)' /\ TasksWithinQuota' /\ work \in Nat /\ spent \in Nat
  BY DEF IInv, TasksWithinQuota, OutOfWalk, Counters
<1>. QED  BY <1>1, <1>2

\* A round pledges all repair has left.
LEMMA StartRoundKeeps ==
    ASSUME IInv, StartRound, UNCHANGED <<used, budget, lnsVars>>
    PROVE  IInv'
<1>0. /\ stage = "repair" /\ phase = "round" /\ nodes < Cfg.repairNodes
      /\ UNCHANGED <<fixedVars, stage, nodes, job, taskVars, walkVars>>
  BY DEF StartRound, Continuing
<1>1. PICK built \in {BuildNeighbourhoods(Cfg, prepared, elites, tried)} :
          /\ batch' = Divided(built, Cfg.repairNodes - nodes)
          /\ phase' = IF built = <<>> THEN "ended" ELSE "batch"
  BY DEF StartRound
<1>2. PreparedIs /\ Counters
  BY DEF IInv
<1>3. UNCHANGED <<stage, nodes, job, work, spent, archive, used, budget, ready, level, carried, quota, began>>
  BY <1>0 DEF taskVars, walkVars, lnsVars
<1>4. /\ PreparedIs' /\ IsSequence(archive)' /\ TasksWithinQuota' /\ Cfg' = Cfg /\ work \in Nat /\ spent \in Nat
  BY <1>0, <1>1, <1>3, QuietStep
<1>5. Counters' /\ Control'
  BY <1>0, <1>1, <1>2, <1>3 DEF Counters, Control
<1>6. used = 0
  BY <1>0 DEF IInv, RepairWithinBudget
<1>7. CASE built = <<>>
  <2>1. phase' = "ended"
    BY <1>1, <1>7
  <2>2. nodes <= Cfg.repairNodes
    BY <1>0 DEF IInv, RepairWithinBudget
  <2>3. BatchHasQuotas' /\ RepairWithinBudget'
    BY <2>1, <2>2, <1>0, <1>3, <1>4, <1>6 DEF BatchHasQuotas, Batched, RepairWithinBudget
  <2>4. LNSWithinBudget' /\ WalkWithinBudget' /\ RestWithinBudget'
    BY <1>0, <1>3 DEF LNSWithinBudget, WalkWithinBudget, RestWithinBudget
  <2>. QED  BY <1>4, <1>5, <2>3, <2>4 DEF IInv
<1>8. CASE built # <<>>
  <2>1. phase' = "batch" /\ batch' = Divided(built, Cfg.repairNodes - nodes)
    BY <1>1, <1>8
  <2>2. IsSequence(built)
    BY RoundIsSequence
  <2>3. Cfg.repairNodes - nodes \in Nat \ {0} /\ Cfg.repairNodes \in Nat /\ nodes \in Nat
    BY <1>0, <1>2, BudgetsOfConfig DEF Counters
  <2>4. HasQuotas(batch') /\ QuotaLeft(batch') = Cfg.repairNodes - nodes
    BY <1>8, <2>1, <2>2, <2>3, DividedIsPledged
  <2>5. BatchHasQuotas'
    BY <2>4 DEF BatchHasQuotas
  <2>6. Pledged' = Cfg.repairNodes - nodes
    <3>1. Pledged' = 0 + QuotaLeft(batch')
      BY <2>1 DEF Pledged
    <3>. QED  BY <2>3, <2>4, <3>1
  <2>7. RepairWithinBudget'
    BY <1>0, <1>3, <1>4, <1>6, <2>3, <2>6 DEF RepairWithinBudget
  <2>8. LNSWithinBudget' /\ WalkWithinBudget' /\ RestWithinBudget'
    BY <1>0, <1>3 DEF LNSWithinBudget, WalkWithinBudget, RestWithinBudget
  <2>. QED  BY <1>4, <1>5, <2>5, <2>7, <2>8 DEF IInv
<1>. QED  BY <1>7, <1>8

\* A round or repair that ends pledges nothing.
LEMMA EndRoundKeeps ==
    ASSUME IInv, EndRound \/ EndRepair, UNCHANGED <<used, budget, lnsVars>>
    PROVE  IInv'
<1>0. /\ stage = "repair" /\ phase \in {"round", "batch"} /\ phase' \in {"round", "ended"}
      /\ UNCHANGED <<fixedVars, stage, nodes, job, work, spent, archive, used, budget, ready, level, carried, quota, began>>
  BY DEF EndRound, EndRepair, InBatch, roundVars, taskVars, walkVars, lnsVars
<1>1. /\ PreparedIs' /\ IsSequence(archive)' /\ TasksWithinQuota' /\ Cfg' = Cfg
  BY <1>0, QuietStep
<1>2. Counters' /\ Control'
  BY <1>0 DEF IInv, Counters, Control
<1>3. BatchHasQuotas'
  BY <1>0 DEF BatchHasQuotas, Batched
<1>4. RepairWithinBudget'
  BY <1>0, <1>1 DEF IInv, RepairWithinBudget, Batched
<1>5. LNSWithinBudget' /\ WalkWithinBudget' /\ RestWithinBudget'
  BY <1>0 DEF LNSWithinBudget, WalkWithinBudget, RestWithinBudget
<1>. QED  BY <1>1, <1>2, <1>3, <1>4, <1>5 DEF IInv

\* Passing over a neighbourhood leaves its quota unspent.
LEMMA PassedOver ==
    ASSUME Counters, phase = "batch", phase' = "batch", HasQuotas(batch), batch # <<>>, batch' = Tail(batch)
    PROVE  HasQuotas(batch)' /\ Pledged \in Nat /\ Pledged' \in Nat /\ Pledged' <= Pledged
<1>1. /\ HasQuotas(Tail(batch)) /\ Head(batch).quota \in Nat
      /\ QuotaLeft(batch) = Head(batch).quota + QuotaLeft(Tail(batch))
  BY QuotaOfFirst
<1>2. QuotaLeft(Tail(batch)) \in Nat /\ QuotaLeft(batch) \in Nat
  BY <1>1, QuotaIsNatural
<1>3. Pledged = QuotaLeft(batch) /\ Pledged' = QuotaLeft(Tail(batch))
  BY <1>2 DEF Pledged
<1>. QED  BY <1>1, <1>2, <1>3

\* A neighbourhood that is passed over gives up its quota.
LEMMA PassOverKeeps ==
    ASSUME IInv, PassOver, UNCHANGED <<used, budget, lnsVars>>
    PROVE  IInv'
<1>0. /\ stage = "repair" /\ phase = "batch" /\ batch # <<>> /\ batch' = Tail(batch)
      /\ UNCHANGED <<fixedVars, stage, phase, nodes, job, work, spent, archive, used, budget, ready, level, carried, quota, began>>
  BY DEF PassOver, InBatch, StopBatch, roundVars, taskVars, walkVars, lnsVars
<1>1. /\ PreparedIs' /\ IsSequence(archive)' /\ TasksWithinQuota' /\ Cfg' = Cfg
  BY <1>0, QuietStep
<1>2. Counters' /\ Control'
  BY <1>0 DEF IInv, Counters, Control
<1>3. HasQuotas(batch)' /\ Pledged \in Nat /\ Pledged' \in Nat /\ Pledged' <= Pledged
  BY <1>0, PassedOver DEF IInv, BatchHasQuotas, Batched
<1>4. RepairWithinBudget'
  <2>1. used = 0 /\ nodes <= Cfg.repairNodes /\ nodes + Pledged <= Cfg.repairNodes
    BY <1>0 DEF IInv, RepairWithinBudget, Batched
  <2>2. nodes \in Nat /\ Cfg.repairNodes \in Nat
    BY BudgetsOfConfig DEF IInv, Counters
  <2>3. nodes + Pledged' <= Cfg.repairNodes
    BY <1>3, <2>1, <2>2
  <2>. QED  BY <1>0, <1>1, <2>1, <2>3 DEF RepairWithinBudget
<1>5. LNSWithinBudget' /\ WalkWithinBudget' /\ RestWithinBudget'
  BY <1>0 DEF LNSWithinBudget, WalkWithinBudget, RestWithinBudget
<1>. QED  BY <1>1, <1>2, <1>3, <1>4, <1>5 DEF IInv, BatchHasQuotas

\* A neighbourhood that starts takes its quota out of the batch.
LEMMA StartPledges ==
    ASSUME IInv, phase = "batch", batch # <<>>, NEW target, NEW incumbents,
           Start(Head(batch).of, Head(batch).quota, target, incumbents)
    PROVE  /\ PreparedIs' /\ IsSequence(archive)' /\ Cfg' = Cfg /\ Levels' = Levels
           /\ TasksWithinQuota' /\ BatchHasQuotas'
           /\ work' \in Nat /\ spent' \in Nat
           /\ Pledged' = Pledged /\ Batched' /\ Batched
           /\ phase' = "walk" /\ UNCHANGED <<stage, nodes>>
<1>0. PICK j \in {Job(PlanFor(RepairOrder(Head(batch).of.ids)), Head(batch).of.base, Head(batch).of.ids,
                      Head(batch).quota, target, incumbents)} : job' = j /\ tasks' = TasksOf(j)
  BY DEF Start
<1>1. /\ waiting' = DOMAIN tasks' /\ at' = 0 /\ work' = 0 /\ phase' = "walk" /\ batch' = Tail(batch)
      /\ UNCHANGED <<fixedVars, stage, nodes, spent, archive>>
  BY DEF Start, walkVars
<1>2. /\ PreparedIs' /\ IsSequence(archive)' /\ Cfg' = Cfg /\ Levels' = Levels
  BY <1>1, PreparedStays DEF IInv
<1>3. spent = 0 /\ HasQuotas(batch)
  BY DEF IInv, TasksWithinQuota, OutOfWalk, BatchHasQuotas, Batched
<1>4. /\ HasQuotas(Tail(batch)) /\ Head(batch).quota \in Nat
      /\ QuotaLeft(batch) = Head(batch).quota + QuotaLeft(Tail(batch))
  BY <1>3, QuotaOfFirst
<1>5. job'.quota = Head(batch).quota
  BY <1>0 DEF Job
<1>6. IsSequence(tasks')
  BY <1>0, TasksAreSequences DEF IInv
<1>7. TasksWithinQuota'
  <2>1. Given({})' \in Nat
    <3>1. Total(Only(Parts(job'.quota, Len(tasks')), {})) \in Nat
      BY <1>4, <1>5, <1>6, TotalWithinQuota
    <3>. QED  BY <3>1 DEF Given
  <2>2. (DOMAIN tasks \ (waiting \cup {at}))' = {}
    BY <1>1
  <2>3. (work <= Given(DOMAIN tasks \ (waiting \cup {at})))'
    <3>1. Given({})' = Given(DOMAIN tasks \ (waiting \cup {at}))'
      BY <2>2 DEF Given
    <3>2. 0 <= Given({})'
      BY <2>1
    <3>. QED  BY <1>1, <3>1, <3>2
  <2>4. InWalk'
    BY <1>1, <1>3, <1>4, <1>5, <1>6, <2>3 DEF InWalk
  <2>. QED  BY <1>1, <2>4 DEF TasksWithinQuota
<1>8. BatchHasQuotas'
  BY <1>1, <1>4 DEF BatchHasQuotas
<1>9. Pledged' = Pledged /\ Batched' /\ Batched
  <2>1. QuotaLeft(Tail(batch)) \in Nat
    BY <1>4, QuotaIsNatural
  <2>2. Pledged' = Head(batch).quota + QuotaLeft(Tail(batch))
    BY <1>1, <1>5 DEF Pledged
  <2>3. Pledged = QuotaLeft(batch)
    BY <1>4, <2>1 DEF Pledged
  <2>. QED  BY <1>1, <1>4, <2>2, <2>3 DEF Batched
<1>. QED  BY <1>1, <1>2, <1>3, <1>7, <1>8, <1>9

\* A neighbourhood of a round is searched with its quota.
LEMMA StartRepairKeeps ==
    ASSUME IInv, StartRepair, UNCHANGED <<used, budget, lnsVars>>
    PROVE  IInv'
<1>0. /\ stage = "repair" /\ phase = "batch" /\ batch # <<>>
      /\ Start(Head(batch).of, Head(batch).quota, <<>>, elites)
      /\ UNCHANGED <<used, budget, ready, level, carried, quota, began>>
  BY DEF StartRepair, InBatch, StopBatch, lnsVars
<1>1. /\ PreparedIs' /\ IsSequence(archive)' /\ Cfg' = Cfg /\ TasksWithinQuota' /\ BatchHasQuotas'
      /\ work' \in Nat /\ spent' \in Nat /\ Pledged' = Pledged /\ Batched
      /\ phase' = "walk" /\ UNCHANGED <<stage, nodes>>
  BY <1>0, StartPledges
<1>2. Counters' /\ Control'
  BY <1>0, <1>1 DEF IInv, Counters, Control
<1>3. RepairWithinBudget'
  BY <1>0, <1>1 DEF IInv, RepairWithinBudget
<1>4. LNSWithinBudget' /\ WalkWithinBudget' /\ RestWithinBudget'
  BY <1>0, <1>1 DEF LNSWithinBudget, WalkWithinBudget, RestWithinBudget
<1>. QED  BY <1>1, <1>2, <1>3, <1>4 DEF IInv

\* A neighbourhood that was searched spent no more than its quota.
LEMMA SearchedWithinPledge ==
    ASSUME IInv, Searched, phase' = "batch", nodes' = nodes + work, work' = 0, job' = NoJob,
           UNCHANGED <<fixedVars, batch, spent, archive>>
    PROVE  /\ PreparedIs' /\ IsSequence(archive)' /\ Cfg' = Cfg /\ Levels' = Levels
           /\ TasksWithinQuota' /\ BatchHasQuotas' /\ Batched
           /\ work \in Nat /\ spent' \in Nat /\ nodes' \in Nat /\ Pledged \in Nat /\ Pledged' \in Nat
           /\ nodes' + Pledged' <= nodes + Pledged
<1>0. phase = "walk" /\ at = 0
  BY DEF Searched
<1>1. InWalk /\ Counters /\ HasQuotas(batch)
  BY <1>0 DEF IInv, TasksWithinQuota, BatchHasQuotas, Batched
<1>2. /\ PreparedIs' /\ IsSequence(archive)' /\ Cfg' = Cfg /\ Levels' = Levels
  BY PreparedStays DEF IInv
<1>3. spent = 0 /\ job.quota \in Nat /\ work \in Nat /\ nodes \in Nat
  BY <1>0, <1>1 DEF InWalk, Counters
<1>4. work <= job.quota
  <2>1. work + spent <= job.quota
    BY <1>1, WalkWithinQuota
  <2>. QED  BY <1>3, <2>1
<1>5. QuotaLeft(batch) \in Nat
  BY <1>1, QuotaIsNatural
<1>6. TasksWithinQuota' /\ BatchHasQuotas'
  BY <1>1, <1>3 DEF TasksWithinQuota, OutOfWalk, BatchHasQuotas, NoJob
<1>7. Pledged = job.quota + QuotaLeft(batch) /\ Pledged' = 0 + QuotaLeft(batch)
  BY <1>0 DEF Pledged
<1>. QED  BY <1>0, <1>2, <1>3, <1>4, <1>5, <1>6, <1>7 DEF Batched

\* No more than what is within a limit is within it.
LEMMA StaysWithin ==
    ASSUME NEW a \in Nat, NEW b \in Nat, NEW c \in Nat, NEW d \in Nat, NEW e \in Nat,
           a + b <= c + d, c + d <= e
    PROVE  a + b <= e /\ a <= e
OBVIOUS

\* Repair counts the nodes of a neighbourhood that was searched.
LEMMA MergeRepairKeeps ==
    ASSUME IInv, MergeRepair, UNCHANGED <<used, budget, lnsVars>>
    PROVE  IInv'
<1>0. /\ stage = "repair" /\ Searched /\ phase' = "batch" /\ nodes' = nodes + work /\ work' = 0 /\ job' = NoJob
      /\ UNCHANGED <<fixedVars, stage, batch, spent, archive, used, budget, ready, level, carried, quota, began>>
  BY DEF MergeRepair, walkVars, lnsVars
<1>1. /\ PreparedIs' /\ IsSequence(archive)' /\ Cfg' = Cfg /\ TasksWithinQuota' /\ BatchHasQuotas' /\ Batched
      /\ spent' \in Nat /\ nodes' \in Nat /\ Pledged \in Nat /\ Pledged' \in Nat
      /\ nodes' + Pledged' <= nodes + Pledged
  BY <1>0, SearchedWithinPledge
<1>2. Counters' /\ Control'
  BY <1>0, <1>1 DEF IInv, Counters, Control
<1>3. RepairWithinBudget'
  <2>1. used = 0 /\ nodes + Pledged <= Cfg.repairNodes
    BY <1>0, <1>1 DEF IInv, RepairWithinBudget
  <2>2. nodes \in Nat /\ Cfg.repairNodes \in Nat
    BY BudgetsOfConfig DEF IInv, Counters
  <2>3. nodes' + Pledged' <= Cfg.repairNodes /\ nodes' <= Cfg.repairNodes
    <3>1. nodes' \in Nat /\ Pledged \in Nat /\ Pledged' \in Nat
      BY <1>1
    <3>2. nodes' + Pledged' <= nodes + Pledged
      BY <1>1
    <3>3. nodes + Pledged <= Cfg.repairNodes
      BY <2>1
    <3>. QED  BY <2>2, <3>1, <3>2, <3>3, StaysWithin
  <2>. QED  BY <1>0, <1>1, <2>1, <2>3 DEF RepairWithinBudget
<1>4. LNSWithinBudget' /\ WalkWithinBudget' /\ RestWithinBudget'
  BY <1>0, <1>1 DEF LNSWithinBudget, WalkWithinBudget, RestWithinBudget
<1>. QED  BY <1>1, <1>2, <1>3, <1>4 DEF IInv

\* Every step of repair keeps the invariant.
LEMMA RepairKeeps ==
    ASSUME IInv, RepairNext, UNCHANGED <<used, budget, lnsVars, stepVars>>
    PROVE  IInv'
<1>0. UNCHANGED <<used, budget, lnsVars>>
  OBVIOUS
<1>1. CASE Cancel
  <2>1. UNCHANGED readVars
    BY <1>0, <1>1 DEF Cancel, readVars, fixedVars, roundVars, taskVars, walkVars, lnsVars
  <2>. QED  BY <2>1, InvariantIsStable
<1>2. CASE StartRound
  BY <1>0, <1>2, StartRoundKeeps
<1>3. CASE EndRound \/ EndRepair
  BY <1>0, <1>3, EndRoundKeeps
<1>4. CASE PassOver
  BY <1>0, <1>4, PassOverKeeps
<1>5. CASE StartRepair
  BY <1>0, <1>5, StartRepairKeeps
<1>6. CASE MergeRepair
  BY <1>0, <1>6, MergeRepairKeeps
<1>7. CASE WalkNext
  BY <1>7, WalkKeeps
<1>. QED  BY <1>1, <1>2, <1>3, <1>4, <1>5, <1>6, <1>7 DEF RepairNext

-----------------------------------------------------------------------------
(* The phases of the plateau.                                               *)

\* A percentage of nodes is a whole number of them.
LEMMA PercentIsInteger ==
    ASSUME NEW n \in Nat, NEW d \in Nat \ {0}
    PROVE  n \div d \in Int
OBVIOUS

\* What a phase may be given is left of the nodes of the solve.
LEMMA PhaseBudgetIsLeft ==
    ASSUME PreparedIs, Counters, NEW percent \in Nat
    PROVE  PhaseBudget(percent) \in Int /\ PhaseBudget(percent) <= Cfg.maxNodes - used - nodes
<1>1. Cfg.maxNodes \in Nat /\ used \in Nat /\ nodes \in Nat
  BY BudgetsOfConfig DEF Counters
<1>2. Cfg.maxNodes * percent \in Nat
  BY <1>1
<1>3. 100 \in Nat \ {0}
  OBVIOUS
<1>4. (Cfg.maxNodes * percent) \div 100 \in Int
  BY <1>2, <1>3, PercentIsInteger
<1>5. Cfg.maxNodes - used - nodes \in Int
  BY <1>1
<1>. QED  BY <1>4, <1>5, LeastOfTwo DEF PhaseBudget

\* Before the plateau the solve has spent no more than its limit.
LEMMA BeforePlateau ==
    ASSUME IInv, RepairEnded \/ stage = "between"
    PROVE  phase = "ended" /\ phase # "walk" /\ used + nodes <= Cfg.maxNodes
<1>1. CASE RepairEnded
  <2>1. stage = "repair" /\ phase = "ended" /\ used = 0 /\ nodes <= Cfg.repairNodes
    BY <1>1 DEF RepairEnded, IInv, RepairWithinBudget
  <2>2. Cfg.repairNodes <= Cfg.maxNodes /\ Cfg.repairNodes \in Nat /\ Cfg.maxNodes \in Nat /\ nodes \in Nat
    BY BudgetsOfConfig DEF IInv, Counters
  <2>. QED  BY <2>1, <2>2
<1>2. CASE stage = "between"
  BY <1>2 DEF IInv, Control, RestWithinBudget
<1>. QED  BY <1>1, <1>2

\* The search ends: Abandon, NoWalk, EndLNS and EndWalk.
LEMMA RestKeeps ==
    ASSUME IInv, phase # "walk", stage' \in {"between", "done"}, Control',
           UNCHANGED <<fixedVars, batch, nodes, job, work, spent, archive, used, budget, level, carried, quota, began>>,
           used + nodes <= Cfg.maxNodes
    PROVE  IInv'
<1>0. phase' # "walk" /\ phase' # "batch"
  BY DEF Control
<1>1. /\ PreparedIs' /\ IsSequence(archive)' /\ TasksWithinQuota' /\ Cfg' = Cfg
  BY <1>0, QuietStep
<1>2. Counters'
  BY DEF IInv, Counters
<1>3. BatchHasQuotas'
  BY <1>0 DEF BatchHasQuotas, Batched
<1>4. RepairWithinBudget' /\ LNSWithinBudget' /\ WalkWithinBudget'
  BY DEF RepairWithinBudget, LNSWithinBudget, WalkWithinBudget
<1>5. RestWithinBudget'
  BY <1>1 DEF RestWithinBudget
<1>. QED  BY <1>1, <1>2, <1>3, <1>4, <1>5 DEF IInv

\* A canceled solve is abandoned with what it spent.
LEMMA AbandonKeeps ==
    IInv /\ Abandon => IInv'
<1>. SUFFICES ASSUME IInv, Abandon PROVE IInv'
  OBVIOUS
<1>1. phase = "ended" /\ phase # "walk" /\ used + nodes <= Cfg.maxNodes
  BY BeforePlateau DEF Abandon
<1>2. UNCHANGED <<fixedVars, phase, batch, nodes, job, work, spent, archive, used, budget, level, carried, quota, began>>
  BY DEF Abandon, taskVars, walkVars, lnsVars
<1>3. stage' = "done"
  BY DEF Abandon
<1>4. Control'
  BY <1>1, <1>2, <1>3 DEF Control
<1>. QED  BY <1>1, <1>2, <1>3, <1>4, RestKeeps

\* A solve without a walk ends with what it spent.
LEMMA NoWalkKeeps ==
    IInv /\ NoWalk => IInv'
<1>. SUFFICES ASSUME IInv, NoWalk PROVE IInv'
  OBVIOUS
<1>1. phase = "ended" /\ phase # "walk" /\ used + nodes <= Cfg.maxNodes
  BY BeforePlateau DEF NoWalk, BeforeWalk
<1>2. UNCHANGED <<fixedVars, phase, batch, nodes, job, work, spent, archive, used, budget, level, carried, quota, began>>
  BY DEF NoWalk, roundVars, taskVars, walkVars, lnsVars
<1>3. stage' = "done"
  BY DEF NoWalk
<1>4. Control'
  BY <1>1, <1>2, <1>3 DEF Control
<1>. QED  BY <1>1, <1>2, <1>3, <1>4, RestKeeps

\* The nodes of a phase that ends are within the limit of the solve.
LEMMA SpentOfPhase ==
    ASSUME IInv, nodes <= budget, used + budget <= Cfg.maxNodes
    PROVE  used + nodes <= Cfg.maxNodes
<1>1. nodes \in Nat /\ used \in Nat /\ budget \in Nat /\ Cfg.maxNodes \in Nat
  BY BudgetsOfConfig DEF IInv, Counters
<1>. QED  BY <1>1

\* The repairs on the plateau end.
LEMMA EndLNSKeeps ==
    IInv /\ EndLNS => IInv'
<1>. SUFFICES ASSUME IInv, EndLNS PROVE IInv'
  OBVIOUS
<1>1. stage = "lns" /\ phase = "level" /\ stage' = "between" /\ phase' = "ended"
  BY DEF EndLNS
<1>2. UNCHANGED <<fixedVars, batch, nodes, job, work, spent, archive, used, budget, level, carried, quota, began>>
  BY DEF EndLNS, taskVars, walkVars, lnsVars
<1>3. Control'
  BY <1>1 DEF Control
<1>4. used + nodes <= Cfg.maxNodes
  BY <1>1, SpentOfPhase DEF IInv, LNSWithinBudget
<1>. QED  BY <1>1, <1>2, <1>3, <1>4, RestKeeps

\* The walk ends.
LEMMA EndWalkKeeps ==
    IInv /\ EndWalk => IInv'
<1>. SUFFICES ASSUME IInv, EndWalk PROVE IInv'
  OBVIOUS
<1>1. stage = "walk" /\ phase = "walking" /\ stage' = "done"
  BY DEF EndWalk, IInv, Control
<1>2. UNCHANGED <<fixedVars, phase, batch, nodes, job, work, spent, archive, used, budget, level, carried, quota, began>>
  BY DEF EndWalk, taskVars, walkVars, lnsVars
<1>3. Control'
  BY <1>1, <1>2 DEF Control
<1>4. used + nodes <= Cfg.maxNodes
  BY <1>1, SpentOfPhase DEF IInv, WalkWithinBudget
<1>. QED  BY <1>1, <1>2, <1>3, <1>4, RestKeeps

\* A phase begins with nodes that are left.
LEMMA PhaseBegins ==
    ASSUME IInv, RepairEnded \/ stage = "between", NEW next, NEW percent \in Nat,
           PhaseBudget(percent) > 0, BeginPhase(next, PhaseBudget(percent)), phase' \in {"level", "walking"}
    PROVE  /\ PreparedIs' /\ IsSequence(archive)' /\ TasksWithinQuota' /\ Cfg' = Cfg /\ Levels' = Levels
           /\ BatchHasQuotas' /\ used' \in Nat /\ nodes' = 0 /\ budget' \in Nat
           /\ used' + budget' <= Cfg'.maxNodes /\ work' \in Nat /\ spent' \in Nat /\ ~Batched' /\ stage' = next
<1>0. /\ stage' = next /\ budget' = PhaseBudget(percent) /\ used' = used + nodes /\ nodes' = 0
      /\ UNCHANGED <<fixedVars, batch, job, work, spent, archive>>
  BY DEF BeginPhase, taskVars, walkVars
<1>1. phase # "walk"
  BY BeforePlateau
<1>2. /\ PreparedIs' /\ IsSequence(archive)' /\ TasksWithinQuota' /\ Cfg' = Cfg /\ Levels' = Levels
      /\ work \in Nat /\ spent \in Nat
  BY <1>0, <1>1, QuietStep
<1>3. BatchHasQuotas' /\ ~Batched'
  BY DEF BatchHasQuotas, Batched
<1>4. PhaseBudget(percent) \in Int /\ PhaseBudget(percent) <= Cfg.maxNodes - used - nodes
  BY PhaseBudgetIsLeft DEF IInv
<1>5. Cfg.maxNodes \in Nat /\ used \in Nat /\ nodes \in Nat
  BY BudgetsOfConfig DEF IInv, Counters
<1>6. used + nodes \in Nat /\ PhaseBudget(percent) \in Nat /\ (used + nodes) + PhaseBudget(percent) <= Cfg.maxNodes
  BY <1>4, <1>5
<1>. QED  BY <1>0, <1>2, <1>3, <1>6

\* The repairs on the plateau begin, with a part of what is left.
LEMMA StartLNSKeeps ==
    IInv /\ StartLNS => IInv'
<1>. SUFFICES ASSUME IInv, StartLNS PROVE IInv'
  OBVIOUS
<1>0. /\ RepairEnded /\ PhaseBudget(Cfg.lnsPercent) > 0 /\ BeginPhase("lns", PhaseBudget(Cfg.lnsPercent)) /\ phase' = "level"
      /\ level' = 1 /\ carried' = 0 /\ UNCHANGED <<quota, began>>
  BY DEF StartLNS, LNSBudget
<1>1. Cfg.lnsPercent \in Nat
  BY BudgetsOfConfig DEF IInv
<1>2. /\ PreparedIs' /\ IsSequence(archive)' /\ TasksWithinQuota' /\ Cfg' = Cfg /\ Levels' = Levels
      /\ BatchHasQuotas' /\ used' \in Nat /\ nodes' = 0 /\ budget' \in Nat
      /\ used' + budget' <= Cfg'.maxNodes /\ work' \in Nat /\ spent' \in Nat /\ ~Batched' /\ stage' = "lns"
  BY <1>0, <1>1, PhaseBegins
<1>3. Counters'
  BY <1>0, <1>2 DEF IInv, Counters
<1>4. Control'
  BY <1>0, <1>2 DEF Control
<1>5. \A n \in DOMAIN Levels' : IsSequence(ready'[n])
  <2>1. ready' = [n \in DOMAIN Levels |-> LevelNeighbourhoods(Levels[n], archive, elites[1].score.priority)]
    BY DEF StartLNS
  <2>2. ASSUME NEW n \in DOMAIN Levels
        PROVE  IsSequence(LevelNeighbourhoods(Levels[n], archive, elites[1].score.priority))
    BY LevelIsBased DEF IInv, Based
  <2>. QED  BY <1>2, <2>1, <2>2
<1>6. LNSWithinBudget'
  BY <1>0, <1>2, <1>5 DEF LNSWithinBudget
<1>7. RepairWithinBudget' /\ WalkWithinBudget' /\ RestWithinBudget'
  BY <1>2 DEF RepairWithinBudget, WalkWithinBudget, RestWithinBudget
<1>. QED  BY <1>2, <1>3, <1>4, <1>6, <1>7 DEF IInv

\* The walk begins, with a part of what is left.
LEMMA StartWalkKeeps ==
    IInv /\ StartWalk => IInv'
<1>. SUFFICES ASSUME IInv, StartWalk PROVE IInv'
  OBVIOUS
<1>0. /\ RepairEnded \/ stage = "between"
      /\ PhaseBudget(Cfg.refinePercent) > 0 /\ BeginPhase("walk", PhaseBudget(Cfg.refinePercent)) /\ phase' = "walking"
      /\ UNCHANGED <<ready, level, carried, quota, began>>
  BY DEF StartWalk, WalkBudget, BeforeWalk
<1>1. Cfg.refinePercent \in Nat
  BY BudgetsOfConfig DEF IInv
<1>2. /\ PreparedIs' /\ IsSequence(archive)' /\ TasksWithinQuota' /\ Cfg' = Cfg
      /\ BatchHasQuotas' /\ used' \in Nat /\ nodes' = 0 /\ budget' \in Nat
      /\ used' + budget' <= Cfg'.maxNodes /\ work' \in Nat /\ spent' \in Nat /\ stage' = "walk"
  BY <1>0, <1>1, PhaseBegins
<1>3. Counters'
  BY <1>0, <1>2 DEF IInv, Counters
<1>4. Control'
  BY <1>0, <1>2 DEF Control
<1>5. WalkWithinBudget'
  BY <1>2 DEF WalkWithinBudget
<1>6. RepairWithinBudget' /\ LNSWithinBudget' /\ RestWithinBudget'
  BY <1>2 DEF RepairWithinBudget, LNSWithinBudget, RestWithinBudget
<1>. QED  BY <1>2, <1>3, <1>4, <1>5, <1>6 DEF IInv

\* A move costs a node of the walk.
LEMMA TryMoveKeeps ==
    IInv /\ TryMove => IInv'
<1>. SUFFICES ASSUME IInv, TryMove PROVE IInv'
  OBVIOUS
<1>0. /\ stage = "walk" /\ nodes < budget /\ nodes' = nodes + 1
      /\ UNCHANGED <<fixedVars, stage, phase, batch, job, tasks, waiting, at, work, spent,
                     used, budget, ready, level, carried, quota, began>>
  BY DEF TryMove, Stepping, taskVars
<1>1. phase = "walking" /\ phase # "walk"
  BY <1>0 DEF IInv, Control
<1>2. archive' = archive \/ \E s : archive' = Observe(Cfg, archive, s)
  BY DEF TryMove, Arrive
<1>3. IsSequence(archive')
  BY <1>2, ArchiveKeeps DEF IInv
<1>4. PreparedIs' /\ Cfg' = Cfg
  BY <1>0, PreparedStays DEF IInv
<1>5. TasksWithinQuota'
  BY <1>0, <1>1 DEF IInv, TasksWithinQuota, OutOfWalk
<1>6. Counters' /\ Control'
  BY <1>0 DEF IInv, Counters, Control
<1>7. BatchHasQuotas'
  BY <1>0, <1>1 DEF BatchHasQuotas, Batched
<1>8. WalkWithinBudget'
  <2>1. nodes \in Nat /\ budget \in Nat
    BY DEF IInv, Counters
  <2>2. nodes' <= budget
    BY <1>0, <2>1
  <2>. QED  BY <1>0, <1>4, <2>2 DEF IInv, WalkWithinBudget
<1>9. RepairWithinBudget' /\ LNSWithinBudget' /\ RestWithinBudget'
  BY <1>0 DEF RepairWithinBudget, LNSWithinBudget, RestWithinBudget
<1>. QED  BY <1>3, <1>4, <1>5, <1>6, <1>7, <1>8, <1>9 DEF IInv

\* Every step of the walk and around it keeps the invariant.
LEMMA PlateauKeeps ==
    IInv /\ PlateauNext => IInv'
<1>. SUFFICES ASSUME IInv, Leave PROVE IInv'
  BY StartWalkKeeps, NoWalkKeeps, TryMoveKeeps, EndWalkKeeps DEF PlateauNext
<1>1. UNCHANGED readVars
  BY DEF Leave, repairVars, readVars, fixedVars, roundVars, taskVars, walkVars, lnsVars
<1>. QED  BY <1>1, InvariantIsStable

-----------------------------------------------------------------------------
(* The levels, and the theorems about nodes.                                *)

\* What is left of the phase, and what a level may take of it.
LEMMA LevelQuotaIsLeft ==
    ASSUME IInv, stage = "lns", level <= Len(Levels)
    PROVE  /\ level \in DOMAIN Levels /\ Remaining = budget - nodes /\ Remaining \in Nat
           /\ LevelQuota(level) \in Int /\ LevelQuota(level) <= Remaining
<1>1. PreparedIs /\ Counters /\ level # 0 /\ nodes <= budget
  BY DEF IInv, LNSWithinBudget
<1>2. level \in Nat /\ budget \in Nat /\ nodes \in Nat /\ carried \in Int
  BY <1>1 DEF Counters
<1>3. level \in DOMAIN Levels /\ Levels[level].bps \in Nat
  <2>1. level \in 1..Len(Levels)
    BY <1>1, <1>2, BudgetsOfConfig
  <2>. QED  BY <1>1, <2>1, BudgetsOfConfig
<1>4. Remaining = budget - nodes /\ Remaining \in Nat
  BY <1>1, <1>2 DEF Remaining
<1>. DEFINE wanted == (budget * Levels[level].bps) \div 10000 + carried
<1>5. wanted \in Int
  <2>1. budget * Levels[level].bps \in Nat
    BY <1>2, <1>3
  <2>2. 10000 \in Nat \ {0}
    OBVIOUS
  <2>3. (budget * Levels[level].bps) \div 10000 \in Int
    BY <2>1, <2>2, PercentIsInteger
  <2>. QED  BY <1>2, <2>3
<1>6. LevelQuota(level) = IF wanted > Remaining \/ (level = Len(Levels) /\ ~Deep(Levels[level])) THEN Remaining ELSE wanted
  BY DEF LevelQuota
<1>. HIDE DEF wanted
<1>7. LevelQuota(level) \in Int /\ LevelQuota(level) <= Remaining
  <2>1. CASE wanted > Remaining \/ (level = Len(Levels) /\ ~Deep(Levels[level]))
    BY <1>4, <1>6, <2>1
  <2>2. CASE ~(wanted > Remaining \/ (level = Len(Levels) /\ ~Deep(Levels[level])))
    BY <1>4, <1>5, <1>6, <2>2
  <2>. QED  BY <2>1, <2>2
<1>. QED  BY <1>3, <1>4, <1>7

\* Where a phase of repairs on the plateau stays what it is.
LEMMA StaysInLNS ==
    ASSUME stage' = "lns"
    PROVE  RepairWithinBudget' /\ WalkWithinBudget' /\ RestWithinBudget'
BY DEF RepairWithinBudget, WalkWithinBudget, RestWithinBudget

\* A level that is passed over hands on what it could have had.
LEMMA PassLevelKeeps ==
    IInv /\ PassLevel => IInv'
<1>. SUFFICES ASSUME IInv, PassLevel PROVE IInv'
  OBVIOUS
<1>0. /\ stage = "lns" /\ phase = "level" /\ level <= Len(Levels) /\ level' = level + 1
      /\ carried' \in {carried, LevelQuota(level)}
      /\ UNCHANGED <<fixedVars, stage, phase, batch, nodes, job, work, spent, archive, used, budget, ready, quota, began>>
  BY DEF PassLevel, AtLevel, repairVars, roundVars, taskVars, walkVars
<1>1. LevelQuota(level) \in Int
  BY <1>0, LevelQuotaIsLeft
<1>2. /\ PreparedIs' /\ IsSequence(archive)' /\ TasksWithinQuota' /\ Cfg' = Cfg /\ Levels' = Levels
  BY <1>0, QuietStep
<1>3. Counters' /\ Control'
  BY <1>0, <1>1 DEF IInv, Counters, Control
<1>4. BatchHasQuotas'
  BY <1>0 DEF BatchHasQuotas, Batched
<1>5. LNSWithinBudget'
  <2>1. level' # 0
    BY <1>0 DEF IInv, Counters
  <2>. QED  BY <1>0, <1>2, <2>1 DEF IInv, LNSWithinBudget, Batched
<1>. QED  BY <1>0, <1>2, <1>3, <1>4, <1>5, StaysInLNS DEF IInv

\* A level pledges what it may take of the rest of the phase.
LEMMA StartLevelKeeps ==
    IInv /\ StartLevel => IInv'
<1>. SUFFICES ASSUME IInv, StartLevel PROVE IInv'
  OBVIOUS
<1>0. /\ stage = "lns" /\ phase = "level" /\ level <= Len(Levels)
      /\ LevelQuota(level) > 0 /\ ready[level] # <<>>
      /\ quota' = LevelQuota(level) /\ batch' = Divided(ready[level], quota') /\ began' = nodes /\ phase' = "batch"
      /\ UNCHANGED <<fixedVars, stage, nodes, job, work, spent, archive, used, budget, ready, level, carried>>
  BY DEF StartLevel, AtLevel, Runs, CanRun, taskVars, walkVars
<1>1. /\ level \in DOMAIN Levels /\ Remaining = budget - nodes
      /\ LevelQuota(level) \in Int /\ LevelQuota(level) <= Remaining
  BY <1>0, LevelQuotaIsLeft
<1>2. /\ PreparedIs' /\ IsSequence(archive)' /\ TasksWithinQuota' /\ Cfg' = Cfg /\ Levels' = Levels
  BY <1>0, QuietStep
<1>3. nodes \in Nat /\ budget \in Nat
  BY DEF IInv, Counters
<1>4. quota' \in Nat \ {0} /\ nodes + quota' <= budget
  BY <1>0, <1>1, <1>3
<1>5. Counters' /\ Control'
  BY <1>0, <1>4 DEF IInv, Counters, Control
<1>6. IsSequence(ready[level])
  BY <1>0, <1>1 DEF IInv, LNSWithinBudget
<1>7. HasQuotas(batch') /\ QuotaLeft(batch') = quota'
  BY <1>0, <1>4, <1>6, DividedIsPledged
<1>8. BatchHasQuotas'
  BY <1>7 DEF BatchHasQuotas
<1>9. Pledged' = quota'
  <2>1. Pledged' = 0 + QuotaLeft(batch')
    BY <1>0 DEF Pledged
  <2>2. QuotaLeft(batch') = quota' /\ quota' \in Nat
    BY <1>4, <1>7
  <2>3. QuotaLeft(batch') \in Nat
    BY <2>2
  <2>4. 0 + QuotaLeft(batch') = QuotaLeft(batch')
    BY <2>3
  <2>. QED  BY <2>1, <2>2, <2>4, Zenon
<1>10. LNSWithinBudget'
  <2>1. nodes' + Pledged' <= began' + quota'
    BY <1>0, <1>3, <1>4, <1>9
  <2>2. began' <= nodes' /\ began' + quota' <= budget'
    BY <1>0, <1>3, <1>4
  <2>. QED  BY <1>0, <1>2, <2>1, <2>2 DEF IInv, LNSWithinBudget
<1>. QED  BY <1>0, <1>2, <1>5, <1>8, <1>10, StaysInLNS DEF IInv

\* Less of one is within what more of it was.
LEMMA LessIsWithin ==
    ASSUME NEW a \in Nat, NEW b \in Nat, NEW c \in Nat, NEW e \in Nat, b <= c, a + c <= e
    PROVE  a + b <= e
OBVIOUS

\* An opportunity that is passed over gives up its quota.
LEMMA PassOpportunityKeeps ==
    IInv /\ PassOpportunity => IInv'
<1>. SUFFICES ASSUME IInv, PassOpportunity PROVE IInv'
  OBVIOUS
<1>0. /\ stage = "lns" /\ phase = "batch" /\ batch # <<>> /\ batch' = Tail(batch)
      /\ UNCHANGED <<fixedVars, stage, phase, nodes, job, work, spent, archive, used, budget, ready, level, carried, quota, began>>
  BY DEF PassOpportunity, InLevel, taskVars, walkVars, lnsVars
<1>1. /\ PreparedIs' /\ IsSequence(archive)' /\ TasksWithinQuota' /\ Cfg' = Cfg /\ Levels' = Levels
  BY <1>0, QuietStep
<1>2. Counters' /\ Control'
  BY <1>0 DEF IInv, Counters, Control
<1>3. HasQuotas(batch)' /\ Pledged \in Nat /\ Pledged' \in Nat /\ Pledged' <= Pledged
  BY <1>0, PassedOver DEF IInv, BatchHasQuotas, Batched
<1>4. LNSWithinBudget'
  <2>1. began <= nodes /\ began + quota <= budget /\ nodes + Pledged <= began + quota
    BY <1>0 DEF IInv, LNSWithinBudget, Batched
  <2>2. nodes \in Nat /\ began \in Nat /\ quota \in Nat
    BY DEF IInv, Counters
  <2>3. nodes + Pledged' <= began + quota
    <3>1. began + quota \in Nat
      BY <2>2
    <3>. QED  BY <1>3, <2>1, <2>2, <3>1, LessIsWithin
  <2>. QED  BY <1>0, <1>1, <2>1, <2>3 DEF IInv, LNSWithinBudget
<1>. QED  BY <1>0, <1>1, <1>2, <1>3, <1>4, StaysInLNS DEF IInv, BatchHasQuotas

\* An opportunity is searched with its quota.
LEMMA StartOpportunityKeeps ==
    IInv /\ StartOpportunity => IInv'
<1>. SUFFICES ASSUME IInv, StartOpportunity PROVE IInv'
  OBVIOUS
<1>0. /\ stage = "lns" /\ phase = "batch" /\ batch # <<>>
      /\ Start(Head(batch).of, Head(batch).quota, champion.score.priority, bases)
      /\ UNCHANGED <<used, budget, ready, level, carried, quota, began>>
  BY DEF StartOpportunity, InLevel, lnsVars
<1>1. /\ PreparedIs' /\ IsSequence(archive)' /\ Cfg' = Cfg /\ Levels' = Levels /\ TasksWithinQuota' /\ BatchHasQuotas'
      /\ work' \in Nat /\ spent' \in Nat /\ Pledged' = Pledged /\ Batched
      /\ phase' = "walk" /\ UNCHANGED <<stage, nodes>>
  BY <1>0, StartPledges
<1>2. Counters' /\ Control'
  BY <1>0, <1>1 DEF IInv, Counters, Control
<1>3. LNSWithinBudget'
  BY <1>0, <1>1 DEF IInv, LNSWithinBudget
<1>. QED  BY <1>0, <1>1, <1>2, <1>3, StaysInLNS DEF IInv

\* The nodes of an opportunity that was searched are counted in the phase.
LEMMA EndOpportunityKeeps ==
    IInv /\ EndOpportunity => IInv'
<1>. SUFFICES ASSUME IInv, EndOpportunity PROVE IInv'
  OBVIOUS
<1>0. /\ stage = "lns" /\ Searched /\ phase' = "batch" /\ nodes' = nodes + work /\ work' = 0 /\ job' = NoJob
      /\ UNCHANGED <<fixedVars, stage, batch, spent, archive, used, budget, ready, level, carried, quota, began>>
  BY DEF EndOpportunity, walkVars
<1>1. /\ PreparedIs' /\ IsSequence(archive)' /\ Cfg' = Cfg /\ Levels' = Levels /\ TasksWithinQuota' /\ BatchHasQuotas' /\ Batched
      /\ work \in Nat /\ spent' \in Nat /\ nodes' \in Nat /\ Pledged \in Nat /\ Pledged' \in Nat
      /\ nodes' + Pledged' <= nodes + Pledged
  BY <1>0, SearchedWithinPledge
<1>2. Counters' /\ Control'
  BY <1>0, <1>1 DEF IInv, Counters, Control
<1>3. LNSWithinBudget'
  <2>1. /\ began <= nodes /\ began + quota <= budget /\ nodes + Pledged <= began + quota
        /\ used + budget <= Cfg.maxNodes /\ level # 0 /\ \A n \in DOMAIN Levels : IsSequence(ready[n])
    BY <1>0, <1>1 DEF IInv, LNSWithinBudget
  <2>2. nodes \in Nat /\ began \in Nat /\ quota \in Nat /\ budget \in Nat /\ began + quota \in Nat
    BY DEF IInv, Counters
  <2>3. nodes' \in Nat /\ Pledged \in Nat /\ Pledged' \in Nat /\ nodes' + Pledged' <= nodes + Pledged
    BY <1>1
  <2>4. nodes' + Pledged' <= began + quota /\ nodes' <= began + quota
    BY <2>1, <2>2, <2>3, StaysWithin
  <2>5. nodes' <= budget
    BY <2>1, <2>2, <2>3, <2>4
  <2>6. began <= nodes'
    BY <1>0, <1>1, <2>1, <2>2
  <2>. QED  BY <1>0, <1>1, <2>1, <2>4, <2>5, <2>6 DEF LNSWithinBudget
<1>. QED  BY <1>0, <1>1, <1>2, <1>3, StaysInLNS DEF IInv

\* A level that ends hands on what it left.
LEMMA EndLevelKeeps ==
    IInv /\ EndLevel => IInv'
<1>. SUFFICES ASSUME IInv, EndLevel PROVE IInv'
  OBVIOUS
<1>0. /\ stage = "lns" /\ phase = "batch" /\ phase' = "level" /\ carried' = quota - (nodes - began)
      /\ level' \in {Len(Levels) + 1, level + 1}
      /\ UNCHANGED <<fixedVars, stage, batch, nodes, job, work, spent, archive, used, budget, ready, quota, began>>
  BY DEF EndLevel, InLevel, roundVars, taskVars, walkVars
<1>1. /\ PreparedIs' /\ IsSequence(archive)' /\ TasksWithinQuota' /\ Cfg' = Cfg /\ Levels' = Levels
  BY <1>0, QuietStep
<1>2. Len(Levels) \in Nat /\ level \in Nat /\ quota \in Nat /\ nodes \in Nat /\ began \in Nat
  BY BudgetsOfConfig DEF IInv, Counters
<1>3. level' \in Nat /\ level' # 0 /\ carried' \in Int
  BY <1>0, <1>2
<1>4. Counters' /\ Control'
  BY <1>0, <1>3 DEF IInv, Counters, Control
<1>5. BatchHasQuotas'
  BY <1>0 DEF BatchHasQuotas, Batched
<1>6. LNSWithinBudget'
  BY <1>0, <1>1, <1>3 DEF IInv, LNSWithinBudget, Batched
<1>. QED  BY <1>0, <1>1, <1>4, <1>5, <1>6, StaysInLNS DEF IInv

\* Every step of the repairs on the plateau keeps the invariant.
LEMMA LNSKeeps ==
    IInv /\ LNSNext => IInv'
BY AbandonKeeps, StartLNSKeeps, PassLevelKeeps, StartLevelKeeps, PassOpportunityKeeps, StartOpportunityKeeps,
   EndOpportunityKeeps, EndLevelKeeps, EndLNSKeeps DEF LNSNext

\* Every step keeps the invariant.
LEMMA NextKeepsInvariant ==
    IInv /\ [Next]_vars => IInv'
<1>. SUFFICES ASSUME IInv, [Next]_vars PROVE IInv'
  OBVIOUS
<1>1. CASE RepairNext /\ UNCHANGED <<used, budget, lnsVars, stepVars>>
  BY <1>1, RepairKeeps
<1>2. CASE LNSNext
  BY <1>2, LNSKeeps
<1>3. CASE PlateauNext
  BY <1>3, PlateauKeeps
<1>4. CASE UNCHANGED vars
  <2>1. UNCHANGED readVars
    BY <1>4 DEF vars, repairVars, readVars, fixedVars, roundVars, taskVars, walkVars, lnsVars
  <2>. QED  BY <2>1, InvariantIsStable
<1>. QED  BY <1>1, <1>2, <1>3, <1>4 DEF Next

\* The inductive invariant: the nodes of each part, with what it still pledges, are
\* within what it was given. Two conjuncts are there for the steps alone: what was
\* prepared is what a plan can be walked from, and what is to be divided is finite.
THEOREM PlateauInvariant == Spec => []IInv
BY InvariantHoldsAtFirst, NextKeepsInvariant, PTL DEF Spec

\* No part of repair or plateau search spends more nodes than it was given, whatever
\* the catalog, the levels and the percentages: a task of a neighbourhood, a
\* neighbourhood of a round or level, a level of a phase, a phase of the solve.
THEOREM BudgetsHold == Spec => []BudgetsAreKept
BY PlateauInvariant, InvariantKeepsBudgets, PTL

\* Only a round and a level divide what they have.
LEMMA RoundIsEven ==
    ASSUME IInv, StartRound, phase' = "batch"
    PROVE  EvenlyDivided(batch', IF stage = "repair" THEN Cfg.repairNodes - nodes ELSE quota')
<1>1. PICK built \in {BuildNeighbourhoods(Cfg, prepared, elites, tried)} :
          /\ batch' = Divided(built, Cfg.repairNodes - nodes)
          /\ phase' = IF built = <<>> THEN "ended" ELSE "batch"
  BY DEF StartRound
<1>2. IsSequence(built) /\ built # <<>>
  BY <1>1, RoundIsSequence
<1>3. Cfg.repairNodes - nodes \in Nat \ {0}
  BY BudgetsOfConfig DEF IInv, Counters, StartRound, Continuing
<1>4. EvenlyDivided(batch', Cfg.repairNodes - nodes)
  BY <1>1, <1>2, <1>3, DividedEvenly
<1>. QED  BY <1>4 DEF StartRound

\* A level divides its quota.
LEMMA LevelIsEven ==
    ASSUME IInv, StartLevel
    PROVE  EvenlyDivided(batch', IF stage = "repair" THEN Cfg.repairNodes - nodes ELSE quota')
<1>0. /\ stage = "lns" /\ phase = "level" /\ level <= Len(Levels) /\ LevelQuota(level) > 0 /\ ready[level] # <<>>
      /\ quota' = LevelQuota(level) /\ batch' = Divided(ready[level], quota')
  BY DEF StartLevel, AtLevel, Runs, CanRun
<1>1. level \in DOMAIN Levels /\ LevelQuota(level) \in Int
  BY <1>0, LevelQuotaIsLeft
<1>2. quota' \in Nat \ {0}
  BY <1>0, <1>1
<1>3. IsSequence(ready[level])
  BY <1>0, <1>1 DEF IInv, LNSWithinBudget
<1>4. EvenlyDivided(batch', quota')
  BY <1>0, <1>2, <1>3, DividedEvenly
<1>. QED  BY <1>0, <1>4

\* No other step makes a batch of a round or level.
LEMMA StepsDivideEvenly ==
    ASSUME IInv, [Next]_vars, phase' = "batch", phase \in {"round", "level"}
    PROVE  EvenlyDivided(batch', IF stage = "repair" THEN Cfg.repairNodes - nodes ELSE quota')
<1>1. CASE RepairNext
  <2>1. ~(Cancel \/ EndRound \/ EndRepair \/ PassOver \/ StartRepair \/ MergeRepair)
    BY DEF Cancel, EndRound, EndRepair, PassOver, StartRepair, Start, MergeRepair, InBatch, Searched
  <2>2. ~WalkNext
    BY DEF WalkNext, StartTask, Halt, Prune, Descend, Complete, EndTask, Visit, Walking
  <2>. QED  BY <1>1, <2>1, <2>2, RoundIsEven DEF RepairNext
<1>2. CASE LNSNext
  <2>1. ~(Abandon \/ StartLNS \/ PassLevel \/ PassOpportunity \/ StartOpportunity \/ EndOpportunity \/ EndLevel \/ EndLNS)
    BY DEF Abandon, StartLNS, PassLevel, PassOpportunity, StartOpportunity, EndOpportunity, EndLevel, EndLNS,
           InLevel, Searched, Start, RepairEnded, repairVars
  <2>. QED  BY <1>2, <2>1, LevelIsEven DEF LNSNext
<1>3. CASE PlateauNext \/ UNCHANGED vars
  BY <1>3 DEF PlateauNext, StartWalk, NoWalk, Leave, TryMove, EndWalk, vars, repairVars
<1>. QED  BY <1>1, <1>2, <1>3 DEF Next

\* Every batch is divided evenly when a round or level begins: all there is is given
\* out, equally among the bases and equally among the neighbourhoods of each.
THEOREM SharesAreEven == Spec => SharesAreEqual
<1>1. IInv /\ [Next]_vars =>
          [phase' = "batch" /\ phase \in {"round", "level"} =>
               EvenlyDivided(batch', IF stage = "repair" THEN Cfg.repairNodes - nodes ELSE quota')]_vars
  BY StepsDivideEvenly
<1>. QED  BY <1>1, PlateauInvariant, PTL DEF Spec, SharesAreEqual

-----------------------------------------------------------------------------
(* What is kept of what was found.                                          *)

\* The greater of two numbers.
LEMMA GreatestOfTwo ==
    ASSUME NEW a \in Int, NEW b \in Int
    PROVE  Max({a, b}) \in {a, b} /\ Max({a, b}) >= a /\ Max({a, b}) >= b
<1>1. \E m \in {a, b} : \A n \in {a, b} : m >= n
  <2>1. CASE a >= b
    BY <2>1
  <2>2. CASE b >= a
    BY <2>2
  <2>. QED  BY <2>1, <2>2
<1>. QED  BY <1>1 DEF Max

\* The number of layouts that are kept.
LEMMA LimitIsNatural ==
    ASSUME PreparedIs
    PROVE  Limit \in Nat
<1>1. Cfg.topN \in Nat
  BY RepairAssumption DEF PreparedIs, RepairAssumption, Cfg
<1>. DEFINE most == CandidatesPerResult * Cfg.topN
<1>2. MinCandidates \in Nat /\ most \in Nat
  BY <1>1, CandidateAssumption DEF CandidateAssumption
<1>3. Limit = Max({MinCandidates, most})
  BY DEF Limit, CandidateLimit
<1>. HIDE DEF most
<1>4. Max({MinCandidates, most}) \in {MinCandidates, most}
  BY <1>2, GreatestOfTwo
<1>. QED  BY <1>2, <1>3, <1>4

\* A list that is cut off.
LEMMA TruncatedIn ==
    ASSUME NEW V, NEW s \in Seq(V), NEW k \in Nat
    PROVE  Truncate(s, k) \in Seq(V)
<1>1. Len(s) \in Nat /\ k \in Int
  OBVIOUS
<1>2. Min({k, Len(s)}) \in {k, Len(s)} /\ Min({k, Len(s)}) <= Len(s)
  BY <1>1, LeastOfTwo
<1>3. Min({k, Len(s)}) \in 0..Len(s)
  BY <1>1, <1>2
<1>4. ASSUME NEW m \in 0..Len(s) PROVE SubSeq(s, 1, m) \in Seq(V)
  <2>1. s \in [1..Len(s) -> V] /\ Len(s) \in Nat
    OBVIOUS
  <2>2. CASE m = 0
    BY <2>2
  <2>3. CASE m # 0
    BY <1>4, <2>1, <2>3
  <2>. QED  BY <2>2, <2>3
<1>. QED  BY <1>3, <1>4 DEF Truncate

\* Two lists of layouts, merged, deduplicated and cut off, have no layout that was
\* in neither.
LEMMA MergedSolutionsIn ==
    ASSUME NEW V, NEW left \in Seq(V), NEW right \in Seq(V), NEW k \in Nat
    PROVE  MergeSolutions(left, right, k) \in Seq(V)
<1>1. left \o right \in Seq(V)
  OBVIOUS
<1>2. Sorted(left \o right) \in Seq(V)
  BY <1>1, SortedIn
<1>. QED  BY <1>2, TruncatedIn DEF MergeSolutions

\* A list that was offered a layout has no layout but those it had and that one.
LEMMA OfferedIn ==
    ASSUME NEW V, NEW kept \in Seq(V), NEW s \in V, NEW scoreOnly, NEW k
    PROVE  OfferSolution(kept, s, scoreOnly, k) \in Seq(V)
<1>1. Insert(kept, s) \in Seq(V)
  BY InsertIn
<1>2. Front(kept) \in Seq(V)
  <2>1. SubSeq(kept, 1, Len(kept) - 1) \in Seq(V)
    <3>1. Len(kept) \in Nat /\ kept \in [1..Len(kept) -> V]
      OBVIOUS
    <3>2. CASE Len(kept) = 0
      BY <3>2
    <3>3. CASE Len(kept) # 0
      BY <3>1, <3>3
    <3>. QED  BY <3>2, <3>3
  <2>. QED  BY <2>1 DEF Front
<1>3. Insert(Front(kept), s) \in Seq(V)
  BY <1>2, InsertIn
<1>. QED  BY <1>1, <1>3 DEF OfferSolution

\* The order in which the walk takes its states adds none.
LEMMA WalkOrderIn ==
    ASSUME NEW V, NEW s \in Seq(V)
    PROVE  InWalkOrder(s) \in Seq(V)
<1>. DEFINE rank(w) == <<-w.upper>> \o EntryRank(w.solution)
            keys == [n \in DOMAIN s |-> rank(s[n])]
            pairs == [n \in DOMAIN s |-> <<rank(s[n]), s[n]>>]
            ordered == [n \in DOMAIN Ranks(pairs) |-> Ranks(pairs)[n][2]]
<1>1. InWalkOrder(s) = First(ordered, ArchiveCapacity)
  BY Zenon DEF InWalkOrder, Arranged
<1>2. pairs = Ranked1(s, keys)
  BY DEF Ranked1
<1>3. ordered = Seconds(Ranks(Ranked1(s, keys)))
  <2>. HIDE DEF keys, pairs
  <2>. QED  BY <1>2 DEF Seconds
<1>. HIDE DEF keys, ordered
<1>4. ordered \in Seq(V)
  BY <1>3, SecondsIn
<1>. QED  BY <1>1, <1>4, FirstIn, CapacityAssumption DEF CapacityAssumption

\* The places of a list, and the pools of some of the tasks merged in order.
PlacesIn(s) == [n \in DOMAIN s |-> n]
Collects(kept) ==
    kept = [t \in SUBSET DOMAIN PlacesIn(tasks) |->
               IF t = {} THEN <<>> ELSE MergeSolutions(kept[t \ {Max(t)}], pools[PlacesIn(tasks)[Max(t)]], Limit)]

\* What the tasks of a neighbourhood found.
LEMMA MergedIn ==
    ASSUME PreparedIs, IsSequence(tasks), NEW R, \A n \in DOMAIN tasks : pools[n] \in Seq(R)
    PROVE  Merged \in Seq(R)
<1>. DEFINE s == PlacesIn(tasks)
            D == DOMAIN s
            V == Seq(R)
            step == [p \in D \X V |-> MergeSolutions(p[2], pools[s[p[1]]], Limit)]
<1>0. IsSequence(s) /\ \A n \in D : pools[s[n]] \in V
  <2>1. DOMAIN tasks = 1..Len(tasks) /\ Len(tasks) \in Nat
    BY AreSequences DEF IsSequence
  <2>2. s = [n \in 1..Len(tasks) |-> s[n]]
    BY <2>1 DEF PlacesIn
  <2>3. \A n \in D : n \in DOMAIN tasks /\ s[n] = n
    BY DEF PlacesIn
  <2>. HIDE DEF s
  <2>. QED  BY <2>1, <2>2, <2>3, SequencesAre
<1>. HIDE DEF s
<1>1. \A v \in V, n \in D : MergeSolutions(v, pools[s[n]], Limit) \in V
  BY <1>0, LimitIsNatural, MergedSolutionsIn
<1>2. step \in [D \X V -> V] /\ <<>> \in V
  BY <1>1
<1>3. PICK f \in [SUBSET D -> V] : LeftFold(f, s, <<>>, step)
  <2>. HIDE DEF V, step
  <2>. QED  BY <1>0, <1>2, LeftFoldExists
<1>4. ASSUME NEW t \in SUBSET D
      PROVE  f[t] = IF t = {} THEN <<>> ELSE MergeSolutions(f[t \ {Max(t)}], pools[s[Max(t)]], Limit)
  <2>1. CASE t = {}
    BY <1>3, <2>1 DEF LeftFold
  <2>2. CASE t # {}
    <3>1. Max(t) \in D /\ t \ {Max(t)} \in SUBSET D
      BY <1>0, <2>2, GreatestPlace
    <3>2. <<Max(t), f[t \ {Max(t)}]>> \in D \X V
      <4>. HIDE DEF V
      <4>. QED  BY <3>1, <1>3
    <3>3. f[t] = step[<<Max(t), f[t \ {Max(t)}]>>]
      BY <1>3, <2>2 DEF LeftFold
    <3>4. step[<<Max(t), f[t \ {Max(t)}]>>] = MergeSolutions(f[t \ {Max(t)}], pools[s[Max(t)]], Limit)
      <4>. HIDE DEF V, D
      <4>. QED  BY <3>2
    <3>. QED  BY <3>3, <3>4, <2>2
  <2>. QED  BY <2>1, <2>2
<1>5. Collects(f)
  BY <1>3, <1>4 DEF Collects, s
<1>6. \E g : Collects(g)
  BY <1>5
<1>. DEFINE kept == CHOOSE g : Collects(g)
<1>7. Collects(kept)
  BY <1>6
<1>8. Merged = kept[D]
  BY Zenon DEF Merged, FoldLeft, MapThenFoldSet, Collects, PlacesIn, s
<1>9. kept[D] \in V
  <2>. HIDE DEF kept
  <2>1. kept[{}] = <<>>
    BY <1>7 DEF Collects
  <2>2. ASSUME NEW t \in SUBSET D, t # {}, kept[t \ {Max(t)}] \in V
        PROVE  kept[t] \in V
    <3>1. Max(t) \in D
      BY <1>0, <2>2, GreatestPlace
    <3>2. kept[t] = MergeSolutions(kept[t \ {Max(t)}], pools[s[Max(t)]], Limit)
      BY <1>7, <2>2 DEF Collects, s
    <3>. HIDE DEF V, D
    <3>. QED  BY <1>1, <2>2, <3>1, <3>2
  <2>3. <<>> \in V
    BY <1>2
  <2>. HIDE DEF V
  <2>. QED  BY <1>0, <2>1, <2>2, <2>3, LeftFoldStays
<1>. QED  BY <1>8, <1>9

\* A step of the choice of the champion, its steps over some layouts, the choice.
Better(best, s) == IF Surpasses(best, s) THEN s ELSE best
Improving(kept, best, s) ==
    kept = [t \in SUBSET DOMAIN s |-> IF t = {} THEN best ELSE Better(kept[t \ {Max(t)}], s[Max(t)])]
BestOf(best, s) == FoldLeft(LAMBDA b, x : IF Surpasses(b, x) THEN x ELSE b, best, s)

\* The champion and what might surpass it.
LEMMA BestOfStays ==
    ASSUME NEW V, NEW best \in V, NEW s, IsSequence(s), \A v \in V, n \in DOMAIN s : Better(v, s[n]) \in V
    PROVE  BestOf(best, s) \in V
<1>. DEFINE D == DOMAIN s
            step == [p \in D \X V |-> Better(p[2], s[p[1]])]
<1>0. IsSequence(s)
  OBVIOUS
<1>1. \A v \in V, n \in D : Better(v, s[n]) \in V
  OBVIOUS
<1>2. step \in [D \X V -> V]
  BY <1>1
<1>3. PICK f \in [SUBSET D -> V] : LeftFold(f, s, best, step)
  <2>. HIDE DEF step
  <2>. QED  BY <1>0, <1>2, LeftFoldExists
<1>4. ASSUME NEW t \in SUBSET D
      PROVE  f[t] = IF t = {} THEN best ELSE Better(f[t \ {Max(t)}], s[Max(t)])
  <2>1. CASE t = {}
    BY <1>3, <2>1 DEF LeftFold
  <2>2. CASE t # {}
    <3>1. Max(t) \in D /\ t \ {Max(t)} \in SUBSET D
      BY <1>0, <2>2, GreatestPlace
    <3>2. <<Max(t), f[t \ {Max(t)}]>> \in D \X V
      BY <3>1, <1>3
    <3>3. f[t] = step[<<Max(t), f[t \ {Max(t)}]>>]
      BY <1>3, <2>2 DEF LeftFold
    <3>4. step[<<Max(t), f[t \ {Max(t)}]>>] = Better(f[t \ {Max(t)}], s[Max(t)])
      <4>. HIDE DEF D
      <4>. QED  BY <3>2
    <3>. QED  BY <3>3, <3>4, <2>2
  <2>. QED  BY <2>1, <2>2
<1>5. Improving(f, best, s)
  BY <1>3, <1>4 DEF Improving
<1>6. \E g : Improving(g, best, s)
  BY <1>5
<1>. DEFINE kept == CHOOSE g : Improving(g, best, s)
<1>7. Improving(kept, best, s)
  BY <1>6
<1>8. BestOf(best, s) = kept[D]
  BY Zenon DEF BestOf, FoldLeft, MapThenFoldSet, Improving, Better
<1>9. kept[D] \in V
  <2>. HIDE DEF kept
  <2>1. kept[{}] = best
    BY <1>7 DEF Improving
  <2>2. ASSUME NEW t \in SUBSET D, t # {}, kept[t \ {Max(t)}] \in V
        PROVE  kept[t] \in V
    <3>1. Max(t) \in D
      BY <1>0, <2>2, GreatestPlace
    <3>2. kept[t] = Better(kept[t \ {Max(t)}], s[Max(t)])
      BY <1>7, <2>2 DEF Improving
    <3>. HIDE DEF D
    <3>. QED  BY <1>1, <2>2, <3>1, <3>2
  <2>. QED  BY <1>0, <2>1, <2>2, LeftFoldStays
<1>. QED  BY <1>8, <1>9

\* It is the champion or one of what might surpass it.
LEMMA BestOfIn ==
    ASSUME NEW V, NEW best \in V, NEW s \in Seq(V)
    PROVE  BestOf(best, s) \in V
<1>1. IsSequence(s) /\ \A n \in DOMAIN s : s[n] \in V
  BY SeqIsSequence
<1>2. \A v \in V, n \in DOMAIN s : Better(v, s[n]) \in V
  BY <1>1 DEF Better
<1>. QED  BY <1>1, <1>2, BestOfStays

-----------------------------------------------------------------------------
(* The inductive invariant of legality.                                     *)

\* A legal layout with its score, and a list of such layouts.
LegalFor(config, s) == LegalLayout(config, s.layout) /\ s.score = EvaluateLayout(s.layout, config)
LegalSeq(config, s) == IsSequence(s) /\ \A x \in Range(s) : LegalFor(config, x)

\* A list of legal layouts.
LEMMA AllLegal ==
    ASSUME NEW config, NEW V, \A v \in V : LegalFor(config, v), NEW s \in Seq(V)
    PROVE  LegalSeq(config, s)
BY SeqIsSequence DEF LegalSeq

\* What is known of each of them.
LEMMA LegalOnes ==
    ASSUME NEW config, NEW s, LegalSeq(config, s)
    PROVE  /\ IsSequence(s) /\ s \in Seq(Range(s)) /\ \A n \in DOMAIN s : LegalFor(config, s[n])
<1>1. IsSequence(s) /\ s \in Seq(Range(s)) /\ \A n \in DOMAIN s : s[n] \in Range(s)
  BY AreSequences DEF LegalSeq
<1>. QED  BY <1>1 DEF LegalSeq

\* Two lists are lists over all that they hold.
LEMMA TwoLegal ==
    ASSUME NEW config, NEW s, NEW t, LegalSeq(config, s), LegalSeq(config, t)
    PROVE  \E V : (\A v \in V : LegalFor(config, v)) /\ s \in Seq(V) /\ t \in Seq(V)
<1>1. s \in Seq(Range(s) \cup Range(t)) /\ t \in Seq(Range(s) \cup Range(t))
  BY SequenceIn DEF LegalSeq
<1>2. \A v \in Range(s) \cup Range(t) : LegalFor(config, v)
  BY DEF LegalSeq
<1>. QED  BY <1>1, <1>2

\* An empty list has no illegal layout.
LEMMA NoneLegal ==
    ASSUME NEW config
    PROVE  LegalSeq(config, <<>>)
<1>1. <<>> \in Seq({})
  OBVIOUS
<1>2. \A v \in {} : LegalFor(config, v)
  OBVIOUS
<1>. QED  BY <1>1, <1>2, AllLegal

\* A list of one.
LEMMA OneLegal ==
    ASSUME NEW config, NEW x, LegalFor(config, x)
    PROVE  LegalSeq(config, <<x>>)
<1>1. <<x>> \in Seq({x})
  OBVIOUS
<1>2. \A v \in {x} : LegalFor(config, v)
  OBVIOUS
<1>. QED  BY <1>1, <1>2, AllLegal

\* Two lists of legal layouts, merged.
LEMMA MergedLegal ==
    ASSUME PreparedIs, NEW s, NEW t, LegalSeq(Cfg, s), LegalSeq(Cfg, t)
    PROVE  LegalSeq(Cfg, MergeSolutions(s, t, Limit))
<1>1. PICK V : (\A v \in V : LegalFor(Cfg, v)) /\ s \in Seq(V) /\ t \in Seq(V)
  BY TwoLegal
<1>2. MergeSolutions(s, t, Limit) \in Seq(V)
  BY <1>1, LimitIsNatural, MergedSolutionsIn
<1>. QED  BY <1>1, <1>2, AllLegal

\* A legal layout that is offered to a pool or to the archive leaves it legal.
LEMMA AddedLegal ==
    ASSUME NEW config, NEW s, NEW x, LegalSeq(config, s), LegalFor(config, x)
    PROVE  /\ \A scoreOnly, k : LegalSeq(config, OfferSolution(s, x, scoreOnly, k))
           /\ LegalSeq(config, Observe(config, s, x))
<1>1. PICK V : (\A v \in V : LegalFor(config, v)) /\ s \in Seq(V) /\ <<x>> \in Seq(V)
  BY OneLegal, TwoLegal
<1>2. x \in V
  <2>1. Len(<<x>>) = 1 /\ <<x>>[1] = x
    OBVIOUS
  <2>. QED  BY <1>1, <2>1
<1>3. ASSUME NEW scoreOnly, NEW k PROVE LegalSeq(config, OfferSolution(s, x, scoreOnly, k))
  <2>1. OfferSolution(s, x, scoreOnly, k) \in Seq(V)
    BY <1>1, <1>2, OfferedIn
  <2>. QED  BY <1>1, <2>1, AllLegal
<1>4. LegalSeq(config, Observe(config, s, x))
  <2>1. Observe(config, s, x) \in Seq(V)
    BY <1>1, <1>2, ObserveKeeps
  <2>. QED  BY <1>1, <2>1, AllLegal
<1>. QED  BY <1>3, <1>4

\* The pools of the tasks of a neighbourhood, merged.
LEMMA MergedPoolsLegal ==
    ASSUME PreparedIs, IsSequence(tasks), \A n \in DOMAIN tasks : LegalSeq(Cfg, pools[n])
    PROVE  LegalSeq(Cfg, Merged)
<1>. DEFINE V == UNION {Range(pools[n]) : n \in DOMAIN tasks}
<1>1. ASSUME NEW n \in DOMAIN tasks PROVE pools[n] \in Seq(V)
  <2>1. Range(pools[n]) \subseteq V
    OBVIOUS
  <2>. HIDE DEF V
  <2>. QED  BY <1>1, <2>1, SequenceIn DEF LegalSeq
<1>2. \A v \in V : LegalFor(Cfg, v)
  BY DEF LegalSeq
<1>. HIDE DEF V
<1>3. Merged \in Seq(V)
  BY <1>1, MergedIn
<1>. QED  BY <1>2, <1>3, AllLegal

\* The best of a legal layout and a list of legal ones.
LEMMA BestLegal ==
    ASSUME NEW config, NEW best, NEW s, LegalFor(config, best), LegalSeq(config, s)
    PROVE  LegalFor(config, BestOf(best, s))
<1>1. PICK V : (\A v \in V : LegalFor(config, v)) /\ s \in Seq(V) /\ <<best>> \in Seq(V)
  BY OneLegal, TwoLegal
<1>2. best \in V
  <2>1. Len(<<best>>) = 1 /\ <<best>>[1] = best
    OBVIOUS
  <2>. QED  BY <1>1, <2>1
<1>3. BestOf(best, s) \in V
  BY <1>1, <1>2, BestOfIn
<1>. QED  BY <1>1, <1>3

\* What the searches before repair hand over is legal.
LEMMA SeedsAreLegal ==
    ASSUME PreparedIs
    PROVE  /\ LegalSeq(Cfg, prepared.seeds)
           /\ LegalSeq(Cfg, MergeSolutions(<<>>, prepared.seeds, Limit))
           /\ LegalSeq(Cfg, ObserveAll(<<>>, prepared.found))
<1>. DEFINE found == [n \in DOMAIN Cfg.seeds |-> Solution(Cfg.seeds[n], Cfg)]
<1>0. which \in DOMAIN Configs /\ prepared.found = found /\ prepared.seeds = Sorted(found)
  BY Zenon DEF PreparedIs, PlanOf, PlanWith
<1>1. Cfg.seeds \in Seq(Range(Cfg.seeds)) /\ \A l \in Range(Cfg.seeds) : LegalLayout(Cfg, l)
  BY <1>0, RepairAssumption, SeedAssumption DEF RepairAssumption, SeedAssumption, Cfg
<1>2. Len(Cfg.seeds) \in Nat /\ DOMAIN Cfg.seeds = 1..Len(Cfg.seeds)
      /\ \A n \in DOMAIN Cfg.seeds : LegalLayout(Cfg, Cfg.seeds[n])
  BY <1>1
<1>3. \A n \in DOMAIN Cfg.seeds : LegalFor(Cfg, found[n])
  BY <1>2 DEF LegalFor, Solution
<1>4. LegalSeq(Cfg, found)
  <2>1. found = [n \in 1..Len(Cfg.seeds) |-> found[n]] /\ DOMAIN found = DOMAIN Cfg.seeds
    BY <1>2
  <2>. HIDE DEF found
  <2>2. IsSequence(found)
    BY <1>2, <2>1, SequencesAre
  <2>. QED  BY <1>3, <2>1, <2>2 DEF LegalSeq, Range
<1>. HIDE DEF found
<1>5. found \in Seq(Range(found)) /\ \A v \in Range(found) : LegalFor(Cfg, v)
  BY <1>4, LegalOnes DEF LegalSeq
<1>6. LegalSeq(Cfg, Sorted(found)) /\ LegalSeq(Cfg, ObserveAll(<<>>, found))
  BY <1>5, SortedIn, ObserveAllIn, AllLegal
<1>. QED  BY <1>0, <1>6, NoneLegal, MergedLegal

-----------------------------------------------------------------------------
(* Legality: the walk of a neighbourhood.                                   *)

\* Neighbourhoods with legal bases.
LegalBases(config, ns) == IsSequence(ns) /\ \A n \in DOMAIN ns : LegalLayout(config, ns[n].base)

\* Where layouts are held: the lists of a solve; the walk of a neighbourhood, whose
\* nodes are legal as far as their order is done; the repairs on the plateau; the
\* states and moves of the walk.
ListsAreLegal == LegalSeq(Cfg, elites) /\ LegalSeq(Cfg, archive)
WalkIsLegal ==
    phase = "walk" =>
        /\ Prepares(job.plan) /\ LegalSeq(Cfg, job.incumbents)
        /\ NodesOf(Cfg, job.plan.order, tasks)
        /\ \A n \in DOMAIN tasks \ (waiting \cup {at}) : n \in DOMAIN pools /\ LegalSeq(Cfg, pools[n])
        /\ at # 0 => NodesOf(Cfg, job.plan.order, todo) /\ LegalSeq(Cfg, pool)
LNSIsLegal ==
    stage = "lns" =>
        /\ LegalSeq(Cfg, bases) /\ LegalFor(Cfg, champion)
        /\ \A n \in DOMAIN Levels : LegalBases(Cfg, ready[n])
        /\ Batched => \A n \in DOMAIN batch : LegalLayout(Cfg, batch[n].of.base)
StepsAreLegal ==
    stage = "walk" =>
        /\ LegalFor(Cfg, champion)
        /\ IsSequence(walkers) /\ \A w \in Range(walkers) : LegalFor(Cfg, w.solution)
        /\ IsSequence(moves) /\ \A m \in Range(moves) : LegalLayout(Cfg, m.layout)
AllIsLegal == IInv /\ ListsAreLegal /\ WalkIsLegal /\ LNSIsLegal /\ StepsAreLegal

\* A solve has one configuration and its levels.
LEMMA ConfigStays ==
    ASSUME UNCHANGED fixedVars
    PROVE  Cfg' = Cfg /\ Levels' = Levels
BY DEF fixedVars, Cfg, Levels

\* What a step of the walk of a neighbourhood leaves alone.
aroundVars == <<fixedVars, stage, phase, elites, batch, job, tasks, bases, ready, champion, walkers, moves>>

\* A step of the walk of a neighbourhood leaves what surrounds it as it is.
LEMMA WalkStepIsLegal ==
    ASSUME AllIsLegal, UNCHANGED aroundVars, LegalSeq(Cfg, archive')
    PROVE  ListsAreLegal' /\ LNSIsLegal' /\ StepsAreLegal'
<1>1. Cfg' = Cfg /\ Levels' = Levels
  BY ConfigStays DEF aroundVars
<1>2. ListsAreLegal'
  BY <1>1 DEF AllIsLegal, ListsAreLegal, aroundVars
<1>3. LNSIsLegal'
  BY <1>1 DEF AllIsLegal, LNSIsLegal, aroundVars, Batched
<1>4. StepsAreLegal'
  BY <1>1 DEF AllIsLegal, StepsAreLegal, aroundVars
<1>. QED  BY <1>2, <1>3, <1>4

\* The nodes of a walk but the first, and some before them.
LEMMA TailOfNodes ==
    ASSUME NEW config, NEW order, NEW s, NodesOf(config, order, s), s # <<>>
    PROVE  /\ NodesOf(config, order, Tail(s)) /\ NodeOf(config, order, Head(s))
           /\ \A t : NodesOf(config, order, t) => NodesOf(config, order, t \o Tail(s))
<1>1. s \in Seq(Range(s)) /\ IsSequence(s) /\ \A x \in Range(s) : NodeOf(config, order, x)
  BY AreSequences DEF NodesOf, Range
<1>2. Head(s) \in Range(s) /\ Tail(s) \in Seq(Range(s))
  BY <1>1
<1>3. IsSequence(Tail(s)) /\ Range(Tail(s)) \subseteq Range(s)
  BY <1>2, SeqIsSequence
<1>4. NodesOf(config, order, Tail(s))
  BY <1>1, <1>3, AreSequences DEF NodesOf
<1>5. ASSUME NEW t, NodesOf(config, order, t) PROVE NodesOf(config, order, t \o Tail(s))
  <2>1. IsSequence(t) /\ \A x \in Range(t) : NodeOf(config, order, x)
    BY <1>5 DEF NodesOf, Range
  <2>2. IsSequence(t \o Tail(s)) /\ Range(t \o Tail(s)) \subseteq Range(t) \cup Range(Tail(s))
    BY <1>3, <2>1, JoinedSequences, SeqIsSequence
  <2>3. \A x \in Range(t \o Tail(s)) : NodeOf(config, order, x)
    BY <1>1, <1>3, <2>1, <2>2
  <2>4. \A n \in DOMAIN (t \o Tail(s)) : (t \o Tail(s))[n] \in Range(t \o Tail(s))
    BY <2>2, AreSequences
  <2>. QED  BY <2>2, <2>3, <2>4 DEF NodesOf
<1>. QED  BY <1>1, <1>2, <1>4, <1>5

\* A task starts at a node of its plan.
LEMMA StartTaskIsLegal ==
    ASSUME AllIsLegal, StartTask, UNCHANGED <<lnsVars, stepVars>>
    PROVE  ListsAreLegal' /\ WalkIsLegal' /\ LNSIsLegal' /\ StepsAreLegal'
<1>1. UNCHANGED aroundVars /\ UNCHANGED <<archive, pools>> /\ phase = "walk" /\ at = 0 /\ waiting' = waiting \ {at'}
      /\ todo' = <<tasks[at']>> /\ pool' = MergeSolutions(<<>>, job.incumbents, Limit)
  BY DEF StartTask, aroundVars, roundVars, lnsVars, stepVars
<1>2. Cfg' = Cfg
  BY <1>1, ConfigStays DEF aroundVars
<1>3. ListsAreLegal' /\ LNSIsLegal' /\ StepsAreLegal'
  BY <1>1, WalkStepIsLegal DEF AllIsLegal, ListsAreLegal
<1>4. /\ Prepares(job.plan) /\ LegalSeq(Cfg, job.incumbents) /\ NodesOf(Cfg, job.plan.order, tasks)
      /\ \A n \in DOMAIN tasks \ (waiting \cup {at}) : n \in DOMAIN pools /\ LegalSeq(Cfg, pools[n])
  BY <1>1 DEF AllIsLegal, WalkIsLegal
<1>5. at' \in DOMAIN tasks /\ at' \in waiting
  <2>1. InWalk /\ waiting # {}
    BY <1>1 DEF AllIsLegal, IInv, TasksWithinQuota, StartTask
  <2>2. at' \in waiting
    <3>1. CASE Cfg.workers > 1
      BY <3>1 DEF StartTask
    <3>2. CASE ~(Cfg.workers > 1)
      <4>1. at' = Min(waiting)
        BY <3>2 DEF StartTask
      <4>2. waiting \in SUBSET Nat
        BY <2>1, TasksAreNumbered DEF InWalk
      <4>3. \E m \in waiting : \A n \in waiting : m <= n
        BY <2>1, <4>2, LeastNatural
      <4>. QED  BY <4>1, <4>3 DEF Min
    <3>. QED  BY <3>1, <3>2
  <2>. QED  BY <2>1, <2>2 DEF InWalk
<1>6. DOMAIN tasks \ (waiting' \cup {at'}) \subseteq DOMAIN tasks \ (waiting \cup {at})
  <2>1. 0 \notin DOMAIN tasks
    BY <1>1, TasksAreNumbered DEF AllIsLegal, IInv, TasksWithinQuota
  <2>. QED  BY <1>1, <1>5, <2>1
<1>7. LegalSeq(Cfg, pool')
  BY <1>1, <1>4, NoneLegal, MergedLegal DEF AllIsLegal, IInv
<1>8. NodesOf(Cfg, job.plan.order, todo')
  <2>1. NodeOf(Cfg, job.plan.order, tasks[at'])
    BY <1>4, <1>5 DEF NodesOf
  <2>2. IsSequence(<<tasks[at']>>)
    <3>1. <<tasks[at']>> \in Seq({tasks[at']})
      OBVIOUS
    <3>. QED  BY <3>1, SeqIsSequence
  <2>3. \A n \in DOMAIN <<tasks[at']>> : <<tasks[at']>>[n] = tasks[at']
    OBVIOUS
  <2>. QED  BY <1>1, <2>1, <2>2, <2>3 DEF NodesOf
<1>9. WalkIsLegal'
  BY <1>1, <1>2, <1>4, <1>6, <1>7, <1>8 DEF WalkIsLegal, aroundVars
<1>. QED  BY <1>3, <1>9

\* A visit, where what is to do still are nodes of the walk.
LEMMA VisitIsLegal ==
    ASSUME AllIsLegal, NEW next, Visit(next), UNCHANGED <<lnsVars, stepVars>>,
           NodesOf(Cfg, job.plan.order, todo) => NodesOf(Cfg, job.plan.order, next),
           LegalSeq(Cfg, archive'), LegalSeq(Cfg, pool) => LegalSeq(Cfg, pool')
    PROVE  ListsAreLegal' /\ WalkIsLegal' /\ LNSIsLegal' /\ StepsAreLegal'
<1>1. UNCHANGED aroundVars /\ UNCHANGED <<waiting, at, pools>> /\ phase = "walk" /\ at # 0 /\ todo' = next
  BY DEF Visit, Walking, aroundVars, roundVars, taskVars, lnsVars, stepVars
<1>2. Cfg' = Cfg
  BY <1>1, ConfigStays DEF aroundVars
<1>3. ListsAreLegal' /\ LNSIsLegal' /\ StepsAreLegal'
  BY <1>1, WalkStepIsLegal
<1>4. /\ Prepares(job.plan) /\ LegalSeq(Cfg, job.incumbents) /\ NodesOf(Cfg, job.plan.order, tasks)
      /\ \A n \in DOMAIN tasks \ (waiting \cup {at}) : n \in DOMAIN pools /\ LegalSeq(Cfg, pools[n])
      /\ NodesOf(Cfg, job.plan.order, next) /\ LegalSeq(Cfg, pool')
  BY <1>1 DEF AllIsLegal, WalkIsLegal
<1>5. WalkIsLegal'
  BY <1>1, <1>2, <1>4 DEF WalkIsLegal, aroundVars
<1>. QED  BY <1>3, <1>5

\* A task that ends leaves its pool.
LEMMA EndTaskIsLegal ==
    ASSUME AllIsLegal, EndTask, UNCHANGED <<lnsVars, stepVars>>
    PROVE  ListsAreLegal' /\ WalkIsLegal' /\ LNSIsLegal' /\ StepsAreLegal'
<1>1. UNCHANGED aroundVars /\ UNCHANGED <<archive, waiting>> /\ phase = "walk" /\ at # 0 /\ at' = 0
      /\ pools' = With(pools, at, pool)
  BY DEF EndTask, aroundVars, roundVars, lnsVars, stepVars
<1>2. Cfg' = Cfg
  BY <1>1, ConfigStays DEF aroundVars
<1>3. ListsAreLegal' /\ LNSIsLegal' /\ StepsAreLegal'
  BY <1>1, WalkStepIsLegal DEF AllIsLegal, ListsAreLegal
<1>4. /\ Prepares(job.plan) /\ LegalSeq(Cfg, job.incumbents) /\ NodesOf(Cfg, job.plan.order, tasks)
      /\ \A n \in DOMAIN tasks \ (waiting \cup {at}) : n \in DOMAIN pools /\ LegalSeq(Cfg, pools[n])
      /\ LegalSeq(Cfg, pool)
  BY <1>1 DEF AllIsLegal, WalkIsLegal
<1>5. ASSUME NEW n \in DOMAIN tasks \ waiting PROVE n \in DOMAIN pools' /\ LegalSeq(Cfg, pools'[n])
  <2>1. CASE n = at
    <3>1. n \in DOMAIN pools' /\ pools'[n] = pool
      BY <1>1, <2>1 DEF With
    <3>. QED  BY <1>4, <3>1
  <2>2. CASE n # at
    <3>1. n \in DOMAIN pools' /\ pools'[n] = pools[n]
      BY <1>1, <1>4, <1>5, <2>2 DEF With
    <3>. QED  BY <1>4, <1>5, <2>2, <3>1
  <2>. QED  BY <2>1, <2>2
<1>6. WalkIsLegal'
  BY <1>1, <1>2, <1>4, <1>5 DEF WalkIsLegal, aroundVars
<1>. QED  BY <1>3, <1>6

-----------------------------------------------------------------------------
(* Legality: repair.                                                        *)

\* What is put back together in full is legal, and offered.
LEMMA CompleteIsLegal ==
    ASSUME AllIsLegal, Complete, UNCHANGED <<lnsVars, stepVars>>
    PROVE  ListsAreLegal' /\ WalkIsLegal' /\ LNSIsLegal' /\ StepsAreLegal'
<1>1. Visit(Tail(todo)) /\ IsLeaf(job.plan, Head(todo)) /\ phase = "walk" /\ at # 0 /\ todo # <<>>
  BY DEF Complete, Visit, Walking
<1>2. /\ Prepares(job.plan) /\ NodesOf(Cfg, job.plan.order, todo) /\ LegalSeq(Cfg, pool)
      /\ LegalSeq(Cfg, archive)
  BY <1>1 DEF AllIsLegal, WalkIsLegal, ListsAreLegal
<1>3. NodesOf(Cfg, job.plan.order, Tail(todo)) /\ NodeOf(Cfg, job.plan.order, Head(todo))
  BY <1>1, <1>2, TailOfNodes
<1>4. LegalLayout(Cfg, Head(todo).layout)
  BY <1>1, <1>2, <1>3, PlacedInFull DEF NodeOf, IsLeaf, Prepares
<1>5. PICK s \in {Solution(Head(todo).layout, Cfg)} :
          IF BelowTarget(s.score) THEN UNCHANGED <<pool, archive, observed>> ELSE Accept(s)
  BY DEF Complete
<1>6. LegalFor(Cfg, s)
  BY <1>4, <1>5 DEF LegalFor, Solution
<1>7. LegalSeq(Cfg, pool') /\ LegalSeq(Cfg, archive')
  <2>1. CASE BelowTarget(s.score)
    BY <1>2, <1>5, <2>1
  <2>2. CASE ~BelowTarget(s.score)
    BY <1>2, <1>5, <1>6, <2>2, AddedLegal DEF Accept
  <2>. QED  BY <2>1, <2>2
<1>. QED  BY <1>1, <1>3, <1>7, VisitIsLegal

\* A node that is visited is a legal layout when its order is done, and so are its
\* children when theirs is.
LEMMA DescendIsLegal ==
    ASSUME AllIsLegal, Descend, UNCHANGED <<lnsVars, stepVars>>
    PROVE  ListsAreLegal' /\ WalkIsLegal' /\ LNSIsLegal' /\ StepsAreLegal'
<1>. DEFINE order == job.plan.order
            node == Head(todo)
            below == Children(Cfg, job.plan, node)
<1>1. /\ Visit(below \o Tail(todo)) /\ ~IsLeaf(job.plan, node) /\ phase = "walk" /\ at # 0 /\ todo # <<>>
      /\ UNCHANGED <<pool, archive>>
  BY DEF Descend, Walking
<1>2. /\ Prepares(job.plan) /\ NodesOf(Cfg, order, todo) /\ LegalSeq(Cfg, archive)
  BY <1>1 DEF AllIsLegal, WalkIsLegal, ListsAreLegal
<1>3. NodeOf(Cfg, order, node)
  BY <1>1, <1>2, TailOfNodes
<1>4. Len(order) \in Nat /\ node.depth \in 0..(Len(order) - 1)
  <2>1. Len(order) \in Nat
    BY <1>2, AreSequences DEF Prepares, IsSequence
  <2>. QED  BY <1>1, <1>3, <2>1 DEF NodeOf, IsLeaf
<1>5. NodesOf(Cfg, order, below)
  <2>1. NodeAt(Cfg, order, TRUE, node, node.depth)
    BY <1>3 DEF NodeAt, NodeOf
  <2>2. AllAt(Cfg, order, TRUE, below, node.depth + 1)
    BY <1>2, <1>4, <2>1, ChildrenAt
  <2>3. node.depth + 1 \in 0..Len(order)
    BY <1>4
  <2>. HIDE DEF below, order, node
  <2>. QED  BY <2>2, <2>3 DEF AllAt, NodeAt, NodesOf, NodeOf
<1>6. NodesOf(Cfg, order, below \o Tail(todo))
  <2>. HIDE DEF below, order
  <2>. QED  BY <1>1, <1>2, <1>5, TailOfNodes
<1>. QED
  <2>. HIDE DEF below, node
  <2>. QED  BY <1>1, <1>2, <1>6, VisitIsLegal

\* Every step of the walk of a neighbourhood.
LEMMA WalkNextIsLegal ==
    ASSUME AllIsLegal, WalkNext, UNCHANGED <<lnsVars, stepVars>>
    PROVE  ListsAreLegal' /\ WalkIsLegal' /\ LNSIsLegal' /\ StepsAreLegal'
<1>0. LegalSeq(Cfg, archive)
  BY DEF AllIsLegal, ListsAreLegal
<1>1. CASE Halt
  <2>1. Visit(todo) /\ UNCHANGED <<pool, archive>>
    BY <1>1 DEF Halt
  <2>. QED  BY <1>0, <2>1, VisitIsLegal
<1>2. CASE Prune
  <2>1. Visit(Tail(todo)) /\ UNCHANGED <<pool, archive>> /\ todo # <<>>
    BY <1>2 DEF Prune, Visit, Walking
  <2>. QED  BY <1>0, <2>1, TailOfNodes, VisitIsLegal
<1>. QED  BY <1>1, <1>2, StartTaskIsLegal, DescendIsLegal, CompleteIsLegal, EndTaskIsLegal DEF WalkNext
-----------------------------------------------------------------------------
\* Where nothing is searched and the stage stays repair, the lists are all there is.
LEMMA RepairStepIsLegal ==
    ASSUME AllIsLegal, stage' = "repair", UNCHANGED <<fixedVars, archive>>, LegalSeq(Cfg, elites')
    PROVE  ListsAreLegal' /\ LNSIsLegal' /\ StepsAreLegal' /\ Cfg' = Cfg
<1>1. Cfg' = Cfg
  BY ConfigStays
<1>2. ListsAreLegal'
  BY <1>1 DEF AllIsLegal, ListsAreLegal
<1>3. LNSIsLegal' /\ StepsAreLegal'
  BY DEF LNSIsLegal, StepsAreLegal
<1>. QED  BY <1>1, <1>2, <1>3

\* Steps of repair that touch no layout.
LEMMA QuietRoundIsLegal ==
    ASSUME AllIsLegal, StartRound \/ EndRound \/ EndRepair \/ PassOver
    PROVE  ListsAreLegal' /\ WalkIsLegal' /\ LNSIsLegal' /\ StepsAreLegal'
<1>1. stage' = "repair" /\ UNCHANGED <<fixedVars, archive, elites>> /\ phase' # "walk"
  BY DEF StartRound, EndRound, EndRepair, PassOver, InBatch, roundVars, walkVars
<1>2. LegalSeq(Cfg, elites')
  BY <1>1 DEF AllIsLegal, ListsAreLegal
<1>3. WalkIsLegal'
  BY <1>1 DEF WalkIsLegal
<1>. QED  BY <1>1, <1>2, <1>3, RepairStepIsLegal

\* A canceled solve has no other layouts than before.
LEMMA CancelIsLegal ==
    ASSUME AllIsLegal, Cancel, UNCHANGED <<lnsVars, stepVars>>
    PROVE  ListsAreLegal' /\ WalkIsLegal' /\ LNSIsLegal' /\ StepsAreLegal'
<1>1. UNCHANGED aroundVars /\ UNCHANGED <<archive, waiting, at, todo, pool, pools>>
  BY DEF Cancel, aroundVars, roundVars, taskVars, walkVars, lnsVars, stepVars
<1>2. Cfg' = Cfg
  BY <1>1, ConfigStays DEF aroundVars
<1>3. ListsAreLegal' /\ LNSIsLegal' /\ StepsAreLegal'
  BY <1>1, WalkStepIsLegal DEF AllIsLegal, ListsAreLegal
<1>4. WalkIsLegal'
  BY <1>1, <1>2 DEF AllIsLegal, WalkIsLegal, aroundVars
<1>. QED  BY <1>3, <1>4

\* A neighbourhood that starts, of a legal layout and with legal incumbents.
LEMMA StartIsLegal ==
    ASSUME AllIsLegal, NEW n, NEW share, NEW target, NEW incumbents, Start(n, share, target, incumbents),
           LegalLayout(Cfg, n.base), LegalSeq(Cfg, incumbents)
    PROVE  WalkIsLegal' /\ Cfg' = Cfg /\ Levels' = Levels
<1>. DEFINE order == RepairOrder(n.ids)
            j == Job(PlanFor(order), n.base, n.ids, share, target, incumbents)
<1>1. job' = j /\ tasks' = TasksOf(j) /\ waiting' = DOMAIN tasks' /\ at' = 0 /\ UNCHANGED fixedVars
  BY DEF Start
<1>2. Cfg' = Cfg /\ Levels' = Levels
  BY <1>1, ConfigStays
<1>3. j.plan = PlanFor(order) /\ j.plan.order = order /\ j.incumbents = incumbents
  BY DEF Job, PlanFor
<1>4. Prepares(PlanFor(order)) /\ NodesOf(Cfg, order, TasksOf(j))
  BY PlanPrepares, TasksAreSequences DEF AllIsLegal, IInv
<1>. HIDE DEF j, order
<1>5. WalkIsLegal'
  BY <1>1, <1>2, <1>3, <1>4 DEF WalkIsLegal
<1>. QED  BY <1>2, <1>5

\* The plan of a neighbourhood starts from a legal layout with a target taken out.
LEMMA StartRepairIsLegal ==
    ASSUME AllIsLegal, StartRepair
    PROVE  ListsAreLegal' /\ WalkIsLegal' /\ LNSIsLegal' /\ StepsAreLegal'
<1>1. /\ stage = "repair" /\ HasBase(Head(batch).of)
      /\ Start(Head(batch).of, Head(batch).quota, <<>>, elites)
  BY DEF StartRepair, InBatch
<1>2. stage' = "repair" /\ UNCHANGED <<fixedVars, archive, elites>>
  BY <1>1 DEF Start, walkVars
<1>3. LegalSeq(Cfg, elites)
  BY DEF AllIsLegal, ListsAreLegal
<1>4. LegalLayout(Cfg, Head(batch).of.base)
  BY <1>1, <1>3 DEF HasBase, Layouts, LegalSeq, LegalFor
<1>5. WalkIsLegal'
  BY <1>1, <1>3, <1>4, StartIsLegal
<1>. QED  BY <1>2, <1>3, <1>5, RepairStepIsLegal

\* All that the tasks of a neighbourhood found is legal.
LEMMA SearchedIsLegal ==
    ASSUME AllIsLegal, Searched
    PROVE  LegalSeq(Cfg, Merged)
<1>1. phase = "walk" /\ at = 0 /\ waiting = {}
  BY DEF Searched
<1>2. IsSequence(tasks) /\ \A n \in DOMAIN tasks \ {0} : LegalSeq(Cfg, pools[n])
  BY <1>1 DEF AllIsLegal, WalkIsLegal, NodesOf
<1>3. 0 \notin DOMAIN tasks
  BY <1>1, TasksAreNumbered DEF AllIsLegal, IInv, TasksWithinQuota
<1>. QED  BY <1>2, <1>3, MergedPoolsLegal DEF AllIsLegal, IInv

\* What a neighbourhood found is legal, and so is what is kept with it.
LEMMA MergeRepairIsLegal ==
    ASSUME AllIsLegal, MergeRepair
    PROVE  ListsAreLegal' /\ WalkIsLegal' /\ LNSIsLegal' /\ StepsAreLegal'
<1>1. /\ stage' = "repair" /\ phase' = "batch" /\ Searched /\ elites' = MergeSolutions(elites, Merged, Limit)
      /\ UNCHANGED <<fixedVars, archive>>
  BY DEF MergeRepair, walkVars
<1>2. LegalSeq(Cfg, elites')
  BY <1>1, SearchedIsLegal, MergedLegal DEF AllIsLegal, IInv, ListsAreLegal
<1>3. WalkIsLegal'
  BY <1>1 DEF WalkIsLegal
<1>. QED  BY <1>1, <1>2, <1>3, RepairStepIsLegal

\* Every step of repair.
LEMMA RepairNextIsLegal ==
    ASSUME AllIsLegal, RepairNext, UNCHANGED <<lnsVars, stepVars>>
    PROVE  ListsAreLegal' /\ WalkIsLegal' /\ LNSIsLegal' /\ StepsAreLegal'
BY CancelIsLegal, QuietRoundIsLegal, StartRepairIsLegal, MergeRepairIsLegal, WalkNextIsLegal DEF RepairNext

\* What repair begins with is legal.
LEMMA LegalAtFirst ==
    Init => AllIsLegal
<1>. SUFFICES ASSUME Init PROVE AllIsLegal
  OBVIOUS
<1>1. IInv
  BY InvariantHoldsAtFirst
<1>2. /\ stage = "repair" /\ phase = "round"
      /\ elites = MergeSolutions(<<>>, prepared.seeds, Limit) /\ archive = ObserveAll(<<>>, prepared.found)
  BY DEF Init, RepairInit
<1>3. ListsAreLegal
  BY <1>1, <1>2, SeedsAreLegal DEF IInv, ListsAreLegal
<1>. QED  BY <1>1, <1>2, <1>3 DEF AllIsLegal, WalkIsLegal, LNSIsLegal, StepsAreLegal

-----------------------------------------------------------------------------
(* Legality: the phases and levels of the plateau.                          *)

\* A step outside of the walks of neighbourhoods that leaves the lists legal.
LEMMA QuietIsLegal ==
    ASSUME AllIsLegal, phase' # "walk", UNCHANGED fixedVars, LegalSeq(Cfg, elites'), LegalSeq(Cfg, archive')
    PROVE  ListsAreLegal' /\ WalkIsLegal' /\ Cfg' = Cfg /\ Levels' = Levels
<1>1. Cfg' = Cfg /\ Levels' = Levels
  BY ConfigStays
<1>. QED  BY <1>1 DEF ListsAreLegal, WalkIsLegal

\* What is kept of the champion of a phase.
LEMMA KeptIsLegal ==
    ASSUME AllIsLegal, KeepChampion, LegalFor(Cfg, champion)
    PROVE  LegalSeq(Cfg, elites')
<1>1. LegalSeq(Cfg, elites)
  BY DEF AllIsLegal, ListsAreLegal
<1>2. LegalSeq(Cfg, MergeSolutions(elites, <<champion>>, Limit))
  BY <1>1, OneLegal, MergedLegal DEF AllIsLegal, IInv
<1>. QED  BY <1>1, <1>2 DEF KeepChampion

\* Where no neighbourhood is searched there are only the lists to look at.
LEMMA RestIsLegal ==
    ASSUME AllIsLegal, stage' \in {"between", "done"}, phase' # "walk", UNCHANGED <<fixedVars, archive>>,
           LegalSeq(Cfg, elites')
    PROVE  ListsAreLegal' /\ WalkIsLegal' /\ LNSIsLegal' /\ StepsAreLegal'
<1>1. LNSIsLegal' /\ StepsAreLegal'
  BY DEF LNSIsLegal, StepsAreLegal
<1>2. LegalSeq(Cfg, archive')
  BY DEF AllIsLegal, ListsAreLegal
<1>. QED  BY <1>1, <1>2, QuietIsLegal

\* A phase that ends leaves the lists legal.
LEMMA EndsAreLegal ==
    ASSUME AllIsLegal, Abandon \/ NoWalk \/ EndLNS \/ EndWalk
    PROVE  ListsAreLegal' /\ WalkIsLegal' /\ LNSIsLegal' /\ StepsAreLegal'
<1>0. LegalSeq(Cfg, elites)
  BY DEF AllIsLegal, ListsAreLegal
<1>1. CASE Abandon
  <2>1. /\ stage' \in {"between", "done"} /\ phase' # "walk" /\ UNCHANGED <<fixedVars, archive>> /\ elites' = <<>>
    BY <1>1 DEF Abandon, RepairEnded, walkVars
  <2>. QED  BY <2>1, NoneLegal, RestIsLegal
<1>2. CASE NoWalk
  <2>1. phase # "walk"
    BY <1>2, BeforePlateau DEF NoWalk, BeforeWalk, AllIsLegal
  <2>2. /\ stage' \in {"between", "done"} /\ phase' # "walk" /\ UNCHANGED <<fixedVars, archive, elites>>
    BY <1>2, <2>1 DEF NoWalk, roundVars, walkVars
  <2>. QED  BY <1>0, <2>2, RestIsLegal
<1>3. CASE EndLNS
  <2>1. /\ stage' \in {"between", "done"} /\ phase' # "walk" /\ UNCHANGED <<fixedVars, archive>>
        /\ KeepChampion /\ stage = "lns"
    BY <1>3 DEF EndLNS, walkVars
  <2>2. LegalSeq(Cfg, elites')
    BY <2>1, KeptIsLegal DEF AllIsLegal, LNSIsLegal
  <2>. QED  BY <2>1, <2>2, RestIsLegal
<1>4. CASE EndWalk
  <2>1. stage = "walk" /\ phase # "walk"
    BY <1>4 DEF EndWalk, AllIsLegal, IInv, Control
  <2>2. /\ stage' \in {"between", "done"} /\ phase' # "walk" /\ UNCHANGED <<fixedVars, archive>> /\ KeepChampion
    BY <1>4, <2>1 DEF EndWalk, walkVars
  <2>3. LegalSeq(Cfg, elites')
    BY <2>1, <2>2, KeptIsLegal DEF AllIsLegal, StepsAreLegal
  <2>. QED  BY <2>2, <2>3, RestIsLegal
<1>. QED  BY <1>1, <1>2, <1>3, <1>4
-----------------------------------------------------------------------------
\* A phase begins with the best result and what is in the archive.
LEMMA BeginsLegal ==
    ASSUME AllIsLegal, AtCeiling, NEW next, NEW amount, BeginPhase(next, amount), phase' # "walk"
    PROVE  /\ ListsAreLegal' /\ WalkIsLegal' /\ Cfg' = Cfg /\ Levels' = Levels
           /\ LegalFor(Cfg, elites[1]) /\ champion' = elites[1]
           /\ LegalSeq(Cfg, archive) /\ bases' = archive /\ stage' = next
<1>1. /\ UNCHANGED <<fixedVars, elites, archive>> /\ champion' = elites[1] /\ bases' = archive /\ stage' = next
  BY DEF BeginPhase, walkVars
<1>2. LegalSeq(Cfg, elites) /\ LegalSeq(Cfg, archive)
  BY DEF AllIsLegal, ListsAreLegal
<1>3. LegalFor(Cfg, elites[1])
  <2>1. elites \in Seq(Range(elites)) /\ elites # <<>>
    BY <1>2, LegalOnes DEF AtCeiling
  <2>2. 1 \in DOMAIN elites
    BY <2>1
  <2>. QED  BY <1>2, <2>2, LegalOnes
<1>. QED  BY <1>1, <1>2, <1>3, QuietIsLegal

\* The repairs on the plateau begin from the archive and the elites.
LEMMA StartLNSIsLegal ==
    ASSUME AllIsLegal, StartLNS
    PROVE  ListsAreLegal' /\ WalkIsLegal' /\ LNSIsLegal' /\ StepsAreLegal'
<1>1. /\ AtCeiling /\ BeginPhase("lns", LNSBudget) /\ phase' = "level"
      /\ ready' = [n \in DOMAIN Levels |-> LevelNeighbourhoods(Levels[n], archive, elites[1].score.priority)]
  BY DEF StartLNS
<1>2. /\ ListsAreLegal' /\ WalkIsLegal' /\ Cfg' = Cfg /\ Levels' = Levels
      /\ LegalFor(Cfg, elites[1]) /\ champion' = elites[1]
      /\ LegalSeq(Cfg, archive) /\ bases' = archive /\ stage' = "lns"
  BY <1>1, BeginsLegal
<1>3. ASSUME NEW n \in DOMAIN Levels PROVE LegalBases(Cfg, ready'[n])
  <2>1. /\ IsSequence(archive) /\ \A k \in DOMAIN archive : LegalLayout(Cfg, archive[k].layout)
    BY <1>2, LegalOnes DEF LegalFor
  <2>2. Based(LevelNeighbourhoods(Levels[n], archive, elites[1].score.priority),
              {archive[k].layout : k \in DOMAIN archive})
    BY <2>1, LevelIsBased
  <2>3. LegalBases(Cfg, LevelNeighbourhoods(Levels[n], archive, elites[1].score.priority))
    BY <2>1, <2>2 DEF Based, LegalBases
  <2>. QED  BY <1>1, <2>3
<1>4. LNSIsLegal'
  BY <1>1, <1>2, <1>3 DEF LNSIsLegal, Batched
<1>5. StepsAreLegal'
  BY <1>2 DEF StepsAreLegal
<1>. QED  BY <1>2, <1>4, <1>5

\* A step of the phase of repairs that leaves the lists, the champion and the levels.
LEMMA LNSStepIsLegal ==
    ASSUME AllIsLegal, stage = "lns", stage' = "lns", UNCHANGED <<fixedVars, elites, archive, bases, ready>>,
           LegalFor(Cfg, champion'),
           Batched' => \A n \in DOMAIN batch' : LegalLayout(Cfg, batch'[n].of.base)
    PROVE  ListsAreLegal' /\ LNSIsLegal' /\ StepsAreLegal'
<1>1. Cfg' = Cfg /\ Levels' = Levels
  BY ConfigStays
<1>2. LegalSeq(Cfg, bases) /\ \A n \in DOMAIN Levels : LegalBases(Cfg, ready[n])
  BY DEF AllIsLegal, LNSIsLegal
<1>3. ListsAreLegal'
  BY <1>1 DEF AllIsLegal, ListsAreLegal
<1>4. LNSIsLegal'
  BY <1>1, <1>2 DEF LNSIsLegal
<1>. QED  BY <1>3, <1>4 DEF StepsAreLegal

\* A level has neighbourhoods of legal layouts only.
LEMMA StartLevelIsLegal ==
    ASSUME AllIsLegal, StartLevel
    PROVE  ListsAreLegal' /\ WalkIsLegal' /\ LNSIsLegal' /\ StepsAreLegal'
<1>1. /\ stage = "lns" /\ level <= Len(Levels) /\ batch' = Divided(ready[level], quota') /\ phase' = "batch"
      /\ UNCHANGED <<fixedVars, stage, elites, archive, bases, ready, champion>>
  BY DEF StartLevel, AtLevel, walkVars
<1>2. level \in DOMAIN Levels
  BY <1>1, LevelQuotaIsLeft DEF AllIsLegal
<1>3. LegalBases(Cfg, ready[level]) /\ LegalFor(Cfg, champion)
  BY <1>1, <1>2 DEF AllIsLegal, LNSIsLegal
<1>4. DOMAIN batch' = DOMAIN ready[level] /\ \A n \in DOMAIN batch' : batch'[n].of = ready[level][n]
  BY <1>1 DEF Divided, WithQuotas
<1>5. \A n \in DOMAIN batch' : LegalLayout(Cfg, batch'[n].of.base)
  BY <1>3, <1>4 DEF LegalBases
<1>6. WalkIsLegal'
  BY <1>1 DEF WalkIsLegal
<1>. QED  BY <1>1, <1>3, <1>5, <1>6, LNSStepIsLegal

\* The neighbourhoods after the first are of legal layouts where all are.
LEMMA RestOfBatch ==
    ASSUME AllIsLegal, stage = "lns", Batched, batch # <<>>
    PROVE  /\ LegalLayout(Cfg, Head(batch).of.base)
           /\ \A n \in DOMAIN Tail(batch) : LegalLayout(Cfg, Tail(batch)[n].of.base)
<1>1. IsSequence(batch) /\ \A n \in DOMAIN batch : LegalLayout(Cfg, batch[n].of.base)
  BY DEF AllIsLegal, IInv, BatchHasQuotas, HasQuotas, LNSIsLegal
<1>2. batch \in Seq(Range(batch)) /\ \A x \in Range(batch) : LegalLayout(Cfg, x.of.base)
  BY <1>1, AreSequences DEF Range
<1>3. Head(batch) \in Range(batch) /\ Tail(batch) \in Seq(Range(batch))
  BY <1>2
<1>4. \A n \in DOMAIN Tail(batch) : Tail(batch)[n] \in Range(batch)
  BY <1>3
<1>. QED  BY <1>2, <1>3, <1>4

\* An opportunity is searched from its base, as a neighbourhood of repair is.
LEMMA OpportunitiesAreLegal ==
    ASSUME AllIsLegal, PassOpportunity \/ StartOpportunity
    PROVE  ListsAreLegal' /\ WalkIsLegal' /\ LNSIsLegal' /\ StepsAreLegal'
<1>1. /\ stage = "lns" /\ stage' = "lns" /\ phase = "batch" /\ batch # <<>> /\ batch' = Tail(batch)
      /\ UNCHANGED <<fixedVars, elites, archive, bases, ready, champion>>
  BY DEF PassOpportunity, StartOpportunity, Start, InLevel, walkVars, lnsVars
<1>2. LegalFor(Cfg, champion) /\ LegalSeq(Cfg, bases) /\ Batched
  BY <1>1 DEF AllIsLegal, LNSIsLegal, Batched
<1>3. /\ LegalLayout(Cfg, Head(batch).of.base)
      /\ \A n \in DOMAIN batch' : LegalLayout(Cfg, batch'[n].of.base)
  BY <1>1, <1>2, RestOfBatch
<1>4. ListsAreLegal' /\ LNSIsLegal' /\ StepsAreLegal'
  BY <1>1, <1>2, <1>3, LNSStepIsLegal
<1>5. CASE PassOpportunity
  <2>1. phase' # "walk"
    BY <1>1, <1>5 DEF PassOpportunity
  <2>. QED  BY <1>4, <2>1 DEF WalkIsLegal
<1>6. CASE StartOpportunity
  <2>1. Start(Head(batch).of, Head(batch).quota, champion.score.priority, bases)
    BY <1>6 DEF StartOpportunity
  <2>. QED  BY <1>2, <1>3, <1>4, <2>1, StartIsLegal
<1>. QED  BY <1>5, <1>6

\* What an opportunity found joins the elites and the archive.
LEMMA EndOpportunityIsLegal ==
    ASSUME AllIsLegal, EndOpportunity
    PROVE  ListsAreLegal' /\ WalkIsLegal' /\ LNSIsLegal' /\ StepsAreLegal'
<1>1. /\ stage = "lns" /\ stage' = "lns" /\ Searched /\ phase' = "batch"
      /\ UNCHANGED <<fixedVars, elites, archive, bases, ready, batch>>
  BY DEF EndOpportunity, walkVars
<1>2. champion' = BestOf(champion, Merged)
  BY Zenon DEF EndOpportunity, BestOf
<1>3. LegalFor(Cfg, champion) /\ \A n \in DOMAIN batch : LegalLayout(Cfg, batch[n].of.base)
  BY <1>1 DEF AllIsLegal, LNSIsLegal, Batched, Searched
<1>4. LegalFor(Cfg, champion')
  BY <1>1, <1>2, <1>3, SearchedIsLegal, BestLegal
<1>5. WalkIsLegal'
  BY <1>1 DEF WalkIsLegal
<1>. QED  BY <1>1, <1>3, <1>4, <1>5, LNSStepIsLegal

\* A level that is passed over or ends leaves the lists legal.
LEMMA BetweenLevelsIsLegal ==
    ASSUME AllIsLegal, PassLevel \/ EndLevel
    PROVE  ListsAreLegal' /\ WalkIsLegal' /\ LNSIsLegal' /\ StepsAreLegal'
<1>1. /\ stage = "lns" /\ stage' = "lns" /\ phase' = "level"
      /\ UNCHANGED <<fixedVars, elites, archive, bases, ready, champion>>
  BY DEF PassLevel, AtLevel, EndLevel, InLevel, repairVars, roundVars, walkVars
<1>2. LegalFor(Cfg, champion) /\ ~Batched'
  BY <1>1 DEF AllIsLegal, LNSIsLegal, Batched
<1>3. WalkIsLegal'
  BY <1>1 DEF WalkIsLegal
<1>. QED  BY <1>1, <1>2, <1>3, LNSStepIsLegal

-----------------------------------------------------------------------------
(* Legality: the moves of the walk, and the theorems.                       *)

\* The empty sequence.
LEMMA EmptyIsSequence ==
    IsSequence(<<>>) /\ Range(<<>>) = {}
<1>1. <<>> \in Seq({})
  OBVIOUS
<1>2. IsSequence(<<>>)
  BY <1>1, SeqIsSequence
<1>3. DOMAIN <<>> = {}
  OBVIOUS
<1>. QED  BY <1>2, <1>3 DEF Range

\* The moves of an instance from a legal layout lead to legal ones.
LEMMA MovesOfAreLegal ==
    ASSUME PreparedIs, NEW l, LegalLayout(Cfg, l), NEW i \in DOMAIN l
    PROVE  /\ IsSequence(Reached(l, i, MovesOf(l, i)))
           /\ \A x \in Range(Reached(l, i, MovesOf(l, i))) : LegalLayout(Cfg, x)
<1>. DEFINE s == prepared.options[i]
            P == {n \in DOMAIN s : s[n] # l[i] /\ Fits(Without(l, i), s[n]) /\ RespectsCopyOrder(l, i, s[n])}
            places == TakePlaces(s, Upwards(P))
            reached == [n \in DOMAIN places |-> With(l, i, places[n])]
<1>1. Reached(l, i, MovesOf(l, i)) = reached
  BY Zenon DEF Reached, MovesOf, Where
<1>2. i \in Instances /\ Partly(l) /\ (Cfg.allowSkips \/ DOMAIN l = Instances)
  BY LegalIsPartly DEF LegalLayout
<1>3. IsSequence(s) /\ Range(s) \subseteq OptionSet(i)
  BY <1>2, PreparedOptions DEF PreparedIs
<1>4. P \in SUBSET DOMAIN s
  OBVIOUS
<1>5. \A n \in P : s[n] \in OptionSet(i) /\ Fits(Without(l, i), s[n]) /\ RespectsCopyOrder(l, i, s[n])
  BY <1>3, AreSequences
<1>. HIDE DEF P, s
<1>6. IsSequence(places) /\ Range(places) \subseteq {s[n] : n \in P}
  BY <1>3, <1>4, TakenAre
<1>. HIDE DEF places
<1>7. ASSUME NEW p \in Range(places) PROVE LegalLayout(Cfg, With(l, i, p))
  <2>1. p \in OptionSet(i) /\ Fits(Without(l, i), p) /\ RespectsCopyOrder(l, i, p)
    BY <1>5, <1>6
  <2>2. Partly(With(l, i, p)) /\ DOMAIN With(l, i, p) = DOMAIN l \cup {i}
    BY <1>2, <2>1, WithKeepsPartly
  <2>3. DOMAIN l \cup {i} = DOMAIN l
    OBVIOUS
  <2>. QED  BY <1>2, <2>2, <2>3, LegalIsPartly
<1>8. Len(places) \in Nat /\ DOMAIN places = 1..Len(places) /\ \A n \in DOMAIN places : places[n] \in Range(places)
  BY <1>6, AreSequences DEF IsSequence
<1>9. /\ reached = [n \in 1..Len(places) |-> reached[n]]
      /\ \A n \in DOMAIN reached : LegalLayout(Cfg, reached[n])
  BY <1>7, <1>8
<1>. HIDE DEF reached
<1>10. IsSequence(reached)
  BY <1>8, <1>9, SequencesAre
<1>. QED  BY <1>1, <1>9, <1>10 DEF Range

\* The moves of the walk from a legal layout lead to legal layouts: an instance moves
\* to a free placement, or two change places.
LEMMA MovesAreLegal ==
    ASSUME PreparedIs, NEW l, LegalLayout(Cfg, l)
    PROVE  IsSequence(MovesFrom(l)) /\ \A x \in Range(MovesFrom(l)) : LegalLayout(Cfg, x)
<1>. DEFINE all == [i \in Instances |-> IF i \in DOMAIN l THEN Reached(l, i, MovesOf(l, i)) ELSE <<>>]
<1>1. MovesFrom(l) = FlattenSeq(all)
  BY DEF MovesFrom
<1>2. ASSUME NEW i \in Instances
      PROVE  IsSequence(all[i]) /\ \A x \in Range(all[i]) : LegalLayout(Cfg, x)
  <2>1. CASE i \in DOMAIN l
    BY <2>1, MovesOfAreLegal
  <2>2. CASE i \notin DOMAIN l
    <3>1. all[i] = <<>>
      BY <2>2
    <3>. QED  BY <3>1, EmptyIsSequence
  <2>. QED  BY <2>1, <2>2
<1>3. IsSequence(all) /\ DOMAIN all = Instances
  <2>1. all = [n \in 1..Len(Inventory) |-> all[n]] /\ Len(Inventory) \in Nat /\ DOMAIN all = Instances
    BY InventoryIsFinite, AreSequences DEF IsSequence
  <2>. HIDE DEF all
  <2>. QED  BY <2>1, SequencesAre
<1>. HIDE DEF all
<1>4. FlattenSeq(all) \in Seq(PartsOf(all))
  BY <1>2, <1>3, FlattenIsSequence
<1>5. \A x \in PartsOf(all) : LegalLayout(Cfg, x)
  BY <1>2, <1>3 DEF PartsOf, Range
<1>6. IsSequence(FlattenSeq(all)) /\ Range(FlattenSeq(all)) \subseteq PartsOf(all)
  BY <1>4, SeqIsSequence
<1>. QED  BY <1>1, <1>5, <1>6

\* States of the walk, of legal solutions.
LegalStates(config, s) == IsSequence(s) /\ \A w \in Range(s) : LegalFor(config, w.solution)

\* The states of the walk, in the order they are taken.
LEMMA OrderedAreLegal ==
    ASSUME NEW config, NEW s, LegalStates(config, s)
    PROVE  LegalStates(config, InWalkOrder(s))
<1>1. InWalkOrder(s) \in Seq(Range(s))
  BY AreSequences, WalkOrderIn DEF LegalStates
<1>. QED  BY <1>1, SeqIsSequence DEF LegalStates

\* The walk starts from entries of the archive.
LEMMA StartersAreLegal ==
    ASSUME LegalSeq(Cfg, archive)
    PROVE  LegalSeq(Cfg, Starters)
<1>. DEFINE P == {n \in DOMAIN archive : CanonicalHash(archive[n].layout) # CanonicalHash(elites[1].layout)}
<1>1. archive \in Seq(Range(archive)) /\ \A v \in Range(archive) : LegalFor(Cfg, v)
  BY LegalOnes DEF LegalSeq
<1>2. Starters = TakePlaces(archive, Upwards(P))
  BY DEF Starters
<1>3. P \in SUBSET DOMAIN archive
  OBVIOUS
<1>. HIDE DEF P
<1>4. Starters \in Seq(Range(archive))
  BY <1>1, <1>2, <1>3, TakenIn
<1>. QED  BY <1>1, <1>4, AllLegal

\* The walk begins at legal layouts.
LEMMA StartWalkIsLegal ==
    ASSUME AllIsLegal, StartWalk
    PROVE  ListsAreLegal' /\ WalkIsLegal' /\ LNSIsLegal' /\ StepsAreLegal'
<1>1. /\ AtCeiling /\ BeginPhase("walk", WalkBudget) /\ phase' = "walking" /\ moves' = <<>>
  BY DEF StartWalk
<1>2. /\ ListsAreLegal' /\ WalkIsLegal' /\ Cfg' = Cfg
      /\ LegalFor(Cfg, elites[1]) /\ champion' = elites[1]
      /\ LegalSeq(Cfg, archive) /\ stage' = "walk"
  BY <1>1, BeginsLegal
<1>3. PICK from \in {IF Starters = <<>> THEN <<elites[1]>> ELSE Starters} :
          walkers' = InWalkOrder([n \in DOMAIN from |-> Walker(from[n], 0)])
  BY DEF StartWalk
<1>4. LegalSeq(Cfg, from)
  BY <1>2, <1>3, OneLegal, StartersAreLegal
<1>. DEFINE states == [n \in DOMAIN from |-> Walker(from[n], 0)]
<1>5. LegalStates(Cfg, states)
  <2>1. Len(from) \in Nat /\ DOMAIN from = 1..Len(from) /\ \A n \in DOMAIN from : LegalFor(Cfg, from[n])
    BY <1>4, LegalOnes, AreSequences DEF IsSequence
  <2>2. \A n \in DOMAIN states : states[n].solution = from[n]
    BY DEF Walker
  <2>3. states = [n \in 1..Len(from) |-> states[n]] /\ DOMAIN states = DOMAIN from
    BY <2>1
  <2>. HIDE DEF states
  <2>4. IsSequence(states)
    BY <2>1, <2>3, SequencesAre
  <2>. QED  BY <2>1, <2>2, <2>3, <2>4 DEF LegalStates, Range
<1>. HIDE DEF states
<1>6. LegalStates(Cfg, walkers')
  BY <1>3, <1>5, OrderedAreLegal DEF states
<1>7. IsSequence(moves') /\ Range(moves') = {}
  BY <1>1, EmptyIsSequence
<1>8. StepsAreLegal'
  BY <1>2, <1>6, <1>7 DEF StepsAreLegal, LegalStates
<1>9. LNSIsLegal'
  BY <1>2 DEF LNSIsLegal
<1>. QED  BY <1>2, <1>8, <1>9

\* A step of the walk on the plateau.
LEMMA PlateauStepIsLegal ==
    ASSUME AllIsLegal, stage = "walk", UNCHANGED <<fixedVars, stage, phase, elites>>, LegalSeq(Cfg, archive'),
           LegalFor(Cfg, champion'), LegalStates(Cfg, walkers'),
           IsSequence(moves'), \A m \in Range(moves') : LegalLayout(Cfg, m.layout)
    PROVE  ListsAreLegal' /\ WalkIsLegal' /\ LNSIsLegal' /\ StepsAreLegal'
<1>1. phase' # "walk"
  BY DEF AllIsLegal, IInv, Control
<1>2. LegalSeq(Cfg, elites')
  BY DEF AllIsLegal, ListsAreLegal
<1>3. ListsAreLegal' /\ WalkIsLegal' /\ Cfg' = Cfg
  BY <1>1, <1>2, QuietIsLegal
<1>. QED  BY <1>3 DEF LNSIsLegal, StepsAreLegal, LegalStates

\* What is left of a sequence without its first element.
LEMMA TailOfStates ==
    ASSUME NEW s, IsSequence(s), s # <<>>
    PROVE  IsSequence(Tail(s)) /\ Range(Tail(s)) \subseteq Range(s) /\ Head(s) \in Range(s)
<1>1. s \in Seq(Range(s))
  BY AreSequences
<1>2. Tail(s) \in Seq(Range(s)) /\ Head(s) \in Range(s)
  BY <1>1
<1>. QED  BY <1>2, SeqIsSequence

\* A state whose moves were all tried is left.
LEMMA LeaveIsLegal ==
    ASSUME AllIsLegal, Leave
    PROVE  ListsAreLegal' /\ WalkIsLegal' /\ LNSIsLegal' /\ StepsAreLegal'
<1>. DEFINE from == Head(walkers)
<1>1. /\ stage = "walk" /\ walkers # <<>> /\ walkers' = Tail(walkers)
      /\ UNCHANGED <<fixedVars, stage, phase, elites, archive, champion>>
  BY DEF Leave, Stepping, repairVars, roundVars, walkVars, lnsVars
<1>2. /\ LegalSeq(Cfg, archive) /\ LegalFor(Cfg, champion) /\ LegalStates(Cfg, walkers)
  BY <1>1 DEF AllIsLegal, ListsAreLegal, StepsAreLegal, LegalStates
<1>3. LegalStates(Cfg, walkers') /\ LegalFor(Cfg, from.solution)
  BY <1>1, <1>2, TailOfStates DEF LegalStates
<1>4. PICK layouts \in {MovesFrom(from.solution.layout)} :
          moves' = IF from.depth >= WalkDepth THEN <<>>
                   ELSE [n \in DOMAIN layouts |-> [layout |-> layouts[n], depth |-> from.depth + 1]]
  BY DEF Leave
<1>5. IsSequence(layouts) /\ \A x \in Range(layouts) : LegalLayout(Cfg, x)
  BY <1>3, <1>4, MovesAreLegal DEF AllIsLegal, IInv, LegalFor
<1>. HIDE DEF from
<1>6. IsSequence(moves') /\ \A m \in Range(moves') : LegalLayout(Cfg, m.layout)
  <2>1. CASE from.depth >= WalkDepth
    BY <1>4, <2>1, EmptyIsSequence
  <2>2. CASE ~(from.depth >= WalkDepth)
    <3>. DEFINE steps == [n \in DOMAIN layouts |-> [layout |-> layouts[n], depth |-> from.depth + 1]]
    <3>1. moves' = steps
      BY <1>4, <2>2
    <3>2. Len(layouts) \in Nat /\ DOMAIN layouts = 1..Len(layouts) /\ \A n \in DOMAIN layouts : layouts[n] \in Range(layouts)
      BY <1>5, AreSequences DEF IsSequence
    <3>3. steps = [n \in 1..Len(layouts) |-> steps[n]] /\ DOMAIN steps = DOMAIN layouts
          /\ \A n \in DOMAIN steps : steps[n].layout = layouts[n]
      BY <3>2
    <3>. HIDE DEF steps
    <3>4. IsSequence(steps)
      BY <3>2, <3>3, SequencesAre
    <3>5. \A m \in Range(steps) : LegalLayout(Cfg, m.layout)
      BY <1>5, <3>2, <3>3 DEF Range
    <3>. QED  BY <3>1, <3>4, <3>5
  <2>. QED  BY <2>1, <2>2
<1>. QED  BY <1>1, <1>2, <1>3, <1>6, PlateauStepIsLegal

\* A move that is tried leads to a legal layout, whether it is kept or not.
LEMMA TryMoveIsLegal ==
    ASSUME AllIsLegal, TryMove
    PROVE  ListsAreLegal' /\ WalkIsLegal' /\ LNSIsLegal' /\ StepsAreLegal'
<1>1. /\ stage = "walk" /\ moves # <<>> /\ moves' = Tail(moves) /\ UNCHANGED <<fixedVars, stage, phase, elites>>
  BY DEF TryMove, Stepping
<1>2. /\ LegalSeq(Cfg, archive) /\ LegalFor(Cfg, champion) /\ LegalStates(Cfg, walkers)
      /\ IsSequence(moves) /\ \A m \in Range(moves) : LegalLayout(Cfg, m.layout)
  BY <1>1 DEF AllIsLegal, ListsAreLegal, StepsAreLegal, LegalStates
<1>3. /\ IsSequence(moves') /\ \A m \in Range(moves') : LegalLayout(Cfg, m.layout)
      /\ LegalLayout(Cfg, Head(moves).layout)
  BY <1>1, <1>2, TailOfStates
<1>4. PICK s \in {Solution(Head(moves).layout, Cfg)} :
          IF PriorityCeilingReached(Cfg, s.score) THEN Arrive(s, Head(moves).depth)
          ELSE UNCHANGED <<champion, archive, observed, walkers, visited>>
  BY DEF TryMove
<1>5. LegalFor(Cfg, s)
  BY <1>3, <1>4 DEF LegalFor, Solution
<1>6. CASE PriorityCeilingReached(Cfg, s.score)
  <2>1. Arrive(s, Head(moves).depth)
    BY <1>4, <1>6
  <2>2. LegalFor(Cfg, champion') /\ LegalSeq(Cfg, archive')
    BY <1>2, <1>5, <2>1, AddedLegal DEF Arrive
  <2>3. LegalStates(Cfg, walkers')
    <3>1. CASE CanonicalHash(s.layout) \in visited
      BY <1>2, <2>1, <3>1 DEF Arrive
    <3>2. CASE CanonicalHash(s.layout) \notin visited
      <4>. DEFINE w == Walker(s, Head(moves).depth)
      <4>1. walkers' = InWalkOrder(Append(walkers, w))
        BY <2>1, <3>2 DEF Arrive
      <4>2. w.solution = s
        BY DEF Walker
      <4>. HIDE DEF w
      <4>3. walkers \in Seq(Range(walkers) \cup {w})
        BY <1>2, SequenceIn DEF LegalStates
      <4>4. Append(walkers, w) \in Seq(Range(walkers) \cup {w})
        BY <4>3
      <4>5. LegalStates(Cfg, Append(walkers, w))
        <5>1. IsSequence(Append(walkers, w)) /\ Range(Append(walkers, w)) \subseteq Range(walkers) \cup {w}
          BY <4>4, SeqIsSequence
        <5>2. \A x \in Range(walkers) : LegalFor(Cfg, x.solution)
          BY <1>2 DEF LegalStates
        <5>. QED  BY <1>5, <4>2, <5>1, <5>2 DEF LegalStates
      <4>. QED  BY <4>1, <4>5, OrderedAreLegal
    <3>. QED  BY <3>1, <3>2
  <2>. QED  BY <1>1, <1>3, <2>2, <2>3, PlateauStepIsLegal
<1>7. CASE ~PriorityCeilingReached(Cfg, s.score)
  <2>1. UNCHANGED <<champion, archive, walkers>>
    BY <1>4, <1>7
  <2>. QED  BY <1>1, <1>2, <1>3, <2>1, PlateauStepIsLegal
<1>. QED  BY <1>6, <1>7

\* Every step keeps what is kept legal.
LEMMA NextIsLegal ==
    AllIsLegal /\ [Next]_vars => AllIsLegal'
<1>. SUFFICES ASSUME AllIsLegal, [Next]_vars PROVE AllIsLegal'
  OBVIOUS
<1>1. IInv'
  BY NextKeepsInvariant DEF AllIsLegal
<1>2. CASE RepairNext /\ UNCHANGED <<used, budget, lnsVars, stepVars>>
  BY <1>1, <1>2, RepairNextIsLegal DEF AllIsLegal
<1>3. CASE LNSNext
  BY <1>1, <1>3, EndsAreLegal, StartLNSIsLegal, StartLevelIsLegal, OpportunitiesAreLegal, EndOpportunityIsLegal,
     BetweenLevelsIsLegal DEF LNSNext, AllIsLegal
<1>4. CASE PlateauNext
  BY <1>1, <1>4, StartWalkIsLegal, EndsAreLegal, LeaveIsLegal, TryMoveIsLegal DEF PlateauNext, AllIsLegal
<1>5. CASE UNCHANGED vars
  <2>1. UNCHANGED aroundVars /\ UNCHANGED <<archive, waiting, at, todo, pool, pools>>
    BY <1>5 DEF vars, repairVars, aroundVars, roundVars, taskVars, walkVars, lnsVars, stepVars
  <2>2. Cfg' = Cfg
    BY <2>1, ConfigStays DEF aroundVars
  <2>3. ListsAreLegal' /\ LNSIsLegal' /\ StepsAreLegal'
    BY <2>1, WalkStepIsLegal DEF AllIsLegal, ListsAreLegal
  <2>4. WalkIsLegal'
    BY <2>1, <2>2 DEF AllIsLegal, WalkIsLegal, aroundVars
  <2>. QED  BY <1>1, <2>3, <2>4 DEF AllIsLegal
<1>. QED  BY <1>2, <1>3, <1>4, <1>5 DEF Next

\* The lists of a solve are among what the invariant looks at.
LEMMA LegalResults ==
    AllIsLegal => ResultsAreLegal
BY DEF AllIsLegal, ListsAreLegal, ResultsAreLegal, Legal, LegalFor, LegalSeq

\* The inductive invariant of legality: with the invariant of the nodes, every layout
\* that is held anywhere is legal (the elites, the archive, the bases of the
\* neighbourhoods of a round or level, the best of each, the states of the walk and
\* the moves from the one it is at), and a node of a task has placed legally what
\* comes before its depth in its order. ResultsAreLegal alone is not inductive: a
\* list takes over what tasks and states that it does not look at have found.
THEOREM LegalInvariant == Spec => []AllIsLegal
BY LegalAtFirst, NextIsLegal, PTL DEF Spec

\* Every layout repair and plateau search keep is one the solver may answer with:
\* each instance on one of its placements, no two on a cell, copies in their order,
\* and none left out unless the request allows it. From seeds that are (SeedAssumption),
\* for every catalog, configuration, order of tasks and point of cancellation.
THEOREM LegalResultsHold == Spec => []ResultsAreLegal
BY LegalInvariant, LegalResults, PTL

-----------------------------------------------------------------------------
(* Orders by the first difference.                                          *)

\* The least of some numbers is one of them.
LEMMA LeastNumber ==
    ASSUME NEW S \in SUBSET Nat, S # {}
    PROVE  Min(S) \in S /\ \A n \in S : Min(S) <= n
<1>1. PICK m \in S : \A n \in S : m <= n
  BY LeastNatural
<1>. QED  BY <1>1 DEF Min

\* An order in which no two elements are equal, and the order of functions by the
\* first place where they differ.
Orders(R, V) ==
    /\ \A x \in V : <<x, x>> \notin R
    /\ \A x, y, z \in V : <<x, y>> \in R /\ <<y, z>> \in R => <<x, z>> \in R
    /\ \A x, y \in V : x # y => <<x, y>> \in R \/ <<y, x>> \in R
SameBefore(f, g, n) == \A m \in DOMAIN f : m < n => f[m] = g[m]
FirstLess(f, g, R) == \E n \in DOMAIN f : <<f[n], g[n]>> \in R /\ SameBefore(f, g, n)
ByFirst(D, V, R) == {p \in [D -> V] \X [D -> V] : FirstLess(p[1], p[2], R)}

\* Two functions that differ differ first somewhere.
LEMMA DifferFirst ==
    ASSUME NEW D \in SUBSET Nat, NEW V, NEW f \in [D -> V], NEW g \in [D -> V], f # g
    PROVE  \E n \in D : f[n] # g[n] /\ SameBefore(f, g, n)
<1>. DEFINE S == {n \in D : f[n] # g[n]}
<1>1. S # {}
  OBVIOUS
<1>2. S \in SUBSET Nat
  OBVIOUS
<1>3. PICK n \in S : \A m \in S : n <= m
  <2>. HIDE DEF S
  <2>. QED  BY <1>1, <1>2, LeastNatural
<1>4. \A m \in DOMAIN f : m < n => f[m] = g[m]
  BY <1>3
<1>. QED  BY <1>3, <1>4 DEF SameBefore

\* The order by the first difference is one.
LEMMA FirstLessOrders ==
    ASSUME NEW D \in SUBSET Nat, NEW V, NEW R, Orders(R, V)
    PROVE  Orders(ByFirst(D, V, R), [D -> V])
<1>. DEFINE F == [D -> V]
            B == ByFirst(D, V, R)
<1>1. \A f, g \in F : <<f, g>> \in B <=> \E n \in D : <<f[n], g[n]>> \in R /\ SameBefore(f, g, n)
  BY DEF ByFirst, FirstLess
<1>2. ASSUME NEW f \in F, <<f, f>> \in B PROVE FALSE
  <2>1. PICK n \in D : <<f[n], f[n]>> \in R
    BY <1>1, <1>2
  <2>. QED  BY <2>1 DEF Orders
<1>3. ASSUME NEW f \in F, NEW g \in F, NEW h \in F, <<f, g>> \in B, <<g, h>> \in B
      PROVE  <<f, h>> \in B
  <2>1. PICK n \in D : <<f[n], g[n]>> \in R /\ SameBefore(f, g, n)
    BY <1>1, <1>3
  <2>2. PICK m \in D : <<g[m], h[m]>> \in R /\ SameBefore(g, h, m)
    BY <1>1, <1>3
  <2>3. n \in Nat /\ m \in Nat /\ DOMAIN f = D /\ DOMAIN g = D
    OBVIOUS
  <2>4. CASE n < m
    <3>1. g[n] = h[n] /\ SameBefore(f, h, n)
      BY <2>1, <2>2, <2>3, <2>4 DEF SameBefore
    <3>. QED  BY <1>1, <2>1, <3>1
  <2>5. CASE m < n
    <3>1. f[m] = g[m] /\ SameBefore(f, h, m)
      BY <2>1, <2>2, <2>3, <2>5 DEF SameBefore
    <3>. QED  BY <1>1, <2>2, <3>1
  <2>6. CASE n = m
    <3>1. <<f[n], h[n]>> \in R
      BY <2>1, <2>2, <2>6 DEF Orders
    <3>2. SameBefore(f, h, n)
      BY <2>1, <2>2, <2>3, <2>6 DEF SameBefore
    <3>. QED  BY <1>1, <3>1, <3>2
  <2>. QED  BY <2>3, <2>4, <2>5, <2>6
<1>4. ASSUME NEW f \in F, NEW g \in F, f # g PROVE <<f, g>> \in B \/ <<g, f>> \in B
  <2>1. PICK n \in D : f[n] # g[n] /\ SameBefore(f, g, n)
    BY <1>4, DifferFirst
  <2>2. f[n] \in V /\ g[n] \in V /\ SameBefore(g, f, n)
    BY <2>1 DEF SameBefore
  <2>3. <<f[n], g[n]>> \in R \/ <<g[n], f[n]>> \in R
    BY <2>1, <2>2 DEF Orders
  <2>. QED  BY <1>1, <2>1, <2>2, <2>3
<1>. HIDE DEF B
<1>. QED  BY <1>2, <1>3, <1>4 DEF B, Orders

\* The order of numbers.
Below == {p \in Int \X Int : p[1] < p[2]}

\* It is one in which no two numbers are equal.
LEMMA BelowOrders == Orders(Below, Int)
BY DEF Orders, Below

-----------------------------------------------------------------------------
(* Scores, and their order.                                                 *)

\* Counts without end: after the last one there are zeros.
Endless == Nat \ {0}
Unending(s) == [n \in Endless |-> CountAt(s, n)]
ByCounts == ByFirst(Endless, Int, Below)

\* Endless lists of counts have an order.
LEMMA CountsOrder ==
    Orders(ByCounts, [Endless -> Int])
<1>1. Endless \in SUBSET Nat
  BY DEF Endless
<1>. QED  BY <1>1, BelowOrders, FirstLessOrders DEF ByCounts

\* ComparePriorityCounts decides at the first count that differs.
LEMMA CountsCompared ==
    ASSUME NEW a \in Seq(Int), NEW b \in Seq(Int)
    PROVE  /\ Unending(a) \in [Endless -> Int] /\ Unending(b) \in [Endless -> Int]
           /\ ComparePriorityCounts(a, b) \in Int
           /\ ComparePriorityCounts(a, b) < 0 <=> <<Unending(a), Unending(b)>> \in ByCounts
           /\ ComparePriorityCounts(a, b) > 0 <=> <<Unending(b), Unending(a)>> \in ByCounts
<1>. DEFINE A == {n \in DOMAIN a \cup DOMAIN b : CountAt(a, n) # CountAt(b, n)}
            f == Unending(a)
            g == Unending(b)
            c == ComparePriorityCounts(a, b)
<1>1. \A n \in Endless : CountAt(a, n) \in Int /\ CountAt(b, n) \in Int
  BY DEF CountAt
<1>2. f \in [Endless -> Int] /\ g \in [Endless -> Int]
  BY <1>1 DEF Unending
<1>3. \A n \in Endless : f[n] = CountAt(a, n) /\ g[n] = CountAt(b, n)
  BY DEF Unending
<1>4. \A n \in Endless : n \notin A => f[n] = g[n]
  BY <1>3 DEF CountAt
<1>5. A \in SUBSET Endless /\ \A n \in A : f[n] # g[n]
  <2>1. DOMAIN a \in SUBSET Endless /\ DOMAIN b \in SUBSET Endless
    BY DEF Endless
  <2>. QED  BY <1>3, <2>1
<1>6. c = IF A = {} THEN 0 ELSE CountAt(a, Min(A)) - CountAt(b, Min(A))
  BY DEF ComparePriorityCounts, DifferenceAt
<1>. HIDE DEF A, f, g, c
<1>7. /\ <<f, g>> \in ByCounts <=> \E n \in Endless : f[n] < g[n] /\ SameBefore(f, g, n)
      /\ <<g, f>> \in ByCounts <=> \E n \in Endless : g[n] < f[n] /\ SameBefore(g, f, n)
  BY <1>2 DEF ByCounts, ByFirst, FirstLess, Below
<1>8. CASE A = {}
  <2>1. \A n \in Endless : f[n] = g[n] /\ f[n] \in Int
    BY <1>2, <1>4, <1>8
  <2>2. ~(<<f, g>> \in ByCounts) /\ ~(<<g, f>> \in ByCounts)
    BY <1>7, <2>1
  <2>3. c = 0
    BY <1>6, <1>8
  <2>. QED  BY <1>2, <2>2, <2>3 DEF c, f, g
<1>9. CASE A # {}
  <2>. DEFINE k == Min(A)
  <2>1. k \in A /\ \A n \in A : k <= n
    <3>1. A \in SUBSET Nat
      BY <1>5 DEF Endless
    <3>. QED  BY <1>9, <3>1, LeastNumber
  <2>. HIDE DEF k
  <2>2. k \in Endless /\ k \in Nat /\ f[k] # g[k] /\ f[k] \in Int /\ g[k] \in Int
    BY <1>2, <1>5, <2>1 DEF Endless
  <2>3. \A n \in Endless : n < k => f[n] = g[n]
    <3>1. ASSUME NEW n \in Endless, n < k PROVE f[n] = g[n]
      <4>1. n \notin A
        BY <2>1, <2>2, <3>1 DEF Endless
      <4>. QED  BY <1>4, <4>1
    <3>. QED  BY <3>1
  <2>4. SameBefore(f, g, k) /\ SameBefore(g, f, k)
    BY <1>2, <2>3 DEF SameBefore
  <2>5. \A n \in Endless : f[n] # g[n] /\ (SameBefore(f, g, n) \/ SameBefore(g, f, n)) => n = k
    <3>1. ASSUME NEW n \in Endless, f[n] # g[n], SameBefore(f, g, n) \/ SameBefore(g, f, n) PROVE n = k
      <4>1. n \in A
        BY <1>4, <3>1
      <4>2. k <= n /\ n \in Nat
        BY <2>1, <4>1 DEF Endless
      <4>3. ~(k < n)
        BY <1>2, <2>2, <3>1 DEF SameBefore
      <4>. QED  BY <2>2, <4>2, <4>3
    <3>. QED  BY <3>1
  <2>6. \A n \in Endless : f[n] \in Int /\ g[n] \in Int
    BY <1>2
  <2>7. <<f, g>> \in ByCounts <=> f[k] < g[k]
    BY <1>7, <2>2, <2>4, <2>5, <2>6
  <2>8. <<g, f>> \in ByCounts <=> g[k] < f[k]
    BY <1>7, <2>2, <2>4, <2>5, <2>6
  <2>9. c = f[k] - g[k]
    BY <1>3, <1>6, <1>9, <2>2 DEF k
  <2>. QED  BY <1>2, <2>2, <2>7, <2>8, <2>9 DEF c, f, g
<1>. QED  BY <1>8, <1>9

\* A score is made of numbers.
IsScore(s) == s.priority \in Seq(Int) /\ s.rest \in Seq(Int)

\* compareScores: by the counts of the priorities, then by the rest.
LEMMA ScoresCompared ==
    ASSUME NEW s, IsScore(s), NEW t, IsScore(t), NEW u, IsScore(u)
    PROVE  /\ CompareScores(s, t) \in Int /\ CompareScores(s, s) = 0
           /\ CompareScores(s, t) > 0 <=> CompareScores(t, s) < 0
           /\ CompareScores(s, t) = 0 <=> CompareScores(t, s) = 0
           /\ CompareScores(s, t) >= 0 /\ CompareScores(t, u) >= 0 => CompareScores(s, u) >= 0
           /\ CompareScores(s, t) > 0 /\ CompareScores(t, u) >= 0 => CompareScores(s, u) > 0
           /\ CompareScores(s, t) >= 0 /\ CompareScores(t, u) > 0 => CompareScores(s, u) > 0
<1>. DEFINE P == Seq(Int)
            c(a, b) == ComparePriorityCounts(a, b)
            F == [Endless -> Int]
<1>1. \A a, b \in P :
        /\ c(a, b) \in Int /\ c(a, a) = 0
        /\ c(a, b) > 0 <=> c(b, a) < 0
        /\ c(a, b) = 0 <=> c(b, a) = 0
  <2>1. ASSUME NEW a \in P, NEW b \in P
        PROVE  /\ c(a, b) \in Int /\ c(a, a) = 0
               /\ c(a, b) > 0 <=> c(b, a) < 0
               /\ c(a, b) = 0 <=> c(b, a) = 0
    <3>1. /\ c(a, b) \in Int /\ c(b, a) \in Int /\ c(a, a) \in Int
          /\ c(a, b) < 0 <=> <<Unending(a), Unending(b)>> \in ByCounts
          /\ c(a, b) > 0 <=> <<Unending(b), Unending(a)>> \in ByCounts
          /\ c(b, a) < 0 <=> <<Unending(b), Unending(a)>> \in ByCounts
          /\ c(b, a) > 0 <=> <<Unending(a), Unending(b)>> \in ByCounts
          /\ c(a, a) < 0 <=> <<Unending(a), Unending(a)>> \in ByCounts
          /\ c(a, a) > 0 <=> <<Unending(a), Unending(a)>> \in ByCounts
          /\ Unending(a) \in F
      BY CountsCompared
    <3>2. ~(<<Unending(a), Unending(a)>> \in ByCounts)
      BY <3>1, CountsOrder DEF Orders
    <3>. HIDE DEF c
    <3>. QED  BY <3>1, <3>2
  <2>. QED  BY <2>1
<1>2. \A a, b, d \in P :
        /\ c(a, b) >= 0 /\ c(b, d) >= 0 => c(a, d) >= 0
        /\ c(a, b) > 0 /\ c(b, d) >= 0 => c(a, d) > 0
        /\ c(a, b) >= 0 /\ c(b, d) > 0 => c(a, d) > 0
  <2>1. ASSUME NEW a \in P, NEW b \in P, NEW d \in P
        PROVE  /\ c(a, b) >= 0 /\ c(b, d) >= 0 => c(a, d) >= 0
               /\ c(a, b) > 0 /\ c(b, d) >= 0 => c(a, d) > 0
               /\ c(a, b) >= 0 /\ c(b, d) > 0 => c(a, d) > 0
    <3>. DEFINE x == Unending(a)
                y == Unending(b)
                z == Unending(d)
    <3>1. /\ c(a, b) \in Int /\ c(b, d) \in Int /\ c(a, d) \in Int
          /\ c(a, b) < 0 <=> <<x, y>> \in ByCounts
          /\ c(a, b) > 0 <=> <<y, x>> \in ByCounts
          /\ c(b, d) < 0 <=> <<y, z>> \in ByCounts
          /\ c(b, d) > 0 <=> <<z, y>> \in ByCounts
          /\ c(a, d) < 0 <=> <<x, z>> \in ByCounts
          /\ c(a, d) > 0 <=> <<z, x>> \in ByCounts
          /\ x \in F /\ y \in F /\ z \in F
      BY CountsCompared
    <3>. HIDE DEF x, y, z, c, F
    <3>2. /\ x # y => <<x, y>> \in ByCounts \/ <<y, x>> \in ByCounts
          /\ y # z => <<y, z>> \in ByCounts \/ <<z, y>> \in ByCounts
          /\ x # z => <<x, z>> \in ByCounts \/ <<z, x>> \in ByCounts
          /\ <<x, x>> \notin ByCounts /\ <<y, y>> \notin ByCounts /\ <<z, z>> \notin ByCounts
          /\ <<z, y>> \in ByCounts /\ <<y, x>> \in ByCounts => <<z, x>> \in ByCounts
          /\ <<x, z>> \in ByCounts /\ <<z, x>> \in ByCounts => <<x, x>> \in ByCounts
      BY <3>1, CountsOrder DEF Orders, F
    <3>3. c(a, b) >= 0 => x = y \/ <<y, x>> \in ByCounts
      BY <3>1, <3>2
    <3>4. c(b, d) >= 0 => y = z \/ <<z, y>> \in ByCounts
      BY <3>1, <3>2
    <3>5. c(a, b) >= 0 /\ c(b, d) >= 0 => x = z \/ <<z, x>> \in ByCounts
      BY <3>2, <3>3, <3>4
    <3>6. x = z \/ <<z, x>> \in ByCounts => ~(<<x, z>> \in ByCounts)
      BY <3>2
    <3>7. c(a, b) >= 0 /\ c(b, d) >= 0 => c(a, d) >= 0
      BY <3>1, <3>5, <3>6
    <3>8. c(a, b) > 0 /\ c(b, d) >= 0 => <<z, x>> \in ByCounts
      BY <3>1, <3>2, <3>4
    <3>9. c(a, b) >= 0 /\ c(b, d) > 0 => <<z, x>> \in ByCounts
      BY <3>1, <3>2, <3>3
    <3>. QED  BY <3>1, <3>7, <3>8, <3>9
  <2>. QED  BY <2>1
<1>3. /\ s.priority \in P /\ t.priority \in P /\ u.priority \in P
      /\ s.rest \in P /\ t.rest \in P /\ u.rest \in P
  BY DEF IsScore
<1>. DEFINE C(a, b) == CompareScores(a, b)
<1>4. \A a, b : C(a, b) = IF c(a.priority, b.priority) # 0 THEN c(a.priority, b.priority) ELSE c(a.rest, b.rest)
  BY DEF CompareScores, FirstNonZero
<1>. HIDE DEF P, c, C
<1>5. /\ C(s, t) \in Int /\ C(s, s) = 0
      /\ C(s, t) > 0 <=> C(t, s) < 0
      /\ C(s, t) = 0 <=> C(t, s) = 0
  BY <1>1, <1>3, <1>4
<1>6. /\ c(s.priority, t.priority) \in Int /\ c(t.priority, u.priority) \in Int /\ c(s.priority, u.priority) \in Int
      /\ c(s.rest, t.rest) \in Int /\ c(t.rest, u.rest) \in Int /\ c(s.rest, u.rest) \in Int
      /\ c(u.priority, s.priority) \in Int
  BY <1>1, <1>3
<1>7. /\ c(s.priority, t.priority) = 0 /\ c(t.priority, u.priority) = 0 => c(s.priority, u.priority) = 0
  <2>1. c(t.priority, s.priority) = 0 <=> c(s.priority, t.priority) = 0
    BY <1>1, <1>3
  <2>2. c(u.priority, t.priority) = 0 <=> c(t.priority, u.priority) = 0
    BY <1>1, <1>3
  <2>3. c(s.priority, t.priority) = 0 /\ c(t.priority, u.priority) = 0 => c(s.priority, u.priority) >= 0
    BY <1>2, <1>3, <1>6
  <2>4. c(u.priority, t.priority) = 0 /\ c(t.priority, s.priority) = 0 => c(u.priority, s.priority) >= 0
    <3>1. c(u.priority, t.priority) >= 0 /\ c(t.priority, s.priority) >= 0 => c(u.priority, s.priority) >= 0
      BY <1>2, <1>3
    <3>. QED  BY <3>1
  <2>5. c(s.priority, u.priority) > 0 <=> c(u.priority, s.priority) < 0
    BY <1>1, <1>3
  <2>. QED  BY <1>6, <2>1, <2>2, <2>3, <2>4, <2>5
<1>8. /\ c(s.priority, t.priority) > 0 /\ c(t.priority, u.priority) >= 0 => c(s.priority, u.priority) > 0
      /\ c(s.priority, t.priority) >= 0 /\ c(t.priority, u.priority) > 0 => c(s.priority, u.priority) > 0
      /\ c(s.rest, t.rest) >= 0 /\ c(t.rest, u.rest) >= 0 => c(s.rest, u.rest) >= 0
      /\ c(s.rest, t.rest) > 0 /\ c(t.rest, u.rest) >= 0 => c(s.rest, u.rest) > 0
      /\ c(s.rest, t.rest) >= 0 /\ c(t.rest, u.rest) > 0 => c(s.rest, u.rest) > 0
  BY <1>2, <1>3
<1>9. /\ C(s, t) = IF c(s.priority, t.priority) # 0 THEN c(s.priority, t.priority) ELSE c(s.rest, t.rest)
      /\ C(t, u) = IF c(t.priority, u.priority) # 0 THEN c(t.priority, u.priority) ELSE c(t.rest, u.rest)
      /\ C(s, u) = IF c(s.priority, u.priority) # 0 THEN c(s.priority, u.priority) ELSE c(s.rest, u.rest)
  BY <1>4
<1>10. /\ C(s, t) >= 0 /\ C(t, u) >= 0 => C(s, u) >= 0
       /\ C(s, t) > 0 /\ C(t, u) >= 0 => C(s, u) > 0
       /\ C(s, t) >= 0 /\ C(t, u) > 0 => C(s, u) > 0
  BY <1>6, <1>7, <1>8, <1>9
<1>. QED  BY <1>5, <1>10 DEF C

-----------------------------------------------------------------------------
(* Places, and their order.                                                 *)

\* Keys of places.
Triples == [1..3 -> Int]
KeyOrder(S) == {c \in S \X S : KeyLess(c[1], c[2])}

\* A place of an item has a key of three numbers, is on the board, and is what its
\* key says: the orientation, the row and the column.
LEMMA KeyOfPlace ==
    ASSUME NEW id \in ItemIDs, NEW p \in PlacesOn(id)
    PROVE  /\ PlacementKey(p) \in Triples /\ p.cells \subseteq GridMask
           /\ p = PlaceVariant(NormalizeVariant(Items[id], PlacementKey(p)[1]),
                               <<PlacementKey(p)[2], PlacementKey(p)[3]>>)
<1>1. PICK v \in Range(VariantsForItem(Items[id])), origin \in Board :
          p = PlaceVariant(v, origin) /\ p.cells \subseteq GridMask
  BY DEF PlacesOn
<1>2. Items[id].rotations \in Seq({0, 90, 180, 270})
  BY CatalogAssumption DEF CatalogAssumption
<1>3. PICK r \in {0, 90, 180, 270} : v = NormalizeVariant(Items[id], r)
  BY <1>1, <1>2, VariantsAreFinite
<1>4. v.rotation = r
  BY <1>3 DEF NormalizeVariant, VariantAt
<1>5. p.rotation = r /\ p.origin = origin
  BY <1>1, <1>4 DEF PlaceVariant
<1>6. PlacementKey(p) = <<r, origin[1], origin[2]>>
  BY <1>5 DEF PlacementKey
<1>7. origin = <<origin[1], origin[2]>> /\ origin[1] \in Int /\ origin[2] \in Int
  BY CatalogAssumption DEF Board, CatalogAssumption
<1>8. PlacementKey(p) \in Triples
  BY <1>6, <1>7 DEF Triples
<1>9. PlacementKey(p)[1] = r /\ PlacementKey(p)[2] = origin[1] /\ PlacementKey(p)[3] = origin[2]
  BY <1>6
<1>. QED  BY <1>1, <1>3, <1>7, <1>8, <1>9

\* A finite set in an order has its elements.
LEMMA InKeyOrderIn ==
    ASSUME NEW S, IsFiniteSet(S), Orders(KeyOrder(S), S)
    PROVE  Range(InOrder(S, KeyLess)) \subseteq S
<1>. DEFINE place == [x \in S |-> 1 + Cardinality({y \in S : KeyLess(y, x)})]
            nth(n) == CHOOSE x \in S : Table(place)[x] = n
            f == [n \in 1..Cardinality(S) |-> nth(n)]
            R == KeyOrder(S)
<1>1. InOrder(S, KeyLess) = Table(f)
  BY Zenon DEF InOrder
<1>2. Table(f) = f /\ Table(place) = place
  BY Zenon, TableIs
<1>3. place = Places(S, R)
  <2>1. \A x \in S : {y \in S : KeyLess(y, x)} = Before(S, R, x)
    BY DEF Before, KeyOrder
  <2>. QED  BY <2>1 DEF Places
<1>4. \A n \in 1..Cardinality(S) : \E x \in S : Places(S, R)[x] = n
  <2>1. /\ \A x \in S : <<x, x>> \notin R
        /\ \A x, y, z \in S : <<x, y>> \in R /\ <<y, z>> \in R => <<x, z>> \in R
        /\ \A x, y \in S : x # y => <<x, y>> \in R \/ <<y, x>> \in R
    BY DEF Orders
  <2>. HIDE DEF R
  <2>. QED  BY <2>1, PlacesAreAll
<1>. HIDE DEF place, R
<1>5. \A n \in 1..Cardinality(S) : nth(n) \in S
  BY <1>2, <1>3, <1>4
<1>. HIDE DEF nth
<1>6. ASSUME NEW y \in Range(f) PROVE y \in S
  BY <1>5, <1>6 DEF Range
<1>7. InOrder(S, KeyLess) = f
  BY Zenon, <1>1, <1>2
<1>. HIDE DEF f
<1>. QED  BY <1>6, <1>7

\* Places of an item have an order, since no two have the same key.
LEMMA KeyOrderOrders ==
    ASSUME NEW id \in ItemIDs
    PROVE  Orders(KeyOrder(PlacesOn(id)), PlacesOn(id))
<1>. DEFINE S == PlacesOn(id)
            R == KeyOrder(S)
<1>1. \A p, q \in S : <<p, q>> \in R <=> SeqLess(PlacementKey(p), PlacementKey(q))
  BY DEF KeyOrder, KeyLess
<1>2. \A p \in S : PlacementKey(p) \in [1..3 -> Int]
  BY KeyOfPlace DEF Triples
<1>3. \A p, q \in S : PlacementKey(p) = PlacementKey(q) => p = q
  BY KeyOfPlace
<1>. HIDE DEF S, R
<1>4. ASSUME NEW x \in S PROVE <<x, x>> \notin R
  BY <1>1, <1>2, SeqLessOrders
<1>5. ASSUME NEW x \in S, NEW y \in S, NEW z \in S, <<x, y>> \in R, <<y, z>> \in R PROVE <<x, z>> \in R
  <2>1. SeqLess(PlacementKey(x), PlacementKey(y)) /\ SeqLess(PlacementKey(y), PlacementKey(z))
    BY <1>1, <1>5
  <2>2. SeqLess(PlacementKey(x), PlacementKey(z))
    BY <1>2, <2>1, SeqLessOrders
  <2>. QED  BY <1>1, <2>2
<1>6. ASSUME NEW x \in S, NEW y \in S, x # y PROVE <<x, y>> \in R \/ <<y, x>> \in R
  <2>1. PlacementKey(x) # PlacementKey(y)
    BY <1>3, <1>6
  <2>2. SeqLess(PlacementKey(x), PlacementKey(y)) \/ SeqLess(PlacementKey(y), PlacementKey(x))
    BY <1>2, <2>1, SeqLessOrders
  <2>. QED  BY <1>1, <2>2
<1>. QED  BY <1>4, <1>5, <1>6 DEF Orders, S, R

\* The options of an instance are places of its item.
LEMMA OptionsArePlaces ==
    ASSUME NEW i \in Instances, NEW p \in OptionSet(i)
    PROVE  PlacementKey(p) \in Triples /\ p.cells \subseteq GridMask
<1>. DEFINE id == Inventory[i]
<1>1. id \in ItemIDs
  BY CatalogAssumption DEF CatalogAssumption, Instances
<1>. HIDE DEF id
<1>2. IsFiniteSet(PlacesOn(id))
  BY <1>1, PlacesOnIsFinite
<1>3. Range(InOrder(PlacesOn(id), KeyLess)) \subseteq PlacesOn(id)
  BY <1>1, <1>2, KeyOrderOrders, InKeyOrderIn
<1>4. OptionsOf[id] = InOrder(PlacesOn(id), KeyLess)
  BY <1>1, PlacesAreFinite
<1>5. p \in PlacesOn(id)
  BY <1>3, <1>4 DEF OptionSet, OptionsForInstance, id
<1>. QED  BY <1>1, <1>5, KeyOfPlace

-----------------------------------------------------------------------------
(* Layouts, and their order.                                                *)

\* The keys by which layouts are compared.
LayoutKeys(l) == [i \in Instances |-> LayoutKey(l, i)]
Keywise == {c \in Triples \X Triples : SeqLess(c[1], c[2])}
ByKeys == ByFirst(Instances, Triples, Keywise)

\* Lists of keys, one for each instance, have an order.
LEMMA KeysOrder ==
    Orders(ByKeys, [Instances -> Triples])
<1>1. Orders(Keywise, Triples)
  <2>1. \A s, t \in Triples : <<s, t>> \in Keywise <=> SeqLess(s, t)
    BY DEF Keywise
  <2>2. /\ \A s, t \in Triples : ~SeqLess(s, s) /\ (s # t => SeqLess(s, t) \/ SeqLess(t, s))
        /\ \A s, t, u \in Triples : SeqLess(s, t) /\ SeqLess(t, u) => SeqLess(s, u)
    <3>. DEFINE K == 3
    <3>1. K \in Nat /\ Triples = [1..K -> Int]
      BY DEF Triples
    <3>. HIDE DEF K
    <3>. QED  BY <3>1, SeqLessOrders
  <2>. QED  BY <2>1, <2>2 DEF Orders
<1>2. Instances \in SUBSET Nat
  BY InventoryIsFinite
<1>. QED  BY <1>1, <1>2, FirstLessOrders DEF ByKeys

\* LayoutLess decides at the first instance that is somewhere else.
LEMMA LayoutsCompared ==
    ASSUME NEW config, NEW l, LegalLayout(config, l), NEW m, LegalLayout(config, m)
    PROVE  /\ LayoutKeys(l) \in [Instances -> Triples] /\ LayoutKeys(m) \in [Instances -> Triples]
           /\ LayoutLess(l, m) <=> <<LayoutKeys(l), LayoutKeys(m)>> \in ByKeys
<1>. DEFINE f == LayoutKeys(l)
            g == LayoutKeys(m)
            A == {i \in Instances : LayoutKey(l, i) # LayoutKey(m, i)}
<1>1. ASSUME NEW k, LegalLayout(config, k) PROVE LayoutKeys(k) \in [Instances -> Triples]
  <2>1. <<999, 999, 999>> \in Triples
    BY DEF Triples
  <2>2. ASSUME NEW i \in Instances PROVE LayoutKey(k, i) \in Triples
    <3>1. CASE i \in DOMAIN k
      <4>1. k[i] \in OptionSet(i)
        BY <1>1, <3>1 DEF LegalLayout
      <4>. QED  BY <3>1, <4>1, OptionsArePlaces DEF LayoutKey
    <3>2. CASE i \notin DOMAIN k
      BY <2>1, <3>2 DEF LayoutKey
    <3>. QED  BY <3>1, <3>2
  <2>. QED  BY <2>2 DEF LayoutKeys
<1>2. f \in [Instances -> Triples] /\ g \in [Instances -> Triples]
  BY <1>1
<1>3. \A i \in Instances : f[i] = LayoutKey(l, i) /\ g[i] = LayoutKey(m, i)
  BY DEF LayoutKeys
<1>4. Instances \in SUBSET Nat
  BY InventoryIsFinite
<1>5. LayoutLess(l, m) <=> A # {} /\ SeqLess(LayoutKey(l, Min(A)), LayoutKey(m, Min(A)))
  BY DEF LayoutLess, LessAtFirst
<1>6. A \in SUBSET Instances /\ \A i \in Instances : i \in A <=> f[i] # g[i]
  BY <1>3
<1>. HIDE DEF A, f, g
<1>7. <<f, g>> \in ByKeys <=> \E i \in Instances : SeqLess(f[i], g[i]) /\ SameBefore(f, g, i)
  BY <1>2 DEF ByKeys, ByFirst, FirstLess, Keywise
<1>8. \A i \in Instances : SeqLess(f[i], g[i]) => i \in A
  <2>1. ASSUME NEW i \in Instances, SeqLess(f[i], g[i]), f[i] = g[i] PROVE FALSE
    <3>1. f[i] \in [1..3 -> Int]
      BY <1>2 DEF Triples
    <3>. QED  BY <2>1, <3>1, SeqLessOrders
  <2>. QED  BY <1>6, <2>1
<1>9. CASE A = {}
  BY <1>2, <1>5, <1>7, <1>8, <1>9 DEF f, g
<1>10. CASE A # {}
  <2>. DEFINE k == Min(A)
  <2>1. k \in A /\ \A n \in A : k <= n
    <3>1. A \in SUBSET Nat
      BY <1>4, <1>6
    <3>. QED  BY <1>10, <3>1, LeastNumber
  <2>2. LayoutLess(l, m) <=> SeqLess(f[k], g[k])
    BY <1>3, <1>5, <1>6, <1>10, <2>1
  <2>. HIDE DEF k
  <2>3. k \in Instances /\ k \in Nat
    BY <1>4, <1>6, <2>1
  <2>4. SameBefore(f, g, k)
    <3>1. ASSUME NEW n \in Instances, n < k PROVE f[n] = g[n]
      <4>1. n \notin A
        BY <1>4, <2>1, <2>3, <3>1
      <4>. QED  BY <1>6, <4>1
    <3>. QED  BY <1>2, <3>1 DEF SameBefore
  <2>5. \A n \in Instances : SeqLess(f[n], g[n]) /\ SameBefore(f, g, n) => n = k
    <3>1. ASSUME NEW n \in Instances, SeqLess(f[n], g[n]), SameBefore(f, g, n) PROVE n = k
      <4>1. n \in A /\ k <= n /\ n \in Nat
        BY <1>4, <1>8, <2>1, <3>1
      <4>2. ~(k < n)
        BY <1>2, <1>6, <2>1, <2>3, <3>1 DEF SameBefore
      <4>. QED  BY <2>3, <4>1, <4>2
    <3>. QED  BY <3>1
  <2>6. <<f, g>> \in ByKeys <=> SeqLess(f[k], g[k])
    BY <1>7, <2>3, <2>4, <2>5
  <2>. QED  BY <1>2, <2>2, <2>6 DEF f, g
<1>. QED  BY <1>9, <1>10

-----------------------------------------------------------------------------
(* Crafts.                                                                  *)

\* A walk over some recipes, anchor after anchor, for the crafts of a layout.
Craft(recipe, a, picked) == [result |-> recipe.result, anchor |-> a, ingredients |-> picked]
Tried(acc, recipe, a, layout) ==
    LET picked == Ingredients(layout, acc.used, recipe, a) IN
    IF \/ a \notin DOMAIN layout \/ a \in acc.used
       \/ Inventory[a] # recipe.anchor \/ ~picked.viable
    THEN acc
    ELSE [[acc EXCEPT !.crafts = Append(@, Craft(recipe, a, picked.selected))]
             EXCEPT !.used = @ \cup {a} \cup picked.selected]
Anchors == [i \in Instances |-> i]
TriesAnchors(kept, start, recipe, layout) ==
    kept = [t \in SUBSET DOMAIN Anchors |->
               IF t = {} THEN start ELSE Tried(kept[t \ {Max(t)}], recipe, Anchors[Max(t)], layout)]
AllTried(start, recipe, layout) ==
    (CHOOSE kept : TriesAnchors(kept, start, recipe, layout))[DOMAIN Anchors]
TriesRecipes(kept, recipes, layout) ==
    kept = [t \in SUBSET DOMAIN recipes |->
               IF t = {} THEN [used |-> {}, crafts |-> <<>>]
               ELSE AllTried(kept[t \ {Max(t)}], recipes[Max(t)], layout)]

\* EvaluateCrafts unfolded.
LEMMA CraftsAre ==
    ASSUME NEW recipes, NEW layout
    PROVE  CraftsOf(recipes, layout) = (CHOOSE kept : TriesRecipes(kept, recipes, layout))[DOMAIN recipes].crafts
BY Zenon DEF CraftsOf, CraftWalk, FoldLeft, MapThenFoldSet, TriesRecipes, AllTried, TriesAnchors, Tried, Craft, Anchors

\* What a walk over recipes has so far.
CraftsFrom(R) == [result : R, anchor : Instances, ingredients : SUBSET Instances]
Crafting(R) == [used : SUBSET Instances, crafts : Seq(CraftsFrom(R))]

\* One anchor that is tried adds one craft or none.
LEMMA TriedIn ==
    ASSUME NEW R, NEW acc \in Crafting(R), NEW recipe, recipe.result \in R, NEW a \in Instances,
           NEW layout, DOMAIN layout \subseteq Instances
    PROVE  Tried(acc, recipe, a, layout) \in Crafting(R)
<1>. DEFINE picked == Ingredients(layout, acc.used, recipe, a)
            sel == picked.selected
<1>1. sel \in SUBSET Instances
  <2>1. sel \subseteq DOMAIN layout
    BY DEF Ingredients
  <2>. QED  BY <2>1
<1>2. Tried(acc, recipe, a, layout) =
          IF \/ a \notin DOMAIN layout \/ a \in acc.used \/ Inventory[a] # recipe.anchor \/ ~picked.viable
          THEN acc
          ELSE [[acc EXCEPT !.crafts = Append(@, Craft(recipe, a, sel))] EXCEPT !.used = @ \cup {a} \cup sel]
  BY Zenon DEF Tried
<1>. HIDE DEF sel, picked
<1>3. Craft(recipe, a, sel) \in CraftsFrom(R)
  BY <1>1 DEF Craft, CraftsFrom
<1>. DEFINE one == Craft(recipe, a, sel)
            C == CraftsFrom(R)
            more == [[acc EXCEPT !.crafts = Append(@, one)] EXCEPT !.used = @ \cup {a} \cup sel]
<1>4. more \in [used : SUBSET Instances, crafts : Seq(C)]
  <2>1. acc \in [used : SUBSET Instances, crafts : Seq(C)] /\ one \in C
    BY <1>3 DEF Crafting
  <2>. HIDE DEF one, C
  <2>2. acc.used \in SUBSET Instances /\ acc.crafts \in Seq(C)
    BY <2>1
  <2>. DEFINE longer == Append(acc.crafts, one)
              with == acc.used \cup {a} \cup sel
  <2>3. longer \in Seq(C)
    BY <2>1, <2>2
  <2>4. with \in SUBSET Instances
    BY <1>1, <2>2
  <2>5. more = [[acc EXCEPT !.crafts = longer] EXCEPT !.used = with]
    BY <2>1
  <2>. HIDE DEF longer, with, more
  <2>6. [acc EXCEPT !.crafts = longer] \in [used : SUBSET Instances, crafts : Seq(C)]
    BY <2>1, <2>3
  <2>. QED  BY <2>4, <2>5, <2>6
<1>. HIDE DEF more
<1>5. Tried(acc, recipe, a, layout) \in {acc, more}
  BY <1>2 DEF more
<1>. QED  BY <1>4, <1>5 DEF Crafting

\* The anchors that are tried, in order.
LEMMA AnchorsAre ==
    IsSequence(Anchors) /\ DOMAIN Anchors = Instances /\ \A n \in DOMAIN Anchors : Anchors[n] \in Instances
<1>1. Instances = 1..Len(Inventory) /\ Len(Inventory) \in Nat
  BY InventoryIsFinite DEF IsSequence
<1>2. Anchors = [n \in 1..Len(Inventory) |-> Anchors[n]] /\ DOMAIN Anchors = Instances
      /\ \A n \in DOMAIN Anchors : Anchors[n] \in Instances
  BY <1>1 DEF Anchors
<1>3. IsSequence(Anchors)
  BY <1>1, <1>2, SequencesAre
<1>. QED  BY <1>2, <1>3

\* All the anchors of a recipe.
LEMMA AllTriedIn ==
    ASSUME NEW R, NEW start \in Crafting(R), NEW recipe, recipe.result \in R,
           NEW layout, DOMAIN layout \subseteq Instances
    PROVE  AllTried(start, recipe, layout) \in Crafting(R)
<1>. DEFINE V == Crafting(R)
            D == DOMAIN Anchors
            step == [p \in D \X V |-> Tried(p[2], recipe, Anchors[p[1]], layout)]
            kept == CHOOSE k : TriesAnchors(k, start, recipe, layout)
<1>. HIDE DEF V
<1>0. IsSequence(Anchors) /\ \A n \in D : Anchors[n] \in Instances
  BY AnchorsAre
<1>1. \A v \in V, n \in D : Tried(v, recipe, Anchors[n], layout) \in V
  BY <1>0, TriedIn DEF V
<1>2. step \in [D \X V -> V] /\ start \in V
  BY <1>1 DEF V
<1>3. PICK f \in [SUBSET D -> V] : LeftFold(f, Anchors, start, step)
  <2>. HIDE DEF step
  <2>. QED  BY <1>0, <1>2, LeftFoldExists
<1>4. ASSUME NEW t \in SUBSET D
      PROVE  f[t] = IF t = {} THEN start ELSE Tried(f[t \ {Max(t)}], recipe, Anchors[Max(t)], layout)
  <2>1. CASE t = {}
    BY <1>3, <2>1 DEF LeftFold
  <2>2. CASE t # {}
    <3>1. Max(t) \in D /\ t \ {Max(t)} \in SUBSET D
      BY <1>0, <2>2, GreatestPlace
    <3>2. <<Max(t), f[t \ {Max(t)}]>> \in D \X V
      BY <3>1, <1>3
    <3>3. f[t] = step[<<Max(t), f[t \ {Max(t)}]>>]
      BY <1>3, <2>2 DEF LeftFold
    <3>4. step[<<Max(t), f[t \ {Max(t)}]>>] = Tried(f[t \ {Max(t)}], recipe, Anchors[Max(t)], layout)
      <4>. HIDE DEF D
      <4>. QED  BY <3>2
    <3>. QED  BY <3>3, <3>4, <2>2
  <2>. QED  BY <2>1, <2>2
<1>5. TriesAnchors(f, start, recipe, layout)
  BY <1>3, <1>4 DEF TriesAnchors
<1>6. \E g : TriesAnchors(g, start, recipe, layout)
  BY <1>5
<1>7. TriesAnchors(kept, start, recipe, layout)
  BY <1>6
<1>8. AllTried(start, recipe, layout) = kept[D]
  BY Zenon DEF AllTried
<1>. HIDE DEF kept, step
<1>9. kept[D] \in V
  <2>1. kept[{}] = start
    BY <1>7 DEF TriesAnchors
  <2>2. ASSUME NEW t \in SUBSET D, t # {}, kept[t \ {Max(t)}] \in V
        PROVE  kept[t] \in V
    <3>1. Max(t) \in D
      BY <1>0, <2>2, GreatestPlace
    <3>2. kept[t] = Tried(kept[t \ {Max(t)}], recipe, Anchors[Max(t)], layout)
      BY <1>7, <2>2 DEF TriesAnchors
    <3>. QED  BY <1>1, <2>2, <3>1, <3>2
  <2>. QED  BY <1>0, <1>2, <2>1, <2>2, LeftFoldStays
<1>. QED  BY <1>8, <1>9 DEF V

\* EvaluateCrafts gives a list.
LEMMA CraftsAreSequence ==
    ASSUME NEW recipes, IsSequence(recipes), NEW layout, DOMAIN layout \subseteq Instances
    PROVE  IsSequence(CraftsOf(recipes, layout))
<1>. DEFINE R == {r.result : r \in Range(recipes)}
            V == Crafting(R)
            D == DOMAIN recipes
            base == [used |-> {}, crafts |-> <<>>]
            step == [p \in D \X V |-> AllTried(p[2], recipes[p[1]], layout)]
            kept == CHOOSE k : TriesRecipes(k, recipes, layout)
<1>0. \A n \in D : recipes[n].result \in R
  BY AreSequences
<1>2. base \in V
  BY DEF Crafting
<1>. HIDE DEF V, R, base
<1>1. \A v \in V, n \in D : AllTried(v, recipes[n], layout) \in V
  BY <1>0, AllTriedIn DEF V
<1>3. step \in [D \X V -> V]
  BY <1>1
<1>4. PICK f \in [SUBSET D -> V] : LeftFold(f, recipes, base, step)
  <2>. HIDE DEF step
  <2>. QED  BY <1>2, <1>3, LeftFoldExists
<1>5. ASSUME NEW t \in SUBSET D
      PROVE  f[t] = IF t = {} THEN base ELSE AllTried(f[t \ {Max(t)}], recipes[Max(t)], layout)
  <2>1. CASE t = {}
    BY <1>4, <2>1 DEF LeftFold
  <2>2. CASE t # {}
    <3>1. Max(t) \in D /\ t \ {Max(t)} \in SUBSET D
      BY <2>2, GreatestPlace
    <3>2. <<Max(t), f[t \ {Max(t)}]>> \in D \X V
      BY <3>1, <1>4
    <3>3. f[t] = step[<<Max(t), f[t \ {Max(t)}]>>]
      BY <1>4, <2>2 DEF LeftFold
    <3>4. step[<<Max(t), f[t \ {Max(t)}]>>] = AllTried(f[t \ {Max(t)}], recipes[Max(t)], layout)
      <4>. HIDE DEF D
      <4>. QED  BY <3>2
    <3>. QED  BY <3>3, <3>4, <2>2
  <2>. QED  BY <2>1, <2>2
<1>6. TriesRecipes(f, recipes, layout)
  BY <1>4, <1>5 DEF TriesRecipes, base
<1>7. TriesRecipes(kept, recipes, layout)
  <2>1. \E g : TriesRecipes(g, recipes, layout)
    BY <1>6
  <2>. QED  BY <2>1
<1>8. CraftsOf(recipes, layout) = kept[D].crafts
  BY Zenon, CraftsAre
<1>. HIDE DEF kept, step
<1>9. kept[D] \in V
  <2>1. kept[{}] = base
    BY <1>7 DEF TriesRecipes, base
  <2>2. ASSUME NEW t \in SUBSET D, t # {}, kept[t \ {Max(t)}] \in V
        PROVE  kept[t] \in V
    <3>1. Max(t) \in D
      BY <2>2, GreatestPlace
    <3>2. kept[t] = AllTried(kept[t \ {Max(t)}], recipes[Max(t)], layout)
      BY <1>7, <2>2 DEF TriesRecipes
    <3>. QED  BY <1>1, <2>2, <3>1, <3>2
  <2>. QED  BY <1>2, <2>1, <2>2, LeftFoldStays
<1>10. kept[D].crafts \in Seq(CraftsFrom(R))
  BY <1>9 DEF V, Crafting
<1>. HIDE DEF kept
<1>. QED  BY <1>8, <1>10, SeqIsSequence

-----------------------------------------------------------------------------
(* What is counted of a layout.                                             *)

\* How many of a finite set.
LEMMA CountIsInteger ==
    ASSUME NEW S, IsFiniteSet(S), NEW T, T \subseteq S
    PROVE  Cardinality(T) \in Int
<1>1. IsFiniteSet(T)
  BY FS_Subset
<1>2. Cardinality(T) \in Nat
  BY <1>1, FS_CardinalityType
<1>. QED  BY <1>2

\* The stars of a layout are pairs of its instances.
LEMMA StarsAreFinite ==
    ASSUME NEW layout, DOMAIN layout \subseteq Instances
    PROVE  IsFiniteSet(DOMAIN layout) /\ IsFiniteSet(Stars(layout))
<1>1. IsFiniteSet(DOMAIN layout)
  BY InventoryIsFinite, FS_Subset
<1>2. IsFiniteSet((DOMAIN layout) \X (DOMAIN layout))
  BY <1>1, FS_Product
<1>3. Stars(layout) \in SUBSET ((DOMAIN layout) \X (DOMAIN layout))
  BY DEF Stars, Hits
<1>. QED  BY <1>1, <1>2, <1>3, FS_Subset

\* How many targets the sources have.
LEMMA BreadthIsInteger ==
    ASSUME NEW stars, IsFiniteSet(stars)
    PROVE  TargetBreadth(stars) \in Int
<1>. DEFINE f == [st \in stars |-> st[2]]
<1>1. {st[2] : st \in stars} = {f[st] : st \in stars}
  OBVIOUS
<1>2. IsFiniteSet({f[st] : st \in stars})
  <2>. HIDE DEF f
  <2>. QED  BY ImageIsFinite
<1>3. TargetBreadth(stars) = Cardinality({f[st] : st \in stars})
  BY <1>1 DEF TargetBreadth
<1>. HIDE DEF f
<1>. QED  BY <1>2, <1>3, CountIsInteger

\* What is counted of stars.
LEMMA StarCountsAreIntegers ==
    ASSUME NEW stars, IsFiniteSet(stars)
    PROVE  /\ Cardinality(stars) \in Int /\ ReciprocalPairs(stars) \in Int
           /\ SourceDefinitionDiversity(stars) \in Int
           /\ \A source, semantics : LooseCount(stars, source, semantics) \in Int
           /\ \A source : TargetBreadth({st \in stars : Inventory[st[1]] = source}) \in Int
<1>1. Cardinality(stars) \in Int
  BY CountIsInteger
<1>2. ReciprocalPairs(stars) \in Int
  <2>1. {st \in stars : st[1] < st[2] /\ <<st[2], st[1]>> \in stars} \subseteq stars
    OBVIOUS
  <2>. QED  BY <2>1, CountIsInteger DEF ReciprocalPairs
<1>3. SourceDefinitionDiversity(stars) \in Int
  <2>. DEFINE f == [st \in stars |-> <<Inventory[st[1]], st[2]>>]
              T == {<<Inventory[st[1]], st[2]>> : st \in stars}
  <2>1. T = {f[st] : st \in stars}
    OBVIOUS
  <2>2. IsFiniteSet({f[st] : st \in stars})
    <3>. HIDE DEF f
    <3>. QED  BY ImageIsFinite
  <2>3. SourceDefinitionDiversity(stars) = Cardinality(T)
    BY DEF SourceDefinitionDiversity
  <2>. HIDE DEF f, T
  <2>. QED  BY <2>1, <2>2, <2>3, CountIsInteger
<1>4. ASSUME NEW source
      PROVE  /\ Cardinality({st \in stars : Inventory[st[1]] = source}) \in Int
             /\ TargetBreadth({st \in stars : Inventory[st[1]] = source}) \in Int
  <2>. DEFINE links == {st \in stars : Inventory[st[1]] = source}
  <2>1. links \in SUBSET stars
    OBVIOUS
  <2>. HIDE DEF links
  <2>2. IsFiniteSet(links)
    BY <2>1, FS_Subset
  <2>3. Cardinality(links) \in Int /\ TargetBreadth(links) \in Int
    BY <2>1, <2>2, CountIsInteger, BreadthIsInteger
  <2>. QED  BY <2>3 DEF links
<1>5. ASSUME NEW source, NEW semantics PROVE LooseCount(stars, source, semantics) \in Int
  BY <1>4 DEF LooseCount
<1>. QED  BY <1>1, <1>2, <1>3, <1>4, <1>5

\* What is counted of a group of sources.
LEMMA BucketsAreNumbers ==
    ASSUME NEW placed, IsFiniteSet(placed), NEW stars, NEW group, Len(group.sources) \in Nat
    PROVE  BucketCounts(placed, stars, group) \in Seq(Int)
<1>. DEFINE eligible == {t \in placed : group.targets = {} \/ Inventory[t] \in group.targets}
            size == Len(group.sources)
            count(n) == Cardinality({t \in eligible : CoveredCount(stars, group, t) = size + 1 - n})
<1>1. BucketCounts(placed, stars, group) = [n \in 1..size |-> count(n)]
  BY DEF BucketCounts
<1>2. ASSUME NEW n \in 1..size PROVE count(n) \in Int
  <2>1. {t \in eligible : CoveredCount(stars, group, t) = size + 1 - n} \subseteq placed
    OBVIOUS
  <2>. QED  BY <2>1, CountIsInteger
<1>. HIDE DEF count
<1>3. [n \in 1..size |-> count(n)] \in [1..size -> Int]
  BY <1>2
<1>. QED  BY <1>1, <1>3

\* How often something is crafted.
LEMMA CraftCountIsInteger ==
    ASSUME NEW crafts, IsSequence(crafts), NEW result
    PROVE  CountCraft(crafts, result) \in Int
<1>1. {n \in DOMAIN crafts : crafts[n].result = result} \subseteq DOMAIN crafts
  OBVIOUS
<1>. QED  BY <1>1, AreSequences, CountIsInteger DEF CountCraft

\* Lists of numbers one after another.
LEMMA JoinedNumbers ==
    ASSUME NEW seqs, IsSequence(seqs), \A n \in DOMAIN seqs : seqs[n] \in Seq(Int)
    PROVE  Concat(seqs) \in Seq(Int)
<1>1. \A n \in DOMAIN seqs : IsSequence(seqs[n]) /\ Range(seqs[n]) \subseteq Int
  BY SeqIsSequence
<1>2. FlattenSeq(seqs) \in Seq(PartsOf(seqs))
  BY <1>1, FlattenIsSequence
<1>3. PartsOf(seqs) \subseteq Int
  BY <1>1 DEF PartsOf
<1>4. FlattenSeq(seqs) \in Seq(Int)
  BY <1>2, <1>3
<1>. QED  BY <1>4 DEF Concat

\* What a function on the places of a list has is a list.
LEMMA ListOfNumbers ==
    ASSUME NEW s, IsSequence(s), NEW f, f = [n \in DOMAIN s |-> f[n]]
    PROVE  /\ IsSequence(f) /\ DOMAIN f = DOMAIN s
           /\ (\A n \in DOMAIN s : f[n] \in Int) => f \in Seq(Int)
           /\ (\A n \in DOMAIN s : f[n] \in Seq(Int)) => Concat(f) \in Seq(Int)
<1>1. Len(s) \in Nat /\ DOMAIN s = 1..Len(s)
  BY AreSequences DEF IsSequence
<1>2. IsSequence(f) /\ DOMAIN f = DOMAIN s
  BY <1>1, SequencesAre
<1>3. ASSUME \A n \in DOMAIN s : f[n] \in Int PROVE f \in Seq(Int)
  <2>1. f \in [1..Len(s) -> Int]
    BY <1>1, <1>3
  <2>. QED  BY <1>1, <2>1
<1>. QED  BY <1>2, <1>3, JoinedNumbers
-----------------------------------------------------------------------------
\* What a configuration asks for, as lists.
LEMMA PrioritiesAreLists ==
    ASSUME NEW config, IsConfig(config)
    PROVE  /\ \A kind : IsSequence(Of(kind, config))
           /\ IsSequence(PriorityStarSources(config)) /\ Len(PriorityStarSources(config)) \in Nat
<1>1. ASSUME NEW kind PROVE IsSequence(Of(kind, config))
  <2>. DEFINE ps == config.priorities
              P == {n \in DOMAIN ps : ps[n].kind = kind}
  <2>1. Of(kind, config) = TakePlaces(ps, Upwards(P))
    BY Zenon DEF Of
  <2>2. IsSequence(ps) /\ P \in SUBSET DOMAIN ps
    BY DEF IsConfig
  <2>. HIDE DEF ps, P
  <2>. QED  BY <2>1, <2>2, WhereIsSequence
<1>2. IsSequence(PriorityStarSources(config))
  <2>. DEFINE s == Of("star_source", config)
              v == Values(s)
  <2>1. IsSequence(s)
    BY <1>1
  <2>2. v = [n \in DOMAIN s |-> v[n]]
    BY DEF Values
  <2>. HIDE DEF s, v
  <2>3. IsSequence(v)
    BY <2>1, <2>2, ListOfNumbers
  <2>4. v \in Seq(Range(v))
    BY <2>3, AreSequences
  <2>5. Distinct(v) \in Seq(Range(v))
    BY <2>4, DistinctElements
  <2>6. IsSequence(Distinct(v))
    BY <2>5, SeqIsSequence
  <2>. QED  BY <2>6 DEF PriorityStarSources, v, s
<1>3. Len(PriorityStarSources(config)) \in Nat
  BY <1>2 DEF IsSequence
<1>. QED  BY <1>1, <1>2, <1>3

\* The groups whose coverage counts are a list, and so are the sources of each.
LEMMA GroupsAreLists ==
    ASSUME NEW config, IsConfig(config)
    PROVE  /\ IsSequence(NormalizeCoverageGroups(ActiveCoverageGroups(config)))
           /\ \A n \in DOMAIN NormalizeCoverageGroups(ActiveCoverageGroups(config)) :
                  Len(NormalizeCoverageGroups(ActiveCoverageGroups(config))[n].sources) \in Nat
<1>. DEFINE groups == ActiveCoverageGroups(config)
            P == {n \in DOMAIN groups : groups[n].sources # <<>>}
            named == TakePlaces(groups, Upwards(P))
            normal == [n \in DOMAIN named |-> [sources |-> Distinct(named[n].sources), targets |-> named[n].targets]]
<1>1. NormalizeCoverageGroups(groups) = normal
  BY Zenon DEF NormalizeCoverageGroups
<1>2. IsSequence(groups) /\ \A g \in Range(groups) : IsSequence(g.sources)
  <2>1. CASE groups = config.groups
    BY <2>1 DEF IsConfig
  <2>2. CASE groups = <<>>
    BY <2>2, EmptyIsSequence
  <2>. QED  BY <2>1, <2>2 DEF ActiveCoverageGroups
<1>3. P \in SUBSET DOMAIN groups
  OBVIOUS
<1>. HIDE DEF groups, P
<1>4. IsSequence(named) /\ Range(named) \subseteq Range(groups)
  BY <1>2, <1>3, TakenAre
<1>. HIDE DEF named
<1>5. normal = [n \in DOMAIN named |-> normal[n]]
  OBVIOUS
<1>6. ASSUME NEW n \in DOMAIN named PROVE Len(normal[n].sources) \in Nat
  <2>. DEFINE v == named[n].sources
  <2>1. named[n] \in Range(named)
    BY DEF Range
  <2>2. IsSequence(v)
    BY <1>2, <1>4, <2>1
  <2>3. normal[n].sources = Distinct(v)
    OBVIOUS
  <2>. HIDE DEF v, normal
  <2>4. v \in Seq(Range(v))
    BY <2>2, AreSequences
  <2>5. Distinct(v) \in Seq(Range(v))
    BY <2>4, DistinctElements
  <2>. QED  BY <2>3, <2>5
<1>. HIDE DEF normal
<1>7. IsSequence(normal) /\ DOMAIN normal = DOMAIN named
  BY <1>4, <1>5, ListOfNumbers
<1>. QED  BY <1>1, <1>6, <1>7 DEF groups

-----------------------------------------------------------------------------
(* The score of a layout.                                                   *)

\* The counts of the priorities are numbers, in each of the three orders.
LEMMA PriorityCountsAreNumbers ==
    ASSUME NEW config, IsConfig(config), NEW layout, IsFiniteSet(DOMAIN layout),
           NEW crafts, IsSequence(crafts), NEW stars, IsFiniteSet(stars)
    PROVE  PriorityCounts(layout, crafts, stars, config) \in Seq(Int)
<1>. DEFINE groups  == NormalizeCoverageGroups(ActiveCoverageGroups(config))
            grouped == CoverageGroupSources(groups)
            ps      == config.priorities
            bucket(g) == BucketCounts(DOMAIN layout, stars, g)
            loose(source) == LooseCount(stars, source, config.semantics)
            sources == PriorityStarSources(config)
            outer   == Where(sources, LAMBDA x : x \notin grouped)
            crafted == Of("craft", config)
            firstStar(n) == ps[n].kind = "star_source" /\ \A m \in 1..n - 1 : ps[m].kind # "star_source"
            inOrder(n) ==
                CASE ps[n].kind = "craft" -> <<CountCraft(crafts, ps[n].value)>>
                  [] ps[n].kind = "coverage_group" /\ ps[n].value + 1 \in DOMAIN groups ->
                         bucket(groups[ps[n].value + 1])
                  [] ps[n].kind = "star_source" /\ ps[n].value \notin grouped -> <<loose(ps[n].value)>>
                  [] OTHER -> <<0>>
            inBlock(n) ==
                CASE ps[n].kind = "craft" -> <<CountCraft(crafts, ps[n].value)>>
                  [] firstStar(n) -> bucket([sources |-> sources, targets |-> {}])
                  [] ps[n].kind = "star_source" -> <<>>
                  [] OTHER -> <<0>>
            covered == [n \in DOMAIN groups |-> bucket(groups[n])]
            broad == [n \in DOMAIN outer |-> TargetBreadth({st \in stars : Inventory[st[1]] = outer[n]})]
            made == [n \in DOMAIN crafted |-> CountCraft(crafts, crafted[n].value)]
            ordered == [n \in DOMAIN ps |-> inOrder(n)]
            blocked == [n \in DOMAIN ps |-> inBlock(n)]
<1>1. PriorityCounts(layout, crafts, stars, config) =
          CASE ActiveCoverageGroups(config) # <<>> /\ ~GlobalPriorityOrder(config) -> Concat(covered) \o broad \o made
            [] ActiveCoverageGroups(config) # <<>> \/ IsOutgoing(config.semantics) -> Concat(ordered)
            [] OTHER -> Concat(blocked)
  BY Zenon DEF PriorityCounts
<1>2. /\ IsSequence(groups) /\ IsSequence(ps) /\ IsSequence(outer) /\ IsSequence(crafted) /\ Len(sources) \in Nat
      /\ \A n \in DOMAIN groups : Len(groups[n].sources) \in Nat
  <2>1. IsSequence(groups) /\ \A n \in DOMAIN groups : Len(groups[n].sources) \in Nat
    BY GroupsAreLists
  <2>2. IsSequence(ps)
    BY DEF IsConfig
  <2>3. IsSequence(crafted) /\ Len(sources) \in Nat
    BY PrioritiesAreLists
  <2>4. IsSequence(outer)
    <3>. DEFINE P == {n \in DOMAIN sources : sources[n] \notin grouped}
    <3>1. outer = TakePlaces(sources, Upwards(P))
      BY Zenon DEF Where
    <3>2. IsSequence(sources) /\ P \in SUBSET DOMAIN sources
      BY PrioritiesAreLists
    <3>. HIDE DEF sources, P, outer
    <3>. QED  BY <3>1, <3>2, WhereIsSequence
  <2>. QED  BY <2>1, <2>2, <2>3, <2>4
<1>3. \A g : Len(g.sources) \in Nat => bucket(g) \in Seq(Int)
  BY BucketsAreNumbers
<1>4. \A source : loose(source) \in Int /\ TargetBreadth({st \in stars : Inventory[st[1]] = source}) \in Int
  BY StarCountsAreIntegers
<1>5. \A result : CountCraft(crafts, result) \in Int
  BY CraftCountIsInteger
<1>6. <<>> \in Seq(Int) /\ \A x \in Int : <<x>> \in Seq(Int)
  OBVIOUS
<1>7. /\ covered = [n \in DOMAIN groups |-> covered[n]] /\ \A n \in DOMAIN groups : covered[n] = bucket(groups[n])
      /\ broad = [n \in DOMAIN outer |-> broad[n]]
      /\ \A n \in DOMAIN outer : broad[n] = TargetBreadth({st \in stars : Inventory[st[1]] = outer[n]})
      /\ made = [n \in DOMAIN crafted |-> made[n]]
      /\ \A n \in DOMAIN crafted : made[n] = CountCraft(crafts, crafted[n].value)
  <2>. HIDE DEF groups, outer, crafted, bucket
  <2>. QED  OBVIOUS
<1>8. /\ ordered = [n \in DOMAIN ps |-> ordered[n]] /\ \A n \in DOMAIN ps : ordered[n] = inOrder(n)
      /\ blocked = [n \in DOMAIN ps |-> blocked[n]] /\ \A n \in DOMAIN ps : blocked[n] = inBlock(n)
  <2>. HIDE DEF ps, inOrder, inBlock
  <2>. QED  OBVIOUS
<1>. HIDE DEF groups, bucket, loose, sources, grouped
<1>9. ASSUME NEW n \in DOMAIN ps PROVE inOrder(n) \in Seq(Int)
  <2>1. 0 \in Int
    OBVIOUS
  <2>2. ps[n].value + 1 \in DOMAIN groups => bucket(groups[ps[n].value + 1]) \in Seq(Int)
    BY <1>2, <1>3
  <2>3. <<CountCraft(crafts, ps[n].value)>> \in Seq(Int) /\ <<loose(ps[n].value)>> \in Seq(Int) /\ <<0>> \in Seq(Int)
    BY <1>4, <1>5, <1>6, <2>1
  <2>. QED  BY <2>2, <2>3
<1>10. ASSUME NEW n \in DOMAIN ps PROVE inBlock(n) \in Seq(Int)
  <2>1. 0 \in Int
    OBVIOUS
  <2>2. bucket([sources |-> sources, targets |-> {}]) \in Seq(Int)
    <3>1. [sources |-> sources, targets |-> {}].sources = sources
      OBVIOUS
    <3>. QED  BY <1>2, <1>3, <3>1
  <2>3. <<CountCraft(crafts, ps[n].value)>> \in Seq(Int) /\ <<>> \in Seq(Int) /\ <<0>> \in Seq(Int)
    BY <1>5, <1>6, <2>1
  <2>. QED  BY <2>2, <2>3
<1>. HIDE DEF covered, broad, made, ordered, blocked, inOrder, inBlock, outer, crafted, ps
<1>11. Concat(covered) \in Seq(Int)
  <2>1. \A n \in DOMAIN groups : covered[n] \in Seq(Int)
    BY <1>2, <1>3, <1>7
  <2>. QED  BY <1>2, <1>7, <2>1, ListOfNumbers
<1>12. broad \in Seq(Int)
  <2>1. ASSUME NEW n \in DOMAIN outer PROVE broad[n] \in Int
    <3>. DEFINE one == {st \in stars : Inventory[st[1]] = outer[n]}
    <3>1. TargetBreadth(one) \in Int
      BY StarCountsAreIntegers
    <3>2. broad[n] = TargetBreadth(one)
      BY Zenon, <1>7
    <3>. QED  BY Zenon, <3>1, <3>2
  <2>. QED  BY <1>2, <1>7, <2>1, ListOfNumbers
<1>13. made \in Seq(Int)
  <2>1. \A n \in DOMAIN crafted : made[n] \in Int
    BY <1>5, <1>7
  <2>. QED  BY <1>2, <1>7, <2>1, ListOfNumbers
<1>14. Concat(ordered) \in Seq(Int)
  <2>1. \A n \in DOMAIN ps : ordered[n] \in Seq(Int)
    BY <1>8, <1>9
  <2>. QED  BY <1>2, <1>8, <2>1, ListOfNumbers
<1>15. Concat(blocked) \in Seq(Int)
  <2>1. \A n \in DOMAIN ps : blocked[n] \in Seq(Int)
    BY <1>8, <1>10
  <2>. QED  BY <1>2, <1>8, <2>1, ListOfNumbers
<1>16. \A x, y, z \in Seq(Int) : x \o y \o z \in Seq(Int)
  OBVIOUS
<1>17. Concat(covered) \o broad \o made \in Seq(Int)
  BY <1>11, <1>12, <1>13, <1>16
<1>. QED  BY <1>1, <1>14, <1>15, <1>17

\* The score of a layout is made of numbers.
LEMMA ScoresAreNumbers ==
    ASSUME NEW config, IsConfig(config), NEW layout, DOMAIN layout \subseteq Instances
    PROVE  IsScore(EvaluateLayout(layout, config))
<1>. DEFINE crafts == Crafts(layout)
            stars == Stars(layout)
            counts == PriorityCounts(layout, crafts, stars, config)
<1>1. IsSequence(crafts)
  <2>1. IsSequence(PossibleRecipes)
    <3>. DEFINE P == {n \in DOMAIN Recipes : PossibleWithInventory(Recipes[n])}
    <3>1. PossibleRecipes = TakePlaces(Recipes, Upwards(P))
      BY Zenon DEF PossibleRecipes
    <3>2. IsSequence(Recipes)
      <4>1. Recipes \in Seq(Range(Recipes))
        BY CatalogAssumption DEF CatalogAssumption
      <4>. QED  BY <4>1, SeqIsSequence
    <3>3. P \in SUBSET DOMAIN Recipes
      OBVIOUS
    <3>. HIDE DEF P
    <3>. QED  BY <3>1, <3>2, <3>3, WhereIsSequence
  <2>. QED  BY <2>1, CraftsAreSequence DEF Crafts
<1>2. IsFiniteSet(DOMAIN layout) /\ IsFiniteSet(stars)
  BY StarsAreFinite
<1>3. EvaluateLayout(layout, config) =
          [priority |-> counts,
           rest |-> <<Len(crafts), Cardinality(stars), Cardinality(DOMAIN layout), TargetBreadth(stars),
                      ReciprocalPairs(stars), SourceDefinitionDiversity(stars)>>]
  BY Zenon DEF EvaluateLayout, FullScore, Score
<1>. HIDE DEF crafts, stars
<1>4. counts \in Seq(Int)
  BY <1>1, <1>2, PriorityCountsAreNumbers
<1>5. /\ Len(crafts) \in Int /\ Cardinality(stars) \in Int /\ Cardinality(DOMAIN layout) \in Int
      /\ TargetBreadth(stars) \in Int /\ ReciprocalPairs(stars) \in Int /\ SourceDefinitionDiversity(stars) \in Int
  BY <1>1, <1>2, CountIsInteger, BreadthIsInteger, StarCountsAreIntegers DEF IsSequence
<1>6. \A a, b, c, d, e, f \in Int : <<a, b, c, d, e, f>> \in Seq(Int)
  OBVIOUS
<1>. HIDE DEF counts
<1>7. <<Len(crafts), Cardinality(stars), Cardinality(DOMAIN layout), TargetBreadth(stars),
        ReciprocalPairs(stars), SourceDefinitionDiversity(stars)>> \in Seq(Int)
  BY <1>5, <1>6
<1>. QED  BY <1>3, <1>4, <1>7 DEF IsScore

-----------------------------------------------------------------------------
(* The best of a list.                                                      *)

\* Solutions whose layouts have keys and whose scores are numbers.
Compared(s) == IsScore(s.score) /\ LayoutKeys(s.layout) \in [Instances -> Triples]
AllCompared(V) ==
    /\ \A v \in V : Compared(v)
    /\ \A v, w \in V : LayoutLess(v.layout, w.layout) <=> <<LayoutKeys(v.layout), LayoutKeys(w.layout)>> \in ByKeys

\* Legal layouts of one configuration can be compared.
LEMMA LegalCompared ==
    ASSUME NEW config, IsConfig(config), NEW V, \A v \in V : LegalFor(config, v)
    PROVE  AllCompared(V)
<1>1. ASSUME NEW v \in V PROVE Compared(v)
  <2>1. LegalLayout(config, v.layout) /\ v.score = EvaluateLayout(v.layout, config)
    BY DEF LegalFor
  <2>2. DOMAIN v.layout \subseteq Instances
    BY <2>1 DEF LegalLayout
  <2>. QED  BY <2>1, <2>2, ScoresAreNumbers, LayoutsCompared DEF Compared
<1>2. \A v, w \in V :
        LayoutLess(v.layout, w.layout) <=> <<LayoutKeys(v.layout), LayoutKeys(w.layout)>> \in ByKeys
  BY LayoutsCompared DEF LegalFor
<1>. QED  BY <1>1, <1>2 DEF AllCompared

\* solutionLess is a strict order up to solutions that tie.
LEMMA SolutionsCompared ==
    ASSUME NEW V, AllCompared(V), NEW s \in V, NEW t \in V, NEW u \in V
    PROVE  /\ ~SolutionLess(s, s)
           /\ SolutionLess(s, t) => ~SolutionLess(t, s)
           /\ ~SolutionLess(s, t) /\ ~SolutionLess(t, u) => ~SolutionLess(s, u)
           /\ CompareScores(s.score, t.score) > 0 => SolutionLess(s, t)
<1>. DEFINE c(a, b) == CompareScores(a.score, b.score)
            less(a, b) == LayoutLess(a.layout, b.layout)
            F == [Instances -> Triples]
            k(a) == LayoutKeys(a.layout)
<1>1. \A a, b : SolutionLess(a, b) <=> c(a, b) > 0 \/ (c(a, b) = 0 /\ less(a, b))
  BY DEF SolutionLess, Improves, ByScoreThenLayout
<1>2. IsScore(s.score) /\ IsScore(t.score) /\ IsScore(u.score)
  BY DEF AllCompared, Compared
<1>3. /\ c(s, t) \in Int /\ c(t, s) \in Int /\ c(s, u) \in Int /\ c(t, u) \in Int /\ c(u, s) \in Int /\ c(u, t) \in Int
      /\ c(s, s) = 0
      /\ c(s, t) > 0 <=> c(t, s) < 0
      /\ c(t, s) > 0 <=> c(s, t) < 0
      /\ c(t, u) > 0 <=> c(u, t) < 0
      /\ c(u, t) > 0 <=> c(t, u) < 0
      /\ c(s, u) > 0 <=> c(u, s) < 0
      /\ c(u, s) > 0 <=> c(s, u) < 0
      /\ c(u, t) >= 0 /\ c(t, s) >= 0 => c(u, s) >= 0
      /\ c(u, t) > 0 /\ c(t, s) >= 0 => c(u, s) > 0
      /\ c(u, t) >= 0 /\ c(t, s) > 0 => c(u, s) > 0
  BY <1>2, ScoresCompared
<1>4. k(s) \in F /\ k(t) \in F /\ k(u) \in F
  BY DEF AllCompared, Compared
<1>5. \A a, b \in {s, t, u} : less(a, b) <=> <<k(a), k(b)>> \in ByKeys
  BY DEF AllCompared
<1>. HIDE DEF c, less, k, F
<1>6. \A x, y, z \in F :
        /\ <<x, x>> \notin ByKeys
        /\ <<x, y>> \in ByKeys /\ <<y, z>> \in ByKeys => <<x, z>> \in ByKeys
        /\ x = y \/ <<x, y>> \in ByKeys \/ <<y, x>> \in ByKeys
  BY KeysOrder DEF Orders, F
<1>7. ~less(s, s) /\ ~(less(s, t) /\ less(t, s))
  BY <1>4, <1>5, <1>6
<1>8. ~less(s, t) /\ ~less(t, u) => ~less(s, u)
  <2>. DEFINE x == k(s)
              y == k(t)
              z == k(u)
  <2>1. /\ less(s, t) <=> <<x, y>> \in ByKeys
        /\ less(t, u) <=> <<y, z>> \in ByKeys
        /\ less(s, u) <=> <<x, z>> \in ByKeys
    BY <1>5
  <2>2. x \in F /\ y \in F /\ z \in F
    BY <1>4
  <2>. HIDE DEF x, y, z
  <2>3. ASSUME <<x, z>> \in ByKeys, <<x, y>> \notin ByKeys, <<y, z>> \notin ByKeys PROVE FALSE
    <3>1. x = y \/ <<y, x>> \in ByKeys
      BY <1>6, <2>2, <2>3
    <3>2. CASE x = y
      BY <2>3, <3>2
    <3>3. CASE <<y, x>> \in ByKeys
      BY <1>6, <2>2, <2>3, <3>3
    <3>. QED  BY <3>1, <3>2, <3>3
  <2>. QED  BY <2>1, <2>3
<1>9. c(s, t) = 0 <=> c(t, s) = 0
  BY <1>3
<1>10. ~SolutionLess(s, s) /\ (SolutionLess(s, t) => ~SolutionLess(t, s))
  BY <1>1, <1>3, <1>7
<1>11. ASSUME ~SolutionLess(s, t), ~SolutionLess(t, u) PROVE ~SolutionLess(s, u)
  <2>1. c(s, t) <= 0 /\ (c(s, t) = 0 => ~less(s, t)) /\ c(t, u) <= 0 /\ (c(t, u) = 0 => ~less(t, u))
    BY <1>1, <1>3, <1>11
  <2>2. c(t, s) >= 0 /\ c(u, t) >= 0
    BY <1>3, <2>1
  <2>3. c(u, s) >= 0 /\ c(s, u) <= 0
    BY <1>3, <2>2
  <2>4. CASE c(s, u) < 0
    BY <1>1, <1>3, <2>4
  <2>5. CASE c(s, u) = 0
    <3>1. c(t, s) = 0 /\ c(u, t) = 0
      BY <1>3, <2>2, <2>5
    <3>2. c(s, t) = 0 /\ c(t, u) = 0
      BY <1>3, <3>1
    <3>3. ~less(s, u)
      BY <1>8, <2>1, <3>2
    <3>. QED  BY <1>1, <2>5, <3>3
  <2>. QED  BY <1>3, <2>3, <2>4, <2>5
<1>12. c(s, t) > 0 => SolutionLess(s, t)
  BY <1>1
<1>. QED  BY <1>10, <1>11, <1>12 DEF c
-----------------------------------------------------------------------------
\* No solution of a list comes before its first.
Leads(s) == \A n \in DOMAIN s : ~SolutionLess(s[n], s[1])

\* What is behind the place an element was put at.
LEMMA InsertedBehind ==
    ASSUME NEW V, NEW kept \in Seq(V), NEW k \in 0..Len(kept), NEW s \in V
    PROVE  \A n \in k + 1..Len(kept) : InsertAt(kept, 1 + k, s)[n + 1] = kept[n]
BY InsertedIn

\* What a list holds once an element was put at a place of it, of the list as a
\* value of its own.
LEMMA PutIn ==
    ASSUME NEW V, NEW kept \in Seq(V), NEW s \in V, NEW k \in 0..Len(kept),
           NEW more, more = InsertAt(kept, 1 + k, s)
    PROVE  /\ more \in Seq(V) /\ Len(more) = Len(kept) + 1
           /\ \A n \in 1..k : more[n] = kept[n]
           /\ more[k + 1] = s
           /\ \A n \in k + 1..Len(kept) : more[n + 1] = kept[n]
<1>1. more \in Seq(V) /\ Len(more) = Len(kept) + 1
  BY InsertedIn
<1>2. more[k + 1] = s
  BY InsertedIn
<1>3. ASSUME NEW n \in 1..k PROVE more[n] = kept[n]
  BY InsertedIn
<1>4. \A n \in k + 1..Len(kept) : InsertAt(kept, 1 + k, s)[n + 1] = kept[n]
  BY InsertedBehind
<1>5. ASSUME NEW n \in k + 1..Len(kept) PROVE more[n + 1] = kept[n]
  BY <1>4
<1>. QED  BY <1>1, <1>2, <1>3, <1>5

\* One more element sinks to its place, and the first of the list stays the best.
LEMMA InsertLeads ==
    ASSUME NEW V, AllCompared(V), NEW kept \in Seq(V), Leads(kept), NEW s \in V
    PROVE  /\ Leads(Insert(kept, s)) /\ ~SolutionLess(s, Insert(kept, s)[1])
           /\ kept # <<>> => ~SolutionLess(kept[1], Insert(kept, s)[1])
<1>. DEFINE L == Len(kept)
            more == Insert(kept, s)
<1>1. L \in Nat /\ DOMAIN kept = 1..L /\ \A n \in 1..L : kept[n] \in V
  OBVIOUS
<1>2. PICK k \in 0..L : /\ more = InsertAt(kept, 1 + k, s)
                        /\ \A m \in k + 1..L : SolutionLess(s, kept[m])
                        /\ k > 0 => ~SolutionLess(s, kept[k])
  BY <1>1, InsertPasses
<1>3. /\ more \in Seq(V) /\ Len(more) = L + 1
      /\ \A n \in 1..k : more[n] = kept[n]
      /\ more[k + 1] = s
      /\ \A n \in k + 1..L : more[n + 1] = kept[n]
  <2>1. k \in 0..Len(kept) /\ more = InsertAt(kept, 1 + k, s)
    BY <1>2
  <2>. HIDE DEF more
  <2>2. more \in Seq(V) /\ Len(more) = Len(kept) + 1 /\ more[k + 1] = s
    BY <2>1, PutIn
  <2>3. \A n \in 1..k : more[n] = kept[n]
    BY <2>1, PutIn
  <2>4. ASSUME NEW n \in k + 1..Len(kept) PROVE more[n + 1] = kept[n]
    <3>1. \A m \in k + 1..Len(kept) : InsertAt(kept, 1 + k, s)[m + 1] = kept[m]
      BY <2>1, InsertedBehind
    <3>. QED  BY <2>1, <3>1
  <2>. QED  BY <2>2, <2>3, <2>4
<1>4. DOMAIN more = 1..L + 1
  BY <1>1, <1>3
<1>5. \A a, b, c \in V : /\ ~SolutionLess(a, a) /\ (SolutionLess(a, b) => ~SolutionLess(b, a))
                         /\ ~SolutionLess(a, b) /\ ~SolutionLess(b, c) => ~SolutionLess(a, c)
  BY SolutionsCompared
<1>. HIDE DEF L, more
<1>6. CASE k = 0
  <2>1. more[1] = s
    BY <1>3, <1>6
  <2>2. \A m \in 1..L : ~SolutionLess(kept[m], s)
    BY <1>1, <1>2, <1>5, <1>6
  <2>3. ASSUME NEW n \in DOMAIN more PROVE ~SolutionLess(more[n], more[1])
    <3>1. CASE n = 1
      BY <1>5, <2>1, <3>1
    <3>2. CASE n # 1
      <4>1. n - 1 \in 1..L /\ n - 1 \in k + 1..L /\ (n - 1) + 1 = n
        BY <1>1, <1>4, <1>6, <3>2
      <4>2. more[n] = kept[n - 1]
        BY <1>3, <4>1
      <4>. QED  BY <2>1, <2>2, <4>1, <4>2
    <3>. QED  BY <3>1, <3>2
  <2>4. kept # <<>> => ~SolutionLess(kept[1], more[1])
    <3>1. kept # <<>> => 1 \in 1..L
      BY <1>1 DEF L
    <3>. QED  BY <2>1, <2>2, <3>1
  <2>. QED  BY <1>5, <2>1, <2>3, <2>4 DEF more, Leads
<1>7. CASE k > 0
  <2>1. 1 \in 1..L /\ k \in 1..L /\ 1 \in 1..k
    BY <1>1, <1>7
  <2>2. more[1] = kept[1]
    BY <1>3, <2>1
  <2>3. \A n \in 1..L : ~SolutionLess(kept[n], kept[1])
    BY <1>1 DEF Leads
  <2>4. ~SolutionLess(s, kept[1])
    <3>1. ~SolutionLess(s, kept[k]) /\ ~SolutionLess(kept[k], kept[1])
      BY <1>2, <1>7, <2>1, <2>3
    <3>2. kept[k] \in V /\ kept[1] \in V
      BY <1>1, <2>1
    <3>. QED  BY <1>5, <3>1, <3>2
  <2>5. ASSUME NEW n \in DOMAIN more PROVE ~SolutionLess(more[n], more[1])
    <3>1. CASE n \in 1..k
      <4>1. n \in 1..L
        BY <1>1, <2>1, <3>1
      <4>. QED  BY <1>3, <2>2, <2>3, <3>1, <4>1
    <3>2. CASE n = k + 1
      BY <1>3, <2>2, <2>4, <3>2
    <3>3. CASE n > k + 1
      <4>1. n - 1 \in 1..L /\ n - 1 \in k + 1..L /\ (n - 1) + 1 = n
        BY <1>1, <1>4, <3>3
      <4>2. more[n] = kept[n - 1]
        BY <1>3, <4>1
      <4>. QED  BY <2>2, <2>3, <4>1, <4>2
    <3>. QED  BY <1>1, <1>4, <3>1, <3>2, <3>3
  <2>. QED  BY <2>1, <2>2, <2>3, <2>4, <2>5 DEF more, Leads
<1>. QED  BY <1>1, <1>6, <1>7

\* The first of what is sorted is of it, and nothing of it comes before that one.
LEMMA SortedLeads ==
    ASSUME NEW V, AllCompared(V), NEW s \in Seq(V)
    PROVE  /\ Leads(Sorted(s)) /\ \A n \in DOMAIN s : ~SolutionLess(s[n], Sorted(s)[1])
<1>. DEFINE L == Len(s)
<1>0. L \in Nat /\ DOMAIN s = 1..L /\ \A n \in 1..L : s[n] \in V
  OBVIOUS
<1>1. PICK f \in [0..L -> Seq(V)] :
          /\ Sorted(s) = f[L] /\ f[0] = <<>>
          /\ \A n \in 1..L : f[n] = Insert(f[n - 1], s[n])
  BY SortedIn
<1>. DEFINE Good(n) == Leads(f[n]) /\ \A m \in 1..n : f[n] # <<>> /\ ~SolutionLess(s[m], f[n][1])
            T == {n \in 0..L : Good(n)}
<1>2. 0 \in T
  <2>1. Leads(<<>>)
    BY DEF Leads
  <2>2. Good(0)
    BY <1>1, <2>1
  <2>. QED  BY <1>0, <2>2
<1>3. ASSUME NEW n \in 0..(L - 1), n \in T PROVE n + 1 \in T
  <2>. DEFINE kept == f[n]
              a == s[n + 1]
  <2>1. n + 1 \in 1..L /\ (n + 1) - 1 = n /\ n + 1 \in 0..L /\ n \in 0..L /\ n \in Nat
    BY <1>0
  <2>2. f[n + 1] = Insert(kept, a) /\ a \in V /\ kept \in Seq(V)
    BY <1>0, <1>1, <2>1
  <2>3. Leads(kept) /\ \A m \in 1..n : kept # <<>> /\ ~SolutionLess(s[m], kept[1])
    BY <1>3
  <2>. HIDE DEF kept, a
  <2>4. /\ Leads(f[n + 1]) /\ ~SolutionLess(a, f[n + 1][1])
        /\ kept # <<>> => ~SolutionLess(kept[1], f[n + 1][1])
    BY <2>2, <2>3, InsertLeads
  <2>5. f[n + 1] \in Seq(V) /\ Len(f[n + 1]) = Len(kept) + 1
    BY <2>2, InsertIn
  <2>6. f[n + 1] # <<>> /\ f[n + 1][1] \in V
    <3>1. Len(kept) \in Nat
      BY <2>2
    <3>. QED  BY <2>5, <3>1
  <2>7. ASSUME NEW m \in 1..n + 1 PROVE ~SolutionLess(s[m], f[n + 1][1])
    <3>1. CASE m = n + 1
      BY <2>4, <3>1 DEF a
    <3>2. CASE m # n + 1
      <4>1. m \in 1..n /\ s[m] \in V
        BY <1>0, <2>1, <3>2
      <4>2. kept # <<>> /\ ~SolutionLess(s[m], kept[1]) /\ ~SolutionLess(kept[1], f[n + 1][1])
        BY <2>3, <2>4, <4>1
      <4>3. kept[1] \in V
        BY <2>2, <4>2
      <4>. QED  BY <2>6, <4>1, <4>2, <4>3, SolutionsCompared
    <3>. QED  BY <3>1, <3>2
  <2>8. Good(n + 1)
    BY <2>4, <2>6, <2>7
  <2>. HIDE DEF Good
  <2>. QED  BY <2>1, <2>8
<1>4. 0..L \subseteq T
  <2>. HIDE DEF T, L
  <2>. QED  BY <1>0, <1>2, <1>3, InductionUpTo
<1>5. Good(L)
  BY <1>0, <1>4
<1>. QED  BY <1>0, <1>1, <1>5

\* mergeSolutions keeps the best, of the results and of what joins them.
LEMMA MergeLeads ==
    ASSUME NEW V, AllCompared(V), NEW left \in Seq(V), NEW right \in Seq(V), left # <<>> \/ right # <<>>,
           NEW k \in Nat \ {0}
    PROVE  /\ Leads(MergeSolutions(left, right, k)) /\ MergeSolutions(left, right, k) # <<>>
           /\ MergeSolutions(left, right, k)[1] \in Range(left) \cup Range(right)
           /\ \A x \in Range(left) \cup Range(right) : ~SolutionLess(x, MergeSolutions(left, right, k)[1])
<1>. DEFINE all == left \o right
            R == Range(left) \cup Range(right)
            sorted == Sorted(all)
            m == Min({k, Len(sorted)})
<1>0. left \in Seq(R) /\ right \in Seq(R) /\ \A x \in R : x \in V
  <2>1. IsSequence(left) /\ IsSequence(right) /\ Range(left) \subseteq V /\ Range(right) \subseteq V
    BY SeqIsSequence
  <2>. QED  BY <2>1, SequenceIn
<1>1. all \in Seq(R) /\ all \in Seq(V) /\ Len(all) = Len(left) + Len(right) /\ Len(left) \in Nat /\ Len(right) \in Nat
  <2>. HIDE DEF R
  <2>. QED  BY <1>0
<1>2. Len(all) > 0
  <2>1. Len(left) > 0 \/ Len(right) > 0
    OBVIOUS
  <2>. HIDE DEF all
  <2>. QED  BY <1>1, <2>1
<1>3. ASSUME NEW x \in R PROVE \E n \in DOMAIN all : all[n] = x
  <2>1. CASE x \in Range(left)
    <3>1. PICK n \in DOMAIN left : left[n] = x
      BY <2>1 DEF Range
    <3>2. n \in DOMAIN all /\ all[n] = left[n]
      BY <3>1
    <3>. QED  BY <3>1, <3>2
  <2>2. CASE x \in Range(right)
    <3>1. PICK n \in DOMAIN right : right[n] = x
      BY <2>2 DEF Range
    <3>2. Len(left) + n \in DOMAIN all /\ all[Len(left) + n] = right[n]
      BY <3>1
    <3>. QED  BY <3>1, <3>2
  <2>. QED  BY <2>1, <2>2
<1>. HIDE DEF all, R
<1>4. sorted \in Seq(R) /\ Len(sorted) = Len(all)
  BY <1>1, SortedIn
<1>5. Leads(sorted) /\ \A n \in DOMAIN all : ~SolutionLess(all[n], sorted[1])
  BY <1>1, SortedLeads
<1>. HIDE DEF sorted
<1>6. m \in 1..Len(sorted) /\ Len(sorted) \in Nat
  <2>1. Len(sorted) \in Nat /\ Len(sorted) > 0 /\ k \in Nat /\ k > 0
    BY <1>1, <1>2, <1>4
  <2>2. m \in {k, Len(sorted)} /\ m <= Len(sorted)
    <3>1. k \in Int /\ Len(sorted) \in Int
      BY <2>1
    <3>. QED  BY <3>1, LeastOfTwo
  <2>. HIDE DEF m
  <2>. QED  BY <2>1, <2>2
<1>7. MergeSolutions(left, right, k) = SubSeq(sorted, 1, m)
  BY DEF MergeSolutions, Truncate, sorted, all
<1>. HIDE DEF m
<1>. DEFINE t == SubSeq(sorted, 1, m)
<1>8. t \in Seq(R) /\ Len(t) = m /\ DOMAIN t = 1..m /\ \A n \in 1..m : t[n] = sorted[n]
  <2>1. sorted \in Seq(R) /\ Len(sorted) \in Nat /\ m \in 1..Len(sorted)
    BY <1>4, <1>6
  <2>. QED  BY <2>1
<1>. HIDE DEF t
<1>9. 1 \in 1..m /\ t[1] = sorted[1] /\ t # <<>> /\ t[1] \in R
  BY <1>6, <1>8
<1>10. Leads(t)
  <2>1. \A n \in 1..m : n \in DOMAIN sorted
    BY <1>4, <1>6
  <2>. QED  BY <1>5, <1>8, <1>9, <2>1 DEF Leads
<1>11. \A x \in R : ~SolutionLess(x, t[1])
  BY <1>3, <1>5, <1>9
<1>. QED  BY <1>7, <1>9, <1>10, <1>11 DEF t, R

-----------------------------------------------------------------------------
(* The best of the results, and the theorem about it.                       *)

\* At least one layout is kept.
LEMMA LimitIsPositive ==
    ASSUME PreparedIs
    PROVE  Limit \in Nat \ {0}
<1>1. Cfg.topN \in Nat
  BY RepairAssumption DEF PreparedIs, RepairAssumption, Cfg
<1>. DEFINE most == CandidatesPerResult * Cfg.topN
<1>2. MinCandidates \in Nat /\ MinCandidates > 0 /\ most \in Nat
  BY <1>1, CandidateAssumption DEF CandidateAssumption
<1>3. Limit = Max({MinCandidates, most})
  BY DEF Limit, CandidateLimit
<1>. HIDE DEF most
<1>4. Max({MinCandidates, most}) \in {MinCandidates, most} /\ Max({MinCandidates, most}) >= MinCandidates
  BY <1>2, GreatestOfTwo
<1>. QED  BY <1>2, <1>3, <1>4

\* The configuration of a solve is one of those there are.
LEMMA ConfigIsOne ==
    ASSUME PreparedIs
    PROVE  IsConfig(Cfg)
BY ConfigAssumption DEF PreparedIs, ConfigAssumption, Cfg

\* A champion at the ceiling gives way only to one at the ceiling.
LEMMA BestAtCeiling ==
    ASSUME NEW best, PriorityCeilingReached(Cfg, best.score), NEW s, IsSequence(s)
    PROVE  PriorityCeilingReached(Cfg, BestOf(best, s).score)
<1>. DEFINE V == {best} \cup {s[n] : n \in DOMAIN s}
            W == {v \in V : PriorityCeilingReached(Cfg, v.score)}
<1>1. best \in W /\ \A n \in DOMAIN s : s[n] \in V
  OBVIOUS
<1>2. ASSUME NEW v \in W, NEW n \in DOMAIN s PROVE Better(v, s[n]) \in W
  <2>1. CASE Surpasses(v, s[n])
    BY <1>1, <2>1 DEF Better, Surpasses
  <2>2. CASE ~Surpasses(v, s[n])
    BY <2>2 DEF Better
  <2>. QED  BY <2>1, <2>2
<1>3. BestOf(best, s) \in W
  <2>. HIDE DEF W
  <2>. QED  BY <1>1, <1>2, BestOfStays
<1>. QED  BY <1>3

\* What the best of the results is, once others have joined them.
LEMMA JoinedLead ==
    ASSUME PreparedIs, NEW s, NEW t, LegalSeq(Cfg, s), LegalSeq(Cfg, t)
    PROVE  /\ Leads(MergeSolutions(s, t, Limit))
           /\ s # <<>> =>
                 /\ ~SolutionLess(s[1], MergeSolutions(s, t, Limit)[1])
                 /\ \A x : t = <<x>> /\ Leads(s) /\ CompareScores(x.score, s[1].score) > 0
                              => MergeSolutions(s, t, Limit)[1] = x
<1>. DEFINE more == MergeSolutions(s, t, Limit)
<1>1. PICK V : (\A v \in V : LegalFor(Cfg, v)) /\ s \in Seq(V) /\ t \in Seq(V)
  BY TwoLegal
<1>2. AllCompared(V)
  BY <1>1, ConfigIsOne, LegalCompared
<1>3. ASSUME s # <<>> \/ t # <<>>
      PROVE  /\ Leads(more) /\ more # <<>> /\ more[1] \in Range(s) \cup Range(t)
             /\ \A x \in Range(s) \cup Range(t) : ~SolutionLess(x, more[1])
  BY <1>1, <1>2, <1>3, LimitIsPositive, MergeLeads
<1>4. CASE s = <<>> /\ t = <<>>
  <2>1. <<>> \in Seq({}) /\ Limit \in Nat
    BY LimitIsPositive
  <2>2. more \in Seq({})
    BY <1>4, <2>1, MergedSolutionsIn
  <2>. HIDE DEF more
  <2>3. DOMAIN more = {}
    BY <2>2
  <2>. QED  BY <1>4, <2>3 DEF Leads, more
<1>5. ASSUME s # <<>>
      PROVE  /\ ~SolutionLess(s[1], more[1])
             /\ \A x : t = <<x>> /\ Leads(s) /\ CompareScores(x.score, s[1].score) > 0 => more[1] = x
  <2>. HIDE DEF more
  <2>1. 1 \in DOMAIN s /\ s[1] \in Range(s) /\ s[1] \in V /\ DOMAIN s = 1..Len(s)
    BY <1>1, <1>5 DEF Range
  <2>2. ~SolutionLess(s[1], more[1])
    BY <1>3, <1>5, <2>1
  <2>3. ASSUME NEW x, t = <<x>>, Leads(s), CompareScores(x.score, s[1].score) > 0 PROVE more[1] = x
    <3>1. Range(t) = {x} /\ x \in V
      <4>1. Len(t) = 1 /\ t[1] = x /\ DOMAIN t = {1}
        BY <2>3
      <4>. QED  BY <1>1, <4>1 DEF Range
    <3>2. ASSUME more[1] \in Range(s) PROVE FALSE
      <4>1. PICK n \in DOMAIN s : s[n] = more[1]
        BY <3>2 DEF Range
      <4>2. ~SolutionLess(more[1], s[1]) /\ more[1] \in V
        BY <1>1, <2>1, <2>3, <4>1 DEF Leads
      <4>3. ~SolutionLess(x, more[1])
        BY <1>3, <1>5, <3>1
      <4>4. ~SolutionLess(x, s[1])
        BY <1>2, <2>1, <3>1, <4>2, <4>3, SolutionsCompared
      <4>5. SolutionLess(x, s[1])
        BY <1>2, <2>1, <2>3, <3>1, SolutionsCompared
      <4>. QED  BY <4>4, <4>5
    <3>. QED  BY <1>3, <1>5, <3>1, <3>2
  <2>. QED  BY <2>2, <2>3
<1>. QED  BY <1>3, <1>4, <1>5
-----------------------------------------------------------------------------
\* The results begin with the best of them, and the champion of a phase is at
\* the ceiling.
LeadInv ==
    /\ AllIsLegal /\ Leads(elites)
    /\ stage \in {"lns", "walk"} => PriorityCeilingReached(Cfg, champion.score)

\* The results repair begins with are sorted.
LEMMA LeadAtFirst ==
    Init => LeadInv
<1>. SUFFICES ASSUME Init PROVE LeadInv
  OBVIOUS
<1>1. AllIsLegal
  BY LegalAtFirst
<1>2. /\ stage = "repair" /\ elites = MergeSolutions(<<>>, prepared.seeds, Limit)
  BY DEF Init, RepairInit
<1>3. PreparedIs
  BY <1>1 DEF AllIsLegal, IInv
<1>4. LegalSeq(Cfg, prepared.seeds) /\ LegalSeq(Cfg, <<>>)
  BY <1>3, SeedsAreLegal, NoneLegal
<1>5. Leads(elites)
  BY <1>2, <1>3, <1>4, JoinedLead
<1>. QED  BY <1>1, <1>2, <1>5 DEF LeadInv

\* What a step does to the results.
Keeps == elites' = elites
Empties == canceled /\ elites' = <<>>
Repairs == stage = "repair" /\ Searched /\ elites' = MergeSolutions(elites, Merged, Limit)
Surpassed ==
    /\ PriorityCeilingReached(Cfg, champion.score) /\ LegalFor(Cfg, champion)
    /\ CompareScores(champion.score, elites[1].score) > 0
    /\ elites' = MergeSolutions(elites, <<champion>>, Limit)
AtCeilingNext == stage' \in {"lns", "walk"} => PriorityCeilingReached(Cfg, champion'.score)
Changes == UNCHANGED fixedVars /\ AtCeilingNext /\ (Keeps \/ Empties \/ Repairs \/ Surpassed)

\* Where the stage, the results and the champion stay, so does the ceiling.
LEMMA QuietChange ==
    ASSUME LeadInv, UNCHANGED <<fixedVars, stage, elites, champion>>
    PROVE  Changes
BY DEF LeadInv, Changes, AtCeilingNext, Keeps

\* Repair keeps the results, or merges what a neighbourhood found.
LEMMA RepairChanges ==
    ASSUME LeadInv, RepairNext, UNCHANGED lnsVars
    PROVE  Changes
<1>1. champion' = champion
  BY DEF lnsVars
<1>2. CASE MergeRepair
  <2>1. /\ stage = "repair" /\ stage' = "repair" /\ Searched /\ UNCHANGED fixedVars
        /\ elites' = MergeSolutions(elites, Merged, Limit)
    BY <1>2 DEF MergeRepair
  <2>. QED  BY <2>1 DEF Changes, AtCeilingNext, Repairs
<1>3. CASE Cancel \/ StartRound \/ EndRound \/ EndRepair \/ PassOver \/ StartRepair
  <2>1. UNCHANGED <<fixedVars, stage, elites>>
    BY <1>3 DEF Cancel, StartRound, EndRound, EndRepair, PassOver, StartRepair, Start, roundVars
  <2>. QED  BY <1>1, <2>1, QuietChange
<1>4. CASE WalkNext
  <2>1. UNCHANGED <<fixedVars, stage, elites>>
    BY <1>4 DEF WalkNext, StartTask, Halt, Prune, Descend, Complete, EndTask, Visit, roundVars
  <2>. QED  BY <1>1, <2>1, QuietChange
<1>. QED  BY <1>2, <1>3, <1>4 DEF RepairNext

\* The champion a phase ends with.
LEMMA EndChanges ==
    ASSUME LeadInv, stage \in {"lns", "walk"}, LegalFor(Cfg, champion), KeepChampion, UNCHANGED fixedVars,
           stage' \in {"between", "done"}
    PROVE  Changes
<1>1. AtCeilingNext
  BY DEF AtCeilingNext
<1>2. CASE CompareScores(champion.score, elites[1].score) > 0
  BY <1>1, <1>2 DEF LeadInv, KeepChampion, Changes, Surpassed
<1>3. CASE ~(CompareScores(champion.score, elites[1].score) > 0)
  BY <1>1, <1>3 DEF KeepChampion, Changes, Keeps
<1>. QED  BY <1>2, <1>3

\* A phase begins with the best result, at the ceiling, as its champion.
LEMMA BeginChanges ==
    ASSUME LeadInv, AtCeiling, NEW next, NEW amount, BeginPhase(next, amount)
    PROVE  Changes
<1>1. UNCHANGED <<fixedVars, elites>> /\ champion' = elites[1]
  BY DEF BeginPhase
<1>2. PriorityCeilingReached(Cfg, elites[1].score)
  BY DEF AtCeiling
<1>. QED  BY <1>1, <1>2 DEF Changes, AtCeilingNext, Keeps

\* The steps of the repairs on the plateau.
LEMMA LNSChanges ==
    ASSUME LeadInv, LNSNext
    PROVE  Changes
<1>1. CASE Abandon
  <2>1. canceled /\ elites' = <<>> /\ stage' = "done" /\ UNCHANGED fixedVars
    BY <1>1 DEF Abandon
  <2>. QED  BY <2>1 DEF Changes, AtCeilingNext, Empties
<1>2. CASE StartLNS
  BY <1>2, BeginChanges DEF StartLNS
<1>3. CASE PassLevel \/ StartLevel \/ PassOpportunity \/ StartOpportunity \/ EndLevel
  <2>1. UNCHANGED <<fixedVars, stage, elites, champion>>
    BY <1>3 DEF PassLevel, StartLevel, PassOpportunity, StartOpportunity, Start, EndLevel,
                repairVars, roundVars, lnsVars
  <2>. QED  BY <2>1, QuietChange
<1>4. CASE EndOpportunity
  <2>1. stage = "lns" /\ Searched /\ UNCHANGED <<fixedVars, stage, elites>>
    BY <1>4 DEF EndOpportunity
  <2>2. champion' = BestOf(champion, Merged)
    BY Zenon, <1>4 DEF EndOpportunity, BestOf
  <2>3. PriorityCeilingReached(Cfg, champion.score) /\ IsSequence(Merged)
    BY <2>1, SearchedIsLegal DEF LeadInv, LegalSeq
  <2>4. PriorityCeilingReached(Cfg, champion'.score)
    BY <2>2, <2>3, BestAtCeiling
  <2>. QED  BY <2>1, <2>4 DEF Changes, AtCeilingNext, Keeps
<1>5. CASE EndLNS
  <2>1. stage = "lns" /\ KeepChampion /\ UNCHANGED fixedVars /\ stage' \in {"between", "done"}
    BY <1>5 DEF EndLNS
  <2>2. LegalFor(Cfg, champion)
    BY <2>1 DEF LeadInv, AllIsLegal, LNSIsLegal
  <2>. QED  BY <2>1, <2>2, EndChanges
<1>. QED  BY <1>1, <1>2, <1>3, <1>4, <1>5 DEF LNSNext

\* The steps of the walk.
LEMMA PlateauChanges ==
    ASSUME LeadInv, PlateauNext
    PROVE  Changes
<1>1. CASE StartWalk
  BY <1>1, BeginChanges DEF StartWalk
<1>2. CASE NoWalk
  <2>1. UNCHANGED <<fixedVars, elites>> /\ stage' = "done"
    BY <1>2 DEF NoWalk, roundVars
  <2>. QED  BY <2>1 DEF Changes, AtCeilingNext, Keeps
<1>3. CASE Leave
  <2>1. UNCHANGED <<fixedVars, stage, elites, champion>>
    BY <1>3 DEF Leave, repairVars, roundVars, lnsVars
  <2>. QED  BY <2>1, QuietChange
<1>4. CASE TryMove
  <2>1. stage = "walk" /\ UNCHANGED <<fixedVars, stage, elites>>
    BY <1>4 DEF TryMove, Stepping
  <2>2. PICK s \in {Solution(Head(moves).layout, Cfg)} :
            IF PriorityCeilingReached(Cfg, s.score) THEN Arrive(s, Head(moves).depth)
            ELSE UNCHANGED <<champion, archive, observed, walkers, visited>>
    BY <1>4 DEF TryMove
  <2>3. PriorityCeilingReached(Cfg, champion.score)
    BY <2>1 DEF LeadInv
  <2>4. PriorityCeilingReached(Cfg, champion'.score)
    <3>1. CASE PriorityCeilingReached(Cfg, s.score)
      BY <2>2, <2>3, <3>1 DEF Arrive
    <3>2. CASE ~PriorityCeilingReached(Cfg, s.score)
      BY <2>2, <2>3, <3>2
    <3>. QED  BY <3>1, <3>2
  <2>. QED  BY <2>1, <2>4 DEF Changes, AtCeilingNext, Keeps
<1>5. CASE EndWalk
  <2>1. stage = "walk" /\ KeepChampion /\ UNCHANGED fixedVars /\ stage' \in {"between", "done"}
    BY <1>5 DEF EndWalk
  <2>2. LegalFor(Cfg, champion)
    BY <2>1 DEF LeadInv, AllIsLegal, StepsAreLegal
  <2>. QED  BY <2>1, <2>2, EndChanges
<1>. QED  BY <1>1, <1>2, <1>3, <1>4, <1>5 DEF PlateauNext

\* Every step.
LEMMA NextChanges ==
    ASSUME LeadInv, [Next]_vars
    PROVE  Changes
<1>1. CASE RepairNext /\ UNCHANGED <<used, budget, lnsVars, stepVars>>
  BY <1>1, RepairChanges
<1>2. CASE UNCHANGED vars
  <2>1. UNCHANGED <<fixedVars, stage, elites, champion>>
    BY <1>2 DEF vars, repairVars, roundVars, lnsVars
  <2>. QED  BY <2>1, QuietChange
<1>. QED  BY <1>1, <1>2, LNSChanges, PlateauChanges DEF Next

\* What every change does to the first of the results.
LEMMA LeadAfter ==
    ASSUME LeadInv, Changes
    PROVE  /\ Leads(elites')
           /\ elites # <<>> /\ elites' # elites =>
                 \/ canceled
                 \/ stage = "repair" /\ ~SolutionLess(elites[1], elites'[1])
                 \/ /\ CompareScores(elites'[1].score, elites[1].score) > 0
                    /\ PriorityCeilingReached(Cfg, elites'[1].score)
<1>0. PreparedIs /\ LegalSeq(Cfg, elites) /\ Leads(elites)
  BY DEF LeadInv, AllIsLegal, IInv, ListsAreLegal
<1>1. CASE Keeps
  BY <1>0, <1>1 DEF Keeps
<1>2. CASE Empties
  <2>1. Leads(<<>>)
    BY DEF Leads
  <2>. QED  BY <1>2, <2>1 DEF Empties
<1>3. CASE Repairs
  <2>1. LegalSeq(Cfg, Merged)
    BY <1>3, SearchedIsLegal DEF Repairs, LeadInv
  <2>2. /\ Leads(MergeSolutions(elites, Merged, Limit))
        /\ elites # <<>> => ~SolutionLess(elites[1], MergeSolutions(elites, Merged, Limit)[1])
    BY <1>0, <2>1, JoinedLead
  <2>. QED  BY <1>3, <2>2 DEF Repairs
<1>4. CASE Surpassed
  <2>1. /\ PriorityCeilingReached(Cfg, champion.score) /\ LegalFor(Cfg, champion)
        /\ CompareScores(champion.score, elites[1].score) > 0
        /\ elites' = MergeSolutions(elites, <<champion>>, Limit)
    BY <1>4 DEF Surpassed
  <2>2. LegalSeq(Cfg, <<champion>>)
    BY <2>1, OneLegal
  <2>3. Leads(MergeSolutions(elites, <<champion>>, Limit))
    BY <1>0, <2>2, JoinedLead
  <2>4. elites # <<>> => MergeSolutions(elites, <<champion>>, Limit)[1] = champion
    BY <1>0, <2>1, <2>2, JoinedLead
  <2>. QED  BY <2>1, <2>3, <2>4
<1>. QED  BY <1>1, <1>2, <1>3, <1>4 DEF Changes

\* Every step keeps the results led by the best of them.
LEMMA NextKeepsLead ==
    LeadInv /\ [Next]_vars => LeadInv'
<1>. SUFFICES ASSUME LeadInv, [Next]_vars PROVE LeadInv'
  OBVIOUS
<1>1. Changes
  BY NextChanges
<1>2. AllIsLegal'
  BY NextIsLegal DEF LeadInv
<1>3. Leads(elites')
  BY <1>1, LeadAfter
<1>4. Cfg' = Cfg
  BY <1>1, ConfigStays DEF Changes
<1>5. (stage \in {"lns", "walk"} => PriorityCeilingReached(Cfg, champion.score))'
  BY <1>1, <1>4 DEF Changes, AtCeilingNext
<1>6. Leads(elites)'
  BY <1>3 DEF Leads
<1>. QED  BY <1>2, <1>5, <1>6 DEF LeadInv

\* The inductive invariant of the best result: with that of legality, whose layouts
\* have scores and keys that can be compared, no result comes before the first, and
\* the champion of a phase is at the ceiling.
THEOREM LeadInvariant == Spec => []LeadInv
BY LeadAtFirst, NextKeepsLead, PTL DEF Spec

\* The best result is never given up for a worse one: repair may only replace it by
\* one that is no worse, a phase on the plateau only by one with a better score and
\* with every priority at its ceiling. It takes that solutionLess is an order, for
\* every catalog and configuration, that inserting from the back sorts by it, and
\* that cutting the list off leaves its first.
THEOREM OnlyBetterHolds == Spec => OnlyBetterReplaces
<1>1. LeadInv /\ [Next]_vars =>
          [elites # <<>> /\ elites' # elites =>
              \/ canceled
              \/ stage = "repair" /\ ~SolutionLess(elites[1], elites'[1])
              \/ /\ CompareScores(elites'[1].score, elites[1].score) > 0
                 /\ PriorityCeilingReached(Cfg, elites'[1].score)]_vars
  BY NextChanges, LeadAfter
<1>. QED  BY <1>1, LeadInvariant, PTL DEF Spec, OnlyBetterReplaces
=============================================================================
