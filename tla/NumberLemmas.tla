---------------------------- MODULE NumberLemmas ----------------------------
(***************************************************************************)
(* Facts about natural numbers that the proofs about budgets, counters and *)
(* merged results share: division, induction, and the existence of         *)
(* functions defined by recursion up to a bound.  Induction and recursion  *)
(* are stated over sets and functions.                                     *)
(***************************************************************************)
EXTENDS Integers, WellFoundedInduction, TLAPS

\* Quotient and remainder are unique.
LEMMA DivisionUnique ==
    ASSUME NEW m \in Nat \ {0}, NEW q \in Int, NEW r \in Int,
           NEW a \in 0..(m - 1), NEW b \in 0..(m - 1),
           (m * q) + a = (m * r) + b
    PROVE  q = r /\ a = b
<1>1. CASE q = r
  BY <1>1
<1>2. CASE q > r
  <2>1. m * (q - r) >= m * 1
    BY <1>2
  <2>2. m * (q - r) = b - a
    OBVIOUS
  <2>. QED  BY <2>1, <2>2
<1>3. CASE r > q
  <2>1. m * (r - q) >= m * 1
    BY <1>3
  <2>2. m * (r - q) = a - b
    OBVIOUS
  <2>. QED  BY <2>1, <2>2
<1>. QED  BY <1>1, <1>2, <1>3

LEMMA Division ==
    ASSUME NEW n \in Nat, NEW m \in Nat \ {0}
    PROVE  /\ n = (m * (n \div m)) + (n % m)
           /\ n \div m \in Nat /\ n % m \in 0..(m - 1)
BY SMT

\* The remainder of a counter goes up by one, or back to zero.
LEMMA NextRemainder ==
    ASSUME NEW n \in Nat, NEW m \in Nat \ {0}
    PROVE  (n + 1) % m = IF n % m = m - 1 THEN 0 ELSE (n % m) + 1
<1>. DEFINE q == n \div m
            a == n % m
            r == (n + 1) \div m
            b == (n + 1) % m
<1>1. n = (m * q) + a /\ q \in Nat /\ a \in 0..(m - 1)
  BY Division
<1>2. n + 1 = (m * r) + b /\ r \in Nat /\ b \in 0..(m - 1)
  <2>1. n + 1 \in Nat
    OBVIOUS
  <2>. QED  BY <2>1, Division
<1>. HIDE DEF q, a, r, b
<1>3. CASE a = m - 1
  <2>1. (m * (q + 1)) + 0 = (m * r) + b
    BY <1>1, <1>2, <1>3
  <2>2. b = 0
    BY <2>1, <1>1, <1>2, DivisionUnique
  <2>. QED  BY <2>2, <1>3 DEF a, b
<1>4. CASE a # m - 1
  <2>1. (m * q) + (a + 1) = (m * r) + b /\ a + 1 \in 0..(m - 1)
    BY <1>1, <1>2, <1>4
  <2>2. b = a + 1
    BY <2>1, <1>1, <1>2, DivisionUnique
  <2>. QED  BY <2>2, <1>4 DEF a, b
<1>. QED  BY <1>3, <1>4

\* A positive factor cancels.
LEMMA FactorCancels ==
    ASSUME NEW t \in Nat \ {0}, NEW a \in Int, NEW b \in Int, t * a <= t * b
    PROVE  a <= b
<1>. SUFFICES ASSUME b < a PROVE FALSE
  OBVIOUS
<1>1. t * (a - b) >= t * 1
  OBVIOUS
<1>2. t * (a - b) = (t * a) - (t * b)
  OBVIOUS
<1>. QED  BY <1>1, <1>2
-----------------------------------------------------------------------------
\* Every set of naturals has a least element.
LEMMA LeastNatural ==
    ASSUME NEW T \in SUBSET Nat, T # {}
    PROVE  \E m \in T : \A n \in T : m <= n
<1>. DEFINE R == OpToRel(<, Nat)
<1>1. \A x, y \in Nat : <<x, y>> \in R <=> x < y
  BY DEF OpToRel
<1>2. IsWellFoundedOn(R, Nat)
  BY NatLessThanWellFounded
<1>. HIDE DEF R
<1>3. PICK m \in T : \A n \in T : ~ (<<n, m>> \in R)
  BY <1>2, WFMin
<1>4. ASSUME NEW n \in T PROVE m <= n
  <2>1. m \in Nat /\ n \in Nat
    OBVIOUS
  <2>2. ~ (n < m)
    BY <2>1, <1>1, <1>3
  <2>. QED  BY <2>1, <2>2
<1>. QED  BY <1>4

\* Induction up to n, for the set T of the numbers with some property.
LEMMA InductionUpTo ==
    ASSUME NEW n \in Nat, NEW T, 0 \in T,
           \A k \in 0..(n - 1) : k \in T => k + 1 \in T
    PROVE  0..n \subseteq T
<1>. DEFINE U == (0..n) \ T
<1>1. SUFFICES ASSUME U # {} PROVE FALSE
  OBVIOUS
<1>2. PICK m \in U : \A k \in U : m <= k
  <2>1. U \in SUBSET Nat
    OBVIOUS
  <2>. QED  BY <1>1, <2>1, LeastNatural
<1>3. m \in 1..n /\ m - 1 \in 0..(n - 1) /\ m - 1 \notin U
  BY <1>2
<1>4. m - 1 \in T
  BY <1>3
<1>5. (m - 1) + 1 \in T
  BY <1>3, <1>4
<1>. QED  BY <1>2, <1>5

\* A set of numbers up to n has a greatest element.
LEMMA GreatestUpTo ==
    ASSUME NEW n \in Nat, NEW T \in SUBSET (0..n), T # {}
    PROVE  \E m \in T : \A k \in T : k <= m
<1>. DEFINE U == {n - k : k \in T}
<1>1. PICK d \in U : \A e \in U : d <= e
  <2>1. U \in SUBSET Nat /\ U # {}
    OBVIOUS
  <2>. QED  BY <2>1, LeastNatural
<1>2. PICK m \in T : d = n - m
  OBVIOUS
<1>3. ASSUME NEW k \in T PROVE k <= m
  <2>1. n - k \in U /\ k \in 0..n /\ m \in 0..n
    OBVIOUS
  <2>2. n - m <= n - k
    BY <2>1, <1>1, <1>2
  <2>. QED  BY <2>1, <2>2
<1>. QED  BY <1>3

\* f starts with base, and its value at k is g[<<its value at k - 1, k>>].
Recursion(f, n, S, base, g) ==
    /\ f \in [0..n -> S] /\ f[0] = base
    /\ \A k \in 1..n : f[k] = g[<<f[k - 1], k>>]

LEMMA RecursionDefined ==
    ASSUME NEW n \in Nat, NEW S, NEW base \in S, NEW g \in [S \X (1..n) -> S]
    PROVE  \E f : Recursion(f, n, S, base, g)
<1>. DEFINE T == {m \in 0..n : \E f : Recursion(f, m, S, base, g)}
<1>1. 0 \in T
  <2>1. Recursion([k \in 0..0 |-> base], 0, S, base, g)
    BY DEF Recursion
  <2>2. \E f : Recursion(f, 0, S, base, g)
    BY <2>1
  <2>. QED  BY <2>2
<1>2. ASSUME NEW m \in 0..(n - 1), m \in T
      PROVE  m + 1 \in T
  <2>1. PICK f : Recursion(f, m, S, base, g)
    BY <1>2
  <2>. DEFINE h == [k \in 0..(m + 1) |-> IF k = m + 1 THEN g[<<f[m], k>>] ELSE f[k]]
  <2>2. f \in [0..m -> S] /\ g[<<f[m], m + 1>>] \in S
    BY <2>1 DEF Recursion
  <2>3. h \in [0..(m + 1) -> S] /\ h[0] = base
    BY <2>1, <2>2 DEF Recursion
  <2>4. ASSUME NEW k \in 1..(m + 1)
        PROVE  h[k] = g[<<h[k - 1], k>>]
    <3>1. CASE k = m + 1
      BY <3>1
    <3>2. CASE k # m + 1
      BY <2>1, <3>2 DEF Recursion
    <3>. QED  BY <3>1, <3>2
  <2>. HIDE DEF h
  <2>5. Recursion(h, m + 1, S, base, g)
    BY <2>3, <2>4 DEF Recursion
  <2>6. \E e : Recursion(e, m + 1, S, base, g)
    BY <2>5
  <2>. QED  BY <2>6
<1>3. n \in T
  <2>. HIDE DEF T
  <2>1. 0..n \subseteq T
    BY <1>1, <1>2, InductionUpTo
  <2>. QED  BY <2>1
<1>. QED  BY <1>3

\* A function on 0..n that obeys the equations of a recursion is the function
\* the recursion defines.
LEMMA RecursionHolds ==
    ASSUME NEW n \in Nat, NEW S, NEW base \in S, NEW g \in [S \X (1..n) -> S],
           NEW f, f = [k \in 0..n |-> f[k]], f[0] = base,
           \A k \in 1..n : f[k - 1] \in S => f[k] = g[<<f[k - 1], k>>]
    PROVE  Recursion(f, n, S, base, g)
<1>. DEFINE T == {k \in 0..n : f[k] \in S}
<1>1. 0 \in T
  OBVIOUS
<1>2. ASSUME NEW k \in 0..(n - 1), k \in T
      PROVE  k + 1 \in T
  <2>1. k + 1 \in 1..n /\ (k + 1) - 1 = k /\ f[k] \in S
    BY <1>2
  <2>2. f[k + 1] = g[<<f[k], k + 1>>] /\ <<f[k], k + 1>> \in S \X (1..n)
    BY <2>1
  <2>. QED  BY <2>1, <2>2
<1>3. 0..n \subseteq T
  <2>. HIDE DEF T
  <2>. QED  BY <1>1, <1>2, InductionUpTo
<1>4. \A k \in 0..n : f[k] \in S
  BY <1>3
<1>5. f \in [0..n -> S]
  BY <1>4
<1>6. \A k \in 1..n : f[k - 1] \in S
  BY <1>4
<1>. QED  BY <1>5, <1>6 DEF Recursion
=============================================================================
