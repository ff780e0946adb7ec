-------------------------- MODULE NodeBudgetProofs --------------------------
(***************************************************************************)
(* Proofs about the budget of a search: NodeLedger, which every task pays  *)
(* its nodes from, and TaskBudgets, which divides them among the roots.    *)
(*                                                                         *)
(* For every set of tasks, every stage table and every limit, the ledger   *)
(* never overspends either lane and keeps them apart.  The inductive       *)
(* invariant is TypeOK /\ CountersMatch /\ NoOverspend                     *)
(* /\ DiagnosticBounded: the guards compare counters, the promise is about *)
(* sets of nodes, and CountersMatch ties the two.                          *)
(*                                                                         *)
(* For every tree, number of workers, budget and policy, the roots'        *)
(* budgets add up to the budget of the search exactly, none of them is     *)
(* starved, and there are no more roots than the workers are meant to      *)
(* handle.  Three things have to be shown.  The split is affordable        *)
(* because the depth chosen is one whose estimate was tested, and the      *)
(* roots are at most as many as estimated.  What equal division leaves     *)
(* over is less than one node a root.  And so is what the division by      *)
(* weight leaves over, since every rounding loses less than one node: then *)
(* the loop that hands it out one by one ends within one round.            *)
(***************************************************************************)
EXTENDS NodeLedger, TaskBudgets, NumberLemmas, FiniteSetTheorems, TLAPS

IInv == TypeOK /\ CountersMatch /\ NoOverspend /\ DiagnosticBounded

\* Paying for one more node of a finite set adds one to the count, and to the
\* count of its own stage only.
LEMMA GrantCounts ==
    ASSUME NEW S \in SUBSET Node, NEW n \in Node \ S, NEW s \in Stages
    PROVE  /\ Cardinality(S) \in Nat
           /\ Cardinality(S \cup {n}) = Cardinality(S) + 1
           /\ Cardinality(OfStage(S, s)) \in Nat
           /\ Cardinality(OfStage(S \cup {n}, s)) =
                 IF StageOf[n] = s THEN Cardinality(OfStage(S, s)) + 1
                                   ELSE Cardinality(OfStage(S, s))
<1>1. IsFiniteSet(S)
  BY FS_Subset, LedgerAssumption DEF LedgerAssumption
<1>2. IsFiniteSet(OfStage(S, s))
  BY <1>1, FS_Subset DEF OfStage
<1>3. Cardinality(S) \in Nat /\ Cardinality(S \cup {n}) = Cardinality(S) + 1
  BY <1>1, FS_AddElement, FS_CardinalityType
<1>4. Cardinality(OfStage(S, s)) \in Nat
  BY <1>2, FS_CardinalityType
<1>5. CASE StageOf[n] = s
  <2>1. OfStage(S \cup {n}, s) = OfStage(S, s) \cup {n}
    BY <1>5 DEF OfStage
  <2>2. n \notin OfStage(S, s)
    BY DEF OfStage
  <2>3. Cardinality(OfStage(S, s) \cup {n}) =
           Cardinality(OfStage(S, s)) + 1
    BY <1>2, <2>2, FS_AddElement
  <2>. QED  BY <1>3, <1>4, <1>5, <2>1, <2>3
<1>6. CASE StageOf[n] # s
  <2>1. OfStage(S \cup {n}, s) = OfStage(S, s)
    BY <1>6 DEF OfStage
  <2>. QED  BY <1>3, <1>4, <1>6, <2>1
<1>. QED  BY <1>5, <1>6

LEMMA InitIInv == Init => IInv
<1>. SUFFICES ASSUME Init PROVE IInv
  OBVIOUS
<1>1. \A s \in Stages : OfStage({}, s) = {}
  BY DEF OfStage
<1>2. Cardinality({}) = 0
  BY FS_EmptySet
<1>3. TypeOK
  BY LedgerAssumption DEF Init, TypeOK, LedgerAssumption
<1>4. CountersMatch
  BY <1>1, <1>2 DEF Init, CountersMatch
<1>5. NoOverspend
  <2>1. spent = {} /\ MaxNodes \in Nat /\ StageLimit \in [Stages -> Nat]
    BY LedgerAssumption DEF Init, LedgerAssumption
  <2>. QED  BY <1>1, <1>2, <2>1 DEF NoOverspend, WithinBudget
<1>6. DiagnosticBounded
  BY <1>2, LedgerAssumption DEF Init, DiagnosticBounded, LedgerAssumption
<1>. QED  BY <1>3, <1>4, <1>5, <1>6 DEF IInv

LEMMA GrantIInv ==
    ASSUME IInv, NEW n \in Node, Grant(n)
    PROVE  IInv'
<1>. USE LedgerAssumption DEF LedgerAssumption
<1>1. n \in Node \ spent /\ spent \subseteq Node /\ spent' = spent \cup {n}
  BY DEF Grant, IInv, TypeOK
<1>2. TypeOK'
  BY DEF Grant, Charge, IInv, TypeOK, diagnostic
<1>3. CountersMatch'
  <2>1. charged' = Cardinality(spent')
    BY <1>1, GrantCounts, StageOf[n] \in Stages
    DEF Grant, Charge, IInv, TypeOK, CountersMatch
  <2>2. ASSUME NEW s \in Stages
        PROVE  stageCharged'[s] = Cardinality(OfStage(spent', s))
    <3>1. stageCharged'[s] = IF StageOf[n] = s THEN stageCharged[s] + 1
                                               ELSE stageCharged[s]
      BY DEF Grant, Charge, IInv, TypeOK
    <3>2. stageCharged[s] = Cardinality(OfStage(spent, s))
      BY DEF IInv, CountersMatch
    <3>3. Cardinality(OfStage(spent \cup {n}, s)) =
             IF StageOf[n] = s THEN Cardinality(OfStage(spent, s)) + 1
                               ELSE Cardinality(OfStage(spent, s))
      BY <1>1, GrantCounts
    <3>. QED  BY <1>1, <3>1, <3>2, <3>3
  <2>. QED
    BY <2>1, <2>2 DEF Grant, IInv, CountersMatch, diagnostic
<1>4. NoOverspend'
  <2>1. MaxNodes > 0 => Cardinality(spent') <= MaxNodes
    BY <1>3, <1>2 DEF Grant, Charge, CanCharge, GlobalRefuses, IInv, TypeOK,
                      CountersMatch
  <2>2. ASSUME NEW s \in Stages, StageLimit[s] > 0
        PROVE  Cardinality(OfStage(spent', s)) <= StageLimit[s]
    <3>1. CASE s = StageOf[n]
      BY <1>3, <1>2, <2>2, <3>1
      DEF Grant, Charge, CanCharge, StageRefuses, IInv, TypeOK, CountersMatch
    <3>2. CASE s # StageOf[n]
      BY <1>1, <2>2, <3>2, GrantCounts
      DEF IInv, NoOverspend, WithinBudget
    <3>. QED  BY <3>1, <3>2
  <2>. QED  BY <2>1, <2>2 DEF NoOverspend, WithinBudget
<1>5. DiagnosticBounded'
  BY DEF Grant, IInv, DiagnosticBounded, diagnostic
<1>. QED  BY <1>2, <1>3, <1>4, <1>5 DEF IInv

LEMMA GrantDiagnosticIInv ==
    ASSUME IInv, NEW n \in Node, GrantDiagnostic(n)
    PROVE  IInv'
<1>. USE LedgerAssumption DEF LedgerAssumption
<1>1. /\ n \in Node \ diagnosticSpent /\ diagnosticSpent \subseteq Node
      /\ diagnosticSpent' = diagnosticSpent \cup {n}
  BY DEF GrantDiagnostic, IInv, TypeOK
<1>2. TypeOK'
  BY DEF GrantDiagnostic, ChargeDiagnostic, IInv, TypeOK, normal
<1>3. CountersMatch'
  <2>1. diagnosticCharged' = Cardinality(diagnosticSpent')
    BY <1>1, GrantCounts, StageOf[n] \in Stages
    DEF GrantDiagnostic, ChargeDiagnostic, IInv, TypeOK, CountersMatch
  <2>2. ASSUME NEW s \in Stages
        PROVE  diagnosticStageCharged'[s] =
                  Cardinality(OfStage(diagnosticSpent', s))
    <3>1. diagnosticStageCharged'[s] =
             IF StageOf[n] = s THEN diagnosticStageCharged[s] + 1
                               ELSE diagnosticStageCharged[s]
      BY DEF GrantDiagnostic, ChargeDiagnostic, IInv, TypeOK
    <3>2. diagnosticStageCharged[s] =
             Cardinality(OfStage(diagnosticSpent, s))
      BY DEF IInv, CountersMatch
    <3>3. Cardinality(OfStage(diagnosticSpent \cup {n}, s)) =
             IF StageOf[n] = s
             THEN Cardinality(OfStage(diagnosticSpent, s)) + 1
             ELSE Cardinality(OfStage(diagnosticSpent, s))
      BY <1>1, GrantCounts
    <3>. QED  BY <1>1, <3>1, <3>2, <3>3
  <2>. QED
    BY <2>1, <2>2 DEF GrantDiagnostic, IInv, CountersMatch, normal
<1>4. DiagnosticBounded'
  BY <1>2, <1>3
  DEF GrantDiagnostic, ChargeDiagnostic, DiagnosticRefuses, IInv, TypeOK,
      CountersMatch, DiagnosticBounded
<1>5. NoOverspend'
  BY DEF GrantDiagnostic, IInv, NoOverspend, normal, WithinBudget,
         OfStage
<1>. QED  BY <1>2, <1>3, <1>4, <1>5 DEF IInv

LEMMA ConfigureIInv ==
    ASSUME IInv, NEW q \in DiagnosticQuotas, ConfigureDiagnosticMax(q)
    PROVE  IInv'
<1>. USE LedgerAssumption DEF LedgerAssumption
<1>1. TypeOK'
  BY DEF ConfigureDiagnosticMax, IInv, TypeOK
<1>2. CountersMatch' /\ NoOverspend'
  BY DEF ConfigureDiagnosticMax, IInv, CountersMatch, NoOverspend,
         WithinBudget, OfStage
<1>3. DiagnosticBounded'
  BY <1>1 DEF ConfigureDiagnosticMax, IInv, TypeOK, CountersMatch,
              DiagnosticBounded
<1>. QED  BY <1>1, <1>2, <1>3 DEF IInv

LEMMA StutterIInv == IInv /\ UNCHANGED vars => IInv'
BY DEF IInv, vars, TypeOK, CountersMatch, NoOverspend, DiagnosticBounded,
       WithinBudget, OfStage

\* Both lanes stay within their limits in every reachable state.
THEOREM Invariant == Spec => []IInv
<1>1. IInv /\ [Next]_vars => IInv'
  <2>. SUFFICES ASSUME IInv, [Next]_vars PROVE IInv'
    OBVIOUS
  <2>1. CASE \E n \in Node : Grant(n)
    BY <2>1, GrantIInv
  <2>2. CASE \E n \in Node : GrantDiagnostic(n)
    BY <2>2, GrantDiagnosticIInv
  <2>3. CASE \E q \in DiagnosticQuotas : ConfigureDiagnosticMax(q)
    BY <2>3, ConfigureIInv
  <2>4. CASE UNCHANGED vars
    BY <2>4, StutterIInv
  <2>. QED  BY <2>1, <2>2, <2>3, <2>4 DEF Next
<1>. QED  BY InitIInv, <1>1, PTL DEF Spec

\* Parallel tasks cannot overspend the execution budget or a stage's budget,
\* whatever the tasks, the stages and the limits (ledger.go:5-7).
THEOREM BudgetNeverOverspent == Spec => []NoOverspend
<1>1. IInv => NoOverspend
  BY DEF IInv
<1>. QED  BY Invariant, <1>1, PTL

\* The probes never spend more than the quota the lane was configured with.
THEOREM DiagnosticNeverOverspent == Spec => []DiagnosticBounded
<1>1. IInv => DiagnosticBounded
  BY DEF IInv
<1>. QED  BY Invariant, <1>1, PTL

\* No step of the ledger moves both lanes, and no step changes a diagnostic
\* limit that is already set.
THEOREM LanesStaySeparate == Spec => LanesSeparate
<1>1. IInv /\ [Next]_vars =>
        [ /\ normal' = normal \/ diagnostic' = diagnostic
          /\ diagnosticMax # 0 => diagnosticMax' = diagnosticMax ]_vars
  BY DEF Next, Grant, GrantDiagnostic, ConfigureDiagnosticMax, normal,
         diagnostic, vars
<1>. QED  BY Invariant, <1>1, PTL DEF Spec, LanesSeparate
-----------------------------------------------------------------------------
(* The division among the roots.                                           *)

\* The recursion of PartialSums.
LEMMA PartialSumsStep ==
    ASSUME NEW s \in Seq(Int)
    PROVE  /\ PartialSums(s) \in [0..Len(s) -> Int]
           /\ PartialSums(s)[0] = 0
           /\ \A k \in 1..Len(s) : PartialSums(s)[k] = PartialSums(s)[k - 1] + s[k]
<1>. DEFINE n == Len(s)
            g == [p \in Int \X (1..n) |-> p[1] + s[p[2]]]
            Sums(f) == f = [k \in 0..n |-> IF k = 0 THEN 0 ELSE f[k - 1] + s[k]]
            P == CHOOSE h : Sums(h)
<1>1. n \in Nat /\ \A k \in 1..n : s[k] \in Int
  OBVIOUS
<1>2. PICK f : Recursion(f, n, Int, 0, g)
  <2>1. g \in [Int \X (1..n) -> Int] /\ 0 \in Int
    BY <1>1
  <2>. HIDE DEF g, n
  <2>. QED  BY <1>1, <2>1, RecursionDefined
<1>3. Sums(f)
  <2>0. /\ f \in [0..n -> Int] /\ f[0] = 0
        /\ \A k \in 1..n : f[k] = g[<<f[k - 1], k>>]
    BY <1>2 DEF Recursion
  <2>1. \A k \in 1..n : <<f[k - 1], k>> \in Int \X (1..n)
    <3>. TAKE k \in 1..n
    <3>1. k - 1 \in 0..n
      BY <1>1
    <3>. HIDE DEF n
    <3>. QED  BY <2>0, <3>1
  <2>2. \A k \in 1..n : f[k] = f[k - 1] + s[k]
    BY <1>1, <2>0, <2>1
  <2>. HIDE DEF n
  <2>3. \A k \in 0..n : k = 0 \/ k \in 1..n
    BY <1>1
  <2>4. f = [k \in 0..n |-> IF k = 0 THEN 0 ELSE f[k - 1] + s[k]]
    BY <2>0, <2>2, <2>3
  <2>. QED  BY <2>4
<1>4. PartialSums(s) = P
  BY DEF PartialSums
<1>5. Sums(P)
  <2>. HIDE DEF Sums
  <2>. QED  BY <1>3
<1>. HIDE DEF P
<1>6. /\ P[0] = 0 /\ DOMAIN P = 0..n /\ P = [k \in 0..n |-> P[k]]
      /\ \A k \in 1..n : P[k] = P[k - 1] + s[k]
  BY <1>1, <1>5
<1>7. \A k \in 0..n : P[k] \in Int
  <2>. DEFINE T == {k \in 0..n : P[k] \in Int}
  <2>1. 0 \in T
    BY <1>1, <1>6
  <2>2. ASSUME NEW k \in 0..(n - 1), k \in T
        PROVE  k + 1 \in T
    <3>1. k + 1 \in 1..n /\ P[k] \in Int /\ (k + 1) - 1 = k
      BY <1>1, <2>2
    <3>2. P[k + 1] = P[k] + s[k + 1] /\ s[k + 1] \in Int
      BY <1>1, <1>6, <3>1
    <3>. QED  BY <3>1, <3>2
  <2>. HIDE DEF T
  <2>3. 0..n \subseteq T
    BY <1>1, <2>1, <2>2, InductionUpTo
  <2>. QED  BY <2>3 DEF T
<1>8. P \in [0..n -> Int]
  BY <1>6, <1>7
<1>. QED  BY <1>4, <1>6, <1>8

LEMMA TotalType ==
    ASSUME NEW s \in Seq(Int)
    PROVE  Total(s) \in Int
BY PartialSumsStep DEF Total

\* Sums grow with the numbers summed up: f and g may be any multiples.
LEMMA SumsOfPositive ==
    ASSUME NEW s \in Seq(Nat \ {0})
    PROVE  Total(s) >= Len(s)
<1>. DEFINE n == Len(s)
            P == PartialSums(s)
            T == {k \in 0..n : P[k] >= k}
<1>1. s \in Seq(Int) /\ n \in Nat /\ \A k \in 1..n : s[k] \in Nat \ {0}
  OBVIOUS
<1>2. P \in [0..n -> Int] /\ P[0] = 0 /\ \A k \in 1..n : P[k] = P[k - 1] + s[k]
  BY <1>1, PartialSumsStep
<1>. HIDE DEF P, n
<1>3. 0 \in T
  BY <1>1, <1>2
<1>4. ASSUME NEW k \in 0..(n - 1), k \in T
      PROVE  k + 1 \in T
  <2>1. k + 1 \in 1..n /\ (k + 1) - 1 = k /\ P[k] \in Int /\ P[k] >= k
    BY <1>1, <1>2, <1>4
  <2>2. P[k + 1] = P[k] + s[k + 1] /\ s[k + 1] \in Nat \ {0}
    BY <1>1, <1>2, <2>1
  <2>. QED  BY <2>1, <2>2
<1>. HIDE DEF T
<1>5. 0..n \subseteq T
  BY <1>1, <1>3, <1>4, InductionUpTo
<1>6. n \in T
  BY <1>1, <1>5
<1>. QED  BY <1>6 DEF T, P, n, Total
-----------------------------------------------------------------------------
(* Nodes that go round one by one. *)

LEMMA RoundRobinIs ==
    ASSUME NEW n \in Nat \ {0}, NEW rest \in 0..(n - 1), NEW i \in 1..n
    PROVE  RoundRobin(rest, n, i) = IF i <= rest THEN 1 ELSE 0
<1>. DEFINE x == rest + n - i
            q == x \div n
            a == x % n
<1>1. x \in Nat
  OBVIOUS
<1>2. x = (n * q) + a /\ q \in Nat /\ a \in 0..(n - 1)
  BY <1>1, Division
<1>. HIDE DEF q, a
<1>3. CASE i <= rest
  <2>1. (n * q) + a = (n * 1) + (rest - i) /\ rest - i \in 0..(n - 1)
    BY <1>2, <1>3
  <2>2. q = 1
    BY <1>2, <2>1, DivisionUnique
  <2>. QED  BY <1>3, <2>2 DEF q, RoundRobin
<1>4. CASE ~(i <= rest)
  <2>1. (n * q) + a = (n * 0) + x /\ x \in 0..(n - 1)
    BY <1>2, <1>4
  <2>2. q = 0
    BY <1>2, <2>1, DivisionUnique
  <2>. QED  BY <1>4, <2>2 DEF q, RoundRobin
<1>. QED  BY <1>3, <1>4

\* Everybody gets c, a share of their own, and rest nodes go round.
GoesRound(b, c, s, rest, n) ==
    \A i \in 1..n : b[i] = c + s[i] + RoundRobin(rest, n, i)

\* Less than one round adds exactly rest to the sum.
LEMMA RoundRobinSum ==
    ASSUME NEW n \in Nat \ {0}, NEW rest \in 0..(n - 1), NEW c \in Int,
           NEW s \in Seq(Int), Len(s) = n,
           NEW b \in Seq(Int), Len(b) = n,
           GoesRound(b, c, s, rest, n)
    PROVE  Total(b) = (c * n) + Total(s) + rest
<1>. DEFINE P == PartialSums(s)
            Q == PartialSums(b)
            T == {k \in 0..n : Q[k] = (c * k) + P[k] + SmallerOf(k, rest)}
<1>1. P \in [0..n -> Int] /\ P[0] = 0 /\ \A k \in 1..n : P[k] = P[k - 1] + s[k]
  BY PartialSumsStep
<1>2. Q \in [0..n -> Int] /\ Q[0] = 0 /\ \A k \in 1..n : Q[k] = Q[k - 1] + b[k]
  BY PartialSumsStep
<1>. HIDE DEF P, Q
<1>3. 0 \in T
  <2>1. c * 0 = 0 /\ SmallerOf(0, rest) = 0
    BY DEF SmallerOf
  <2>. QED  BY <1>1, <1>2, <2>1
<1>4. ASSUME NEW k \in 0..(n - 1), k \in T
      PROVE  k + 1 \in T
  <2>1. /\ k + 1 \in 1..n /\ (k + 1) - 1 = k /\ P[k] \in Int /\ s[k + 1] \in Int
        /\ Q[k] = (c * k) + P[k] + SmallerOf(k, rest)
    BY <1>1, <1>4
  <2>2. P[k + 1] = P[k] + s[k + 1] /\ Q[k + 1] = Q[k] + b[k + 1]
    BY <1>1, <1>2, <2>1
  <2>3. b[k + 1] = c + s[k + 1] + IF k + 1 <= rest THEN 1 ELSE 0
    BY <2>1, RoundRobinIs DEF GoesRound
  <2>0. k \in Int /\ rest \in Int /\ n \in Int
    OBVIOUS
  <2>4. SmallerOf(k + 1, rest) = SmallerOf(k, rest) + IF k + 1 <= rest THEN 1 ELSE 0
    BY <2>0 DEF SmallerOf
  <2>5. c * (k + 1) = (c * k) + c /\ c * k \in Int /\ SmallerOf(k, rest) \in Int
    BY <2>0 DEF SmallerOf
  <2>6. Q[k + 1] = (c * (k + 1)) + P[k + 1] + SmallerOf(k + 1, rest)
    <3>. DEFINE x == c * k
                y == c * (k + 1)
                u == SmallerOf(k, rest)
                v == SmallerOf(k + 1, rest)
                d == IF k + 1 <= rest THEN 1 ELSE 0
    <3>1. y = x + c /\ x \in Int /\ u \in Int /\ d \in Int
      BY <2>5
    <3>2. v = u + d /\ b[k + 1] = c + s[k + 1] + d
      BY <2>3, <2>4
    <3>3. Q[k] = x + P[k] + u /\ P[k] \in Int /\ s[k + 1] \in Int
      BY <2>1
    <3>. HIDE DEF x, y, u, v, d
    <3>4. Q[k] + b[k + 1] = y + (P[k] + s[k + 1]) + v
      <4>. DEFINE pp == P[k]
                  ss == s[k + 1]
      <4>1. pp \in Int /\ ss \in Int
        BY <3>3
      <4>. HIDE DEF pp, ss
      <4>2. (x + pp + u) + (c + ss + d) = (x + c) + (pp + ss) + (u + d)
        BY <3>1, <4>1
      <4>. QED  BY <3>1, <3>2, <3>3, <4>2 DEF pp, ss
    <3>5. Q[k + 1] = y + P[k + 1] + v
      BY <2>2, <3>4
    <3>. QED  BY <3>5 DEF y, v
  <2>. QED  BY <2>1, <2>6
<1>. HIDE DEF T
<1>5. 0..n \subseteq T
  BY <1>3, <1>4, InductionUpTo
<1>6. n \in T
  BY <1>5
<1>. QED  BY <1>6 DEF T, P, Q, Total, SmallerOf
-----------------------------------------------------------------------------
(* What division by weight leaves over. *)

\* One step of the two sums, in their common multiples: a share loses less
\* than one node.
LEMMA RoundingStep ==
    ASSUME NEW t \in Nat \ {0}, NEW rest \in Nat, NEW w \in Nat, NEW h \in Int,
           h = (rest * w) \div t,
           NEW p \in Int, NEW q \in Int, NEW k \in Nat,
           t * p <= rest * q, rest * q <= (t * p) + (k * (t - 1))
    PROVE  /\ t * (p + h) <= rest * (q + w)
           /\ rest * (q + w) <= (t * (p + h)) + ((k + 1) * (t - 1))
<1>. DEFINE m == (rest * w) % t
            a == t * h
            b == rest * w
            x == t * p
            y == rest * q
            c == k * (t - 1)
<1>1. b \in Nat
  OBVIOUS
<1>2. b = a + m /\ m \in 0..(t - 1) /\ a \in Int
  BY <1>1, Division
<1>3. x \in Int /\ y \in Int /\ c \in Int /\ x <= y /\ y <= x + c
  OBVIOUS
<1>4. /\ t * (p + h) = x + a /\ rest * (q + w) = y + b
      /\ (k + 1) * (t - 1) = c + (t - 1)
  OBVIOUS
<1>. HIDE DEF m, a, b, x, y, c
<1>. QED  BY <1>1, <1>2, <1>3, <1>4

LEMMA SharesRoundDown ==
    ASSUME NEW w \in Seq(Nat \ {0}), NEW n \in Nat \ {0}, Len(w) = n,
           NEW rest \in Nat, NEW s \in Seq(Int), Len(s) = n,
           \A i \in 1..n : s[i] = (rest * w[i]) \div Total(w)
    PROVE  rest - Total(s) \in 0..(n - 1)
<1>. DEFINE t == Total(w)
            P == PartialSums(s)
            W == PartialSums(w)
            T == {k \in 0..n : /\ t * P[k] <= rest * W[k]
                               /\ rest * W[k] <= (t * P[k]) + (k * (t - 1))}
<1>0. w \in Seq(Int) /\ \A k \in 1..n : w[k] \in Nat \ {0} /\ s[k] \in Int
  OBVIOUS
<1>1. P \in [0..n -> Int] /\ P[0] = 0 /\ \A k \in 1..n : P[k] = P[k - 1] + s[k]
  BY PartialSumsStep
<1>2. W \in [0..n -> Int] /\ W[0] = 0 /\ \A k \in 1..n : W[k] = W[k - 1] + w[k]
  BY <1>0, PartialSumsStep
<1>3. t \in Nat \ {0} /\ W[n] = t /\ P[n] = Total(s)
  BY <1>0, SumsOfPositive, TotalType DEF Total
<1>4. \A i \in 1..n : s[i] = (rest * w[i]) \div t
  OBVIOUS
<1>. HIDE DEF t, P, W
<1>5. 0 \in T
  <2>1. t * 0 = 0 /\ rest * 0 = 0 /\ 0 * (t - 1) = 0
    BY <1>3
  <2>. QED  BY <1>1, <1>2, <2>1
<1>6. ASSUME NEW k \in 0..(n - 1), k \in T
      PROVE  k + 1 \in T
  <2>1. /\ k \in Nat /\ k + 1 \in 1..n /\ (k + 1) - 1 = k
        /\ P[k] \in Int /\ W[k] \in Int
        /\ t * P[k] <= rest * W[k] /\ rest * W[k] <= (t * P[k]) + (k * (t - 1))
    BY <1>1, <1>2, <1>6
  <2>2. /\ P[k + 1] = P[k] + s[k + 1] /\ W[k + 1] = W[k] + w[k + 1]
        /\ s[k + 1] \in Int /\ w[k + 1] \in Nat
        /\ s[k + 1] = (rest * w[k + 1]) \div t
    BY <1>0, <1>1, <1>2, <1>4, <2>1
  <2>3. /\ t * (P[k] + s[k + 1]) <= rest * (W[k] + w[k + 1])
        /\ rest * (W[k] + w[k + 1])
               <= (t * (P[k] + s[k + 1])) + ((k + 1) * (t - 1))
    BY <1>3, <2>1, <2>2, RoundingStep
  <2>. QED  BY <2>1, <2>2, <2>3
<1>. HIDE DEF T
<1>7. 0..n \subseteq T
  BY <1>5, <1>6, InductionUpTo
<1>8. n \in T
  BY <1>7
<1>. DEFINE p == P[n]
<1>9. /\ p \in Int /\ t * p <= rest * t
      /\ rest * t <= (t * p) + (n * (t - 1))
  BY <1>1, <1>3, <1>8 DEF T
<1>. HIDE DEF p
<1>10. p <= rest
  <2>1. rest * t = t * rest
    BY <1>3
  <2>. QED  BY <1>3, <1>9, <2>1, FactorCancels
<1>11. rest < p + n
  <2>. SUFFICES ASSUME p + n <= rest PROVE FALSE
    BY <1>9
  <2>1. t * (rest - (p + n)) >= t * 0
    BY <1>3, <1>9
  <2>2. /\ t * (rest - (p + n)) = (rest * t) - ((t * p) + (n * t))
        /\ n * (t - 1) = (n * t) - n /\ t * 0 = 0
        /\ t * p \in Int /\ n * t \in Int /\ rest * t \in Int
    BY <1>3, <1>9
  <2>. QED  BY <1>9, <2>1, <2>2
<1>. QED  BY <1>3, <1>9, <1>10, <1>11 DEF p
-----------------------------------------------------------------------------
(* The two divisions. *)

LEMMA TotalOfZeros ==
    ASSUME NEW s \in Seq(Int), \A i \in 1..Len(s) : s[i] = 0
    PROVE  Total(s) = 0
<1>. DEFINE n == Len(s)
            P == PartialSums(s)
            T == {k \in 0..n : P[k] = 0}
<1>1. n \in Nat /\ P[0] = 0 /\ \A k \in 1..n : P[k] = P[k - 1] + s[k] /\ s[k] = 0
  BY PartialSumsStep
<1>. HIDE DEF P, n
<1>2. 0 \in T
  BY <1>1
<1>3. ASSUME NEW k \in 0..(n - 1), k \in T
      PROVE  k + 1 \in T
  <2>1. k + 1 \in 1..n /\ (k + 1) - 1 = k /\ P[k] = 0
    BY <1>1, <1>3
  <2>2. P[k + 1] = P[k] + s[k + 1] /\ s[k + 1] = 0
    BY <1>1, <2>1
  <2>. QED  BY <1>1, <2>1, <2>2
<1>. HIDE DEF T
<1>4. 0..n \subseteq T
  BY <1>1, <1>2, <1>3, InductionUpTo
<1>5. n \in T
  BY <1>1, <1>4
<1>. QED  BY <1>5 DEF T, P, n, Total

LEMMA EqualDivision ==
    ASSUME NEW n \in Nat \ {0}, maxNodes \in Nat
    PROVE  /\ EqualBudgets(n) \in Seq(Nat) /\ Len(EqualBudgets(n)) = n
           /\ Total(EqualBudgets(n)) = maxNodes
           /\ \A i \in 1..n : EqualBudgets(n)[i] >= maxNodes \div n
<1>. DEFINE b == EqualBudgets(n)
            c == maxNodes \div n
            rest == maxNodes % n
            s == [i \in 1..n |-> 0]
<1>1. maxNodes = (n * c) + rest /\ c \in Nat /\ rest \in 0..(n - 1)
  BY Division
<1>2. s \in Seq(Int) /\ Len(s) = n /\ \A i \in 1..n : s[i] = 0
  OBVIOUS
<1>3. Total(s) = 0
  BY <1>2, TotalOfZeros
<1>4. b = [i \in 1..n |-> c + RoundRobin(rest, n, i)]
  BY DEF EqualBudgets
<1>. HIDE DEF b, c, rest, s
<1>5. \A i \in 1..n : RoundRobin(rest, n, i) \in {0, 1}
  BY <1>1, RoundRobinIs
<1>6. /\ b \in Seq(Nat) /\ b \in Seq(Int) /\ Len(b) = n
      /\ \A i \in 1..n : b[i] >= c /\ b[i] = c + s[i] + RoundRobin(rest, n, i)
  <2>1. b \in [1..n -> Nat]
    BY <1>1, <1>4, <1>5
  <2>2. b \in Seq(Nat) /\ Len(b) = n
    BY <2>1
  <2>3. \A i \in 1..n : b[i] = c + RoundRobin(rest, n, i)
    BY <1>4
  <2>4. \A i \in 1..n : b[i] >= c /\ b[i] = c + s[i] + RoundRobin(rest, n, i)
    BY <1>1, <1>2, <1>5, <2>3
  <2>. QED  BY <2>2, <2>4
<1>7. Total(b) = (c * n) + Total(s) + rest
  <2>1. c \in Int
    BY <1>1
  <2>2. GoesRound(b, c, s, rest, n)
    BY <1>6 DEF GoesRound
  <2>3. b \in Seq(Int) /\ Len(b) = n
    BY <1>6
  <2>. QED  BY <2>1, <2>2, <2>3, <1>1, <1>2, RoundRobinSum
<1>8. Total(b) = maxNodes
  BY <1>1, <1>3, <1>7
<1>. QED  BY <1>6, <1>8 DEF b, c

LEMMA WeightedDivision ==
    ASSUME NEW n \in Nat \ {0}, maxNodes \in Nat,
           weights \in Seq(Nat \ {0}), Len(weights) = n
    PROVE  /\ WeightedBudgets(n) \in Seq(Nat) /\ Len(WeightedBudgets(n)) = n
           /\ Total(WeightedBudgets(n)) = maxNodes
           /\ \A i \in 1..n : WeightedBudgets(n)[i] >= MinimumShare(n)
<1>. DEFINE b == WeightedBudgets(n)
            c == MinimumShare(n)
            rest == maxNodes - (c * n)
            s == ByWeight(rest, n)
            left == rest - Total(s)
<1>1. c \in Nat /\ rest \in Nat
  <2>1. /\ maxNodes = (n * (maxNodes \div n)) + (maxNodes % n)
        /\ maxNodes \div n \in Nat /\ maxNodes % n \in 0..(n - 1)
    BY Division
  <2>2. MinPerTask \in Nat \ {0}
    BY TaskBudgetsAssumption DEF TaskBudgetsAssumption
  <2>3. CASE MinPerTask * n > maxNodes
    BY <2>1, <2>3 DEF MinimumShare
  <2>4. CASE ~ (MinPerTask * n > maxNodes)
    BY <2>2, <2>4 DEF MinimumShare
  <2>. QED  BY <2>3, <2>4
<1>2. /\ s \in Seq(Nat) /\ s \in Seq(Int) /\ Len(s) = n
      /\ \A i \in 1..n : s[i] = (rest * weights[i]) \div Total(weights)
  <2>1. Total(weights) \in Nat \ {0}
    <3>1. weights \in Seq(Int)
      OBVIOUS
    <3>. QED  BY <3>1, SumsOfPositive, TotalType
  <2>. HIDE DEF rest
  <2>2. \A i \in 1..n : rest * weights[i] \in Nat
    BY <1>1
  <2>3. \A i \in 1..n : (rest * weights[i]) \div Total(weights) \in Nat
    BY <2>1, <2>2, Division
  <2>4. s \in [1..n -> Nat]
    BY <2>3 DEF ByWeight
  <2>. QED  BY <2>4 DEF ByWeight
<1>3. b = [i \in 1..n |-> c + s[i] + RoundRobin(left, n, i)]
  BY DEF WeightedBudgets, Leftover
<1>. HIDE DEF b, c, rest, s
<1>4. left \in 0..(n - 1)
  BY <1>1, <1>2, SharesRoundDown
<1>5. \A i \in 1..n : RoundRobin(left, n, i) \in {0, 1}
  BY <1>4, RoundRobinIs
<1>. HIDE DEF left
<1>6. /\ b \in Seq(Nat) /\ b \in Seq(Int) /\ Len(b) = n
      /\ \A i \in 1..n : b[i] >= c /\ b[i] = c + s[i] + RoundRobin(left, n, i)
  <2>1. \A i \in 1..n : s[i] \in Nat
    BY <1>2
  <2>0. \A i \in 1..n : c + s[i] + RoundRobin(left, n, i) \in Nat
    BY <1>1, <1>5, <2>1
  <2>2. b \in [1..n -> Nat]
    BY <1>3, <2>0
  <2>3. b \in Seq(Nat) /\ Len(b) = n
    BY <2>2
  <2>4. \A i \in 1..n : b[i] = c + s[i] + RoundRobin(left, n, i)
    BY <1>3
  <2>5. \A i \in 1..n : b[i] >= c
    BY <1>1, <1>5, <2>1, <2>4
  <2>. QED  BY <2>3, <2>4, <2>5
<1>7. Total(b) = (c * n) + Total(s) + left
  <2>1. c \in Int
    BY <1>1
  <2>2. GoesRound(b, c, s, left, n)
    BY <1>6 DEF GoesRound
  <2>3. b \in Seq(Int) /\ Len(b) = n /\ s \in Seq(Int) /\ Len(s) = n
    BY <1>2, <1>6
  <2>. QED  BY <2>1, <2>2, <2>3, <1>4, RoundRobinSum
<1>8. Total(b) = maxNodes
  BY <1>1, <1>2, <1>7, TotalType DEF left, rest
<1>. QED  BY <1>6, <1>8 DEF b, c
-----------------------------------------------------------------------------
(* The split. *)

\* The inputs, which no step changes.
InputsOK ==
    /\ options \in Seq(Nat) /\ allowSkips \in BOOLEAN
    /\ maxNodes \in Nat /\ workers \in Nat \ {0}

\* A limited search is split no deeper than a depth whose estimate was tested.
SplitTested ==
    step # "split" /\ maxNodes # 0 /\ splitDepth # 0 =>
        splitDepth \in 0..Len(options) /\ FitsAt(splitDepth)

\* There are no more roots than that test allowed.
RootsAfforded ==
    step \in {"assign", "done"} =>
        /\ weights \in Seq(Nat \ {0})
        /\ maxNodes # 0 => Len(weights) <= 1 \/ Len(weights) <= AffordableTasks

Shared ==
    budgets # <<>> =>
        /\ step = "done" /\ maxNodes # 0 /\ Len(weights) # 0
        /\ budgets \in {EqualBudgets(Len(weights)), WeightedBudgets(Len(weights))}

BudgetsInv == InputsOK /\ SplitTested /\ RootsAfforded /\ Shared

LEMMA EstimateType ==
    ASSUME InputsOK, NEW depth \in 0..Len(options)
    PROVE  EstimateTaskCount(depth) \in Nat
<1>. DEFINE Counts(f) == f = [d \in 0..depth |->
                                IF d = 0 THEN 1 ELSE f[d - 1] * Branches(d)]
            g == [p \in Nat \X (1..depth) |-> p[1] * Branches(p[2])]
            P == CHOOSE h : Counts(h)
            T == {d \in 0..depth : P[d] \in Nat}
<1>1. depth \in Nat /\ \A d \in 1..depth : Branches(d) \in Nat
  <2>1. \A d \in 1..depth : options[d] \in Nat
    BY DEF InputsOK
  <2>. QED  BY <2>1 DEF Branches
<1>2. PICK f : Recursion(f, depth, Nat, 1, g)
  <2>1. g \in [Nat \X (1..depth) -> Nat] /\ 1 \in Nat
    BY <1>1
  <2>. HIDE DEF g
  <2>. QED  BY <1>1, <2>1, RecursionDefined
<1>3. Counts(f)
  <2>1. /\ f \in [0..depth -> Nat] /\ f[0] = 1
        /\ \A d \in 1..depth : f[d] = g[<<f[d - 1], d>>]
    BY <1>2 DEF Recursion
  <2>2. \A d \in 1..depth : f[d] = f[d - 1] * Branches(d)
    <3>. TAKE d \in 1..depth
    <3>1. d - 1 \in 0..depth
      BY <1>1
    <3>. QED  BY <2>1, <3>1
  <2>3. \A d \in 0..depth : d = 0 \/ d \in 1..depth
    BY <1>1
  <2>. QED  BY <2>1, <2>2, <2>3
<1>4. EstimateTaskCount(depth) = P[depth]
  BY DEF EstimateTaskCount
<1>5. Counts(P)
  <2>. HIDE DEF Counts
  <2>. QED  BY <1>3
<1>. HIDE DEF P
<1>6. P[0] = 1 /\ \A d \in 1..depth : P[d] = P[d - 1] * Branches(d)
  BY <1>1, <1>5
<1>7. 0 \in T
  BY <1>1, <1>6
<1>8. ASSUME NEW d \in 0..(depth - 1), d \in T
      PROVE  d + 1 \in T
  <2>1. d + 1 \in 1..depth /\ (d + 1) - 1 = d /\ P[d] \in Nat
    BY <1>1, <1>8
  <2>2. P[d + 1] = P[d] * Branches(d + 1) /\ Branches(d + 1) \in Nat
    BY <1>1, <1>6, <2>1
  <2>. QED  BY <2>1, <2>2
<1>. HIDE DEF T
<1>9. 0..depth \subseteq T
  BY <1>1, <1>7, <1>8, InductionUpTo
<1>10. depth \in T
  BY <1>1, <1>9
<1>. QED  BY <1>4, <1>10 DEF T

LEMMA AffordableType ==
    ASSUME InputsOK
    PROVE  /\ AffordableTasks \in Nat
           /\ AffordableTasks <= workers * MaxTasksPerWorker
           /\ AffordableTasks <= maxNodes \div MinPerTask
<1>1. MinPerTask \in Nat \ {0} /\ MaxTasksPerWorker \in Nat \ {0}
  BY TaskBudgetsAssumption DEF TaskBudgetsAssumption
<1>2. maxNodes \div MinPerTask \in Nat
  BY <1>1, Division DEF InputsOK
<1>3. workers * MaxTasksPerWorker \in Nat
  BY <1>1 DEF InputsOK
<1>. QED  BY <1>2, <1>3 DEF AffordableTasks, SmallerOf

\* initialSplitDepth returns 0 or a depth it has tested.
LEMMA SplitDepthTested ==
    ASSUME InputsOK, maxNodes # 0
    PROVE  /\ InitialSplitDepth \in 0..Len(options)
           /\ InitialSplitDepth # 0 => FitsAt(InitialSplitDepth)
<1>. DEFINE deepest == SmallerOf(MaxSplit, Len(options))
            fits == {d \in 0..deepest : \A e \in 1..d : FitsAt(e)}
<1>1. deepest \in Nat /\ deepest <= Len(options) /\ Len(options) \in Nat
  BY TaskBudgetsAssumption DEF InputsOK, TaskBudgetsAssumption, SmallerOf
<1>2. InitialSplitDepth = CHOOSE d \in fits : \A e \in fits : e <= d
  BY DEF InitialSplitDepth
<1>. HIDE DEF deepest
<1>3. fits \in SUBSET (0..deepest) /\ 0 \in fits
  BY <1>1
<1>4. \E d \in fits : \A e \in fits : e <= d
  <2>. HIDE DEF fits
  <2>1. fits # {}
    BY <1>3
  <2>. QED  BY <1>1, <1>3, <2>1, GreatestUpTo
<1>5. InitialSplitDepth \in fits
  <2>. HIDE DEF fits
  <2>. QED  BY <1>2, <1>4
<1>. QED  BY <1>1, <1>5

LEMMA InitBudgetsInv == DivisionInit => BudgetsInv
<1>. SUFFICES ASSUME DivisionInit PROVE BudgetsInv
  OBVIOUS
<1>1. options \in Seq(Nat)
  <2>1. PICK n \in 0..MaxInstances : options \in [1..n -> 0..MaxOptions]
    BY DEF DivisionInit
  <2>2. n \in Nat /\ 0..MaxOptions \subseteq Nat
    BY TaskBudgetsAssumption DEF TaskBudgetsAssumption
  <2>. QED  BY <2>1, <2>2
<1>2. InputsOK
  BY <1>1, TaskBudgetsAssumption DEF DivisionInit, InputsOK, TaskBudgetsAssumption
<1>. QED  BY <1>2 DEF DivisionInit, BudgetsInv, SplitTested, RootsAfforded, Shared

LEMMA NextBudgetsInv == BudgetsInv /\ [DivisionNext]_divisionVars => BudgetsInv'
<1>. SUFFICES ASSUME BudgetsInv, [DivisionNext]_divisionVars PROVE BudgetsInv'
  OBVIOUS
<1>. USE DEF BudgetsInv, inputs
<1>1. CASE Split
  <2>1. InputsOK' /\ UNCHANGED <<options, allowSkips, maxNodes, workers>>
    BY <1>1 DEF Split, InputsOK
  <2>2. maxNodes # 0 /\ InitialSplitDepth # 0 =>
            InitialSplitDepth \in 0..Len(options) /\ FitsAt(InitialSplitDepth)
    BY SplitDepthTested
  <2>3. SplitTested'
    BY <1>1, <2>1, <2>2
    DEF Split, SplitTested, FitsAt, EstimateTaskCount, Branches, AffordableTasks
  <2>4. RootsAfforded' /\ Shared'
    BY <1>1 DEF Split, RootsAfforded, Shared
  <2>. QED  BY <2>1, <2>3, <2>4
<1>2. CASE BuildTasks
  <2>1. InputsOK' /\ UNCHANGED <<options, allowSkips, maxNodes, workers>>
    BY <1>2 DEF BuildTasks, InputsOK
  <2>2. SplitTested'
    BY <1>2, <2>1
    DEF BuildTasks, SplitTested, FitsAt, EstimateTaskCount, Branches,
        AffordableTasks
  <2>3. PICK n \in (IF splitDepth = 0 THEN {1}
                    ELSE 0..EstimateTaskCount(splitDepth)) :
            weights' \in [1..n -> Weights]
    BY <1>2 DEF BuildTasks
  <2>4. n \in Nat
    BY <2>3
  <2>5. weights' \in Seq(Nat \ {0}) /\ Len(weights') = n
    <3>1. weights' \in [1..n -> Nat \ {0}]
      BY <2>3, TaskBudgetsAssumption DEF TaskBudgetsAssumption
    <3>. QED  BY <2>4, <3>1
  <2>6. ASSUME maxNodes # 0, n > 1
        PROVE  n <= AffordableTasks
    <3>1. splitDepth # 0 /\ n \in 0..EstimateTaskCount(splitDepth)
      BY <2>3, <2>6
    <3>2. splitDepth \in 0..Len(options) /\ FitsAt(splitDepth)
      BY <1>2, <2>6, <3>1 DEF BuildTasks, SplitTested
    <3>3. EstimateTaskCount(splitDepth) \in Nat
      BY <3>2, EstimateType
    <3>4. EstimateTaskCount(splitDepth) <= AffordableTasks
      BY <3>2 DEF FitsAt
    <3>. QED  BY <3>1, <3>3, <3>4, AffordableType
  <2>7. AffordableTasks' = AffordableTasks
    BY <2>1 DEF AffordableTasks
  <2>8. RootsAfforded'
    BY <2>1, <2>4, <2>5, <2>6, <2>7 DEF RootsAfforded
  <2>9. Shared'
    BY <1>2 DEF BuildTasks, Shared
  <2>. QED  BY <2>1, <2>2, <2>8, <2>9
<1>3. CASE AssignBudgets
  <2>1. InputsOK' /\ UNCHANGED <<options, allowSkips, maxNodes, workers, weights,
                                splitDepth>>
    BY <1>3 DEF AssignBudgets, InputsOK
  <2>2. SplitTested'
    BY <1>3, <2>1
    DEF AssignBudgets, SplitTested, FitsAt, EstimateTaskCount, Branches,
        AffordableTasks
  <2>3. RootsAfforded'
    BY <1>3, <2>1 DEF AssignBudgets, RootsAfforded, AffordableTasks
  <2>4. Shared'
    <3>1. /\ step' = "done"
          /\ \/ budgets' = <<>>
             \/ /\ maxNodes # 0 /\ Len(weights) # 0
                /\ budgets' \in {EqualBudgets(Len(weights)),
                                 WeightedBudgets(Len(weights))}
      BY <1>3 DEF AssignBudgets
    <3>2. EqualBudgets(Len(weights))' = EqualBudgets(Len(weights))
      BY <2>1 DEF EqualBudgets
    <3>3. WeightedBudgets(Len(weights))' = WeightedBudgets(Len(weights))
      BY <2>1 DEF WeightedBudgets, MinimumShare, ByWeight, Leftover
    <3>. QED  BY <2>1, <3>1, <3>2, <3>3 DEF Shared
  <2>. QED  BY <2>1, <2>2, <2>3, <2>4
<1>4. CASE UNCHANGED divisionVars
  BY <1>4 DEF divisionVars, InputsOK, SplitTested, RootsAfforded, Shared, FitsAt,
              EstimateTaskCount, Branches, AffordableTasks, EqualBudgets,
              WeightedBudgets, MinimumShare, ByWeight, Leftover
<1>. QED  BY <1>1, <1>2, <1>3, <1>4 DEF DivisionNext
-----------------------------------------------------------------------------
\* The inductive invariant of the division of the budget.
THEOREM BudgetsInvariant == DivisionSpec => []BudgetsInv
BY InitBudgetsInv, NextBudgetsInv, PTL DEF DivisionSpec

\* A share of at least q nodes of n for a minimum of m nodes.
LEMMA EnoughForEach ==
    ASSUME NEW n \in Nat \ {0}, NEW m \in Nat \ {0}, NEW total \in Nat,
           n <= total \div m
    PROVE  m * n <= total /\ m <= total \div n
<1>1. total = (m * (total \div m)) + (total % m) /\ total \div m \in Nat
      /\ total % m \in 0..(m - 1)
  BY Division
<1>2. total = (n * (total \div n)) + (total % n) /\ total \div n \in Nat
      /\ total % n \in 0..(n - 1)
  BY Division
<1>. DEFINE q == total \div m
            r == total \div n
<1>3. m * n <= m * q
  <2>1. m * (q - n) >= m * 0
    BY <1>1
  <2>. QED  BY <1>1, <2>1
<1>4. m * n <= total
  BY <1>1, <1>3
<1>5. n * m <= n * r + n - 1
  BY <1>2, <1>4
<1>6. m <= r
  <2>. SUFFICES ASSUME r + 1 <= m PROVE FALSE
    BY <1>2
  <2>. HIDE DEF r
  <2>1. n * (r + 1) <= n * m
    <3>1. n * (m - (r + 1)) >= n * 0
      BY <1>2 DEF r
    <3>. QED  BY <3>1, <1>2 DEF r
  <2>. QED  BY <1>2, <1>5, <2>1 DEF r
<1>. QED  BY <1>4, <1>6

\* A limited search hands all its nodes to its roots, starves none of them and
\* makes no more of them than it can afford, whatever the tree, the weights and
\* the policy (solver.go, initialSplitDepth and assignBudgetsWithPolicy).
THEOREM BudgetDividedExactly == DivisionSpec => []BudgetIsDivided
<1>1. BudgetsInv => BudgetIsDivided
  <2>. SUFFICES ASSUME BudgetsInv, Limited
                PROVE  BudgetIsExact /\ EveryRootAlive /\ SplitIsAffordable
    BY DEF BudgetIsDivided
  <2>. DEFINE n == Len(weights)
  <2>1. /\ n \in Nat \ {0} /\ maxNodes \in Nat \ {0} /\ weights \in Seq(Nat \ {0})
        /\ budgets \in {EqualBudgets(n), WeightedBudgets(n)}
        /\ n <= 1 \/ n <= AffordableTasks
    BY DEF BudgetsInv, Limited, Shared, RootsAfforded, InputsOK
  <2>. HIDE DEF n
  <2>2. /\ budgets \in Seq(Nat) /\ Len(budgets) = n /\ Total(budgets) = maxNodes
        /\ \A i \in 1..n : \/ budgets[i] >= maxNodes \div n
                           \/ budgets[i] >= MinimumShare(n)
    BY <2>1, EqualDivision, WeightedDivision DEF n
  <2>3. MinPerTask \in Nat \ {0} /\ InputsOK
    BY TaskBudgetsAssumption DEF TaskBudgetsAssumption, BudgetsInv
  <2>4. \A i \in 1..n : budgets[i] \in Nat
    BY <2>2
  <2>5. ASSUME n > 1
        PROVE  /\ MinPerTask * n <= maxNodes /\ MinPerTask <= maxNodes \div n
               /\ n <= workers * MaxTasksPerWorker
    <3>1. n <= AffordableTasks
      BY <2>1, <2>5
    <3>2. maxNodes \div MinPerTask \in Nat /\ workers * MaxTasksPerWorker \in Nat
      <4>1. maxNodes \in Nat
        BY <2>1
      <4>2. maxNodes \div MinPerTask \in Nat
        BY <2>3, <4>1, Division
      <4>3. workers \in Nat /\ MaxTasksPerWorker \in Nat
        BY <2>3, TaskBudgetsAssumption DEF InputsOK, TaskBudgetsAssumption
      <4>4. workers * MaxTasksPerWorker \in Nat
        BY <4>3
      <4>. QED  BY <4>2, <4>4
    <3>3. n <= maxNodes \div MinPerTask /\ n <= workers * MaxTasksPerWorker
      BY <2>1, <2>3, <3>1, <3>2, AffordableType
    <3>. QED  BY <2>1, <2>3, <3>3, EnoughForEach
  <2>6. maxNodes \div n \in Nat
    BY <2>1, Division
  <2>7. n = 1 => maxNodes \div n = maxNodes
    BY <2>1
  <2>8. /\ n = 1 => maxNodes \div n >= 1 /\ MinimumShare(n) >= 1
        /\ n > 1 => maxNodes \div n >= MinPerTask /\ MinimumShare(n) = MinPerTask
    BY <2>1, <2>3, <2>5, <2>6, <2>7 DEF MinimumShare
  <2>9. EveryRootAlive
    <3>0. Len(budgets) = n
      BY <2>2
    <3>1. SUFFICES ASSUME NEW i \in 1..n
                   PROVE  budgets[i] >= 1 /\ (n > 1 => budgets[i] >= MinPerTask)
      BY <3>0 DEF EveryRootAlive
    <3>2. /\ budgets[i] \in Nat
          /\ budgets[i] >= maxNodes \div n \/ budgets[i] >= MinimumShare(n)
      BY <2>2, <2>4
    <3>3. MinimumShare(n) \in Nat
      BY <2>3, <2>6 DEF MinimumShare
    <3>4. CASE n = 1
      BY <2>6, <2>8, <3>2, <3>3, <3>4
    <3>5. CASE n > 1
      BY <2>3, <2>6, <2>8, <3>2, <3>3, <3>5
    <3>. QED  BY <2>1, <3>4, <3>5
  <2>10. SplitIsAffordable
    BY <2>2, <2>5 DEF SplitIsAffordable
  <2>. QED  BY <2>2, <2>9, <2>10 DEF BudgetIsExact
<1>. QED  BY BudgetsInvariant, <1>1, PTL
=============================================================================
