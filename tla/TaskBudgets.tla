---------------------------- MODULE TaskBudgets -----------------------------
(***************************************************************************)
(* How the parallel search divides its node budget, internal/solver/       *)
(* solver.go: initialSplitDepth chooses how deep to split the search tree  *)
(* from an estimate of the number of roots, buildTasks generates them (at  *)
(* most as many as estimated: overlaps and symmetry remove some), and      *)
(* assignBudgetsWithPolicy gives each root a share of the budget, equal or *)
(* by weight.                                                              *)
(***************************************************************************)
EXTENDS Integers, Sequences

CONSTANTS
    MaxInstances,       \* bound on the number of inventory instances
    MaxOptions,         \* bound on the placements of one instance
    Budgets,            \* node budgets of the search, 0 = unlimited
    WorkerCounts,       \* Config.Workers
    Weights,            \* weights of a root: 1 + its potential links
    MaxSplit,           \* policy.MaxInitialSplitDepth
    MinPerTask,         \* policy.MinAllocatedNodesPerTask
    MaxTasksPerWorker   \* policy.MaxTasksPerWorker

ASSUME TaskBudgetsAssumption ==
    /\ MaxInstances \in Nat /\ MaxOptions \in Nat
    /\ Budgets \subseteq Nat /\ WorkerCounts \subseteq Nat \ {0}
    /\ Weights \subseteq Nat \ {0}
    /\ MaxSplit \in Nat /\ MinPerTask \in Nat \ {0}
    /\ MaxTasksPerWorker \in Nat \ {0}

VARIABLES
    options,     \* number of placements of each instance, in search order
    allowSkips,  \* Config.AllowSkips
    maxNodes,    \* node budget left for the search
    workers,
    splitDepth,
    weights,     \* the generated roots, by weight
    budgets,     \* searchTask.NodeBudget per root
    step

inputs == <<options, allowSkips, maxNodes, workers>>
divisionVars == <<inputs, splitDepth, weights, budgets, step>>

SmallerOf(a, b) == IF a < b THEN a ELSE b

\* The sum of the first k elements of s, for every k.
PartialSums(s) ==
    LET sum[k \in 0..Len(s)] == IF k = 0 THEN 0 ELSE sum[k - 1] + s[k]
    IN  sum
Total(s) == PartialSums(s)[Len(s)]

DivisionInit ==
    /\ options \in UNION {[1..n -> 0..MaxOptions] : n \in 0..MaxInstances}
    /\ allowSkips \in BOOLEAN
    /\ maxNodes \in Budgets
    /\ workers \in WorkerCounts
    /\ splitDepth = 0 /\ weights = <<>> /\ budgets = <<>> /\ step = "split"
-----------------------------------------------------------------------------
\* Plausible slips, used to test the properties.
LeftoverDropped(rest, n) == 0

\* estimateTaskCount: the product of the branch counts of the first instances;
\* one instance that can be neither placed nor skipped makes it 0.
Branches(i) == options[i] + IF allowSkips THEN 1 ELSE 0
EstimateTaskCount(depth) ==
    LET count[d \in 0..depth] ==
            IF d = 0 THEN 1 ELSE count[d - 1] * Branches(d)
    IN  count[depth]

\* The largest number of roots worth making: a limit per worker, and enough
\* budget for each root.
AffordableTasks ==
    SmallerOf(workers * MaxTasksPerWorker, maxNodes \div MinPerTask)

\* initialSplitDepth: the deepest split before the first one that is too wide.
FitsAt(depth) ==
    LET count == EstimateTaskCount(depth)
    IN  count # 0 /\ count <= AffordableTasks
InitialSplitDepth ==
    LET deepest == SmallerOf(MaxSplit, Len(options))
        fits == {d \in 0..deepest : \A e \in 1..d : FitsAt(e)}
    IN  IF maxNodes = 0 THEN deepest
        ELSE CHOOSE d \in fits : \A e \in fits : e <= d

Split ==
    /\ step = "split"
    /\ splitDepth' = InitialSplitDepth
    /\ step' = "build"
    /\ UNCHANGED <<inputs, weights, budgets>>

\* buildTasks: the whole tree is one root, or the split yields some of the
\* estimated roots.
BuildTasks ==
    /\ step = "build"
    /\ \E n \in (IF splitDepth = 0 THEN {1}
                 ELSE 0..EstimateTaskCount(splitDepth)) :
          weights' \in [1..n -> Weights]
    /\ step' = "assign"
    /\ UNCHANGED <<inputs, splitDepth, budgets>>

\* The nodes number i (from 1) of n gets when rest nodes go round one by one.
RoundRobin(rest, n, i) == (rest + n - i) \div n

EqualBudgets(n) ==
    [i \in 1..n |-> (maxNodes \div n) + RoundRobin(maxNodes % n, n, i)]

\* Every root first gets a minimum; the rest is shared by weight, rounded down,
\* and what rounding left over goes round.
MinimumShare(n) ==
    IF MinPerTask * n > maxNodes THEN maxNodes \div n ELSE MinPerTask
ByWeight(rest, n) == [i \in 1..n |-> (rest * weights[i]) \div Total(weights)]
Leftover(rest, n) == rest - Total(ByWeight(rest, n))
WeightedBudgets(n) ==
    LET minimum == MinimumShare(n)
        rest    == maxNodes - (minimum * n)
        shares  == ByWeight(rest, n)
        left    == Leftover(rest, n)
    IN  [i \in 1..n |-> minimum + shares[i] + RoundRobin(left, n, i)]

\* assignBudgetsWithPolicy; an unlimited search and an empty one get none.  The
\* weights are used with per-instance priorities only.
AssignBudgets ==
    /\ step = "assign"
    /\ LET n == Len(weights) IN
          budgets' \in IF maxNodes = 0 \/ n = 0 THEN {<<>>}
                       ELSE {EqualBudgets(n), WeightedBudgets(n)}
    /\ step' = "done"
    /\ UNCHANGED <<inputs, splitDepth, weights>>

DivisionNext == Split \/ BuildTasks \/ AssignBudgets

DivisionSpec == DivisionInit /\ [][DivisionNext]_divisionVars
-----------------------------------------------------------------------------
DivisionTypeOK ==
    /\ splitDepth \in 0..MaxSplit
    /\ weights \in Seq(Weights) /\ budgets \in Seq(Nat)
    /\ step \in {"split", "build", "assign", "done"}

Limited == step = "done" /\ budgets # <<>>

\* The roots together may spend the search's budget, exactly: no node is lost
\* to rounding, and the ledger cannot be asked for more than was planned.
BudgetIsExact == Total(budgets) = maxNodes

\* "Keep every root alive" (solver.go:2023): every root can visit at least one
\* node, and the policy's minimum unless the whole tree is the only root.
EveryRootAlive ==
    maxNodes >= 1 =>
        \A i \in 1..Len(budgets) :
            budgets[i] >= 1 /\ (Len(budgets) > 1 => budgets[i] >= MinPerTask)

\* The roots are no more than the workers are meant to handle.
SplitIsAffordable ==
    Len(budgets) > 1 => Len(budgets) <= workers * MaxTasksPerWorker

\* A limited search hands all its nodes to its roots, starves none of them and
\* makes no more of them than it can afford.
BudgetIsDivided ==
    Limited => BudgetIsExact /\ EveryRootAlive /\ SplitIsAffordable
=============================================================================
