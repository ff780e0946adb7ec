----------------------------- MODULE NodeLedger -----------------------------
(***************************************************************************)
(* nodeLedger of internal/solver/ledger.go: one mutex, two lanes.  The     *)
(* normal lane is bounded by the execution limit and by the limit of the   *)
(* stage that is charged; the diagnostic lane has one limit of its own,    *)
(* given at construction or, once, later.  Every operation holds the mutex *)
(* from its first read to its last write, so each is one action.           *)
(***************************************************************************)
EXTENDS Integers, FiniteSets

CONSTANTS
    Node,                 \* search nodes that tasks may ask to visit
    Stages,               \* stage identifiers
    StageOf,              \* [Node -> Stages], config.stageID of the asking task
    MaxNodes,             \* Config.MaxNodes, 0 = unlimited
    StageLimit,           \* [Stages -> Nat]; a stage without an entry has 0
    InitialDiagnosticMax, \* the optional argument of newNodeLedger
    DiagnosticQuotas      \* quotas a probe may try to configure later

VARIABLES
    charged, stageCharged,
    diagnosticMax, diagnosticCharged, diagnosticStageCharged,
    spent,                \* nodes granted on the normal lane
    diagnosticSpent       \* nodes granted on the diagnostic lane

ASSUME LedgerAssumption ==
    /\ IsFiniteSet(Node)
    /\ StageOf \in [Node -> Stages]
    /\ MaxNodes \in Nat
    /\ StageLimit \in [Stages -> Nat]
    /\ InitialDiagnosticMax \in Nat
    /\ DiagnosticQuotas \subseteq Int

normal == <<charged, stageCharged, spent>>
diagnostic == <<diagnosticMax, diagnosticCharged, diagnosticStageCharged,
                diagnosticSpent>>
vars == <<charged, stageCharged, diagnosticMax, diagnosticCharged,
          diagnosticStageCharged, spent, diagnosticSpent>>

Init ==
    /\ charged = 0
    /\ stageCharged = [s \in Stages |-> 0]
    /\ diagnosticMax = InitialDiagnosticMax
    /\ diagnosticCharged = 0
    /\ diagnosticStageCharged = [s \in Stages |-> 0]
    /\ spent = {}
    /\ diagnosticSpent = {}
-----------------------------------------------------------------------------
\* A plausible slip in the refusals below, used to test the properties.
GlobalRefusesLate == MaxNodes > 0 /\ charged > MaxNodes

\* The two refusals of chargeWithReason, in the order they are tested.
GlobalRefuses == MaxNodes > 0 /\ charged >= MaxNodes
StageRefuses(s) == StageLimit[s] > 0 /\ stageCharged[s] >= StageLimit[s]
CanCharge(s) == ~GlobalRefuses /\ ~StageRefuses(s)

\* chargeWithReason when it grants; a refusal changes nothing.
Charge(s) ==
    /\ CanCharge(s)
    /\ charged' = charged + 1
    /\ stageCharged' = [stageCharged EXCEPT ![s] = @ + 1]

DiagnosticRefuses ==
    diagnosticMax <= 0 \/ diagnosticCharged >= diagnosticMax

\* chargeDiagnosticWithReason when it grants.
ChargeDiagnostic(s) ==
    /\ ~DiagnosticRefuses
    /\ diagnosticCharged' = diagnosticCharged + 1
    /\ diagnosticStageCharged' = [diagnosticStageCharged EXCEPT ![s] = @ + 1]

\* configureDiagnosticMax when it accepts: only an unconfigured, unused lane.
ConfigureDiagnosticMax(q) ==
    /\ q >= 0
    /\ diagnosticCharged = 0 /\ diagnosticMax = 0
    /\ diagnosticMax' = q
    /\ UNCHANGED <<diagnosticCharged, diagnosticStageCharged,
                   diagnosticSpent, charged, stageCharged, spent>>
-----------------------------------------------------------------------------
Grant(n) ==
    /\ n \in Node \ spent
    /\ Charge(StageOf[n])
    /\ spent' = spent \cup {n}
    /\ UNCHANGED diagnostic

GrantDiagnostic(n) ==
    /\ n \in Node \ diagnosticSpent
    /\ ChargeDiagnostic(StageOf[n])
    /\ diagnosticSpent' = diagnosticSpent \cup {n}
    /\ UNCHANGED <<normal, diagnosticMax>>

Next ==
    \/ \E n \in Node : Grant(n)
    \/ \E n \in Node : GrantDiagnostic(n)
    \/ \E q \in DiagnosticQuotas : ConfigureDiagnosticMax(q)

Spec == Init /\ [][Next]_vars
-----------------------------------------------------------------------------
TypeOK ==
    /\ charged \in Nat
    /\ stageCharged \in [Stages -> Nat]
    /\ diagnosticMax \in Nat
    /\ diagnosticCharged \in Nat
    /\ diagnosticStageCharged \in [Stages -> Nat]
    /\ spent \subseteq Node
    /\ diagnosticSpent \subseteq Node

\* The nodes of S charged to stage s, and what the two limits allow (0: no
\* limit).
OfStage(S, s) == {n \in S : StageOf[n] = s}

WithinBudget(S) ==
    /\ MaxNodes > 0 => Cardinality(S) <= MaxNodes
    /\ \A s \in Stages :
          StageLimit[s] > 0 => Cardinality(OfStage(S, s)) <= StageLimit[s]

\* The counters are the numbers of nodes granted, per lane and per stage.
CountersMatch ==
    /\ charged = Cardinality(spent)
    /\ diagnosticCharged = Cardinality(diagnosticSpent)
    /\ \A s \in Stages :
          /\ stageCharged[s] = Cardinality(OfStage(spent, s))
          /\ diagnosticStageCharged[s] = Cardinality(OfStage(diagnosticSpent, s))

\* Parallel tasks overspend neither the execution budget nor a stage budget:
\* the set of nodes granted is always one both limits allow (ledger.go:5-7).
NoOverspend == WithinBudget(spent)

\* The probes' lane is bounded by its own limit, and charging it is possible
\* only once that limit is set.
DiagnosticBounded == Cardinality(diagnosticSpent) <= diagnosticMax

\* A step works on one lane only, and the diagnostic limit is frozen once set:
\* a second probe can neither raise nor lower the first one's quota.
LanesSeparate ==
    [][ /\ normal' = normal \/ diagnostic' = diagnostic
        /\ diagnosticMax # 0 => diagnosticMax' = diagnosticMax ]_vars
=============================================================================
