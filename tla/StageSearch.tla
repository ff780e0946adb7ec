----------------------------- MODULE StageSearch ----------------------------
(***************************************************************************)
(* SolveLayout and solveLayoutStage, internal/solver/solver.go: a solve is *)
(* one or two stages, a stage a fixed sequence of phases that share one    *)
(* node limit.  Each phase is given a budget computed from what the phases *)
(* before it report and from what is reserved for the phases after it; the *)
(* ledger charges the nodes as they are explored and refuses a charge at   *)
(* the stage's limit.  The context may be canceled between any two phases. *)
(* A phase is one step: how it searches is the matter of other modules,    *)
(* here it explores some of its budget and finds some layout or none.      *)
(***************************************************************************)
EXTENDS Integers, Sequences

CONSTANTS
    Settings,             \* the settings a solve may have, see IsSetting
    TopScore,             \* scores are 1..TopScore, 0 stands for no layout
    PriorityCeiling,      \* the least score that reaches every priority
    CoverageCeiling,      \* the least score that reaches the coverage ceiling
    SeedCap,              \* coverageSeedMaxNodes
    PerInstanceFrom,      \* the limit above which star seeds get a tenth
    PerInstanceCap,       \* perInstanceSeedMaxNodes
    ConstellationPercent, \* ConstellationSeedShareBps, in percent
    RepairPercent,        \* RepairBudgetPercent
    RepairMin,            \* RepairMinNodeBudget
    LNSPercent,           \* PlateauLNSBudgetPercent
    RefinePercent,        \* PlateauRefineBudgetPercent
    PackingOverrun,       \* bound on a packing walk's charges beyond its budget
    UnlimitedNodes        \* bound on the nodes of an unlimited phase

Phases == {"coverage", "packing", "constellation", "star",
           "pre", "dfs", "post", "lns", "refine"}
LaterPhases == {"pre", "dfs", "post", "lns", "refine"}

IsSetting(s) ==
    /\ s.limits \in Seq(Nat) /\ Len(s.limits) > 0
    /\ Len(s.limits) = 1 \/ \A i \in DOMAIN s.limits : s.limits[i] > 0
    /\ s.seeding \in {"none", "coverage", "star", "packing"}
    /\ s.bounded => s.seeding = "packing"
    /\ s.constellation => s.bounded /\ ~s.skips
    /\ {s.bounded, s.constellation, s.repairs, s.stopPriority,
        s.stopCoverage, s.skips} \subseteq BOOLEAN

ASSUME StageSearchAssumption ==
    /\ \A s \in Settings : IsSetting(s)
    /\ {TopScore, PriorityCeiling, CoverageCeiling} \subseteq Nat \ {0}
    /\ {SeedCap, PerInstanceFrom, PerInstanceCap, ConstellationPercent,
        RepairPercent, RepairMin, LNSPercent, RefinePercent,
        PackingOverrun, UnlimitedNodes} \subseteq Nat

VARIABLES
    setting,   \* what the Config and the catalogue decide
    stage,     \* index of the running stage
    pc,        \* the next phase, or the check after the last one
    canceled,  \* Config.Context is done
    charged,   \* the ledger's stageCharged
    spent,     \* NodesExplored of the stage's phases
    repair,    \* preRepairBudget and postRepairBudget
    best,      \* score of the best layout of the stage
    carried,   \* score of the best layout carried between the stages
    found,     \* best score any phase has found: history
    refused,   \* phases of the stage the ledger refused a node: history
    report,    \* SearchStats.NodesExplored of the stages that returned
    outcome    \* "running", then what SolveLayout returns

solve == <<setting, canceled>>
nodes == <<charged, spent, refused>>
returned == <<stage, carried, report, outcome>>
vars == <<solve, pc, nodes, repair, best, found, returned>>

Least(a, b) == IF a <= b THEN a ELSE b
Most(a, b) == IF a <= b THEN b ELSE a
Share(percent, n) == (n * percent) \div 100
NoReport == -1

Limit == setting.limits[stage]
Limited == Limit > 0
\* What the ledger would still grant to the stage.
Left == Limit - charged[stage]
-----------------------------------------------------------------------------
\* The budgets of the resolved policy, from the stage's limit.
SeedBudget == IF Limited THEN Least(Limit \div 4, SeedCap) ELSE SeedCap
PerInstanceBudget ==
    IF Limit <= PerInstanceFrom THEN SeedBudget
    ELSE Least(Least(Most(Limit \div 10, SeedBudget), Limit \div 4),
               PerInstanceCap)
StarSeedBudget ==
    IF setting.seeding = "packing" THEN PerInstanceBudget ELSE SeedBudget
ConstellationBudget ==
    IF ~setting.constellation THEN 0
    ELSE LET share == Share(ConstellationPercent, StarSeedBudget)
         IN IF share < 1 /\ StarSeedBudget >= 10 THEN 1 ELSE share
PackingBudget == Most(StarSeedBudget \div 2 - ConstellationBudget, 0)
\* The packing walks of both seeds look at their budget only after a feasible,
\* new state, so they may charge a few nodes more.
WithOverrun(budget) == IF budget > 0 THEN budget + PackingOverrun ELSE 0
-----------------------------------------------------------------------------
\* Plausible slips, used to test the properties.
SearchTakesTheReserve ==
    IF Limited
    THEN Most(Limit - (spent["coverage"] + spent["packing"] + spent["star"]
                       + spent["constellation"] + spent["pre"]), 0)
    ELSE 0
ConstellationForgotten ==
    spent["coverage"] + spent["packing"] + spent["star"]
TheNewerWins(left, right) == IF right = 0 THEN left ELSE right

\* What the phases report, as solveLayoutStage adds it up.
SeedNodes == spent["coverage"] + spent["packing"] + spent["constellation"]
             + spent["star"]
RepairNodes == spent["pre"] + spent["post"]

\* repairNodeBudget: a share of the limit within what the seeds left, or none
\* when it is too small to be of use.
RepairBudget ==
    LET budget == Least(Share(RepairPercent, Limit), Limit - SeedNodes)
    IN IF budget < RepairMin THEN 0 ELSE budget
\* One half before the search and the rest after it.
RepairPlan == [pre |-> RepairBudget \div 2,
               post |-> RepairBudget - RepairBudget \div 2]
NoRepair == [pre |-> 0, post |-> 0]

\* backtrackConfig.MaxNodes: never the reserved nodes, never negative.  To the
\* search 0 means unlimited, which its caller has to exclude.
SearchLimit ==
    IF Limited THEN Most(Limit - (SeedNodes + RepairNodes + repair.post), 0)
    ELSE 0
SearchAllowed == ~Limited \/ SearchLimit > 0
SearchBudget == IF SearchLimit = 0 THEN UnlimitedNodes ELSE SearchLimit

\* The plateau phases: a share of the limit within what is left.
LNSBudget == Least(Share(LNSPercent, Limit),
                   Limit - (SeedNodes + spent["dfs"] + RepairNodes))
RefineBudget == Least(Share(RefinePercent, Limit),
                      Limit - (SeedNodes + spent["dfs"] + RepairNodes
                               + spent["lns"]))

\* priorityBoundContext.reached and coverageContext.ceilingReached.
PriorityReached == setting.bounded /\ best >= PriorityCeiling
CoverageReached(score) ==
    setting.seeding = "coverage" /\ setting.stopCoverage
    /\ score >= CoverageCeiling

\* mergeSolutions, by the best layout it keeps.
Merge(left, right) == Most(left, right)
-----------------------------------------------------------------------------
NoNodes == [p \in Phases |-> 0]

Init ==
    /\ setting \in Settings
    /\ stage = 1 /\ pc = "seed" /\ canceled = FALSE
    /\ charged = [i \in DOMAIN setting.limits |-> 0]
    /\ spent = NoNodes /\ refused = {} /\ repair = NoRepair
    /\ best = 0 /\ carried = 0 /\ found = 0
    /\ report = [i \in DOMAIN setting.limits |-> NoReport]
    /\ outcome = "running"

\* A phase wants some of its budget, each node with a charge; it stops at the
\* first one refused.  Only nodes lead to layouts.
Explore(phase, budget, score) ==
    \E want \in 0..budget :
        LET n == IF Limited THEN Least(want, Left) ELSE want IN
        /\ spent' = [spent EXCEPT ![phase] = @ + n]
        /\ charged' = [charged EXCEPT ![stage] = @ + n]
        /\ refused' = IF n < want THEN refused \cup {phase} ELSE refused
        /\ score > 0 => n > 0
        /\ best' = Merge(best, score)
        /\ found' = Most(found, score)

\* The phase runs and the stage goes on at the given point.
Phase(at, phase, budget, next) ==
    /\ pc = at /\ pc' = next
    /\ \E score \in 0..TopScore : Explore(phase, budget, score)
    /\ UNCHANGED <<solve, repair, returned>>

\* The stage goes on without running the phase.
Skip(at, next) ==
    /\ pc = at /\ pc' = next
    /\ UNCHANGED <<solve, nodes, repair, best, found, returned>>

\* A canceled context makes the stage, and with it the solve, fail.
Fail(at) ==
    /\ pc = at /\ canceled
    /\ outcome' = "failed" /\ pc' = "over"
    /\ UNCHANGED <<solve, nodes, repair, best, found, stage, carried, report>>

\* The stage returns: SolveLayout merges its layouts into the carried ones and
\* starts the next stage from them, or returns.  A stage without layouts has
\* no statistics.
Return(total) ==
    /\ carried' = Merge(carried, best)
    /\ report' = [report EXCEPT
                     ![stage] = IF best = 0 THEN NoReport ELSE total]
    /\ IF stage < Len(setting.limits)
       THEN /\ stage' = stage + 1 /\ pc' = "seed" /\ best' = carried'
            /\ spent' = NoNodes /\ refused' = {} /\ repair' = NoRepair
            /\ UNCHANGED outcome
       ELSE /\ outcome' = IF carried' = 0 THEN "empty" ELSE "solved"
            /\ pc' = "over"
            /\ UNCHANGED <<stage, best, spent, refused, repair>>
    /\ UNCHANGED <<solve, charged, found>>
-----------------------------------------------------------------------------
\* The seed phases: one of the coverage seed, the directed star seed, or the
\* packing, constellation and star seeds sharing the star seed's budget.
StarSeeding == setting.seeding \in {"star", "packing"} /\ Limited
SharedSeed == setting.seeding = "packing" /\ StarSeedBudget >= 4

NoSeed ==
    /\ setting.seeding # "coverage" /\ ~StarSeeding
    /\ Skip("seed", "seeded")
CoverageSeed ==
    /\ setting.seeding = "coverage" /\ pc = "seed"
    /\ \E score \in 0..TopScore :
          /\ Explore("coverage", SeedBudget, score)
          /\ pc' = IF CoverageReached(score) THEN "covered" ELSE "seeded"
    /\ UNCHANGED <<solve, repair, returned>>
StarSeed ==
    /\ StarSeeding /\ ~SharedSeed
    /\ Phase("seed", "star", StarSeedBudget, "seeded")
PackingSeed ==
    /\ StarSeeding /\ SharedSeed
    /\ Phase("seed", "packing", WithOverrun(PackingBudget), "constellation")
ConstellationSeed ==
    Phase("constellation", "constellation", WithOverrun(ConstellationBudget),
          "shared")
SharedStarSeed ==
    Phase("shared", "star",
          Most(StarSeedBudget - PackingBudget - spent["constellation"], 0),
          "seeded")
\* A canceled context is looked at only after the priority ceiling, and before
\* anything is told.  Then the repair phases are planned.
CeilingAfterSeeds ==
    /\ pc \in {"seeded", "covered"} /\ setting.stopPriority /\ PriorityReached
    /\ Return(SeedNodes + RepairNodes + spent["dfs"])
CanceledAfterSeeds ==
    /\ ~(setting.stopPriority /\ PriorityReached)
    /\ Fail("seeded") \/ Fail("covered")
CoverageAfterSeeds ==
    /\ pc = "covered" /\ ~canceled
    /\ Return(SeedNodes)
PlanRepair ==
    /\ pc = "seeded" /\ ~canceled
    /\ ~(setting.stopPriority /\ PriorityReached)
    /\ repair' = IF setting.repairs /\ Limited /\ best > 0 THEN RepairPlan
                 ELSE NoRepair
    /\ pc' = IF repair'.pre > 0 THEN "pre" ELSE "dfs"
    /\ UNCHANGED <<solve, nodes, best, found, returned>>

PreRepair == Phase("pre", "pre", repair.pre, "repaired")
CanceledAfterRepair == Fail("repaired")
CoverageAfterRepair ==
    /\ pc = "repaired" /\ ~canceled /\ CoverageReached(best)
    /\ Return(SeedNodes + RepairNodes)
GoOnToSearch ==
    ~canceled /\ ~CoverageReached(best) /\ Skip("repaired", "dfs")

Search == SearchAllowed /\ Phase("dfs", "dfs", SearchBudget, "explored")
SkipSearch == ~SearchAllowed /\ Skip("dfs", "searched")
CanceledAfterSearch == Fail("explored")
KeepSearch == ~canceled /\ Skip("explored", "searched")
CeilingAfterSearch ==
    /\ pc = "searched" /\ setting.stopPriority /\ PriorityReached
    /\ Return(SeedNodes + RepairNodes + spent["dfs"])

PostRepair ==
    /\ ~(setting.stopPriority /\ PriorityReached)
    /\ repair.post > 0 /\ best > 0
    /\ Phase("searched", "post", repair.post, "rerepaired")
SkipPostRepair ==
    /\ ~(setting.stopPriority /\ PriorityReached)
    /\ ~(repair.post > 0 /\ best > 0)
    /\ Skip("searched", "lns")
CanceledAfterPost == Fail("rerepaired")
KeepPost == ~canceled /\ Skip("rerepaired", "lns")

\* The plateau phases work only on layouts that reach every priority.
PlateauLNS ==
    /\ Limited /\ PriorityReached /\ LNSBudget > 0
    /\ Phase("lns", "lns", LNSBudget, "refine")
SkipLNS ==
    ~(Limited /\ PriorityReached /\ LNSBudget > 0) /\ Skip("lns", "refine")
PlateauRefine ==
    /\ Limited /\ PriorityReached /\ RefineBudget > 0
    /\ Phase("refine", "refine", RefineBudget, "completion")
SkipRefine ==
    /\ ~(Limited /\ PriorityReached /\ RefineBudget > 0)
    /\ Skip("refine", "completion")

\* Completion and refinement improve layouts move by move, without charges.
Improve(score) ==
    /\ best' = score /\ found' = Most(found, score)
    /\ score = best \/ best > 0
Complete ==
    /\ pc = "completion" /\ pc' = "polish"
    /\ \E score \in best..(IF setting.skips THEN TopScore ELSE best) :
          Improve(score)
    /\ UNCHANGED <<solve, nodes, repair, returned>>
CanceledBeforeRefine == Fail("polish")
Refine ==
    /\ pc = "polish" /\ ~canceled /\ pc' = "finish"
    /\ \E score \in best..TopScore : Improve(score)
    /\ UNCHANGED <<solve, nodes, repair, returned>>
Finish ==
    /\ pc = "finish"
    /\ Return(SeedNodes + spent["dfs"] + spent["lns"] + spent["refine"]
              + RepairNodes)

\* The caller gives up.
Cancel ==
    /\ outcome = "running" /\ ~canceled /\ canceled' = TRUE
    /\ UNCHANGED <<setting, pc, nodes, repair, best, found, returned>>

Seeds == NoSeed \/ CoverageSeed \/ StarSeed \/ PackingSeed
         \/ ConstellationSeed \/ SharedStarSeed
AfterSeeds == CeilingAfterSeeds \/ CanceledAfterSeeds \/ CoverageAfterSeeds
              \/ PlanRepair
Repair == PreRepair \/ CanceledAfterRepair \/ CoverageAfterRepair
          \/ GoOnToSearch
SearchPhase == Search \/ SkipSearch \/ CanceledAfterSearch \/ KeepSearch
               \/ CeilingAfterSearch
Post == PostRepair \/ SkipPostRepair \/ CanceledAfterPost \/ KeepPost
Plateau == PlateauLNS \/ SkipLNS \/ PlateauRefine \/ SkipRefine
Polish == Complete \/ CanceledBeforeRefine \/ Refine \/ Finish
Next == Seeds \/ AfterSeeds \/ Repair \/ SearchPhase \/ Post \/ Plateau
        \/ Polish \/ Cancel

Spec == Init /\ [][Next]_vars
-----------------------------------------------------------------------------
Points == {"seed", "constellation", "shared", "seeded", "covered", "pre",
           "repaired", "dfs", "explored", "searched", "rerepaired", "lns",
           "refine", "completion", "polish", "finish", "over"}

\* The variables have their types.
TypeOK ==
    /\ setting \in Settings /\ stage \in DOMAIN setting.limits
    /\ pc \in Points /\ canceled \in BOOLEAN
    /\ charged \in [DOMAIN setting.limits -> Nat]
    /\ spent \in [Phases -> Nat] /\ refused \subseteq Phases
    /\ repair \in [pre : Nat, post : Nat]
    /\ {best, carried, found} \subseteq 0..TopScore
    /\ report \in [DOMAIN setting.limits -> Nat \cup {NoReport}]
    /\ outcome \in {"running", "failed", "empty", "solved"}

\* The budgets are never promised twice: after the seeds no phase ever runs
\* into the ledger's limit, whatever the phases before it used up, the
\* overruns of packing included, and the search never takes what is reserved for
\* the repair after it, nor becomes unlimited because nothing is left for it.
\* A phase that meets the ledger's refusal reports an exhausted budget it was
\* never given.
LaterPhasesNeverRefused == refused \cap LaterPhases = {}

\* At whichever point a stage returns, the nodes its statistics add up are the
\* nodes the ledger charged to it.
ReportIsCharge ==
    \A i \in DOMAIN report : report[i] \in {NoReport, charged[i]}

\* Whatever the phase and the stage that found it, and at whichever ceiling
\* the solve stopped, the best layout found is the one SolveLayout returns.
BestIsReturned ==
    outcome \in {"empty", "solved"} =>
        carried = found /\ (outcome = "solved" <=> found > 0)
=============================================================================
