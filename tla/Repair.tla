------------------------------- MODULE Repair -------------------------------
(***************************************************************************)
(* repairSearch of repair.go: round after round it takes a few instances   *)
(* out of the best layouts and searches all ways to place them again, each *)
(* neighbourhood within its share of the phase's nodes, until a round      *)
(* brings nothing better.                                                  *)
(*                                                                         *)
(* The walk of one neighbourhood, from a job, is shared with Plateau.  Its *)
(* tasks run on several workers, each on its own pool of candidates; the   *)
(* archive, which is locked, is all they share.  Here one task runs at a   *)
(* time, in any order: that gives the pools every outcome, the archive     *)
(* only the orders in which no two tasks alternate.                        *)
(*                                                                         *)
(* A configuration is one of Candidates with topN, workers, repairNodes    *)
(* (the budget of the phase) and cancelable.                               *)
(***************************************************************************)
EXTENDS PlateauArchive

CONSTANTS
    CheckInterval,        \* nodes between two looks at the context
    MinParallel,          \* nodes a task is worth
    TasksPerWorker, MaxSplit, MaxTasks

\* repairNodeBudget: never negative.
ASSUME RepairAssumption ==
    /\ MaxSplit \in Nat
    /\ \A c \in DOMAIN Configs : /\ Configs[c].repairNodes \in Nat /\ Configs[c].topN \in Nat
                                 /\ Configs[c].seeds \in Seq(Range(Configs[c].seeds))

\* The seed searches place instances the way the walk does.
ASSUME SeedAssumption ==
    \A c \in DOMAIN Configs : \A l \in Range(Configs[c].seeds) : LegalLayout(Configs[c], l)

VARIABLES
    which,      \* index of the configuration
    prepared,   \* what solveLayoutStage prepared for it
    stage,      \* "repair", then the phases of Plateau
    phase,      \* "round", "batch", "walk" or "ended"
    elites,     \* results, best first
    tried,      \* keys of the neighbourhoods started
    batch,      \* neighbourhoods of the round still to do, with their quotas
    better,     \* the round brought a better layout
    nodes,      \* nodes of the phase
    noticed,    \* the phase saw that the context is done
    canceled,   \* it is
    job,        \* the neighbourhood being searched
    tasks,      \* its tasks
    waiting,    \* indices of the tasks still to run
    at,         \* index of the one running, or 0
    todo,       \* nodes of it still to visit, the next one first
    spent,      \* nodes it visited
    pool,       \* its candidates
    halted,     \* it saw that the context is done
    pools,      \* candidates of the tasks that ended
    work,       \* nodes of the tasks that ended
    partial,    \* one of them was cut short
    archive,    \* layouts at the priority ceiling
    observed    \* history: those offered to the archive

walkVars == <<todo, spent, pool, halted, archive, observed>>
taskVars == <<tasks, waiting, at, pools, work, partial>>
roundVars == <<elites, tried, batch, better, nodes, noticed, job>>
fixedVars == <<which, prepared>>
repairVars == <<fixedVars, stage, phase, roundVars, taskVars, walkVars, canceled>>

Cfg == Configs[which]
Limit == CandidateLimit(Cfg.topN)
NoJob == [removed |-> {}]

ObserveAll(entries, solutions) ==
    FoldLeft(LAMBDA kept, s : Observe(Cfg, kept, s), entries, solutions)

\* The seeds are the layouts of the seed search, which offers them to the archive.
RepairInit ==
    /\ which \in DOMAIN Configs
    /\ prepared = PlanOf(Cfg)
    /\ stage = "repair" /\ phase = "round"
    /\ elites = MergeSolutions(<<>>, prepared.seeds, Limit)
    /\ tried = {} /\ batch = <<>> /\ better = TRUE
    /\ nodes = 0 /\ noticed = FALSE /\ canceled = FALSE
    /\ job = NoJob /\ tasks = <<>> /\ waiting = {} /\ at = 0
    /\ todo = <<>> /\ spent = 0 /\ pool = <<>> /\ halted = FALSE
    /\ pools = EmptyLayout /\ work = 0 /\ partial = FALSE
    /\ archive = ObserveAll(<<>>, prepared.found)
    /\ observed = {s \in Range(prepared.found) : PriorityCeilingReached(Cfg, s.score)}

Cancel ==
    /\ Cfg.cancelable /\ ~canceled /\ stage \in {"repair", "lns"} /\ phase # "ended"
    /\ canceled' = TRUE
    /\ UNCHANGED <<fixedVars, stage, phase, roundVars, taskVars, walkVars>>
-----------------------------------------------------------------------------
(* The rounds.                                                              *)

WithQuotas(neighbourhoods, quotas) ==
    [n \in DOMAIN neighbourhoods |-> [of |-> neighbourhoods[n], quota |-> quotas[n]]]
Divided(neighbourhoods, total) == WithQuotas(neighbourhoods, Shares(total, neighbourhoods))

Continuing == better /\ nodes < Cfg.repairNodes /\ ~noticed /\ elites # <<>>

StartRound ==
    /\ stage = "repair" /\ phase = "round" /\ Continuing
    /\ \E built \in {BuildNeighbourhoods(Cfg, prepared, elites, tried)} :
          /\ batch' = Divided(built, Cfg.repairNodes - nodes)
          /\ phase' = IF built = <<>> THEN "ended" ELSE "batch"
    /\ better' = FALSE
    /\ UNCHANGED <<fixedVars, stage, elites, tried, nodes, noticed, job, taskVars, walkVars, canceled>>

EndRepair ==
    /\ stage = "repair" /\ phase = "round" /\ ~Continuing
    /\ phase' = "ended"
    /\ UNCHANGED <<fixedVars, stage, roundVars, taskVars, walkVars, canceled>>

InBatch == stage = "repair" /\ phase = "batch"
StopBatch == batch = <<>> \/ noticed \/ nodes >= Cfg.repairNodes
EndRound ==
    /\ InBatch /\ StopBatch
    /\ phase' = "round" /\ batch' = <<>>
    /\ UNCHANGED <<fixedVars, stage, elites, tried, better, nodes, noticed, job, taskVars, walkVars, canceled>>

\* The layout a neighbourhood was made for may have left the results.
HasBase(n) == n.base \in Layouts(elites)
PassOver ==
    /\ InBatch /\ ~StopBatch
    /\ LET n == Head(batch) IN
       /\ n.quota <= 0 \/ ~HasBase(n.of)
       /\ tried' = tried \cup {Key(n.of)}
    /\ batch' = Tail(batch)
    /\ UNCHANGED <<fixedVars, stage, phase, elites, better, nodes, noticed, job, taskVars, walkVars, canceled>>
-----------------------------------------------------------------------------
(* runRepairNeighborhood.                                                   *)

\* Important instances first; a node is one of Candidates over this order.
RepairOrder(ids) ==
    SortedBy(ids \cap Instances,
             LAMBDA i : <<-InstancePriority(Cfg, prepared.coverage, i, StarCount(i)),
                          Len(OptionsForInstance(i)), i>>)
PlanFor(order) == [order |-> order, options |-> prepared.options, contexts |-> <<prepared.coverage>>]

\* estimateTaskCount, repairSplitDepth
TaskCount(order, d) ==
    FoldLeft(LAMBDA count, i : count * (Len(OptionsForInstance(i)) + (IF Cfg.allowSkips THEN 1 ELSE 0)),
             1, SubSeq(order, 1, d))
SplitDepthFor(order, quota) ==
    LET target == Min({Cfg.workers * TasksPerWorker, quota \div MinParallel})
        worthIt(d) == TaskCount(order, d) \in 1..MaxTasks /\ TaskCount(order, d) * MinParallel <= quota
    IN  IF Cfg.workers <= 1 \/ target < 2 THEN 0
        ELSE Max({0} \cup {d \in 1..Min({MaxSplit, Len(order)}) :
                              /\ \A e \in 1..d : worthIt(e)
                              /\ \A e \in 1..d - 1 : TaskCount(order, e) < target})

Job(plan, base, ids, quota, target, incumbents) ==
    [plan |-> plan, fixed |-> [i \in DOMAIN base \ ids |-> base[i]], removed |-> ids,
     quota |-> quota, target |-> target, incumbents |-> incumbents]
TasksOf(j) ==
    Expanded(Cfg, j.plan,
             [depth |-> 0, layout |-> j.fixed, covers |-> InitialCovers(j.plan, 0, j.fixed)],
             SplitDepthFor(j.plan.order, j.quota))

\* The part of every action that starts a neighbourhood; target is what a
\* layout has to reach, empty where every layout will do.
Start(n, quota, target, incumbents) ==
    /\ \E j \in {Job(PlanFor(RepairOrder(n.ids)), n.base, n.ids, quota, target, incumbents)} :
           job' = j /\ tasks' = TasksOf(j)
    /\ waiting' = DOMAIN tasks'
    /\ at' = 0 /\ pools' = EmptyLayout /\ work' = 0 /\ partial' = FALSE
    /\ phase' = "walk"
    /\ batch' = Tail(batch)
    /\ UNCHANGED <<fixedVars, stage, elites, nodes, walkVars, canceled>>

StartRepair ==
    /\ InBatch /\ ~StopBatch
    /\ Head(batch).quota > 0 /\ HasBase(Head(batch).of)
    /\ Start(Head(batch).of, Head(batch).quota, <<>>, elites)
    /\ tried' = tried \cup {Key(Head(batch).of)}
    /\ UNCHANGED <<better, noticed>>

\* Plausible slip, used to test the properties.
WholeQuota == job.quota

\* assignRepairBudgets
TaskBudget == Part(job.quota, Len(tasks), at)

StartTask ==
    /\ phase = "walk" /\ at = 0 /\ waiting # {}
    /\ at' \in IF Cfg.workers > 1 THEN waiting ELSE {Min(waiting)}
    /\ waiting' = waiting \ {at'}
    /\ todo' = <<tasks[at']>>
    /\ spent' = 0 /\ halted' = FALSE
    /\ pool' = MergeSolutions(<<>>, job.incumbents, Limit)
    /\ UNCHANGED <<fixedVars, stage, phase, roundVars, tasks, pools, work, partial, archive, observed, canceled>>
-----------------------------------------------------------------------------
(* visit of runRepairTask.                                                  *)
Full == Len(pool) >= Limit
Worst == Last(pool).score
HasTarget == job.target # <<>>
BelowTarget(score) == HasTarget /\ ComparePriorityCounts(score.priority, job.target) < 0

Walking == phase = "walk" /\ at # 0 /\ todo # <<>> /\ ~halted /\ spent < TaskBudget
Notices == canceled /\ (spent + 1) % CheckInterval = 0

\* Plausible slip, used to test the properties.
CutPoolAtEqual(node) == Full /\ OutgoingEnabled(Cfg) /\ ComparePriorityCounts(OutgoingBound(Cfg, node.layout), Worst.priority) <= 0

\* With a target, candidates are not bounded by the pool but by the target.
Cut(node) ==
    \/ LacksRoom(Cfg, job.plan, node)
    \/ HasTarget /\ ~PartialRepairFeasible(Cfg, node.layout, job.removed, job.target)
    \/ Full /\ CoveragePrunes(job.plan.contexts[1], job.plan.order, node.covers[1], node.depth, Worst)
    \/ Full /\ ~HasTarget /\ OutgoingPrunes(Cfg, node.layout, Worst)

Visit(next) ==
    /\ Walking
    /\ todo' = next
    /\ spent' = spent + 1
    /\ UNCHANGED <<fixedVars, stage, phase, roundVars, taskVars, canceled>>

Halt ==
    /\ Notices /\ Visit(todo) /\ halted' = TRUE
    /\ UNCHANGED <<pool, archive, observed>>
Prune ==
    /\ ~Notices /\ Visit(Tail(todo)) /\ Cut(Head(todo))
    /\ UNCHANGED <<pool, halted, archive, observed>>
Descend ==
    /\ ~Notices /\ Walking /\ ~Cut(Head(todo)) /\ ~IsLeaf(job.plan, Head(todo))
    /\ Visit(Children(Cfg, job.plan, Head(todo)) \o Tail(todo))
    /\ UNCHANGED <<pool, halted, archive, observed>>

\* A layout is offered to the pool and, where it meets the ceiling, to the archive.
Accept(s) ==
    /\ pool' = OfferSolution(pool, s, EvaluateScoreOnly(s.layout, Cfg), Limit)
    /\ archive' = Observe(Cfg, archive, s)
    /\ observed' = observed \cup {t \in {s} : PriorityCeilingReached(Cfg, s.score)}
Complete ==
    /\ ~Notices /\ Visit(Tail(todo)) /\ ~Cut(Head(todo)) /\ IsLeaf(job.plan, Head(todo))
    /\ \E s \in {Solution(Head(todo).layout, Cfg)} :
          IF BelowTarget(s.score) THEN UNCHANGED <<pool, archive, observed>> ELSE Accept(s)
    /\ UNCHANGED halted

EndTask ==
    /\ phase = "walk" /\ at # 0 /\ ~Walking
    /\ pools' = With(pools, at, pool)
    /\ work' = work + spent
    /\ partial' = (partial \/ todo # <<>>)
    /\ at' = 0 /\ todo' = <<>> /\ pool' = <<>> /\ spent' = 0
    /\ UNCHANGED <<fixedVars, stage, phase, roundVars, tasks, waiting, halted, archive, observed, canceled>>

\* mergeRepairTaskResult, in the order of the tasks.
Searched == phase = "walk" /\ at = 0 /\ waiting = {}
Merged ==
    FoldLeft(LAMBDA kept, n : MergeSolutions(kept, pools[n], Limit), <<>>, [n \in DOMAIN tasks |-> n])

\* The context is looked at where the nodes of the phase happen to be a
\* multiple of the interval; they grow by a whole neighbourhood at a time.
MergeRepair ==
    /\ stage = "repair" /\ Searched
    /\ nodes' = nodes + work
    /\ noticed' = (noticed \/ (canceled /\ nodes' % CheckInterval = 0))
    /\ elites' = MergeSolutions(elites, Merged, Limit)
    /\ better' = (better \/ SolutionLess(elites'[1], elites[1]))
    /\ phase' = "batch" /\ tasks' = <<>> /\ job' = NoJob /\ work' = 0
    /\ UNCHANGED <<fixedVars, stage, tried, batch, waiting, at, pools, partial, walkVars, canceled>>

WalkNext == StartTask \/ Halt \/ Prune \/ Descend \/ Complete \/ EndTask
RepairNext ==
    \/ Cancel \/ StartRound \/ EndRound \/ EndRepair \/ PassOver \/ StartRepair \/ MergeRepair \/ WalkNext
=============================================================================
