--------------------------- MODULE ParallelSearch ---------------------------
(***************************************************************************)
(* runTasks and runTask of internal/solver/solver.go: the roots of the     *)
(* split search tree are handed over an unbuffered channel to a pool of    *)
(* workers; each worker walks its root's tree depth first, charging every  *)
(* node to the shared ledger, and one atomic flag stops everybody.  The    *)
(* dispatcher waits for the pool and merges the results in root order.     *)
(*                                                                         *)
(* What a root's tree contains depends on the root and on the solutions    *)
(* known before the search only, since the pruning bounds read nothing     *)
(* that another worker writes: it is the constant Rank.  A solution is its *)
(* rank in the order of SolutionLess, 1 being the best.                    *)
(***************************************************************************)
EXTENDS Integers, FiniteSets, Sequences, Functions

CONSTANTS
    Worker,         \* goroutines the pool may start
    NTasks,         \* number of roots
    TreeSize,       \* [Task -> Nat], nodes of a root's tree left by pruning
    Rank,           \* [Task -> Seq(Nat)], solution at a node in visit order,
                    \*   0 for an inner node or a dead end
    Settings,       \* the configurations to choose from, see Setting
    Seeds,          \* ranks of initialSolutions, best first
    TopN,           \* Config.TopN
    CheckEvery,     \* progressNodeInterval
    MaxNodes,       \* the ledger's execution limit, 0 = unlimited
    StageLimit,     \* the ledger's limit of the running stage, 0 = unlimited
    EarlierCharges  \* nodes charged by the phases before this one

Task == 1..NTasks
Stage == "stage"
Earlier == {<<0, k>> : k \in 1..EarlierCharges}
SearchNode == UNION {{<<i, k>> : k \in 1..TreeSize[i]} : i \in Task}
AllNodes == Earlier \cup SearchNode

Setting ==
    [workers    : Nat,              \* Config.Workers
     limited    : BOOLEAN,          \* searchTask.HasNodeBudget
     budget     : [Task -> Nat],    \* searchTask.NodeBudget
     ceiling    : Nat,              \* worst rank that reaches a ceiling, 0 = no
                                    \*   ceiling stops the search
     cancelable : BOOLEAN]          \* whether Config.Context can be canceled

ASSUME SearchAssumption ==
    /\ IsFiniteSet(Worker) /\ NTasks \in Nat
    /\ TreeSize \in [Task -> Nat]
    /\ \A i \in Task : Rank[i] \in [1..TreeSize[i] -> Nat]
    /\ Settings \subseteq Setting /\ Seeds \in Seq(Nat)
    /\ TopN \in Nat \ {0} /\ CheckEvery \in Nat \ {0}
    /\ MaxNodes \in Nat /\ StageLimit \in Nat /\ EarlierCharges \in Nat

VARIABLES
    setting,        \* the configuration of this search
    main,           \* where the dispatcher is
    next,           \* the next root to dispatch
    pc, job,        \* per worker: where it is, and its root (0 before any)
    cursor,         \* per worker: the node being visited, in visit order
    nodes,          \* per worker: nodes charged for this root
    results,        \* per worker: best solutions of this root, sorted
    hit,            \* per worker: hitNodeBudget
    ceiled,         \* per worker: a ceiling was reached (stoppedAfter...Ceiling)
    partials,       \* results channel: [root -> result] for those received
    stopFlag,
    ctxDone,        \* Context.Err() # nil
    charged, stageCharged, spent,   \* the ledger's normal lane
    combined,       \* what runTasks returns
    refused,        \* ghost: the ledger has refused a node
    seen,           \* ghost: ranks of the leaves inserted
    afterStop,      \* ghost, per worker: nodes charged with stopFlag set
    afterCancel     \* ghost, per worker: nodes charged with ctxDone

ledgerVars == <<charged, stageCharged, spent>>
ghosts == <<refused, seen, afterStop, afterCancel>>
walk == <<job, cursor, nodes, results, hit, ceiled>>
dispatch == <<main, next, partials, combined>>
vars == <<setting, dispatch, pc, walk, stopFlag, ctxDone, ledgerVars, ghosts>>

Ledger == INSTANCE NodeLedger
    WITH Node <- AllNodes, Stages <- {Stage},
         StageOf <- [n \in AllNodes |-> Stage],
         StageLimit <- [s \in {Stage} |-> StageLimit],
         InitialDiagnosticMax <- 0, DiagnosticQuotas <- {},
         diagnosticMax <- 0, diagnosticCharged <- 0,
         diagnosticStageCharged <- [s \in {Stage} |-> 0],
         diagnosticSpent <- {}
-----------------------------------------------------------------------------
\* The best of a list, the best first: at n stands the rank with fewer than n
\* better ones in the list and at least n that are no worse.
Better(list, r) == {i \in DOMAIN list : list[i] < r}
NoWorse(list, r) == {i \in DOMAIN list : list[i] <= r}
AtPlace(list, n, r) == Cardinality(Better(list, r)) < n /\ n <= Cardinality(NoWorse(list, r))
Best(list, size) == [n \in 1..size |-> CHOOSE r \in Range(list) : AtPlace(list, n, r)]

\* mergeSolutions: the sorted union, cut to the best TopN; nothing is removed
\* as a duplicate.
Merge(left, right) ==
    LET all == left \o right
    IN  Best(all, IF Len(all) > TopN THEN TopN ELSE Len(all))

\* insertCandidateWithScoreOnlyFilter: a candidate no better than the worst of
\* a full list is dropped, any other is inserted in order.
InsertCandidate(list, rank) == Merge(list, <<rank>>)

\* The list after a node: an inner node offers nothing.
Kept(list, rank) == IF rank = 0 THEN list ELSE InsertCandidate(list, rank)

NoResult ==
    [solutions |-> <<>>, explored |-> 0, hit |-> FALSE, ceiled |-> FALSE]
Result(w) == [solutions |-> results[w], explored |-> nodes[w],
              hit |-> hit[w], ceiled |-> ceiled[w]]

\* A plausible slip, used to test the properties.
PlusLastHit(a, b) == [solutions |-> Merge(a.solutions, b.solutions),
                      explored  |-> a.explored + b.explored,
                      hit       |-> b.hit,
                      ceiled    |-> a.ceiled \/ b.ceiled]

\* The merge loop at the end of runTasks: what it has combined after the first
\* i roots, passing over those not received.
Plus(a, b) == [solutions |-> Merge(a.solutions, b.solutions),
               explored  |-> a.explored + b.explored,
               hit       |-> a.hit \/ b.hit,
               ceiled    |-> a.ceiled \/ b.ceiled]
Merged(parts) ==
    LET after[i \in 0..NTasks] ==
            IF i = 0 THEN NoResult
            ELSE IF i \in DOMAIN parts THEN Plus(after[i - 1], parts[i])
                                       ELSE after[i - 1]
    IN  after
MergeInRootOrder(parts) == Merged(parts)[NTasks]
-----------------------------------------------------------------------------
\* One worker or one root: no goroutine, the caller walks the roots itself.
Sequential == setting.workers <= 1 \/ NTasks <= 1
PoolSize == IF Sequential THEN 1
            ELSE IF setting.workers > NTasks THEN NTasks ELSE setting.workers

Init ==
    /\ setting \in Settings
    /\ main = "check" /\ next = 1
    /\ \E pool \in SUBSET Worker :
          /\ Cardinality(pool) = PoolSize
          /\ pc = [w \in Worker |-> IF w \in pool THEN "idle" ELSE "exit"]
    /\ job = [w \in Worker |-> 0]
    /\ cursor = [w \in Worker |-> 1]
    /\ nodes = [w \in Worker |-> 0]
    /\ results = [w \in Worker |-> <<>>]
    /\ hit = [w \in Worker |-> FALSE]
    /\ ceiled = [w \in Worker |-> FALSE]
    /\ partials = <<>>
    /\ ctxDone \in (IF setting.cancelable THEN BOOLEAN ELSE {FALSE})
    /\ stopFlag = ctxDone
    /\ charged = EarlierCharges
    /\ stageCharged = [s \in {Stage} |-> EarlierCharges]
    /\ spent = Earlier
    /\ combined = NoResult
    /\ refused = FALSE /\ seen = {}
    /\ afterStop = [w \in Worker |-> 0]
    /\ afterCancel = [w \in Worker |-> 0]

\* The caller's context is canceled, at any moment.
Cancel ==
    /\ setting.cancelable /\ ~ctxDone
    /\ ctxDone' = TRUE
    /\ UNCHANGED <<dispatch, pc, walk, stopFlag, ledgerVars, ghosts>>
-----------------------------------------------------------------------------
\* The dispatcher.  With one worker or one root the loop runs the root itself,
\* so it looks at the flag between roots only, and never at the context.

\* Plausible slips, used to test the properties.
PoolMayStillRun == main = "closed"
LeaveUnclosed ==
    /\ main' = main
    /\ UNCHANGED <<next, partials, combined, pc, walk, ctxDone, ledgerVars,
                   ghosts>>
CapturedLoopVariable(n) == IF n < NTasks THEN n + 1 ELSE n

\* close(jobs) after the loop or a break.
StopDispatch ==
    /\ main' = "closed"
    /\ UNCHANGED <<next, partials, combined, pc, walk, ctxDone, ledgerVars,
                   ghosts>>

NoRootLeft(n) == n > NTasks
RootSent(n) == n

CheckStop ==
    /\ main = "check"
    /\ Sequential => \A w \in Worker : pc[w] \in {"idle", "exit"}
    /\ IF NoRootLeft(next) \/ stopFlag
       THEN StopDispatch /\ UNCHANGED stopFlag
       ELSE /\ main' = IF Sequential THEN "send" ELSE "context"
            /\ UNCHANGED <<next, partials, combined, pc, walk, stopFlag,
                           ctxDone, ledgerVars, ghosts>>

CheckContext ==
    /\ main = "context"
    /\ IF ctxDone
       THEN StopDispatch /\ stopFlag' = TRUE
       ELSE /\ main' = "send"
            /\ UNCHANGED <<next, partials, combined, pc, walk, stopFlag,
                           ctxDone, ledgerVars, ghosts>>

\* jobs <- job meets <-jobs: runTask starts from the known solutions.
Receive(w) ==
    /\ main = "send" /\ pc[w] = "idle"
    /\ pc' = [pc EXCEPT ![w] = "enter"]
    /\ job' = [job EXCEPT ![w] = RootSent(next)]
    /\ cursor' = [cursor EXCEPT ![w] = 1]
    /\ nodes' = [nodes EXCEPT ![w] = 0]
    /\ results' = [results EXCEPT ![w] = Merge(<<>>, Seeds)]
    /\ hit' = [hit EXCEPT ![w] = FALSE]
    /\ ceiled' = [ceiled EXCEPT ![w] = FALSE]
    /\ next' = next + 1
    /\ main' = "check"
    /\ UNCHANGED <<partials, combined, stopFlag, ctxDone, ledgerVars, ghosts>>

\* waitGroup.Wait, then the merge.
PoolGone == main = "closed" /\ \A w \in Worker : pc[w] = "exit"
Collect ==
    /\ PoolGone
    /\ main' = "done"
    /\ combined' = MergeInRootOrder(partials)
    /\ UNCHANGED <<next, partials, pc, walk, stopFlag, ctxDone, ledgerVars,
                   ghosts>>
-----------------------------------------------------------------------------
\* A worker inside runTask.  "enter": at the head of visit; "context": past
\* the flag; "charge": past the budget; "counted": charged; "return": the
\* recursion is over.

GoTo(w, place) == pc' = [pc EXCEPT ![w] = place]
AtNode(w) == job[w] \in Task /\ cursor[w] <= TreeSize[job[w]]

\* Plausible slips, used to test the properties.
BudgetUsedUpLate(w) == setting.limited /\ nodes[w] > setting.budget[job[w]]
SeesCancelOnce(w) == ctxDone /\ nodes[w] = 0

SeesCancel(w) == ctxDone /\ nodes[w] % CheckEvery = 0
BudgetUsedUp(w) == setting.limited /\ nodes[w] >= setting.budget[job[w]]

\* Plausible slips, used to test the properties.
EnterUnchecked(w) ==
    /\ pc[w] = "enter" /\ AtNode(w)
    /\ GoTo(w, "context")
    /\ UNCHANGED <<dispatch, walk, stopFlag, ctxDone, ledgerVars, ghosts>>
DeliverUnlessStopped(w) ==
    /\ pc[w] = "return"
    /\ partials' = IF stopFlag THEN partials
                   ELSE [i \in DOMAIN partials \cup {job[w]} |->
                          IF i = job[w] THEN Result(w) ELSE partials[i]]
    /\ GoTo(w, "idle")
    /\ UNCHANGED <<main, next, combined, walk, stopFlag, ctxDone, ledgerVars,
                   ghosts>>

\* The flag is set, or no node is left: every pending call returns.
Unwind(w) ==
    /\ pc[w] \in {"enter", "counted"}
    /\ stopFlag \/ (pc[w] = "enter" /\ ~AtNode(w))
    /\ GoTo(w, "return")
    /\ UNCHANGED <<dispatch, walk, stopFlag, ctxDone, ledgerVars, ghosts>>

Enter(w) ==
    /\ pc[w] = "enter" /\ AtNode(w) /\ ~stopFlag
    /\ GoTo(w, "context")
    /\ UNCHANGED <<dispatch, walk, stopFlag, ctxDone, ledgerVars, ghosts>>

\* The context is looked at before a node and after charging one.
NoticeCancel(w) ==
    /\ pc[w] \in {"context", "counted"}
    /\ SeesCancel(w)
    /\ stopFlag' = TRUE
    /\ GoTo(w, "return")
    /\ UNCHANGED <<dispatch, walk, ctxDone, ledgerVars, ghosts>>

\* Out of budget: this call returns, the sibling calls still pending make the
\* same tests.  (The nodes below this one stand for some of those calls.)
ExhaustBudget(w) ==
    /\ pc[w] = "context" /\ ~SeesCancel(w) /\ BudgetUsedUp(w)
    /\ hit' = [hit EXCEPT ![w] = TRUE]
    /\ cursor' = [cursor EXCEPT ![w] = @ + 1]
    /\ GoTo(w, "enter")
    /\ UNCHANGED <<dispatch, job, nodes, results, ceiled, stopFlag, ctxDone,
                   ledgerVars, ghosts>>

PassChecks(w) ==
    /\ pc[w] = "context" /\ ~SeesCancel(w) /\ ~BudgetUsedUp(w)
    /\ GoTo(w, "charge")
    /\ UNCHANGED <<dispatch, walk, stopFlag, ctxDone, ledgerVars, ghosts>>

\* reportNode when the ledger grants the node.
ChargeNode(w) ==
    /\ pc[w] = "charge"
    /\ Ledger!Charge(Stage)
    /\ spent' = spent \cup {<<job[w], cursor[w]>>}
    /\ nodes' = [nodes EXCEPT ![w] = @ + 1]
    /\ GoTo(w, "counted")
    /\ afterStop' = [afterStop EXCEPT ![w] = @ + IF stopFlag THEN 1 ELSE 0]
    /\ afterCancel' = [afterCancel EXCEPT ![w] = @ + IF ctxDone THEN 1 ELSE 0]
    /\ UNCHANGED <<dispatch, job, cursor, results, hit, ceiled, stopFlag,
                   ctxDone, refused, seen>>

\* reportNode when the ledger refuses: everybody stops, hitNodeBudget stays.
RefuseNode(w) ==
    /\ pc[w] = "charge"
    /\ ~Ledger!CanCharge(Stage)
    /\ stopFlag' = TRUE /\ refused' = TRUE
    /\ GoTo(w, "return")
    /\ UNCHANGED <<dispatch, walk, ctxDone, ledgerVars, seen,
                   afterStop, afterCancel>>

\* The body of visit: a leaf is inserted, and a ceiling stops everybody.
Explore(w) ==
    /\ pc[w] = "counted" /\ ~SeesCancel(w) /\ ~stopFlag
    /\ LET rank == Rank[job[w]][cursor[w]]
           kept == Kept(results[w], rank)
           top  == rank # 0 /\ kept[1] <= setting.ceiling
       IN  /\ results' = [results EXCEPT ![w] = kept]
           /\ stopFlag' = (stopFlag \/ top)
           /\ ceiled' = [ceiled EXCEPT ![w] = @ \/ top]
           /\ seen' = seen \cup ({rank} \ {0})
    /\ cursor' = [cursor EXCEPT ![w] = @ + 1]
    /\ GoTo(w, "enter")
    /\ UNCHANGED <<dispatch, job, nodes, hit, ctxDone, ledgerVars, refused,
                   afterStop, afterCancel>>

\* results <- runTask(...); the channel holds one result per root.
Deliver(w) ==
    /\ pc[w] = "return"
    /\ partials' = [i \in DOMAIN partials \cup {job[w]} |->
                       IF i = job[w] THEN Result(w) ELSE partials[i]]
    /\ GoTo(w, "idle")
    /\ UNCHANGED <<main, next, combined, walk, stopFlag, ctxDone, ledgerVars,
                   ghosts>>

\* The jobs channel is closed and empty.
Leave(w) ==
    /\ pc[w] = "idle" /\ main = "closed"
    /\ GoTo(w, "exit")
    /\ UNCHANGED <<dispatch, walk, stopFlag, ctxDone, ledgerVars, ghosts>>
-----------------------------------------------------------------------------
WorkerStep(w) ==
    \/ Unwind(w) \/ Enter(w) \/ NoticeCancel(w) \/ ExhaustBudget(w)
    \/ PassChecks(w) \/ ChargeNode(w) \/ RefuseNode(w) \/ Explore(w)
    \/ Deliver(w) \/ Leave(w)

MainStep == CheckStop \/ CheckContext \/ Collect

Finished == main = "done" /\ UNCHANGED vars

Next ==
    \/ UNCHANGED setting /\ MainStep
    \/ UNCHANGED setting /\ \E w \in Worker : Receive(w) \/ WorkerStep(w)
    \/ UNCHANGED setting /\ Cancel
    \/ Finished

Spec == Init /\ [][Next]_vars

\* The Go scheduler runs every runnable goroutine; nobody has to cancel.
FairSpec ==
    /\ Spec
    /\ WF_vars(UNCHANGED setting /\ MainStep)
    /\ WF_vars(UNCHANGED setting /\ \E w \in Worker : Receive(w))
    /\ \A w \in Worker : WF_vars(UNCHANGED setting /\ WorkerStep(w))
-----------------------------------------------------------------------------
TypeOK ==
    /\ main \in {"check", "context", "send", "closed", "done"}
    /\ next \in 1..(NTasks + 1)
    /\ pc \in [Worker -> {"idle", "enter", "context", "charge", "counted",
                          "return", "exit"}]
    /\ job \in [Worker -> 0..NTasks]
    /\ cursor \in [Worker -> Nat \ {0}] /\ nodes \in [Worker -> Nat]
    /\ DOMAIN partials \subseteq Task
    /\ stopFlag \in BOOLEAN /\ ctxDone \in BOOLEAN
    /\ charged \in Nat /\ stageCharged \in [{Stage} -> Nat]
    /\ spent \subseteq AllNodes
    /\ seen \subseteq Nat
    /\ afterStop \in [Worker -> Nat] /\ afterCancel \in [Worker -> Nat]

\* Parallel workers overspend neither limit (ledger.go:5-7).
NoOverspend == Ledger!NoOverspend

\* Every node a worker visits is one grant of the ledger for a node nobody was
\* granted before: no root runs twice and no visit escapes the accounts.
ChargesOnce == [][Ledger!Next]_ledgerVars

\* Once the flag is up, a worker that was past the check charges at most the
\* one node it had in hand, whatever is dispatched afterwards.
StopBoundsExtraWork == \A w \in Worker : afterStop[w] <= 1

\* A canceled context costs each worker at most one check interval.
CancelBoundsExtraWork == \A w \in Worker : afterCancel[w] <= CheckEvery

\* The tree of a root walked alone: what is kept after its first k nodes, how
\* many of them the budget of setting s affords, and the result.
Found(i) ==
    LET after[k \in 0..TreeSize[i]] ==
            IF k = 0 THEN Merge(<<>>, Seeds) ELSE Kept(after[k - 1], Rank[i][k])
    IN  after
Affordable(s, i) == IF s.limited /\ s.budget[i] < TreeSize[i]
                    THEN s.budget[i] ELSE TreeSize[i]
Alone(s, i) == [solutions |-> Found(i)[Affordable(s, i)],
                explored  |-> Affordable(s, i),
                hit       |-> Affordable(s, i) < TreeSize[i],
                ceiled    |-> FALSE]

\* A search nothing stopped returns what one worker would have returned,
\* whatever the interleaving was.
Deterministic ==
    (main = "done" /\ ~stopFlag) =>
        combined = MergeInRootOrder([i \in Task |-> Alone(setting, i)])

\* However the search ends, the nodes it reports are the nodes it charged.
ReportedIsCharged ==
    main = "done" => combined.explored = charged - EarlierCharges

\* However the search ends, nothing returned is worse than the best leaf any
\* worker inserted, in whichever root and however late.
BestSurvives ==
    main = "done" =>
        \A r \in seen : \E i \in DOMAIN combined.solutions :
            combined.solutions[i] <= r

\* What the caller calls "completed" (solver.go:1196-1203): no root hit its
\* budget and no root reached a ceiling.
Completed == ~combined.hit /\ ~combined.ceiled

\* A search called completed has visited every node pruning left: a root that
\* was cut short, or never handed over, is not taken for an exhausted tree.
\* After a cancellation the caller returns an error instead (:1205), and a
\* ledger sized as the caller sizes it refuses no search
\* (LaterPhasesNeverRefused of StageSearch); no result tells of these two.
CompletedIsExhausted ==
    (main = "done" /\ Completed /\ ~ctxDone /\ ~refused) =>
        SearchNode \subseteq spent

\* The search ends: dispatcher and workers never wait for one another forever.
SearchEnds == <>(main = "done")
=============================================================================
