# Backpack Brawl Solver: TLA+ models, checks and proofs

The program finds the best layout of an inventory of items on a 6x9 backpack
grid. It is one Go solver behind four entry points (a command line, a job
server, a stateless HTTP handler and a WASM module run by a web worker) and a
React front end that talks to the last three. This directory models the parts
whose correctness depends on the order of steps (the search pool, its budgets,
the job server, the two clients, the phases of a solve), and the search itself
on small backpacks: placements, scoring, bounds, the tree search, repairs and
plateaus. TLC checks the models on small instances, and TLAPS proves the
results that matter most for every instance.

How to run, in this directory: `tlc -workers 2 -config MCTreeSearch.cfg
MCTreeSearch` for a run, `tlapm RemoteSolveProofs.tla` for a proof. PROJECT.json
lists the runs, the source lines of every definition, the hazards each property
is for, and for each property a slip in the code that it catches.

## 1. Inventory

Paths are below `src/`. "Hard" is what makes the part worth a model.

### The solver, `internal/solver`

| part | state | operations | hard | what makes it correct |
|---|---|---|---|---|
| node ledger, `ledger.go` | two lanes of counters (normal, diagnostic), total and per stage, under one mutex | charge, charge diagnostic, configure the diagnostic quota, snapshot | several tasks charge at once; a refusal after one of two counters was raised | no limit is overspent; the lanes never mix; a quota is set once |
| parallel search, `solver.go` `runTasks`, `runTask` | the jobs and results channels, an atomic stop flag, per worker a depth-first walk with its node count and its results | dispatch, receive, visit, charge, insert a leaf, stop, deliver, merge | interleaving, a stop in the middle of a root, cancellation polled once per interval, an unbuffered channel | result independent of the interleaving; prompt stop; nothing found is lost; every node charged once; termination |
| task budgets, `initialSplitDepth`, `buildTasksWithStats`, `assignBudgetsWithPolicy` | none (pure) | choose the split depth, build the roots, divide the budget | rounding, budgets below the number of roots, zero that means unlimited | the shares add up to the budget; no root starves; the split stays affordable |
| tree search on layouts, `solver.go` (`runTask`, `buildTasksWithStats`, `mergeSolutions`, `refineSolutions`), `completion.go` | the partial layout, the coverage carried along, the pool of candidates | place or skip the next instance, prune, offer a leaf, stop at a ceiling, merge, complete, refine | carried state restored on the way back; pruning against a list that changes; copies placed in an order that is not their index order | the best layouts are found; every physical layout is reached, and once; a stop is at the best |
| progress tracker, `progress.go` | best list, last emission time, node totals under a mutex | offer an incumbent, report it, count nodes | snapshot taken inside and reported outside the lock; throttling; one tracker per stage | what is shown never beats what is returned, and does not get worse |
| search stages, `SolveLayout`, `solveLayoutStage` | carried solutions and diagnostics of earlier stages | seeds, pre-repair, tree search, post-repair, plateau phases, completion, refinement, diagnostics | budgets subtracted from one another; early returns at ceilings; cancellation between phases | the phases stay inside the stage's quota; nothing found is lost between them |
| seed searches (`constellation_seed.go`, `packing_*.go`, `star_seed.go`, `coverage_seed.go`, `constellation_scheduler.go`) | beams, slots, scheduler state | expand, keep the best of a beam, schedule slots | quotas per slot, unused budget passed on | quotas respected; beams keep the best |
| repair (`repair.go`) | best layouts, neighbourhoods tried, the budget left | build neighbourhoods, divide the budget, search one in parallel tasks, merge | shares of shares, bases that change within a round, cancellation seen rarely | what fits its share is searched completely; the budget is kept; never worse |
| plateau searches (`plateau.go`) | the archive of layouts at the ceiling, levels with quotas, the walk's states and hashes | observe a layout, run a level, hand a quota on, move along the plateau | an archive shared by workers, quotas carried over, an accepted layout must keep the target | the archive keeps what it should of what it saw; only strictly better replaces; every result is legal |
| pruning bounds (`coverage.go`, `exact_bound.go`, `outgoing_bound.go`, `priority_bound.go`, `star_*.go`, `partial_repair_bound.go`) | tables built before the search, read-only during it | bound a partial layout | an inadmissible bound prunes the optimum silently | bound >= best completion |
| diagnostics, `operation_profile.go` | counters | count | none: no decision reads them | - |

### Around the solver

| part | state | operations | hard | what makes it correct |
|---|---|---|---|---|
| job server, `cmd/solver-server/main.go` | job table, `activeJobs`, per job status, result and cancel function; mutexes for server and job | create, poll, cancel, run, record, release, restart | the only slot is taken and given back by two goroutines on several paths; cancel races completion | one solve at a time; the slot is neither leaked nor freed twice; a status never goes back |
| remote client, `web/src/wasm.ts` `solveWithOci` | job id, settled flag, poll timer | create, poll, abort, settle | lost requests, an abort at any moment, a server that forgot the job | a promise settles once, with its own job's result |
| worker client, `web/src/wasm.ts` `solveWithWorker`, `web/src/solverWorker.ts` | the page's worker, its belief about the worker's catalog, the pending call; the worker's loaded module and catalog | call, abort, reset, install, solve, load | cached belief about another thread; load retried; replies of a call that is over | the worker solves with the catalog of the call |
| geometry, catalog (`internal/geometry`, `internal/catalog`) | none (pure) | rotate, place, compile star rules, filter recipes | rotations around corners, aliases, name lists | compiling hides no activation and no craft |
| scoring (`internal/scoring`) | none (pure) | a full evaluation, and a score alone | two implementations; fixpoints over crafts and loose stars | they agree on every layout |
| stateless handler, command line, WASM glue (`api/solve.go`, `internal/websolve`, `internal/cli`, `cmd/wasm-solver`) | none between requests | translate one request to one call of the solver | - | - |
| front end, `web/src/App.tsx` | forms, the shown result | render | shows partial results | shows the last one it got |
| benchmarks, `internal/benchmark`, `cmd/g0b-v2-expansion` | files | measure offline | - | not part of the running program |

Interactions: the front end calls the remote client or the worker client; the
remote client talks HTTP to the job server; the server, the handler, the
command line and the worker each call `SolveLayout`; its stages run the seed,
repair and tree searches one after the other, and each of those charges the one
ledger of the execution and offers incumbents to the progress tracker, whose
reporter is a callback into the entry point.

## 2. Modules

| module | models | uses |
|---|---|---|
| NodeLedger | the ledger's two lanes | - |
| ParallelSearch | dispatcher, pool, depth-first walks | INSTANCE NodeLedger for every charge |
| TaskBudgets | split depth and division of the budget | - |
| Backpack | board, rotations, placements, copies, star rules, recipes | - |
| Scoring | both evaluations of a layout | EXTENDS Backpack |
| Bounds | coverage, exact, outgoing, priority, partial-repair and star bounds | EXTENDS Scoring |
| Candidates | solutions, pools, the nodes of a walk | EXTENDS Bounds |
| SeedSearch | the coverage, star and packing beam searches, and which of them run | EXTENDS Candidates |
| TreeSearch | seeds, roots, walks, stops, merge, completion, refinement | EXTENDS SeedSearch |
| Neighbourhoods | the operators that choose what to take out, their order and budgets | EXTENDS Candidates |
| PlateauArchive | the archive | EXTENDS Neighbourhoods |
| Repair | rounds, tasks, the walk of a neighbourhood | EXTENDS PlateauArchive |
| Plateau | levels and the walk along the plateau | EXTENDS Repair |
| SmallBackpack | a catalog for TLC | EXTENDS Candidates |
| StageSearch | the phases of a stage over one node limit, the stages of a solve | - |
| ProgressStream | improvements, tracker and reporter over several stages | - |
| JobServer | handlers, solver goroutines, slot, restart | - |
| RemoteSolve | clients and network around the server | EXTENDS JobServer |
| WorkerClient | page and worker with the messages between them | - |
| NodeBudgetProofs (NodeLedger and TaskBudgets), ParallelSearchProofs, StageSearchProofs, ProgressStreamProofs, RemoteSolveProofs (JobServer too), WorkerClientProofs, PlateauProofs (Repair too) | theorems | the modules named |
| NumberLemmas | division, induction and recursion over natural numbers, for the proofs | - |
| MC* | instances for TLC | the modules named |

### How state and actions correspond to the code

**NodeLedger.** `charged`, `stageCharged`, `diagnosticMax`,
`diagnosticCharged`, `diagnosticStageCharged` are the fields of `nodeLedger`;
`spent` and `diagnosticSpent` are history: which nodes were granted. Each action
is one critical section of the mutex: `Grant`, `GrantDiagnostic`,
`ConfigureDiagnosticMax`. A refusal changes nothing and is the negation of
`CanCharge`; what a refused caller does is in ParallelSearch.

**ParallelSearch.** The dispatcher's `main` follows the loop of `runTasks`:
`check` (stop flag), `context`, `send`, `closed`, `done`. The unbuffered send
and the receive are one action, `Receive`. A worker's `pc` follows `visit`:
`enter` (flag), `context` (context and budget), `charge`, `counted` (flag and
context again, then the body), `return`. The flag is read in one step and the
ledger locked in a later one, as in the code. A tree is a sequence of nodes in
visit order with the solution at each leaf; solutions are ranks, 1 the best.
That is sound because the bound tables are built before the search, and the
list a task prunes against is its own: what a root contains depends on the root
and the seeds alone. `hit` and `ceiled` are the flags by which a result tells
what cut it short, and from which the caller decides what to call the search
(`Completed`). Sequential execution (one worker or one root) takes the
same steps without looking at the context in the dispatcher.

**TaskBudgets.** Three steps, one per function. An instance is its number of
placements; the roots actually built are any number up to the estimate, since
overlaps and symmetry remove some; a root is its weight.

**Backpack, Scoring, Bounds, Candidates.** Operators without state. Sorts of
lists are insertions that keep equal elements as they were: `Insert` is
`bubbleSolutionBackward`, and `Arranged` sorts a list by a rank of what the code
compares. A coordinate
is a pair, an instance its `OriginalIndex`, a layout a function from placed
instances to placements; strings are compared in canonical form, never spelt.
`EvaluateLayout` and `EvaluateScoreOnly` follow the two evaluations of the code,
which share little. Bounds has one operator per bound, and the ceilings; where
the code carries a value from node to node (`coverageSearchState`) there are an
initial value and a step (`InitialCovers`, `CoverPlacement`, `CoverSkip`).
Masks of cells and of instances are sets. Candidates has the order of
solutions, pools with their score-only filter, and the children of a node.

**SeedSearch.** `SeedBeams` is the choice of `solveLayoutStage` among the three
searches, with the shared budget: each is a beam, a record of its kind,
configuration, plan and budget. `BeamWalk` folds over the levels of the tree:
`GrowLevel` extends the states of a level one option at a time (`GrowState`,
`Grow`), counting nodes until the budget is used up (`UsedUp`), and keeps the
best by the order of its search (`CoverageRank`, `StarRank`, `PackingRank`), the
packing beam one per class first (`KeepBestOfClass`). `SeedResult` offers the
layouts of the last level, and `Seeds` merges the results of the beams.

**TreeSearch.** `Seed` runs the seeds before the first root. `todo` is the call stack of `visit`: the nodes still to visit,
the next one first. `Prune`, `Descend` and `Evaluate` are the three ways through
its body; `StartRoot` and `FinishRoot` start a root and merge its pool;
`Combine`, `CompleteOne`, `RefineOne` and `Deliver` follow `solveLayoutStage`
after the search. The roots run one after another here; ParallelSearch has
their interleaving, with the trees as constants.

**Neighbourhoods.** One operator per operator of `buildRepairNeighborhoods`,
each giving sets of instances to take out with a weight; their order,
deduplication and `SharesOver`, the division of the budget.

**PlateauArchive.** `Observe` is the critical section of `observe`:
`SelectEntries` keeps, of all layouts, the best per signature of links and then
others while there is room.

**Repair.** `StartRound` builds and divides, `PassOver` drops a neighbourhood
whose base is gone, `StartRepair` splits one into `tasks`, `StartTask`,
`Prune`, `Descend`, `Complete`, `Halt` and `EndTask` are the walk of
`runRepairTask`, `MergeRepair` the end of the neighbourhood. `noticed` is the
closure's `canceled`: it is set only where the count of nodes meets the
interval, while `canceled` is the context itself. `observed` is history.

**Plateau.** `StartLNS`, `PassLevel`, `StartLevel`, `StartOpportunity`,
`EndOpportunity`, `EndLevel`, `EndLNS` follow `plateauTieBreakLNS`, which
searches its neighbourhoods by the walk of Repair; `StartWalk`, `Leave`,
`TryMove`, `EndWalk` follow `refinePlateau`. `carried` is the quota a level
hands to the next.

**StageSearch.** `pc` walks through `solveLayoutStage`: one action per phase,
per skipped phase, per early return and per check of the context. A phase is
one step (`Explore`): it charges some of its budget to the stage's ledger,
stops at the first refusal and finds some score or none. `spent` is what each
phase reports (the `NodesExplored` of its result), `charged` what the ledger
counts: every budget is computed from the first, every refusal comes from the
second. `setting` holds what the Config and the catalogue decide (kind of
seeding, whether priorities have a ceiling, repairs, stops, skips) and the
limits of the stages. The packing walks of the packing and constellation seeds
may charge more than their budget: an infeasible or deduplicated option goes on
to the next one before the budget is looked at (`packing_seed.go:145`,
`WithOverrun`). `Return` is the end of a stage in `SolveLayout`. `refused` and
`found` are history.

**ProgressStream.** A stage is seeds, repair, then the pool. `Improve` is a
worker's own best getting better, `OfferTaken` / `OfferLoses` /
`OfferThrottled` the critical section of `reportIncumbent`, `Report` the
callback after the lock is released, `EndStage` hands the carried solutions to
the next stage with a fresh tracker. Time is abstracted: a second has passed or
not, nondeterministically (`Throttles`).

**JobServer.** Per request a handler place (`idle`, `reading`, `registered`,
`launched`, `accepted`, `refused`...) and a solver place (`none`, `solving`,
`returned`, `recorded`, `gone`); per job status and result. Actions are the
critical sections of `server.mu` and `job.mu` and the steps between them:
`Reserve`, `RejectBody`, `Register`, `Launch`, `Accept`, `Report`, `Returns`,
`Record`, `Release`, `Cancel`, `Restart`.

**RemoteSolve.** Client variables are the closure of `solveWithOci`; requests
are delivered at once, later, or never. An abort discards the answer still on
its way: each fetch is given the signal.

**WorkerClient.** Two FIFO channels between page and worker. The page's
`active`, `believed` catalog and worker generation; the worker's module state
and catalog. `worker.terminate()` and `postMessage` are external and modelled
from their use: a terminated worker delivers nothing more.

## 3. Runs

| run | instance | shows |
|---|---|---|
| ledger | 3 stages (limits 1, 2, none), 6 nodes, total 3, quotas -1, 0, 2, 3 | NoOverspend, of the total and of each stage |
| parallel_search | 3 roots of 4, 2 and 2 nodes; five settings: 3 workers with tight budgets and a ceiling leaf, cancelable; 3 workers with tight budgets, nothing stops them; 2 workers without budgets, cancelable; 1 worker twice | StopBoundsExtraWork, CancelBoundsExtraWork, BestSurvives, ChargesOnce; Deterministic (an unstopped search returns what one worker would), CompletedIsExhausted (a search called completed has visited every node) |
| parallel_search_ledger | 2 workers; the ledger refuses the fifth node, or a ceiling stops them; fair | ReportedIsCharged, SearchEnds |
| task_budgets | up to 3 instances of up to 2 placements, budgets 0, 1, 5, 9, 16, weights 1, 2, 5 | BudgetIsDivided: exactly, every root alive, no more roots than affordable |
| tree_search | 2x3 board, 4 instances of 3 items (two copies), 25 configurations, eight of them seeded | SearchFindsTop, TreeKeepsLayouts, StopsOnlyAtTheBest, BestIsKept, SeedsAreSound (seeds are canonical layouts with their own scores, within their nodes but for one packing state, and a beam wide enough is as good as the tree); at every node or leaf EvaluationsAgree, CompilingHidesNothing, CoverIsFresh, BoundsHold, StarBoundsHold |
| tree_moves | refinement of a result that leaves a copy out | violation, finding 2 |
| repair | the same board, 11 configurations: every kind of priority, 1 and 2 workers, budgets of 10 to 600 nodes, cancelable, plateaus with two levels or three of which one is deep | NeighbourhoodIsSearched, SharesAreEqual, BudgetsAreKept, ArchiveKeepsBestLinks, OnlyBetterReplaces, ResultsAreLegal |
| stage_search | 9 settings: 16 nodes with each kind of seeding, 2 and 10 nodes, no limit, and two stages of 4 and 8; 3 scores; canceled at any moment | LaterPhasesNeverRefused, ReportIsCharge, BestIsReturned |
| progress_stream | 1 or 2 workers, 2 stages, 3 ranks, throttling | ReturnedBeatsShown; ShownNeverWorsens with one worker, as in the browser |
| progress_reordered | the same without throttling | violation, finding 1 |
| remote_solve | the server with 2 clients, 2 jobs, 1 restart, a network that loses messages, fair | SlotAccounted, SlotReturns, ResolvedIsOwnResult, UnwatchedOnlyByLostContact, CallSettles |
| worker_client | 4 calls, 2 catalogs, 3 workers, fair | BeliefIsTrue, WorkerNeverSurprised, ResultUsesOwnCatalog, CallSettles |

The server has no run of its own: RemoteSolve takes every step of JobServer, so
remote_solve checks the server's properties under its real clients.

**Bounds and why they are enough.** Every bound is a CONSTANT given in a
configuration. The ledger's limits are chosen so that the total and a stage
limit are each the first to refuse in some interleaving. Three workers and
three roots give a worker that never ran, one that runs two roots, and a root
still in the dispatcher's hand when the stop comes; one of the roots is larger
than its budget and the ceiling leaf is not in the last root. Workers are
interchangeable, so parallel_search and the progress runs declare symmetry;
runs with liveness do not. `CheckEvery` is
2 instead of 8192: a tree passes the interval's boundary with nodes on both
sides. Policy constants of TaskBudgets (128 nodes a root, 256 roots a worker)
become 2 and 3, so that each of the two limits binds. StageSearch scales the policy to a few
nodes: caps, shares and the least repair are chosen so that each of them binds
in some setting, and an overrun of up to 16 nodes lets packing use up the whole
limit, as it can in a solve of a few hundred nodes. Two of the three scores
reach every priority, so the plateau phases, which start there, still have
something to find. Two clients let one hold the slot while the other is
refused, and a job of the second follow the release. Restarts are bounded by `MaxRestarts`, workers of
the page by `MaxWorkers`; both bounds only cut behaviours short.

The catalog of SmallBackpack is small and crowded: two copies, a two-cell item
with two rotations, rules by type, by name, by alias and by condition tree,
targets that compete, recipes that share ingredients and one that can never be
made. Six cells cannot hold all placements, so there are skips and dead ends. In
that space the tree is searched completely (a few hundred layouts) and compared
with the set of all layouts; the configurations cover every semantics of
priorities, coverage groups, with and without skips, roots and none, budgets that
run out, and stops at each ceiling. TopN is 2 or 1 so that pools fill up and prune,
and 80 where every layout is to be kept.

Repair scales the numbers of the code to that board: pools of 4 candidates,
neighbourhoods of 2 or 3 instances, at most 6 a round, 3 bases, an archive of 3,
a look at the context every 4 nodes, 30 tasks. Each bound is reached: archives
overflow, rounds reach their limit of neighbourhoods, pools fill, budgets run
out in the middle of a neighbourhood, of a level and of the walk. Plateaus need
reachable ceilings, so repair uses the same catalog with fewer stars.

**Deadlock.** `CHECK_DEADLOCK FALSE` stands where the modelled part really
stops: a finished ledger, a finished search, all requests served. The
parallel search checks deadlock: its only terminal state is `Finished`.

**Fairness.** FairSpec of ParallelSearch: weak fairness of the dispatcher, of
the rendezvous and of each worker; the Go scheduler runs every runnable
goroutine. Nobody has to cancel. JobServer: once the body has been read the
handler and the solver goroutine go on; the arrival of the body is not fair,
because the server sets a timeout for the header only. That the solver returns
is `SearchEnds`. RemoteSolve: every `fetch` ends with an answer or an error and
timers fire; a request may still be lost. WorkerClient: page and worker take
their next message; loading the module ends in success or failure, since the
code puts a timeout on it.

## 4. Proofs

TLAPS proves these for every value of the constants, from the assumption named
in each module (finite sets of requests, natural limits, trees as functions).

*NodeBudgetProofs, the ledger.* The inductive invariant `IInv` is TypeOK, CountersMatch,
NoOverspend and DiagnosticBounded. The limits alone are not inductive against
the sets of granted nodes: CountersMatch (each counter is the size of the set
of nodes it stands for) ties the counters the code tests to those sets.
Theorems: BudgetNeverOverspent, DiagnosticNeverOverspent, LanesStaySeparate.

*RemoteSolveProofs.* For the server, `SlotInv` is TypeOK, SlotAccounted and
LaunchedFirst. The slot changes owner from the handler to the goroutine, and
only the fact that a goroutine exists after `Launch` alone shows that the owner
is counted once. Theorems: SlotIsAccounted, NeverTwoSolvers. For the server
with its clients: RemoteImplementsServer (each step of the composition is a
step of the server or leaves it alone), from which SlotAccountedRemotely
follows. What the clients know is reduced to three facts no server step undoes,
restarts included (lemma FactsLast): the request was accepted, an accepted job
has ended, a job was done. `RemoteInv` says that whatever a client believes is
one of them (ClientView, JobsAgree, CancelsFit) and how a settled call ended
(ClientSettled). That is why an answer given before a restart, or a cancel that
overtakes a poll, cannot mislead a call. Theorems: ResolvesOwnResult,
NothingRunsUnwatched.

*WorkerClientProofs.* The channels could hold anything as far as the properties
say. `ClientInv` adds Conversation (while a call is active exactly one message
about it is under way: posted, being served, or replied; between calls there is
none) and Agreement (what the message asks for fits what both ends hold).
Theorems: BeliefIsAlwaysTrue, GuardsNeverNeeded, ResultsUseTheirCatalog.

*ParallelSearchProofs.* `SearchInv` adds to TypeOK: RootReady (a root to send
exists), Placed (a busy worker stands at a node of a root that was handed
over), OwnRoots (no two workers have the same root), Behind (the nodes charged
of a worker's root are behind its cursor) and OneInHand (past the flag a
worker has charged nothing since the flag went up). A grant is new because of
OwnRoots and Behind together. Theorems: StopIsPrompt, PoolChargesOnce. For a
cancellation CancelPaced ties the count of nodes charged since to the remainder
of the worker's own count by the interval, which it reaches at most once
(CancelIsPrompt: at most `CheckEvery` nodes). What is returned is
followed on its way: Delivered (a root handed over is with one busy worker until
its result is among the partials, where nothing replaces it), Accounts (what a
worker or a partial result counts are the ledger's grants for that root),
Survives (whatever was ever found is covered by a list still on its way) and
Undisturbed (while nothing has stopped the search, a worker has what a lone walk
of its root would have at the same node). StopExplained says who tells of a stop:
while the flag is up, a worker's or a delivered result says that a ceiling was
reached, or the context is canceled, or the ledger has refused a node. `DeliveryInv`
is their conjunction.
The merge loop is an induction over the roots, and needs two facts about lists:
a sorted list exists for every list (PlaceIsTaken: the least number that n of
the list do not exceed is at place n), and cutting the sorted union keeps its
first (MergeKeeps). Theorems: ReportsItsCharges, NothingFoundIsLost,
PoolIsDeterministic, CompletedSearchIsExhaustive. The last one counts: results
that tell of no budget and no ceiling, in a search nothing stopped, report whole
trees, what they report is what was granted, and as many different nodes as a
tree has are all its nodes. It leaves out a canceled search, for which the caller
returns an error instead (`solver.go:1205`), and one the ledger refused a node:
no result tells of that, and such a search would be called completed. That the
ledger never refuses it is LaterPhasesNeverRefused of StageSearch.

*ProgressStreamProofs.* A list that is being reported has left the search's own
variables, so `StreamInv` says where the search still holds one at least as
good, phase by phase (BetweenStages, BeforeSearch, InSearch with Backed: in the
merged results or in those of a root still being walked), and, for one worker,
that what is about to be reported is what the tracker holds (InStep). Theorems:
ReturnsTheBestShown, OneWorkerNeverStepsBack.

*NodeBudgetProofs, the roots' budgets.* `BudgetsInv`: the depth chosen is one whose estimate was
tested (SplitTested), the roots are no more than that estimate allows
(RootsAfforded), and the shares are those of the equal or of the weighted
division (Shared). The sum is exact because every rounding loses less than one
node: the rest that the loop hands out node by node is smaller than the number
of roots, so it ends within one round. That holds for the rest of the equal
division and, by induction over the roots, for the sum of the rounded weighted
shares. Theorem: BudgetDividedExactly.

*NumberLemmas.* Quotients and remainders; induction in the form "a set that
holds 0 and with k also k + 1 holds 0..n"; and that a function defined by
recursion up to n exists and satisfies its equations (RecursionDefined,
RecursionHolds). In this form induction takes a set instead of a predicate, so
that a definition by recursion over positions (PartialSums, Found, Merged) can
be reasoned about.

*StageSearchProofs.* `QuotaInv` ties the two counts together: Accounted (the
ledger's count of the stage is the sum of what its phases report), Unspent
(phases that have not run have spent nothing, so the sums that leave them out
are complete), Covered (what is promised to the running repair and reserved for
the later one is left in the ledger) and Fresh (a stage starts with nothing
charged). None of the properties is inductive without them: a budget is a
difference of reported counts, a refusal a comparison of charged ones. A lemma
per kind of step (PhaseStep, SkipStep, ReturnStep, FailStep) leaves each action
to show only that its budget fits. `IncumbentInv` says that the best layout so
far is the better of the stage's and the carried one, which merging at the end
of a stage turns into the returned one. Theorems: PhasesKeepTheirBudgets,
StatisticsAddUp, BestComesBack and StageSearchType, for all limits, percentages,
caps and overruns.

*PlateauProofs.* A phase divides its nodes over levels, a level or a round over
neighbourhoods, a neighbourhood over tasks, and what one part leaves goes to the
next. `IInv` says at each of these places that what is spent and what is still
promised fit together into what was given: TasksWithinQuota (the nodes of the
tasks that ended against the parts of those very tasks), BatchHasQuotas with
RepairWithinBudget and LNSWithinBudget (the nodes of a batch and Pledged, the
quotas of its neighbourhoods to come, against the round's or the level's share),
WalkWithinBudget and RestWithinBudget (the walk, and between the phases), and
Control (which of them hold at which point of the code). BudgetsAreKept alone is
not inductive: a neighbourhood keeps its budget only because the parts of the
tasks that ended and of those to come are exactly its budget, and a round only
because the quotas are. Two facts about the division carry that: DividedEvenly
(for any neighbourhoods and any total, all of it is given out, equally among the
bases and equally within each, to the node) and that what is divided is a finite
sequence, which is followed from the placements of an instance over plans,
options and the children of a node to the tasks of a neighbourhood, the archive
and the neighbourhoods of a level, a lemma each. PreparedIs keeps what the
preparation gave the walks. Theorems: PlateauInvariant, BudgetsHold,
SharesAreEven. The library's theorems about folds and finite induction take an
operator as a parameter and cannot be cited; each sum is unfolded at its recursive
equation instead, and induction is over a set of lengths (NumberLemmas).

The same module proves that what repair and plateau search keep is legal.
ResultsAreLegal, which looks at the elites and the archive, is not inductive:
both take over layouts that were made elsewhere. `AllIsLegal` joins to IInv every
place a layout can wait: ListsAreLegal (elites, archive), WalkIsLegal (the
incumbents, the pools of the tasks that ended, the pool of the running one),
LNSIsLegal (the bases of a phase, those of the neighbourhoods of each level and
of the batch, the champion) and StepsAreLegal (the champion, the states of the
walk and the moves from the one it is at). The layouts that a task still works
on are not legal yet, as instances are missing; for them WalkIsLegal says what
`Placed` says: what is placed is placed legally, and where nothing may be left
out exactly those instances are missing that the order has not reached. That this is
enough at the end of the order, that a step down keeps it (OneMorePlaced), that
taking instances out of a legal layout gives the first node (a layout with fewer
instances stays in the order of its copies), and that a placement that passes
Fits and RespectsCopyOrder keeps it (WithKeepsPartly) is where the rules of the
board come in. The rest follows layouts through the lists: sorting, merging,
deduplicating, cutting off, the archive's choice and the division of a level
give nothing that was not put in. Theorems: LegalInvariant, LegalResultsHold.

And it proves that the best result is never given up for a worse one. `LeadInv`
joins to AllIsLegal that no result comes before the first (Leads) and that the
champion of a phase is at the ceiling. That a merge puts the best first and
cutting it off leaves it (MergeLeads) takes an order: SolutionLess must be
transitive, on the layouts a solve can hold. So three orders are proved: counts
of any two lengths, zeros after the last (CountsCompared), hence scores
(ScoresCompared); and layouts, by the first instance that is placed elsewhere
(LayoutsCompared), where no two placements of an item have the same key
(OptionsArePlaces, KeyOrderOrders). Scores compare only if every component is a
number, which is followed through crafts, stars, coverage groups and each kind of
priority (ScoresAreNumbers). Legality is needed as well: only a layout on the
placements of its items, with the score it has, can be compared. `Changes` says
what a step does to the results (keep them, drop them when canceled, merge what
a neighbourhood found, or merge a champion that is better), and LeadAfter what
each of these does to the first. Theorems: LeadInvariant, OnlyBetterHolds.

*Assumptions.* Workers, requests and jobs are finite sets; limits, ranks,
budgets and percentages are natural numbers; TopN, the check interval, the
minimum per root and the number of stages are positive; a tree is a function
from its nodes to ranks; the seeds are a list of ranks; "no call" and "no
catalog" are neither a call nor a catalog. For PlateauProofs: the board has
natural sides and the mask lies on it; every shape is finite and not empty;
rotations, stars, recipes and the inventory are sequences, and an anchor is among
its recipe's ingredients; different copies have different IDs; the caps on
neighbourhoods, tasks and the archive are natural, and so are a configuration's
nodes, percentages, basis points and number of results, where a repair asks for
no more than the solve; seeds and levels are sequences, and the layouts of the seeds are
legal (SeedAssumption; SeedsAreSound checks it of the seed searches); priorities,
coverage groups and the sources of a group are lists; and at least one layout is
always kept. TLC evaluates each assumption on the configurations above.

*Only model-checked.* What the layouts themselves are. In TreeSearch: the bounds
(BoundsHold, StarBoundsHold, CoverIsFresh), the evaluations (EvaluationsAgree,
CompilingHidesNothing), the seeds (SeedsAreSound) and the search as a whole
(SearchFindsTop, TreeKeepsLayouts, StopsOnlyAtTheBest): each compares a sum or a
fixpoint over a catalog with the best of all ways to complete a layout, an
induction over the shape of the tree with an invariant per node. In Repair and
Plateau: NeighbourhoodIsSearched, which is about the whole walk of a
neighbourhood, and ArchiveKeepsBestLinks, which compares the archive with all the
layouts it was ever offered. Liveness (SearchEnds, SlotReturns, both
CallSettles), since fairness and ENABLED are out of the prover's reach.

## 5. Findings

1. *A shown result may be older than the best one found* (progress_reordered).
   The snapshot is taken under the tracker's lock and reported after it, so two
   workers may report in the wrong order, and the consumer keeps the last one.
   `web/src/App.tsx:541` calls what is shown the best partial result found so
   far. Throttling is a second way to the same: an improvement less than a
   second after the last report is recorded and never reported unless a better
   one follows (the same run with Throttles = TRUE).
2. *Completion and refinement lose layouts* (tree_moves). The check that
   prunes relabelled twins in the tree is also asked about layouts whose labels
   are fixed (`solver.go:2611`, `completion.go:114`), where no twin is
   considered: `solver.go:2824` says it removes only label permutations.

Neither of them makes a final result of the tree search wrong:
ReturnedBeatsShown, SearchFindsTop and TreeKeepsLayouts hold.

Observed while modelling, and no finding because no line promises otherwise:
the key under which a neighbourhood counts as tried names the rank of its base,
not the base, so after the ranking changes another layout's neighbourhood may
count as tried (`repair.go:1337`); a worker's pool starts with the incumbents and
the merge removes no duplicates, so one layout may take several of the few
places of a result (`repair.go:1236`; `uniqueSolutions`, `solver.go:1420`, comes
after the lists were cut); `refinePlateau` never looks at the context
(`plateau.go:1135`), and walks from the incumbent only if the archive has nothing
else (`plateau.go:1132`).

## 6. Not modelled, and why

*Seed searches.* Of the seeds, the constellation seed, its scheduler and the
session in which a packing walk is paused and resumed are not modelled: they are
one step over their budget in StageSearch. SeedSearch takes no refusal by the
ledger and no cancellation in the middle of a beam; StageSearch has both around
it. Seen in the seeds that are modelled, and no finding since nothing promises
otherwise: the packing beam can charge more than its budget (27 nodes asked, 31
charged with a beam of 6); and a beam whose budget is used up exactly by the
last skip of a level returns no seed at all, so that more nodes may give fewer
seeds (budgets 7, 18 and 25 with the third base of SmallBackpack).

*Around repair and plateau.* The repair before the tree search is modelled, the
one after it differs by its starting layouts; Repair goes on to the plateau
phases directly, without the tree search between them, and charges its own
count instead of the ledger (StageSearch has the sums, ParallelSearch the
ledger). Tasks of one neighbourhood run one at a time in any order. Statistics
and traces are left out. That the rounds end is only argued: each round starts
neighbourhoods whose keys are new, of which there are finitely many.

*Scoring and data.* Texts of reports, reading and validating the data files,
`internal/scenario`. *Entry points.* Rendering, forms, the command line, the
stateless handler and the WASM glue keep no state that another step reads.
*Diagnostics and operation profiles* are counters that no decision reads.
*Benchmarks* are offline tools.

Inside the modelled parts: HTTP framing and CORS, JSON, wording of messages and
node counters of the progress reports are left out; the body's arrival has no
deadline; finished jobs stay in the table for ever, as in the code.

## 7. What could follow

1. ArchiveKeepsBestLinks for every catalog. An entry's rank is a list of numbers,
   since the counts of a score are; that an archive built one entry at a time keeps
   what one built of all entries would is an invariant still to be found.
2. Constellation scheduler and the packing session: a paused walk resumed later
   does the same as one that was never paused.
3. StageSearch with Repair and TreeSearch in the place of its one-step phases.
