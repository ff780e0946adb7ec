----------------------------- MODULE TreeSearch -----------------------------
(***************************************************************************)
(* The tree search of solver.go and what comes before and after it, on     *)
(* real layouts: the seed searches, the roots, the depth-first walk of     *)
(* each with its pool of candidates and its pruning, the merge of the      *)
(* pools, completion and refinement.  The roots run one after another, as  *)
(* with one worker; ParallelSearch has several, and the budgets.           *)
(*                                                                         *)
(* A configuration is one of SeedSearch with split (the depth of the       *)
(* roots), stopOnPriority, taskNodes (the node budget of a root, 0 for     *)
(* none) and refineMoves.                                                  *)
(***************************************************************************)
EXTENDS SeedSearch

VARIABLES
    which,      \* index of the configuration
    prepared,   \* what solveLayoutStage prepared for it, and the nodes of its seeds
    phase,      \* "seeding", "between" roots, "visiting", "completion", "refine" or
                \* "done"
    roots,      \* roots still to start
    todo,       \* nodes of the root still to visit, the next one first
    spent,      \* nodes visited of the root
    pool,       \* candidates of the root
    found,      \* candidates of the roots that ended, then of the stage
    stopped,    \* the stop flag
    exhausted,  \* HitNodeBudget
    queue,      \* solutions still to complete, or to refine
    trials,     \* layouts completion still tries for the first of them
    left,       \* moves left for that
    round       \* round of the solution being refined

vars == <<which, prepared, phase, roots, todo, spent, pool, found, stopped, exhausted,
          queue, trials, left, round>>
end == <<queue, trials, left, round>>

Cfg == Configs[which]
Limit == CandidateLimit(Cfg.topN)

\* buildTasksWithStats
Roots(config, plan) ==
    Expanded(config, plan, [depth |-> 0, layout |-> EmptyLayout, covers |-> <<>>], config.split)

Init ==
    /\ which \in DOMAIN Configs
    /\ prepared = PlanOf(Cfg) @@ [seedNodes |-> 0]
    /\ phase = "seeding"
    /\ roots = Roots(Cfg, prepared)
    /\ todo = <<>> /\ spent = 0
    /\ pool = <<>> /\ found = <<>>
    /\ stopped = FALSE /\ exhausted = FALSE
    /\ queue = <<>> /\ trials = <<>> /\ left = 0 /\ round = 0

\* Where the seeds, joined to the solutions known before, reach a ceiling the
\* stage ends with them.
AtPriorityCeiling(solutions) ==
    Cfg.stopOnPriority /\ solutions # <<>> /\ PriorityCeilingReached(Cfg, solutions[1].score)

Seed ==
    /\ phase = "seeding"
    /\ \E seed \in {Seeds(Cfg, prepared, Limit)} :
       \E solutions \in {MergeSolutions(prepared.seeds, seed.solutions, Limit)} :
          /\ prepared' = [prepared EXCEPT !.seeds = solutions, !.seedNodes = seed.nodes]
          /\ stopped' = (seed.stopped \/ AtPriorityCeiling(solutions))
          /\ found' = IF stopped' THEN Truncate(solutions, Cfg.topN) ELSE <<>>
          /\ phase' = IF stopped' THEN "done" ELSE "between"
    /\ UNCHANGED <<which, roots, todo, spent, pool, exhausted, end>>

StartRoot ==
    /\ phase = "between" /\ roots # <<>> /\ ~stopped
    /\ LET root == Head(roots) IN
       todo' = <<[root EXCEPT !.covers = InitialCovers(prepared, root.depth, root.layout)]>>
    /\ roots' = Tail(roots)
    /\ spent' = 0
    /\ pool' = MergeSolutions(<<>>, prepared.seeds, Limit)
    /\ phase' = "visiting"
    /\ UNCHANGED <<which, prepared, found, stopped, exhausted, end>>
-----------------------------------------------------------------------------
(* visit of runTask.                                                        *)
Full == Len(pool) >= Limit
Worst == Last(pool).score
HasNodes == Cfg.taskNodes = 0 \/ spent < Cfg.taskNodes

\* Plausible slips, used to test the properties.
CutAtEqual(node) ==
    \/ LacksRoom(Cfg, prepared, node)
    \/ /\ Full /\ Prunes(prepared.contexts[1])
       /\ ComparePriorityCounts(CoverageBound(prepared.contexts[1], prepared.order, node.covers[1], node.depth),
                                Worst.priority) <= 0
    \/ /\ Full /\ OutgoingEnabled(Cfg)
       /\ ComparePriorityCounts(OutgoingBound(Cfg, node.layout), Worst.priority) <= 0

Cut(node) ==
    \/ LacksRoom(Cfg, prepared, node)
    \/ Full /\ CoveragePrunes(prepared.contexts[1], prepared.order, node.covers[1], node.depth, Worst)
    \/ Full /\ ExactPrunes(Cfg, Tail(prepared.contexts), Tail(node.covers), prepared.order,
                           node.layout, node.depth, Worst)
    \/ Full /\ OutgoingPrunes(Cfg, node.layout, Worst)

CeilingHit(score) ==
    \/ Cfg.stopOnCoverage /\ Cfg.topN = 1 /\ CeilingReached(prepared.contexts[1], score)
    \/ Cfg.stopOnPriority /\ PriorityCeilingReached(Cfg, score)

Visiting == phase = "visiting" /\ todo # <<>> /\ ~stopped /\ HasNodes

Prune ==
    /\ Visiting /\ Cut(Head(todo))
    /\ todo' = Tail(todo)
    /\ spent' = spent + 1
    /\ UNCHANGED <<which, prepared, phase, roots, pool, found, stopped, exhausted, end>>

Descend ==
    /\ Visiting /\ ~Cut(Head(todo)) /\ ~IsLeaf(prepared, Head(todo))
    /\ todo' = Children(Cfg, prepared, Head(todo)) \o Tail(todo)
    /\ spent' = spent + 1
    /\ UNCHANGED <<which, prepared, phase, roots, pool, found, stopped, exhausted, end>>

Evaluate ==
    /\ Visiting /\ ~Cut(Head(todo)) /\ IsLeaf(prepared, Head(todo))
    /\ pool' = Offer(pool, Head(todo).layout, Cfg, Limit)
    /\ stopped' = CeilingHit(pool'[1].score)
    /\ todo' = Tail(todo)
    /\ spent' = spent + 1
    /\ UNCHANGED <<which, prepared, phase, roots, found, exhausted, end>>

\* The root is done, or out of nodes, or the search is stopped.
FinishRoot ==
    /\ phase = "visiting" /\ ~Visiting
    /\ found' = MergeSolutions(found, pool, Limit)
    /\ exhausted' = (exhausted \/ (todo # <<>> /\ ~stopped))
    /\ todo' = <<>> /\ pool' = <<>>
    /\ phase' = "between"
    /\ UNCHANGED <<which, prepared, roots, spent, stopped, end>>
-----------------------------------------------------------------------------
(* completeSkippedSolutions: the skipped instances tried in what room is    *)
(* left, those with the fewest options and the largest first.               *)
CompletionMoveLimit(refineMoves) ==
    IF refineMoves <= 0 THEN 0 ELSE Max({1000, Min({25000, refineMoves \div 2})})
SkippedInOrder(layout) ==
    LET rank(i) == <<Len(OptionsForInstance(i)), -Cardinality(Items[Inventory[i]].shape), i>>
    IN  SortedBy(Instances \ DOMAIN layout, rank)

BetterSolution(s, t, scoreOnly) == IF Beats(t, scoreOnly, s) THEN t ELSE s
BetterOf(config, s, layout) ==
    BetterSolution(s, Solution(layout, config), EvaluateScoreOnly(layout, config))

\* A layout to try and what of the skipped may still be added to it; in the order
\* of visit, a fresh one is evaluated before what it leads to.
Trials(plan, trial) ==
    IF trial.rest = <<>> THEN <<>>
    ELSE LET i       == Head(trial.rest)
             fits(p) == Fits(trial.layout, p) /\ RespectsCopyOrder(trial.layout, i, p)
             fitting == SelectSeq(plan.options[i], fits)
             tail    == Tail(trial.rest)
         IN  [n \in DOMAIN fitting |->
                 [layout |-> With(trial.layout, i, fitting[n]), rest |-> tail, fresh |-> TRUE]]
             \o <<[trial EXCEPT !.rest = tail, !.fresh = FALSE]>>
FirstTrial(solutions) ==
    IF solutions = <<>> THEN <<>>
    ELSE LET layout == Head(solutions).layout
         IN  <<[layout |-> layout, rest |-> SkippedInOrder(layout), fresh |-> FALSE]>>
-----------------------------------------------------------------------------
(* refineSolution: up to four rounds of the best move of one instance.      *)
MaxRounds == 4
RefineRound(config, plan, current, moves) ==
    LET try(st, move) ==
            LET i == move[1] p == move[2] IN
            CASE st.hit -> st
              [] st.left <= 0 -> [st EXCEPT !.hit = TRUE]
              [] ~Fits(Without(current.layout, i), p) -> st
              [] ~RespectsCopyOrder(current.layout, i, p) -> [st EXCEPT !.left = @ - 1]
              [] OTHER -> [st EXCEPT !.left = @ - 1,
                                     !.best = BetterOf(config, @, With(current.layout, i, p))]
        of(i) == IF i \notin DOMAIN current.layout THEN <<>>
                 ELSE [n \in DOMAIN plan.options[i] |-> <<i, plan.options[i][n]>>]
    IN  FoldLeft(try, [best |-> current, left |-> moves, hit |-> FALSE],
                 FlattenSeq([i \in Instances |-> of(i)]))
-----------------------------------------------------------------------------
(* The end of solveLayoutStage.                                            *)
Searched == phase = "between" /\ (roots = <<>> \/ stopped)
Results == MergeSolutions(prepared.seeds, found, Limit)

\* finishPriorityCeilingResult
ReturnAtCeiling ==
    /\ Searched /\ AtPriorityCeiling(Results)
    /\ found' = Truncate(Results, Cfg.topN)
    /\ phase' = "done"
    /\ UNCHANGED <<which, prepared, roots, todo, spent, pool, stopped, exhausted, end>>

Combine ==
    /\ Searched /\ ~AtPriorityCeiling(Results)
    /\ queue' = Results /\ trials' = FirstTrial(Results) /\ found' = <<>>
    /\ left' = IF Cfg.allowSkips THEN CompletionMoveLimit(Cfg.refineMoves) ELSE 0
    /\ phase' = "completion"
    /\ UNCHANGED <<which, prepared, roots, todo, spent, pool, stopped, exhausted, round>>

\* completeSkippedSolution, one layout at a time.
CompleteOne ==
    /\ phase = "completion" /\ queue # <<>> /\ left > 0
    /\ \E trial \in {Head(trials)} :
       \E more \in {Trials(prepared, trial) \o Tail(trials)},
          best \in {IF trial.fresh THEN BetterOf(Cfg, Head(queue), trial.layout) ELSE Head(queue)} :
           /\ left' = IF trial.fresh THEN left - 1 ELSE left
           /\ IF more = <<>>
              THEN /\ found' = Append(found, best)
                   /\ queue' = Tail(queue)
                   /\ trials' = FirstTrial(Tail(queue))
              ELSE /\ queue' = <<best>> \o Tail(queue)
                   /\ trials' = more
                   /\ UNCHANGED found
    /\ UNCHANGED <<which, prepared, phase, roots, todo, spent, pool, stopped, exhausted, round>>

EndCompletion ==
    /\ phase = "completion" /\ (queue = <<>> \/ left <= 0)
    /\ queue' = Sorted(found \o queue) /\ found' = <<>> /\ trials' = <<>>
    /\ left' = Cfg.refineMoves
    /\ phase' = "refine"
    /\ UNCHANGED <<which, prepared, roots, todo, spent, pool, stopped, exhausted, round>>

\* refineSolution, one round at a time.
RefineOne ==
    /\ phase = "refine" /\ queue # <<>> /\ left > 0
    /\ \E next \in {RefineRound(Cfg, prepared, Head(queue), left)} :
          /\ left' = IF next.hit THEN 0 ELSE next.left
          /\ IF next.best = Head(queue) \/ next.hit \/ round + 1 = MaxRounds
             THEN /\ found' = Append(found, next.best)
                  /\ queue' = Tail(queue)
                  /\ round' = 0
             ELSE /\ queue' = <<next.best>> \o Tail(queue)
                  /\ round' = round + 1
                  /\ UNCHANGED found
    /\ UNCHANGED <<which, prepared, phase, roots, todo, spent, pool, stopped, exhausted, trials>>

Deliver ==
    /\ phase = "refine" /\ (queue = <<>> \/ left <= 0)
    /\ found' = Truncate(UniqueSolutions(Sorted(found \o queue)), Cfg.topN)
    /\ queue' = <<>>
    /\ phase' = "done"
    /\ UNCHANGED <<which, prepared, roots, todo, spent, pool, stopped, exhausted, trials, left, round>>

Next ==
    \/ Seed \/ StartRoot \/ Prune \/ Descend \/ Evaluate \/ FinishRoot
    \/ ReturnAtCeiling \/ Combine \/ CompleteOne \/ EndCompletion \/ RefineOne \/ Deliver

Spec == Init /\ [][Next]_vars
-----------------------------------------------------------------------------
Whole == ~stopped /\ ~exhausted          \* nothing was left unsearched

\* Pruning by bounds, the score-only filter, the split into roots and the merge
\* lose nothing: a search that was neither stopped nor out of nodes holds real
\* layouts only and the best one there is; without seeds, which take places of the
\* pools a second time, exactly the best ones, in order.
SearchFindsTop ==
    Searched /\ Whole =>
        /\ Range(Results) \subseteq Reference[which]
        /\ \A s \in Reference[which] : ~SolutionLess(s, Results[1])
        /\ prepared.seeds = <<>> =>
               /\ Len(Results) = Min({Limit, Cardinality(Reference[which])})
               /\ \A n \in 1..Len(Results) - 1 : SolutionLess(Results[n], Results[n + 1])
               /\ \A s \in Reference[which] \ Range(Results) : SolutionLess(Last(Results), s)

\* What the seed searches hand on are layouts of the whole inventory, each once
\* under its canonical labels and with its own score; they stay within their
\* nodes, the packing walk but for the options of one state; and a beam that is
\* wide enough and not out of nodes is as good as the whole tree.
SeedsAreSound ==
    phase \in {"between", "done"} /\ pool = <<>> /\ queue = <<>> =>
        /\ Range(prepared.seeds) \subseteq Reference[which]
        /\ prepared.seedNodes <=
               IF SharesSeedBudget(Cfg)
               THEN Cfg.seedNodes + Max({Len(OptionsForInstance(i)) : i \in Instances})
               ELSE Cfg.seedNodes
        /\ /\ prepared.seedNodes \in 1..Cfg.seedNodes - 1 /\ ~SharesSeedBudget(Cfg) /\ ~stopped
           /\ Cfg.allowSkips /\ Cfg.beam >= Cardinality(Reference[which])
           => \A s \in Reference[which] : ~SolutionLess(s, prepared.seeds[1])

\* "removes only label permutations of identical inventory copies"
\* (solver.go:2824): a search that keeps every layout keeps every physical one,
\* and, when nothing may be skipped, none of them twice.
TreeKeepsLayouts ==
    Searched /\ Whole /\ Len(Results) < Limit =>
        LET physical == {Physical(l) : l \in Layouts(Results)} IN
        /\ physical = {Physical(l) : l \in AllLayouts(Cfg)}
        /\ ~Cfg.allowSkips => Cardinality(physical) = Len(Results)

\* "it stops only after every requested source priority reaches a safe
\* structural maximum" (README.md:123), and the coverage ceiling in the same
\* way: where the search stops early no layout has a better leading count, nor,
\* at a priority ceiling, better counts at all.
StopsOnlyAtTheBest ==
    phase = "done" /\ stopped =>
        \A s \in Reference[which] :
            IF Cfg.stopOnPriority
            THEN ComparePriorityCounts(found[1].score.priority, s.score.priority) >= 0
            ELSE found[1].score.priority[1] >= s.score.priority[1]

\* Whatever is cut short, the best layout is never lost: what a step drops is
\* not better than all it keeps, through merges, completion and refinement, and
\* the answer is no worse than a seed.
Held == Range(pool) \cup Range(found) \cup Range(queue)
BestIsKept ==
    [][/\ \A s \in Held \ Held' : \E t \in Held' : ~SolutionLess(s, t)
       /\ \A s \in Range(prepared.seeds) \ Range(prepared'.seeds) :
              \E t \in Range(prepared'.seeds) : ~SolutionLess(s, t)
       /\ phase' = "done" => \A s \in Range(prepared'.seeds) : ~SolutionLess(s, found'[1])]_vars

\* The same promise (solver.go:2824) for refinement: a move the copy check
\* refuses leads to a physical layout another move leads to.
MovesKeepLayouts ==
    phase = "refine" =>
        \A s \in Range(queue) : \A i \in DOMAIN s.layout : \A p \in OptionSet(i) :
            Fits(Without(s.layout, i), p) =>
                \E j \in DOMAIN s.layout : \E q \in OptionSet(j) :
                    /\ Fits(Without(s.layout, j), q) /\ RespectsCopyOrder(s.layout, j, q)
                    /\ Physical(With(s.layout, j, q)) = Physical(With(s.layout, i, p))
-----------------------------------------------------------------------------
(* What scoring and bounds owe to every layout the walk comes to.           *)
AtNode == phase = "visiting" /\ todo # <<>>
Node == Head(todo)
AtLeaf == AtNode /\ IsLeaf(prepared, Node)
Leaf == Node.layout
Depths == 0..Len(prepared.order)
Above(d) == [i \in DOMAIN Leaf \ Undecided(prepared.order, d) |-> Leaf[i]]

\* The search compares candidates by EvaluateScoreOnly and keeps what
\* EvaluateLayout says of them: on every layout and for every configuration
\* the two agree, in all seven parts of the score.
EvaluationsAgree ==
    AtNode => EvaluateScoreOnly(Node.layout, Cfg) = EvaluateLayout(Node.layout, Cfg)

\* Compiling the star rules and filtering the recipes by the inventory are
\* optimisations: the activations are those of the rules as the catalog writes
\* them, and no craft of a layout is lost.
ActivatedAsWritten(s, t) ==
    LET source == Inventory[s] target == Inventory[t] stars == Items[source].stars IN
    \E k \in DOMAIN stars :
        /\ Leaf[s].stars[k] \in Leaf[t].cells
        /\ ~stars[k].unknown /\ ~(stars[k].exclude /\ source = target)
        /\ (stars[k].items = {} /\ stars[k].types = {}) \/ MatchesByStrings(stars[k], target)
CompilingHidesNothing ==
    AtLeaf =>
        /\ \A s, t \in DOMAIN Leaf :
               s # t /\ Items[Inventory[s]].condition = NoCondition =>
                   (ActivatedAsWritten(s, t) <=> <<s, t>> \in Stars(Leaf))
        /\ CraftsOf(Recipes, Leaf) = Crafts(Leaf)

\* The coverage carried from node to node is what a fresh count finds.
CoverIsFresh ==
    AtNode => Node.covers = InitialCovers(prepared, Node.depth, Node.layout)

\* Admissible bounds: at no node of a branch is one below the score of the
\* layout the branch ends in, so that cutting what is strictly below the worst
\* candidate loses nothing.  "it never omits a target that a source could still
\* reach" (outgoing_bound.go:10); "Reaching this ceiling proves no later search
\* can improve a priority" (priority_bound.go:9).
BoundsHold ==
    AtLeaf => LET score == EvaluateLayout(Leaf, Cfg) IN
        /\ \A d \in Depths :
               LET before == InitialCovers(prepared, d, Above(d)) IN
               /\ ~CoveragePrunes(prepared.contexts[1], prepared.order, before[1], d, score)
               /\ ~ExactPrunes(Cfg, Tail(prepared.contexts), Tail(before), prepared.order, Above(d), d, score)
               /\ OutgoingEnabled(Cfg) =>
                      \A n \in DOMAIN score.priority : OutgoingBound(Cfg, Above(d))[n] >= score.priority[n]
        /\ OutgoingEnabled(Cfg) =>
               \A n \in DOMAIN score.priority : PriorityCeiling(Cfg)[n] >= score.priority[n]

\* The bound of a partial repair: whatever instances of a layout are taken out,
\* the layout itself remains within the bound, and a target it meets is never
\* rejected.
RepairBoundHolds ==
    AtLeaf /\ OutgoingEnabled(Cfg) =>
        LET counts == EvaluateLayout(Leaf, Cfg).priority IN
        \A removed \in SUBSET Instances :
            LET fixed == [i \in DOMAIN Leaf \ removed |-> Leaf[i]] IN
            /\ PartialRepairFeasible(Cfg, fixed, removed, counts)
            /\ RelaxedStarUpper(fixed, removed) >= Cardinality(Stars(Leaf))

\* "progressively tighter optimistic star bounds" (star_upper_bound.go:11): at
\* every node each of the four bounds is at most the one before it and at least
\* the stars of the layout the branch ends in.
StarBoundsTighten ==
    AtLeaf => \A d \in Depths :
        /\ StructuralStars >= CompatibleStars
        /\ CompatibleStars >= AvailableStars(Above(d))
        /\ AvailableStars(Above(d)) >= GeometricStars(Above(d))
        /\ GeometricStars(Above(d)) >= Cardinality(Stars(Leaf))

\* The bounds on the stars a partial layout may still get.
StarBoundsHold == RepairBoundHolds /\ StarBoundsTighten
=============================================================================
