----------------------------- MODULE SeedSearch -----------------------------
(***************************************************************************)
(* The seed searches of internal/solver: before the tree search a beam     *)
(* walks the tree level by level, keeps the most promising partial layouts *)
(* of each and offers what it ends with as first solutions.  There are     *)
(* three: for the coverage of one group (coverage_seed.go), for complete   *)
(* layouts (packing_seed.go) and for stars (star_seed.go).                 *)
(*                                                                         *)
(* A configuration is one of Candidates with seedNodes, packingNodes and   *)
(* beam, of the resolved policy, and topN, stopOnCoverage.  A state of the *)
(* beam is a node of the tree with its rank among the states.              *)
(***************************************************************************)
EXTENDS Candidates

CONSTANT Alphabet       \* item identifiers and "skip", in the order of strings

ASSUME AlphabetAssumption == ItemIDs \cup {"skip"} \subseteq Range(Alphabet)

NamePlace(name) == CHOOSE n \in DOMAIN Alphabet : Alphabet[n] = name

\* A fold up to where it is stopped, in blocks: TLC evaluates FoldLeft by a
\* recursion as deep as the sequence is long.
Blocks(s) == [n \in 1..(Len(s) + 24) \div 25 |-> SubSeq(s, 25 * n - 24, Min({25 * n, Len(s)}))]
FoldUntilStopped(Op(_, _), base, s) ==
    FoldLeft(LAMBDA acc, block :
                 IF acc.stopped THEN acc
                 ELSE FoldLeft(LAMBDA a, x : IF a.stopped THEN a ELSE Op(a, x), acc, block),
             base, Blocks(s))

Downwards(counts) == [n \in DOMAIN counts |-> -counts[n]]
-----------------------------------------------------------------------------
(* Orders of the instances.                                                *)

\* coverageSeedOrder, coverageSeedInstanceGroup
CoverageSeedOrder(ctx) ==
    LET group(i) == CASE i \in ctx.targets -> 0 [] Reaching(ctx, i) # {} -> 1 [] OTHER -> 2
        rank(i)  == <<group(i), IF i \in ctx.targets THEN -Cardinality(ctx.possible[i]) ELSE 0,
                      -Cardinality(Items[Inventory[i]].shape), Len(OptionsForInstance(i)),
                      NamePlace(Inventory[i]), i>>
    IN  SortedBy(Instances, rank)

PackingSeedOrder ==
    LET area(i) == IF OptionsForInstance(i) = <<>> THEN 0
                   ELSE Cardinality(OptionsForInstance(i)[1].cells)
        rank(i) == <<Len(OptionsForInstance(i)), -area(i), i>>
    IN  SortedBy(Instances, rank)
-----------------------------------------------------------------------------
(* Orders of the states.                                                   *)

\* The choices made so far, as the strings they are compared by.
StateKey(plan, node) ==
    FlattenSeq([n \in 1..node.depth |->
        LET i == plan.order[n] IN
        IF i \in DOMAIN node.layout
        THEN <<NamePlace(Inventory[i])>> \o PlacementKey(node.layout[i])
        ELSE <<NamePlace("skip"), 0, 0, 0>>])

PotentialOver(layout, Priority(_, _)) == Total([i \in DOMAIN layout |-> Priority(i, layout[i])])
AllCounts(score) == score.priority \o score.rest
ScoreParts(config, layout) == Downwards(AllCounts(EvaluateScoreOnly(layout, config)))

\* coverageSeedCounts, coverageSeedPotentialCounts: of the placed targets, and of
\* all that are not skipped with every source that might reach them.
PlacedCounts(ctx, cover) ==
    CountsFromSources([t \in cover.placed |-> cover.covered[t]], Len(ctx.sources))
PotentialCounts(ctx, cover) ==
    CountsFromSources(
        [t \in cover.placed \cup (ctx.targets \ cover.decided) |->
            ctx.possible[t] \cup (IF t \in cover.placed THEN cover.covered[t] ELSE {})],
        Len(ctx.sources))

CoverageRank(config, plan, node) ==
    LET ctx == plan.contexts[1] IN
    Downwards(PlacedCounts(ctx, node.covers[1]))
    \o <<-PotentialOver(node.layout, LAMBDA i, p : CoveragePlacementPriority(ctx, i, p))>>
    \o Downwards(PotentialCounts(ctx, node.covers[1]))
    \o <<-Cardinality(DOMAIN node.layout)>> \o StateKey(plan, node)

StarRank(config, plan, node) ==
    ScoreParts(config, node.layout)
    \o <<-PotentialOver(node.layout, LAMBDA i, p : PriorityForPlacement(config, i, p)),
         -Cardinality(DOMAIN node.layout)>>
    \o StateKey(plan, node)

\* packingFeasibility: the options every instance still to come would have.
LegalOptions(plan, node) ==
    [i \in Undecided(plan.order, node.depth) |->
        Cardinality({p \in OptionSet(i) : Fits(node.layout, p) /\ RespectsCopyOrder(node.layout, i, p)})]
Feasible(legal) == 0 \notin Range(legal)
Restricted(legal) == IF DOMAIN legal = {} THEN 0 ELSE Min(Range(legal))

\* freeSpaceFragmentation: the connected parts of the free cells.
Join(cell, parts) ==
    LET touched == {part \in parts : part \cap Neighbours(cell) # {}}
    IN  (parts \ touched) \cup {{cell} \cup UNION touched}
Fragments(layout) == Cardinality(FoldSet(Join, {}, GridMask \ Occupied(layout)))

PackingRank(config, plan, node, legal) ==
    <<-Restricted(legal), -Total(legal), Fragments(node.layout)>>
    \o ScoreParts(config, node.layout) \o StateKey(plan, node)

\* packingStateClassKey: the same cells taken by as many of each item.
PackingClass(layout) == <<Occupied(layout), [id \in ItemIDs |-> Cardinality(OfItem(id) \cap DOMAIN layout)]>>

\* A beam is one such search: its kind, configuration, plan and budget of nodes.
RankOf(beam, node, legal) ==
    CASE beam.kind = "coverage" -> CoverageRank(beam.config, beam.plan, node)
      [] beam.kind = "star"     -> StarRank(beam.config, beam.plan, node)
      [] beam.kind = "packing"  -> PackingRank(beam.config, beam.plan, node, legal)
State(beam, node, legal) ==
    [node |-> node, rank |-> RankOf(beam, node, legal),
     hopeless |-> beam.kind = "packing" /\ ~Feasible(legal)]
Before(s, t) == SeqLess(s.rank, t.rank)
-----------------------------------------------------------------------------
(* The walk.                                                               *)

\* appendStarSeedState, appendCoverageSeedState: cut back to the width of the
\* beam whenever there are four times as many.
KeepState(states, s, width) ==
    LET all == Append(states, s)
    IN  IF Len(all) <= 4 * width THEN all ELSE Truncate(SortSeq(all, Before), width)

\* nextByClass: one state of each class, the best.
SameClass(s, t) == PackingClass(s.node.layout) = PackingClass(t.node.layout)
WorseTwin(states, s) == \E t \in Range(states) : SameClass(s, t) /\ ~Before(s, t)
KeepBestOfClass(states, s) == Append(SelectSeq(states, LAMBDA t : ~SameClass(s, t)), s)

\* Plausible slip, used to test the properties.
UsedUpLate(nodes, budget) == nodes > budget

UsedUp(nodes, budget) == nodes >= budget

\* A child is paid for, then kept or not.  The budget is looked at after a child
\* that places its instance and is kept; a packing walk notices it after a hopeless
\* child too, but finishes the options of the state at hand first.
Grow(beam, acc, s, placed) ==
    LET nodes == acc.nodes + 1
        over  == UsedUp(nodes, beam.budget)
    IN  CASE s.hopeless ->
                 [acc EXCEPT !.nodes = nodes, !.out = @ \/ over]
          [] ~s.hopeless /\ beam.kind = "packing" /\ WorseTwin(acc.next, s) ->
                 [acc EXCEPT !.nodes = nodes]
          [] OTHER ->
                 [next  |-> IF beam.kind = "packing" THEN KeepBestOfClass(acc.next, s)
                                                     ELSE KeepState(acc.next, s, beam.config.beam),
                  nodes |-> nodes, out |-> acc.out \/ (placed /\ over), stopped |-> placed /\ over]

\* One state of a level with all its children.
GrowState(beam, acc, node) ==
    LET i == beam.plan.order[node.depth + 1] IN
    CASE acc.out \/ UsedUp(acc.nodes, beam.budget) -> [acc EXCEPT !.out = TRUE]
      [] ~acc.out /\ ~UsedUp(acc.nodes, beam.budget) /\ LacksRoom(beam.config, beam.plan, node) -> acc
      [] OTHER ->
             FoldUntilStopped(
                 LAMBDA a, child : Grow(beam, a, State(beam, child, LegalOptions(beam.plan, child)),
                                        i \in DOMAIN child.layout),
                 acc, Children(beam.config, beam.plan, node))

CutLevel(beam, all) ==
    [states |-> Truncate(SortSeq(all.next, Before), beam.config.beam),
     nodes  |-> all.nodes, out |-> all.out]
GrowLevel(beam, walk) ==
    CutLevel(beam, FoldUntilStopped(LAMBDA acc, state : GrowState(beam, acc, state.node),
                       [next |-> <<>>, nodes |-> walk.nodes, out |-> FALSE, stopped |-> FALSE],
                       walk.states))

BeamWalk(beam) ==
    LET root == [depth |-> 0, layout |-> EmptyLayout, covers |-> InitialCovers(beam.plan, 0, EmptyLayout)]
    IN  FoldLeft(LAMBDA walk, d : IF walk.out \/ walk.states = <<>> THEN walk ELSE GrowLevel(beam, walk),
                 [states |-> <<[node |-> root]>>, nodes |-> 0, out |-> FALSE],
                 [d \in 1..Len(beam.plan.order) |-> d])

\* The layouts the beam ended with; the coverage search stops at its ceiling.
ReachesCeiling(beam, score) ==
    /\ beam.kind = "coverage" /\ beam.config.stopOnCoverage /\ beam.config.topN = 1
    /\ CeilingReached(beam.plan.contexts[1], score)
NoSeeds == [solutions |-> <<>>, nodes |-> 0, stopped |-> FALSE]
Stopping(beam, result) ==
    [result EXCEPT !.stopped = ReachesCeiling(beam, result.solutions[1].score)]
SeedResult(beam, walk, limit) ==
    LET complete(state) == beam.config.allowSkips \/ DOMAIN state.node.layout = Instances
    IN  FoldUntilStopped(
                 LAMBDA acc, state :
                     Stopping(beam, [acc EXCEPT
                         !.solutions = Offer(@, state.node.layout, beam.config, limit)]),
                 [NoSeeds EXCEPT !.nodes = walk.nodes], SelectSeq(walk.states, complete))

\* Each search is one beam, or none where there is nothing to look for.
CoverageSeedSearch(config, plan, budget) ==
    LET ctx == plan.contexts[1] IN
    IF ~Prunes(ctx) \/ ctx.targets = {} \/ budget = 0 THEN <<>>
    ELSE <<[kind |-> "coverage", config |-> config, budget |-> budget,
            plan |-> [plan EXCEPT !.order = CoverageSeedOrder(ctx), !.contexts = <<ctx>>]]>>

StarSeedSearch(config, plan, budget) ==
    IF budget = 0 \/ plan.order = <<>> THEN <<>>
    ELSE <<[kind |-> "star", config |-> config, budget |-> budget,
            plan |-> [plan EXCEPT !.contexts = <<>>]]>>

\* Nothing is ever skipped here, whatever the configuration allows.
PackingSeedSearch(config, plan, budget) ==
    IF budget = 0 \/ Instances = {} THEN <<>>
    ELSE <<[kind |-> "packing", config |-> [config EXCEPT !.allowSkips = FALSE], budget |-> budget,
            plan |-> [plan EXCEPT !.order = PackingSeedOrder, !.contexts = <<>>]]>>

\* mergeSeedResults; the one search that stops is never joined to another.
MergeSeedResults(left, right, limit) ==
    [solutions |-> MergeSolutions(left.solutions, right.solutions, limit),
     nodes |-> left.nodes + right.nodes, stopped |-> left.stopped \/ right.stopped]

\* The part of solveLayoutStage that chooses: no coverage to look for leaves the
\* star seed to outgoing priorities, which counted per instance share its budget
\* with the packing seed.  (The constellation seed is not modelled.)
SharesSeedBudget(config) == config.semantics = "outgoing_v3" /\ config.seedNodes >= 4
SeedBeams(config, plan) ==
    CASE plan.contexts[1] # NoContext -> CoverageSeedSearch(config, plan, config.seedNodes)
      [] plan.contexts[1] = NoContext /\ UsesPotential(config) /\ SharesSeedBudget(config) ->
             PackingSeedSearch(config, plan, config.packingNodes)
             \o StarSeedSearch(config, plan, config.seedNodes - config.packingNodes)
      [] plan.contexts[1] = NoContext /\ UsesPotential(config) /\ ~SharesSeedBudget(config) ->
             StarSeedSearch(config, plan, config.seedNodes)
      [] OTHER -> <<>>
Seeds(config, plan, limit) ==
    FoldLeft(LAMBDA result, beam :
                 MergeSeedResults(result, SeedResult(beam, BeamWalk(beam), limit), limit),
             NoSeeds, SeedBeams(config, plan))
=============================================================================
