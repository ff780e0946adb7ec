---------------------------- MODULE Candidates -----------------------------
(***************************************************************************)
(* What every search of internal/solver works with: solutions and their    *)
(* order, the pools of candidates, and the walk that places one instance   *)
(* after another.                                                          *)
(*                                                                         *)
(* A configuration is one of Scoring and Bounds with seeds, layouts that   *)
(* earlier phases found, and the fields of the search that uses it.        *)
(***************************************************************************)
EXTENDS Bounds

CONSTANTS
    Configs,                                \* sequence of configurations
    MinCandidates, CandidatesPerResult      \* 16 and 8 in the code

ASSUME CandidateAssumption == MinCandidates \in Nat \ {0} /\ CandidatesPerResult \in Nat

\* A list, whatever is in it: the values of priorities are numbers and names.
IsSequence(s) == Len(s) \in Nat /\ s = [n \in 1..Len(s) |-> s[n]]
IsConfig(config) ==
    /\ IsSequence(config.priorities) /\ IsSequence(config.groups)
    /\ \A g \in Range(config.groups) : IsSequence(g.sources)
ASSUME ConfigAssumption == \A c \in DOMAIN Configs : IsConfig(Configs[c])

Solution(layout, config) == [layout |-> layout, score |-> EvaluateLayout(layout, config)]

\* Whether a layout with a score comes before a solution.
ByScoreThenLayout(compared, layout, other) == compared > 0 \/ (compared = 0 /\ LayoutLess(layout, other))
Improves(score, layout, s) == ByScoreThenLayout(CompareScores(score, s.score), layout, s.layout)
SolutionLess(s, t) == Improves(s.score, s.layout, t)

\* bubbleSolutionBackward, sortSolutions: a solution passes those it comes
\* before, so equal ones stay in their order.
Insert(kept, s) ==
    LET place[n \in 0..Len(kept)] == IF n > 0 /\ SolutionLess(s, kept[n]) THEN place[n - 1] ELSE n
    IN  InsertAt(kept, 1 + place[Len(kept)], s)
Sorted(solutions) ==
    LET upTo[n \in 0..Len(solutions)] == IF n = 0 THEN <<>> ELSE Insert(upTo[n - 1], solutions[n])
    IN  upTo[Len(solutions)]
Truncate(s, n) == SubSeq(s, 1, Min({n, Len(s)}))

\* Plausible slip, used to test the properties.
TruncatesFirst(left, right, limit) == Sorted(Truncate(left \o right, limit))

MergeSolutions(left, right, limit) == Truncate(Sorted(left \o right), limit)
UniqueSolutions(solutions) ==
    LET first(n) == \A m \in 1..n - 1 : solutions[m].layout # solutions[n].layout
        kept     == SelectSeq([n \in DOMAIN solutions |-> n], first)
    IN  [k \in DOMAIN kept |-> solutions[kept[k]]]

\* scoreOnlyImprovesSolution, improvedCandidate: the score alone, then all of it.
Beats(s, scoreOnly, other) == Improves(scoreOnly, s.layout, other) /\ SolutionLess(s, other)

\* insertCandidateWithScoreOnlyFilter
OfferSolution(kept, s, scoreOnly, limit) ==
    IF Len(kept) < limit THEN Insert(kept, s)
    ELSE IF Beats(s, scoreOnly, Last(kept)) THEN Insert(Front(kept), s)
    ELSE kept
Offer(kept, layout, config, limit) ==
    OfferSolution(kept, Solution(layout, config), EvaluateScoreOnly(layout, config), limit)
-----------------------------------------------------------------------------
(* What solveLayoutStage prepares once for a configuration.                *)
CandidateLimit(topN) == Max({MinCandidates, CandidatesPerResult * topN})
PlanWith(config, ctx, found) ==
    [order    |-> InstanceOrder(config, ctx),
     options  |-> Table([i \in Instances |-> OptionOrder(config, ctx, i)]),
     coverage |-> ctx,
     contexts |-> <<ctx>> \o ExactContexts(config),
     found    |-> found,
     seeds    |-> Sorted(found)]
PlanOf(config) ==
    PlanWith(config, ContextForConfig(config),
             [n \in DOMAIN config.seeds |-> Solution(config.seeds[n], config)])

InitialCovers(plan, d, layout) ==
    Table([n \in DOMAIN plan.contexts |-> InitialCover(plan.contexts[n], plan.order, d, layout)])

\* The children of a node: every option of the next instance, then its skip.
Children(config, plan, node) ==
    LET i        == plan.order[node.depth + 1]
        fits(p)  == Fits(node.layout, p) /\ RespectsCopyOrder(node.layout, i, p)
        fitting  == Where(plan.options[i], fits)
        place(p) == [depth |-> node.depth + 1, layout |-> With(node.layout, i, p),
                     covers |-> Table([n \in DOMAIN node.covers |->
                         CoverPlacement(plan.contexts[n], node.covers[n], node.layout, i, p)])]
        skip     == [depth |-> node.depth + 1, layout |-> node.layout,
                     covers |-> Table([n \in DOMAIN node.covers |->
                         CoverSkip(plan.contexts[n], node.covers[n], i)])]
    IN  [n \in DOMAIN fitting |-> place(fitting[n])] \o (IF config.allowSkips THEN <<skip>> ELSE <<>>)
IsLeaf(plan, node) == node.depth = Len(plan.order)

\* The nodes some levels below a node, where the walk is split into tasks.
ChildrenOfAll(config, plan, nodes) ==
    FlattenSeq([n \in DOMAIN nodes |-> Children(config, plan, nodes[n])])
Expanded(config, plan, node, levels) ==
    LET below[d \in 0..Min({levels, Len(plan.order)})] ==
            IF d = 0 THEN <<node>> ELSE ChildrenOfAll(config, plan, below[d - 1])
    IN  below[Min({levels, Len(plan.order)})]

\* Where nothing may be left out, what is still to come has to fit.
RemainingCells(plan, d) ==
    Total([i \in Undecided(plan.order, d) |-> Cardinality(Items[Inventory[i]].shape)])
LacksRoom(config, plan, node) ==
    /\ ~config.allowSkips
    /\ RemainingCells(plan, node.depth) > Cardinality(GridMask \ Occupied(node.layout))
-----------------------------------------------------------------------------
(* The layouts there are, by brute force.                                   *)
Completions(config, layout, instances) ==
    FoldLeft(LAMBDA layouts, i :
                 (IF config.allowSkips THEN layouts ELSE {})
                 \cup UNION {{With(l, i, p) : p \in {q \in OptionSet(i) : Fits(l, q)}} : l \in layouts},
             {layout}, instances)
AllLayouts(config) == Completions(config, EmptyLayout, [i \in Instances |-> i])
Canonical(l) ==
    \A i, j \in DOMAIN l : i < j /\ SameItem(i, j) => ~KeyLess(l[j], l[i])

\* On the board, apart, the copies in order, nothing left out that must not be.
LegalLayout(config, l) ==
    /\ DOMAIN l \subseteq Instances
    /\ \A i \in DOMAIN l : l[i] \in OptionSet(i) /\ Fits(Without(l, i), l[i])
    /\ Canonical(l)
    /\ config.allowSkips \/ DOMAIN l = Instances
Reference ==
    Table([c \in DOMAIN Configs |->
        {Solution(l, Configs[c]) : l \in {m \in AllLayouts(Configs[c]) : Canonical(m)}}])
Physical(l) == {<<Inventory[i], l[i]>> : i \in DOMAIN l}
Layouts(solutions) == {s.layout : s \in Range(solutions)}
=============================================================================
