-------------------------------- MODULE Bounds -------------------------------
(***************************************************************************)
(* The optimistic bounds of internal/solver, by which the searches leave   *)
(* out branches that cannot beat the worst layout they keep, and the       *)
(* ceilings at which they stop.  Instances are taken in an order; a node   *)
(* of the tree is a layout of some of the first d of them, the others of   *)
(* the first d being skipped for good.                                     *)
(***************************************************************************)
EXTENDS Scoring

Elements(order, from) == {order[n] : n \in from..Len(order)}
Undecided(order, d) == Elements(order, d + 1)

\* sourceHitsTargetWithCatalog
PlacementHits(i, p, j, q) ==
    /\ i # j
    /\ \E k \in MatchingStars[Inventory[i]][Inventory[j]] : p.stars[k] \in q.cells
StarHits(i, p, j, q, k) ==
    i # j /\ k \in MatchingStars[Inventory[i]][Inventory[j]] /\ p.stars[k] \in q.cells
CanTarget(i, j) == i # j /\ MatchingStars[Inventory[i]][Inventory[j]] # {}
Disjoint(p, q) == p.cells \cap q.cells = {}

\* How many times each number of sources is reached, most sources first.
CountsFromSources(reached, size) ==
    [n \in 1..size |-> Cardinality({t \in DOMAIN reached : Cardinality(reached[t]) = size + 1 - n})]
-----------------------------------------------------------------------------
(* Coverage: which sources reach each target, and which still could.        *)

NoContext == [sources |-> <<>>, targets |-> {}, possible |-> <<>>, start |-> 0]

PossibleSources(wanted) ==
    Table([t \in Instances |->
        {s \in Range(wanted) \cap Range(Inventory) : MatchingStars[s][Inventory[t]] # {}}])
ContextOver(wanted, filter, start, possible) ==
    LET targets == {t \in Instances : IF filter = {} THEN possible[t] # {}
                                                     ELSE Inventory[t] \in filter}
    IN  IF wanted = <<>> THEN NoContext
        ELSE [sources |-> wanted, targets |-> targets,
              possible |-> Table([t \in targets |-> possible[t]]), start |-> start]
CoverageContext(group, start) ==
    ContextOver(Distinct(group.sources), group.targets, start, PossibleSources(group.sources))

\* coveragePriorityStart: how many counts come before the coverage.
CoverageStart(config) ==
    LET stars == {n \in DOMAIN config.priorities : config.priorities[n].kind = "star_source"}
    IN  IF stars = {} THEN 0 ELSE Min(stars) - 1

NoGroup == [sources |-> <<>>, targets |-> {}]
AllStarSources(config) == [sources |-> PriorityStarSources(config), targets |-> {}]

\* newCoverageContextForConfig
ContextForConfig(config) ==
    LET first == config.priorities[1]
        group == CASE config.groups # <<>> /\ GlobalPriorityOrder(config) ->
                          IF first.kind = "coverage_group" /\ first.value + 1 \in DOMAIN config.groups
                          THEN config.groups[first.value + 1] ELSE NoGroup
                   [] IsOutgoing(config.semantics) -> NoGroup
                   [] config.groups # <<>> -> config.groups[1]
                   [] OTHER -> AllStarSources(config)
    IN  CoverageContext(group, IF config.groups = <<>> THEN CoverageStart(config) ELSE 0)

Prunes(ctx) == ctx # NoContext /\ ctx.start = 0
Reaching(ctx, i) == {Inventory[i]} \cap Range(ctx.sources)

\* The state carried down the tree, from the start and step by step.
InitialCover(ctx, order, d, layout) ==
    LET placed == ctx.targets \cap DOMAIN layout IN
    [placed  |-> placed,
     decided |-> placed \cup {t \in ctx.targets : t \notin Undecided(order, d)},
     covered |-> Table([t \in ctx.targets |->
                      IF t \notin placed THEN {}
                      ELSE UNION {Reaching(ctx, s) : s \in
                               {r \in DOMAIN layout : PlacementHits(r, layout[r], t, layout[t])}}])]

\* Plausible slip, used to test the properties.
CoverOnlyNewTarget(ctx, cover, layout, i, p) ==
    [placed  |-> cover.placed \cup ({i} \cap ctx.targets),
     decided |-> cover.decided \cup ({i} \cap ctx.targets),
     covered |-> Table([t \in ctx.targets |->
         IF t = i THEN UNION {Reaching(ctx, s) :
                                  s \in {r \in DOMAIN layout : PlacementHits(r, layout[r], i, p)}}
                  ELSE cover.covered[t]])]

CoverPlacement(ctx, cover, layout, i, p) ==
    [placed  |-> cover.placed \cup ({i} \cap ctx.targets),
     decided |-> cover.decided \cup ({i} \cap ctx.targets),
     covered |-> Table([t \in ctx.targets |->
         CASE t = i -> UNION {Reaching(ctx, s) :
                                  s \in {r \in DOMAIN layout : PlacementHits(r, layout[r], i, p)}}
           [] t \in DOMAIN layout /\ PlacementHits(i, p, t, layout[t]) ->
                  cover.covered[t] \cup Reaching(ctx, i)
           [] OTHER -> cover.covered[t]])]
CoverSkip(ctx, cover, i) == [cover EXCEPT !.decided = @ \cup ({i} \cap ctx.targets)]

\* upperBoundCounts: a target that is placed may still gain the sources to come.
RemainingSources(ctx, order, d) == UNION {Reaching(ctx, i) : i \in Undecided(order, d)}
CoverageBound(ctx, order, cover, d) ==
    LET open == {t \in ctx.targets : t \in cover.placed \/ t \notin cover.decided} IN
    CountsFromSources(
        [t \in open |->
            IF t \in cover.placed
            THEN cover.covered[t] \cup (ctx.possible[t] \cap RemainingSources(ctx, order, d))
            ELSE ctx.possible[t]],
        Len(ctx.sources))

\* ceilingReached: the most targets that all sources could reach.
CoverageCeiling(ctx) == CountsFromSources(ctx.possible, Len(ctx.sources))
CeilingReached(ctx, score) ==
    /\ Prunes(ctx) /\ score.priority # <<>>
    /\ CoverageCeiling(ctx)[1] > 0
    /\ score.priority[1] >= CoverageCeiling(ctx)[1]
-----------------------------------------------------------------------------
(* The exact bound: every part of the score from the instances that are     *)
(* placed or still to come.                                                 *)

\* newExactBoundContext: one context per coverage group.
ExactEnabled(config) ==
    /\ ~IsOutgoing(config.semantics) /\ ~config.limited
    /\ config.priorities # <<>> \/ config.groups # <<>>
ExactContexts(config) ==
    LET groups == IF config.groups # <<>> THEN NormalizeCoverageGroups(config.groups)
                  ELSE SelectSeq(<<AllStarSources(config)>>, LAMBDA g : g.sources # <<>>)
    IN  [n \in DOMAIN groups |->
            CoverageContext(groups[n], IF config.groups = <<>> THEN CoverageStart(config) ELSE 0)]

Active(layout, order, d) == DOMAIN layout \cup Undecided(order, d)
CountOf(active, id) == Cardinality({i \in active : Inventory[i] = id})

\* boundCraftCount, of one result or of all.
RecipeBound(active, r) ==
    Min({CountOf(active, r.anchor)} \cup
        {CountOf(active, id) \div Requirement(r, id) :
            id \in {x \in Range(r.ingredients) : Requirement(r, x) > 0}})
CraftBound(active, Wanted(_)) ==
    FoldLeft(LAMBDA total, r : IF Wanted(r.result) THEN total + RecipeBound(active, r) ELSE total,
             0, PossibleRecipes)

PossibleTargets(i) == {t \in Instances : CanTarget(i, t)}
LooseBound(active, source) ==
    Cardinality(UNION {PossibleTargets(i) \cap active :
                           i \in {j \in active : Inventory[j] = source}})

ExactPriorityBound(config, contexts, covers, order, layout, d) ==
    LET active  == Active(layout, order, d)
        grouped == CoverageGroupSources(NormalizeCoverageGroups(config.groups))
        ps      == config.priorities
        loose   == SelectSeq(PriorityStarSources(config), LAMBDA x : x \notin grouped)
        bound(n) == CoverageBound(contexts[n], order, covers[n], d)
        craft(x) == CraftBound(active, LAMBDA result : result = x)
        firstStar(n) == ps[n].kind = "star_source" /\ \A m \in 1..n - 1 : ps[m].kind # "star_source"
        inOrder(n) ==
            CASE ps[n].kind = "coverage_group" /\ ps[n].value + 1 \in DOMAIN contexts ->
                     bound(ps[n].value + 1)
              [] ps[n].kind = "star_source" /\ ps[n].value \notin grouped ->
                     <<LooseBound(active, ps[n].value)>>
              [] ps[n].kind = "craft" -> <<craft(ps[n].value)>>
              [] OTHER -> <<0>>
        inBlock(n) ==
            CASE firstStar(n) -> bound(1)
              [] ps[n].kind = "star_source" -> <<>>
              [] ps[n].kind = "craft" -> <<craft(ps[n].value)>>
              [] OTHER -> <<0>>
    IN  CASE config.groups # <<>> /\ GlobalPriorityOrder(config) -> Concat([n \in DOMAIN ps |-> inOrder(n)])
          [] config.groups # <<>> ->
                 Concat([n \in DOMAIN contexts |-> bound(n)])
                 \o [n \in DOMAIN loose |-> LooseBound(active, loose[n])]
                 \o [n \in DOMAIN Of("craft", config) |-> craft(Of("craft", config)[n].value)]
          [] OTHER -> Concat([n \in DOMAIN ps |-> inBlock(n)])

ExactBound(config, contexts, covers, order, layout, d) ==
    LET active == Active(layout, order, d)
        items  == Cardinality(active)
    IN  Score(ExactPriorityBound(config, contexts, covers, order, layout, d),
              CraftBound(active, LAMBDA result : TRUE),
              Cardinality({st \in active \X active : CanTarget(st[1], st[2])}),
              items, items, (items * (items - 1)) \div 2,
              Cardinality({Inventory[i] : i \in active}) * items)
-----------------------------------------------------------------------------
(* What pruning asks of the bounds: strictly below the worst score kept.    *)

CoveragePrunes(ctx, order, cover, d, worst) ==
    LET bound == CoverageBound(ctx, order, cover, d)
        as    == Min({Len(worst.priority), Len(bound)})
    IN  /\ Prunes(ctx)
        /\ ComparePriorityCounts(bound, SubSeq(worst.priority, 1, as)) < 0

\* shouldCheck and shouldPrune: without coverage nothing is known until an
\* instance has been left out.
ExactPrunes(config, contexts, covers, order, layout, d, worst) ==
    /\ ExactEnabled(config)
    /\ contexts # <<>> \/ Active(layout, order, d) # Instances
    /\ CompareScores(ExactBound(config, contexts, covers, order, layout, d), worst) < 0
-----------------------------------------------------------------------------
(* Star potential: what the options of two instances could do together.     *)

Linked(i, p, j, q) == Disjoint(p, q) /\ PlacementHits(i, p, j, q)
OptionSet(i) == Range(OptionsForInstance(i))
OptionPairs(i) == UNION {{<<t, q>> : q \in OptionSet(t)} : t \in Instances \ {i}}

OutgoingLinks ==
    Table([i \in Instances |-> Table([p \in OptionSet(i) |->
        {tq \in OptionPairs(i) : Linked(i, p, tq[1], tq[2])}])])
IncomingLinks ==
    Table([i \in Instances |-> Table([p \in OptionSet(i) |->
        {sq \in OptionPairs(i) : Linked(sq[1], sq[2], i, p)}])])
InstancesOf(links) == {l[1] : l \in links}
OutgoingTargets(i, p) == InstancesOf(OutgoingLinks[i][p])
InstanceOutgoingTargets(i) == UNION {OutgoingTargets(i, p) : p \in OptionSet(i)}

PrioritySourceItems(config) ==
    IF config.semantics = "outgoing_v3" THEN Range(PriorityStarSources(config)) ELSE {}
PlacementPotential(out, into) == Cardinality(InstancesOf(out)) + Cardinality(InstancesOf(into))
PriorityPotential(sources, i, out, into) ==
    Cardinality({l \in out : Inventory[i] \in sources}) + Cardinality({l \in into : Inventory[l[1]] \in sources})
Potential(sources, i, out, into) ==
    PriorityPotential(sources, i, out, into) * 1024 + PlacementPotential(out, into)
PriorityForPlacement(config, i, p) ==
    Potential(PrioritySourceItems(config), i, OutgoingLinks[i][p], IncomingLinks[i][p])
BestPotential(sources, i, out, into) ==
    Max({0} \cup {PriorityPotential(sources, i, out[p], into[p]) : p \in DOMAIN out}) * 1024
    + Max({0} \cup {PlacementPotential(out[p], into[p]) : p \in DOMAIN out})
PriorityForInstance(config, i) ==
    BestPotential(PrioritySourceItems(config), i, OutgoingLinks[i], IncomingLinks[i])

\* newOutgoingBoundContext: V3, and nothing but star sources of the catalog.
OutgoingEnabled(config) ==
    /\ config.semantics = "outgoing_v3" /\ config.priorities # <<>>
    /\ \A n \in DOMAIN config.priorities :
           config.priorities[n].kind = "star_source" /\ config.priorities[n].value \in ItemIDs

Total(f) == FoldFunction(+, 0, f)
StarCount(i) == Len(Items[Inventory[i]].stars)
OfItem(id) == {i \in Instances : Inventory[i] = id}

\* Plausible slip, used to test the properties.
FixedTargetsOnly(layout, i) ==
    IF i \in DOMAIN layout
    THEN {t \in DOMAIN layout : PlacementHits(i, layout[i], t, layout[t])}
    ELSE InstanceOutgoingTargets(i)

\* upperPriorityCounts: a placed source has its hits and what may still move
\* under its stars, a free one the best of every option together.
OutgoingReach(layout, i) ==
    IF i \in DOMAIN layout
    THEN {t \in DOMAIN layout : PlacementHits(i, layout[i], t, layout[t])}
         \cup (OutgoingTargets(i, layout[i]) \ DOMAIN layout)
    ELSE InstanceOutgoingTargets(i)
OutgoingBound(config, layout) ==
    [n \in DOMAIN config.priorities |->
        Total([i \in OfItem(config.priorities[n].value) |->
                   Min({Cardinality(OutgoingReach(layout, i) \ {i}), StarCount(i)})])]
OutgoingPrunes(config, layout, worst) ==
    OutgoingEnabled(config) /\ ComparePriorityCounts(OutgoingBound(config, layout), worst.priority) < 0
-----------------------------------------------------------------------------
(* Ceilings of the priorities, from the items alone.                        *)

\* Plausible slip, used to test the properties.
CeilingOfOneCopy(config) ==
    [n \in DOMAIN config.priorities |->
        Max({0} \cup {Min({Cardinality(PossibleTargets(i)), StarCount(i)}) :
                         i \in OfItem(config.priorities[n].value)})]

PriorityCeiling(config) ==
    [n \in DOMAIN config.priorities |->
        Total([i \in OfItem(config.priorities[n].value) |->
                   Min({Cardinality(PossibleTargets(i)), StarCount(i)})])]
PriorityCeilingReached(config, score) ==
    /\ OutgoingEnabled(config)
    /\ \A n \in DOMAIN config.priorities : score.priority[n] >= PriorityCeiling(config)[n]
-----------------------------------------------------------------------------
(* Matching stars to targets, one target for each star.                     *)

\* What tryMatch changes: whether it succeeded, the targets it has seen, and the
\* slot that owns each target, 0 for none.
Matchings == [ok : BOOLEAN, seen : SUBSET Nat, owner : Seq(Nat)]
NoOwners == [t \in Instances |-> 0]
Owned(owner) == {t \in Instances : owner[t] # 0}

\* Plausible slip, used to test the properties.
TakesFirstFree(slots, slot, owner) ==
    LET free == slots[slot] \ Owned(owner) IN
    IF free = {} THEN owner ELSE [owner EXCEPT ![Min(free)] = slot]

\* tryMatch: a slot takes a target whose owner, if any, can move to another.
TryMatch(slots, slot, owner) ==
    LET try[s \in Nat, state \in Matchings] ==
            FoldLeft(LAMBDA st, t :
                         IF st.ok \/ t \in st.seen THEN st
                         ELSE LET marked == [st EXCEPT !.seen = @ \cup {t}]
                                  moved  == IF st.owner[t] = 0 THEN [marked EXCEPT !.ok = TRUE]
                                            ELSE try[st.owner[t], marked]
                              IN  IF moved.ok THEN [moved EXCEPT !.owner[t] = s] ELSE moved,
                     [state EXCEPT !.ok = FALSE], Upwards(slots[s]))
    IN  try[slot, [ok |-> FALSE, seen |-> {}, owner |-> owner]].owner

MaximumSlotMatching(slots) ==
    Cardinality(Owned(FoldLeft(LAMBDA owner, slot : TryMatch(slots, slot, owner),
                               NoOwners, [k \in DOMAIN slots |-> k])))
-----------------------------------------------------------------------------
(* The bound of a partial repair: fixed instances and instances to place.   *)

FreeOptions(anchored, i) ==
    {p \in OptionSet(i) : Fits(anchored, p)}
PlacesOf(anchored, i) == IF i \in DOMAIN anchored THEN {anchored[i]} ELSE FreeOptions(anchored, i)

\* partialRepairSlotCanHitFixedTarget and ...RemovedTarget
SlotTargets(places, i, k) ==
    {t \in DOMAIN places \ {i} :
        \E p \in places[i], q \in places[t] : Disjoint(p, q) /\ StarHits(i, p, t, q, k)}
SourceStarUpper(places, i) ==
    MaximumSlotMatching([k \in 1..StarCount(i) |-> SlotTargets(places, i, k)])
UpperOver(places, sources) == Total([i \in sources \cap DOMAIN places |-> SourceStarUpper(places, i)])
StarUpperOver(anchored, removed, sources) ==
    UpperOver(Table([i \in DOMAIN anchored \cup removed |-> PlacesOf(anchored, i)]), sources)

PartialRepairPriorityUpper(config, anchored, removed) ==
    [n \in DOMAIN config.priorities |->
        StarUpperOver(anchored, removed, OfItem(config.priorities[n].value))]
PartialRepairFeasible(config, anchored, removed, target) ==
    \/ ~OutgoingEnabled(config)
    \/ ComparePriorityCounts(PartialRepairPriorityUpper(config, anchored, removed), target) >= 0

\* partialRelaxedStarUpperBound, partialRepairFixedStarHeadroom
RelaxedStarUpper(anchored, removed) == StarUpperOver(anchored, removed, Instances)
-----------------------------------------------------------------------------
(* starUpperBoundContext: bounds on all stars, each tighter than the last.  *)

StructuralStars == Total([i \in Instances |-> Min({StarCount(i), Cardinality(Instances) - 1})])
CompatibleStars ==
    Total([i \in Instances |-> Min({StarCount(i), Cardinality(PossibleTargets(i))})])

\* Plausible slip, used to test the properties.
FreeTargetsOnly(layout) ==
    Total([i \in Instances |->
        Min({StarCount(i),
             (IF i \in DOMAIN layout THEN Cardinality({st \in Stars(layout) : st[1] = i}) ELSE 0)
             + Cardinality(PossibleTargets(i) \ DOMAIN layout)})])

AvailableStars(layout) ==
    Total([i \in Instances |->
        Min({StarCount(i),
             IF i \in DOMAIN layout
             THEN Cardinality({st \in Stars(layout) : st[1] = i})
                  + Cardinality(PossibleTargets(i) \ DOMAIN layout)
             ELSE Cardinality(PossibleTargets(i))})])

\* matchingForSource; two placements that overlap are left out only where both
\* are still free.
GeometricTargets(layout, choices, i, k) ==
    {t \in Instances \ {i} :
        \E p \in choices[i], q \in choices[t] :
            StarHits(i, p, t, q, k) /\ ({i, t} \cap DOMAIN layout = {} => Disjoint(p, q))}
GeometricStarsOver(layout, choices) ==
    Total([i \in Instances |->
        MaximumSlotMatching([k \in 1..StarCount(i) |-> GeometricTargets(layout, choices, i, k)])])
GeometricStars(layout) ==
    GeometricStarsOver(layout,
        Table([i \in Instances |-> IF i \in DOMAIN layout THEN {layout[i]} ELSE OptionSet(i)]))
-----------------------------------------------------------------------------
(* The orders in which the searches take instances and options.             *)

\* precomputePlacementPriorities
CoveragePlacementPriority(ctx, i, p) ==
    LET source(j) == Reaching(ctx, j) # {}
        target(j) == j \in ctx.targets
    IN  (IF source(i) THEN 100000 ELSE 0)
        + (IF target(i) THEN 50000 + 1000 * Cardinality(ctx.possible[i]) ELSE 0)
        + Cardinality({l \in OutgoingLinks[i][p] : source(i) /\ target(l[1])})
        + Cardinality({l \in IncomingLinks[i][p] : target(i) /\ source(l[1])})

\* The star potential is used by limited searches of outgoing priorities only.
UsesPotential(config) == config.limited /\ IsOutgoing(config.semantics)

\* sortPlacementOptionsForCoverage
OptionOrder(config, ctx, i) ==
    LET rank(p) == <<IF ctx = NoContext THEN 0 ELSE -CoveragePlacementPriority(ctx, i, p),
                     IF UsesPotential(config) THEN -PriorityForPlacement(config, i, p) ELSE 0>>
                   \o PlacementKey(p)
    IN  Arranged(OptionsForInstance(i), rank)

\* instancePriority; starWorth is what one instance's stars count for.
InstancePriority(config, ctx, i, starWorth) ==
    LET id == Inventory[i]
        asked(kind, value) ==
            \E n \in DOMAIN config.priorities :
                config.priorities[n].kind = kind /\ config.priorities[n].value = value
        worth(r) ==
            (IF r.anchor = id THEN 8 + (IF asked("craft", r.result) THEN 32 ELSE 0) ELSE 0)
            + (IF id \in Range(r.ingredients) THEN 2 + (IF asked("craft", r.result) THEN 16 ELSE 0) ELSE 0)
    IN  Cardinality(Items[id].shape)
        + 6 * starWorth
        + (IF i \in ctx.targets THEN 256 + 16 * Cardinality(ctx.possible[i]) ELSE 0)
        + (IF Reaching(ctx, i) # {} THEN 128 ELSE 0)
        + (IF asked("star_source", id) THEN 32 ELSE 0)
        + Total([n \in {m \in DOMAIN Recipes : PossibleWithInventory(Recipes[m])} |-> worth(Recipes[n])])

\* A limited search takes important instances first, an exhaustive one those
\* with few options.
InstanceOrder(config, ctx) ==
    LET starWorth(i) == IF UsesPotential(config) THEN PriorityForInstance(config, i) ELSE StarCount(i)
        rank(i) == <<IF config.limited THEN -InstancePriority(config, ctx, i, starWorth(i)) ELSE 0,
                     Len(OptionsForInstance(i)), i>>
    IN  SortedBy(Instances, rank)
=============================================================================
