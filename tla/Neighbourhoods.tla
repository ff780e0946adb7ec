--------------------------- MODULE Neighbourhoods ---------------------------
(***************************************************************************)
(* Which instances the repairs of internal/solver take out of a layout to  *)
(* place them again: the operators of repair.go, each looking for one kind *)
(* of shortfall, their order and the division of the node budget.          *)
(*                                                                         *)
(* The numbers of the code (at least 3 instances and at most 8, 96         *)
(* neighbourhoods, 4 bases, 12 options looked at, 8 targets combined in at *)
(* most 16 ways) are constants, for boards smaller than the game's.        *)
(***************************************************************************)
EXTENDS Candidates

CONSTANTS
    IDRank,               \* instance -> place of its identifier among the strings
    MinNeighbourhood, MaxNeighbourhood, MaxNeighbourhoods, EliteCandidates,
    MaxMandatory, BlockedOptions, RankedTargets, TargetSubsets

ASSUME RankAssumption == \A i, j \in DOMAIN IDRank : IDRank[i] = IDRank[j] => i = j
ASSUME LimitAssumption == MaxNeighbourhoods \in Nat

ByID(S) == InOrder(S, LAMBDA i, j : IDRank[i] < IDRank[j])
Skipped(layout) == Instances \ DOMAIN layout
First(s, n) == [k \in {m \in 1..n : 1..m \subseteq DOMAIN s} |-> s[k]]

\* matchingPlacedInstances, then matchingSkippedInstances.
Matching(layout, items) ==
    ByID({i \in DOMAIN layout : Inventory[i] \in items})
    \o ByID({i \in Skipped(layout) : Inventory[i] \in items})

\* nearbyInstances: by the distance to the cells and stars of some instances.
Reach(layout, S) ==
    UNION {layout[i].cells \cup {c \in Range(layout[i].stars) : InBounds(c)} : i \in S \cap DOMAIN layout}
Abs(n) == IF n < 0 THEN -n ELSE n
PlacementDistance(p, cells) ==
    Min({999} \cup {Abs(c[1] - b[1]) + Abs(c[2] - b[2]) : c \in p.cells, b \in cells})
ByDistance(layout, S, cells) ==
    IF cells = {} THEN <<>>
    ELSE SortedBy(DOMAIN layout \ S, LAMBDA i : <<PlacementDistance(layout[i], cells), IDRank[i]>>)
Nearby(layout, S) == ByDistance(layout, S, Reach(layout, S))

\* blockingInstancesForOptions: by how many of the first options they block.
BlockedBy(layout, options, i) ==
    Cardinality({n \in DOMAIN options : options[n].cells \cap layout[i].cells # {}})
Blocking(layout, options) ==
    SortedBy({i \in DOMAIN layout : BlockedBy(layout, options, i) > 0},
             LAMBDA i : <<-BlockedBy(layout, options, i), IDRank[i]>>)
BlockingInstances(layout, options) == Blocking(layout, First(options, BlockedOptions))

\* perInstanceBlockers
Excluding(s, S) == SelectSeq(s, LAMBDA i : i \notin S)
Blockers(layout, options, mandatory) ==
    Excluding(Distinct(FlattenSeq([n \in DOMAIN mandatory |->
                 BlockingInstances(layout, options[mandatory[n]])])), Range(mandatory))

\* looseSourceCanTarget, directedOptionCompatibility
ItemCanTarget(source, target) == source \in ItemIDs /\ MatchingStars[source][target] # {}
LinksTo(links, t) == Total([p \in DOMAIN links |-> Cardinality({l \in links[p] : l[1] = t})])
Compatibility(s, t) == LinksTo(OutgoingLinks[s], t)
LinksOf(stars, s) == Cardinality({st \in stars : st[1] = s})
-----------------------------------------------------------------------------
(* A neighbourhood: the rank of its base among the layouts kept, operator,  *)
(* instances, priority and base.                                            *)
Operators == <<"coverage-gap", "craft-gap", "loose-per-instance-gap",
               "loose-star-gap", "packing-pressure", "source-retarget">>
OperatorRank(operator) == CHOOSE n \in DOMAIN Operators : Operators[n] = operator

Filled(mandatory, optional, size) ==
    mandatory \cup Range(First(Distinct(Excluding(optional, mandatory)), size - Cardinality(mandatory)))

\* appendRepairNeighborhood: none, or one.
WithInstances(ids, index, base, operator, priority) ==
    IF Cardinality(ids) < Min({MinNeighbourhood, Len(Inventory)}) THEN {}
    ELSE {[index |-> index, operator |-> operator, ids |-> ids, base |-> base,
           priority |-> priority + Total([i \in ids |-> Cardinality(Items[Inventory[i]].shape)])]}
Neighbourhood(index, base, operator, priority, mandatory, optional) ==
    IF Cardinality(mandatory) > MaxNeighbourhood THEN {}
    ELSE WithInstances(Filled(mandatory, optional, MaxNeighbourhood), index, base, operator, priority)
-----------------------------------------------------------------------------
(* The operators.                                                           *)

\* The groups and targets of the coverage in an evaluation.
BreakdownGroups(config) ==
    CASE ActiveCoverageGroups(config) # <<>> -> NormalizeCoverageGroups(ActiveCoverageGroups(config))
      [] IsOutgoing(config.semantics) -> <<>>
      [] OTHER -> SelectSeq(<<AllStarSources(config)>>, LAMBDA g : g.sources # <<>>)
BreakdownTargets(layout, group) ==
    {t \in DOMAIN layout :
        IF group.targets # {} THEN Inventory[t] \in group.targets
        ELSE \E s \in Range(group.sources) : ItemCanTarget(s, Inventory[t])}
UnderCovered(layout, stars, group) ==
    {t \in BreakdownTargets(layout, group) : CoveredCount(stars, group, t) < Len(group.sources)}

CoverageGap(config, index, layout, stars) ==
    LET groups == BreakdownGroups(config)
        size(g) == Len(groups[g].sources)
        gap(g, t, mandatory) ==
            Neighbourhood(index, layout, "coverage-gap",
                100000 + 2000 * (size(g) - CoveredCount(stars, groups[g], t)) + 100 * size(g) + g - 1,
                mandatory, Nearby(layout, mandatory))
    IN  UNION {UNION {gap(g, t, {t} \cup Range(Matching(layout, Range(groups[g].sources)))) :
                          t \in UnderCovered(layout, stars, groups[g])} : g \in DOMAIN groups}

SourceRetarget(config, index, layout, stars) ==
    LET groups == BreakdownGroups(config)
        targets(g) == SortedBy(UnderCovered(layout, stars, groups[g]),
                               LAMBDA t : <<CoveredCount(stars, groups[g], t), IDRank[t]>>)
        retarget(g, found, mandatory) ==
            Neighbourhood(index, layout, "source-retarget", 85000 + 100 * (g - 1) + found,
                          mandatory, Nearby(layout, mandatory))
        ofGroup(g, ts) ==
            IF ts = <<>> THEN {}
            ELSE UNION {retarget(g, Len(ts), {s} \cup Range(First(ts, MaxMandatory - 1))) :
                            s \in Range(Matching(layout, Range(groups[g].sources)))}
    IN  UNION {ofGroup(g, targets(g)) : g \in DOMAIN groups}

\* addLooseStarNeighborhoods: the check for four comes after a target is added.
LooseStar(config, index, layout, stars) ==
    LET sources == PriorityStarSources(config)
        reached(x) == {st[2] : st \in {link \in stars : Inventory[link[1]] = x}}
        open(x) == Upwards({t \in DOMAIN layout \ reached(x) : ItemCanTarget(x, Inventory[t])})
        chosen(x) == First(open(x), Max({1, MaxMandatory - Cardinality(OfItem(x))}))
        gap(x, mandatory) ==
            IF mandatory = {} THEN {}
            ELSE Neighbourhood(index, layout, "loose-star-gap",
                               70000 + Cardinality(OfItem(x)) + Len(chosen(x)), mandatory, Nearby(layout, mandatory))
    IN  UNION {gap(sources[n], OfItem(sources[n]) \cup Range(chosen(sources[n]))) : n \in DOMAIN sources}

\* rankedPerInstanceTargets: for the sources that still miss links.
Missing(x, stars, s) == Len(Items[x].stars) - LinksOf(stars, s)
RankWith(config, n, t, compatibility) ==
    LET ps == config.priorities IN
    [id |-> t, supports |-> {s \in DOMAIN compatibility : compatibility[s] > 0},
     compatibility |-> Total(compatibility),
     later |-> Total([m \in {k \in n + 1..Len(ps) : ps[k].kind = "star_source" /\ ps[k].value = Inventory[t]}
                          |-> Len(ps) - m + 1])]
TargetRank(config, x, sources, stars, n, t) ==
    RankWith(config, n, t, [s \in {r \in sources : Missing(x, stars, r) > 0} |-> Compatibility(s, t)])
RankedPerInstance(ranks) ==
    SortedBy({r \in ranks : r.supports # {}},
             LAMBDA r : <<-(10000 * Cardinality(r.supports) + 10 * r.compatibility + r.later), IDRank[r.id]>>)

\* perInstanceTargetSubsets: combinations of the first targets, best first.
Worth(x, stars, chosen) ==
    LET supported == UNION {r.supports : r \in chosen}
    IN  10000 * Cardinality(supported)
        + 1000 * Total([s \in supported |-> Min({Missing(x, stars, s), Cardinality(chosen)})])
        + MapThenSumSet(LAMBDA r : 10 * r.compatibility + r.later, chosen)
Combinations(ranked, most) ==
    {[n \in 1..Cardinality(places) |-> ranked[Upwards(places)[n]]] :
        places \in {S \in SUBSET (DOMAIN ranked) : Cardinality(S) \in 1..most}}
PerInstanceSubsets(x, stars, ranked, most) ==
    LET chosen == {[targets |-> c, score |-> Worth(x, stars, Range(c))] : c \in Combinations(ranked, most)}
        padded(c) == [n \in 1..RankedTargets |-> IF n \in DOMAIN c THEN IDRank[c[n].id] ELSE 0]
    IN  First(SortedBy(chosen, LAMBDA c : <<-c.score>> \o padded(c.targets)), TargetSubsets)

\* addPerInstanceLooseStarNeighborhoods, for priority n and its source item x.
PerInstanceGap(config, index, layout, stars, options, n, x, sources, deficit, ranked) ==
    LET room   == MaxNeighbourhood - Len(sources)
        most   == IF room - 1 > 0 THEN room - 1 ELSE room
        ids(c) == [k \in DOMAIN c.targets |-> c.targets[k].id]
        gap(c, mandatory) ==
            Neighbourhood(index, layout, "loose-per-instance-gap",
                90000 - 100 * (n - 1) + 100 * deficit + c.score, Range(mandatory),
                Blockers(layout, options, mandatory) \o Nearby(layout, Range(mandatory)))
    IN  IF deficit = 0 \/ Len(sources) = 0 \/ room <= 0 THEN {}
        ELSE UNION {gap(c, sources \o ids(c)) :
                 c \in Range(PerInstanceSubsets(x, stars, First(ranked, RankedTargets), most))}
PerInstance(config, index, layout, stars, options) ==
    LET ps == config.priorities
        isFirst(n) == /\ ps[n].kind = "star_source"
                      /\ \A m \in 1..n - 1 : ps[m].kind = "star_source" => ps[m].value # ps[n].value
        deficit(x) == Total([s \in OfItem(x) |-> Max({0, Missing(x, stars, s)})])
        ranks(n, x) == {TargetRank(config, x, OfItem(x), stars, n, t) :
                            t \in {u \in Instances \ OfItem(x) : ItemCanTarget(x, Inventory[u])}}
        gaps(n, x) == IF OfItem(x) = {} THEN {}
                      ELSE PerInstanceGap(config, index, layout, stars, options, n, x,
                               Matching(layout, {x}), deficit(x), RankedPerInstance(ranks(n, x)))
    IN  UNION {gaps(n, ps[n].value) : n \in {m \in DOMAIN ps : isFirst(m)}}

\* instancesForRecipe: the anchor and every ingredient, an anchor among the
\* ingredients asking for one more of it.
ForRecipe(layout, recipe) ==
    LET available == Upwards(DOMAIN layout) \o Upwards(Skipped(layout))
        take(used, id) ==
            used \cup Range(First(SelectSeq(available, LAMBDA i : Inventory[i] = id /\ i \notin used), 1))
    IN  FoldLeft(take, {}, <<recipe.anchor>> \o recipe.ingredients)

CraftGap(config, index, layout, crafts) ==
    LET asked == Range(Values(Of("craft", config)))
        made  == {crafts[n].result : n \in DOMAIN crafts}
        gap(mandatory) == Neighbourhood(index, layout, "craft-gap", 60000 + Cardinality(mandatory),
                                        mandatory, Nearby(layout, mandatory))
    IN  UNION {gap(ForRecipe(layout, r)) : r \in {q \in Range(PossibleRecipes) : q.result \in asked \ made}}

PackingPressure(config, index, layout, ctx, options) ==
    LET pressure(i) == InstancePriority(config, ctx, i, StarCount(i))
        eager == {i \in Skipped(layout) : pressure(i) > Cardinality(Items[Inventory[i]].shape)}
    IN  UNION {Neighbourhood(index, layout, "packing-pressure", 50000 + pressure(i), {i},
                             BlockingInstances(layout, options[i])) : i \in eager}

ForLayout(config, plan, index, layout, stars, crafts) ==
    CoverageGap(config, index, layout, stars)
    \cup SourceRetarget(config, index, layout, stars)
    \cup (IF config.semantics = "outgoing_v3"
          THEN PerInstance(config, index, layout, stars, plan.options)
          ELSE LooseStar(config, index, layout, stars))
    \cup CraftGap(config, index, layout, crafts)
    \cup PackingPressure(config, index, layout, plan.coverage, plan.options)
-----------------------------------------------------------------------------
(* All of them, the most promising first, each once.                        *)

\* repairNeighborhoodKey: the rank of the base, and not the base itself.
Key(n) == <<n.index, n.operator, n.ids>>
SortedIDs(ids) == [n \in 1..Len(Inventory) |-> IF n \in DOMAIN ByID(ids) THEN IDRank[ByID(ids)[n]] ELSE 0]
ByPriority(neighbourhoods) ==
    SortedBy(neighbourhoods,
             LAMBDA n : <<-n.priority, n.index, OperatorRank(n.operator)>> \o SortedIDs(n.ids))
FirstOfKey(ordered) ==
    LET isFirst(n) == \A m \in 1..n - 1 : Key(ordered[m]) # Key(ordered[n])
        places == SelectSeq([n \in DOMAIN ordered |-> n], isFirst)
    IN  [n \in DOMAIN places |-> ordered[places[n]]]

BuildNeighbourhoods(config, plan, results, seen) ==
    LET layout(k) == results[k].layout
        all == UNION {ForLayout(config, plan, k, layout(k), Stars(layout(k)), Crafts(layout(k))) :
                          k \in 1..Min({EliteCandidates, Len(results)})}
    IN  First(FirstOfKey(ByPriority({n \in all : Key(n) \notin seen})), MaxNeighbourhoods)

\* allocateRepairNeighborhoodBudgets: every base has the same share of the
\* budget and divides it evenly among its neighbourhoods.
Part(total, parts, n) == total \div parts + (IF n <= total % parts THEN 1 ELSE 0)
PlaceIn(s, x) == CHOOSE n \in DOMAIN s : s[n] = x
Count(s, x) == Cardinality({n \in DOMAIN s : s[n] = x})

\* Plausible slip, used to test the properties.
SharesOfAll(total, bases, distinct) == [n \in DOMAIN bases |-> Part(total, Len(bases), n)]

SharesOver(total, bases, distinct) ==
    [n \in DOMAIN bases |->
        Part(Part(total, Len(distinct), PlaceIn(distinct, bases[n])),
             Count(bases, bases[n]), Count(SubSeq(bases, 1, n), bases[n]))]
SharesOf(total, bases) ==
    IF total <= 0 THEN [n \in DOMAIN bases |-> 0] ELSE SharesOver(total, bases, Distinct(bases))
Shares(total, neighbourhoods) == SharesOf(total, [n \in DOMAIN neighbourhoods |-> neighbourhoods[n].base])
=============================================================================
