------------------------------- MODULE Scoring -------------------------------
(***************************************************************************)
(* internal/scoring: what a layout is worth.  The code evaluates a layout  *)
(* twice, in different functions: in full for results and, where the       *)
(* search only has to compare, by the score alone.  Both are here.         *)
(*                                                                         *)
(* A config is [priorities, groups, semantics]: priorities a sequence of   *)
(* [kind, value], kind "none" for one that does not parse; groups a        *)
(* sequence of [sources (sequence), targets (set)]; semantics one of       *)
(* "legacy", "outgoing_v2" and "outgoing_v3".                              *)
(***************************************************************************)
EXTENDS Backpack

IsOutgoing(semantics) == semantics \in {"outgoing_v2", "outgoing_v3"}
Of(kind, config) ==
    LET ps == config.priorities IN TakePlaces(ps, Upwards({n \in DOMAIN ps : ps[n].kind = kind}))
Values(ps) == [n \in DOMAIN ps |-> ps[n].value]
Distinct(s) ==
    FoldLeft(LAMBDA kept, x : IF x \in Range(kept) THEN kept ELSE Append(kept, x), <<>>, s)

GlobalPriorityOrder(config) ==
    \E n \in DOMAIN config.priorities : config.priorities[n].kind = "coverage_group"
ActiveCoverageGroups(config) ==
    IF ~IsOutgoing(config.semantics) \/ GlobalPriorityOrder(config)
    THEN config.groups ELSE <<>>
NormalizeCoverageGroups(groups) ==
    LET named == TakePlaces(groups, Upwards({n \in DOMAIN groups : groups[n].sources # <<>>}))
    IN  [n \in DOMAIN named |-> [sources |-> Distinct(named[n].sources), targets |-> named[n].targets]]
CoverageGroupSources(groups) == UNION {Range(g.sources) : g \in Range(groups)}
PriorityStarSources(config) == Distinct(Values(Of("star_source", config)))
-----------------------------------------------------------------------------
(* Stars.                                                                   *)

\* The instance star k of s falls on and is accepted by; none, or one.
Hits(layout, s, k) ==
    {t \in DOMAIN layout \ {s} :
        /\ layout[s].stars[k] \in layout[t].cells
        /\ k \in MatchingStars[Inventory[s]][Inventory[t]]}

\* EvaluateStars: one activation for a source and a target.
Stars(layout) ==
    UNION {{<<s, t>> : t \in UNION {Hits(layout, s, k) : k \in DOMAIN layout[s].stars}} :
           s \in DOMAIN layout}

TargetBreadth(stars) == Cardinality({st[2] : st \in stars})
ReciprocalPairs(stars) == Cardinality({st \in stars : st[1] < st[2] /\ <<st[2], st[1]>> \in stars})
SourceDefinitionDiversity(stars) == Cardinality({<<Inventory[st[1]], st[2]>> : st \in stars})

\* Targets by how many of the group's sources reach them, most sources first.
CoveredCount(stars, group, t) ==
    Cardinality({n \in DOMAIN group.sources :
                    \E st \in stars : st[2] = t /\ Inventory[st[1]] = group.sources[n]})
BucketCounts(placed, stars, group) ==
    LET eligible == {t \in placed : group.targets = {} \/ Inventory[t] \in group.targets}
        size     == Len(group.sources)
    IN  [n \in 1..size |-> Cardinality({t \in eligible : CoveredCount(stars, group, t) = size + 1 - n})]

\* evaluateLooseStarPriority: distinct targets, or links when counted per instance.
LooseCount(stars, source, semantics) ==
    LET links == {st \in stars : Inventory[st[1]] = source} IN
    IF semantics = "outgoing_v3" THEN Cardinality(links) ELSE TargetBreadth(links)
-----------------------------------------------------------------------------
(* Crafts.                                                                  *)

\* BuildRecipeRequirements: the ingredients less one anchor.
Requirement(recipe, id) ==
    Cardinality({n \in DOMAIN recipe.ingredients : recipe.ingredients[n] = id})
        - (IF id = recipe.anchor THEN 1 ELSE 0)

\* recipePossibleWithInventory: with fewer instances it can never be crafted.
PossibleWithInventory(recipe) ==
    \A id \in Range(recipe.ingredients) :
        Cardinality({i \in Instances : Inventory[i] = id}) >=
            Requirement(recipe, id) + (IF id = recipe.anchor THEN 1 ELSE 0)
PossibleRecipes ==
    TakePlaces(Recipes, Upwards({n \in DOMAIN Recipes : PossibleWithInventory(Recipes[n])}))

Ingredients(layout, used, recipe, a) ==
    LET near(id) == {i \in DOMAIN layout \ (used \cup {a}) :
                        /\ Inventory[i] = id
                        /\ AdjacentMask(layout[a].cells) \cap layout[i].cells # {}}
        first(id) == {i \in near(id) :
                        Cardinality({j \in near(id) : j < i}) < Requirement(recipe, id)}
        needed == {id \in Range(recipe.ingredients) : Requirement(recipe, id) > 0}
    IN  [viable   |-> \A id \in needed : Cardinality(near(id)) >= Requirement(recipe, id),
         selected |-> UNION {first(id) : id \in needed}]

\* Every recipe tries every anchor in inventory order; what is used stays used.
CraftWalk(recipes, layout, start, Record(_, _, _, _)) ==
    LET try(recipe, acc, a, picked) ==
            IF \/ a \notin DOMAIN layout \/ a \in acc.used
               \/ Inventory[a] # recipe.anchor \/ ~picked.viable
            THEN acc
            ELSE [Record(acc, recipe, a, picked.selected)
                     EXCEPT !.used = @ \cup {a} \cup picked.selected]
    IN  FoldLeft(LAMBDA acc, recipe :
                     FoldLeft(LAMBDA acc2, a : try(recipe, acc2, a, Ingredients(layout, acc2.used, recipe, a)), acc,
                              [i \in Instances |-> i]),
                 start, recipes)

\* EvaluateCrafts
CraftsOf(recipes, layout) ==
    CraftWalk(recipes, layout, [used |-> {}, crafts |-> <<>>],
              LAMBDA acc, recipe, a, picked :
                  [acc EXCEPT !.crafts = Append(@, [result |-> recipe.result,
                       anchor |-> a, ingredients |-> picked])]).crafts
Crafts(layout) == CraftsOf(PossibleRecipes, layout)
CountCraft(crafts, result) == Cardinality({n \in DOMAIN crafts : crafts[n].result = result})

\* evaluateCraftScoreOnly: no activations, only how many, and how many of each
\* result a priority asks for.
CraftScoreOnly(layout, results) ==
    CraftWalk(PossibleRecipes, layout, [used |-> {}, count |-> 0, of |-> [n \in DOMAIN results |-> 0]],
              LAMBDA acc, recipe, a, picked :
                  [acc EXCEPT !.count = @ + 1,
                              !.of = [n \in DOMAIN results |->
                                         IF results[n] = recipe.result THEN @[n] + 1 ELSE @[n]]])
-----------------------------------------------------------------------------
(* Priorities.                                                              *)

Concat(parts) == FlattenSeq(parts)

\* EvaluatePriorityScoreWithCoverageGroupsAndSemantics
PriorityCounts(layout, crafts, stars, config) ==
    LET groups  == NormalizeCoverageGroups(ActiveCoverageGroups(config))
        grouped == CoverageGroupSources(groups)
        ps      == config.priorities
        bucket(g) == BucketCounts(DOMAIN layout, stars, g)
        loose(source) == LooseCount(stars, source, config.semantics)
        outer   == Where(PriorityStarSources(config), LAMBDA x : x \notin grouped)
        sources == PriorityStarSources(config)
        firstStar(n) == ps[n].kind = "star_source" /\ \A m \in 1..n - 1 : ps[m].kind # "star_source"
        inOrder(n) ==
            CASE ps[n].kind = "craft" -> <<CountCraft(crafts, ps[n].value)>>
              [] ps[n].kind = "coverage_group" /\ ps[n].value + 1 \in DOMAIN groups ->
                     bucket(groups[ps[n].value + 1])
              [] ps[n].kind = "star_source" /\ ps[n].value \notin grouped -> <<loose(ps[n].value)>>
              [] OTHER -> <<0>>
        inBlock(n) ==
            CASE ps[n].kind = "craft" -> <<CountCraft(crafts, ps[n].value)>>
              [] firstStar(n) -> bucket([sources |-> sources, targets |-> {}])
              [] ps[n].kind = "star_source" -> <<>>
              [] OTHER -> <<0>>
    IN  CASE ActiveCoverageGroups(config) # <<>> /\ ~GlobalPriorityOrder(config) ->
                 Concat([n \in DOMAIN groups |-> bucket(groups[n])])
                 \o [n \in DOMAIN outer |-> TargetBreadth({st \in stars : Inventory[st[1]] = outer[n]})]
                 \o [n \in DOMAIN Of("craft", config) |->
                         CountCraft(crafts, Of("craft", config)[n].value)]
          [] ActiveCoverageGroups(config) # <<>> \/ IsOutgoing(config.semantics) ->
                 Concat([n \in DOMAIN ps |-> inOrder(n)])
          [] OTHER -> Concat([n \in DOMAIN ps |-> inBlock(n)])

Score(priority, crafts, stars, items, breadth, pairs, diversity) ==
    [priority |-> priority, rest |-> <<crafts, stars, items, breadth, pairs, diversity>>]

\* EvaluateLayoutWithCoverageGroupsAndSemantics
FullScore(layout, crafts, stars, config) ==
    Score(PriorityCounts(layout, crafts, stars, config), Len(crafts), Cardinality(stars),
          Cardinality(DOMAIN layout), TargetBreadth(stars), ReciprocalPairs(stars),
          SourceDefinitionDiversity(stars))
EvaluateLayout(layout, config) == FullScore(layout, Crafts(layout), Stars(layout), config)
-----------------------------------------------------------------------------
(* The score alone, counted while the stars are walked.                     *)

\* Plausible slip, used to test the properties.
EveryStarCounts(layout, s, k, t) == t \in Hits(layout, s, k)

\* A star counts unless an earlier one of its source hit the same target.
Counts(layout, s, k, t) ==
    t \in Hits(layout, s, k) /\ \A j \in 1..k - 1 : t \notin Hits(layout, s, j)
CountedStars(layout) ==
    UNION {{<<s, k, t>> : k \in {j \in DOMAIN layout[s].stars : Counts(layout, s, j, t)}} :
           s \in DOMAIN layout, t \in DOMAIN layout}

CraftCountOf(craftCounts, results, result) ==
    LET at == {m \in DOMAIN results : results[m] = result} IN
    IF at = {} THEN 0 ELSE craftCounts[Max(at)]

\* The counts of EvaluateScoreOnlyWithCoverageGroupsAndSemantics, for the groups,
\* star sources and results that are asked for.
Asked(config) == [groups  |-> NormalizeCoverageGroups(ActiveCoverageGroups(config)),
                  sources |-> PriorityStarSources(config),
                  results |-> Values(Of("craft", config))]
ScoreOnlyPriorityCounts(layout, counted, edges, craftCounts, config, asked) ==
    LET ps      == config.priorities
        groups  == asked.groups
        grouped == CoverageGroupSources(groups)
        craft(result) == CraftCountOf(craftCounts, asked.results, result)
        loose(source) ==
            LET mine == {c \in counted : Inventory[c[1]] = source} IN
            IF config.semantics = "outgoing_v3" THEN Cardinality(mine)
                                                ELSE Cardinality({c[3] : c \in mine})
        outer   == SelectSeq(asked.sources, LAMBDA x : x \notin grouped)
        legacy  == BucketCounts(DOMAIN layout, edges, [sources |-> asked.sources, targets |-> {}])
        one(acc, p) ==      \* legacy: coverage at the first star source, crafts in turn
            CASE p.kind = "star_source" /\ ~acc.covered ->
                     [acc EXCEPT !.counts = @ \o legacy, !.covered = TRUE]
              [] p.kind = "star_source" -> acc
              [] p.kind = "craft" -> [acc EXCEPT !.counts = Append(@, craftCounts[acc.craft]),
                                                 !.craft = @ + 1]
              [] OTHER -> [acc EXCEPT !.counts = Append(@, 0)]
        inOrder(p) ==
            CASE p.kind = "coverage_group" /\ p.value + 1 \in DOMAIN groups ->
                     BucketCounts(DOMAIN layout, edges, groups[p.value + 1])
              [] p.kind = "star_source" /\ p.value \notin grouped -> <<loose(p.value)>>
              [] p.kind = "craft" -> <<craft(p.value)>>
              [] OTHER -> <<0>>
    IN  IF ActiveCoverageGroups(config) # <<>>
        THEN IF GlobalPriorityOrder(config)
             THEN Concat([n \in DOMAIN ps |-> inOrder(ps[n])])
             ELSE Concat([n \in DOMAIN groups |-> BucketCounts(DOMAIN layout, edges, groups[n])])
                  \o [n \in DOMAIN outer |-> loose(outer[n])] \o craftCounts
        ELSE IF IsOutgoing(config.semantics)
        THEN Concat([n \in DOMAIN ps |-> inOrder(ps[n])])
        ELSE FoldLeft(one, [counts |-> <<>>, covered |-> FALSE, craft |-> 1], ps).counts

ScoreOnly(layout, counted, edges, crafts, config) ==
    Score(ScoreOnlyPriorityCounts(layout, counted, edges, crafts.of, config, Asked(config)), crafts.count,
          Cardinality(counted), Cardinality(DOMAIN layout), TargetBreadth(edges),
          ReciprocalPairs(edges), SourceDefinitionDiversity(edges))
EdgesOf(counted) == {<<c[1], c[3]>> : c \in counted}
EvaluateScoreOnly(layout, config) ==
    ScoreOnly(layout, CountedStars(layout), EdgesOf(CountedStars(layout)),
              CraftScoreOnly(layout, Values(Of("craft", config))), config)
-----------------------------------------------------------------------------
(* The order of scores.                                                     *)

\* ComparePriorityCounts: the shorter sequence is padded with zeros.
CountAt(s, n) == IF n \in DOMAIN s THEN s[n] ELSE 0
DifferenceAt(left, right, apart) ==
    IF apart = {} THEN 0 ELSE CountAt(left, Min(apart)) - CountAt(right, Min(apart))
ComparePriorityCounts(left, right) ==
    DifferenceAt(left, right, {n \in DOMAIN left \cup DOMAIN right : CountAt(left, n) # CountAt(right, n)})

FirstNonZero(a, b) == IF a # 0 THEN a ELSE b
CompareScores(left, right) ==
    FirstNonZero(ComparePriorityCounts(left.priority, right.priority),
                 ComparePriorityCounts(left.rest, right.rest))
=============================================================================
