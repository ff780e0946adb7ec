------------------------------ MODULE Plateau -------------------------------
(***************************************************************************)
(* What solveLayoutStage does once every priority is at its ceiling:       *)
(* repairs that keep it there and look for a better rest of the score      *)
(* (plateauTieBreakLNS), and a bounded walk along the plateau              *)
(* (refinePlateau), both from the layouts of the archive.  The phases      *)
(* follow the repair of Repair, with no tree search between them.          *)
(*                                                                         *)
(* A configuration of Repair also has maxNodes, lnsPercent, refinePercent  *)
(* and levels, a sequence of [size, bps, minNodes, minMandatory,           *)
(* maxMandatory, selected, perBase], 0 for no maximum.                     *)
(***************************************************************************)
EXTENDS Repair

CONSTANTS MinPlateau, WalkDepth      \* 5 and 3 in the code

\* The budget of repair is a percentage of the nodes of the solve, or less; what
\* the levels ask for is in hundredths of a percent of the budget of their phase.
ASSUME PhaseAssumption ==
    \A c \in DOMAIN Configs :
        /\ Configs[c].maxNodes \in Nat /\ Configs[c].repairNodes <= Configs[c].maxNodes
        /\ Configs[c].lnsPercent \in Nat /\ Configs[c].refinePercent \in Nat
        /\ Configs[c].levels \in Seq(Range(Configs[c].levels))
        /\ \A lv \in Range(Configs[c].levels) : lv.bps \in Nat /\ lv.minNodes \in Nat

VARIABLES
    used,       \* nodes of the phases that ended
    budget,     \* of the phase
    bases,      \* archive at the start of the phase
    ready,      \* neighbourhoods of each level
    level,      \* index of the level
    deepOnly,   \* a normal level improved: only deep ones are left
    carried,    \* quota handed on by the levels before
    quota,      \* of the level
    began,      \* nodes of the phase when the level began
    champion,   \* best layout of the phase
    lifted,     \* the level improved it
    walkers,    \* states of the walk, the most promising first
    visited,    \* hashes of all there have been
    moves       \* moves of the current one still to try

lnsVars == <<bases, ready, level, deepOnly, carried, quota, began, champion, lifted>>
stepVars == <<walkers, visited, moves>>
vars == <<repairVars, used, budget, lnsVars, stepVars>>

Init ==
    /\ RepairInit
    /\ used = 0 /\ budget = 0 /\ bases = <<>> /\ ready = <<>> /\ level = 0 /\ deepOnly = FALSE
    /\ carried = 0 /\ quota = 0 /\ began = 0 /\ champion = <<>> /\ lifted = FALSE
    /\ walkers = <<>> /\ visited = {} /\ moves = <<>>

Levels == Cfg.levels
AtCeiling == elites # <<>> /\ PriorityCeilingReached(Cfg, elites[1].score)
PhaseBudget(percent) == Min({(Cfg.maxNodes * percent) \div 100, Cfg.maxNodes - used - nodes})
-----------------------------------------------------------------------------
(* The neighbourhoods of a level.                                           *)

\* The targets a source could still reach, by how well they go together.
OpportunityValue(l, s, t) ==
    Compatibility(s, t) \div (IF t \in DOMAIN l /\ PlacementHits(s, l[s], t, l[t]) THEN 2 ELSE 1)
Opportunities(l, stars, s) ==
    IF s \notin DOMAIN l \/ LinksOf(stars, s) >= StarCount(s) THEN <<>>
    ELSE SortedBy({t \in Instances : CanTarget(s, t) /\ Compatibility(s, t) > 0},
                  LAMBDA t : <<-OpportunityValue(l, s, t), IDRank[t]>>)

\* plateauIndirectBlockers
Indirect(l, options, direct, mandatory) ==
    Excluding(Distinct(FlattenSeq([n \in DOMAIN direct |-> BlockingInstances(l, options[direct[n]])])),
              Range(mandatory) \cup Range(direct))

Opportunity(l, lv, worth, closure) ==
    IF ~(/\ Cardinality(closure) >= lv.minMandatory
         /\ lv.maxMandatory > 0 => Cardinality(closure) <= lv.maxMandatory
         /\ Cardinality(closure) <= lv.size)
    THEN <<>>
    ELSE <<[base |-> l, mandatory |-> Cardinality(closure),
            ids |-> Filled(closure, Nearby(l, closure), lv.size),
            priority |-> worth]>>
OpportunityFor(l, lv, options, s, t, direct) ==
    LET indirect == Indirect(l, options, direct, <<s, t>>)
    IN  Opportunity(l, lv, 100000 + OpportunityValue(l, s, t) + 10 * Len(indirect),
                    {s, t} \cup Range(direct) \cup Range(indirect))
OpportunitiesOf(l, lv, options, s, targets) ==
    FlattenSeq([n \in DOMAIN targets |->
        OpportunityFor(l, lv, options, s, targets[n], Blockers(l, options, <<s, targets[n]>>))])

\* Where two closures have the same instances the first counts: sources in
\* order, the targets of each from the best.
FirstOfIDs(ns) ==
    TakePlaces(ns, Upwards({n \in DOMAIN ns :
        /\ Cardinality(ns[n].ids) >= Min({MinPlateau, Len(Inventory)})
        /\ \A m \in 1..n - 1 : ns[m].ids # ns[n].ids}))
OpportunitiesIn(l, lv, options, stars) ==
    FirstOfIDs(FlattenSeq([s \in Instances |->
        OpportunitiesOf(l, lv, options, s, Opportunities(l, stars, s))]))

\* Keys begin with the layout.
OpportunityKey(n) == LayoutRank(n.base) \o SortedIDs(n.ids)
ByOpportunity(ns) == Arranged(ns, LAMBDA n : <<-n.priority>> \o OpportunityKey(n))

\* prioritizePlateauNeighborhoods, filterPriorityFeasibleNeighborhoods
Kept(n) == [i \in DOMAIN n.base \ n.ids |-> n.base[i]]
Feasible(ns, target) ==
    TakePlaces(ns, Upwards({n \in DOMAIN ns : PartialRepairFeasible(Cfg, Kept(ns[n]), ns[n].ids, target)}))
Promising(ns) ==
    [n \in DOMAIN ns |-> [ns[n] EXCEPT !.priority = @ + RelaxedStarUpper(Kept(ns[n]), ns[n].ids)]]

\* selectPlateauLevelNeighborhoods: at most so many of a base, and at most so many.
Deep(lv) == lv.minMandatory > 0
Capped(lv) == lv.selected > 0 \/ lv.perBase > 0
SelectLevel(ordered, lv) ==
    LET ofBase(s, base) == Cardinality({n \in DOMAIN s : s[n].base = base})
        take(s, n) == IF \/ lv.perBase > 0 /\ ofBase(s, n.base) >= lv.perBase
                         \/ lv.selected > 0 /\ Len(s) >= lv.selected
                      THEN s ELSE Append(s, n)
    IN  FoldLeft(take, <<>>, ordered)
Ranked(ns, lv) ==
    IF Capped(lv) /\ Deep(lv)
    THEN Arranged(ns, LAMBDA n : <<-n.priority, n.mandatory>> \o OpportunityKey(n))
    ELSE ByOpportunity(ns)
Listed(ns, lv) == IF Capped(lv) THEN ns ELSE First(ByOpportunity(ns), MaxNeighbourhoods)
LevelNeighbourhoods(lv, solutions, target) ==
    LET all == FlattenSeq([n \in DOMAIN solutions |->
                   OpportunitiesIn(solutions[n].layout, lv, prepared.options, Stars(solutions[n].layout))])
    IN  SelectLevel(Ranked(Promising(Feasible(Listed(all, lv), target)), lv), lv)
-----------------------------------------------------------------------------
(* plateauTieBreakLNS.                                                      *)

LNSBudget == PhaseBudget(Cfg.lnsPercent)
RepairEnded == stage = "repair" /\ phase = "ended"

\* A canceled solve returns an error after repair, whatever was found.
Abandon ==
    /\ RepairEnded /\ canceled
    /\ stage' = "done" /\ elites' = <<>>
    /\ UNCHANGED <<fixedVars, phase, tried, batch, better, nodes, noticed, job, taskVars, walkVars, canceled,
                   used, budget, lnsVars, stepVars>>

\* What the ceiling and the levels have in common: the target never changes,
\* since no layout is above the ceiling.
BeginPhase(next, amount) ==
    /\ stage' = next /\ budget' = amount
    /\ used' = used + nodes /\ nodes' = 0
    /\ champion' = elites[1]
    /\ bases' = archive
    /\ UNCHANGED <<fixedVars, elites, tried, batch, better, noticed, job, taskVars, walkVars, canceled>>
StartLNS ==
    /\ RepairEnded /\ ~canceled /\ AtCeiling /\ LNSBudget > 0
    /\ BeginPhase("lns", LNSBudget) /\ phase' = "level"
    /\ ready' = [n \in DOMAIN Levels |-> LevelNeighbourhoods(Levels[n], archive, elites[1].score.priority)]
    /\ level' = 1 /\ carried' = 0 /\ deepOnly' = FALSE
    /\ UNCHANGED <<quota, began, lifted, stepVars>>

\* plateauLevelQuota
Remaining == budget - nodes
LevelQuota(n) ==
    LET wanted == (budget * Levels[n].bps) \div 10000 + carried
    IN  IF wanted > Remaining \/ (n = Len(Levels) /\ ~Deep(Levels[n])) THEN Remaining ELSE wanted
CanRun(lv, amount) == amount > 0 /\ amount >= lv.minNodes

AtLevel == stage = "lns" /\ phase = "level" /\ level <= Len(Levels) /\ Remaining > 0
Skips == deepOnly /\ ~Deep(Levels[level])
Runs == CanRun(Levels[level], LevelQuota(level)) /\ ready[level] # <<>>

PassLevel ==
    /\ AtLevel /\ (Skips \/ ~Runs)
    /\ carried' = IF Skips THEN carried ELSE LevelQuota(level)
    /\ level' = level + 1
    /\ UNCHANGED <<repairVars, used, budget, bases, ready, deepOnly, quota, began, champion, lifted, stepVars>>
StartLevel ==
    /\ AtLevel /\ ~Skips /\ Runs
    /\ quota' = LevelQuota(level)
    /\ batch' = Divided(ready[level], quota')
    /\ began' = nodes /\ lifted' = FALSE
    /\ phase' = "batch"
    /\ UNCHANGED <<fixedVars, stage, elites, tried, better, nodes, noticed, job, taskVars, walkVars, canceled,
                   used, budget, bases, ready, level, deepOnly, carried, champion, stepVars>>

InLevel == stage = "lns" /\ phase = "batch"
Idle == Head(batch).quota <= 0 \/ nodes >= budget
PassOpportunity ==
    /\ InLevel /\ batch # <<>> /\ Idle
    /\ batch' = Tail(batch)
    /\ UNCHANGED <<fixedVars, stage, phase, elites, tried, better, nodes, noticed, job, taskVars, walkVars, canceled,
                   used, budget, lnsVars, stepVars>>
StartOpportunity ==
    /\ InLevel /\ batch # <<>> /\ ~Idle
    /\ Start(Head(batch).of, Head(batch).quota, champion.score.priority, bases)
    /\ UNCHANGED <<tried, better, noticed, used, budget, lnsVars, stepVars>>

Surpasses(best, s) == PriorityCeilingReached(Cfg, s.score) /\ CompareScores(s.score, best.score) > 0
EndOpportunity ==
    /\ stage = "lns" /\ Searched
    /\ nodes' = nodes + work
    /\ champion' = FoldLeft(LAMBDA best, s : IF Surpasses(best, s) THEN s ELSE best, champion, Merged)
    /\ lifted' = (lifted \/ champion' # champion)
    /\ phase' = "batch" /\ tasks' = <<>> /\ job' = NoJob /\ work' = 0
    /\ UNCHANGED <<fixedVars, stage, elites, tried, batch, better, noticed, waiting, at, pools, partial,
                   walkVars, canceled, used, budget, bases, ready, level, deepOnly, carried, quota, began, stepVars>>

\* An improvement ends the phase unless a deep level is still to come.
DeepLeft ==
    \E n \in level + 1..Len(Levels) :
        Deep(Levels[n]) /\ CanRun(Levels[n], (budget * Levels[n].bps) \div 10000) /\ ready[n] # <<>>
EndLevel ==
    /\ InLevel /\ batch = <<>>
    /\ carried' = quota - (nodes - began)
    /\ level' = IF lifted /\ ~DeepLeft THEN Len(Levels) + 1 ELSE level + 1
    /\ deepOnly' = (deepOnly \/ lifted)
    /\ phase' = "level"
    /\ UNCHANGED <<fixedVars, stage, roundVars, taskVars, walkVars, canceled,
                   used, budget, bases, ready, quota, began, champion, lifted, stepVars>>

\* Plausible slip, used to test the properties.
ArchiveJoins == elites' = MergeSolutions(elites, archive, Limit)

\* Only a strictly better layout joins the results.
KeepChampion ==
    elites' = IF CompareScores(champion.score, elites[1].score) > 0
              THEN MergeSolutions(elites, <<champion>>, Limit) ELSE elites
EndLNS ==
    /\ stage = "lns" /\ phase = "level" /\ ~AtLevel
    /\ KeepChampion
    /\ stage' = "between" /\ phase' = "ended"
    /\ UNCHANGED <<fixedVars, tried, batch, better, nodes, noticed, job, taskVars, walkVars, canceled,
                   used, budget, lnsVars, stepVars>>
-----------------------------------------------------------------------------
(* refinePlateau.                                                           *)

\* A state of the walk, with the stars it might still come to.
Walker(s, depth) == [solution |-> s, depth |-> depth, upper |-> GeometricStars(s.layout)]
InWalkOrder(states) ==
    First(Arranged(states, LAMBDA w : <<-w.upper>> \o EntryRank(w.solution)), ArchiveCapacity)

WalkBudget == PhaseBudget(Cfg.refinePercent)
BeforeWalk == stage = "between" \/ (RepairEnded /\ ~canceled /\ (~AtCeiling \/ LNSBudget <= 0))
Starters ==
    TakePlaces(archive, Upwards({n \in DOMAIN archive :
        CanonicalHash(archive[n].layout) # CanonicalHash(elites[1].layout)}))

StartWalk ==
    /\ BeforeWalk /\ AtCeiling /\ WalkBudget > 0
    /\ BeginPhase("walk", WalkBudget) /\ phase' = "walking"
    /\ \E from \in {IF Starters = <<>> THEN <<elites[1]>> ELSE Starters} :
           walkers' = InWalkOrder([n \in DOMAIN from |-> Walker(from[n], 0)])
    /\ visited' = {CanonicalHash(s.layout) : s \in Range(Starters) \cup {elites[1]}}
    /\ moves' = <<>>
    /\ UNCHANGED <<ready, level, deepOnly, carried, quota, began, lifted>>
NoWalk ==
    /\ BeforeWalk /\ (~AtCeiling \/ WalkBudget <= 0)
    /\ stage' = "done"
    /\ UNCHANGED <<fixedVars, phase, roundVars, taskVars, walkVars, canceled, used, budget, lnsVars, stepVars>>

\* The moves of one instance that leave the layout legal.
MovesOf(l, i) ==
    Where(prepared.options[i],
          LAMBDA p : p # l[i] /\ Fits(Without(l, i), p) /\ RespectsCopyOrder(l, i, p))
Reached(l, i, places) == [n \in DOMAIN places |-> With(l, i, places[n])]
MovesFrom(l) ==
    FlattenSeq([i \in Instances |-> IF i \in DOMAIN l THEN Reached(l, i, MovesOf(l, i)) ELSE <<>>])

Stepping == stage = "walk" /\ nodes < budget
Leave ==
    /\ Stepping /\ moves = <<>> /\ walkers # <<>>
    /\ walkers' = Tail(walkers)
    /\ \E layouts \in {MovesFrom(Head(walkers).solution.layout)} :
           moves' = IF Head(walkers).depth >= WalkDepth THEN <<>>
                    ELSE [n \in DOMAIN layouts |-> [layout |-> layouts[n], depth |-> Head(walkers).depth + 1]]
    /\ UNCHANGED <<repairVars, used, budget, lnsVars, visited>>

\* One move: a layout off the ceiling is dropped, one seen before is not
\* walked from again, but each may be the best so far.
Arrive(s, depth) ==
    /\ champion' = IF CompareScores(s.score, champion.score) > 0 THEN s ELSE champion
    /\ archive' = Observe(Cfg, archive, s)
    /\ observed' = observed \cup {s}
    /\ IF CanonicalHash(s.layout) \in visited THEN UNCHANGED <<walkers, visited>>
       ELSE /\ visited' = visited \cup {CanonicalHash(s.layout)}
            /\ walkers' = InWalkOrder(Append(walkers, Walker(s, depth)))
TryMove ==
    /\ Stepping /\ moves # <<>>
    /\ nodes' = nodes + 1
    /\ moves' = Tail(moves)
    /\ \E s \in {Solution(Head(moves).layout, Cfg)} :
          IF PriorityCeilingReached(Cfg, s.score) THEN Arrive(s, Head(moves).depth)
          ELSE UNCHANGED <<champion, archive, observed, walkers, visited>>
    /\ UNCHANGED <<fixedVars, stage, phase, elites, tried, batch, better, noticed, job, taskVars,
                   todo, spent, pool, halted, canceled, used, budget,
                   bases, ready, level, deepOnly, carried, quota, began, lifted>>
EndWalk ==
    /\ stage = "walk" /\ (nodes >= budget \/ (moves = <<>> /\ walkers = <<>>))
    /\ KeepChampion
    /\ stage' = "done"
    /\ UNCHANGED <<fixedVars, phase, tried, batch, better, nodes, noticed, job, taskVars, walkVars, canceled,
                   used, budget, lnsVars, stepVars>>

LNSNext ==
    \/ Abandon \/ StartLNS \/ PassLevel \/ StartLevel \/ PassOpportunity \/ StartOpportunity
    \/ EndOpportunity \/ EndLevel \/ EndLNS
PlateauNext == StartWalk \/ NoWalk \/ Leave \/ TryMove \/ EndWalk
Next ==
    \/ RepairNext /\ UNCHANGED <<used, budget, lnsVars, stepVars>>
    \/ LNSNext
    \/ PlateauNext
Spec == Init /\ [][Next]_vars
-----------------------------------------------------------------------------
\* A neighbourhood whose tasks all had nodes enough is searched to the end: no
\* way to place the instances again, that meets the target, is better than what
\* is kept, unless it is kept.  Bounds, split, copy order and the score-only
\* filter are the ways to lose one.
Reinsertions ==
    {Solution(l, Cfg) : l \in {m \in Completions(Cfg, job.fixed, job.plan.order) : Canonical(m)}}
NeighbourhoodIsSearched ==
    Searched /\ ~partial =>
        \A kept \in {Merged} : \A s \in Reinsertions :
            \/ BelowTarget(s.score) \/ s \in Range(kept)
            \/ Len(kept) = Limit /\ ~SolutionLess(s, Last(kept))

\* "A high-priority neighborhood therefore cannot consume the entire LNS phase"
\* (repair.go:251): a round or level divides all it has, equally among the bases
\* and equally among the neighbourhoods of each.
Even(parts) == \A x, y \in parts : x - y <= 1
OfBase(divided, base) == {n \in DOMAIN divided : divided[n].of.base = base}
ShareOf(divided, base) == Total([n \in OfBase(divided, base) |-> divided[n].quota])
EvenlyDivided(divided, total) ==
    LET all == {divided[n].of.base : n \in DOMAIN divided} IN
    /\ Total([n \in DOMAIN divided |-> divided[n].quota]) = total
    /\ Even({ShareOf(divided, base) : base \in all})
    /\ \A base \in all : Even({divided[n].quota : n \in OfBase(divided, base)})
SharesAreEqual ==
    [][phase' = "batch" /\ phase \in {"round", "level"} =>
           EvenlyDivided(batch', IF stage = "repair" THEN Cfg.repairNodes - nodes ELSE quota')]_vars

\* Through tasks, neighbourhoods, levels that hand on what they leave, and the
\* walk, no part spends more than it was given, and all together not more than
\* the limit.
Spending == nodes + work + spent
BudgetsAreKept ==
    /\ job # NoJob => work + spent <= job.quota
    /\ stage = "repair" => Spending <= Cfg.repairNodes
    /\ stage = "lns" => Spending <= budget
    /\ InLevel \/ (stage = "lns" /\ phase = "walk") => Spending - began <= quota
    /\ stage = "walk" => Spending <= budget
    /\ used + Spending <= Cfg.maxNodes

\* Whenever the archive is read it holds what it should of all it was shown,
\* in whatever order: as many signatures as it has room for, and in place of a
\* layout it keeps a better one is left out only where the kept one is the best
\* of its signature and the other is not the best of its own.
ArchiveKeepsBestLinks ==
    phase = "ended" \/ stage = "done" =>
        \A rank \in {Table([s \in observed |-> EntryRank(s)])},
           links \in {Table([s \in observed |-> LinkSignature(s.layout)])} :
            LET hashes == {CanonicalHash(s.layout) : s \in observed}
                before(s, t) == SeqLess(rank[s], rank[t])
                best(s) == \A t \in observed : links[t] = links[s] => ~before(t, s)
            IN  /\ Range(archive) \subseteq observed
                /\ Len(archive) = Min({ArchiveCapacity, Cardinality(hashes)})
                /\ Cardinality({links[e] : e \in Range(archive)}) =
                       Min({ArchiveCapacity, Cardinality({links[s] : s \in observed})})
                /\ \A e \in Range(archive), s \in observed \ Range(archive) :
                       before(s, e) => best(e) /\ ~best(s)

\* The archive "is never an incumbent tie breaker" (plateau.go:27) and the walk
\* "only emits a replacement when the complete compareScores vector strictly
\* improves" (plateau.go:1102): the best result gets better or stays, repair
\* never gives it up, and on the plateau only a strictly better score replaces
\* it, with every priority still at its ceiling.
OnlyBetterReplaces ==
    [][elites # <<>> /\ elites' # elites =>
           \/ canceled
           \/ stage = "repair" /\ ~SolutionLess(elites[1], elites'[1])
           \/ /\ CompareScores(elites'[1].score, elites[1].score) > 0
              /\ PriorityCeilingReached(Cfg, elites'[1].score)]_vars

\* Whatever is taken out and put back, moved or kept from earlier, results and
\* archive hold legal layouts with their true scores: on the board, apart, the
\* copies in order, nothing left out that must not be.
Legal(s) == LegalLayout(Cfg, s.layout) /\ s.score = EvaluateLayout(s.layout, Cfg)
ResultsAreLegal ==
    phase # "walk" => \A s \in Range(elites) \cup Range(archive) : Legal(s)
=============================================================================
