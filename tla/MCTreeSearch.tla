---------------------------- MODULE MCTreeSearch ----------------------------
(* Every configuration of the small backpack, searched exhaustively in roots
   of two instances, as without a node limit, and in one root with a limit
   that suffices; then searches that keep every layout, stop at a ceiling, run
   out of nodes, or start from layouts already found. *)
EXTENDS TreeSearch, SmallBackpack

Search(base, topN, refineMoves) ==
    base @@ [topN |-> topN, split |-> 2, taskNodes |-> 0, seeds |-> <<>>,
             seedNodes |-> 0, packingNodes |-> 0, beam |-> 2, stopOnCoverage |-> FALSE, stopOnPriority |-> FALSE, refineMoves |-> refineMoves]

Keeping(n) == Search([Bases[n] EXCEPT !.limited = FALSE], 80, 50)
Exhaustive(base) == Search([base EXCEPT !.limited = FALSE], 2, 25000)
Limited(base) ==
    [Search([base EXCEPT !.limited = TRUE], 2, 25000) EXCEPT !.split = 0, !.taskNodes = 5000]

NoPriorities == Config(<<>>, <<>>, "legacy", FALSE, FALSE)
At(n, rotation, row, column) ==
    CHOOSE p \in OptionSet(n) : PlacementKey(p) = <<rotation, row, column>>
GemsOnly == [i \in {2, 4} |-> At(i, 0, 0, i - 2)]
SwordAndHerb == [i \in {1, 3} |-> IF i = 1 THEN At(1, 0, 0, 0) ELSE At(3, 0, 1, 1)]
ForStarsOf(id) == [Bases[5] EXCEPT !.priorities = <<StarsOf(id)>>]

\* Seed searches: narrow beams that are cut and run out of nodes, one of them
\* at the end of a level; beams as wide as the tree; and two that reach a ceiling.
Seeded(base, nodes, beam) ==
    [Limited(base) EXCEPT !.taskNodes = 3, !.refineMoves = 10, !.seedNodes = nodes,
                          !.packingNodes = nodes \div 2, !.beam = beam]
MCAlphabet == <<"elixir", "gem", "herb", "leaf", "skip", "sword">>

MCConfigs ==
    [n \in 1..4 |-> Exhaustive(Bases[n])]
    \o [n \in 1..4 |-> Limited(Bases[n])]
    \o <<Limited(Bases[5]), Keeping(6), Keeping(7), Exhaustive(NoPriorities),
         [Exhaustive(ForStarsOf("gem")) EXCEPT !.stopOnPriority = TRUE],
         [Limited(ForStarsOf("herb")) EXCEPT !.stopOnPriority = TRUE, !.topN = 1],
         [Limited(Bases[3]) EXCEPT !.stopOnCoverage = TRUE, !.topN = 1],
         [Limited(Bases[5]) EXCEPT !.split = 2, !.taskNodes = 7, !.seeds = <<GemsOnly, SwordAndHerb>>, !.refineMoves = 40],
         [Limited(Bases[6]) EXCEPT !.split = 1, !.taskNodes = 40, !.seeds = <<SwordAndHerb>>],
         Seeded(Bases[3], 30, 2), Seeded(Bases[6], 28, 2), Seeded(Bases[7], 60, 3), Seeded(Bases[5], 54, 6),
         Seeded(Bases[4], 100000, 600), Seeded(Bases[6], 100000, 600),
         [Seeded(Bases[1], 100, 2) EXCEPT !.stopOnCoverage = TRUE, !.topN = 1],
         [Seeded(ForStarsOf("herb"), 200, 4) EXCEPT !.stopOnPriority = TRUE]>>
\* Refinement of results with one copy left out.
MCMoveConfigs == <<[Limited(Bases[5]) EXCEPT !.taskNodes = 7, !.seeds = <<GemsOnly, SwordAndHerb>>]>>
=============================================================================
