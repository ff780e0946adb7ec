------------------------------ MODULE MCRepair ------------------------------
(* Repairs of the small backpack from poor layouts, under every way to ask for
   a priority; then plateaus, with levels of two sizes and a deep one, several
   workers, budgets that run out in the middle of things, and a cancellation. *)
EXTENDS Plateau, SmallBackpack

MCIDRank == <<3, 1, 4, 2>>      \* "gem#1" < "gem#2" < "herb" < "sword" say

\* With fewer stars the gems and the herb can be at their ceilings.
FewerStars ==
    [MCItems EXCEPT !.gem.stars = <<Star(<<0, 1>>, {}, {}, TRUE)>>,
                    !.herb.stars = <<Star(<<-1, 0>>, {}, {}, FALSE), Star(<<0, -1>>, {}, {}, FALSE)>>]

At(i, spot) == CHOOSE p \in OptionSet(i) : PlacementKey(p) = spot
Placed(spots) == [i \in DOMAIN spots |-> At(i, spots[i])]
GemsOnly == Placed(2 :> <<0, 0, 0>> @@ 4 :> <<0, 0, 2>>)
SwordAndHerb == Placed(1 :> <<0, 0, 0>> @@ 3 :> <<0, 1, 1>>)
Everything == Placed(<<<<0, 0, 0>>, <<0, 0, 2>>, <<0, 1, 1>>, <<0, 1, 2>>>>)
\* At the ceiling of one, with little else.
GemsReach == Placed(<<<<0, 1, 1>>, <<0, 0, 0>>, <<0, 0, 1>>, <<0, 1, 0>>>>)
GemsSettled == Placed(<<<<0, 0, 1>>, <<0, 0, 0>>, <<0, 1, 2>>, <<0, 1, 1>>>>)
HerbReaches == Placed(<<<<90, 0, 0>>, <<0, 0, 1>>, <<0, 1, 1>>>>)
ForStarsOf(id) == [Bases[5] EXCEPT !.priorities = <<StarsOf(id)>>]

Level(size, bps, minNodes, minMandatory, maxMandatory, selected, perBase) ==
    [size |-> size, bps |-> bps, minNodes |-> minNodes, minMandatory |-> minMandatory,
     maxMandatory |-> maxMandatory, selected |-> selected, perBase |-> perBase]
NoLevels == <<>>
TwoLevels == <<Level(3, 3000, 0, 0, 0, 0, 0), Level(4, 7000, 0, 0, 0, 0, 0)>>
DeepLevels == <<Level(3, 2500, 0, 0, 3, 0, 0), Level(4, 2500, 0, 0, 0, 0, 0), Level(4, 5000, 20, 3, 4, 2, 1)>>

Run(base, seeds, repairNodes) ==
    [base EXCEPT !.limited = TRUE] @@
    [topN |-> 1, workers |-> 1, cancelable |-> FALSE, seeds |-> seeds,
     repairNodes |-> repairNodes, maxNodes |-> repairNodes, lnsPercent |-> 0, refinePercent |-> 0,
     levels |-> NoLevels]
OnPlateau(id, seed, repairNodes, maxNodes, lns, refine, levels) ==
    [Run(ForStarsOf(id), <<seed>>, repairNodes) EXCEPT
        !.maxNodes = maxNodes, !.lnsPercent = lns, !.refinePercent = refine, !.levels = levels]

MCConfigs ==
    <<Run(Bases[1], <<GemsOnly, SwordAndHerb>>, 600),
      Run(Bases[3], <<SwordAndHerb>>, 600),
      Run(Bases[6], <<GemsOnly>>, 600),
      [Run(Bases[7], <<Everything>>, 100) EXCEPT !.workers = 2],
      [Run(Bases[5], <<GemsOnly>>, 50) EXCEPT !.cancelable = TRUE],
      [Run(Bases[2], <<GemsOnly>>, 80) EXCEPT !.workers = 2],
      OnPlateau("gem", GemsReach, 10, 500, 40, 20, TwoLevels),
      OnPlateau("herb", HerbReaches, 10, 500, 40, 20, DeepLevels),
      OnPlateau("herb", HerbReaches, 60, 100, 2, 5, TwoLevels),
      OnPlateau("gem", GemsSettled, 10, 1000, 40, 20, DeepLevels),
      [OnPlateau("herb", HerbReaches, 10, 200, 80, 0, TwoLevels) EXCEPT !.workers = 2]>>
=============================================================================
