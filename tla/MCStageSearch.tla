--------------------------- MODULE MCStageSearch ----------------------------
(* Limits of a few nodes with the policy's constants scaled to them: 16 nodes
   in one stage, 4 and 8 in two, and an unlimited stage.  Every kind of
   seeding, with and without the stops at a ceiling, repairs and skips.  Two
   scores reach every priority, so a plateau phase still has something to
   find.  The overrun of the packing seed can use up the whole limit, as it can
   in a solve of a few hundred nodes, so that nothing is left to the search. *)
EXTENDS StageSearch

Setting(limits, seeding, bounded, constellation, repairs, stops, skips) ==
    [limits |-> limits, seeding |-> seeding, bounded |-> bounded,
     constellation |-> constellation, repairs |-> repairs,
     stopPriority |-> stops, stopCoverage |-> stops, skips |-> skips]
MCSettings ==
    {Setting(<<16>>, "packing", TRUE, c, TRUE, c, FALSE) : c \in BOOLEAN}
    \cup {Setting(<<16>>, "coverage", FALSE, FALSE, r, TRUE, FALSE) :
             r \in BOOLEAN}
    \cup {Setting(<<2>>, "packing", TRUE, FALSE, TRUE, FALSE, FALSE),
          Setting(<<10>>, "star", FALSE, FALSE, TRUE, FALSE, TRUE),
          Setting(<<0>>, "coverage", FALSE, FALSE, TRUE, TRUE, TRUE),
          Setting(<<0>>, "packing", TRUE, FALSE, TRUE, TRUE, FALSE),
          Setting(<<4, 8>>, "packing", TRUE, FALSE, TRUE, FALSE, FALSE)}
=============================================================================
