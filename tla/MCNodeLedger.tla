---------------------------- MODULE MCNodeLedger ----------------------------
(***************************************************************************)
(* A small ledger: two stages whose limits add up to more than the         *)
(* execution limit, so that each of the two refusals is met first in some  *)
(* interleaving, and one stage with no limit of its own.                   *)
(***************************************************************************)
EXTENDS NodeLedger

MCStages == {"prefix", "remainder", "unlisted"}
MCNode == MCStages \X (1..2)
MCStageOf == [n \in MCNode |-> n[1]]
MCQuotas == {-1, 0, 2, 3}
MCStageLimit == [s \in MCStages |->
    CASE s = "prefix" -> 1 [] s = "remainder" -> 2 [] OTHER -> 0]
=============================================================================
