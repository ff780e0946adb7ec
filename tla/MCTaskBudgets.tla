--------------------------- MODULE MCTaskBudgets ----------------------------
(* The policy's constants scaled down: 128 nodes a root become 2, 256 roots a
   worker become 3.  The budgets include 0, one node, budgets that do not
   divide evenly, and one that affords every split. *)
EXTENDS TaskBudgets
MCBudgets == {0, 1, 5, 9, 16}
MCWorkerCounts == {1, 2}
MCWeights == {1, 2, 5}
=============================================================================
