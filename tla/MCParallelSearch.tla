-------------------------- MODULE MCParallelSearch --------------------------
(* Instances for TLC of the parallel search over three small roots. *)
EXTENDS ParallelSearch, TLC
CONSTANTS w1, w2, w3
MCWorker == {w1, w2, w3}
Symmetry == Permutations(MCWorker)

\* Sizes of the three trees and where their leaves are: the best leaf ends the
\* second root, so that a third may be on its way when it is found; the first
\* root has more nodes than its tight budget.
MCTreeSize == <<4, 2, 2>>
MCRank == << <<0, 5, 2, 6>>, <<0, 1>>, <<4, 3>> >>
MCSeeds == <<4>>

MCSetting(workers, limited, ceiling, cancelable) ==
    [workers |-> workers, limited |-> limited, budget |-> <<3, 2, 2>>,
     ceiling |-> ceiling, cancelable |-> cancelable]

\* A pool that a ceiling or a cancellation stops; pools that nothing stops, with
\* tight budgets and with none; one worker, with and without budgets.
MCSettings ==
    {MCSetting(3, TRUE, 1, TRUE), MCSetting(3, TRUE, 0, FALSE),
     MCSetting(2, FALSE, 0, TRUE), MCSetting(1, FALSE, 0, TRUE),
     MCSetting(1, TRUE, 1, FALSE)}

\* The ledger refuses the fifth node of the search, or everything goes through
\* tight budgets; a ceiling stops some of the searches.
MCLedgerSettings == {MCSetting(2, FALSE, 0, FALSE), MCSetting(2, TRUE, 1, TRUE)}
=============================================================================
