-------------------------- MODULE MCProgressStream --------------------------
(* Two stages; one worker or two. *)
EXTENDS ProgressStream, TLC
CONSTANTS w1, w2
MCWorker == {w1, w2}
Symmetry == Permutations(MCWorker)
=============================================================================
