--------------------------- MODULE MCRemoteSolve ----------------------------
(***************************************************************************)
(* Two browsers and one server.  Two jobs: either one per browser, or a    *)
(* browser that aborts and tries again while its first job holds the slot. *)
(***************************************************************************)
EXTENDS RemoteSolve
CONSTANTS j1, j2, c1, c2
MCJob == {j1, j2}
MCClient == {c1, c2}
=============================================================================
