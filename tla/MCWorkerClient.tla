--------------------------- MODULE MCWorkerClient ---------------------------
(* Four calls with two catalogs, so that a worker is reused, re-prepared and
   replaced. *)
EXTENDS WorkerClient
CONSTANTS r1, r2, r3, r4, cat1, cat2
MCRequest == {r1, r2, r3, r4}
MCCatalog == {cat1, cat2}
=============================================================================
