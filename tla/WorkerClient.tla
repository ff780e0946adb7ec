---------------------------- MODULE WorkerClient ----------------------------
(***************************************************************************)
(* Local solving in the browser: solveWithWorker of web/src/wasm.ts on the *)
(* page, solverWorker.ts in a Web Worker, and the prepared catalog inside  *)
(* the Go program (cmd/wasm-solver/main.go).  The page keeps the worker    *)
(* between calls and remembers which catalog it sent last, so that a       *)
(* second solve skips the installation; every failure, and every abort,    *)
(* terminates the worker, which is also the only way to stop a solve.      *)
(*                                                                         *)
(* Messages between the two are queues.  A message event runs to its end   *)
(* or to its next await, so the only place where the worker can be         *)
(* interrupted by another message is the loading of the WASM module.       *)
(***************************************************************************)
EXTENDS Naturals, Sequences

CONSTANTS
    Request,      \* calls of solveWithWorker
    Catalog,      \* catalog objects the page may solve with
    MaxWorkers    \* bound on the number of workers the page creates

None == "none"

ASSUME WorkerClientAssumption ==
    MaxWorkers \in Nat \ {0} /\ None \notin Request \cup Catalog

VARIABLES
    call,         \* per request: where its promise is
    catalogOf,    \* per request: the catalog it was called with
    active,       \* activeWorkerRequestId
    generation,   \* number of workers created; solverWorker is the last one
    alive,        \* solverWorker # null
    believed,     \* installedWorkerCatalog, on the page
    inbox,        \* messages posted to the worker
    outbox,       \* messages posted by the worker
    serving,      \* the request message the worker is handling, or NoMessage
    loaded,       \* the worker's WASM module has registered its functions
    installed,    \* installedCatalog, in the worker
    prepared,     \* preparedCatalog, in the Go program
    usedCatalog   \* per request: the catalog its result was computed with

page == <<call, catalogOf, active, believed>>
worker == <<serving, loaded, installed, prepared>>
vars == <<page, generation, alive, inbox, outbox, worker, usedCatalog>>

NoMessage == [type |-> "none", request |-> None, catalog |-> None]
Install(r) == [type |-> "installCatalog", request |-> r, catalog |-> catalogOf[r]]
Solve(r) == [type |-> "solve", request |-> r, catalog |-> catalogOf[r]]
Answer(kind, m) == [type |-> kind, request |-> m.request, catalog |-> m.catalog]

Init ==
    /\ call = [r \in Request |-> "new"]
    /\ catalogOf \in [Request -> Catalog]
    /\ active = None
    /\ generation = 0 /\ alive = FALSE
    /\ believed = None
    /\ inbox = <<>> /\ outbox = <<>>
    /\ serving = NoMessage /\ loaded = FALSE
    /\ installed = None /\ prepared = None
    /\ usedCatalog = [r \in Request |-> None]
-----------------------------------------------------------------------------
(***************************************************************************)
(* The page.                                                               *)
(***************************************************************************)
\* resetSolverWorker: terminate() drops the worker's state and both queues.
WorkerGone ==
    /\ alive' = FALSE
    /\ inbox' = <<>> /\ outbox' = <<>>
    /\ serving' = NoMessage /\ loaded' = FALSE
    /\ installed' = None /\ prepared' = None

\* Plausible slips, used to test the properties.
ResetKeepsBelief == WorkerGone /\ UNCHANGED believed
MayCallAnyTime == TRUE
LoadFailsSilently ==
    /\ serving # NoMessage /\ ~loaded
    /\ \/ loaded' = TRUE /\ UNCHANGED serving
       \/ serving' = NoMessage /\ UNCHANGED loaded
    /\ UNCHANGED <<page, generation, alive, inbox, outbox, installed, prepared,
                   usedCatalog>>
InstallOnlyOnce ==
    /\ serving # NoMessage /\ loaded /\ serving.type = "installCatalog"
    /\ installed' = serving.catalog
    /\ prepared' = IF prepared = None THEN serving.catalog ELSE prepared
    /\ outbox' = Append(outbox, Answer("catalogInstalled", serving))
    /\ serving' = NoMessage
    /\ UNCHANGED <<page, generation, alive, inbox, loaded, usedCatalog>>

ResetSolverWorker == WorkerGone /\ believed' = None

\* fail: settle once, forget the request, throw the worker away.
Fail(r, how) ==
    /\ call' = [call EXCEPT ![r] = how]
    /\ active' = None
    /\ ResetSolverWorker

MayCall == active = None

\* A call while another is running is rejected and touches nothing.
Refuse(r) ==
    /\ call[r] = "new" /\ ~MayCall
    /\ call' = [call EXCEPT ![r] = "refused"]
    /\ UNCHANGED <<catalogOf, active, believed, generation, alive, inbox,
                   outbox, worker, usedCatalog>>

\* getSolverWorker, then the solve at once or the catalog first.
Call(r) ==
    /\ call[r] = "new" /\ MayCall
    /\ alive \/ generation < MaxWorkers
    /\ active' = r
    /\ alive' = TRUE
    /\ generation' = IF alive THEN generation ELSE generation + 1
    /\ IF believed = catalogOf[r]
       THEN /\ call' = [call EXCEPT ![r] = "solving"]
            /\ inbox' = Append(inbox, Solve(r))
       ELSE /\ call' = [call EXCEPT ![r] = "installing"]
            /\ inbox' = Append(inbox, Install(r))
    /\ UNCHANGED <<catalogOf, believed, outbox, worker, usedCatalog>>

\* signal "abort", or an error or messageerror event of the worker.
Abort(r) ==
    /\ active = r
    /\ \E how \in {"aborted", "failed"} : Fail(r, how)
    /\ UNCHANGED <<catalogOf, generation, usedCatalog>>

\* handleMessage.  Its test of the request's identity is never false: a call
\* that fails takes the worker and its queue along, and a result is the last
\* message of its call.
CatalogInstalled(r) ==
    /\ Head(outbox).type = "catalogInstalled"
    /\ IF Head(outbox).catalog = catalogOf[r]
       THEN /\ believed' = catalogOf[r]
            /\ call' = [call EXCEPT ![r] = "solving"]
            /\ inbox' = Append(inbox, Solve(r))
            /\ outbox' = Tail(outbox)
            /\ UNCHANGED <<active, alive, worker>>
       ELSE Fail(r, "failed")
    /\ UNCHANGED usedCatalog

ResultArrives(r) ==
    /\ Head(outbox).type = "result"
    /\ call' = [call EXCEPT ![r] = "resolved"]
    /\ usedCatalog' = [usedCatalog EXCEPT ![r] = Head(outbox).catalog]
    /\ active' = None
    /\ outbox' = Tail(outbox)
    /\ UNCHANGED <<believed, inbox, alive, worker>>

ErrorArrives(r) ==
    /\ Head(outbox).type \in {"error", "busy", "not installed"}
    /\ Fail(r, "failed")
    /\ UNCHANGED usedCatalog

HandleMessage(r) ==
    /\ outbox # <<>> /\ active = r /\ Head(outbox).request = r
    /\ CatalogInstalled(r) \/ ResultArrives(r) \/ ErrorArrives(r)
    /\ UNCHANGED <<catalogOf, generation>>
-----------------------------------------------------------------------------
(***************************************************************************)
(* The worker.                                                             *)
(***************************************************************************)
\* self.onmessage: one request at a time.
Receive ==
    /\ inbox # <<>>
    /\ inbox' = Tail(inbox)
    /\ IF serving = NoMessage
       THEN serving' = Head(inbox) /\ UNCHANGED outbox
       ELSE outbox' = Append(outbox, Answer("busy", Head(inbox)))
            /\ UNCHANGED serving
    /\ UNCHANGED <<page, generation, alive, loaded, installed, prepared,
                   usedCatalog>>

\* Every handler ends by posting its answer and clearing activeRequestId.
Finish(kind) ==
    /\ outbox' = Append(outbox, Answer(kind, serving))
    /\ serving' = NoMessage

\* loadWasmSolver: the module registers its functions, or the start fails or
\* takes more than ten seconds; a failed start may be tried again.
Load ==
    /\ serving # NoMessage /\ ~loaded
    /\ \/ loaded' = TRUE /\ UNCHANGED <<outbox, serving>>
       \/ Finish("error") /\ UNCHANGED loaded
    /\ UNCHANGED <<page, generation, alive, inbox, installed, prepared,
                   usedCatalog>>

InstallPreparedCatalog ==
    /\ serving # NoMessage /\ loaded /\ serving.type = "installCatalog"
    /\ \/ /\ installed = serving.catalog
          /\ Finish("catalogInstalled")
          /\ UNCHANGED <<installed, prepared>>
       \/ /\ installed # serving.catalog
          /\ prepared' = serving.catalog
          /\ installed' = serving.catalog
          /\ Finish("catalogInstalled")
       \/ /\ installed # serving.catalog      \* catalog.Parse fails
          /\ Finish("error")
          /\ UNCHANGED <<installed, prepared>>
    /\ UNCHANGED <<page, generation, alive, inbox, loaded, usedCatalog>>

\* runSolve: the result is computed with the catalog the Go program holds.
RunSolve ==
    /\ serving # NoMessage /\ loaded /\ serving.type = "solve"
    /\ \/ installed # serving.catalog /\ Finish("not installed")
       \/ /\ installed = serving.catalog
          /\ \/ /\ outbox' = Append(outbox,
                        [type |-> "result", request |-> serving.request,
                         catalog |-> prepared])
                /\ serving' = NoMessage
             \/ Finish("error")
    /\ UNCHANGED <<page, generation, alive, inbox, loaded, installed, prepared,
                   usedCatalog>>
-----------------------------------------------------------------------------
WorkerStep == Receive \/ Load \/ InstallPreparedCatalog \/ RunSolve
PageStep == \E r \in Request : HandleMessage(r)

Next ==
    \/ \E r \in Request : Refuse(r) \/ Call(r) \/ Abort(r)
    \/ PageStep
    \/ WorkerStep

Spec == Init /\ [][Next]_vars

\* Both event loops run; the start of the module has a timeout
\* (solverWorker.ts:148-159) and a solve is a finite search.
FairSpec == Spec /\ WF_vars(PageStep) /\ WF_vars(WorkerStep)
-----------------------------------------------------------------------------
Message == [type : {"installCatalog", "solve", "catalogInstalled", "result",
                    "error", "busy", "not installed"},
            request : Request, catalog : Catalog]

TypeOK ==
    /\ call \in [Request -> {"new", "refused", "installing", "solving",
                             "resolved", "failed", "aborted"}]
    /\ catalogOf \in [Request -> Catalog]
    /\ active \in Request \cup {None}
    /\ generation \in 0..MaxWorkers /\ alive \in BOOLEAN
    /\ believed \in Catalog \cup {None}
    /\ inbox \in Seq(Message) /\ outbox \in Seq(Message)
    /\ serving \in Message \cup {NoMessage}
    /\ loaded \in BOOLEAN
    /\ installed \in Catalog \cup {None} /\ prepared \in Catalog \cup {None}
    /\ usedCatalog \in [Request -> Catalog \cup {None}]

\* Whenever a call may consult it, what the page believes is true of the worker
\* it would post to: a fresh worker is never taken for a prepared one.  (While
\* another catalog is being installed the belief is stale, and unused.)
BeliefIsTrue ==
    active = None /\ believed # None =>
        alive /\ installed = believed /\ prepared = believed

\* The two errors the worker guards against cannot happen: it never gets a
\* message while it serves another, nor a solve for a catalog it lacks.
WorkerNeverSurprised ==
    \A i \in 1..Len(outbox) : outbox[i].type \notin {"busy", "not installed"}

\* A promise is resolved with a result computed from its own catalog.
ResultUsesOwnCatalog ==
    \A r \in Request : call[r] = "resolved" => usedCatalog[r] = catalogOf[r]

\* Every call is settled.
CallSettles ==
    \A r \in Request : (active = r) ~> (active # r)
=============================================================================
