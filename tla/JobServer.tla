----------------------------- MODULE JobServer ------------------------------
(***************************************************************************)
(* The solver server, cmd/solver-server/main.go: an HTTP server that runs  *)
(* at most one solve at a time.  POST /api/jobs takes the only slot, reads *)
(* the body, registers a job and starts a goroutine that solves it; the    *)
(* goroutine records the outcome and, in a second critical section, gives  *)
(* the slot back.  GET polls a job, POST .../cancel cancels it.  All state *)
(* is behind srv.mu, and one critical section is one action.               *)
(*                                                                         *)
(* A request and the job it creates carry the same identifier.  A restart  *)
(* of the process loses every job: nothing is persisted.                   *)
(***************************************************************************)
EXTENDS Integers, FiniteSets

CONSTANTS
    Job,          \* identifiers of POST /api/jobs requests and of their jobs
    Quality,      \* ranks of the partial solutions a solver reports, in Nat \ {0}
    MaxRestarts   \* bound on the number of process restarts

ASSUME JobServerAssumption ==
    /\ IsFiniteSet(Job)
    /\ Quality \subseteq Nat \ {0}
    /\ MaxRestarts \in Nat

VARIABLES
    activeJobs,   \* server.activeJobs
    handler,      \* where the POST handler of a request is
    status,       \* job.Status, "none" when the job is not in server.jobs
    cancelable,   \* job.cancel # nil
    ctxCanceled,  \* the job's context is canceled
    solver,       \* where the goroutine of runJob is
    outcome,      \* what the solver returned to that goroutine
    partial,      \* rank of job.PartialSolutions, 0 when there is none
    restarts      \* number of process restarts so far

serverVars == <<activeJobs, handler, status, cancelable, ctxCanceled, solver,
                outcome, partial, restarts>>

HandlerState == {"idle", "reading", "registered", "launched", "accepted",
                 "conflict", "failed", "lost"}
SolverState == {"none", "solving", "returned", "recorded", "gone"}
Status == {"none", "running", "done", "error", "canceled"}
Final == {"done", "error", "canceled"}

Init ==
    /\ activeJobs = 0
    /\ handler = [j \in Job |-> "idle"]
    /\ status = [j \in Job |-> "none"]
    /\ cancelable = [j \in Job |-> FALSE]
    /\ ctxCanceled = [j \in Job |-> FALSE]
    /\ solver = [j \in Job |-> "none"]
    /\ outcome = [j \in Job |-> "none"]
    /\ partial = [j \in Job |-> 0]
    /\ restarts = 0
-----------------------------------------------------------------------------
(***************************************************************************)
(* Plausible slips in the actions below, used to test the properties.      *)
(***************************************************************************)
ReserveOneMore(j) ==
    /\ handler[j] = "idle"
    /\ activeJobs <= 1
    /\ activeJobs' = activeJobs + 1
    /\ handler' = [handler EXCEPT ![j] = "reading"]
    /\ UNCHANGED <<status, cancelable, ctxCanceled, solver, outcome, partial,
                   restarts>>

RejectBodyLeaks(j) ==
    /\ handler[j] = "reading"
    /\ handler' = [handler EXCEPT ![j] = "failed"]
    /\ UNCHANGED <<activeJobs, status, cancelable, ctxCanceled, solver,
                   outcome, partial, restarts>>

ReleaseUnlessCanceled(j) ==
    /\ solver[j] = "recorded"
    /\ outcome[j] # "canceled"
    /\ activeJobs' = activeJobs - 1
    /\ solver' = [solver EXCEPT ![j] = "gone"]
    /\ UNCHANGED <<handler, status, cancelable, ctxCanceled, outcome, partial,
                   restarts>>
-----------------------------------------------------------------------------
(***************************************************************************)
(* POST /api/jobs: handleJobs.                                             *)
(***************************************************************************)
Reserve(j) ==
    /\ handler[j] = "idle"
    /\ activeJobs < 1
    /\ activeJobs' = activeJobs + 1
    /\ handler' = [handler EXCEPT ![j] = "reading"]
    /\ UNCHANGED <<status, cancelable, ctxCanceled, solver, outcome, partial,
                   restarts>>

Conflict(j) ==
    /\ handler[j] = "idle"
    /\ activeJobs >= 1
    /\ handler' = [handler EXCEPT ![j] = "conflict"]
    /\ UNCHANGED <<activeJobs, status, cancelable, ctxCanceled, solver,
                   outcome, partial, restarts>>

\* The body is too large or empty, or no identifier can be made: each of the
\* three exits returns the slot before it answers.
RejectBody(j) ==
    /\ handler[j] = "reading"
    /\ activeJobs' = activeJobs - 1
    /\ handler' = [handler EXCEPT ![j] = "failed"]
    /\ UNCHANGED <<status, cancelable, ctxCanceled, solver, outcome, partial,
                   restarts>>

Register(j) ==
    /\ handler[j] = "reading"
    /\ handler' = [handler EXCEPT ![j] = "registered"]
    /\ status' = [status EXCEPT ![j] = "running"]
    /\ cancelable' = [cancelable EXCEPT ![j] = TRUE]
    /\ UNCHANGED <<activeJobs, ctxCanceled, solver, outcome, partial,
                   restarts>>

\* go srv.runJob(ctx, nextJob, body)
Launch(j) ==
    /\ handler[j] = "registered"
    /\ handler' = [handler EXCEPT ![j] = "launched"]
    /\ solver' = [solver EXCEPT ![j] = "solving"]
    /\ UNCHANGED <<activeJobs, status, cancelable, ctxCanceled, outcome,
                   partial, restarts>>

\* responseForJob takes the lock again after the goroutine has been started.
Accept(j) ==
    /\ handler[j] = "launched"
    /\ handler' = [handler EXCEPT ![j] = "accepted"]
    /\ UNCHANGED <<activeJobs, status, cancelable, ctxCanceled, solver,
                   outcome, partial, restarts>>
-----------------------------------------------------------------------------
(***************************************************************************)
(* The job's goroutine: runJob.                                            *)
(***************************************************************************)
\* The reporter stores progress, and partial solutions when a snapshot has
\* some, whatever the job's status is by then.
Report(j, q) ==
    /\ solver[j] = "solving"
    /\ status[j] # "none"
    /\ partial' = [partial EXCEPT ![j] = q]
    /\ UNCHANGED <<activeJobs, handler, status, cancelable, ctxCanceled,
                   solver, outcome, restarts>>

\* The solver polls its context, so it may also finish, or fail, after the
\* context was canceled; it says "canceled" only when it was.
Returns(j, o) ==
    /\ solver[j] = "solving"
    /\ o \in Final
    /\ o = "canceled" => ctxCanceled[j]
    /\ solver' = [solver EXCEPT ![j] = "returned"]
    /\ outcome' = [outcome EXCEPT ![j] = o]
    /\ UNCHANGED <<activeJobs, handler, status, cancelable, ctxCanceled,
                   partial, restarts>>

Record(j) ==
    /\ solver[j] = "returned"
    /\ status' = [status EXCEPT ![j] = outcome[j]]
    /\ cancelable' = [cancelable EXCEPT ![j] = FALSE]
    /\ solver' = [solver EXCEPT ![j] = "recorded"]
    /\ UNCHANGED <<activeJobs, handler, ctxCanceled, outcome, partial,
                   restarts>>

\* The first deferred function runs last: a critical section of its own.
Release(j) ==
    /\ solver[j] = "recorded"
    /\ activeJobs' = activeJobs - 1
    /\ solver' = [solver EXCEPT ![j] = "gone"]
    /\ UNCHANGED <<handler, status, cancelable, ctxCanceled, outcome, partial,
                   restarts>>
-----------------------------------------------------------------------------
\* POST /api/jobs/{id}/cancel on a known job; it answers 404 on an unknown one.
Cancel(j) ==
    /\ status[j] = "running" /\ cancelable[j]
    /\ status' = [status EXCEPT ![j] = "canceled"]
    /\ ctxCanceled' = [ctxCanceled EXCEPT ![j] = TRUE]
    /\ UNCHANGED <<activeJobs, handler, cancelable, solver, outcome, partial,
                   restarts>>

\* The process dies and comes back with an empty job table.
Restart ==
    /\ restarts < MaxRestarts
    /\ restarts' = restarts + 1
    /\ activeJobs' = 0
    /\ handler' = [j \in Job |->
          IF handler[j] \in {"reading", "registered", "launched"}
          THEN "lost" ELSE handler[j]]
    /\ status' = [j \in Job |-> "none"]
    /\ cancelable' = [j \in Job |-> FALSE]
    /\ ctxCanceled' = [j \in Job |-> FALSE]
    /\ solver' = [j \in Job |-> IF solver[j] = "none" THEN "none" ELSE "gone"]
    /\ partial' = [j \in Job |-> 0]
    /\ UNCHANGED outcome

HandlerStep(j) ==
    Reserve(j) \/ Conflict(j) \/ RejectBody(j) \/ Register(j) \/ Launch(j)
        \/ Accept(j)
SolverStep(j) ==
    (\E q \in Quality : Report(j, q)) \/ (\E o \in Final : Returns(j, o))
        \/ Record(j) \/ Release(j)

Next ==
    \/ \E j \in Job : HandlerStep(j) \/ SolverStep(j) \/ Cancel(j)
    \/ Restart

(***************************************************************************)
(* Fairness: once the body is in, net/http runs the handler to its end,    *)
(* and the goroutine of a job runs to its end because the search it makes  *)
(* is finite.  Nothing makes the body arrive (only the request header has  *)
(* a timeout, main.go:115), and nobody is obliged to send a request, to    *)
(* cancel, or to restart the process.                                      *)
(***************************************************************************)
Finishing(j) ==
    Launch(j) \/ Accept(j)
        \/ (\E o \in Final : Returns(j, o)) \/ Record(j) \/ Release(j)

Spec == Init /\ [][Next]_serverVars
FairSpec == Spec /\ \A j \in Job : WF_serverVars(Finishing(j))
-----------------------------------------------------------------------------
TypeOK ==
    /\ activeJobs \in Nat
    /\ handler \in [Job -> HandlerState]
    /\ status \in [Job -> Status]
    /\ cancelable \in [Job -> BOOLEAN]
    /\ ctxCanceled \in [Job -> BOOLEAN]
    /\ solver \in [Job -> SolverState]
    /\ outcome \in [Job -> Final \cup {"none"}]
    /\ partial \in [Job -> Quality \cup {0}]
    /\ restarts \in 0..MaxRestarts

\* Who owns the slot: a handler that took it and has not yet given it back or
\* handed it to the goroutine, or a goroutine that has not yet released it.
HoldsSlot(j) ==
    \/ handler[j] \in {"reading", "registered"}
    \/ solver[j] \in {"solving", "returned", "recorded"}
Holders == {j \in Job : HoldsSlot(j)}

\* The counter is the number of owners and never passes one: no exit of the
\* handler, no outcome of the solver and no cancellation leaks the slot or
\* frees it twice (main.go:145-179, 232-236).
SlotAccounted == activeJobs = Cardinality(Holders) /\ activeJobs <= 1

\* Two solves never run at the same time, so the one solver may use every
\* processor (main.go:146-150, 252).
OneSolver ==
    \A j, k \in Job :
        solver[j] = "solving" /\ solver[k] = "solving" => j = k

\* Once the request of the slot's owner has been read, the slot comes back,
\* whatever the solver answers and whether or not the job is canceled: a
\* client that was told 409 may try again.
SlotReturns ==
    (\E j \in Job : HoldsSlot(j) /\ handler[j] # "reading") ~> (activeJobs = 0)
=============================================================================
