---------------------------- MODULE RemoteSolve -----------------------------
(***************************************************************************)
(* solveWithOci of web/src/wasm.ts talking to the solver server: a client  *)
(* creates a job, polls it on a timer, and tells the server to cancel it   *)
(* when the user aborts.  The network may lose a request or an answer; the *)
(* client then sees a failed fetch, while the server may or may not have   *)
(* handled the request.  A client makes one call after another, each with  *)
(* a job of its own.                                                       *)
(***************************************************************************)
EXTENDS JobServer

CONSTANT Client

VARIABLES
    pc,         \* where the client's call is
    jobOf,      \* the job of the client's current call, NoJob before it
    known,      \* the client has learned that job's identifier
    aborted,    \* signal.aborted of the current call
    settledAs,  \* how the current call's promise was settled
    reply,      \* the job status in the poll answer on its way to the client
    request,    \* the create request of a job on its way to the server
    cancelMsg   \* the cancel request of a job on its way to the server

NoJob == "no job"

clientVars == <<pc, jobOf, known, aborted, settledAs, reply, request, cancelMsg>>
vars == <<serverVars, clientVars>>

RemoteInit ==
    /\ Init
    /\ pc = [c \in Client |-> "idle"]
    /\ jobOf = [c \in Client |-> NoJob]
    /\ known = [c \in Client |-> FALSE]
    /\ aborted = [c \in Client |-> FALSE]
    /\ settledAs = [c \in Client |-> "none"]
    /\ reply = [c \in Client |-> "none"]
    /\ request = [j \in Job |-> "none"]
    /\ cancelMsg = [j \in Job |-> "none"]
-----------------------------------------------------------------------------
(***************************************************************************)
(* Plausible slips in the actions below, used to test the properties.      *)
(***************************************************************************)
AbortWithoutCancel(c) ==
    /\ pc' = [pc EXCEPT ![c] = "settled"]
    /\ settledAs' = [settledAs EXCEPT ![c] = "aborted"]
    /\ UNCHANGED cancelMsg

\* The poll answer is taken for an accepted job of any status.
AnswerAnyFinal(c) ==
    /\ reply[c] \in Final
    /\ pc' = [pc EXCEPT ![c] = "settled"]
    /\ settledAs' = [settledAs EXCEPT ![c] = "resolved"]

\* The server's 404 after a restart is read as "still running".
PollAgain404(c) ==
    /\ reply[c] \in {"running", "none"}
    /\ pc' = [pc EXCEPT ![c] = "waiting"]
    /\ UNCHANGED settledAs
-----------------------------------------------------------------------------
Settle(c, how) ==
    /\ pc' = [pc EXCEPT ![c] = "settled"]
    /\ settledAs' = [settledAs EXCEPT ![c] = how]

\* handleAbort: one best-effort cancel request, then the promise is rejected.
HandleAbort(c) ==
    /\ cancelMsg' = [cancelMsg EXCEPT ![jobOf[c]] = "sent"]
    /\ Settle(c, "aborted")

\* A new call of solveWithOci: fetch(.../api/jobs, POST).
Create(c, j) ==
    /\ pc[c] \in {"idle", "settled"}
    /\ request[j] = "none"
    /\ pc' = [pc EXCEPT ![c] = "creating"]
    /\ jobOf' = [jobOf EXCEPT ![c] = j]
    /\ known' = [known EXCEPT ![c] = FALSE]
    /\ aborted' = [aborted EXCEPT ![c] = FALSE]
    /\ settledAs' = [settledAs EXCEPT ![c] = "none"]
    /\ reply' = [reply EXCEPT ![c] = "none"]
    /\ request' = [request EXCEPT ![j] = "sent"]
    /\ UNCHANGED <<serverVars, cancelMsg>>

\* The answer to the create request arrives.  202 starts the polling, every
\* other status fails the call.
Created(c) ==
    /\ pc[c] = "creating"
    /\ \/ /\ handler[jobOf[c]] = "accepted"
          /\ pc' = [pc EXCEPT ![c] = "waiting"]
          /\ known' = [known EXCEPT ![c] = TRUE]
          /\ UNCHANGED settledAs
       \/ /\ handler[jobOf[c]] \in {"conflict", "failed"}
          /\ Settle(c, "failed")
          /\ UNCHANGED known
    /\ UNCHANGED <<serverVars, jobOf, aborted, reply, request, cancelMsg>>

\* fetch fails without an answer; an aborted fetch fails with AbortError.
\* The job's identifier, if there is one by now, is lost.
CreateFails(c) ==
    /\ pc[c] = "creating"
    /\ Settle(c, IF aborted[c] THEN "aborted" ELSE "failed")
    /\ UNCHANGED <<serverVars, jobOf, known, aborted, reply, request, cancelMsg>>

\* The 500 ms timer fires: poll() looks at the signal before it fetches.
Poll(c) ==
    /\ pc[c] = "waiting"
    /\ \/ /\ aborted[c]
          /\ HandleAbort(c)
       \/ /\ ~aborted[c]
          /\ pc' = [pc EXCEPT ![c] = "polling"]
          /\ UNCHANGED <<settledAs, cancelMsg>>
    /\ UNCHANGED <<serverVars, jobOf, known, aborted, reply, request>>

\* handleJob: getJob copies the job in one critical section.
ServePoll(c) ==
    /\ pc[c] = "polling"
    /\ reply' = [reply EXCEPT ![c] = status[jobOf[c]]]
    /\ pc' = [pc EXCEPT ![c] = "answered"]
    /\ UNCHANGED <<serverVars, jobOf, known, aborted, settledAs, request, cancelMsg>>

AnswerDone(c) ==
    /\ reply[c] = "done"
    /\ Settle(c, "resolved")
AnswerStopped(c) ==
    /\ reply[c] \in {"canceled", "error"}
    /\ Settle(c, IF reply[c] = "canceled" THEN "aborted" ELSE "failed")
\* 404 for a job the server does not know.
AnswerUnknown(c) ==
    /\ reply[c] = "none"
    /\ Settle(c, "failed")
AnswerRunning(c) ==
    /\ reply[c] = "running"
    /\ pc' = [pc EXCEPT ![c] = "waiting"]
    /\ UNCHANGED settledAs

Answered(c) ==
    /\ pc[c] = "answered"
    /\ AnswerDone(c) \/ AnswerStopped(c) \/ AnswerUnknown(c) \/ AnswerRunning(c)
    /\ UNCHANGED <<serverVars, jobOf, known, aborted, reply, request, cancelMsg>>

\* The poll's fetch fails: the call fails at once and no cancel is sent.
PollFails(c) ==
    /\ pc[c] \in {"polling", "answered"}
    /\ Settle(c, "failed")
    /\ UNCHANGED <<serverVars, jobOf, known, aborted, reply, request, cancelMsg>>

\* The user aborts.  While the create request is out there is no listener
\* yet: only the fetch sees the signal.
Abort(c) ==
    /\ pc[c] \in {"creating", "waiting", "polling", "answered"}
    /\ ~aborted[c]
    /\ aborted' = [aborted EXCEPT ![c] = TRUE]
    /\ \/ /\ pc[c] = "creating"
          /\ UNCHANGED <<pc, settledAs, cancelMsg>>
       \/ /\ pc[c] # "creating"
          /\ HandleAbort(c)
    /\ UNCHANGED <<serverVars, jobOf, known, reply, request>>
-----------------------------------------------------------------------------
(***************************************************************************)
(* The network and the server.                                             *)
(***************************************************************************)
Arrives(j) ==
    /\ request[j] = "sent"
    /\ request' = [request EXCEPT ![j] = "arrived"]
    /\ UNCHANGED <<serverVars, pc, jobOf, known, aborted, settledAs, reply, cancelMsg>>

CancelArrives(j) ==
    /\ cancelMsg[j] = "sent"
    /\ cancelMsg' = [cancelMsg EXCEPT ![j] = "handled"]
    /\ \/ Cancel(j)
       \/ ~(status[j] = "running" /\ cancelable[j]) /\ UNCHANGED serverVars
    /\ UNCHANGED <<pc, jobOf, known, aborted, settledAs, reply, request>>

CancelLost(j) ==
    /\ cancelMsg[j] = "sent"
    /\ cancelMsg' = [cancelMsg EXCEPT ![j] = "lost"]
    /\ UNCHANGED <<serverVars, pc, jobOf, known, aborted, settledAs, reply, request>>

ServerStep(j) ==
    /\ \/ HandlerStep(j) /\ (handler[j] = "idle" => request[j] = "arrived")
       \/ SolverStep(j)
    /\ UNCHANGED clientVars

ServerRestart == Restart /\ UNCHANGED clientVars

RemoteNext ==
    \/ \E c \in Client :
          \/ \E j \in Job : Create(c, j)
          \/ Created(c) \/ CreateFails(c) \/ Poll(c) \/ ServePoll(c)
          \/ Answered(c) \/ PollFails(c) \/ Abort(c)
    \/ \E j \in Job : Arrives(j) \/ CancelArrives(j) \/ CancelLost(j)
          \/ ServerStep(j)
    \/ ServerRestart

(***************************************************************************)
(* Fairness: every fetch ends, with an answer or an error; timers fire;    *)
(* the server finishes what it has read.                                   *)
(***************************************************************************)
ClientGoesOn(c) ==
    Created(c) \/ CreateFails(c) \/ Poll(c) \/ ServePoll(c) \/ Answered(c)
        \/ PollFails(c)

RemoteSpec == RemoteInit /\ [][RemoteNext]_vars
RemoteFairSpec ==
    /\ RemoteSpec
    /\ \A c \in Client : WF_vars(ClientGoesOn(c))
    /\ \A j \in Job : WF_vars(Finishing(j) /\ UNCHANGED clientVars)
-----------------------------------------------------------------------------

\* A call resolves only with the result of its own job, and never once the
\* user has aborted it.  An answer still on its way at that moment is
\* discarded by the abort signal of the fetch (wasm.ts:197).
ResolvedIsOwnResult ==
    \A c \in Client : settledAs[c] = "resolved" =>
        outcome[jobOf[c]] = "done" /\ ~aborted[c]

\* No call leaves a job behind that runs with nobody to stop it, except when
\* the client lost contact: a failed fetch, an abort before the job's
\* identifier was known, or a lost cancel request (wasm.ts:155-170, 182-187).
\* In particular a cancel request the server handled stops the job.
UnwatchedOnlyByLostContact ==
    \A c \in Client :
        pc[c] = "settled" /\ status[jobOf[c]] = "running" =>
            \/ settledAs[c] = "failed"
            \/ aborted[c] /\ (known[c] => cancelMsg[jobOf[c]] \in {"sent", "lost"})

\* Every call of solveWithOci is settled in the end, whatever is lost and even
\* if the server restarts in between, once the server has read the request.
CallSettles ==
    \A c \in Client : (pc[c] = "waiting") ~> (pc[c] = "settled")
=============================================================================
