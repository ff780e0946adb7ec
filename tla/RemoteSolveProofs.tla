------------------------- MODULE RemoteSolveProofs -------------------------
(***************************************************************************)
(* Proofs about the solver server, JobServer, and about RemoteSolve, its   *)
(* composition with the remote clients, for every number of clients and    *)
(* jobs.                                                                   *)
(*                                                                         *)
(* The server: the slot counter is the number of its owners, it never      *)
(* passes one, and two solves never overlap.  SlotAccounted is not         *)
(* inductive alone: the goroutine takes the slot over from the handler in  *)
(* Launch, and only the ordering of the two (a goroutine exists after      *)
(* Launch only) shows that the owner is counted once.  SlotInv adds that   *)
(* ordering.                                                               *)
(*                                                                         *)
(* The clients drive the server through its own steps only, so all this    *)
(* holds under its real clients; a call resolves with the result of its    *)
(* own job only; and no call leaves a running job behind unless it lost    *)
(* contact.  The server's side is reduced to three facts that no step      *)
(* undoes: a request was accepted, an accepted job has ended, a job was    *)
(* done (FactsLast).  Everything a client knows is one of them             *)
(* (ClientView), which is why an old answer or a late cancel request       *)
(* cannot mislead it.                                                      *)
(***************************************************************************)
EXTENDS RemoteSolve, FiniteSetTheorems, TLAPS

\* A goroutine exists only once the handler has launched it.
LaunchedFirst ==
    \A j \in Job : handler[j] \in {"idle", "reading", "registered"} =>
        solver[j] = "none"

SlotInv == TypeOK /\ SlotAccounted /\ LaunchedFirst

-----------------------------------------------------------------------------
LEMMA HoldersFinite == IsFiniteSet(Holders)
BY FS_Subset, JobServerAssumption DEF Holders, JobServerAssumption

LEMMA InitSlotInv == Init => SlotInv
<1>. SUFFICES ASSUME Init PROVE SlotInv
  OBVIOUS
<1>1. TypeOK
  BY JobServerAssumption
  DEF Init, TypeOK, HandlerState, SolverState, Status, JobServerAssumption
<1>2. Holders = {}
  BY DEF Init, Holders, HoldsSlot
<1>3. SlotAccounted
  BY <1>2, FS_EmptySet DEF Init, SlotAccounted
<1>4. LaunchedFirst
  BY DEF Init, LaunchedFirst
<1>. QED  BY <1>1, <1>3, <1>4 DEF SlotInv

\* A step that neither moves the counter nor changes the owners.
LEMMA OwnersKept ==
    ASSUME SlotAccounted, activeJobs' = activeJobs, Holders' = Holders
    PROVE  SlotAccounted'
BY DEF SlotAccounted

\* The slot is taken while nobody owns it.
LEMMA OwnerAdded ==
    ASSUME SlotInv, NEW j \in Job, ~HoldsSlot(j), activeJobs < 1,
           activeJobs' = activeJobs + 1, Holders' = Holders \cup {j}
    PROVE  SlotAccounted'
<1>1. j \notin Holders
  BY DEF Holders
<1>2. Cardinality(Holders \cup {j}) = Cardinality(Holders) + 1
  BY <1>1, HoldersFinite, FS_AddElement
<1>. QED  BY <1>2 DEF SlotAccounted, SlotInv, TypeOK

\* An owner gives the slot back.
LEMMA OwnerRemoved ==
    ASSUME SlotInv, NEW j \in Job, HoldsSlot(j),
           activeJobs' = activeJobs - 1, Holders' = Holders \ {j}
    PROVE  SlotAccounted' /\ activeJobs' \in Nat
<1>1. j \in Holders
  BY DEF Holders
<1>2. Cardinality(Holders \ {j}) = Cardinality(Holders) - 1
  BY <1>1, HoldersFinite, FS_RemoveElement
<1>3. Cardinality(Holders \ {j}) \in Nat
  BY HoldersFinite, FS_RemoveElement, FS_CardinalityType
<1>. QED  BY <1>2, <1>3 DEF SlotAccounted, SlotInv, TypeOK
-----------------------------------------------------------------------------
LEMMA HandlerKeepsSlotInv ==
    ASSUME SlotInv, NEW j \in Job, HandlerStep(j)
    PROVE  SlotInv'
<1>. USE DEF SlotInv, LaunchedFirst, HandlerState, SolverState, Status
<1>1. CASE Reserve(j)
  <2>1. TypeOK' /\ LaunchedFirst'
    BY <1>1 DEF Reserve, TypeOK
  <2>2. ~HoldsSlot(j) /\ Holders' = Holders \cup {j}
    BY <1>1 DEF Reserve, Holders, HoldsSlot, TypeOK
  <2>3. activeJobs < 1 /\ activeJobs' = activeJobs + 1
    BY <1>1 DEF Reserve
  <2>. QED  BY <2>1, <2>2, <2>3, OwnerAdded
<1>2. CASE Conflict(j)
  <2>1. TypeOK' /\ LaunchedFirst'
    BY <1>2 DEF Conflict, TypeOK
  <2>2. Holders' = Holders /\ activeJobs' = activeJobs
    BY <1>2 DEF Conflict, Holders, HoldsSlot, TypeOK
  <2>. QED  BY <2>1, <2>2, OwnersKept
<1>3. CASE RejectBody(j)
  <2>1. HoldsSlot(j) /\ Holders' = Holders \ {j} /\ activeJobs' = activeJobs - 1
    BY <1>3 DEF RejectBody, Holders, HoldsSlot, TypeOK
  <2>2. SlotAccounted' /\ activeJobs' \in Nat
    BY <2>1, OwnerRemoved
  <2>3. TypeOK' /\ LaunchedFirst'
    BY <1>3, <2>2 DEF RejectBody, TypeOK
  <2>. QED  BY <2>2, <2>3
<1>4. CASE Register(j)
  <2>1. TypeOK' /\ LaunchedFirst'
    BY <1>4 DEF Register, TypeOK
  <2>2. Holders' = Holders /\ activeJobs' = activeJobs
    BY <1>4 DEF Register, Holders, HoldsSlot, TypeOK
  <2>. QED  BY <2>1, <2>2, OwnersKept
<1>5. CASE Launch(j)
  <2>1. TypeOK' /\ LaunchedFirst'
    BY <1>5 DEF Launch, TypeOK
  <2>2. Holders' = Holders /\ activeJobs' = activeJobs
    BY <1>5 DEF Launch, Holders, HoldsSlot, TypeOK
  <2>. QED  BY <2>1, <2>2, OwnersKept
<1>6. CASE Accept(j)
  <2>1. TypeOK' /\ LaunchedFirst'
    BY <1>6 DEF Accept, TypeOK
  <2>2. Holders' = Holders /\ activeJobs' = activeJobs
    BY <1>6 DEF Accept, Holders, HoldsSlot, TypeOK
  <2>. QED  BY <2>1, <2>2, OwnersKept
<1>. QED  BY <1>1, <1>2, <1>3, <1>4, <1>5, <1>6 DEF HandlerStep

LEMMA SolverKeepsSlotInv ==
    ASSUME SlotInv, NEW j \in Job, SolverStep(j)
    PROVE  SlotInv'
<1>. USE DEF SlotInv, LaunchedFirst, HandlerState, SolverState, Status, Final
<1>1. ASSUME NEW q \in Quality, Report(j, q) PROVE SlotInv'
  <2>1. TypeOK' /\ LaunchedFirst'
    BY <1>1 DEF Report, TypeOK
  <2>2. Holders' = Holders /\ activeJobs' = activeJobs
    BY <1>1 DEF Report, Holders, HoldsSlot, TypeOK
  <2>. QED  BY <2>1, <2>2, OwnersKept
<1>2. ASSUME NEW o \in Final, Returns(j, o) PROVE SlotInv'
  <2>1. TypeOK' /\ LaunchedFirst'
    BY <1>2 DEF Returns, TypeOK
  <2>2. Holders' = Holders /\ activeJobs' = activeJobs
    BY <1>2 DEF Returns, Holders, HoldsSlot, TypeOK
  <2>. QED  BY <2>1, <2>2, OwnersKept
<1>3. CASE Record(j)
  <2>1. TypeOK' /\ LaunchedFirst'
    BY <1>3 DEF Record, TypeOK
  <2>2. Holders' = Holders /\ activeJobs' = activeJobs
    BY <1>3 DEF Record, Holders, HoldsSlot, TypeOK
  <2>. QED  BY <2>1, <2>2, OwnersKept
<1>4. CASE Release(j)
  <2>1. HoldsSlot(j) /\ Holders' = Holders \ {j} /\ activeJobs' = activeJobs - 1
    BY <1>4 DEF Release, Holders, HoldsSlot, TypeOK
  <2>2. SlotAccounted' /\ activeJobs' \in Nat
    BY <2>1, OwnerRemoved
  <2>3. TypeOK' /\ LaunchedFirst'
    BY <1>4, <2>2 DEF Release, TypeOK
  <2>. QED  BY <2>2, <2>3
<1>. QED  BY <1>1, <1>2, <1>3, <1>4 DEF SolverStep

LEMMA CancelKeepsSlotInv ==
    ASSUME SlotInv, NEW j \in Job, Cancel(j)
    PROVE  SlotInv'
<1>1. TypeOK' /\ LaunchedFirst'
  BY DEF Cancel, SlotInv, TypeOK, LaunchedFirst, Status
<1>2. Holders' = Holders /\ activeJobs' = activeJobs
  BY DEF Cancel, Holders, HoldsSlot
<1>. QED  BY <1>1, <1>2, OwnersKept DEF SlotInv

LEMMA RestartKeepsSlotInv ==
    ASSUME SlotInv, Restart
    PROVE  SlotInv'
<1>1. TypeOK' /\ LaunchedFirst'
  BY JobServerAssumption
  DEF Restart, SlotInv, TypeOK, LaunchedFirst, HandlerState, SolverState,
      Status, JobServerAssumption
<1>2. Holders' = {}
  BY DEF Restart, Holders, HoldsSlot, SlotInv, TypeOK, SolverState, HandlerState
<1>3. SlotAccounted'
  BY <1>2, FS_EmptySet DEF Restart, SlotAccounted
<1>. QED  BY <1>1, <1>3 DEF SlotInv

LEMMA NextKeepsSlotInv == SlotInv /\ [Next]_serverVars => SlotInv'
<1>. SUFFICES ASSUME SlotInv, [Next]_serverVars PROVE SlotInv'
  OBVIOUS
<1>1. CASE \E j \in Job : HandlerStep(j)
  BY <1>1, HandlerKeepsSlotInv
<1>2. CASE \E j \in Job : SolverStep(j)
  BY <1>2, SolverKeepsSlotInv
<1>3. CASE \E j \in Job : Cancel(j)
  BY <1>3, CancelKeepsSlotInv
<1>4. CASE Restart
  BY <1>4, RestartKeepsSlotInv
<1>5. CASE UNCHANGED serverVars
  BY <1>5 DEF serverVars, SlotInv, TypeOK, SlotAccounted, LaunchedFirst,
              Holders, HoldsSlot
<1>. QED  BY <1>1, <1>2, <1>3, <1>4, <1>5 DEF Next

\* The inductive invariant of the server.
THEOREM SlotInvariant == Spec => []SlotInv
BY InitSlotInv, NextKeepsSlotInv, PTL DEF Spec

\* Every exit of the handler, every outcome of a solve, every cancellation and
\* every restart leaves the slot counter equal to the number of its owners.
THEOREM SlotIsAccounted == Spec => []SlotAccounted
<1>1. SlotInv => SlotAccounted
  BY DEF SlotInv
<1>. QED  BY SlotInvariant, <1>1, PTL

\* Two solves never overlap, however many requests arrive.
THEOREM NeverTwoSolvers == Spec => []OneSolver
<1>1. SlotInv => OneSolver
  <2>. SUFFICES ASSUME SlotInv, NEW j \in Job, NEW k \in Job,
                       solver[j] = "solving", solver[k] = "solving", j # k
                PROVE  FALSE
    BY DEF OneSolver
  <2>1. j \in Holders /\ k \in Holders
    BY DEF Holders, HoldsSlot
  <2>2. Cardinality(Holders) \in Nat /\ Cardinality(Holders) <= 1
    BY HoldersFinite, FS_CardinalityType DEF SlotInv, SlotAccounted
  <2>3. CASE Cardinality(Holders) = 0
    BY <2>1, <2>3, HoldersFinite, FS_EmptySet
  <2>4. CASE Cardinality(Holders) = 1
    <3>1. PICK x : Holders = {x}
      BY <2>4, HoldersFinite, FS_Singleton
    <3>. QED  BY <2>1, <3>1
  <2>. QED  BY <2>2, <2>3, <2>4
<1>. QED  BY SlotInvariant, <1>1, PTL
-----------------------------------------------------------------------------
(* The server with its clients. *)

\* The job's request was accepted, and it does not run any more.
Ended(j) == handler[j] = "accepted" /\ status[j] # "running"

\* What a job's fields say of one another.
JobsAgree ==
    \A j \in Job :
        /\ status[j] = "running" => cancelable[j]
        /\ status[j] = "done" => outcome[j] = "done"
        /\ outcome[j] # "none" => solver[j] \in {"returned", "recorded", "gone"}

RemoteTypeOK ==
    /\ pc \in [Client -> {"idle", "creating", "waiting", "polling", "answered",
                          "settled"}]
    /\ jobOf \in [Client -> Job \cup {NoJob}]
    /\ known \in [Client -> BOOLEAN] /\ aborted \in [Client -> BOOLEAN]
    /\ settledAs \in [Client -> {"none", "resolved", "failed", "aborted"}]
    /\ reply \in [Client -> Status]
    /\ request \in [Job -> {"none", "sent", "arrived"}]
    /\ cancelMsg \in [Job -> {"none", "sent", "lost", "handled"}]

\* A cancel request is sent for an accepted job, and one that was handled has
\* ended it.
CancelsFit ==
    \A j \in Job :
        /\ cancelMsg[j] # "none" => handler[j] = "accepted"
        /\ cancelMsg[j] = "handled" => Ended(j)

\* What a client knows while its call runs.
ClientView ==
    \A c \in Client :
        /\ pc[c] # "idle" => jobOf[c] \in Job
        /\ known[c] => jobOf[c] \in Job /\ handler[jobOf[c]] = "accepted"
        /\ pc[c] = "creating" => ~known[c]
        /\ pc[c] \in {"waiting", "polling", "answered"} => known[c]
        /\ pc[c] \in {"polling", "answered"} => ~aborted[c]
        /\ pc[c] = "answered" /\ reply[c] \in Final => Ended(jobOf[c])
        /\ pc[c] = "answered" /\ reply[c] = "done" => outcome[jobOf[c]] = "done"

\* How a call ended.
Outcome(c) ==
    \/ settledAs[c] = "failed"
    \/ /\ settledAs[c] = "resolved" /\ ~aborted[c]
       /\ outcome[jobOf[c]] = "done" /\ Ended(jobOf[c])
    \/ settledAs[c] = "aborted" /\ Ended(jobOf[c])
    \/ /\ settledAs[c] = "aborted" /\ aborted[c]
       /\ known[c] => cancelMsg[jobOf[c]] # "none"
ClientSettled ==
    \A c \in Client :
        IF pc[c] = "settled" THEN Outcome(c) ELSE settledAs[c] = "none"

RemoteInv ==
    SlotInv /\ JobsAgree /\ RemoteTypeOK /\ CancelsFit /\ ClientView /\ ClientSettled
-----------------------------------------------------------------------------
LEMMA InitRemoteInv == RemoteInit => RemoteInv
<1>. SUFFICES ASSUME RemoteInit PROVE RemoteInv
  OBVIOUS
<1>1. SlotInv
  BY InitSlotInv DEF RemoteInit
<1>2. JobsAgree
  BY DEF RemoteInit, Init, JobsAgree
<1>3. RemoteTypeOK
  BY DEF RemoteInit, RemoteTypeOK, Status
<1>4. CancelsFit /\ ClientView /\ ClientSettled
  BY DEF RemoteInit, CancelsFit, ClientView, ClientSettled
<1>. QED  BY <1>1, <1>2, <1>3, <1>4 DEF RemoteInv

\* Every step of the composition is a step of the server or leaves it alone.
LEMMA RemoteStepIsServerStep == [RemoteNext]_vars => [Next]_serverVars
<1>. SUFFICES ASSUME [RemoteNext]_vars PROVE [Next]_serverVars
  OBVIOUS
<1>1. ASSUME NEW c \in Client,
             \/ \E j \in Job : Create(c, j)
             \/ Created(c) \/ CreateFails(c) \/ Poll(c) \/ ServePoll(c)
             \/ Answered(c) \/ PollFails(c) \/ Abort(c)
      PROVE  UNCHANGED serverVars
  BY <1>1 DEF Create, Created, CreateFails, Poll, ServePoll, Answered, PollFails,
              Abort
<1>2. ASSUME NEW j \in Job, Arrives(j) \/ CancelLost(j)
      PROVE  UNCHANGED serverVars
  BY <1>2 DEF Arrives, CancelLost
<1>3. ASSUME NEW j \in Job, CancelArrives(j)
      PROVE  Cancel(j) \/ UNCHANGED serverVars
  BY <1>3 DEF CancelArrives
<1>4. ASSUME NEW j \in Job, ServerStep(j)
      PROVE  HandlerStep(j) \/ SolverStep(j)
  BY <1>4 DEF ServerStep
<1>5. ServerRestart => Restart
  BY DEF ServerRestart
<1>6. UNCHANGED vars => UNCHANGED serverVars
  BY DEF vars
<1>. QED  BY <1>1, <1>2, <1>3, <1>4, <1>5, <1>6 DEF RemoteNext, Next

\* Nothing the server does undoes the facts its clients rely on.
LEMMA FactsLast ==
    ASSUME SlotInv, JobsAgree, [Next]_serverVars, NEW j \in Job
    PROVE  /\ handler[j] = "accepted" => handler'[j] = "accepted"
           /\ Ended(j) => Ended(j)'
           /\ outcome[j] = "done" => outcome'[j] = "done"
<1>. USE DEF SlotInv, TypeOK, LaunchedFirst, JobsAgree, Ended, Final
<1>1. ASSUME NEW k \in Job, HandlerStep(k)
      PROVE  /\ handler[j] = "accepted" => handler'[j] = "accepted"
             /\ Ended(j) => Ended(j)'
             /\ outcome[j] = "done" => outcome'[j] = "done"
  BY <1>1 DEF HandlerStep, Reserve, Conflict, RejectBody, Register, Launch, Accept
<1>2. ASSUME NEW k \in Job, SolverStep(k)
      PROVE  /\ handler[j] = "accepted" => handler'[j] = "accepted"
             /\ Ended(j) => Ended(j)'
             /\ outcome[j] = "done" => outcome'[j] = "done"
  BY <1>2 DEF SolverStep, Report, Returns, Record, Release
<1>3. ASSUME NEW k \in Job, Cancel(k)
      PROVE  /\ handler[j] = "accepted" => handler'[j] = "accepted"
             /\ Ended(j) => Ended(j)'
             /\ outcome[j] = "done" => outcome'[j] = "done"
  BY <1>3 DEF Cancel
<1>4. CASE Restart
  BY <1>4 DEF Restart
<1>5. CASE UNCHANGED serverVars
  BY <1>5 DEF serverVars
<1>. QED  BY <1>1, <1>2, <1>3, <1>4, <1>5 DEF Next

LEMMA JobsGoOnAgreeing ==
    ASSUME SlotInv, JobsAgree, [Next]_serverVars
    PROVE  JobsAgree'
<1>. USE DEF SlotInv, TypeOK, LaunchedFirst, JobsAgree, Final
<1>1. ASSUME NEW k \in Job, HandlerStep(k) PROVE JobsAgree'
  BY <1>1 DEF HandlerStep, Reserve, Conflict, RejectBody, Register, Launch, Accept
<1>2. ASSUME NEW k \in Job, SolverStep(k) PROVE JobsAgree'
  BY <1>2 DEF SolverStep, Report, Returns, Record, Release
<1>3. ASSUME NEW k \in Job, Cancel(k) PROVE JobsAgree'
  BY <1>3 DEF Cancel
<1>4. CASE Restart
  BY <1>4 DEF Restart
<1>5. CASE UNCHANGED serverVars
  BY <1>5 DEF serverVars
<1>. QED  BY <1>1, <1>2, <1>3, <1>4, <1>5 DEF Next
-----------------------------------------------------------------------------
\* The server goes on while the clients and the network do not.
LEMMA ServerKeepsRemoteInv ==
    ASSUME RemoteInv, [Next]_serverVars, UNCHANGED clientVars
    PROVE  RemoteInv'
<1>. USE DEF RemoteInv, clientVars
<1>1. SlotInv' /\ JobsAgree'
  BY NextKeepsSlotInv, JobsGoOnAgreeing
<1>2. \A j \in Job : /\ handler[j] = "accepted" => handler'[j] = "accepted"
                     /\ Ended(j) => Ended(j)'
                     /\ outcome[j] = "done" => outcome'[j] = "done"
  BY FactsLast
<1>3. RemoteTypeOK' /\ CancelsFit'
  BY <1>2 DEF RemoteTypeOK, CancelsFit
<1>4. ClientView'
  BY <1>2 DEF ClientView
<1>5. ASSUME NEW c \in Client
      PROVE  IF pc'[c] = "settled" THEN Outcome(c)' ELSE settledAs'[c] = "none"
  <2>1. pc[c] = "settled" => jobOf[c] \in Job
    BY DEF ClientView
  <2>2. Outcome(c) /\ jobOf[c] \in Job => Outcome(c)'
    BY <1>2 DEF Outcome
  <2>. QED  BY <2>1, <2>2 DEF ClientSettled
<1>6. ClientSettled'
  BY <1>5 DEF ClientSettled
<1>. QED  BY <1>1, <1>3, <1>4, <1>6

\* Requests on their way.
LEMMA NetworkKeepsRemoteInv ==
    ASSUME RemoteInv, NEW j \in Job, Arrives(j) \/ CancelLost(j) \/ CancelArrives(j)
    PROVE  RemoteInv'
<1>. USE DEF RemoteInv
<1>1. CASE Arrives(j)
  <2>1. SlotInv' /\ JobsAgree'
    BY <1>1, NextKeepsSlotInv, JobsGoOnAgreeing DEF Arrives
  <2>2. RemoteTypeOK' /\ CancelsFit' /\ ClientView' /\ ClientSettled'
    BY <1>1 DEF Arrives, serverVars, RemoteTypeOK, CancelsFit, ClientView,
                ClientSettled, Outcome, Ended
  <2>. QED  BY <2>1, <2>2
<1>2. CASE CancelLost(j)
  <2>1. SlotInv' /\ JobsAgree'
    BY <1>2, NextKeepsSlotInv, JobsGoOnAgreeing DEF CancelLost
  <2>2. RemoteTypeOK' /\ CancelsFit' /\ ClientView'
    BY <1>2 DEF CancelLost, serverVars, RemoteTypeOK, CancelsFit, ClientView, Ended
  <2>3. ClientSettled'
    BY <1>2 DEF CancelLost, serverVars, RemoteTypeOK, ClientView, ClientSettled, Outcome, Ended
  <2>. QED  BY <2>1, <2>2, <2>3
<1>3. CASE CancelArrives(j)
  <2>1. Cancel(j) \/ UNCHANGED serverVars
    BY <1>3 DEF CancelArrives
  <2>2. [Next]_serverVars
    BY <2>1 DEF Next
  <2>3. SlotInv' /\ JobsAgree'
    BY <2>2, NextKeepsSlotInv, JobsGoOnAgreeing
  <2>4. \A k \in Job : /\ handler[k] = "accepted" => handler'[k] = "accepted"
                       /\ Ended(k) => Ended(k)'
                       /\ outcome[k] = "done" => outcome'[k] = "done"
    BY <2>2, FactsLast
  <2>5. /\ cancelMsg[j] = "sent" /\ cancelMsg' = [cancelMsg EXCEPT ![j] = "handled"]
        /\ UNCHANGED <<pc, jobOf, known, aborted, settledAs, reply, request>>
    BY <1>3 DEF CancelArrives
  <2>6. Ended(j)'
    <3>1. CASE Cancel(j)
      BY <2>5, <3>1 DEF Cancel, CancelsFit, Ended, SlotInv, TypeOK
    <3>2. CASE ~(status[j] = "running" /\ cancelable[j]) /\ UNCHANGED serverVars
      BY <2>5, <3>2 DEF JobsAgree, CancelsFit, Ended, serverVars
    <3>. QED  BY <1>3, <3>1, <3>2 DEF CancelArrives
  <2>7. RemoteTypeOK' /\ ClientView'
    BY <2>4, <2>5 DEF RemoteTypeOK, ClientView
  <2>8. CancelsFit'
    BY <2>4, <2>5, <2>6 DEF RemoteTypeOK, CancelsFit, Ended
  <2>9. ASSUME NEW c \in Client
        PROVE  IF pc'[c] = "settled" THEN Outcome(c)' ELSE settledAs'[c] = "none"
    <3>1. pc[c] = "settled" => jobOf[c] \in Job
      BY DEF ClientView
    <3>2. Outcome(c) /\ jobOf[c] \in Job => Outcome(c)'
      BY <2>4, <2>5 DEF Outcome, RemoteTypeOK
    <3>. QED  BY <2>5, <3>1, <3>2 DEF ClientSettled
  <2>10. ClientSettled'
    BY <2>9 DEF ClientSettled
  <2>. QED  BY <2>3, <2>7, <2>8, <2>10
<1>. QED  BY <1>1, <1>2, <1>3

\* The clients' own steps.
LEMMA ClientKeepsRemoteInv ==
    ASSUME RemoteInv, NEW c \in Client,
           \/ \E j \in Job : Create(c, j)
           \/ Created(c) \/ CreateFails(c) \/ Poll(c) \/ ServePoll(c)
           \/ Answered(c) \/ PollFails(c) \/ Abort(c)
    PROVE  RemoteInv'
<1>. USE DEF RemoteInv, Settle, HandleAbort
<1>0. UNCHANGED serverVars
  BY DEF Create, Created, CreateFails, Poll, ServePoll, Answered, PollFails, Abort
<1>1. SlotInv' /\ JobsAgree'
  BY <1>0, NextKeepsSlotInv, JobsGoOnAgreeing
<1>. USE <1>0 DEF serverVars, Ended, RemoteTypeOK, CancelsFit, ClientView,
                  ClientSettled, Outcome
<1>2. ASSUME NEW j \in Job, Create(c, j)
      PROVE  RemoteTypeOK' /\ CancelsFit' /\ ClientView' /\ ClientSettled'
  <2>1. RemoteTypeOK' /\ CancelsFit'
    BY <1>2 DEF Create, Status
  <2>2. ClientView'
    BY <1>2 DEF Create
  <2>3. ClientSettled'
    BY <1>2 DEF Create
  <2>. QED  BY <2>1, <2>2, <2>3
<1>3. CASE Created(c)
  <2>1. CancelsFit'
    BY <1>3 DEF Created
  <2>a. RemoteTypeOK'
    <3>1. CASE Settle(c, "failed") /\ UNCHANGED known
      BY <1>3, <3>1 DEF Created
    <3>2. CASE /\ pc' = [pc EXCEPT ![c] = "waiting"]
               /\ known' = [known EXCEPT ![c] = TRUE]
               /\ UNCHANGED settledAs
      BY <1>3, <3>2 DEF Created
    <3>. QED  BY <1>3, <3>1, <3>2 DEF Created
  <2>2. ClientView'
    BY <1>3 DEF Created
  <2>3. ClientSettled'
    BY <1>3 DEF Created
  <2>. QED  BY <1>1, <2>1, <2>a, <2>2, <2>3
<1>4. CASE CreateFails(c)
  BY <1>1, <1>4 DEF CreateFails
<1>5. CASE Poll(c)
  BY <1>1, <1>5 DEF Poll
<1>6. CASE ServePoll(c)
  BY <1>1, <1>6 DEF ServePoll, SlotInv, TypeOK, JobsAgree, Final
<1>7. CASE Answered(c)
  BY <1>1, <1>7 DEF Answered, AnswerDone, AnswerStopped, AnswerUnknown,
                    AnswerRunning, Final
<1>8. CASE PollFails(c)
  BY <1>1, <1>8 DEF PollFails
<1>9. CASE Abort(c)
  BY <1>1, <1>9 DEF Abort
<1>. QED  BY <1>1, <1>2, <1>3, <1>4, <1>5, <1>6, <1>7, <1>8, <1>9
-----------------------------------------------------------------------------
LEMMA RemoteInvariant == RemoteSpec => []RemoteInv
<1>1. RemoteInv /\ [RemoteNext]_vars => RemoteInv'
  <2>. SUFFICES ASSUME RemoteInv, [RemoteNext]_vars PROVE RemoteInv'
    OBVIOUS
  <2>1. ASSUME NEW c \in Client,
               \/ \E j \in Job : Create(c, j)
               \/ Created(c) \/ CreateFails(c) \/ Poll(c) \/ ServePoll(c)
               \/ Answered(c) \/ PollFails(c) \/ Abort(c)
        PROVE  RemoteInv'
    BY <2>1, ClientKeepsRemoteInv
  <2>2. ASSUME NEW j \in Job, Arrives(j) \/ CancelArrives(j) \/ CancelLost(j)
        PROVE  RemoteInv'
    BY <2>2, NetworkKeepsRemoteInv
  <2>3. ASSUME NEW j \in Job, ServerStep(j)
        PROVE  RemoteInv'
    BY <2>3, RemoteStepIsServerStep, ServerKeepsRemoteInv DEF ServerStep, RemoteNext
  <2>4. CASE ServerRestart
    BY <2>4, RemoteStepIsServerStep, ServerKeepsRemoteInv DEF ServerRestart, RemoteNext
  <2>5. CASE UNCHANGED vars
    BY <2>5, ServerKeepsRemoteInv DEF vars
  <2>. QED  BY <2>1, <2>2, <2>3, <2>4, <2>5 DEF RemoteNext
<1>. QED  BY InitRemoteInv, <1>1, PTL DEF RemoteSpec

\* Clients that lose messages, abort and start again can only make the server
\* take its own steps: the composition implements the server's specification
\* (cmd/solver-server/main.go as used by solveWithOci of web/src/wasm.ts).
THEOREM RemoteImplementsServer == RemoteSpec => Spec
<1>1. RemoteInit => Init
  BY DEF RemoteInit
<1>. QED  BY <1>1, RemoteStepIsServerStep, PTL DEF RemoteSpec, Spec

\* Under its real clients the server neither leaks its slot nor frees it twice.
THEOREM SlotAccountedRemotely == RemoteSpec => []SlotAccounted
  BY RemoteImplementsServer, SlotIsAccounted, PTL

\* A promise resolves with the result of the call's own job, which was done, and
\* never once the user has aborted the call (wasm.ts, poll and handleAbort).
THEOREM ResolvesOwnResult == RemoteSpec => []ResolvedIsOwnResult
<1>1. RemoteInv => ResolvedIsOwnResult
  BY DEF RemoteInv, ClientSettled, Outcome, ResolvedIsOwnResult
<1>. QED  BY <1>1, RemoteInvariant, PTL

\* A settled call leaves its job running only if the client lost contact: a
\* failed fetch, an abort before the job's identifier was known, or a cancel
\* request still on its way or lost (wasm.ts:155-170, 182-187).
THEOREM NothingRunsUnwatched == RemoteSpec => []UnwatchedOnlyByLostContact
<1>1. RemoteInv => UnwatchedOnlyByLostContact
  <2>. SUFFICES ASSUME RemoteInv, NEW c \in Client,
                       pc[c] = "settled", status[jobOf[c]] = "running"
                PROVE  \/ settledAs[c] = "failed"
                       \/ aborted[c] /\ (known[c] => cancelMsg[jobOf[c]] \in {"sent", "lost"})
    BY DEF UnwatchedOnlyByLostContact
  <2>1. jobOf[c] \in Job /\ ~Ended(jobOf[c])
    BY DEF RemoteInv, ClientView, Ended
  <2>2. cancelMsg[jobOf[c]] \in {"none", "sent", "lost"}
    BY <2>1 DEF RemoteInv, RemoteTypeOK, CancelsFit
  <2>. QED  BY <2>1, <2>2 DEF RemoteInv, ClientSettled, Outcome
<1>. QED  BY <1>1, RemoteInvariant, PTL
=============================================================================
