------------------------- MODULE WorkerClientProofs -------------------------
(***************************************************************************)
(* Proofs about WorkerClient, for every set of calls and catalogs and any  *)
(* number of workers: the page's belief about its worker is true whenever  *)
(* it is consulted, the worker's two guards are never needed, and a result *)
(* is computed with the catalog of its call.                               *)
(*                                                                         *)
(* The queues could hold anything as far as these properties say.  What    *)
(* makes them true is that page and worker converse: while a call is       *)
(* active exactly one message about it is under way, and between calls     *)
(* there is none (Conversation); and that what the message asks for, or    *)
(* reports, fits what the worker holds (Agreement).                        *)
(***************************************************************************)
EXTENDS WorkerClient, TLAPS

Asked == IF call[active] = "installing" THEN Install(active) ELSE Solve(active)
Success == IF call[active] = "installing" THEN "catalogInstalled" ELSE "result"

Quiet == inbox = <<>> /\ serving = NoMessage /\ outbox = <<>>
Posted == inbox = <<Asked>> /\ serving = NoMessage /\ outbox = <<>>
Served == inbox = <<>> /\ serving = Asked /\ outbox = <<>>
Replied(kind) ==
    inbox = <<>> /\ serving = NoMessage /\ outbox = <<Answer(kind, Asked)>>

\* One message per active call, none between calls.
Conversation ==
    \/ active = None /\ Quiet
    \/ /\ active \in Request /\ alive
       /\ call[active] \in {"installing", "solving"}
       /\ Posted \/ Served \/ Replied(Success) \/ Replied("error")

\* What the two ends know of each other.
Agreement ==
    /\ prepared = installed
    /\ active = None /\ believed # None => alive /\ installed = believed
    /\ active # None /\ call[active] = "solving" =>
          believed = catalogOf[active] /\ installed = catalogOf[active]
    /\ active # None /\ call[active] = "installing" /\ Replied("catalogInstalled") =>
          installed = catalogOf[active]

ClientInv == TypeOK /\ Conversation /\ Agreement /\ ResultUsesOwnCatalog
-----------------------------------------------------------------------------
LEMMA NothingSent == <<>> \in Seq(Message)
  OBVIOUS

LEMMA InitClientInv == Init => ClientInv
<1>. SUFFICES ASSUME Init PROVE ClientInv
  OBVIOUS
<1>1. generation \in 0..MaxWorkers
  BY WorkerClientAssumption DEF WorkerClientAssumption, Init
<1>2. TypeOK
  BY <1>1, NothingSent DEF Init, TypeOK
<1>3. Conversation
  BY DEF Init, Conversation, Quiet
<1>4. Agreement
  BY DEF Init, Agreement
<1>5. ResultUsesOwnCatalog
  BY DEF Init, ResultUsesOwnCatalog
<1>. QED  BY <1>2, <1>3, <1>4, <1>5 DEF ClientInv

\* Messages are recognised by their type.
LEMMA MessageKinds ==
    ASSUME TypeOK, active \in Request
    PROVE  /\ Asked \in Message /\ Asked # NoMessage
           /\ Asked.request = active /\ Asked.catalog = catalogOf[active]
           /\ Asked.type = IF call[active] = "installing"
                           THEN "installCatalog" ELSE "solve"
  BY DEF TypeOK, Asked, Install, Solve, Message, NoMessage

\* A call that fails takes the worker, and what the page believed of it, along.
LEMMA FailKeepsInv ==
    ASSUME ClientInv, NEW r \in Request, active = r,
           NEW how \in {"failed", "aborted"}, Fail(r, how),
           UNCHANGED <<catalogOf, generation, usedCatalog>>
    PROVE  ClientInv'
<1>. USE DEF Fail, ResetSolverWorker, WorkerGone
<1>1. TypeOK'
  BY NothingSent DEF ClientInv, TypeOK
<1>2. Conversation'
  BY DEF Conversation, Quiet
<1>3. Agreement'
  BY DEF Agreement
<1>4. ResultUsesOwnCatalog'
  BY DEF ClientInv, TypeOK, ResultUsesOwnCatalog
<1>. QED  BY <1>1, <1>2, <1>3, <1>4 DEF ClientInv

LEMMA RefuseKeepsInv ==
    ASSUME ClientInv, NEW r \in Request, Refuse(r)
    PROVE  ClientInv'
<1>. USE DEF Refuse, MayCall, worker
<1>1. TypeOK'
  BY DEF ClientInv, TypeOK
<1>2. active # r /\ active' = active /\ \A q \in Request \ {r} : call'[q] = call[q]
  BY DEF ClientInv, Conversation, TypeOK
<1>3. Conversation' /\ Agreement'
  BY <1>2 DEF ClientInv, TypeOK, Conversation, Agreement, Quiet, Posted, Served,
              Replied, Asked, Success, Install, Solve, Answer
<1>4. ResultUsesOwnCatalog'
  BY DEF ClientInv, TypeOK, ResultUsesOwnCatalog
<1>. QED  BY <1>1, <1>3, <1>4 DEF ClientInv

LEMMA CallKeepsInv ==
    ASSUME ClientInv, NEW r \in Request, Call(r)
    PROVE  ClientInv'
<1>. USE DEF Call, MayCall, worker
<1>1. active = None /\ Quiet /\ active' = r /\ r # None
  BY WorkerClientAssumption
  DEF ClientInv, Conversation, WorkerClientAssumption, Quiet
<1>2. /\ call'[r] \in {"installing", "solving"}
      /\ call' \in [Request -> {"new", "refused", "installing", "solving",
                                "resolved", "failed", "aborted"}]
      /\ \A q \in Request : call'[q] = "resolved" => call[q] = "resolved"
  BY DEF ClientInv, TypeOK
<1>3. inbox' = <<Asked'>> /\ Asked' \in Message
  BY <1>1, <1>2 DEF ClientInv, TypeOK, Quiet, Asked, Install, Solve, Message
<1>4. TypeOK'
  <2>1. inbox' \in Seq(Message)
    BY <1>3
  <2>2. generation' \in 0..MaxWorkers
    BY WorkerClientAssumption DEF ClientInv, TypeOK, WorkerClientAssumption
  <2>. QED  BY <1>1, <1>2, <2>1, <2>2 DEF ClientInv, TypeOK
<1>5. Conversation'
  BY <1>1, <1>2, <1>3 DEF Conversation, Posted, Quiet
<1>6. Agreement'
  <2>1. ~(Replied("catalogInstalled"))'
    BY <1>3 DEF Replied
  <2>2. call'[r] = "solving" => believed = catalogOf[r] /\ believed # None
    BY WorkerClientAssumption DEF ClientInv, TypeOK, WorkerClientAssumption
  <2>. QED  BY <1>1, <2>1, <2>2 DEF ClientInv, Agreement
<1>7. ResultUsesOwnCatalog'
  BY <1>2 DEF ClientInv, ResultUsesOwnCatalog
<1>. QED  BY <1>4, <1>5, <1>6, <1>7 DEF ClientInv

LEMMA HandleKeepsInv ==
    ASSUME ClientInv, NEW r \in Request, HandleMessage(r)
    PROVE  ClientInv'
<1>. USE DEF HandleMessage
<1>1. active = r /\ active # None /\ TypeOK
  BY WorkerClientAssumption DEF WorkerClientAssumption, ClientInv
<1>2. /\ alive /\ call[r] \in {"installing", "solving"}
      /\ inbox = <<>> /\ serving = NoMessage
      /\ Replied(Success) \/ Replied("error")
  BY <1>1 DEF ClientInv, Conversation, Quiet, Posted, Served, Replied
<1>a. PICK kind \in {Success, "error"} :
          outbox = <<Answer(kind, Asked)>> /\ Replied(kind)
  BY <1>2 DEF Replied
<1>b. Asked.catalog = catalogOf[r]
  BY <1>1, MessageKinds
<1>3. /\ Head(outbox).catalog = catalogOf[r]
      /\ Head(outbox).type = kind
      /\ Tail(outbox) = <<>>
  BY <1>a, <1>b DEF Answer
<1>4. CASE CatalogInstalled(r)
  <2>1. call[r] = "installing" /\ Replied("catalogInstalled")
    BY <1>1, <1>2, <1>a, <1>3, <1>4 DEF CatalogInstalled, Success
  <2>2. installed = catalogOf[r] /\ prepared = installed
    BY <1>1, <2>1 DEF ClientInv, Agreement
  <2>3. /\ believed' = catalogOf[r] /\ call' = [call EXCEPT ![r] = "solving"]
        /\ inbox' = <<Solve(r)>> /\ outbox' = <<>>
        /\ UNCHANGED <<active, alive, worker, catalogOf, generation, usedCatalog>>
    <3>1. /\ believed' = catalogOf[r] /\ call' = [call EXCEPT ![r] = "solving"]
          /\ inbox' = Append(inbox, Solve(r)) /\ outbox' = Tail(outbox)
          /\ UNCHANGED <<active, alive, worker, usedCatalog>>
      BY <1>3, <1>4 DEF CatalogInstalled
    <3>2. Append(<<>>, Solve(r)) = <<Solve(r)>>
      OBVIOUS
    <3>. QED  BY <1>2, <1>3, <3>1, <3>2
  <2>4. Solve(r) \in Message /\ Asked' = Solve(r)
    BY <1>1, <2>3 DEF TypeOK, Message, Solve, Asked
  <2>5. TypeOK'
    BY <1>1, <2>3, <2>4 DEF TypeOK, worker
  <2>6. Conversation'
    BY <1>1, <1>2, <2>3, <2>4 DEF TypeOK, Conversation, Posted, worker
  <2>7. Agreement'
    BY <1>1, <2>2, <2>3 DEF Agreement, TypeOK, worker
  <2>8. ResultUsesOwnCatalog'
    BY <1>1, <2>3 DEF ClientInv, TypeOK, ResultUsesOwnCatalog
  <2>. QED  BY <2>5, <2>6, <2>7, <2>8 DEF ClientInv
<1>5. CASE ResultArrives(r)
  <2>1. call[r] = "solving"
    BY <1>2, <1>1, <1>a, <1>3, <1>5 DEF ResultArrives, Success
  <2>2. /\ call' = [call EXCEPT ![r] = "resolved"]
        /\ usedCatalog' = [usedCatalog EXCEPT ![r] = catalogOf[r]]
        /\ active' = None /\ outbox' = <<>>
        /\ UNCHANGED <<believed, inbox, alive, worker, catalogOf, generation>>
    BY <1>3, <1>5 DEF ResultArrives
  <2>3. TypeOK'
    BY <1>1, <2>2 DEF TypeOK, worker
  <2>4. Conversation'
    BY <1>2, <2>2 DEF Conversation, Quiet, worker
  <2>5. Agreement'
    BY <1>1, <1>2, <2>1, <2>2 DEF ClientInv, Agreement, worker
  <2>6. ResultUsesOwnCatalog'
    BY <1>1, <2>2 DEF ClientInv, TypeOK, ResultUsesOwnCatalog
  <2>. QED  BY <2>3, <2>4, <2>5, <2>6 DEF ClientInv
<1>6. CASE ErrorArrives(r)
  BY <1>1, <1>6, FailKeepsInv DEF ErrorArrives
<1>. QED  BY <1>4, <1>5, <1>6
-----------------------------------------------------------------------------
\* The steps of the worker leave the page alone.
LEMMA WorkerKeepsInv ==
    ASSUME ClientInv, WorkerStep
    PROVE  ClientInv'
<1>. USE DEF page
<1>0. TypeOK
  BY DEF ClientInv
<1>1. SUFFICES ASSUME active \in Request, active # None, inbox # <<>> \/ serving # NoMessage
               PROVE  ClientInv'
  BY WorkerClientAssumption
  DEF WorkerClientAssumption, ClientInv, Conversation, Quiet, WorkerStep,
      Receive, Load, InstallPreparedCatalog, RunSolve
<1>2. /\ alive /\ call[active] \in {"installing", "solving"}
      /\ Posted \/ Served
  BY <1>1 DEF ClientInv, Conversation, Quiet, Replied
<1>3. UNCHANGED <<page, generation, alive, usedCatalog>> /\ Asked' = Asked /\ Success' = Success
  BY DEF WorkerStep, Receive, Load, InstallPreparedCatalog, RunSolve,
         Asked, Success, Install, Solve
<1>4. ResultUsesOwnCatalog'
  BY <1>3 DEF ClientInv, ResultUsesOwnCatalog
<1>5. CASE Receive
  <2>1. /\ inbox' = <<>> /\ serving' = Asked /\ outbox' = <<>>
        /\ UNCHANGED <<loaded, installed, prepared>>
    BY <1>1, <1>2, <1>5 DEF Receive, Posted, Served
  <2>2. TypeOK'
    BY <1>0, <1>1, <1>3, <2>1, MessageKinds DEF TypeOK
  <2>3. Conversation' /\ Agreement'
    BY <1>1, <1>2, <1>3, <2>1 DEF ClientInv, Conversation, Agreement, Served, Replied
  <2>. QED  BY <1>4, <2>2, <2>3 DEF ClientInv
<1>6. CASE ~Receive
  <2>1. inbox = <<>> /\ serving = Asked /\ outbox = <<>> /\ serving # NoMessage
    BY <1>0, <1>1, <1>2, <1>6, MessageKinds
    DEF WorkerStep, Load, InstallPreparedCatalog, RunSolve, Posted, Served
  <2>2. ASSUME NEW kind \in {Success, "error"},
               inbox' = <<>>, serving' = NoMessage,
               outbox' = <<Answer(kind, Asked)>>,
               loaded' \in BOOLEAN,
               installed' \in Catalog \cup {None}, prepared' = installed',
               call[active] = "solving" => UNCHANGED installed,
               kind = "catalogInstalled" => installed' = catalogOf[active]
        PROVE  ClientInv'
    <3>1. Answer(kind, Asked) \in Message
      BY <1>0, <1>1, MessageKinds DEF Answer, Message, TypeOK, Success
    <3>2. TypeOK'
      BY <1>0, <1>3, <2>2, <3>1 DEF TypeOK
    <3>3. Conversation'
      BY <1>1, <1>2, <1>3, <2>2 DEF Conversation, Replied
    <3>4. Answer(kind, Asked).type = kind
      BY DEF Answer
    <3>5. Replied("catalogInstalled")' => kind = "catalogInstalled"
      BY <1>3, <2>2, <3>4 DEF Replied, Answer
    <3>6. Agreement'
      BY <1>1, <1>3, <2>2, <3>5 DEF ClientInv, Agreement
    <3>. QED  BY <1>4, <3>2, <3>3, <3>6 DEF ClientInv
  <2>3. prepared = installed /\ installed \in Catalog \cup {None}
        /\ loaded \in BOOLEAN
        /\ (call[active] = "solving" => installed = catalogOf[active])
    BY <1>1 DEF ClientInv, TypeOK, Agreement
  <2>4. CASE Load
    <3>1. CASE Finish("error") /\ UNCHANGED loaded
      <4>1. /\ outbox' = <<Answer("error", Asked)>> /\ serving' = NoMessage
            /\ UNCHANGED <<inbox, installed, prepared, loaded>>
        BY <2>1, <2>4, <3>1 DEF Load, Finish
      <4>2. "error" # "catalogInstalled"
        OBVIOUS
      <4>. QED  BY <2>1, <2>2, <2>3, <4>1, <4>2
    <3>2. CASE loaded' = TRUE /\ UNCHANGED <<outbox, serving>>
      <4>1. TypeOK'
        BY <1>0, <1>3, <2>4, <3>2 DEF TypeOK, Load
      <4>2. Conversation' /\ Agreement'
        BY <1>1, <1>2, <1>3, <2>1, <2>4, <3>2
        DEF ClientInv, Conversation, Agreement, Served, Replied, Load
      <4>. QED  BY <1>4, <4>1, <4>2 DEF ClientInv
    <3>. QED  BY <2>4, <3>1, <3>2 DEF Load
  <2>5. CASE InstallPreparedCatalog
    <3>1. call[active] = "installing" /\ Asked.catalog = catalogOf[active]
          /\ Success = "catalogInstalled" /\ catalogOf[active] \in Catalog
      BY <1>0, <1>1, <1>2, <2>1, <2>5, MessageKinds
      DEF InstallPreparedCatalog, Success, TypeOK
    <3>2. PICK kind \in {"catalogInstalled", "error"} :
            /\ outbox' = <<Answer(kind, Asked)>> /\ serving' = NoMessage
            /\ UNCHANGED <<inbox, loaded>>
            /\ prepared' = installed'
            /\ installed' \in {installed, catalogOf[active]}
            /\ kind = "catalogInstalled" => installed' = catalogOf[active]
      BY <2>1, <2>3, <2>5, <3>1 DEF InstallPreparedCatalog, Finish
    <3>. QED  BY <2>1, <2>2, <2>3, <3>1, <3>2
  <2>6. CASE RunSolve
    <3>1. call[active] = "solving" /\ Asked.catalog = catalogOf[active]
          /\ Success = "result"
      BY <1>0, <1>1, <1>2, <2>1, <2>6, MessageKinds DEF RunSolve, Success
    <3>2. PICK kind \in {"result", "error"} :
            /\ outbox' = <<Answer(kind, Asked)>> /\ serving' = NoMessage
            /\ UNCHANGED <<inbox, loaded, installed, prepared>>
      <4>1. /\ serving' = NoMessage
            /\ UNCHANGED <<inbox, loaded, installed, prepared>>
        BY <2>6 DEF RunSolve, Finish
      <4>2. Answer("result", Asked) = [type |-> "result", request |-> serving.request,
                                       catalog |-> prepared]
        BY <2>1, <2>3, <3>1 DEF Answer
      <4>3. \/ outbox' = Append(<<>>, Answer("result", Asked))
            \/ outbox' = Append(<<>>, Answer("error", Asked))
        BY <2>1, <2>3, <2>6, <3>1, <4>2 DEF RunSolve, Finish
      <4>. QED  BY <4>1, <4>3
    <3>. QED  BY <2>1, <2>2, <2>3, <3>1, <3>2
  <2>. QED  BY <1>6, <2>4, <2>5, <2>6 DEF WorkerStep
<1>. QED  BY <1>5, <1>6

\* The conversation is kept by every step.
LEMMA ClientInvariant == Spec => []ClientInv
<1>1. ClientInv /\ [Next]_vars => ClientInv'
  <2>. SUFFICES ASSUME ClientInv, [Next]_vars PROVE ClientInv'
    OBVIOUS
  <2>1. ASSUME NEW r \in Request, Refuse(r) \/ Call(r) PROVE ClientInv'
    BY <2>1, RefuseKeepsInv, CallKeepsInv
  <2>2. ASSUME NEW r \in Request, Abort(r) PROVE ClientInv'
    BY <2>2, FailKeepsInv DEF Abort
  <2>3. CASE PageStep
    BY <2>3, HandleKeepsInv DEF PageStep
  <2>4. CASE WorkerStep
    BY <2>4, WorkerKeepsInv
  <2>5. CASE UNCHANGED vars
    BY <2>5 DEF vars, page, worker, ClientInv, TypeOK, Conversation, Quiet, Posted,
                Served, Replied, Asked, Success, Install, Solve, Answer,
                Agreement, ResultUsesOwnCatalog
  <2>. QED  BY <2>1, <2>2, <2>3, <2>4, <2>5 DEF Next
<1>. QED  BY InitClientInv, <1>1, PTL DEF Spec

\* What the page believes of its worker is true whenever a call may rely on it:
\* installedWorkerCatalog of web/src/wasm.ts names the catalog the worker, and
\* the Go program in it, hold (wasm.ts: solveWithWorker, resetSolverWorker).
THEOREM BeliefIsAlwaysTrue == Spec => []BeliefIsTrue
<1>1. ClientInv => BeliefIsTrue
  BY DEF ClientInv, Agreement, BeliefIsTrue
<1>. QED  BY <1>1, ClientInvariant, PTL

\* The worker is never handed a message while it serves another one, nor a
\* solve for a catalog it does not hold (solverWorker.ts, its two guards).
THEOREM GuardsNeverNeeded == Spec => []WorkerNeverSurprised
<1>1. ClientInv => WorkerNeverSurprised
  <2>. SUFFICES ASSUME ClientInv, NEW i \in 1..Len(outbox)
                PROVE  outbox[i].type \notin {"busy", "not installed"}
    BY DEF WorkerNeverSurprised
  <2>1. PICK kind \in {Success, "error"} : outbox = <<Answer(kind, Asked)>>
    BY DEF ClientInv, Conversation, Quiet, Posted, Served, Replied
  <2>2. outbox[i].type = kind
    BY <2>1 DEF Answer
  <2>. QED  BY <2>1, <2>2 DEF Success
<1>. QED  BY <1>1, ClientInvariant, PTL

\* A promise resolves with a result computed from the catalog its call was
\* given, however often the worker was reused, re-prepared or replaced.
THEOREM ResultsUseTheirCatalog == Spec => []ResultUsesOwnCatalog
<1>1. ClientInv => ResultUsesOwnCatalog
  BY DEF ClientInv
<1>. QED  BY <1>1, ClientInvariant, PTL
=============================================================================
