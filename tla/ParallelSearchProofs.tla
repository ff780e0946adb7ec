------------------------ MODULE ParallelSearchProofs ------------------------
(***************************************************************************)
(* Proofs about ParallelSearch, for every number of workers and roots, all *)
(* trees and all limits: every node visited is one new grant of the        *)
(* ledger, and a worker charges at most one node after the stop flag is up *)
(* and one check interval after a cancellation; the search reports the     *)
(* nodes it charged, returns nothing worse than the best leaf found, has   *)
(* visited every node if it is called completed, and, when nothing stopped *)
(* it, returns what one worker would have returned.                        *)
(*                                                                         *)
(* None holds by induction alone.  A grant is new because no two workers   *)
(* ever get the same root (OwnRoots: the dispatcher only counts up) and    *)
(* because a worker's charged nodes lie behind its cursor (Behind).  The   *)
(* extra node is the only one because the flag is tested between any two   *)
(* charges (OneInHand).  What is returned is followed from the leaf to the *)
(* merge loop: Delivered, Accounts, Survives and Undisturbed below; and    *)
(* whatever stopped a search is told by one of its results, the context or *)
(* the ledger (StopExplained).                                             *)
(***************************************************************************)
EXTENDS ParallelSearch, NumberLemmas, FiniteSetTheorems, TLAPS

Busy == {"enter", "context", "charge", "counted", "return"}

\* The dispatcher hands over roots that exist.
RootReady == main \in {"context", "send"} => next <= NTasks

\* A busy worker has a root that was handed over, and before it visits it is
\* at a node of that root's tree.
Placed ==
    \A w \in Worker :
        /\ job[w] < next
        /\ pc[w] \in Busy => job[w] \in Task
        /\ pc[w] \in {"context", "charge", "counted"} => AtNode(w)

\* No two workers have, or had last, the same root.
OwnRoots == \A v, w \in Worker : v # w /\ job[v] = job[w] => job[v] = 0

\* The nodes charged belong to roots handed over, and those of a worker's root
\* are behind its cursor, or at it just after the charge.
Behind ==
    /\ \A n \in spent : n[1] < next
    /\ \A w \in Worker, k \in Nat :
          /\ pc[w] \in {"enter", "context", "charge", "counted"}
          /\ <<job[w], k>> \in spent
          => k < cursor[w] \/ (pc[w] = "counted" /\ k = cursor[w])

\* A worker past the test of the flag has charged nothing since it went up.
OneInHand ==
    \A w \in Worker :
        /\ afterStop[w] \in {0, 1}
        /\ ~stopFlag => afterStop[w] = 0
        /\ pc[w] \in {"context", "charge"} => afterStop[w] = 0

SearchInv == TypeOK /\ RootReady /\ Placed /\ OwnRoots /\ Behind /\ OneInHand
-----------------------------------------------------------------------------
\* The node at a worker's cursor is a node of the search.
LEMMA CursorIsNode ==
    ASSUME TypeOK, NEW w \in Worker, AtNode(w)
    PROVE  <<job[w], cursor[w]>> \in AllNodes
<1>1. job[w] \in Task /\ cursor[w] \in 1..TreeSize[job[w]]
  BY SearchAssumption DEF SearchAssumption, AtNode, TypeOK
<1>2. <<job[w], cursor[w]>> \in SearchNode
  BY <1>1 DEF SearchNode
<1>. QED  BY <1>2 DEF AllNodes

LEMMA InitSearchInv == Init => SearchInv
<1>. SUFFICES ASSUME Init PROVE SearchInv
  OBVIOUS
<1>. USE SearchAssumption DEF SearchAssumption
<1>1. \A n \in Earlier : n[1] = 0
  BY DEF Earlier
<1>2. TypeOK
  <2>1. next \in 1..(NTasks + 1) /\ 0 \in 0..NTasks
    BY DEF Init
  <2>0. ctxDone \in BOOLEAN /\ stopFlag \in BOOLEAN
    BY Zenon DEF Init
  <2>2. DOMAIN partials = {}
    BY DEF Init
  <2>3. charged \in Nat /\ stageCharged \in [{Stage} -> Nat]
        /\ spent \subseteq AllNodes
    BY DEF Init, AllNodes
  <2>. QED  BY <2>0, <2>1, <2>2, <2>3 DEF Init, TypeOK
<1>3. RootReady /\ OwnRoots /\ OneInHand
  BY DEF Init, RootReady, OwnRoots, OneInHand
<1>4. Placed
  BY DEF Init, Placed, Busy
<1>5. Behind
  BY <1>1 DEF Init, Behind
<1>. QED  BY <1>2, <1>3, <1>4, <1>5 DEF SearchInv

\* Steps that move the dispatcher only.
LEMMA MainKeepsSearchInv ==
    ASSUME SearchInv, MainStep
    PROVE  SearchInv'
<1>. USE DEF SearchInv, dispatch, walk, ledgerVars, ghosts
<1>1. CASE CheckStop
  <2>1. CASE NoRootLeft(next) \/ stopFlag
    <3>1. /\ main' = "closed"
          /\ UNCHANGED <<next, partials, combined, pc, walk, stopFlag, ctxDone,
                         ledgerVars, ghosts>>
      BY <1>1, <2>1 DEF CheckStop, StopDispatch
    <3>. QED  BY <3>1 DEF TypeOK, RootReady, Placed, OwnRoots, Behind,
                          OneInHand, AtNode
  <2>2. CASE ~(NoRootLeft(next) \/ stopFlag)
    <3>1. /\ main' \in {"send", "context"} /\ next <= NTasks
          /\ UNCHANGED <<next, partials, combined, pc, walk, stopFlag, ctxDone,
                         ledgerVars, ghosts>>
      BY <1>1, <2>2, SearchAssumption
      DEF CheckStop, NoRootLeft, TypeOK, SearchAssumption
    <3>. QED  BY <3>1 DEF TypeOK, RootReady, Placed, OwnRoots, Behind,
                          OneInHand, AtNode
  <2>. QED  BY <2>1, <2>2
<1>2. CASE CheckContext
  <2>1. /\ main' \in {"closed", "send"}
        /\ main' = "send" => main = "context"
        /\ stopFlag' \in BOOLEAN /\ (stopFlag => stopFlag')
        /\ UNCHANGED <<next, partials, combined, pc, walk, ctxDone, ledgerVars,
                       ghosts>>
    BY <1>2 DEF CheckContext, StopDispatch, TypeOK
  <2>2. TypeOK' /\ RootReady'
    BY <2>1 DEF TypeOK, RootReady
  <2>3. Placed' /\ OwnRoots' /\ Behind'
    BY <2>1 DEF Placed, OwnRoots, Behind, AtNode
  <2>4. OneInHand'
    BY <2>1 DEF OneInHand
  <2>. QED  BY <2>2, <2>3, <2>4
<1>3. CASE Collect
  BY <1>3 DEF Collect, PoolGone, TypeOK, RootReady, Placed, OwnRoots, Behind,
              OneInHand, AtNode
<1>. QED  BY <1>1, <1>2, <1>3 DEF MainStep

\* A root handed over is a new one: nobody has it, and none of its nodes has
\* been charged.
LEMMA ReceiveKeepsSearchInv ==
    ASSUME SearchInv, NEW w \in Worker, Receive(w)
    PROVE  SearchInv'
<1>. USE DEF SearchInv, dispatch, walk, ledgerVars, ghosts, Receive, RootSent
<1>1. next \in 1..NTasks /\ next \in Task
  BY SearchAssumption DEF TypeOK, RootReady, SearchAssumption, Task
<1>0. NTasks \in Nat
  BY SearchAssumption DEF SearchAssumption
<1>2. TypeOK'
  <2>1. next' \in 1..(NTasks + 1) /\ next \in 0..NTasks
    BY <1>0, <1>1
  <2>2. /\ pc' \in [Worker -> {"idle", "enter", "context", "charge", "counted",
                              "return", "exit"}]
        /\ job' \in [Worker -> 0..NTasks]
        /\ cursor' \in [Worker -> Nat \ {0}] /\ nodes' \in [Worker -> Nat]
    BY <2>1 DEF TypeOK
  <2>. QED  BY <2>1, <2>2 DEF TypeOK
<1>3. RootReady'
  BY DEF RootReady
<1>4. Placed'
  <2>1. \A v \in Worker : job[v] \in 0..NTasks /\ job[v] < next
    BY DEF TypeOK, Placed
  <2>2. /\ job'[w] = next /\ pc'[w] = "enter"
        /\ \A v \in Worker \ {w} : /\ job'[v] = job[v] /\ pc'[v] = pc[v]
                                   /\ cursor'[v] = cursor[v]
    BY DEF TypeOK
  <2>3. ASSUME NEW v \in Worker
        PROVE  /\ job'[v] < next'
               /\ pc'[v] \in Busy => job'[v] \in Task
               /\ pc'[v] \in {"context", "charge", "counted"} => AtNode(v)'
    <3>1. CASE v = w
      BY <1>0, <1>1, <2>2, <3>1
    <3>2. CASE v # w
      BY <1>0, <1>1, <2>1, <2>2, <3>2 DEF Placed, AtNode
    <3>. QED  BY <3>1, <3>2
  <2>. QED  BY <2>3 DEF Placed
<1>5. \A v \in Worker : job'[v] = IF v = w THEN next ELSE job[v]
  BY DEF TypeOK
<1>6. \A v \in Worker : job[v] < next /\ job[v] # next
  BY <1>1, SearchAssumption DEF Placed, TypeOK, SearchAssumption
<1>7. OwnRoots'
  BY <1>5, <1>6 DEF OwnRoots
<1>8. Behind'
  <2>1. \A n \in spent : n[1] < next /\ n[1] < next + 1
    <3>1. \A n \in Earlier : n[1] \in Int
      BY DEF Earlier
    <3>2. \A n \in SearchNode : n[1] \in Int
      <4>1. \A n \in SearchNode : \E i \in Task :
               n \in {<<i, k>> : k \in 1..TreeSize[i]}
        BY Zenon DEF SearchNode
      <4>. QED  BY <4>1, SearchAssumption DEF Task, SearchAssumption
    <3>3. \A n \in spent : n[1] \in Int
      BY <3>1, <3>2 DEF TypeOK, AllNodes
    <3>. QED  BY <1>1, <3>3 DEF Behind
  <2>2. \A k \in Nat : <<next, k>> \notin spent
    BY <1>1, <2>1
  <2>3. ASSUME NEW v \in Worker, NEW k \in Nat,
               pc'[v] \in {"enter", "context", "charge", "counted"},
               <<job'[v], k>> \in spent'
        PROVE  k < cursor'[v] \/ (pc'[v] = "counted" /\ k = cursor'[v])
    <3>1. v # w /\ spent' = spent
      BY <1>5, <2>2, <2>3
    <3>2. job'[v] = job[v] /\ pc'[v] = pc[v] /\ cursor'[v] = cursor[v]
      BY <3>1 DEF TypeOK
    <3>. QED  BY <2>3, <3>1, <3>2 DEF Behind
  <2>. QED  BY <2>1, <2>3 DEF Behind
<1>9. OneInHand'
  BY DEF OneInHand, TypeOK
<1>. QED  BY <1>2, <1>3, <1>4, <1>7, <1>8, <1>9

\* The nodes of a worker change hands with the ledger: one new node, at the
\* worker's cursor.
LEMMA ChargeKeepsSearchInv ==
    ASSUME SearchInv, NEW w \in Worker, ChargeNode(w)
    PROVE  SearchInv'
<1>. USE DEF SearchInv, dispatch, walk, ChargeNode, GoTo
<1>1. AtNode(w) /\ afterStop[w] = 0
  BY DEF Placed, OneInHand
<1>2. <<job[w], cursor[w]>> \in AllNodes
  BY <1>1, CursorIsNode
<1>3. charged' = charged + 1
  BY DEF Ledger!Charge
<1>4. stageCharged' \in [{Stage} -> Nat]
  BY DEF Ledger!Charge, TypeOK
<1>5. TypeOK'
  BY <1>1, <1>2, <1>3, <1>4 DEF TypeOK
<1>6. RootReady' /\ OwnRoots'
  BY DEF RootReady, OwnRoots
<1>7. Placed'
  BY DEF Placed, Busy, AtNode, TypeOK
<1>8. Behind'
  <2>1. \A n \in spent' : n[1] < next'
    BY DEF Behind, Placed
  <2>2. ASSUME NEW v \in Worker, NEW k \in Nat,
               pc'[v] \in {"enter", "context", "charge", "counted"},
               <<job'[v], k>> \in spent'
        PROVE  k < cursor'[v] \/ (pc'[v] = "counted" /\ k = cursor'[v])
    <3>1. CASE v = w
      <4>1. pc'[v] = "counted" /\ pc[v] = "charge" /\ cursor' = cursor /\ job' = job
        BY <3>1 DEF TypeOK
      <4>2. <<job[v], k>> \in spent \/ k = cursor[v]
        BY <2>2, <3>1, <4>1
      <4>. QED  BY <4>1, <4>2 DEF Behind
    <3>2. CASE v # w
      <4>1. pc'[v] = pc[v] /\ cursor' = cursor /\ job' = job
        BY <3>2 DEF TypeOK
      <4>2. job[v] # job[w]
        BY <3>2, <1>1 DEF OwnRoots, AtNode, Task
      <4>3. <<job[v], k>> \in spent
        BY <2>2, <4>1, <4>2
      <4>. QED  BY <2>2, <4>1, <4>3 DEF Behind
    <3>. QED  BY <3>1, <3>2
  <2>. QED  BY <2>1, <2>2 DEF Behind
<1>9. OneInHand'
  BY <1>1 DEF OneInHand, TypeOK
<1>. QED  BY <1>5, <1>6, <1>7, <1>8, <1>9

\* A worker that turns back, for whatever reason.
LEMMA ReturnKeepsSearchInv ==
    ASSUME SearchInv, NEW w \in Worker,
           Unwind(w) \/ NoticeCancel(w) \/ RefuseNode(w)
    PROVE  SearchInv'
<1>1. /\ pc[w] \in Busy /\ pc' = [pc EXCEPT ![w] = "return"]
      /\ stopFlag' \in BOOLEAN /\ (stopFlag => stopFlag')
      /\ UNCHANGED <<main, next, partials, job, cursor, nodes, ctxDone, charged,
                     stageCharged, spent, seen, afterStop, afterCancel>>
  BY DEF Unwind, NoticeCancel, RefuseNode, GoTo, Busy, SearchInv, TypeOK,
         dispatch, walk, ledgerVars, ghosts
<1>2. TypeOK'
  BY <1>1 DEF SearchInv, TypeOK
<1>3. RootReady' /\ OwnRoots'
  BY <1>1 DEF SearchInv, RootReady, OwnRoots
<1>4. Placed'
  BY <1>1 DEF SearchInv, Placed, Busy, AtNode, TypeOK
<1>5. Behind'
  BY <1>1 DEF SearchInv, Behind, TypeOK
<1>6. OneInHand'
  BY <1>1 DEF SearchInv, OneInHand, TypeOK
<1>. QED  BY <1>2, <1>3, <1>4, <1>5, <1>6 DEF SearchInv

\* A worker that goes on at the same node.
LEMMA AdvanceKeepsSearchInv ==
    ASSUME SearchInv, NEW w \in Worker, Enter(w) \/ PassChecks(w)
    PROVE  SearchInv'
<1>1. /\ pc[w] \in {"enter", "context"} /\ AtNode(w)
      /\ pc[w] = "enter" => ~stopFlag
      /\ \E place \in {"context", "charge"} : pc' = [pc EXCEPT ![w] = place]
      /\ UNCHANGED <<main, next, partials, job, cursor, nodes, ctxDone, charged,
                     stageCharged, spent, seen, afterStop, afterCancel,
                     stopFlag>>
  BY DEF Enter, PassChecks, GoTo, SearchInv, Placed, dispatch, walk, ledgerVars,
         ghosts
<1>2. TypeOK'
  BY <1>1 DEF SearchInv, TypeOK
<1>3. RootReady' /\ OwnRoots'
  BY <1>1 DEF SearchInv, RootReady, OwnRoots
<1>4. Placed'
  BY <1>1 DEF SearchInv, Placed, Busy, AtNode, TypeOK
<1>5. Behind'
  BY <1>1 DEF SearchInv, Behind, TypeOK
<1>6. OneInHand'
  BY <1>1 DEF SearchInv, OneInHand, TypeOK
<1>. QED  BY <1>2, <1>3, <1>4, <1>5, <1>6 DEF SearchInv

\* A worker that goes to its next node.
LEMMA NextNodeKeepsSearchInv ==
    ASSUME SearchInv, NEW w \in Worker, ExhaustBudget(w) \/ Explore(w)
    PROVE  SearchInv'
<1>1. /\ pc[w] \in {"context", "counted"} /\ AtNode(w)
      /\ pc' = [pc EXCEPT ![w] = "enter"]
      /\ cursor' = [cursor EXCEPT ![w] = @ + 1]
      /\ UNCHANGED <<main, next, partials, job, nodes, ctxDone, charged,
                     stageCharged, spent, afterStop, afterCancel>>
  BY DEF ExhaustBudget, Explore, GoTo, SearchInv, Placed, dispatch, walk,
         ledgerVars, ghosts
<1>2. stopFlag' \in BOOLEAN /\ (stopFlag => stopFlag')
  BY DEF ExhaustBudget, Explore, SearchInv, TypeOK
<1>3. seen' \subseteq Nat
  <2>1. job[w] \in Task /\ cursor[w] \in 1..TreeSize[job[w]]
    BY <1>1, SearchAssumption
    DEF SearchInv, TypeOK, AtNode, SearchAssumption
  <2>2. Rank[job[w]][cursor[w]] \in Nat
    BY <2>1, SearchAssumption DEF SearchAssumption
  <2>. QED  BY <2>2 DEF ExhaustBudget, Explore, SearchInv, TypeOK, ghosts
<1>4. TypeOK'
  BY <1>1, <1>2, <1>3 DEF SearchInv, TypeOK
<1>5. RootReady' /\ OwnRoots'
  BY <1>1 DEF SearchInv, RootReady, OwnRoots
<1>6. Placed'
  BY <1>1 DEF SearchInv, Placed, Busy, AtNode, TypeOK
<1>7. Behind'
  BY <1>1 DEF SearchInv, Behind, TypeOK
<1>8. OneInHand'
  BY <1>1, <1>2 DEF SearchInv, OneInHand, TypeOK
<1>. QED  BY <1>4, <1>5, <1>6, <1>7, <1>8 DEF SearchInv

\* A worker that is done with its root, or with the search.
LEMMA EndKeepsSearchInv ==
    ASSUME SearchInv, NEW w \in Worker, Deliver(w) \/ Leave(w)
    PROVE  SearchInv'
<1>1. /\ \E place \in {"idle", "exit"} : pc' = [pc EXCEPT ![w] = place]
      /\ UNCHANGED <<main, next, job, cursor, nodes, ctxDone, charged, stopFlag,
                     stageCharged, spent, seen, afterStop, afterCancel>>
  BY DEF Deliver, Leave, GoTo, dispatch, walk, ledgerVars, ghosts
<1>2. DOMAIN partials' \subseteq Task
  <2>1. CASE Deliver(w)
    <3>1. job[w] \in Task
      BY <2>1 DEF Deliver, SearchInv, Placed, Busy
    <3>2. DOMAIN partials' = DOMAIN partials \cup {job[w]}
      BY <2>1 DEF Deliver
    <3>. QED  BY <3>1, <3>2 DEF SearchInv, TypeOK
  <2>2. CASE Leave(w)
    BY <2>2 DEF Leave, SearchInv, TypeOK, dispatch
  <2>. QED  BY <2>1, <2>2
<1>3. TypeOK'
  BY <1>1, <1>2 DEF SearchInv, TypeOK
<1>4. RootReady' /\ OwnRoots'
  BY <1>1 DEF SearchInv, RootReady, OwnRoots
<1>5. Placed'
  BY <1>1 DEF SearchInv, Placed, Busy, AtNode, TypeOK
<1>6. Behind'
  BY <1>1 DEF SearchInv, Behind, TypeOK
<1>7. OneInHand'
  BY <1>1 DEF SearchInv, OneInHand, TypeOK
<1>. QED  BY <1>3, <1>4, <1>5, <1>6, <1>7 DEF SearchInv

LEMMA NextKeepsSearchInv == SearchInv /\ [Next]_vars => SearchInv'
<1>. SUFFICES ASSUME SearchInv, [Next]_vars PROVE SearchInv'
  OBVIOUS
<1>1. CASE MainStep
  BY <1>1, MainKeepsSearchInv
<1>2. ASSUME NEW w \in Worker, Receive(w) PROVE SearchInv'
  BY <1>2, ReceiveKeepsSearchInv
<1>3. ASSUME NEW w \in Worker, WorkerStep(w) PROVE SearchInv'
  BY <1>3, ChargeKeepsSearchInv, ReturnKeepsSearchInv, AdvanceKeepsSearchInv,
     NextNodeKeepsSearchInv, EndKeepsSearchInv DEF WorkerStep
<1>4. CASE Cancel
  BY <1>4 DEF Cancel, SearchInv, TypeOK, RootReady, Placed, OwnRoots, Behind,
              OneInHand, AtNode, dispatch, walk, ledgerVars, ghosts
<1>5. CASE UNCHANGED vars
  BY <1>5 DEF SearchInv, TypeOK, RootReady, Placed, OwnRoots, Behind,
              OneInHand, AtNode, vars, dispatch, walk, ledgerVars, ghosts
<1>. QED  BY <1>1, <1>2, <1>3, <1>4, <1>5 DEF Next, Finished
-----------------------------------------------------------------------------
\* The inductive invariant of the parallel search.
THEOREM SearchInvariant == Spec => []SearchInv
BY InitSearchInv, NextKeepsSearchInv, PTL DEF Spec

\* After the stop flag is up a worker charges at most the node it had in hand,
\* however many workers there are and whatever is dispatched (solver.go, visit).
THEOREM StopIsPrompt == Spec => []StopBoundsExtraWork
<1>1. SearchInv => StopBoundsExtraWork
  BY DEF SearchInv, OneInHand, StopBoundsExtraWork
<1>. QED  BY SearchInvariant, <1>1, PTL

\* Every visit is one grant of the ledger for a node granted to nobody before:
\* the pool is an implementation of the ledger's normal lane.
THEOREM PoolChargesOnce == Spec => ChargesOnce
<1>1. ASSUME SearchInv, NEW w \in Worker, ChargeNode(w)
      PROVE  Ledger!Next
  <2>1. AtNode(w) /\ cursor[w] \in Nat
    BY <1>1 DEF SearchInv, Placed, ChargeNode, TypeOK
  <2>2. <<job[w], cursor[w]>> \in AllNodes
    BY <1>1, <2>1, CursorIsNode DEF SearchInv
  <2>3. <<job[w], cursor[w]>> \notin spent
    BY <1>1, <2>1 DEF SearchInv, Behind, ChargeNode, TypeOK
  <2>4. Ledger!Grant(<<job[w], cursor[w]>>)
    BY <1>1, <2>2, <2>3 DEF Ledger!Grant, ChargeNode, Ledger!diagnostic
  <2>. QED  BY <2>2, <2>4 DEF Ledger!Next
<1>2. SearchInv /\ [Next]_vars => [Ledger!Next]_ledgerVars
  <2>. SUFFICES ASSUME SearchInv, [Next]_vars,
                       ~ \E w \in Worker : ChargeNode(w)
                PROVE  UNCHANGED ledgerVars
    BY <1>1
  <2>. QED
    BY DEF Next, MainStep, CheckStop, CheckContext, StopDispatch, Collect,
           Receive, WorkerStep, Unwind, Enter, NoticeCancel, ExhaustBudget,
           PassChecks, RefuseNode, Explore, Deliver, Leave, Cancel, Finished,
           vars
<1>. QED  BY SearchInvariant, <1>2, PTL DEF Spec, ChargesOnce
-----------------------------------------------------------------------------
(***************************************************************************)
(* Cancellation.  A worker counts its root's nodes, and looks at the       *)
(* context whenever the count is a multiple of CheckEvery: what it has     *)
(* charged since the cancellation is therefore no more than the count's    *)
(* remainder, and a whole interval only where it is about to look.         *)
(***************************************************************************)
CancelPaced ==
    \A w \in Worker :
        /\ ~ctxDone => afterCancel[w] = 0
        /\ afterCancel[w] <= IF nodes[w] % CheckEvery = 0 /\ pc[w] # "charge"
                             THEN CheckEvery ELSE nodes[w] % CheckEvery

\* The remainders of the counts are remainders.
LEMMA Remainders ==
    ASSUME TypeOK
    PROVE  /\ CheckEvery \in Nat \ {0} /\ CheckEvery % CheckEvery = 0
           /\ 0 % CheckEvery = 0
           /\ \A w \in Worker : nodes[w] % CheckEvery \in 0..(CheckEvery - 1)
           /\ \A w \in Worker : afterCancel[w] \in Nat
<1>1. CheckEvery \in Nat \ {0}
  BY SearchAssumption DEF SearchAssumption
<1>2. \A n \in Nat : n % CheckEvery \in 0..(CheckEvery - 1)
  BY <1>1, Division
<1>3. 0 % CheckEvery = 0 /\ CheckEvery % CheckEvery = 0
  <2>1. 0 = (CheckEvery * (0 \div CheckEvery)) + (0 % CheckEvery)
        /\ 0 \div CheckEvery \in Int /\ 0 % CheckEvery \in 0..(CheckEvery - 1)
    BY <1>1, Division
  <2>2. CheckEvery = (CheckEvery * (CheckEvery \div CheckEvery))
                     + (CheckEvery % CheckEvery)
        /\ CheckEvery \div CheckEvery \in Int
        /\ CheckEvery % CheckEvery \in 0..(CheckEvery - 1)
    BY <1>1, Division
  <2>3. /\ 0 \in 0..(CheckEvery - 1)
        /\ (CheckEvery * 0) + 0 = 0
        /\ (CheckEvery * 1) + 0 = CheckEvery
    BY <1>1
  <2>4. 0 % CheckEvery = 0
    BY <1>1, <2>1, <2>3, DivisionUnique
  <2>5. CheckEvery % CheckEvery = 0
    BY <1>1, <2>2, <2>3, DivisionUnique
  <2>. QED  BY <2>4, <2>5
<1>. QED  BY <1>1, <1>2, <1>3 DEF TypeOK

LEMMA InitCancelPaced == Init => CancelPaced
<1>. SUFFICES ASSUME Init PROVE CancelPaced
  OBVIOUS
<1>1. TypeOK
  BY InitSearchInv DEF SearchInv
<1>2. \A w \in Worker : afterCancel[w] = 0 /\ nodes[w] = 0
  BY DEF Init
<1>3. \A w \in Worker : afterCancel[w] <= nodes[w] % CheckEvery
  BY <1>1, <1>2, Remainders
<1>4. CheckEvery \in Nat \ {0}
  BY SearchAssumption DEF SearchAssumption
<1>. QED  BY <1>2, <1>3, <1>4 DEF CancelPaced

LEMMA NextCancelPaced == SearchInv /\ CancelPaced /\ [Next]_vars => CancelPaced'
<1>. SUFFICES ASSUME SearchInv, CancelPaced, [Next]_vars
              PROVE  CancelPaced'
  OBVIOUS
<1>0. TypeOK
  BY DEF SearchInv
<1>1. CASE MainStep \/ Cancel \/ UNCHANGED vars
  <2>1. /\ UNCHANGED <<pc, nodes, afterCancel>>
        /\ ctxDone => ctxDone'
    BY <1>1 DEF MainStep, CheckStop, CheckContext, StopDispatch, Collect,
                Cancel, vars, walk, ghosts
  <2>. QED  BY <2>1, <1>0, Remainders DEF CancelPaced
<1>2. ASSUME NEW w \in Worker, Receive(w) PROVE CancelPaced'
  <2>1. /\ pc' = [pc EXCEPT ![w] = "enter"]
        /\ nodes' = [nodes EXCEPT ![w] = 0]
        /\ UNCHANGED <<ctxDone, afterCancel>>
    BY <1>2 DEF Receive, ghosts
  <2>2. afterCancel[w] <= CheckEvery
    BY <1>0, Remainders DEF CancelPaced
  <2>. QED  BY <2>1, <2>2, <1>0, Remainders DEF CancelPaced, TypeOK
<1>3. ASSUME NEW w \in Worker, PassChecks(w) PROVE CancelPaced'
  <2>1. /\ pc' = [pc EXCEPT ![w] = "charge"]
        /\ nodes[w] % CheckEvery = 0 => ~ctxDone
        /\ UNCHANGED <<nodes, ctxDone, afterCancel>>
    BY <1>3 DEF PassChecks, SeesCancel, GoTo, walk, ghosts
  <2>. QED  BY <2>1, <1>0, Remainders DEF CancelPaced, TypeOK
<1>4. ASSUME NEW w \in Worker, ChargeNode(w) PROVE CancelPaced'
  <2>1. /\ pc[w] = "charge" /\ pc' = [pc EXCEPT ![w] = "counted"]
        /\ nodes' = [nodes EXCEPT ![w] = @ + 1]
        /\ afterCancel' = [afterCancel EXCEPT ![w] =
                              @ + IF ctxDone THEN 1 ELSE 0]
        /\ UNCHANGED ctxDone
    BY <1>4 DEF ChargeNode, GoTo
  <2>2. (nodes[w] + 1) % CheckEvery =
            IF nodes[w] % CheckEvery = CheckEvery - 1 THEN 0
            ELSE (nodes[w] % CheckEvery) + 1
    BY <1>0, Remainders, NextRemainder DEF TypeOK
  <2>3. afterCancel'[w] <= (nodes[w] % CheckEvery) + 1
        /\ (~ctxDone => afterCancel'[w] = 0)
    BY <2>1, <1>0, Remainders DEF CancelPaced, TypeOK
  <2>4. nodes'[w] = nodes[w] + 1 /\ pc'[w] = "counted"
    BY <2>1, <1>0 DEF TypeOK
  <2>5. \A v \in Worker \ {w} : /\ nodes'[v] = nodes[v] /\ pc'[v] = pc[v]
                                /\ afterCancel'[v] = afterCancel[v]
    BY <2>1, <1>0 DEF TypeOK
  <2>6. afterCancel'[w] <= IF nodes'[w] % CheckEvery = 0 /\ pc'[w] # "charge"
                           THEN CheckEvery ELSE nodes'[w] % CheckEvery
    BY <2>2, <2>3, <2>4, <1>0, Remainders
  <2>. QED  BY <2>1, <2>3, <2>5, <2>6 DEF CancelPaced
<1>5. ASSUME NEW w \in Worker,
             \/ Unwind(w) \/ Enter(w) \/ NoticeCancel(w) \/ ExhaustBudget(w)
             \/ RefuseNode(w) \/ Explore(w) \/ Deliver(w) \/ Leave(w)
      PROVE  CancelPaced'
  <2>1. \E place \in {"context", "enter", "return", "idle", "exit"} :
            pc' = [pc EXCEPT ![w] = place]
    BY <1>5 DEF Unwind, Enter, NoticeCancel, ExhaustBudget, RefuseNode,
                Explore, Deliver, Leave, GoTo
  <2>2. UNCHANGED <<nodes, ctxDone, afterCancel>>
    BY <1>5 DEF Unwind, Enter, NoticeCancel, ExhaustBudget, RefuseNode,
                Explore, Deliver, Leave, walk, ghosts
  <2>3. pc[w] # "charge" \/ afterCancel[w] <= CheckEvery
    BY <1>0, Remainders DEF CancelPaced
  <2>4. \A v \in Worker : pc'[v] = "charge" => pc[v] = "charge"
    BY <2>1, <1>0 DEF TypeOK
  <2>. QED  BY <2>2, <2>4, <1>0, Remainders DEF CancelPaced
<1>. QED  BY <1>1, <1>2, <1>3, <1>4, <1>5 DEF Next, WorkerStep, Finished

\* A canceled context costs each worker at most one check interval, whichever
\* roots it was handed in between (solver.go, visit and reportNode).
THEOREM CancelIsPrompt == Spec => []CancelBoundsExtraWork
<1>1. SearchInv /\ CancelPaced => CancelBoundsExtraWork
  BY Remainders DEF SearchInv, CancelPaced, CancelBoundsExtraWork
<1>. QED  BY SearchInvariant, InitCancelPaced, NextCancelPaced, <1>1, PTL
          DEF Spec
-----------------------------------------------------------------------------
(***************************************************************************)
(* Lists of ranks.  A sorted list exists for every list: at place n stands *)
(* the least number that n of the list do not exceed.                      *)
(***************************************************************************)
\* A list of ranks has an upper bound.
LEMMA BoundedList ==
    ASSUME NEW list \in Seq(Nat)
    PROVE  \E m \in Nat : \A i \in DOMAIN list : list[i] <= m
<1>. DEFINE n == Len(list)
            T == {k \in 0..n : \E m \in Nat : \A i \in 1..k : list[i] <= m}
<1>1. n \in Nat /\ DOMAIN list = 1..n /\ \A i \in 1..n : list[i] \in Nat
  OBVIOUS
<1>. HIDE DEF n
<1>2. 0 \in T
  BY <1>1
<1>3. ASSUME NEW k \in 0..(n - 1), k \in T
      PROVE  k + 1 \in T
  <2>1. PICK m \in Nat : \A i \in 1..k : list[i] <= m
    BY <1>3
  <2>2. k + 1 \in 1..n /\ list[k + 1] \in Nat
    BY <1>1
  <2>3. \A i \in 1..(k + 1) : list[i] <= m + list[k + 1]
    <3>1. \A i \in 1..(k + 1) : i \in 1..k \/ i = k + 1
      BY <1>1
    <3>2. \A i \in 1..k : list[i] \in Nat
      BY <1>1
    <3>. QED  BY <2>1, <2>2, <3>1, <3>2
  <2>4. m + list[k + 1] \in Nat
    BY <2>2
  <2>. QED  BY <1>1, <2>2, <2>3, <2>4
<1>4. 0..n \subseteq T
  <2>. HIDE DEF T
  <2>. QED  BY <1>1, <1>2, <1>3, InductionUpTo
<1>5. n \in T
  <2>. HIDE DEF T
  <2>. QED  BY <1>1, <1>4
<1>. QED  BY <1>1, <1>5

\* The places of a list, and how many of them hold what.
LEMMA Places ==
    ASSUME NEW list \in Seq(Nat), NEW r
    PROVE  /\ DOMAIN list = 1..Len(list) /\ Len(list) \in Nat
           /\ Cardinality(DOMAIN list) = Len(list)
           /\ \A i \in DOMAIN list : list[i] \in Nat
           /\ IsFiniteSet(Better(list, r)) /\ Cardinality(Better(list, r)) \in Nat
           /\ IsFiniteSet(NoWorse(list, r)) /\ Cardinality(NoWorse(list, r)) \in Nat
<1>1. /\ DOMAIN list = 1..Len(list) /\ Len(list) \in Nat
      /\ \A i \in DOMAIN list : list[i] \in Nat
  OBVIOUS
<1>2. IsFiniteSet(1..Len(list)) /\ Cardinality(1..Len(list)) = Len(list)
  <2>1. 1 \in Int /\ Len(list) \in Int
    BY <1>1
  <2>2. Cardinality(1..Len(list)) =
            IF 1 > Len(list) THEN 0 ELSE Len(list) - 1 + 1
    BY <2>1, FS_Interval
  <2>. QED  BY <1>1, <2>1, <2>2, FS_Interval
<1>3. /\ Better(list, r) \in SUBSET DOMAIN list
      /\ NoWorse(list, r) \in SUBSET DOMAIN list
  BY DEF Better, NoWorse
<1>. QED  BY <1>1, <1>2, <1>3, FS_Subset, FS_CardinalityType

\* At every place of the sorted list there is a rank of the list.
LEMMA PlaceIsTaken ==
    ASSUME NEW list \in Seq(Nat), NEW n \in 1..Len(list)
    PROVE  \E r \in Range(list) : AtPlace(list, n, r)
<1>. DEFINE M == {m \in Nat : n <= Cardinality(NoWorse(list, m))}
<1>1. PICK r \in M : \A m \in M : r <= m
  <2>1. PICK m \in Nat : \A i \in DOMAIN list : list[i] <= m
    BY BoundedList
  <2>2. NoWorse(list, m) = DOMAIN list
    BY <2>1 DEF NoWorse
  <2>3. m \in M
    BY <2>2, Places
  <2>4. M \in SUBSET Nat /\ M # {}
    BY <2>3
  <2>. HIDE DEF M
  <2>. QED  BY <2>4, LeastNatural
<1>2. r \in Nat /\ n <= Cardinality(NoWorse(list, r))
  OBVIOUS
<1>3. Cardinality(Better(list, r)) < n
  <2>1. CASE r = 0
    <3>1. Better(list, r) = {}
      BY <2>1, Places DEF Better
    <3>2. Cardinality(Better(list, r)) = 0
      BY <3>1, FS_EmptySet
    <3>. QED  BY <3>2
  <2>2. CASE r # 0
    <3>1. r - 1 \in Nat /\ r - 1 \notin M
      BY <1>1, <2>2
    <3>2. Better(list, r) = NoWorse(list, r - 1)
      BY <1>2, <2>2, Places DEF Better, NoWorse
    <3>3. Cardinality(NoWorse(list, r - 1)) \in Nat
      BY Places
    <3>. QED  BY <3>1, <3>2, <3>3
  <2>. QED  BY <2>1, <2>2
<1>4. r \in Range(list)
  <2>1. Better(list, r) # NoWorse(list, r)
    BY <1>2, <1>3, Places
  <2>2. PICK i \in DOMAIN list : list[i] <= r /\ ~ (list[i] < r)
    BY <2>1 DEF Better, NoWorse
  <2>3. list[i] = r
    BY <1>2, <2>2, Places
  <2>. QED  BY <2>3 DEF Range
<1>. QED  BY <1>2, <1>3, <1>4 DEF AtPlace

\* What Best returns: as many ranks of the list as asked for, the least first.
LEMMA BestOfList ==
    ASSUME NEW list \in Seq(Nat), NEW size \in 0..Len(list)
    PROVE  /\ Best(list, size) \in Seq(Nat)
           /\ Len(Best(list, size)) = size
           /\ size # 0 => \A i \in DOMAIN list : Best(list, size)[1] <= list[i]
<1>. DEFINE B == Best(list, size)
<1>0. size \in Nat /\ 1..size \subseteq 1..Len(list)
  OBVIOUS
<1>1. B = [n \in 1..size |-> CHOOSE r \in Range(list) : AtPlace(list, n, r)]
  BY DEF Best
<1>2. \A n \in 1..size : B[n] \in Range(list) /\ AtPlace(list, n, B[n])
  <2>. HIDE DEF B
  <2>. TAKE n \in 1..size
  <2>1. \E r \in Range(list) : AtPlace(list, n, r)
    BY <1>0, PlaceIsTaken
  <2>. QED  BY <1>1, <2>1
<1>3. \A n \in 1..size : B[n] \in Nat
  <2>1. Range(list) \subseteq Nat
    BY DEF Range
  <2>. HIDE DEF B
  <2>. QED  BY <1>2, <2>1
<1>4. B \in [1..size -> Nat]
  <2>. HIDE DEF B
  <2>. QED  BY <1>1, <1>3
<1>5. B \in Seq(Nat) /\ Len(B) = size
  <2>. HIDE DEF B
  <2>. QED  BY <1>0, <1>4
<1>6. ASSUME size # 0, NEW i \in DOMAIN list
      PROVE  B[1] <= list[i]
  <2>. HIDE DEF B
  <2>1. 1 \in 1..size
    BY <1>0, <1>6
  <2>2. B[1] \in Nat /\ list[i] \in Nat
    BY <1>3, <2>1
  <2>3. Cardinality(Better(list, B[1])) < 1
    BY <1>2, <2>1 DEF AtPlace
  <2>4. Cardinality(Better(list, B[1])) = 0
    BY <2>3, Places
  <2>5. Better(list, B[1]) = {}
    BY <2>4, Places, FS_EmptySet
  <2>. QED  BY <2>2, <2>5 DEF Better
<1>. QED  BY <1>5, <1>6

\* list holds a rank that is no worse than r.
Covers(list, r) == \E i \in DOMAIN list : list[i] <= r

\* Merging returns a list of ranks, and loses nothing that is not covered.
LEMMA MergeKeeps ==
    ASSUME NEW left \in Seq(Nat), NEW right \in Seq(Nat)
    PROVE  /\ Merge(left, right) \in Seq(Nat)
           /\ \A r \in Nat : Covers(left, r) \/ Covers(right, r)
                             => Covers(Merge(left, right), r)
<1>. DEFINE all == left \o right
            size == IF Len(all) > TopN THEN TopN ELSE Len(all)
<1>1. /\ all \in Seq(Nat) /\ Len(all) = Len(left) + Len(right)
      /\ \A i \in DOMAIN left : i \in DOMAIN all /\ all[i] = left[i]
      /\ \A i \in DOMAIN right : /\ i + Len(left) \in DOMAIN all
                                 /\ all[i + Len(left)] = right[i]
  OBVIOUS
<1>2. Merge(left, right) = Best(all, size)
  BY DEF Merge
<1>. HIDE DEF all
<1>3. size \in 0..Len(all) /\ (Len(all) # 0 => size # 0)
  BY <1>1, SearchAssumption DEF SearchAssumption
<1>. HIDE DEF size
<1>4. Merge(left, right) \in Seq(Nat) /\ Len(Merge(left, right)) = size
  BY <1>1, <1>2, <1>3, BestOfList
<1>5. ASSUME NEW r \in Nat, Covers(left, r) \/ Covers(right, r)
      PROVE  Covers(Merge(left, right), r)
  <2>1. PICK i \in DOMAIN all : all[i] <= r
    BY <1>1, <1>5 DEF Covers
  <2>2. size # 0
    BY <1>1, <1>3, <2>1
  <2>3. Merge(left, right)[1] <= all[i]
    BY <1>1, <1>2, <1>3, <2>2, BestOfList
  <2>4. 1 \in DOMAIN Merge(left, right)
    BY <1>3, <1>4, <2>2
  <2>5. all[i] \in Nat /\ Merge(left, right)[1] \in Nat
    BY <1>1, <1>4, <2>4
  <2>6. Merge(left, right)[1] <= r
    BY <2>1, <2>3, <2>5
  <2>. QED  BY <2>4, <2>6 DEF Covers
<1>. QED  BY <1>4, <1>5

\* The list after a node.
LEMMA KeptKeeps ==
    ASSUME NEW list \in Seq(Nat), NEW rank \in Nat
    PROVE  /\ Kept(list, rank) \in Seq(Nat)
           /\ \A r \in Nat : Covers(list, r) => Covers(Kept(list, rank), r)
           /\ rank # 0 => Covers(Kept(list, rank), rank)
<1>1. <<rank>> \in Seq(Nat) /\ Covers(<<rank>>, rank)
  <2>1. 1 \in DOMAIN <<rank>> /\ <<rank>>[1] <= rank
    OBVIOUS
  <2>. QED  BY <2>1 DEF Covers
<1>2. CASE rank = 0
  BY <1>2 DEF Kept
<1>3. CASE rank # 0
  <2>1. Kept(list, rank) = Merge(list, <<rank>>)
    BY <1>3 DEF Kept, InsertCandidate
  <2>. QED  BY <1>1, <2>1, MergeKeeps
<1>. QED  BY <1>2, <1>3
-----------------------------------------------------------------------------
(* The recursive definitions, as equations.                                *)

Outcome == [solutions : Seq(Nat), explored : Nat, hit : BOOLEAN, ceiled : BOOLEAN]

\* The list after k nodes of a root's tree.
LEMMA FoundStep ==
    ASSUME NEW i \in Task
    PROVE  /\ Found(i) \in [0..TreeSize[i] -> Seq(Nat)]
           /\ Found(i)[0] = Merge(<<>>, Seeds)
           /\ \A k \in 1..TreeSize[i] : Found(i)[k] = Kept(Found(i)[k - 1], Rank[i][k])
<1>. DEFINE n == TreeSize[i]
            start == Merge(<<>>, Seeds)
            g == [p \in Seq(Nat) \X (1..n) |-> Kept(p[1], Rank[i][p[2]])]
            Eq(f) == f = [k \in 0..n |-> IF k = 0 THEN start ELSE Kept(f[k - 1], Rank[i][k])]
            F == CHOOSE f : Eq(f)
<1>1. /\ n \in Nat /\ \A k \in 1..n : Rank[i][k] \in Nat
      /\ start \in Seq(Nat)
  <2>1. <<>> \in Seq(Nat) /\ Seeds \in Seq(Nat)
    BY SearchAssumption DEF SearchAssumption
  <2>. QED  BY <2>1, SearchAssumption, MergeKeeps DEF SearchAssumption
<1>2. g \in [Seq(Nat) \X (1..n) -> Seq(Nat)]
  <2>1. \A p \in Seq(Nat) \X (1..n) : Kept(p[1], Rank[i][p[2]]) \in Seq(Nat)
    <3>. HIDE DEF n
    <3>. TAKE p \in Seq(Nat) \X (1..n)
    <3>1. p[1] \in Seq(Nat) /\ p[2] \in 1..n
      OBVIOUS
    <3>. QED  BY <1>1, <3>1, KeptKeeps
  <2>. QED  BY <2>1
<1>. HIDE DEF n, start
<1>3. \A x \in Seq(Nat), k \in 1..n : g[<<x, k>>] = Kept(x, Rank[i][k])
  OBVIOUS
<1>. HIDE DEF g
<1>4. PICK f : Recursion(f, n, Seq(Nat), start, g)
  BY <1>1, <1>2, RecursionDefined
<1>5. Eq(f)
  <2>1. /\ f \in [0..n -> Seq(Nat)] /\ f[0] = start
        /\ \A k \in 1..n : f[k] = g[<<f[k - 1], k>>]
    BY <1>4 DEF Recursion
  <2>2. \A k \in 0..n : k = 0 \/ (k \in 1..n /\ k - 1 \in 0..n)
    BY <1>1
  <2>3. \A k \in 1..n : f[k] = Kept(f[k - 1], Rank[i][k])
    <3>. TAKE k \in 1..n
    <3>1. k - 1 \in 0..n
      BY <1>1
    <3>2. f[k - 1] \in Seq(Nat)
      BY <2>1, <3>1
    <3>. QED  BY <1>3, <2>1, <3>2
  <2>. QED  BY <2>1, <2>2, <2>3
<1>6. Found(i) = F
  BY DEF Found, n, start
<1>7. Eq(F)
  <2>. HIDE DEF Eq
  <2>. QED  BY <1>5
<1>. HIDE DEF F
<1>8. /\ F = [k \in 0..n |-> F[k]] /\ F[0] = start
      /\ \A k \in 1..n : F[k] = Kept(F[k - 1], Rank[i][k])
  BY <1>1, <1>7
<1>9. Recursion(F, n, Seq(Nat), start, g)
  <2>1. \A k \in 1..n : F[k - 1] \in Seq(Nat) => F[k] = g[<<F[k - 1], k>>]
    BY <1>3, <1>8
  <2>. QED  BY <1>1, <1>2, <1>8, <2>1, RecursionHolds
<1>. QED  BY <1>6, <1>8, <1>9 DEF Recursion, n, start

LEMMA PlusType ==
    ASSUME NEW a \in Outcome, NEW b \in Outcome
    PROVE  /\ Plus(a, b) \in Outcome
           /\ Plus(a, b).explored = a.explored + b.explored
           /\ a.hit \/ b.hit => Plus(a, b).hit
           /\ a.ceiled \/ b.ceiled => Plus(a, b).ceiled
           /\ \A r \in Nat : Covers(a.solutions, r) \/ Covers(b.solutions, r)
                             => Covers(Plus(a, b).solutions, r)
<1>1. /\ Plus(a, b).solutions = Merge(a.solutions, b.solutions)
      /\ Plus(a, b).explored = a.explored + b.explored
      /\ Plus(a, b) = [solutions |-> Merge(a.solutions, b.solutions),
                       explored |-> a.explored + b.explored,
                       hit |-> a.hit \/ b.hit,
                       ceiled |-> a.ceiled \/ b.ceiled]
  BY DEF Plus
<1>2. a.solutions \in Seq(Nat) /\ b.solutions \in Seq(Nat)
      /\ a.explored \in Nat /\ b.explored \in Nat
  BY DEF Outcome
<1>3. Merge(a.solutions, b.solutions) \in Seq(Nat)
  BY <1>2, MergeKeeps
<1>4. (a.hit \/ b.hit) \in BOOLEAN /\ (a.ceiled \/ b.ceiled) \in BOOLEAN
  OBVIOUS
<1>5. Plus(a, b) \in Outcome
  BY <1>1, <1>2, <1>3, <1>4 DEF Outcome
<1>6. /\ Plus(a, b).hit = (a.hit \/ b.hit)
      /\ Plus(a, b).ceiled = (a.ceiled \/ b.ceiled)
  BY DEF Plus
<1>7. ASSUME NEW r \in Nat, Covers(a.solutions, r) \/ Covers(b.solutions, r)
      PROVE  Covers(Plus(a, b).solutions, r)
  BY <1>1, <1>2, <1>7, MergeKeeps
<1>. QED  BY <1>1, <1>5, <1>6, <1>7, Zenon

\* What the merge loop has combined after the first k roots.
LEMMA MergedStep ==
    ASSUME NEW parts, parts \in [DOMAIN parts -> Outcome]
    PROVE  /\ Merged(parts) \in [0..NTasks -> Outcome]
           /\ Merged(parts)[0] = NoResult
           /\ \A k \in 1..NTasks :
                 Merged(parts)[k] = IF k \in DOMAIN parts
                                    THEN Plus(Merged(parts)[k - 1], parts[k])
                                    ELSE Merged(parts)[k - 1]
<1>. DEFINE n == NTasks
            Go(x, k) == IF k \in DOMAIN parts THEN Plus(x, parts[k]) ELSE x
            g == [p \in Outcome \X (1..n) |-> Go(p[1], p[2])]
            Eq(f) == f = [k \in 0..n |-> IF k = 0 THEN NoResult
                                         ELSE IF k \in DOMAIN parts THEN Plus(f[k - 1], parts[k])
                                         ELSE f[k - 1]]
            F == CHOOSE f : Eq(f)
<1>1. n \in Nat /\ NoResult \in Outcome
  BY SearchAssumption DEF SearchAssumption, NoResult, Outcome
<1>. HIDE DEF n
<1>2. g \in [Outcome \X (1..n) -> Outcome]
  <2>1. \A x \in Outcome, k \in 1..n : Go(x, k) \in Outcome
    BY PlusType
  <2>. HIDE DEF Go
  <2>. QED  BY <2>1
<1>3. \A x \in Outcome, k \in 1..n : g[<<x, k>>] = Go(x, k)
  <2>. HIDE DEF Go
  <2>. QED  OBVIOUS
<1>. HIDE DEF g
<1>4. PICK f : Recursion(f, n, Outcome, NoResult, g)
  BY <1>1, <1>2, RecursionDefined
<1>5. Eq(f)
  <2>1. /\ f \in [0..n -> Outcome] /\ f[0] = NoResult
        /\ \A k \in 1..n : f[k] = g[<<f[k - 1], k>>]
    BY <1>4 DEF Recursion
  <2>2. \A k \in 0..n : k = 0 \/ (k \in 1..n /\ k - 1 \in 0..n)
    BY <1>1
  <2>3. \A k \in 1..n : f[k] = Go(f[k - 1], k)
    <3>. HIDE DEF Go
    <3>. TAKE k \in 1..n
    <3>1. k - 1 \in 0..n
      BY <1>1
    <3>2. f[k - 1] \in Outcome
      BY <2>1, <3>1
    <3>. QED  BY <1>3, <2>1, <3>2
  <2>. QED  BY <2>1, <2>2, <2>3
<1>6. Merged(parts) = F
  BY DEF Merged, n
<1>7. Eq(F)
  <2>. HIDE DEF Eq
  <2>. QED  BY <1>5
<1>. HIDE DEF F
<1>8. /\ F = [k \in 0..n |-> F[k]] /\ F[0] = NoResult
      /\ \A k \in 1..n : F[k] = Go(F[k - 1], k)
  BY <1>1, <1>7
<1>9. Recursion(F, n, Outcome, NoResult, g)
  <2>1. \A k \in 1..n : F[k - 1] \in Outcome => F[k] = g[<<F[k - 1], k>>]
    <3>. HIDE DEF Go
    <3>. QED  BY <1>3, <1>8
  <2>. HIDE DEF Go
  <2>. QED  BY <1>1, <1>2, <1>8, <2>1, RecursionHolds
<1>. QED  BY <1>6, <1>8, <1>9 DEF Recursion, n
-----------------------------------------------------------------------------
(***************************************************************************)
(* The way of a result.  A root handed over is with one busy worker until  *)
(* its result is among the partials, where nothing replaces it (Delivered);*)
(* what a worker and a partial result count are the ledger's grants for    *)
(* that root (Accounts); and whatever was ever found is covered by a list  *)
(* still on its way (Survives).                                            *)
(***************************************************************************)
ResultsTyped ==
    /\ setting \in Setting
    /\ results \in [Worker -> Seq(Nat)]
    /\ hit \in [Worker -> BOOLEAN] /\ ceiled \in [Worker -> BOOLEAN]
    /\ partials \in [DOMAIN partials -> Outcome]

Delivered ==
    /\ \A i \in DOMAIN partials : i < next
    /\ \A w \in Worker : pc[w] \in Busy => job[w] \notin DOMAIN partials
    /\ \A i \in Task : i < next =>
          i \in DOMAIN partials \/ \E w \in Worker : pc[w] \in Busy /\ job[w] = i
    /\ main = "done" => /\ \A w \in Worker : pc[w] = "exit"
                        /\ combined = MergeInRootOrder(partials)
    /\ main \in {"closed", "done"} => next > NTasks \/ stopFlag

\* The grants for a root; 0 stands for the phases before.
GrantsIn(charges, i) == {n \in charges : n[1] = i}

Accounts ==
    /\ IsFiniteSet(spent) /\ charged = Cardinality(spent)
    /\ GrantsIn(spent, 0) = Earlier
    /\ \A w \in Worker : pc[w] \in Busy => nodes[w] = Cardinality(GrantsIn(spent, job[w]))
    /\ \A i \in DOMAIN partials : partials[i].explored = Cardinality(GrantsIn(spent, i))

Survives ==
    \A r \in seen :
        \/ \E w \in Worker : pc[w] \in Busy /\ Covers(results[w], r)
        \/ \E i \in DOMAIN partials : Covers(partials[i].solutions, r)

\* While nothing has stopped the search, a worker has what a lone walk of its
\* root would have at the same node, and a partial result is a lone result.
LoneWalk(w) ==
    LET affordable == Affordable(setting, job[w])
        visited    == IF pc[w] = "counted" THEN cursor[w] ELSE cursor[w] - 1
    IN  /\ nodes[w] = IF visited < affordable THEN visited ELSE affordable
        /\ results[w] = Found(job[w])[IF cursor[w] - 1 < affordable
                                      THEN cursor[w] - 1 ELSE affordable]
        /\ hit[w] <=> cursor[w] - 1 > affordable
        /\ ~ceiled[w]
        /\ cursor[w] <= TreeSize[job[w]] + 1
        /\ pc[w] \in {"charge", "counted"} => cursor[w] <= affordable
        /\ pc[w] = "return" => cursor[w] = TreeSize[job[w]] + 1

Undisturbed ==
    ~stopFlag =>
        /\ \A w \in Worker : pc[w] \in Busy => LoneWalk(w)
        /\ \A i \in DOMAIN partials : partials[i] = Alone(setting, i)

\* What stopped the search has left a trace: in the context, in the ledger, or
\* in a result that is or will be among the partials.
StopExplained ==
    stopFlag =>
        \/ ctxDone \/ refused
        \/ \E w \in Worker : pc[w] \in Busy /\ ceiled[w]
        \/ \E i \in DOMAIN partials : partials[i].ceiled
-----------------------------------------------------------------------------
\* What the steps of a worker do to everything but the counters.
LEMMA WorkerEffects ==
    ASSUME SearchInv, NEW w \in Worker,
           \/ Unwind(w) \/ Enter(w) \/ NoticeCancel(w) \/ ExhaustBudget(w)
           \/ PassChecks(w) \/ ChargeNode(w) \/ RefuseNode(w) \/ Explore(w)
    PROVE  /\ pc[w] \in Busy /\ \E place \in Busy : pc' = [pc EXCEPT ![w] = place]
           /\ stopFlag => stopFlag'
           /\ UNCHANGED <<main, next, partials, combined, job>>
BY DEF Unwind, Enter, NoticeCancel, ExhaustBudget, PassChecks, ChargeNode,
       RefuseNode, Explore, GoTo, Busy, dispatch, walk

LEMMA InitDelivered == Init => ResultsTyped /\ Delivered
<1>. SUFFICES ASSUME Init PROVE ResultsTyped /\ Delivered
  OBVIOUS
<1>1. setting \in Setting
  BY SearchAssumption DEF Init, SearchAssumption
<1>2. results \in [Worker -> Seq(Nat)] /\ DOMAIN partials = {}
      /\ partials \in [DOMAIN partials -> Outcome]
  BY DEF Init
<1>3. hit \in [Worker -> BOOLEAN] /\ ceiled \in [Worker -> BOOLEAN]
  BY DEF Init
<1>4. ResultsTyped
  BY <1>1, <1>2, <1>3 DEF ResultsTyped
<1>5. \A w \in Worker : pc[w] \notin Busy
  BY DEF Init, Busy
<1>6. main = "check" /\ next = 1
  BY DEF Init
<1>7. \A i \in Task : ~ (i < 1)
  BY DEF Task
<1>8. Delivered
  BY <1>2, <1>5, <1>6, <1>7 DEF Delivered
<1>. QED  BY <1>4, <1>8

LEMMA NextResultsTyped ==
    ASSUME SearchInv, ResultsTyped, [Next]_vars
    PROVE  ResultsTyped'
<1>0. setting' = setting
  BY DEF Next, Finished, vars
<1>1. CASE MainStep \/ Cancel \/ UNCHANGED vars
  <2>1. UNCHANGED <<results, hit, ceiled, partials>>
    BY <1>1 DEF MainStep, CheckStop, CheckContext, StopDispatch, Collect,
                Cancel, vars, dispatch, walk
  <2>. QED  BY <1>0, <2>1 DEF ResultsTyped
<1>2. ASSUME NEW w \in Worker, Receive(w) PROVE ResultsTyped'
  <2>1. /\ results' = [results EXCEPT ![w] = Merge(<<>>, Seeds)]
        /\ hit' = [hit EXCEPT ![w] = FALSE]
        /\ ceiled' = [ceiled EXCEPT ![w] = FALSE] /\ partials' = partials
    BY <1>2 DEF Receive
  <2>2. Merge(<<>>, Seeds) \in Seq(Nat)
    <3>1. <<>> \in Seq(Nat) /\ Seeds \in Seq(Nat)
      BY SearchAssumption DEF SearchAssumption
    <3>. QED  BY <3>1, MergeKeeps
  <2>3. results' \in [Worker -> Seq(Nat)]
    BY <2>1, <2>2 DEF ResultsTyped
  <2>4. hit' \in [Worker -> BOOLEAN] /\ ceiled' \in [Worker -> BOOLEAN]
    BY <2>1 DEF ResultsTyped
  <2>. QED  BY <1>0, <2>1, <2>3, <2>4 DEF ResultsTyped
<1>3. ASSUME NEW w \in Worker, Explore(w) PROVE ResultsTyped'
  <2>1. /\ results' = [results EXCEPT ![w] = Kept(results[w], Rank[job[w]][cursor[w]])]
        /\ hit' = hit /\ partials' = partials /\ pc[w] = "counted"
    BY <1>3 DEF Explore, dispatch
  <2>2. job[w] \in Task /\ cursor[w] \in 1..TreeSize[job[w]]
    BY <2>1, SearchAssumption
    DEF SearchInv, Placed, AtNode, TypeOK, SearchAssumption
  <2>3. Rank[job[w]][cursor[w]] \in Nat
    BY <2>2, SearchAssumption DEF SearchAssumption
  <2>4. Kept(results[w], Rank[job[w]][cursor[w]]) \in Seq(Nat)
    BY <2>3, KeptKeeps DEF ResultsTyped
  <2>5. results' \in [Worker -> Seq(Nat)]
    BY <2>1, <2>4 DEF ResultsTyped
  <2>6. ceiled' \in [Worker -> BOOLEAN]
    <3>1. PICK top \in BOOLEAN : ceiled' = [ceiled EXCEPT ![w] = @ \/ top]
      BY <1>3 DEF Explore
    <3>. QED  BY <3>1 DEF ResultsTyped
  <2>. QED  BY <1>0, <2>1, <2>5, <2>6 DEF ResultsTyped
<1>4. ASSUME NEW w \in Worker, Deliver(w) PROVE ResultsTyped'
  <2>1. /\ partials' = [i \in DOMAIN partials \cup {job[w]} |->
                           IF i = job[w] THEN Result(w) ELSE partials[i]]
        /\ UNCHANGED <<results, hit, ceiled>>
    BY <1>4 DEF Deliver, walk
  <2>2. Result(w) \in Outcome
    <3>1. /\ results[w] \in Seq(Nat) /\ nodes[w] \in Nat
          /\ hit[w] \in BOOLEAN /\ ceiled[w] \in BOOLEAN
      BY DEF ResultsTyped, SearchInv, TypeOK
    <3>. QED  BY <3>1 DEF Result, Outcome
  <2>3. \A i \in DOMAIN partials : partials[i] \in Outcome
    BY DEF ResultsTyped
  <2>4. partials' \in [DOMAIN partials' -> Outcome]
    BY <2>1, <2>2, <2>3
  <2>. QED  BY <1>0, <2>1, <2>4 DEF ResultsTyped
<1>5. ASSUME NEW w \in Worker, ExhaustBudget(w) PROVE ResultsTyped'
  <2>1. /\ hit' = [hit EXCEPT ![w] = TRUE]
        /\ UNCHANGED <<results, ceiled, partials>>
    BY <1>5 DEF ExhaustBudget, dispatch
  <2>2. hit' \in [Worker -> BOOLEAN]
    BY <2>1 DEF ResultsTyped
  <2>. QED  BY <1>0, <2>1, <2>2 DEF ResultsTyped
<1>6. ASSUME NEW w \in Worker,
             \/ Unwind(w) \/ Enter(w) \/ NoticeCancel(w) \/ PassChecks(w)
             \/ ChargeNode(w) \/ RefuseNode(w) \/ Leave(w)
      PROVE  ResultsTyped'
  <2>1. UNCHANGED <<results, hit, ceiled, partials>>
    BY <1>6 DEF Unwind, Enter, NoticeCancel, PassChecks, ChargeNode,
                RefuseNode, Leave, dispatch, walk
  <2>. QED  BY <1>0, <2>1 DEF ResultsTyped
<1>. QED  BY <1>1, <1>2, <1>3, <1>4, <1>5, <1>6 DEF Next, WorkerStep, Finished

LEMMA NextDelivered ==
    ASSUME SearchInv, Delivered, [Next]_vars
    PROVE  Delivered'
<1>. DEFINE With(i) == \E v \in Worker : pc[v] \in Busy /\ job[v] = i
<1>0. /\ NTasks \in Nat /\ next \in 1..(NTasks + 1)
      /\ \A w \in Worker : job[w] \in 0..NTasks
  BY SearchAssumption DEF SearchAssumption, SearchInv, TypeOK
<1>1. CASE MainStep \/ Cancel \/ UNCHANGED vars
  <2>1. UNCHANGED <<next, pc, job, partials>>
    BY <1>1 DEF MainStep, CheckStop, CheckContext, StopDispatch, Collect,
                Cancel, vars, dispatch, walk
  <2>2. main' = "done" => /\ \A w \in Worker : pc'[w] = "exit"
                          /\ combined' = MergeInRootOrder(partials')
    BY <1>1, <2>1 DEF MainStep, CheckStop, CheckContext, StopDispatch, Collect,
                PoolGone, Cancel, vars, dispatch, Delivered
  <2>3. main' \in {"closed", "done"} => next' > NTasks \/ stopFlag'
    BY <1>1, <2>1 DEF MainStep, CheckStop, CheckContext, StopDispatch, Collect,
                PoolGone, NoRootLeft, Cancel, vars, dispatch, Delivered
  <2>. QED  BY <2>1, <2>2, <2>3 DEF Delivered
<1>2. ASSUME NEW w \in Worker, Receive(w) PROVE Delivered'
  <2>1. /\ pc[w] = "idle" /\ pc' = [pc EXCEPT ![w] = "enter"]
        /\ job' = [job EXCEPT ![w] = next]
        /\ next' = next + 1 /\ main' = "check" /\ partials' = partials
    BY <1>2 DEF Receive, RootSent
  <2>2. /\ pc'[w] \in Busy /\ job'[w] = next
        /\ \A v \in Worker \ {w} : pc'[v] = pc[v] /\ job'[v] = job[v]
    BY <2>1 DEF SearchInv, TypeOK, Busy
  <2>3. \A i \in DOMAIN partials' : i < next'
    <3>1. \A i \in DOMAIN partials : i \in Int /\ i < next
      BY DEF SearchInv, TypeOK, Task, Delivered
    <3>. QED  BY <1>0, <2>1, <3>1
  <2>4. next \notin DOMAIN partials
    BY <1>0 DEF Delivered
  <2>5. \A v \in Worker : pc'[v] \in Busy => job'[v] \notin DOMAIN partials'
    BY <2>1, <2>2, <2>4 DEF Delivered
  <2>6. ASSUME NEW i \in Task, i < next'
        PROVE  i \in DOMAIN partials' \/ \E v \in Worker : pc'[v] \in Busy /\ job'[v] = i
    <3>1. CASE i = next
      BY <2>2, <3>1
    <3>2. CASE i # next
      <4>1. i < next
        BY <1>0, <2>1, <2>6, <3>2 DEF Task
      <4>2. i \in DOMAIN partials \/ With(i)
        BY <4>1 DEF Delivered
      <4>3. ~ (pc[w] \in Busy)
        BY <2>1 DEF Busy
      <4>. QED  BY <2>1, <2>2, <4>2, <4>3
    <3>. QED  BY <3>1, <3>2
  <2>. QED  BY <2>1, <2>3, <2>5, <2>6 DEF Delivered
<1>3. ASSUME NEW w \in Worker,
             \/ Unwind(w) \/ Enter(w) \/ NoticeCancel(w) \/ ExhaustBudget(w)
             \/ PassChecks(w) \/ ChargeNode(w) \/ RefuseNode(w) \/ Explore(w)
      PROVE  Delivered'
  <2>1. PICK place \in Busy : pc' = [pc EXCEPT ![w] = place]
    BY <1>3, WorkerEffects
  <2>2. /\ pc[w] \in Busy /\ (stopFlag => stopFlag')
        /\ UNCHANGED <<main, next, partials, combined, job>>
    BY <1>3, WorkerEffects
  <2>3. \A v \in Worker : pc'[v] \in Busy <=> pc[v] \in Busy
    BY <2>1, <2>2 DEF SearchInv, TypeOK
  <2>4. main # "done"
    BY <2>2 DEF Delivered, Busy
  <2>. QED  BY <2>2, <2>3, <2>4 DEF Delivered
<1>4. ASSUME NEW w \in Worker, Deliver(w) PROVE Delivered'
  <2>1. /\ pc[w] = "return" /\ pc' = [pc EXCEPT ![w] = "idle"]
        /\ DOMAIN partials' = DOMAIN partials \cup {job[w]}
        /\ UNCHANGED <<main, next, job, stopFlag>>
    BY <1>4 DEF Deliver, GoTo, walk
  <2>2. /\ ~ (pc'[w] \in Busy)
        /\ \A v \in Worker \ {w} : pc'[v] = pc[v]
    BY <2>1 DEF SearchInv, TypeOK, Busy
  <2>3. job[w] \in Task /\ job[w] < next /\ job[w] # 0
    BY <2>1 DEF SearchInv, Placed, Busy, Task
  <2>4. main # "done"
    BY <2>1 DEF Delivered
  <2>5. \A v \in Worker \ {w} : job[v] # job[w]
    BY <2>3 DEF SearchInv, OwnRoots
  <2>6. \A i \in DOMAIN partials' : i < next'
    BY <2>1, <2>3 DEF Delivered
  <2>7. \A v \in Worker : pc'[v] \in Busy => job'[v] \notin DOMAIN partials'
    BY <2>1, <2>2, <2>5 DEF Delivered
  <2>8. \A i \in Task : i < next' =>
            i \in DOMAIN partials' \/ \E v \in Worker : pc'[v] \in Busy /\ job'[v] = i
    <3>. TAKE i \in Task
    <3>. HAVE i < next'
    <3>1. i \in DOMAIN partials \/ With(i)
      BY <2>1 DEF Delivered
    <3>. QED  BY <2>1, <2>2, <3>1
  <2>9. main' \in {"closed", "done"} => next' > NTasks \/ stopFlag'
    BY <2>1 DEF Delivered
  <2>. QED  BY <2>1, <2>4, <2>6, <2>7, <2>8, <2>9 DEF Delivered
<1>5. ASSUME NEW w \in Worker, Leave(w) PROVE Delivered'
  <2>1. /\ pc[w] = "idle" /\ main = "closed" /\ pc' = [pc EXCEPT ![w] = "exit"]
        /\ UNCHANGED <<main, next, partials, combined, job, stopFlag>>
    BY <1>5 DEF Leave, GoTo, walk, dispatch
  <2>2. \A v \in Worker : pc'[v] \in Busy <=> pc[v] \in Busy
    BY <2>1 DEF SearchInv, TypeOK, Busy
  <2>. QED  BY <2>1, <2>2 DEF Delivered
<1>. QED  BY <1>1, <1>2, <1>3, <1>4, <1>5 DEF Next, WorkerStep, Finished
-----------------------------------------------------------------------------
\* A node is a pair of a root, or 0, and a place.
LEMMA RootOfNode ==
    ASSUME NEW n \in AllNodes
    PROVE  n[1] \in 0..NTasks /\ (n[1] = 0 <=> n \in Earlier)
<1>1. ASSUME n \in Earlier PROVE n[1] = 0
  BY <1>1 DEF Earlier
<1>2. ASSUME n \in SearchNode PROVE n[1] \in 1..NTasks
  <2>1. PICK i \in Task : n \in {<<i, k>> : k \in 1..TreeSize[i]}
    BY <1>2, Zenon DEF SearchNode
  <2>. QED  BY <2>1 DEF Task
<1>3. NTasks \in Nat
  BY SearchAssumption DEF SearchAssumption
<1>. QED  BY <1>1, <1>2, <1>3 DEF AllNodes

LEMMA EarlierCount ==
    IsFiniteSet(Earlier) /\ Cardinality(Earlier) = EarlierCharges
<1>. DEFINE f == [k \in 1..EarlierCharges |-> <<0, k>>]
<1>0. EarlierCharges \in Nat
  BY SearchAssumption DEF SearchAssumption
<1>1. f \in Bijection(1..EarlierCharges, Earlier)
  <2>1. f \in [1..EarlierCharges -> Earlier]
    BY DEF Earlier
  <2>2. \A k, l \in 1..EarlierCharges : f[k] = f[l] => k = l
    OBVIOUS
  <2>3. \A n \in Earlier : \E k \in 1..EarlierCharges : f[k] = n
    BY DEF Earlier
  <2>. QED  BY <2>1, <2>2, <2>3 DEF Bijection, Injection, Surjection, IsInjective
<1>2. ExistsBijection(1..EarlierCharges, Earlier)
  BY <1>1 DEF ExistsBijection
<1>. QED  BY <1>0, <1>2, FS_CountingElements, FS_NatBijection

LEMMA InitAccounts == Init => Accounts
<1>. SUFFICES ASSUME Init PROVE Accounts
  OBVIOUS
<1>1. spent = Earlier /\ charged = EarlierCharges /\ DOMAIN partials = {}
  BY DEF Init
<1>2. \A w \in Worker : pc[w] \notin Busy
  BY DEF Init, Busy
<1>3. GrantsIn(spent, 0) = Earlier
  BY <1>1, RootOfNode DEF GrantsIn, AllNodes
<1>. QED  BY <1>1, <1>2, <1>3, EarlierCount DEF Accounts

LEMMA NextAccounts ==
    ASSUME SearchInv, ResultsTyped, Delivered, Accounts, [Next]_vars
    PROVE  Accounts'
<1>1. CASE MainStep \/ Cancel \/ UNCHANGED vars
  <2>1. UNCHANGED <<spent, charged, pc, job, nodes, partials>>
    BY <1>1 DEF MainStep, CheckStop, CheckContext, StopDispatch, Collect,
                Cancel, vars, dispatch, walk, ledgerVars
  <2>. QED  BY <2>1 DEF Accounts, GrantsIn
<1>2. ASSUME NEW w \in Worker, Receive(w) PROVE Accounts'
  <2>1. /\ pc' = [pc EXCEPT ![w] = "enter"]
        /\ job' = [job EXCEPT ![w] = next] /\ nodes' = [nodes EXCEPT ![w] = 0]
        /\ UNCHANGED <<spent, charged, partials>>
    BY <1>2 DEF Receive, RootSent, ledgerVars
  <2>2. /\ job'[w] = next /\ nodes'[w] = 0
        /\ \A v \in Worker \ {w} :
              pc'[v] = pc[v] /\ job'[v] = job[v] /\ nodes'[v] = nodes[v]
    BY <2>1 DEF SearchInv, TypeOK
  <2>3. GrantsIn(spent, next) = {}
    <3>1. next \in Int
      BY DEF SearchInv, TypeOK
    <3>2. \A n \in spent : n[1] < next
      BY DEF SearchInv, Behind
    <3>. QED  BY <3>1, <3>2 DEF GrantsIn
  <2>4. Cardinality(GrantsIn(spent, next)) = 0
    BY <2>3, FS_EmptySet
  <2>5. \A i : GrantsIn(spent', i) = GrantsIn(spent, i)
    BY <2>1 DEF GrantsIn
  <2>6. \A v \in Worker : pc'[v] \in Busy => nodes'[v] = Cardinality(GrantsIn(spent, job'[v]))
    BY <2>2, <2>4 DEF Accounts
  <2>. QED  BY <2>1, <2>5, <2>6 DEF Accounts, GrantsIn
<1>3. ASSUME NEW w \in Worker, ChargeNode(w) PROVE Accounts'
  <2>. DEFINE node == <<job[w], cursor[w]>>
  <2>1. /\ pc[w] = "charge" /\ pc' = [pc EXCEPT ![w] = "counted"]
        /\ spent' = spent \cup {node} /\ charged' = charged + 1
        /\ nodes' = [nodes EXCEPT ![w] = @ + 1]
        /\ UNCHANGED <<job, partials>>
    BY <1>3 DEF ChargeNode, GoTo, Ledger!Charge, dispatch
  <2>2. /\ pc[w] \in Busy /\ pc'[w] \in Busy /\ nodes'[w] = nodes[w] + 1
        /\ \A v \in Worker \ {w} : pc'[v] = pc[v] /\ nodes'[v] = nodes[v]
    BY <2>1 DEF SearchInv, TypeOK, Busy
  <2>3. job[w] \in Task /\ job[w] # 0 /\ job[w] \notin DOMAIN partials
    BY <2>2 DEF SearchInv, Placed, Delivered, Task
  <2>4. node \notin spent
    BY <2>1 DEF SearchInv, Behind, Placed, TypeOK
  <2>5. /\ IsFiniteSet(spent') /\ Cardinality(spent') = Cardinality(spent) + 1
    BY <2>1, <2>4, FS_AddElement DEF Accounts
  <2>6. \A i : GrantsIn(spent', i) = IF i = job[w] THEN GrantsIn(spent, i) \cup {node}
                                ELSE GrantsIn(spent, i)
    BY <2>1 DEF GrantsIn
  <2>7. Cardinality(GrantsIn(spent, job[w]) \cup {node}) = Cardinality(GrantsIn(spent, job[w])) + 1
    <3>1. GrantsIn(spent, job[w]) \in SUBSET spent /\ node \notin GrantsIn(spent, job[w])
      BY <2>4 DEF GrantsIn
    <3>2. IsFiniteSet(GrantsIn(spent, job[w]))
      BY <3>1, FS_Subset DEF Accounts
    <3>. QED  BY <3>1, <3>2, FS_AddElement
  <2>8. \A v \in Worker : pc'[v] \in Busy =>
            nodes'[v] = Cardinality(GrantsIn(spent', job'[v]))
    <3>. TAKE v \in Worker
    <3>. HAVE pc'[v] \in Busy
    <3>1. CASE v = w
      <4>1. GrantsIn(spent', job'[v]) = GrantsIn(spent, job[w]) \cup {node}
        BY <2>1, <2>6, <3>1
      <4>2. nodes[w] = Cardinality(GrantsIn(spent, job[w]))
        BY <2>2 DEF Accounts
      <4>. QED  BY <2>2, <2>7, <3>1, <4>1, <4>2
    <3>2. CASE v # w
      <4>1. job[v] # job[w]
        BY <2>3, <3>2 DEF SearchInv, OwnRoots
      <4>2. GrantsIn(spent', job'[v]) = GrantsIn(spent, job[v])
        BY <2>1, <2>6, <4>1
      <4>3. pc[v] \in Busy /\ nodes'[v] = nodes[v]
        BY <2>2, <3>2
      <4>. QED  BY <4>2, <4>3 DEF Accounts
    <3>. QED  BY <3>1, <3>2
  <2>9. \A i \in DOMAIN partials' : partials'[i].explored = Cardinality(GrantsIn(spent', i))
    BY <2>1, <2>3, <2>6 DEF Accounts
  <2>10. GrantsIn(spent', 0) = Earlier
    BY <2>3, <2>6 DEF Accounts
  <2>11. charged' = Cardinality(spent')
    BY <2>1, <2>5 DEF Accounts
  <2>. QED  BY <2>5, <2>8, <2>9, <2>10, <2>11 DEF Accounts
<1>4. ASSUME NEW w \in Worker, Deliver(w) PROVE Accounts'
  <2>1. /\ pc[w] = "return" /\ pc' = [pc EXCEPT ![w] = "idle"]
        /\ partials' = [i \in DOMAIN partials \cup {job[w]} |->
                           IF i = job[w] THEN Result(w) ELSE partials[i]]
        /\ UNCHANGED <<spent, charged, job, nodes>>
    BY <1>4 DEF Deliver, GoTo, walk, ledgerVars
  <2>2. Result(w).explored = Cardinality(GrantsIn(spent, job[w]))
    BY <2>1 DEF Result, Accounts, Busy
  <2>3. \A i \in DOMAIN partials' : partials'[i].explored = Cardinality(GrantsIn(spent, i))
    BY <2>1, <2>2 DEF Accounts
  <2>4. \A v \in Worker : pc'[v] \in Busy => pc[v] \in Busy
    BY <2>1 DEF SearchInv, TypeOK, Busy
  <2>5. \A i : GrantsIn(spent', i) = GrantsIn(spent, i)
    BY <2>1 DEF GrantsIn
  <2>. QED  BY <2>1, <2>3, <2>4, <2>5 DEF Accounts
<1>5. ASSUME NEW w \in Worker,
             \/ Unwind(w) \/ Enter(w) \/ NoticeCancel(w) \/ ExhaustBudget(w)
             \/ PassChecks(w) \/ RefuseNode(w) \/ Explore(w)
      PROVE  Accounts'
  <2>1. PICK place \in Busy : pc' = [pc EXCEPT ![w] = place]
    BY <1>5, WorkerEffects
  <2>2. /\ pc[w] \in Busy
        /\ UNCHANGED <<partials, job>>
    BY <1>5, WorkerEffects
  <2>3. UNCHANGED <<spent, charged, nodes>>
    BY <1>5 DEF Unwind, Enter, NoticeCancel, ExhaustBudget, PassChecks,
                RefuseNode, Explore, walk, ledgerVars
  <2>4. \A v \in Worker : pc'[v] \in Busy => pc[v] \in Busy
    BY <2>1, <2>2 DEF SearchInv, TypeOK
  <2>. QED  BY <2>2, <2>3, <2>4 DEF Accounts, GrantsIn
<1>6. ASSUME NEW w \in Worker, Leave(w) PROVE Accounts'
  <2>1. /\ pc[w] = "idle" /\ pc' = [pc EXCEPT ![w] = "exit"]
        /\ UNCHANGED <<spent, charged, nodes, partials, job>>
    BY <1>6 DEF Leave, GoTo, walk, dispatch, ledgerVars
  <2>2. \A v \in Worker : pc'[v] \in Busy => pc[v] \in Busy
    BY <2>1 DEF SearchInv, TypeOK, Busy
  <2>. QED  BY <2>1, <2>2 DEF Accounts, GrantsIn
<1>. QED  BY <1>1, <1>2, <1>3, <1>4, <1>5, <1>6 DEF Next, WorkerStep, Finished

\* The merge loop adds up the grants of the roots it has come by.
LEMMA MergedCounts ==
    ASSUME SearchInv, ResultsTyped, Delivered, Accounts, main = "done"
    PROVE  combined.explored = charged - EarlierCharges
<1>. DEFINE M == Merged(partials)
            UpTo(k) == {n \in spent : n[1] \in 1..k}
            T == {k \in 0..NTasks : M[k].explored = Cardinality(UpTo(k))}
<1>0. NTasks \in Nat /\ EarlierCharges \in Nat /\ next \in Int
  BY SearchAssumption DEF SearchAssumption, SearchInv, TypeOK
<1>1. /\ M \in [0..NTasks -> Outcome] /\ M[0] = NoResult
      /\ \A k \in 1..NTasks : M[k] = IF k \in DOMAIN partials
                                     THEN Plus(M[k - 1], partials[k]) ELSE M[k - 1]
  BY MergedStep DEF ResultsTyped
<1>. HIDE DEF M
<1>2. \A n \in spent : n[1] \in 0..NTasks /\ (n[1] = 0 <=> n \in Earlier)
  BY RootOfNode DEF SearchInv, TypeOK
<1>3. \A S \in SUBSET spent : IsFiniteSet(S) /\ Cardinality(S) \in Nat
  BY FS_Subset, FS_CardinalityType DEF Accounts
<1>4. 0 \in T
  <2>1. UpTo(0) = {}
    OBVIOUS
  <2>2. Cardinality(UpTo(0)) = 0
    BY <2>1, FS_EmptySet
  <2>3. M[0].explored = 0
    BY <1>1 DEF NoResult
  <2>. QED  BY <1>0, <2>2, <2>3
<1>5. ASSUME NEW k \in 0..(NTasks - 1), k \in T
      PROVE  k + 1 \in T
  <2>0. k + 1 \in 1..NTasks /\ (k + 1) - 1 = k /\ k + 1 \in Task
    BY <1>0 DEF Task
  <2>1. M[k].explored = Cardinality(UpTo(k)) /\ M[k] \in Outcome
    BY <1>0, <1>1, <1>5
  <2>2. UpTo(k + 1) = UpTo(k) \cup GrantsIn(spent, k + 1)
    BY <1>2 DEF GrantsIn
  <2>3. UpTo(k) \cap GrantsIn(spent, k + 1) = {}
    BY DEF GrantsIn
  <2>4. UpTo(k) \in SUBSET spent /\ GrantsIn(spent, k + 1) \in SUBSET spent
    BY DEF GrantsIn
  <2>. HIDE DEF UpTo
  <2>5. Cardinality(UpTo(k + 1)) = Cardinality(UpTo(k)) + Cardinality(GrantsIn(spent, k + 1))
    <3>1. /\ IsFiniteSet(UpTo(k)) /\ IsFiniteSet(GrantsIn(spent, k + 1))
      BY <1>3, <2>4
    <3>2. Cardinality(UpTo(k) \cap GrantsIn(spent, k + 1)) = 0
      BY <2>3, FS_EmptySet
    <3>3. Cardinality(UpTo(k) \cup GrantsIn(spent, k + 1)) =
              Cardinality(UpTo(k)) + Cardinality(GrantsIn(spent, k + 1))
              - Cardinality(UpTo(k) \cap GrantsIn(spent, k + 1))
      BY <3>1, FS_Union
    <3>4. Cardinality(UpTo(k)) \in Nat /\ Cardinality(GrantsIn(spent, k + 1)) \in Nat
      BY <1>3, <2>4
    <3>5. Cardinality(UpTo(k + 1)) = Cardinality(UpTo(k) \cup GrantsIn(spent, k + 1))
      BY <2>2
    <3>. QED  BY <3>2, <3>3, <3>4, <3>5
  <2>6. M[k + 1].explored = M[k].explored + Cardinality(GrantsIn(spent, k + 1))
    <3>1. CASE k + 1 \in DOMAIN partials
      <4>1. M[k + 1] = Plus(M[k], partials[k + 1])
        BY <1>1, <2>0, <3>1
      <4>2. partials[k + 1] \in Outcome
        BY <3>1 DEF ResultsTyped
      <4>3. partials[k + 1].explored = Cardinality(GrantsIn(spent, k + 1))
        BY <3>1 DEF Accounts
      <4>. QED  BY <2>1, <4>1, <4>2, <4>3, PlusType
    <3>2. CASE k + 1 \notin DOMAIN partials
      <4>1. ~ (k + 1 < next)
        BY <2>0, <3>2 DEF Delivered, Busy
      <4>2. GrantsIn(spent, k + 1) = {}
        BY <1>0, <4>1 DEF GrantsIn, SearchInv, Behind
      <4>3. Cardinality(GrantsIn(spent, k + 1)) = 0
        BY <4>2, FS_EmptySet
      <4>4. M[k + 1] = M[k] /\ M[k].explored \in Nat
        BY <1>1, <2>0, <2>1, <3>2 DEF Outcome
      <4>. QED  BY <4>3, <4>4
    <3>. QED  BY <3>1, <3>2
  <2>. QED  BY <1>0, <2>0, <2>1, <2>5, <2>6
<1>6. NTasks \in T
  <2>. HIDE DEF T
  <2>1. 0..NTasks \subseteq T
    BY <1>0, <1>4, <1>5, InductionUpTo
  <2>. QED  BY <1>0, <2>1
<1>7. combined.explored = Cardinality(UpTo(NTasks))
  BY <1>6 DEF Delivered, MergeInRootOrder, M
<1>8. spent = UpTo(NTasks) \cup Earlier /\ UpTo(NTasks) \cap Earlier = {}
  <2>1. Earlier \subseteq spent
    BY DEF Accounts, GrantsIn
  <2>. QED  BY <1>0, <1>2, <2>1
<1>9. charged = Cardinality(UpTo(NTasks)) + EarlierCharges
  <2>1. UpTo(NTasks) \in SUBSET spent
    OBVIOUS
  <2>. HIDE DEF UpTo
  <2>2. IsFiniteSet(UpTo(NTasks)) /\ Cardinality(UpTo(NTasks)) \in Nat
    BY <1>3, <2>1
  <2>3. Cardinality(UpTo(NTasks) \cap Earlier) = 0
    BY <1>8, FS_EmptySet
  <2>4. Cardinality(UpTo(NTasks) \cup Earlier) =
            Cardinality(UpTo(NTasks)) + Cardinality(Earlier)
            - Cardinality(UpTo(NTasks) \cap Earlier)
    BY <2>2, EarlierCount, FS_Union
  <2>. QED  BY <1>0, <1>8, <2>2, <2>3, <2>4, EarlierCount DEF Accounts
<1>10. Cardinality(UpTo(NTasks)) \in Nat
  <2>1. UpTo(NTasks) \in SUBSET spent
    OBVIOUS
  <2>. HIDE DEF UpTo
  <2>. QED  BY <1>3, <2>1
<1>. HIDE DEF UpTo
<1>. QED  BY <1>0, <1>7, <1>9, <1>10
-----------------------------------------------------------------------------
\* Everything found is on its way to the merge loop.
LEMMA NextSurvives ==
    ASSUME SearchInv, ResultsTyped, Delivered, Survives, [Next]_vars
    PROVE  Survives'
<1>1. CASE MainStep \/ Cancel \/ UNCHANGED vars
  <2>1. UNCHANGED <<seen, pc, results, partials>>
    BY <1>1 DEF MainStep, CheckStop, CheckContext, StopDispatch, Collect,
                Cancel, vars, dispatch, walk, ghosts
  <2>. QED  BY <2>1 DEF Survives
<1>2. ASSUME NEW w \in Worker, Receive(w) PROVE Survives'
  <2>1. /\ pc[w] = "idle" /\ pc' = [pc EXCEPT ![w] = "enter"]
        /\ results' = [results EXCEPT ![w] = Merge(<<>>, Seeds)]
        /\ UNCHANGED <<partials, seen>>
    BY <1>2 DEF Receive, ghosts
  <2>2. \A v \in Worker : pc[v] \in Busy =>
            v # w /\ pc'[v] = pc[v] /\ results'[v] = results[v]
    BY <2>1 DEF SearchInv, TypeOK, ResultsTyped, Busy
  <2>. QED  BY <2>1, <2>2 DEF Survives
<1>3. ASSUME NEW w \in Worker, Explore(w) PROVE Survives'
  <2>. DEFINE rank == Rank[job[w]][cursor[w]]
  <2>1. /\ pc[w] = "counted" /\ pc' = [pc EXCEPT ![w] = "enter"]
        /\ results' = [results EXCEPT ![w] = Kept(results[w], rank)]
        /\ seen' = seen \cup ({rank} \ {0}) /\ partials' = partials
    BY <1>3 DEF Explore, GoTo, dispatch
  <2>2. /\ pc[w] \in Busy /\ pc'[w] \in Busy
        /\ results'[w] = Kept(results[w], rank)
        /\ \A v \in Worker \ {w} : pc'[v] = pc[v] /\ results'[v] = results[v]
    BY <2>1 DEF SearchInv, TypeOK, ResultsTyped, Busy
  <2>3. rank \in Nat
    <3>1. job[w] \in Task /\ cursor[w] \in 1..TreeSize[job[w]]
      BY <2>1, SearchAssumption
      DEF SearchInv, Placed, AtNode, TypeOK, SearchAssumption
    <3>. QED  BY <3>1, SearchAssumption DEF SearchAssumption
  <2>4. results[w] \in Seq(Nat)
    BY DEF ResultsTyped
  <2>. HIDE DEF rank
  <2>5. /\ rank # 0 => Covers(results'[w], rank)
        /\ \A r \in Nat : Covers(results[w], r) => Covers(results'[w], r)
    BY <2>2, <2>3, <2>4, KeptKeeps
  <2>6. ASSUME NEW r \in seen'
        PROVE  \/ \E v \in Worker : pc'[v] \in Busy /\ Covers(results'[v], r)
               \/ \E i \in DOMAIN partials' : Covers(partials'[i].solutions, r)
    <3>1. CASE r \in seen
      <4>1. r \in Nat
        BY <3>1 DEF SearchInv, TypeOK
      <4>2. CASE \E i \in DOMAIN partials : Covers(partials[i].solutions, r)
        BY <2>1, <4>2
      <4>3. ASSUME NEW v \in Worker, pc[v] \in Busy, Covers(results[v], r)
            PROVE  pc'[v] \in Busy /\ Covers(results'[v], r)
        BY <2>2, <2>5, <4>1, <4>3
      <4>. QED  BY <3>1, <4>2, <4>3 DEF Survives
    <3>2. CASE r = rank /\ rank # 0
      BY <2>2, <2>5, <3>2
    <3>. QED  BY <2>1, <2>6, <3>1, <3>2
  <2>. QED  BY <2>6 DEF Survives
<1>4. ASSUME NEW w \in Worker, Deliver(w) PROVE Survives'
  <2>1. /\ pc[w] = "return" /\ pc' = [pc EXCEPT ![w] = "idle"]
        /\ partials' = [i \in DOMAIN partials \cup {job[w]} |->
                           IF i = job[w] THEN Result(w) ELSE partials[i]]
        /\ UNCHANGED <<results, seen>>
    BY <1>4 DEF Deliver, GoTo, walk, ghosts
  <2>2. /\ job[w] \in DOMAIN partials' /\ partials'[job[w]].solutions = results[w]
        /\ \A i \in DOMAIN partials : /\ i \in DOMAIN partials'
                                      /\ partials'[i] = partials[i]
    BY <2>1 DEF Result, Delivered, Busy
  <2>3. \A v \in Worker \ {w} : pc'[v] = pc[v]
    BY <2>1 DEF SearchInv, TypeOK
  <2>. QED  BY <2>1, <2>2, <2>3 DEF Survives
<1>5. ASSUME NEW w \in Worker,
             \/ Unwind(w) \/ Enter(w) \/ NoticeCancel(w) \/ ExhaustBudget(w)
             \/ PassChecks(w) \/ ChargeNode(w) \/ RefuseNode(w)
      PROVE  Survives'
  <2>1. PICK place \in Busy : pc' = [pc EXCEPT ![w] = place]
    BY <1>5, WorkerEffects
  <2>2. UNCHANGED <<seen, results, partials>>
    BY <1>5 DEF Unwind, Enter, NoticeCancel, ExhaustBudget, PassChecks,
                ChargeNode, RefuseNode, walk, dispatch, ghosts
  <2>3. \A v \in Worker : pc[v] \in Busy => pc'[v] \in Busy
    BY <2>1 DEF SearchInv, TypeOK
  <2>. QED  BY <2>2, <2>3 DEF Survives
<1>6. ASSUME NEW w \in Worker, Leave(w) PROVE Survives'
  <2>1. /\ pc[w] = "idle" /\ pc' = [pc EXCEPT ![w] = "exit"]
        /\ UNCHANGED <<seen, results, partials>>
    BY <1>6 DEF Leave, GoTo, walk, dispatch, ghosts
  <2>2. \A v \in Worker : pc[v] \in Busy => pc'[v] \in Busy
    BY <2>1 DEF SearchInv, TypeOK, Busy
  <2>. QED  BY <2>1, <2>2 DEF Survives
<1>. QED  BY <1>1, <1>2, <1>3, <1>4, <1>5, <1>6 DEF Next, WorkerStep, Finished

\* The merge loop keeps what any result it has come by covers.
LEMMA MergedSurvives ==
    ASSUME SearchInv, ResultsTyped, Delivered, Survives, main = "done"
    PROVE  BestSurvives
<1>. SUFFICES ASSUME NEW r \in seen
              PROVE  Covers(combined.solutions, r)
  BY DEF BestSurvives, Covers
<1>. DEFINE M == Merged(partials)
<1>0. NTasks \in Nat /\ r \in Nat
  BY SearchAssumption DEF SearchAssumption, SearchInv, TypeOK
<1>1. /\ M \in [0..NTasks -> Outcome]
      /\ \A k \in 1..NTasks : M[k] = IF k \in DOMAIN partials
                                     THEN Plus(M[k - 1], partials[k]) ELSE M[k - 1]
  BY MergedStep DEF ResultsTyped
<1>2. combined = M[NTasks]
  BY DEF Delivered, MergeInRootOrder
<1>. HIDE DEF M
<1>3. PICK i \in DOMAIN partials : Covers(partials[i].solutions, r)
  BY DEF Survives, Delivered, Busy
<1>4. i \in 1..NTasks
  BY DEF SearchInv, TypeOK, Task
<1>. DEFINE T == {k \in 0..NTasks : k >= i => Covers(M[k].solutions, r)}
<1>5. 0 \in T
  BY <1>0, <1>4
<1>6. ASSUME NEW k \in 0..(NTasks - 1), k \in T
      PROVE  k + 1 \in T
  <2>1. k \in 0..NTasks /\ k + 1 \in 1..NTasks /\ k + 1 \in 0..NTasks /\ (k + 1) - 1 = k
    BY <1>0
  <2>2. M[k] \in Outcome
    BY <1>1, <2>1
  <2>3. k >= i => Covers(M[k].solutions, r)
    BY <1>6
  <2>4. CASE k + 1 \in DOMAIN partials
    <3>1. M[k + 1] = Plus(M[k], partials[k + 1]) /\ partials[k + 1] \in Outcome
      BY <1>1, <2>1, <2>4 DEF ResultsTyped
    <3>2. CASE k + 1 = i
      <4>1. Covers(partials[k + 1].solutions, r)
        BY <1>3, <3>2
      <4>2. Covers(M[k + 1].solutions, r)
        BY <1>0, <2>2, <3>1, <4>1, PlusType
      <4>. QED  BY <2>1, <4>2
    <3>3. CASE k >= i
      <4>1. Covers(M[k + 1].solutions, r)
        BY <1>0, <2>2, <2>3, <3>1, <3>3, PlusType
      <4>. QED  BY <2>1, <4>1
    <3>4. CASE k + 1 < i
      BY <1>4, <2>1, <3>4
    <3>. QED  BY <1>4, <2>1, <3>2, <3>3, <3>4
  <2>5. CASE k + 1 \notin DOMAIN partials
    <3>1. M[k + 1] = M[k] /\ k + 1 # i
      BY <1>1, <1>3, <2>1, <2>5
    <3>2. k + 1 >= i => k >= i
      BY <1>4, <2>1, <3>1
    <3>. QED  BY <2>1, <2>3, <3>1, <3>2
  <2>. QED  BY <2>4, <2>5
<1>7. NTasks \in T
  <2>. HIDE DEF T
  <2>1. 0..NTasks \subseteq T
    BY <1>0, <1>5, <1>6, InductionUpTo
  <2>. QED  BY <1>0, <2>1
<1>. QED  BY <1>0, <1>2, <1>4, <1>7
-----------------------------------------------------------------------------
\* What a root's budget affords of its tree.
LEMMA AffordableType ==
    ASSUME NEW s \in Setting, NEW i \in Task
    PROVE  /\ TreeSize[i] \in Nat /\ Affordable(s, i) \in Nat
           /\ Affordable(s, i) <= TreeSize[i]
           /\ \A k \in Nat : s.limited /\ k >= s.budget[i] /\ k < TreeSize[i]
                             => Affordable(s, i) <= k
           /\ \A k \in Nat : ~(s.limited /\ k >= s.budget[i]) /\ k < TreeSize[i]
                             => k < Affordable(s, i)
           /\ s.limited => s.budget[i] >= Affordable(s, i)
<1>1. TreeSize[i] \in Nat
  BY SearchAssumption DEF SearchAssumption
<1>2. s.budget[i] \in Nat
  BY DEF Setting
<1>. QED  BY <1>1, <1>2 DEF Affordable

\* A busy worker's place in the tree of its root.
LEMMA BusyWorker ==
    ASSUME SearchInv, ResultsTyped, NEW w \in Worker, pc[w] \in Busy
    PROVE  /\ job[w] \in Task /\ cursor[w] \in Nat \ {0} /\ nodes[w] \in Nat
           /\ hit[w] \in BOOLEAN /\ setting \in Setting
           /\ TreeSize[job[w]] \in Nat
           /\ pc[w] \in {"context", "charge", "counted"} =>
                  cursor[w] <= TreeSize[job[w]]
BY SearchAssumption
DEF SearchInv, Placed, AtNode, TypeOK, ResultsTyped, SearchAssumption

\* The workers a step leaves alone.
LEMMA OthersWalk ==
    ASSUME NEW v, setting' = setting, pc'[v] = pc[v], job'[v] = job[v],
           cursor'[v] = cursor[v], nodes'[v] = nodes[v],
           results'[v] = results[v], hit'[v] = hit[v],
           ceiled'[v] = ceiled[v], LoneWalk(v)
    PROVE  LoneWalk(v)'
BY DEF LoneWalk

\* One step of a worker inside a root, while nothing has stopped the search.
LEMMA EnterLone ==
    ASSUME SearchInv, ResultsTyped, NEW w \in Worker, LoneWalk(w),
           Enter(w) \/ Unwind(w), ~stopFlag, setting' = setting
    PROVE  LoneWalk(w)'
<1>1. /\ pc[w] \in Busy /\ pc[w] = "enter" /\ UNCHANGED <<job, cursor, nodes, results, hit, ceiled>>
      /\ \/ pc'[w] = "context"
         \/ pc'[w] = "return" /\ ~AtNode(w)
  BY DEF Enter, Unwind, GoTo, walk, SearchInv, TypeOK, Busy
<1>2. pc'[w] = "return" => cursor[w] = TreeSize[job[w]] + 1
  BY <1>1, BusyWorker DEF LoneWalk, AtNode
<1>. QED  BY <1>1, <1>2 DEF LoneWalk

LEMMA ExhaustLone ==
    ASSUME SearchInv, ResultsTyped, NEW w \in Worker, LoneWalk(w),
           ExhaustBudget(w), setting' = setting
    PROVE  LoneWalk(w)'
<1>. DEFINE a == Affordable(setting, job[w])
            c == cursor[w]
            t == TreeSize[job[w]]
<1>1. /\ pc[w] = "context" /\ pc[w] \in Busy /\ pc'[w] = "enter" /\ cursor'[w] = c + 1
      /\ hit'[w] = TRUE /\ BudgetUsedUp(w)
      /\ UNCHANGED <<job, nodes, results, ceiled>>
  BY DEF ExhaustBudget, GoTo, SearchInv, TypeOK, ResultsTyped, Busy
<1>2. /\ c \in Nat \ {0} /\ t \in Nat /\ c <= t /\ job[w] \in Task
      /\ setting \in Setting /\ nodes[w] \in Nat
  BY <1>1, BusyWorker
<1>3. a \in Nat /\ a <= t
  BY <1>2, AffordableType
<1>4. nodes[w] = IF c - 1 < a THEN c - 1 ELSE a
  BY <1>1 DEF LoneWalk
<1>5. results[w] = Found(job[w])[IF c - 1 < a THEN c - 1 ELSE a]
  BY DEF LoneWalk
<1>6. nodes[w] < t
  <2>. HIDE DEF a, c, t
  <2>. QED  BY <1>2, <1>3, <1>4
<1>7. a <= nodes[w]
  BY <1>1, <1>2, <1>6, AffordableType DEF BudgetUsedUp
<1>. HIDE DEF a, c, t
<1>8. a <= c - 1 /\ nodes[w] = a /\ results[w] = Found(job[w])[a]
  BY <1>2, <1>3, <1>4, <1>5, <1>7
<1>9. /\ nodes[w] = IF (c + 1) - 1 < a THEN (c + 1) - 1 ELSE a
      /\ results[w] = Found(job[w])[IF (c + 1) - 1 < a THEN (c + 1) - 1 ELSE a]
      /\ (c + 1) - 1 > a /\ c + 1 <= t + 1
  BY <1>2, <1>3, <1>8
<1>. QED  BY <1>1, <1>9 DEF LoneWalk, a, t

LEMMA PassLone ==
    ASSUME SearchInv, ResultsTyped, NEW w \in Worker, LoneWalk(w),
           PassChecks(w), setting' = setting
    PROVE  LoneWalk(w)'
<1>. DEFINE a == Affordable(setting, job[w])
            c == cursor[w]
            t == TreeSize[job[w]]
<1>1. /\ pc[w] = "context" /\ pc[w] \in Busy /\ pc'[w] = "charge" /\ ~BudgetUsedUp(w)
      /\ UNCHANGED <<job, cursor, nodes, results, hit, ceiled>>
  BY DEF PassChecks, GoTo, SearchInv, TypeOK, Busy, walk
<1>2. /\ c \in Nat \ {0} /\ t \in Nat /\ c <= t /\ job[w] \in Task
      /\ setting \in Setting /\ nodes[w] \in Nat
  BY <1>1, BusyWorker
<1>3. a \in Nat /\ a <= t
  BY <1>2, AffordableType
<1>4. nodes[w] = IF c - 1 < a THEN c - 1 ELSE a
  BY <1>1 DEF LoneWalk
<1>5. nodes[w] < t
  <2>. HIDE DEF a, c, t
  <2>. QED  BY <1>2, <1>3, <1>4
<1>6. nodes[w] < a
  BY <1>1, <1>2, <1>5, AffordableType DEF BudgetUsedUp
<1>7. c <= a
  <2>. HIDE DEF a, c, t
  <2>. QED  BY <1>2, <1>3, <1>4, <1>6
<1>. QED  BY <1>1, <1>7 DEF LoneWalk

LEMMA ChargeLone ==
    ASSUME SearchInv, ResultsTyped, NEW w \in Worker, LoneWalk(w),
           ChargeNode(w), setting' = setting
    PROVE  LoneWalk(w)'
<1>. DEFINE a == Affordable(setting, job[w])
            c == cursor[w]
<1>1. /\ pc[w] = "charge" /\ pc[w] \in Busy /\ pc'[w] = "counted"
      /\ nodes'[w] = nodes[w] + 1
      /\ UNCHANGED <<job, cursor, results, hit, ceiled>>
  BY DEF ChargeNode, GoTo, SearchInv, TypeOK, Busy
<1>2. /\ c \in Nat \ {0} /\ job[w] \in Task /\ setting \in Setting
  BY <1>1, BusyWorker
<1>3. a \in Nat
  BY <1>2, AffordableType
<1>4. nodes[w] = (IF c - 1 < a THEN c - 1 ELSE a) /\ c <= a
  BY <1>1 DEF LoneWalk
<1>5. nodes'[w] = IF c < a THEN c ELSE a
  <2>. HIDE DEF a, c
  <2>. QED  BY <1>1, <1>2, <1>3, <1>4
<1>. QED  BY <1>1, <1>4, <1>5 DEF LoneWalk

LEMMA ExploreLone ==
    ASSUME SearchInv, ResultsTyped, NEW w \in Worker, LoneWalk(w),
           Explore(w), ~stopFlag', setting' = setting
    PROVE  LoneWalk(w)'
<1>. DEFINE a == Affordable(setting, job[w])
            c == cursor[w]
            t == TreeSize[job[w]]
<1>1. /\ pc[w] = "counted" /\ pc[w] \in Busy /\ pc'[w] = "enter"
      /\ cursor'[w] = c + 1
      /\ results'[w] = Kept(results[w], Rank[job[w]][c])
      /\ UNCHANGED <<job, nodes, hit>> /\ ceiled'[w] = ceiled[w]
  BY DEF Explore, GoTo, SearchInv, TypeOK, ResultsTyped, Busy
<1>2. /\ c \in Nat \ {0} /\ t \in Nat /\ c <= t /\ job[w] \in Task
      /\ setting \in Setting /\ hit[w] \in BOOLEAN
  BY <1>1, BusyWorker
<1>3. a \in Nat /\ a <= t
  BY <1>2, AffordableType
<1>4. /\ nodes[w] = (IF c < a THEN c ELSE a) /\ c <= a
      /\ results[w] = Found(job[w])[IF c - 1 < a THEN c - 1 ELSE a]
      /\ hit[w] <=> c - 1 > a
  BY <1>1 DEF LoneWalk
<1>5. c \in 1..t => Found(job[w])[c] = Kept(Found(job[w])[c - 1], Rank[job[w]][c])
  BY <1>2, FoundStep
<1>. HIDE DEF a, c, t
<1>6. c \in 1..t /\ c - 1 < a /\ ~ (c - 1 > a) /\ ~ ((c + 1) - 1 > a)
  BY <1>2, <1>3, <1>4
<1>7. results'[w] = Found(job[w])[c]
  BY <1>1, <1>4, <1>5, <1>6
<1>8. /\ nodes[w] = IF (c + 1) - 1 < a THEN (c + 1) - 1 ELSE a
      /\ results'[w] = Found(job[w])[IF (c + 1) - 1 < a THEN (c + 1) - 1 ELSE a]
      /\ hit[w] <=> (c + 1) - 1 > a
      /\ c + 1 <= t + 1
  BY <1>2, <1>3, <1>4, <1>6, <1>7
<1>. QED  BY <1>1, <1>8 DEF LoneWalk, a, t

LEMMA NextUndisturbed ==
    ASSUME SearchInv, ResultsTyped, Delivered, Undisturbed, [Next]_vars
    PROVE  Undisturbed'
<1>0. setting' = setting
  BY DEF Next, Finished, vars
<1>1. CASE MainStep \/ Cancel \/ UNCHANGED vars
  <2>1. /\ UNCHANGED <<pc, job, cursor, nodes, results, hit, ceiled, partials>>
        /\ ~stopFlag' => ~stopFlag
    BY <1>1 DEF MainStep, CheckStop, CheckContext, StopDispatch, Collect,
                Cancel, vars, dispatch, walk
  <2>. QED  BY <1>0, <2>1, OthersWalk DEF Undisturbed
<1>2. ASSUME NEW w \in Worker, Receive(w) PROVE Undisturbed'
  <2>1. /\ main = "send" /\ pc' = [pc EXCEPT ![w] = "enter"] /\ pc[w] = "idle"
        /\ job' = [job EXCEPT ![w] = next] /\ cursor' = [cursor EXCEPT ![w] = 1]
        /\ nodes' = [nodes EXCEPT ![w] = 0] /\ hit' = [hit EXCEPT ![w] = FALSE]
        /\ ceiled' = [ceiled EXCEPT ![w] = FALSE]
        /\ results' = [results EXCEPT ![w] = Merge(<<>>, Seeds)]
        /\ UNCHANGED <<partials, stopFlag>>
    BY <1>2 DEF Receive, RootSent
  <2>2. /\ pc'[w] = "enter" /\ job'[w] = next /\ cursor'[w] = 1 /\ nodes'[w] = 0
        /\ hit'[w] = FALSE /\ ~ceiled'[w] /\ results'[w] = Merge(<<>>, Seeds)
        /\ \A v \in Worker \ {w} :
              /\ pc'[v] = pc[v] /\ job'[v] = job[v] /\ cursor'[v] = cursor[v]
              /\ nodes'[v] = nodes[v] /\ results'[v] = results[v]
              /\ hit'[v] = hit[v] /\ ceiled'[v] = ceiled[v]
    BY <2>1 DEF SearchInv, TypeOK, ResultsTyped
  <2>3. next \in Task /\ setting \in Setting
    BY <2>1, SearchAssumption
    DEF SearchInv, TypeOK, RootReady, ResultsTyped, Task, SearchAssumption
  <2>. DEFINE a == Affordable(setting, next)
              t == TreeSize[next]
              kept == Found(next)
  <2>4. a \in Nat /\ t \in Nat /\ kept[0] = Merge(<<>>, Seeds)
    BY <2>3, AffordableType, FoundStep
  <2>5. LoneWalk(w)'
    <3>. HIDE DEF a, t, kept
    <3>1. /\ 0 = IF 1 - 1 < a THEN 1 - 1 ELSE a
          /\ results'[w] = kept[IF 1 - 1 < a THEN 1 - 1 ELSE a]
          /\ ~ (1 - 1 > a) /\ 1 <= t + 1
      BY <2>2, <2>4
    <3>. QED  BY <1>0, <2>2, <3>1 DEF LoneWalk, a, t, kept
  <2>. QED  BY <1>0, <2>1, <2>2, <2>5, OthersWalk DEF Undisturbed
<1>3. ASSUME NEW w \in Worker,
             \/ Unwind(w) \/ Enter(w) \/ ExhaustBudget(w)
             \/ PassChecks(w) \/ ChargeNode(w) \/ Explore(w)
      PROVE  Undisturbed'
  <2>1. /\ pc[w] \in Busy /\ (stopFlag => stopFlag') /\ UNCHANGED <<partials, job>>
        /\ \E place \in Busy : pc' = [pc EXCEPT ![w] = place]
    BY <1>3, WorkerEffects
  <2>. SUFFICES ASSUME ~stopFlag' PROVE Undisturbed'
    BY DEF Undisturbed
  <2>2. ~stopFlag /\ LoneWalk(w)
    BY <2>1 DEF Undisturbed
  <2>3. LoneWalk(w)'
    BY <1>0, <1>3, <2>2, EnterLone, ExhaustLone, PassLone, ChargeLone, ExploreLone
  <2>4. \A v \in Worker \ {w} :
           /\ pc'[v] = pc[v] /\ job'[v] = job[v] /\ cursor'[v] = cursor[v]
           /\ nodes'[v] = nodes[v] /\ results'[v] = results[v]
           /\ hit'[v] = hit[v] /\ ceiled'[v] = ceiled[v]
    BY <1>3, <2>1 DEF Unwind, Enter, ExhaustBudget, PassChecks, ChargeNode, Explore,
                      walk, SearchInv, TypeOK, ResultsTyped
  <2>. QED  BY <1>0, <2>1, <2>2, <2>3, <2>4, OthersWalk DEF Undisturbed
<1>4. ASSUME NEW w \in Worker, NoticeCancel(w) \/ RefuseNode(w) PROVE Undisturbed'
  BY <1>4 DEF NoticeCancel, RefuseNode, Undisturbed
<1>5. ASSUME NEW w \in Worker, Deliver(w) PROVE Undisturbed'
  <2>1. /\ pc[w] = "return" /\ pc' = [pc EXCEPT ![w] = "idle"]
        /\ partials' = [i \in DOMAIN partials \cup {job[w]} |->
                           IF i = job[w] THEN Result(w) ELSE partials[i]]
        /\ UNCHANGED <<job, cursor, nodes, results, hit, ceiled, stopFlag>>
    BY <1>5 DEF Deliver, GoTo, walk
  <2>. SUFFICES ASSUME ~stopFlag PROVE Undisturbed'
    BY <2>1 DEF Undisturbed
  <2>2. pc[w] \in Busy /\ LoneWalk(w)
    BY <2>1 DEF Busy, Undisturbed
  <2>3. Result(w) = Alone(setting, job[w])
    <3>. DEFINE a == Affordable(setting, job[w])
                t == TreeSize[job[w]]
                c == cursor[w]
    <3>1. /\ job[w] \in Task /\ setting \in Setting /\ hit[w] \in BOOLEAN
      BY <2>2, BusyWorker
    <3>2. a \in Nat /\ t \in Nat /\ a <= t
      BY <3>1, AffordableType
    <3>3. /\ c = t + 1 /\ nodes[w] = IF c - 1 < a THEN c - 1 ELSE a
          /\ results[w] = Found(job[w])[IF c - 1 < a THEN c - 1 ELSE a]
          /\ hit[w] <=> c - 1 > a
          /\ ~ceiled[w]
      BY <2>1, <2>2 DEF LoneWalk
    <3>. HIDE DEF a, t, c
    <3>4. nodes[w] = a /\ results[w] = Found(job[w])[a] /\ (hit[w] <=> a < t)
      BY <3>2, <3>3
    <3>5. hit[w] = (a < t)
      <4>1. (a < t) \in BOOLEAN
        BY <3>2
      <4>. QED  BY <3>1, <3>4, <4>1
    <3>6. ceiled[w] = FALSE
      BY <2>2 DEF LoneWalk, ResultsTyped
    <3>. QED  BY <3>4, <3>5, <3>6 DEF Result, Alone, a, t
  <2>4. \A i \in DOMAIN partials' : partials'[i] = Alone(setting, i)
    BY <2>1, <2>3 DEF Undisturbed
  <2>5. \A v \in Worker : pc'[v] \in Busy => pc[v] \in Busy /\ pc'[v] = pc[v]
    BY <2>1 DEF SearchInv, TypeOK, Busy
  <2>. QED  BY <1>0, <2>1, <2>4, <2>5, OthersWalk DEF Undisturbed
<1>6. ASSUME NEW w \in Worker, Leave(w) PROVE Undisturbed'
  <2>1. /\ pc[w] = "idle" /\ pc' = [pc EXCEPT ![w] = "exit"]
        /\ UNCHANGED <<job, cursor, nodes, results, hit, ceiled, partials, stopFlag>>
    BY <1>6 DEF Leave, GoTo, walk, dispatch
  <2>2. \A v \in Worker : pc'[v] \in Busy => pc[v] \in Busy /\ pc'[v] = pc[v]
    BY <2>1 DEF SearchInv, TypeOK, Busy
  <2>. QED  BY <1>0, <2>1, <2>2, OthersWalk DEF Undisturbed
<1>. QED  BY <1>1, <1>2, <1>3, <1>4, <1>5, <1>6 DEF Next, WorkerStep, Finished
-----------------------------------------------------------------------------
LEMMA NextExplained ==
    ASSUME SearchInv, ResultsTyped, Delivered, StopExplained, [Next]_vars
    PROVE  StopExplained'
<1>1. CASE MainStep \/ Cancel \/ UNCHANGED vars
  <2>1. UNCHANGED <<pc, ceiled, partials, refused>>
    BY <1>1 DEF MainStep, CheckStop, CheckContext, StopDispatch, Collect,
                Cancel, vars, dispatch, walk, ghosts
  <2>2. (ctxDone => ctxDone') /\ (stopFlag' => stopFlag \/ ctxDone)
    BY <1>1 DEF MainStep, CheckStop, CheckContext, StopDispatch, Collect,
                Cancel, vars, dispatch
  <2>. QED  BY <2>1, <2>2 DEF StopExplained
<1>2. ASSUME NEW w \in Worker, Receive(w) PROVE StopExplained'
  <2>1. /\ pc[w] = "idle" /\ pc' = [pc EXCEPT ![w] = "enter"]
        /\ ceiled' = [ceiled EXCEPT ![w] = FALSE]
        /\ UNCHANGED <<partials, stopFlag, ctxDone, refused>>
    BY <1>2 DEF Receive, ghosts
  <2>2. \A v \in Worker : pc[v] \in Busy =>
            pc'[v] = pc[v] /\ ceiled'[v] = ceiled[v]
    BY <2>1 DEF SearchInv, TypeOK, ResultsTyped, Busy
  <2>. QED  BY <2>1, <2>2 DEF StopExplained
<1>3. ASSUME NEW w \in Worker, Explore(w) PROVE StopExplained'
  <2>1. PICK top \in BOOLEAN : /\ ceiled' = [ceiled EXCEPT ![w] = @ \/ top]
                               /\ stopFlag' = (stopFlag \/ top)
    BY <1>3 DEF Explore
  <2>2. /\ pc[w] = "counted" /\ pc' = [pc EXCEPT ![w] = "enter"] /\ ~stopFlag
        /\ UNCHANGED <<partials, ctxDone, refused>>
    BY <1>3 DEF Explore, GoTo, dispatch
  <2>3. pc'[w] \in Busy /\ (top => ceiled'[w])
    BY <2>1, <2>2 DEF SearchInv, TypeOK, ResultsTyped, Busy
  <2>. QED  BY <2>1, <2>2, <2>3 DEF StopExplained
<1>4. ASSUME NEW w \in Worker, Deliver(w) PROVE StopExplained'
  <2>1. /\ pc[w] = "return" /\ pc' = [pc EXCEPT ![w] = "idle"]
        /\ partials' = [i \in DOMAIN partials \cup {job[w]} |->
                           IF i = job[w] THEN Result(w) ELSE partials[i]]
        /\ UNCHANGED <<ceiled, stopFlag, ctxDone, refused>>
    BY <1>4 DEF Deliver, GoTo, walk, ghosts
  <2>2. /\ job[w] \in DOMAIN partials' /\ partials'[job[w]].ceiled = ceiled[w]
        /\ \A i \in DOMAIN partials : /\ i \in DOMAIN partials'
                                      /\ partials'[i] = partials[i]
    BY <2>1 DEF Result, Delivered, Busy
  <2>3. \A v \in Worker \ {w} : pc'[v] = pc[v]
    BY <2>1 DEF SearchInv, TypeOK
  <2>. QED  BY <2>1, <2>2, <2>3 DEF StopExplained
<1>5. ASSUME NEW w \in Worker,
             \/ Unwind(w) \/ Enter(w) \/ NoticeCancel(w) \/ ExhaustBudget(w)
             \/ PassChecks(w) \/ ChargeNode(w) \/ RefuseNode(w)
      PROVE  StopExplained'
  <2>1. PICK place \in Busy : pc' = [pc EXCEPT ![w] = place]
    BY <1>5, WorkerEffects
  <2>2. /\ UNCHANGED <<ceiled, partials, ctxDone>> /\ (refused => refused')
        /\ stopFlag' => stopFlag \/ ctxDone \/ refused'
    BY <1>5 DEF Unwind, Enter, NoticeCancel, SeesCancel, ExhaustBudget,
                PassChecks, ChargeNode, RefuseNode, walk, dispatch, ghosts
  <2>3. \A v \in Worker : pc[v] \in Busy => pc'[v] \in Busy
    BY <2>1 DEF SearchInv, TypeOK
  <2>. QED  BY <2>2, <2>3 DEF StopExplained
<1>6. ASSUME NEW w \in Worker, Leave(w) PROVE StopExplained'
  <2>1. /\ pc[w] = "idle" /\ pc' = [pc EXCEPT ![w] = "exit"]
        /\ UNCHANGED <<ceiled, partials, stopFlag, ctxDone, refused>>
    BY <1>6 DEF Leave, GoTo, walk, dispatch, ghosts
  <2>2. \A v \in Worker : pc[v] \in Busy => pc'[v] \in Busy
    BY <2>1 DEF SearchInv, TypeOK, Busy
  <2>. QED  BY <2>1, <2>2 DEF StopExplained
<1>. QED  BY <1>1, <1>2, <1>3, <1>4, <1>5, <1>6 DEF Next, WorkerStep, Finished

\* The merge loop drops no flag of a result it has come by.
LEMMA MergedFlags ==
    ASSUME SearchInv, ResultsTyped, NEW i \in DOMAIN partials
    PROVE  /\ partials[i].hit => MergeInRootOrder(partials).hit
           /\ partials[i].ceiled => MergeInRootOrder(partials).ceiled
<1>. DEFINE M == Merged(partials)
            Told(k) == /\ partials[i].hit => M[k].hit
                       /\ partials[i].ceiled => M[k].ceiled
            T == {k \in 0..NTasks : k >= i => Told(k)}
<1>0. NTasks \in Nat /\ i \in 1..NTasks
  BY SearchAssumption DEF SearchAssumption, SearchInv, TypeOK, Task
<1>1. /\ M \in [0..NTasks -> Outcome]
      /\ \A k \in 1..NTasks : M[k] = IF k \in DOMAIN partials
                                     THEN Plus(M[k - 1], partials[k]) ELSE M[k - 1]
  BY MergedStep DEF ResultsTyped
<1>. HIDE DEF M
<1>2. 0 \in T
  BY <1>0
<1>3. ASSUME NEW k \in 0..(NTasks - 1), k \in T
      PROVE  k + 1 \in T
  <2>1. k \in 0..NTasks /\ k + 1 \in 1..NTasks /\ k + 1 \in 0..NTasks /\ (k + 1) - 1 = k
    BY <1>0
  <2>2. M[k] \in Outcome
    BY <1>1, <2>1
  <2>3. k >= i => Told(k)
    BY <1>3
  <2>4. CASE k + 1 \in DOMAIN partials
    <3>1. M[k + 1] = Plus(M[k], partials[k + 1]) /\ partials[k + 1] \in Outcome
      BY <1>1, <2>1, <2>4 DEF ResultsTyped
    <3>2. CASE k + 1 = i
      BY <2>1, <2>2, <3>1, <3>2, PlusType
    <3>3. CASE k + 1 # i
      <4>1. k + 1 >= i => k >= i
        BY <1>0, <2>1, <3>3
      <4>. QED  BY <2>1, <2>2, <2>3, <3>1, <4>1, PlusType
    <3>. QED  BY <3>2, <3>3
  <2>5. CASE k + 1 \notin DOMAIN partials
    <3>1. M[k + 1] = M[k] /\ k + 1 # i
      BY <1>1, <2>1, <2>5
    <3>2. k + 1 >= i => k >= i
      BY <1>0, <2>1, <3>1
    <3>. QED  BY <2>1, <2>3, <3>1, <3>2
  <2>. QED  BY <2>4, <2>5
<1>. HIDE DEF T
<1>4. 0..NTasks \subseteq T
  BY <1>0, <1>2, <1>3, InductionUpTo
<1>5. NTasks \in T /\ NTasks >= i
  BY <1>0, <1>4
<1>6. Told(NTasks)
  BY <1>5 DEF T
<1>. QED  BY <1>6 DEF MergeInRootOrder, M

\* The tree of a root, and the root that is granted all of it.
Tree(i) == {<<i, k>> : k \in 1..TreeSize[i]}

LEMMA TreeCount ==
    ASSUME NEW i \in Task
    PROVE  IsFiniteSet(Tree(i)) /\ Cardinality(Tree(i)) = TreeSize[i]
<1>. DEFINE f == [k \in 1..TreeSize[i] |-> <<i, k>>]
<1>0. TreeSize[i] \in Nat
  BY SearchAssumption DEF SearchAssumption
<1>1. f \in Bijection(1..TreeSize[i], Tree(i))
  <2>1. f \in [1..TreeSize[i] -> Tree(i)]
    BY DEF Tree
  <2>2. \A k, l \in 1..TreeSize[i] : f[k] = f[l] => k = l
    OBVIOUS
  <2>3. \A n \in Tree(i) : \E k \in 1..TreeSize[i] : f[k] = n
    BY DEF Tree
  <2>. QED  BY <2>1, <2>2, <2>3 DEF Bijection, Injection, Surjection, IsInjective
<1>2. ExistsBijection(1..TreeSize[i], Tree(i))
  BY <1>1 DEF ExistsBijection
<1>. QED  BY <1>0, <1>2, FS_CountingElements, FS_NatBijection

LEMMA GrantsOfRoot ==
    ASSUME SearchInv, NEW i \in Task, Cardinality(GrantsIn(spent, i)) = TreeSize[i]
    PROVE  Tree(i) \subseteq spent
<1>1. GrantsIn(spent, i) \subseteq Tree(i)
  <2>. SUFFICES ASSUME NEW n \in spent, n[1] = i PROVE n \in Tree(i)
    BY DEF GrantsIn
  <2>1. n \in AllNodes /\ i # 0
    BY DEF SearchInv, TypeOK, Task
  <2>2. n \in SearchNode
    BY <2>1, RootOfNode DEF AllNodes
  <2>3. PICK j \in Task : n \in {<<j, k>> : k \in 1..TreeSize[j]}
    BY <2>2, Zenon DEF SearchNode
  <2>. QED  BY <2>3 DEF Tree
<1>2. GrantsIn(spent, i) = Tree(i)
  <2>1. GrantsIn(spent, i) \in SUBSET Tree(i)
    BY <1>1
  <2>. QED  BY <2>1, TreeCount, FS_Subset
<1>. QED  BY <1>2 DEF GrantsIn
-----------------------------------------------------------------------------
DeliveryInv == /\ ResultsTyped /\ Delivered /\ Accounts /\ Survives
               /\ Undisturbed /\ StopExplained

\* The results on their way, together with the counters and places of the
\* workers, are an inductive invariant.
THEOREM DeliveryInvariant == Spec => [](SearchInv /\ DeliveryInv)
<1>1. Init => DeliveryInv
  <2>. SUFFICES ASSUME Init PROVE Survives /\ Undisturbed /\ StopExplained
    BY InitDelivered, InitAccounts DEF DeliveryInv
  <2>1. seen = {} /\ DOMAIN partials = {} /\ \A w \in Worker : pc[w] \notin Busy
    BY DEF Init, Busy
  <2>2. stopFlag => ctxDone
    BY DEF Init
  <2>. QED  BY <2>1, <2>2 DEF Survives, Undisturbed, StopExplained
<1>2. SearchInv /\ DeliveryInv /\ [Next]_vars => DeliveryInv'
  BY NextResultsTyped, NextDelivered, NextAccounts, NextSurvives, NextUndisturbed,
     NextExplained
  DEF DeliveryInv
<1>. QED  BY <1>1, <1>2, InitSearchInv, NextKeepsSearchInv, PTL DEF Spec

\* However the search ends, by exhaustion, cancellation, a refusal or a
\* ceiling, the nodes it reports are the nodes it charged (runTasks and
\* reportNode of solver.go).
THEOREM ReportsItsCharges == Spec => []ReportedIsCharged
<1>1. SearchInv /\ DeliveryInv => ReportedIsCharged
  BY MergedCounts DEF DeliveryInv, ReportedIsCharged
<1>. QED  BY DeliveryInvariant, <1>1, PTL

\* However the search ends, nothing it returns is worse than the best leaf any
\* worker inserted: the cut to TopN in a worker, in the merge of two results
\* and in the order of the roots never costs the best (mergeSolutions).
THEOREM NothingFoundIsLost == Spec => []BestSurvives
<1>1. SearchInv /\ DeliveryInv => BestSurvives
  <2>. SUFFICES ASSUME SearchInv, DeliveryInv, main = "done" PROVE BestSurvives
    BY DEF BestSurvives
  <2>. QED  BY MergedSurvives DEF DeliveryInv
<1>. QED  BY DeliveryInvariant, <1>1, PTL

\* When nothing stopped the search, every root has its lone result.
LEMMA UnstoppedPartials ==
    ASSUME SearchInv, DeliveryInv, main = "done", ~stopFlag
    PROVE  partials = [i \in Task |-> Alone(setting, i)]
<1>1. NTasks \in Nat /\ next \in Int /\ next > NTasks
  BY SearchAssumption
  DEF DeliveryInv, Delivered, SearchInv, TypeOK, SearchAssumption
<1>2. \A w \in Worker : pc[w] \notin Busy
  BY DEF DeliveryInv, Delivered, Busy
<1>3. \A i \in Task : i \in DOMAIN partials
  BY <1>1, <1>2 DEF DeliveryInv, Delivered, Task
<1>4. DOMAIN partials = Task
  BY <1>3 DEF SearchInv, TypeOK
<1>5. partials = [i \in DOMAIN partials |-> partials[i]]
  BY DEF DeliveryInv, ResultsTyped
<1>6. \A i \in DOMAIN partials : partials[i] = Alone(setting, i)
  BY DEF DeliveryInv, Undisturbed
<1>. QED  BY <1>4, <1>5, <1>6

\* A search that nothing stopped returns what one worker walking the roots in
\* turn would return, for every number of workers and every schedule.
THEOREM PoolIsDeterministic == Spec => []Deterministic
<1>1. SearchInv /\ DeliveryInv => Deterministic
  BY UnstoppedPartials DEF Deterministic, DeliveryInv, Delivered
<1>. QED  BY DeliveryInvariant, <1>1, PTL

\* A search called completed (solver.go:1196) has visited every node of every
\* root: a ceiling or a budget that cut one short is told by some result, and
\* no merge loses it, whoever stopped whom and whatever was still in hand.
THEOREM CompletedSearchIsExhaustive == Spec => []CompletedIsExhausted
<1>1. ASSUME SearchInv, DeliveryInv, main = "done", Completed, ~ctxDone, ~refused
      PROVE  SearchNode \subseteq spent
  <2>1. /\ combined = MergeInRootOrder(partials) /\ ResultsTyped
        /\ \A w \in Worker : pc[w] \notin Busy
    BY <1>1 DEF DeliveryInv, Delivered, Busy
  <2>2. \A i \in DOMAIN partials : ~partials[i].hit /\ ~partials[i].ceiled
    BY <1>1, <2>1, MergedFlags DEF Completed
  <2>3. ~stopFlag
    BY <1>1, <2>1, <2>2 DEF DeliveryInv, StopExplained
  <2>4. partials = [i \in Task |-> Alone(setting, i)]
    BY <1>1, <2>3, UnstoppedPartials
  <2>5. ASSUME NEW i \in Task PROVE Tree(i) \subseteq spent
    <3>1. /\ i \in DOMAIN partials
          /\ partials[i].explored = Affordable(setting, i)
          /\ partials[i].hit = (Affordable(setting, i) < TreeSize[i])
      BY <2>4 DEF Alone
    <3>2. /\ TreeSize[i] \in Nat /\ Affordable(setting, i) \in Nat
          /\ Affordable(setting, i) <= TreeSize[i]
      BY <2>1, AffordableType DEF ResultsTyped
    <3>3. ~ (Affordable(setting, i) < TreeSize[i])
      BY <2>2, <3>1
    <3>4. Cardinality(GrantsIn(spent, i)) = TreeSize[i]
      <4>1. Affordable(setting, i) = TreeSize[i]
        BY <3>2, <3>3
      <4>. QED  BY <1>1, <3>1, <4>1 DEF DeliveryInv, Accounts
    <3>. QED  BY <1>1, <3>4, GrantsOfRoot
  <2>6. SearchNode = UNION {Tree(i) : i \in Task}
    BY DEF SearchNode, Tree
  <2>. QED  BY <2>5, <2>6
<1>2. SearchInv /\ DeliveryInv => CompletedIsExhausted
  BY <1>1 DEF CompletedIsExhausted
<1>. QED  BY DeliveryInvariant, <1>2, PTL
=============================================================================
