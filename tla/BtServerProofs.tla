--------------------------- MODULE BtServerProofs ---------------------------
(* Theorems about BtServer, for every value of its constants.                *)
EXTENDS BtServer, FiniteSetTheorems, TLAPS

(* The initial state has the type.                                           *)
LEMMA TypeInit == Init => TypeOK
<1> USE ConstantsAssumption DEF Slots, MainPcs, ThreadPcs, PeerStates
<1> SUFFICES ASSUME Init PROVE TypeOK
  OBVIOUS
<1>1. canceled \in BOOLEAN
  BY Zenon DEF Init
<1>2. backlog \in Seq(Clients)
  BY DEF Init
<1>3. /\ mainPc \in MainPcs
      /\ nSporeSocket \in Fds \cup {BadFd, EMPTY_SOCKET}
      /\ nFreeSocketSlot \in 0 .. SlotCount
      /\ nSocketList \in [Slots -> Fds \cup {BadFd, EMPTY_SOCKET}]
  BY DEF Init
<1>4. /\ pc \in [Threads -> ThreadPcs]
      /\ sock \in [Threads -> Fds \cup {BadFd, EMPTY_SOCKET}]
      /\ scan \in [Threads -> 0 .. SlotCount]
      /\ recvOn \in [Threads -> Clients \cup {NoClient}]
  BY DEF Init
<1>5. /\ open \in [Fds -> Clients \cup {NoClient}]
      /\ peer \in [Clients -> PeerStates]
  BY DEF Init
<1> QED
  BY <1>1, <1>2, <1>3, <1>4, <1>5 DEF TypeOK

(* Every step keeps the type.                                                *)
LEMMA TypeStep == TypeOK /\ [Next]_vars => TypeOK'
<1> USE ConstantsAssumption DEF Slots, MainPcs, ThreadPcs, PeerStates
<1> SUFFICES ASSUME TypeOK, [Next]_vars PROVE TypeOK'
  OBVIOUS
<1>0. ASSUME NEW names, NEW holds
      PROVE  PeerAfter(names, holds) \in [Clients -> PeerStates]
  BY DEF PeerAfter, TypeOK
<1>1. ASSUME NEW c \in Clients, Connect(c) PROVE TypeOK'
  <2>1. backlog' \in Seq(Clients)
    BY <1>1 DEF TypeOK, Connect
  <2>2. peer' \in [Clients -> PeerStates]
    BY <1>1 DEF TypeOK, Connect
  <2>3. UNCHANGED <<canceled, mainVars, nSocketList, threadVars, open>>
    BY <1>1 DEF Connect
  <2> QED
    BY <2>1, <2>2, <2>3 DEF TypeOK, mainVars, threadVars
<1>2. ASSUME NEW c \in Clients, NEW how \in Ends, Disconnect(c, how)
      PROVE  TypeOK'
  BY <1>2 DEF TypeOK, Disconnect, mainVars, threadVars
<1>3. CASE sig_term
  <2> canceled' \in BOOLEAN /\ UNCHANGED <<nSocketList, open, backlog>>
    BY <1>3, Zenon DEF sig_term
  <2>1. CASE SignalMain
    BY <2>1 DEF TypeOK, SignalMain, threadVars
  <2>2. ASSUME NEW t \in Threads, SignalThread(t) PROVE TypeOK'
    BY <2>2, <1>0 DEF TypeOK, SignalThread, mainVars
  <2>3. CASE SignalUnnoticed
    BY <2>3 DEF TypeOK, SignalUnnoticed, mainVars, threadVars
  <2> QED
    BY <1>3, <2>1, <2>2, <2>3 DEF sig_term
<1>4. CASE Main
  <2>1. CASE MainCheck
    BY <2>1 DEF TypeOK, MainCheck, threadVars, netVars
  <2>2. CASE AcceptClient
    BY <2>2 DEF TypeOK, AcceptClient, threadVars
  <2>3. CASE AcceptFails
    BY <2>3 DEF TypeOK, AcceptFails, threadVars, netVars
  <2>4. CASE getFreeClient
    BY <2>4 DEF TypeOK, getFreeClient, threadVars, netVars
  <2>5. CASE Refuse
    BY <2>5, <1>0 DEF TypeOK, Refuse, CloseFd, threadVars
  <2>6. CASE StoreSlot
    BY <2>6 DEF TypeOK, StoreSlot, threadVars, netVars
  <2>7. CASE Spawn
    BY <2>7 DEF TypeOK, Spawn, netVars
  <2>8. CASE SpawnFails
    BY <2>8 DEF TypeOK, SpawnFails, threadVars, netVars
  <2>9. CASE SleepOver
    BY <2>9 DEF TypeOK, SleepOver, threadVars, netVars
  <2> QED
    BY <1>4, <2>1, <2>2, <2>3, <2>4, <2>5, <2>6, <2>7, <2>8, <2>9 DEF Main
<1>5. ASSUME NEW t \in Threads, BT_clientService(t) PROVE TypeOK'
  <2> USE DEF mainVars, Goto
  <2> UNCHANGED <<canceled, mainVars, backlog>>
    BY <1>5 DEF BT_clientService
  <2>1. CASE Start(t)
    BY <2>1 DEF TypeOK, Start
  <2>2. CASE PrepareSeq(t)
    BY <2>2 DEF TypeOK, PrepareSeq
  <2>3. CASE EnterRecv(t)
    <3>1. pc' \in [Threads -> ThreadPcs]
      BY <2>3 DEF TypeOK, EnterRecv
    <3>2. recvOn' \in [Threads -> Clients \cup {NoClient}]
      BY <2>3 DEF TypeOK, EnterRecv
    <3>3. UNCHANGED <<sock, scan, nSocketList, open, peer>>
      BY <2>3 DEF EnterRecv
    <3> QED
      BY <3>1, <3>2, <3>3 DEF TypeOK
  <2>4. CASE RecvEmpty(t) \/ RecvFails(t)
    <3>1. PICK to \in ThreadPcs : RecvReturns(t, to)
      BY <2>4 DEF RecvEmpty, RecvFails
    <3> QED
      BY <3>1, <1>0 DEF TypeOK, RecvReturns
  <2>5. CASE CloseSocket(t)
    <3>1. SlotCount \in 0 .. SlotCount
      OBVIOUS
    <3>2. /\ open' \in [Fds -> Clients \cup {NoClient}]
          /\ peer' \in [Clients -> PeerStates]
      BY <2>5, <1>0 DEF TypeOK, CloseSocket, CloseFd
    <3>3. /\ pc' \in [Threads -> ThreadPcs]
          /\ scan' \in [Threads -> 0 .. SlotCount]
          /\ UNCHANGED <<sock, recvOn, nSocketList>>
      BY <2>5, <3>1 DEF TypeOK, CloseSocket
    <3> QED
      BY <3>2, <3>3 DEF TypeOK
  <2>6. CASE setSocketSlotFree(t)
    <3>1. pc' \in [Threads -> ThreadPcs]
      BY <2>6 DEF TypeOK, setSocketSlotFree
    <3>2. scan' \in [Threads -> 0 .. SlotCount]
      <4>1. CASE UNCHANGED scan
        BY <4>1 DEF TypeOK
      <4>2. CASE scan[t] # 0 /\ scan' = [scan EXCEPT ![t] = @ - 1]
        <5>1. scan[t] - 1 \in 0 .. SlotCount
          BY <4>2 DEF TypeOK
        <5> QED
          BY <4>2, <5>1 DEF TypeOK
      <4> QED
        BY <2>6, <4>1, <4>2 DEF setSocketSlotFree
    <3>3. nSocketList' \in [Slots -> Fds \cup {BadFd, EMPTY_SOCKET}]
      BY <2>6 DEF TypeOK, setSocketSlotFree
    <3>4. UNCHANGED <<sock, recvOn, open, peer>>
      BY <2>6 DEF setSocketSlotFree
    <3> QED
      BY <3>1, <3>2, <3>3, <3>4 DEF TypeOK
  <2>7. CASE Release(t)
    BY <2>7 DEF TypeOK, Release
  <2> QED
    BY <1>5, <2>1, <2>2, <2>3, <2>4, <2>5, <2>6, <2>7 DEF BT_clientService
<1>6. ASSUME NEW t \in Threads, BT_dataArrives(t) PROVE TypeOK'
  BY <1>6, <1>0
     DEF TypeOK, BT_dataArrives, RecvData, RecvReturns, Goto, mainVars
<1>7. CASE UNCHANGED vars
  BY <1>7 DEF TypeOK, vars, mainVars, threadVars, netVars
<1> QED
  BY <1>1, <1>2, <1>3, <1>4, <1>5, <1>6, <1>7 DEF Next

(* Every variable of the accept loop and of the service threads keeps its    *)
(* type (bt_daemon.c:85-108, 370-439, 838-861).                              *)
THEOREM TypeCorrect == Spec => []TypeOK
  BY TypeInit, TypeStep, PTL DEF Spec

-----------------------------------------------------------------------------
(* The inductive invariant, for a daemon whose threads start while main      *)
(* sleeps.                                                                   *)

(* A thread that has not read nSporeSocket keeps main from the next accept.  *)
StartOrder ==
  \A t \in Threads :
    pc[t] = "start" => \/ mainPc \in {"sleep", "exited"}
                       \/ mainPc = "check" /\ canceled

OneStart ==
  \A t, u \in Threads : pc[t] = "start" /\ pc[u] = "start" => t = u

(* Thread t has yet to look at slot s in setSocketSlotFree.                  *)
WillVisit(t, s) ==
  /\ pc[t] \notin {"idle", "release"}
  /\ pc[t] = "free"  => s < scan[t]
  /\ pc[t] = "clear" => s <= scan[t]

SlotOwned ==
  Running =>
    \A s \in Slots :
      \/ nSocketList[s] = EMPTY_SOCKET
      \/ /\ mainPc = "spawn"
         /\ nFreeSocketSlot = s
         /\ nSocketList[s] = nSporeSocket
      \/ \E t \in Threads : WillVisit(t, s) /\ Serves(t) = nSocketList[s]

SlotInv == TypeOK /\ StartOrder /\ OneStart /\ SlotOwned

(* Main still has the socket it accepted in hand.                            *)
InHand ==
  \/ mainPc \in {"scan", "refuse", "store", "spawn"}
  \/ \E t \in Threads : pc[t] = "start"

DescriptorInv ==
  /\ \A t \in Threads :
       pc[t] \in Serving =>
         /\ sock[t] # EMPTY_SOCKET
         /\ sock[t] \in Fds => open[sock[t]] # NoClient
  /\ InHand =>
       /\ nSporeSocket # EMPTY_SOCKET
       /\ nSporeSocket \in Fds =>
            /\ open[nSporeSocket] # NoClient
            /\ \A t \in Threads : pc[t] \in Serving => sock[t] # nSporeSocket
  /\ OwnDescriptor

-----------------------------------------------------------------------------

(* While main sleeps or runs on, the threads it made last still know their   *)
(* socket: StartOrder and OneStart are kept by every step.                   *)
LEMMA StartStep ==
  ASSUME StartsWithinSleep, TypeOK, StartOrder, OneStart, [Next]_vars
  PROVE  StartOrder' /\ OneStart'
<1> USE DEF StartOrder, OneStart
<1>1. CASE \E c \in Clients : Connect(c)
  BY <1>1 DEF Connect, mainVars, threadVars
<1>2. CASE \E c \in Clients, how \in Ends : Disconnect(c, how)
  BY <1>2 DEF Disconnect, mainVars, threadVars
<1>3. CASE sig_term
  <2>1. CASE SignalMain
    BY <1>3, <2>1 DEF sig_term, SignalMain, threadVars
  <2>2. ASSUME NEW t \in Threads, SignalThread(t)
        PROVE  StartOrder' /\ OneStart'
    BY <1>3, <2>2 DEF sig_term, SignalThread, mainVars, TypeOK
  <2>3. CASE SignalUnnoticed
    BY <1>3, <2>3 DEF sig_term, SignalUnnoticed, mainVars, threadVars
  <2> QED
    BY <1>3, <2>1, <2>2, <2>3 DEF sig_term
<1>4. CASE Main
  <2>1. CASE MainCheck \/ AcceptClient \/ AcceptFails \/ getFreeClient \/ Refuse
    BY <2>1 DEF MainCheck, AcceptClient, AcceptFails, getFreeClient, Refuse,
                threadVars
  <2>2. CASE StoreSlot \/ SpawnFails
    BY <2>2 DEF StoreSlot, SpawnFails, threadVars
  <2>3. CASE Spawn
    BY <2>3 DEF Spawn, TypeOK
  <2>4. CASE SleepOver
    BY <2>4 DEF SleepOver, threadVars
  <2> QED
    BY <1>4, <2>1, <2>2, <2>3, <2>4 DEF Main
<1>5. ASSUME NEW t \in Threads, BT_clientService(t) \/ BT_dataArrives(t)
      PROVE  StartOrder' /\ OneStart'
  <2>1. UNCHANGED <<canceled, mainPc>>
    BY <1>5 DEF BT_clientService, BT_dataArrives, mainVars
  <2>2. /\ \A u \in Threads : u # t => pc'[u] = pc[u]
        /\ pc'[t] = "start" => pc[t] = "start"
    BY <1>5 DEF TypeOK, BT_clientService, BT_dataArrives, Goto, Start,
       PrepareSeq, EnterRecv, RecvData, RecvEmpty, RecvFails, RecvReturns,
       CloseSocket, setSocketSlotFree, Release
  <2> QED
    BY <2>1, <2>2
<1>6. CASE UNCHANGED vars
  BY <1>6 DEF vars, mainVars, threadVars
<1> QED
  BY <1>1, <1>2, <1>3, <1>4, <1>5, <1>6 DEF Next

(* A step that leaves the slots and the main loop alone keeps every slot     *)
(* owned when each thread that had to visit a slot still has to, for the     *)
(* same socket.                                                              *)
LEMMA OwnersKept ==
  ASSUME SlotOwned,
         UNCHANGED <<nSocketList, nFreeSocketSlot>>,
         Running' => Running,
         Running /\ mainPc = "spawn" =>
           ~Running' \/ (mainPc' = "spawn" /\ nSporeSocket' = nSporeSocket),
         \A t \in Threads, s \in Slots :
           Running' /\ WillVisit(t, s) /\ Serves(t) = nSocketList[s] =>
             WillVisit(t, s)' /\ Serves(t)' = Serves(t)
  PROVE  SlotOwned'
BY DEF SlotOwned

(* SlotOwned is kept by every step of a service thread.                      *)
LEMMA SlotThreadStep ==
  ASSUME TypeOK, SlotOwned, NEW t \in Threads,
         BT_clientService(t) \/ BT_dataArrives(t)
  PROVE  SlotOwned'
<1> DEFINE Kept(u, s) == WillVisit(u, s)' /\ Serves(u)' = Serves(u)
<1>1. /\ UNCHANGED <<canceled, mainPc, nSporeSocket, nFreeSocketSlot>>
      /\ Running /\ Running'
  BY DEF BT_clientService, BT_dataArrives, mainVars, Running
<1>2. ASSUME UNCHANGED nSocketList,
             \A s \in Slots :
               WillVisit(t, s) /\ Serves(t) = nSocketList[s] => Kept(t, s),
             \A u \in Threads :
               u # t => UNCHANGED <<pc[u], sock[u], scan[u]>>
      PROVE  SlotOwned'
  <2>1. \A u \in Threads, s \in Slots :
          WillVisit(u, s) /\ Serves(u) = nSocketList[s] => Kept(u, s)
    BY <1>1, <1>2 DEF WillVisit, Serves
  <2> QED
    BY <1>1, <1>2, <2>1, OwnersKept
<1>3. CASE Start(t)
  <2>1. /\ \A s \in Slots : Kept(t, s)
        /\ \A u \in Threads : u # t => UNCHANGED <<pc[u], sock[u], scan[u]>>
    BY <1>1, <1>3 DEF Start, Goto, TypeOK, WillVisit, Serves
  <2> QED
    BY <1>2, <1>3, <2>1 DEF Start
<1>4. CASE PrepareSeq(t) \/ EnterRecv(t)
  <2>1. /\ \A s \in Slots : Kept(t, s)
        /\ \A u \in Threads : u # t => UNCHANGED <<pc[u], sock[u], scan[u]>>
        /\ UNCHANGED nSocketList
    BY <1>1, <1>4 DEF PrepareSeq, EnterRecv, Goto, TypeOK, WillVisit, Serves
  <2> QED
    BY <1>2, <2>1
<1>5. CASE RecvData(t) \/ RecvEmpty(t) \/ RecvFails(t)
  <2>1. /\ \A s \in Slots : Kept(t, s)
        /\ \A u \in Threads : u # t => UNCHANGED <<pc[u], sock[u], scan[u]>>
        /\ UNCHANGED nSocketList
    BY <1>1, <1>5 DEF RecvData, RecvEmpty, RecvFails, RecvReturns, Goto,
                     TypeOK, WillVisit, Serves
  <2> QED
    BY <1>2, <2>1
<1>6. CASE CloseSocket(t)
  <2>1. /\ \A s \in Slots : Kept(t, s)
        /\ \A u \in Threads : u # t => UNCHANGED <<pc[u], sock[u], scan[u]>>
        /\ UNCHANGED nSocketList
    BY <1>1, <1>6, ConstantsAssumption
       DEF CloseSocket, Goto, TypeOK, WillVisit, Serves, Slots
  <2> QED
    BY <1>2, <2>1
<1>7. CASE setSocketSlotFree(t) /\ pc[t] = "free"
  <2>1. /\ \A u \in Threads : u # t => UNCHANGED <<pc[u], sock[u], scan[u]>>
        /\ UNCHANGED nSocketList
    BY <1>7 DEF setSocketSlotFree, Goto, TypeOK
  <2>2. ASSUME NEW s \in Slots, WillVisit(t, s), Serves(t) = nSocketList[s]
        PROVE  Kept(t, s)
    <3>1. s < scan[t] /\ s \in Int /\ scan[t] \in Nat
      BY <1>7, <2>2, ConstantsAssumption DEF WillVisit, TypeOK, Slots
    <3>2. nSocketList[s] = sock[t]
      BY <1>7, <2>2 DEF Serves
    <3>3. scan'[t] = scan[t] - 1
      BY <1>7, <3>1, <2>2 DEF setSocketSlotFree, TypeOK, Slots
    <3>4. CASE nSocketList[scan[t] - 1] = sock[t]
      <4>1. pc'[t] = "clear"
        BY <1>7, <3>1, <3>4, <2>2
           DEF setSocketSlotFree, Goto, TypeOK, Slots
      <4> QED
        BY <1>1, <1>7, <3>1, <3>3, <4>1
           DEF setSocketSlotFree, WillVisit, Serves
    <3>5. CASE nSocketList[scan[t] - 1] # sock[t]
      <4>1. pc'[t] = "free"
        BY <1>7, <3>1, <3>5, <2>2
           DEF setSocketSlotFree, Goto, TypeOK, Slots
      <4>2. s # scan[t] - 1
        BY <3>2, <3>5
      <4> QED
        BY <1>1, <1>7, <3>1, <3>3, <4>1, <4>2
           DEF setSocketSlotFree, WillVisit, Serves
    <3> QED
      BY <3>4, <3>5
  <2> QED
    BY <1>2, <2>1, <2>2
<1>8. CASE setSocketSlotFree(t) /\ pc[t] = "clear"
  <2>1. /\ \A u \in Threads : u # t => UNCHANGED <<pc[u], sock[u], scan[u]>>
        /\ pc'[t] = "free"
        /\ UNCHANGED <<sock, scan>>
        /\ nSocketList' = [nSocketList EXCEPT ![scan[t]] = EMPTY_SOCKET]
    BY <1>8 DEF setSocketSlotFree, Goto, TypeOK
  <2>2. ASSUME NEW s \in Slots, s # scan[t] PROVE nSocketList'[s] = nSocketList[s]
    BY <2>1, <2>2 DEF TypeOK
  <2>3. ASSUME NEW s \in Slots, s = scan[t] PROVE nSocketList'[s] = EMPTY_SOCKET
    BY <2>1, <2>3 DEF TypeOK
  <2>4. ASSUME NEW s \in Slots, s # scan[t], NEW u \in Threads, WillVisit(u, s)
        PROVE  Kept(u, s)
    <3>1. CASE u # t
      BY <1>1, <2>1, <2>4, <3>1 DEF WillVisit, Serves
    <3>2. CASE u = t
      <4>1. s <= scan[t] /\ s \in Int /\ scan[t] \in Int
        BY <1>8, <2>4, <3>2, ConstantsAssumption DEF WillVisit, TypeOK, Slots
      <4> QED
        BY <1>1, <1>8, <2>1, <2>4, <3>2, <4>1 DEF WillVisit, Serves
    <3> QED
      BY <3>1, <3>2
  <2> QED
    BY <1>1, <2>2, <2>3, <2>4 DEF SlotOwned
<1>9. CASE Release(t)
  <2>1. /\ \A u \in Threads : u # t => UNCHANGED <<pc[u], sock[u], scan[u]>>
        /\ \A s \in Slots : ~WillVisit(t, s)
        /\ UNCHANGED nSocketList
    BY <1>9 DEF Release, Goto, TypeOK, WillVisit
  <2> QED
    BY <1>2, <2>1
<1> QED
  BY <1>3, <1>4, <1>5, <1>6, <1>7, <1>8, <1>9
     DEF BT_clientService, BT_dataArrives, setSocketSlotFree

(* SlotOwned is kept by every step.                                          *)
LEMMA SlotStep ==
  ASSUME StartsWithinSleep, TypeOK, StartOrder, SlotOwned, [Next]_vars
  PROVE  SlotOwned'
<1>1. ASSUME UNCHANGED <<mainVars, nSocketList, threadVars>> PROVE SlotOwned'
  BY <1>1 DEF SlotOwned, Running, WillVisit, Serves, mainVars, threadVars
<1>2. CASE \E c \in Clients : Connect(c)
  BY <1>1, <1>2 DEF Connect
<1>3. CASE \E c \in Clients, how \in Ends : Disconnect(c, how)
  BY <1>1, <1>3 DEF Disconnect
<1>4. CASE sig_term
  <2>1. CASE SignalMain
    <3>1. /\ UNCHANGED <<nSocketList, pc, sock, scan>>
          /\ mainPc \in {"sleep", "accept"} /\ mainPc' # "spawn"
          /\ mainPc' # "exited"
          /\ \A t \in Threads : pc[t] = "start" => UNCHANGED nSporeSocket
      BY <1>4, <2>1 DEF sig_term, SignalMain, threadVars, StartOrder
    <3> QED
      BY <3>1 DEF SlotOwned, Running, WillVisit, Serves
  <2>2. ASSUME NEW t \in Threads, SignalThread(t) PROVE SlotOwned'
    <3>1. /\ UNCHANGED <<mainPc, nSporeSocket, nFreeSocketSlot, nSocketList,
                         sock, scan>>
          /\ pc[t] = "recv"
          /\ pc' = [pc EXCEPT ![t] = "close"]
      BY <1>4, <2>2 DEF sig_term, SignalThread, mainVars
    <3>2. \A u \in Threads, s \in Slots :
            WillVisit(u, s) => WillVisit(u, s)' /\ Serves(u)' = Serves(u)
      BY <3>1 DEF WillVisit, Serves, TypeOK
    <3> QED
      BY <3>1, <3>2, OwnersKept DEF Running
  <2>3. CASE SignalUnnoticed
    BY <1>1, <1>4, <2>3 DEF sig_term, SignalUnnoticed
  <2> QED
    BY <1>4, <2>1, <2>2, <2>3 DEF sig_term
<1>5. CASE Main
  <2>1. CASE MainCheck \/ getFreeClient \/ Refuse \/ SpawnFails \/ SleepOver
    <3>1. /\ UNCHANGED <<nSocketList, nSporeSocket, pc, sock, scan>>
          /\ Running /\ (mainPc = "spawn" => ~Running')
          /\ mainPc' # "spawn"
      BY <2>1 DEF MainCheck, getFreeClient, Refuse, SpawnFails, SleepOver,
                  Running, threadVars
    <3> QED
      BY <3>1 DEF SlotOwned, WillVisit, Serves, Running
  <2>2. CASE AcceptClient \/ AcceptFails
    <3>1. /\ UNCHANGED <<nSocketList, pc, sock, scan>>
          /\ mainPc = "accept" /\ mainPc' = "scan"
          /\ \A t \in Threads : pc[t] # "start"
      BY <2>2 DEF AcceptClient, AcceptFails, threadVars, StartOrder
    <3> QED
      BY <3>1 DEF SlotOwned, WillVisit, Serves, Running
  <2>3. CASE StoreSlot
    <3>1. /\ UNCHANGED <<nSporeSocket, nFreeSocketSlot, pc, sock, scan>>
          /\ mainPc = "store" /\ mainPc' = "spawn"
          /\ \A s \in Slots :
               nSocketList'[s] = IF s = nFreeSocketSlot THEN nSporeSocket
                                 ELSE nSocketList[s]
      BY <2>3 DEF StoreSlot, threadVars, TypeOK
    <3> QED
      BY <3>1 DEF SlotOwned, WillVisit, Serves, Running
  <2>4. CASE Spawn
    <3>1. PICK t \in Threads : pc[t] = "idle" /\ pc' = [pc EXCEPT ![t] = "start"]
      BY <2>4 DEF Spawn
    <3>2. /\ UNCHANGED <<nSocketList, nSporeSocket, sock, scan>>
          /\ mainPc = "spawn" /\ mainPc' = "sleep"
      BY <2>4 DEF Spawn
    <3>3. \A s \in Slots : WillVisit(t, s)' /\ Serves(t)' = nSporeSocket
      BY <3>1, <3>2 DEF WillVisit, Serves, TypeOK
    <3>4. ASSUME NEW u \in Threads, NEW s \in Slots, WillVisit(u, s)
          PROVE  WillVisit(u, s)' /\ Serves(u)' = Serves(u)
      <4>1. u # t
        BY <3>1, <3>4 DEF WillVisit
      <4>2. pc'[u] = pc[u]
        BY <3>1, <4>1 DEF TypeOK
      <4> QED
        BY <3>2, <3>4, <4>2 DEF WillVisit, Serves
    <3> QED
      BY <3>2, <3>3, <3>4 DEF SlotOwned, Running
  <2> QED
    BY <1>5, <2>1, <2>2, <2>3, <2>4 DEF Main
<1>6. CASE \E t \in Threads : BT_clientService(t) \/ BT_dataArrives(t)
  BY <1>6, SlotThreadStep
<1>7. CASE UNCHANGED vars
  BY <1>1, <1>7 DEF vars
<1> QED
  BY <1>2, <1>3, <1>4, <1>5, <1>6, <1>7 DEF Next

(* When threads start within main's sleep, no slot of nSocketList is lost:   *)
(* each taken slot has a live service thread that will empty it              *)
(* (bt_daemon.c:100-108, 427, 843-858).                                      *)
THEOREM SlotsAccountedFor ==
  ASSUME StartsWithinSleep
  PROVE  Spec => []SlotHasServer
<1>1. Init => SlotInv
  <2> SUFFICES ASSUME Init PROVE SlotInv
    OBVIOUS
  <2>1. TypeOK
    BY TypeInit
  <2> QED
    BY <2>1 DEF SlotInv, Init, StartOrder, OneStart, SlotOwned
<1>2. SlotInv /\ [Next]_vars => SlotInv'
  BY TypeStep, StartStep, SlotStep DEF SlotInv
<1>3. SlotInv => SlotHasServer
  BY DEF SlotInv, SlotOwned, SlotHasServer, WillVisit, Live
<1> QED
  BY <1>1, <1>2, <1>3, PTL DEF Spec

-----------------------------------------------------------------------------

(* DescriptorInv is kept by a step that opens and closes nothing and gives   *)
(* no thread and not main a socket.                                          *)
LEMMA DescriptorsKept ==
  ASSUME DescriptorInv,
         UNCHANGED <<open, sock>>,
         InHand' => InHand /\ UNCHANGED nSporeSocket,
         \A t \in Threads : pc'[t] \in Serving => pc[t] \in Serving
  PROVE  DescriptorInv'
BY DEF DescriptorInv, OwnDescriptor

(* DescriptorInv is kept by every step of a service thread.                  *)
LEMMA DescriptorThreadStep ==
  ASSUME TypeOK, OneStart, StartOrder, DescriptorInv, NEW t \in Threads,
         BT_clientService(t) \/ BT_dataArrives(t)
  PROVE  DescriptorInv'
<1>1. UNCHANGED <<canceled, mainPc, nSporeSocket>>
  BY DEF BT_clientService, BT_dataArrives, mainVars
<1>2. CASE Start(t)
  <2>1. /\ pc[t] = "start"
        /\ pc' = [pc EXCEPT ![t] = "init"]
        /\ sock' = [sock EXCEPT ![t] = nSporeSocket]
        /\ UNCHANGED open
    BY <1>2 DEF Start, Goto
  <2>2. mainPc \notin {"scan", "refuse", "store", "spawn"}
    BY <2>1 DEF StartOrder
  <2>3. ~InHand'
    BY <1>1, <2>1, <2>2 DEF InHand, OneStart, TypeOK
  <2>4. /\ nSporeSocket # EMPTY_SOCKET
        /\ nSporeSocket \in Fds =>
             /\ open[nSporeSocket] # NoClient
             /\ \A u \in Threads : pc[u] \in Serving => sock[u] # nSporeSocket
    BY <2>1 DEF DescriptorInv, InHand
  <2>5. /\ sock'[t] = nSporeSocket
        /\ \A u \in Threads : u # t => UNCHANGED <<pc[u], sock[u]>>
    BY <2>1 DEF TypeOK
  <2>6. nSporeSocket \in Fds \/ nSporeSocket = BadFd
    BY <2>4 DEF TypeOK
  <2>7. ASSUME NEW u \in Threads, pc'[u] \in Serving
        PROVE  /\ sock'[u] # EMPTY_SOCKET
               /\ sock'[u] \in Fds => open'[sock'[u]] # NoClient
    BY <2>1, <2>4, <2>5, <2>7 DEF DescriptorInv
  <2>8. OwnDescriptor'
    BY <2>4, <2>5, <2>6 DEF DescriptorInv, OwnDescriptor
  <2> QED
    BY <2>3, <2>7, <2>8 DEF DescriptorInv
<1>3. CASE CloseSocket(t)
  <2>1. /\ pc[t] = "close"
        /\ pc' = [pc EXCEPT ![t] = "free"]
        /\ open' = [g \in Fds |-> IF g = sock[t] THEN NoClient ELSE open[g]]
        /\ UNCHANGED sock
    BY <1>3 DEF CloseSocket, CloseFd, Goto
  <2>2. \A u \in Threads :
          pc'[u] \in Serving => u # t /\ pc[u] \in Serving
    BY <2>1 DEF Serving, TypeOK
  <2>3. InHand' = InHand
    BY <1>1, <2>1 DEF InHand, TypeOK
  <2>4. ASSUME NEW u \in Threads, pc'[u] \in Serving, sock[u] \in Fds
        PROVE  open'[sock[u]] # NoClient
    <3>1. sock[u] # sock[t]
      BY <2>1, <2>2, <2>4, ConstantsAssumption
         DEF DescriptorInv, OwnDescriptor, Serving
    <3> QED
      BY <2>1, <2>2, <2>4, <3>1 DEF DescriptorInv
  <2>5. ASSUME InHand, nSporeSocket \in Fds PROVE open'[nSporeSocket] # NoClient
    <3>1. sock[t] # nSporeSocket
      BY <2>1, <2>5 DEF DescriptorInv, Serving
    <3> QED
      BY <2>1, <2>5, <3>1 DEF DescriptorInv
  <2> QED
    BY <1>1, <2>1, <2>2, <2>3, <2>4, <2>5 DEF DescriptorInv, OwnDescriptor
<1>4. CASE \/ PrepareSeq(t) \/ EnterRecv(t) \/ RecvData(t) \/ RecvEmpty(t)
           \/ RecvFails(t)
  <2>1. UNCHANGED <<open, sock>>
    BY <1>4 DEF PrepareSeq, EnterRecv, RecvData, RecvEmpty, RecvFails,
                RecvReturns
  <2>2. /\ pc[t] \in Serving /\ pc'[t] # "start"
        /\ \A u \in Threads : u # t => pc'[u] = pc[u]
    BY <1>4 DEF PrepareSeq, EnterRecv, RecvData, RecvEmpty, RecvFails,
                RecvReturns, Goto, Serving, TypeOK
  <2> QED
    BY <1>1, <2>1, <2>2, DescriptorsKept DEF InHand
<1>5. CASE setSocketSlotFree(t)
  <2>1. UNCHANGED <<open, sock>>
    BY <1>5 DEF setSocketSlotFree
  <2>2. /\ pc'[t] \notin Serving \cup {"start"}
        /\ \A u \in Threads : u # t => pc'[u] = pc[u]
    BY <1>5 DEF setSocketSlotFree, Goto, Serving, TypeOK
  <2> QED
    BY <1>1, <2>1, <2>2, DescriptorsKept DEF InHand
<1>6. CASE Release(t)
  <2>1. /\ pc'[t] = "idle"
        /\ UNCHANGED open
        /\ \A u \in Threads : u # t => UNCHANGED <<pc[u], sock[u]>>
    BY <1>6 DEF Release, Goto, TypeOK
  <2>2. \A u \in Threads : pc'[u] \in Serving \cup {"start"} => u # t
    BY <2>1 DEF Serving
  <2> QED
    BY <1>1, <2>1, <2>2 DEF DescriptorInv, OwnDescriptor, InHand
<1> QED
  BY <1>2, <1>3, <1>4, <1>5, <1>6 DEF BT_clientService, BT_dataArrives

(* DescriptorInv is kept by every step.                                      *)
LEMMA DescriptorStep ==
  ASSUME StartsWithinSleep, TypeOK, StartOrder, OneStart, DescriptorInv,
         [Next]_vars
  PROVE  DescriptorInv'
<1>1. ASSUME UNCHANGED <<mainVars, threadVars, open>> PROVE DescriptorInv'
  BY <1>1, DescriptorsKept DEF mainVars, threadVars, InHand
<1>2. CASE \E c \in Clients : Connect(c)
  BY <1>1, <1>2 DEF Connect
<1>3. CASE \E c \in Clients, how \in Ends : Disconnect(c, how)
  BY <1>1, <1>3 DEF Disconnect
<1>4. CASE sig_term
  <2>1. CASE SignalMain
    <3>1. /\ UNCHANGED <<open, pc, sock>>
          /\ \/ mainPc = "sleep" /\ mainPc' = "check" /\ UNCHANGED nSporeSocket
             \/ mainPc = "accept" /\ nSporeSocket' = BadFd
      BY <1>4, <2>1 DEF sig_term, SignalMain, threadVars
    <3>2. CASE mainPc = "sleep"
      BY <3>1, <3>2, DescriptorsKept DEF InHand
    <3>3. CASE mainPc = "accept"
      BY <3>1, <3>3, ConstantsAssumption DEF DescriptorInv, OwnDescriptor
    <3> QED
      BY <3>1, <3>2, <3>3
  <2>2. ASSUME NEW t \in Threads, SignalThread(t) PROVE DescriptorInv'
    <3>1. /\ UNCHANGED <<open, sock, mainPc, nSporeSocket>>
          /\ pc[t] = "recv"
          /\ pc' = [pc EXCEPT ![t] = "close"]
      BY <1>4, <2>2 DEF sig_term, SignalThread, mainVars
    <3> QED
      BY <3>1, DescriptorsKept DEF InHand, Serving, TypeOK
  <2>3. CASE SignalUnnoticed
    BY <1>1, <1>4, <2>3 DEF sig_term, SignalUnnoticed
  <2> QED
    BY <1>4, <2>1, <2>2, <2>3 DEF sig_term
<1>5. CASE Main
  <2>1. CASE \/ MainCheck \/ getFreeClient \/ StoreSlot \/ SpawnFails
             \/ SleepOver
    <3>1. /\ UNCHANGED <<open, pc, sock, nSporeSocket>>
          /\ InHand' => InHand
      BY <2>1 DEF MainCheck, getFreeClient, StoreSlot, SpawnFails, SleepOver,
                  threadVars, netVars, InHand
    <3> QED
      BY <3>1, DescriptorsKept
  <2>2. CASE AcceptClient
    <3>1. PICK f \in Fds : /\ open[f] = NoClient
                           /\ open' = [open EXCEPT ![f] = Head(backlog)]
                           /\ nSporeSocket' = f
      BY <2>2 DEF AcceptClient
    <3>2. Head(backlog) # NoClient
      BY <2>2, ConstantsAssumption DEF AcceptClient, TypeOK
    <3>3. UNCHANGED <<pc, sock>>
      BY <2>2 DEF AcceptClient, threadVars
    <3>4. \A g \in Fds : open'[g] = IF g = f THEN Head(backlog) ELSE open[g]
      BY <3>1 DEF TypeOK
    <3>5. f # EMPTY_SOCKET
      BY ConstantsAssumption
    <3> QED
      BY <3>1, <3>2, <3>3, <3>4, <3>5 DEF DescriptorInv, OwnDescriptor
  <2>3. CASE AcceptFails
    <3>1. UNCHANGED <<open, pc, sock>> /\ nSporeSocket' = BadFd
      BY <2>3 DEF AcceptFails, threadVars, netVars
    <3> QED
      BY <3>1, ConstantsAssumption DEF DescriptorInv, OwnDescriptor
  <2>4. CASE Refuse
    <3>1. /\ mainPc = "refuse" /\ mainPc' = "check"
          /\ UNCHANGED <<pc, sock, nSporeSocket>>
          /\ open' = [g \in Fds |-> IF g = nSporeSocket THEN NoClient
                                    ELSE open[g]]
      BY <2>4 DEF Refuse, CloseFd, threadVars
    <3>2. ~InHand'
      BY <3>1 DEF InHand, StartOrder
    <3>3. \A t \in Threads :
            pc[t] \in Serving /\ sock[t] \in Fds => sock[t] # nSporeSocket
      BY <3>1 DEF DescriptorInv, InHand
    <3> QED
      BY <3>1, <3>2, <3>3 DEF DescriptorInv, OwnDescriptor
  <2>5. CASE Spawn
    <3>1. PICK t \in Threads : pc[t] = "idle" /\ pc' = [pc EXCEPT ![t] = "start"]
      BY <2>5 DEF Spawn
    <3>2. UNCHANGED <<open, sock, nSporeSocket>> /\ InHand
      BY <2>5 DEF Spawn, netVars, InHand
    <3> QED
      BY <3>1, <3>2, DescriptorsKept DEF Serving, TypeOK
  <2> QED
    BY <1>5, <2>1, <2>2, <2>3, <2>4, <2>5 DEF Main
<1>6. CASE \E t \in Threads : BT_clientService(t) \/ BT_dataArrives(t)
  BY <1>6, DescriptorThreadStep
<1>7. CASE UNCHANGED vars
  BY <1>1, <1>7 DEF vars, netVars
<1> QED
  BY <1>2, <1>3, <1>4, <1>5, <1>6, <1>7 DEF Next

(* When threads start within main's sleep, no two of them ever serve the     *)
(* same descriptor (bt_daemon.c:379, 398, 426, 851).                         *)
THEOREM DescriptorsOwned ==
  ASSUME StartsWithinSleep
  PROVE  Spec => []OwnDescriptor
<1> DEFINE Inv == TypeOK /\ StartOrder /\ OneStart /\ DescriptorInv
<1>1. Init => Inv
  <2> SUFFICES ASSUME Init PROVE Inv
    OBVIOUS
  <2>1. TypeOK
    BY TypeInit
  <2> QED
    BY <2>1 DEF Init, StartOrder, OneStart, DescriptorInv, OwnDescriptor,
                InHand, Serving
<1>2. Inv /\ [Next]_vars => Inv'
  BY TypeStep, StartStep, DescriptorStep
<1>3. Inv => OwnDescriptor
  BY DEF DescriptorInv
<1> QED
  BY <1>1, <1>2, <1>3, PTL DEF Spec

-----------------------------------------------------------------------------
(* The limit on the clients served at a time holds as long as nobody gets in *)
(* the way of a thread that frees its slot.                                  *)

(* The thread has closed its socket and looks for it in nSocketList.         *)
Freeing == {"free", "clear"}

(* A descriptor is not used again before its slot is free, and no two        *)
(* threads whose accept had failed look for BadFd at the same time.          *)
FreesUndisturbed ==
  \A t \in Threads :
    pc[t] \in Freeing =>
      /\ sock[t] \in Fds => open[sock[t]] = NoClient
      /\ \A u \in Threads :
           pc[u] \in Freeing /\ sock[t] = BadFd /\ sock[u] = BadFd => t = u

HasSlot(f) == f \in Fds => \E s \in Slots : nSocketList[s] = f

(* Whoever is served has a slot, main fills an empty one, and a thread       *)
(* empties the slot it has found its socket in.                              *)
SlotsKept ==
  /\ \A t \in Threads : pc[t] \in Serving \cup {"start"} => HasSlot(Serves(t))
  /\ mainPc = "store" => /\ nFreeSocketSlot \in Slots
                         /\ nSocketList[nFreeSocketSlot] = EMPTY_SOCKET
  /\ mainPc = "spawn" => HasSlot(nSporeSocket)
  /\ \A t \in Threads : pc[t] \in Freeing => sock[t] # EMPTY_SOCKET
  /\ \A t, u \in Threads :
       /\ pc[t] \in Freeing /\ pc[u] \in Freeing
       /\ sock[t] = sock[u] /\ sock[t] \in Fds
       => t = u
  /\ \A t \in Threads :
       pc[t] = "clear" => scan[t] \in Slots /\ nSocketList[scan[t]] = sock[t]

(* SlotsKept is kept by a step of a service thread.                          *)
LEMMA KeptThreadStep ==
  ASSUME TypeOK, DescriptorInv, StartOrder, FreesUndisturbed, SlotsKept,
         NEW t \in Threads, BT_clientService(t) \/ BT_dataArrives(t)
  PROVE  SlotsKept'
<1> USE ConstantsAssumption
<1>1. UNCHANGED <<canceled, mainPc, nSporeSocket, nFreeSocketSlot>>
  BY DEF BT_clientService, BT_dataArrives, mainVars
<1>2. CASE Start(t)
  <2>1. /\ pc[t] = "start"
        /\ pc' = [pc EXCEPT ![t] = "init"]
        /\ sock' = [sock EXCEPT ![t] = nSporeSocket]
        /\ UNCHANGED <<scan, nSocketList>>
    BY <1>2 DEF Start, Goto
  <2>2. /\ pc'[t] = "init" /\ sock'[t] = nSporeSocket
        /\ \A u \in Threads : u # t => UNCHANGED <<pc[u], sock[u]>>
    BY <2>1 DEF TypeOK
  <2> QED
    BY <1>1, <2>1, <2>2 DEF SlotsKept, HasSlot, Serves, Serving, Freeing
<1>3. CASE CloseSocket(t)
  <2>1. /\ pc[t] = "close"
        /\ UNCHANGED <<sock, nSocketList>>
        /\ pc'[t] = "free"
        /\ \A u \in Threads : u # t => UNCHANGED <<pc[u], scan[u]>>
    BY <1>3 DEF CloseSocket, Goto, TypeOK
  <2>2. /\ sock[t] # EMPTY_SOCKET
        /\ sock[t] \in Fds => open[sock[t]] # NoClient
    BY <2>1 DEF DescriptorInv, Serving
  <2>3. ASSUME NEW u \in Threads, pc[u] \in Freeing, sock[t] \in Fds
        PROVE  sock[u] # sock[t]
    BY <2>2, <2>3 DEF FreesUndisturbed
  <2> QED
    BY <1>1, <2>1, <2>2, <2>3 DEF SlotsKept, HasSlot, Serves, Serving, Freeing
<1>4. CASE \/ PrepareSeq(t) \/ EnterRecv(t) \/ RecvData(t) \/ RecvEmpty(t)
           \/ RecvFails(t)
  <2>1. UNCHANGED <<sock, scan, nSocketList>>
    BY <1>4 DEF PrepareSeq, EnterRecv, RecvData, RecvEmpty, RecvFails,
                RecvReturns
  <2>2. /\ pc[t] \in Serving /\ pc'[t] \in Serving
        /\ \A u \in Threads : u # t => pc'[u] = pc[u]
    BY <1>4 DEF PrepareSeq, EnterRecv, RecvData, RecvEmpty, RecvFails,
                RecvReturns, Goto, Serving, TypeOK
  <2> QED
    BY <1>1, <2>1, <2>2 DEF SlotsKept, HasSlot, Serves, Serving, Freeing
<1>5. CASE setSocketSlotFree(t) /\ pc[t] = "free"
  <2>1. /\ UNCHANGED <<sock, nSocketList>>
        /\ \A u \in Threads : u # t => UNCHANGED <<pc[u], scan[u]>>
        /\ pc'[t] \in {"free", "clear", "release"}
    BY <1>5 DEF setSocketSlotFree, Goto, TypeOK
  <2>2. pc'[t] = "clear" => scan'[t] \in Slots /\ nSocketList[scan'[t]] = sock[t]
    <3>1. SUFFICES ASSUME pc'[t] = "clear"
                   PROVE  scan'[t] \in Slots /\ nSocketList[scan'[t]] = sock[t]
      OBVIOUS
    <3>2. /\ scan[t] # 0 /\ scan'[t] = scan[t] - 1
          /\ nSocketList[scan[t] - 1] = sock[t]
      BY <1>5, <3>1 DEF setSocketSlotFree, Goto, TypeOK
    <3>3. scan[t] - 1 \in Slots
      BY <3>2 DEF TypeOK, Slots
    <3> QED
      BY <3>2, <3>3
  <2> QED
    BY <1>1, <1>5, <2>1, <2>2 DEF SlotsKept, HasSlot, Serves, Serving, Freeing
<1>6. CASE setSocketSlotFree(t) /\ pc[t] = "clear"
  <2>1. /\ UNCHANGED <<sock, scan>>
        /\ \A u \in Threads : u # t => pc'[u] = pc[u]
        /\ pc'[t] = "free"
        /\ nSocketList' = [nSocketList EXCEPT ![scan[t]] = EMPTY_SOCKET]
    BY <1>6 DEF setSocketSlotFree, Goto, TypeOK
  <2>2. /\ scan[t] \in Slots /\ nSocketList[scan[t]] = sock[t]
        /\ sock[t] # EMPTY_SOCKET
        /\ nSocketList'[scan[t]] = EMPTY_SOCKET
        /\ \A s \in Slots : s # scan[t] => nSocketList'[s] = nSocketList[s]
    BY <1>6, <2>1 DEF SlotsKept, Freeing, TypeOK
  <2>3. ASSUME NEW f, HasSlot(f), f # sock[t] PROVE HasSlot(f)'
    BY <2>2, <2>3 DEF HasSlot
  <2>4. sock[t] \in Fds => open[sock[t]] = NoClient
    BY <1>6 DEF FreesUndisturbed, Freeing
  <2>5. ASSUME NEW u \in Threads, pc'[u] \in Serving \cup {"start"}
        PROVE  HasSlot(Serves(u))'
    <3>1. /\ u # t /\ pc'[u] = pc[u] /\ Serves(u)' = Serves(u)
          /\ HasSlot(Serves(u))
      BY <1>1, <2>1, <2>5 DEF SlotsKept, Serves, Serving
    <3>2. Serves(u) \in Fds => open[Serves(u)] # NoClient
      BY <2>5, <3>1 DEF DescriptorInv, InHand, Serves
    <3>3. CASE Serves(u) \in Fds
      <4>1. Serves(u) # sock[t]
        BY <2>4, <3>2, <3>3
      <4> QED
        BY <2>3, <3>1, <4>1 DEF HasSlot
    <3>4. CASE Serves(u) \notin Fds
      BY <3>1, <3>4 DEF HasSlot
    <3> QED
      BY <3>3, <3>4
  <2>6. mainPc' = "spawn" => HasSlot(nSporeSocket)'
    <3>1. SUFFICES ASSUME mainPc = "spawn", nSporeSocket \in Fds
                   PROVE  HasSlot(nSporeSocket)'
      BY <1>1 DEF HasSlot
    <3>2. HasSlot(nSporeSocket) /\ open[nSporeSocket] # NoClient
      BY <3>1 DEF SlotsKept, DescriptorInv, InHand
    <3>3. nSporeSocket # sock[t]
      BY <2>4, <3>1, <3>2
    <3> QED
      BY <1>1, <2>3, <3>2, <3>3 DEF HasSlot
  <2>7. mainPc' = "store" => nFreeSocketSlot' \in Slots
                             /\ nSocketList'[nFreeSocketSlot'] = EMPTY_SOCKET
    BY <1>1, <2>2 DEF SlotsKept
  <2>8. ASSUME NEW u \in Threads, pc'[u] = "clear"
        PROVE  scan'[u] \in Slots /\ nSocketList'[scan'[u]] = sock'[u]
    <3>1. /\ u # t /\ pc[u] = "clear"
          /\ scan[u] \in Slots /\ nSocketList[scan[u]] = sock[u]
      BY <2>1, <2>8 DEF SlotsKept
    <3>2. sock[u] # sock[t]
      <4>1. CASE sock[t] \in Fds
        BY <1>6, <3>1, <4>1 DEF SlotsKept, Freeing
      <4>2. CASE sock[t] = BadFd
        BY <1>6, <3>1, <4>2 DEF FreesUndisturbed, Freeing
      <4> QED
        BY <2>2, <4>1, <4>2 DEF TypeOK
    <3> QED
      BY <2>1, <2>2, <3>1, <3>2
  <2>9. /\ \A u \in Threads : pc'[u] \in Freeing => pc[u] \in Freeing
        /\ UNCHANGED sock
    BY <1>6, <2>1 DEF Freeing
  <2> QED
    BY <2>5, <2>6, <2>7, <2>8, <2>9 DEF SlotsKept
<1>7. CASE Release(t)
  <2>1. /\ UNCHANGED <<scan, nSocketList>>
        /\ pc'[t] = "idle"
        /\ \A u \in Threads : u # t => UNCHANGED <<pc[u], sock[u]>>
    BY <1>7 DEF Release, Goto, TypeOK
  <2> QED
    BY <1>1, <2>1 DEF SlotsKept, HasSlot, Serves, Serving, Freeing
<1> QED
  BY <1>2, <1>3, <1>4, <1>5, <1>6, <1>7
     DEF BT_clientService, BT_dataArrives, setSocketSlotFree

(* SlotsKept is kept by every step.                                          *)
LEMMA KeptStep ==
  ASSUME TypeOK, DescriptorInv, StartOrder, FreesUndisturbed, SlotsKept,
         [Next]_vars
  PROVE  SlotsKept'
<1> USE ConstantsAssumption
<1>1. ASSUME UNCHANGED <<mainVars, nSocketList, pc, sock, scan>> PROVE SlotsKept'
  BY <1>1 DEF SlotsKept, HasSlot, Serves, mainVars
<1>2. CASE \E c \in Clients : Connect(c)
  BY <1>1, <1>2 DEF Connect, threadVars
<1>3. CASE \E c \in Clients, how \in Ends : Disconnect(c, how)
  BY <1>1, <1>3 DEF Disconnect, threadVars
<1>4. CASE sig_term
  <2>1. CASE SignalMain
    <3>1. /\ UNCHANGED <<nSocketList, pc, sock, scan>>
          /\ mainPc' \in {"check", "scan"}
          /\ \A t \in Threads : pc[t] = "start" => UNCHANGED nSporeSocket
      BY <1>4, <2>1 DEF sig_term, SignalMain, threadVars, StartOrder
    <3> QED
      BY <3>1 DEF SlotsKept, HasSlot, Serves
  <2>2. ASSUME NEW t \in Threads, SignalThread(t) PROVE SlotsKept'
    <3>1. /\ UNCHANGED <<mainVars, nSocketList, sock, scan>>
          /\ pc[t] = "recv" /\ pc'[t] = "close"
          /\ \A u \in Threads : u # t => pc'[u] = pc[u]
      BY <1>4, <2>2 DEF sig_term, SignalThread, TypeOK
    <3> QED
      BY <3>1 DEF SlotsKept, HasSlot, Serves, Serving, Freeing, mainVars
  <2>3. CASE SignalUnnoticed
    BY <1>1, <1>4, <2>3 DEF sig_term, SignalUnnoticed, threadVars
  <2> QED
    BY <1>4, <2>1, <2>2, <2>3 DEF sig_term
<1>5. CASE Main
  <2>1. CASE MainCheck \/ Refuse \/ SpawnFails \/ SleepOver
    <3>1. /\ UNCHANGED <<nSocketList, nSporeSocket, pc, sock, scan>>
          /\ mainPc' \in {"check", "accept", "exited"}
      BY <2>1 DEF MainCheck, Refuse, SpawnFails, SleepOver, threadVars
    <3> QED
      BY <3>1 DEF SlotsKept, HasSlot, Serves
  <2>2. CASE AcceptClient \/ AcceptFails
    <3>1. /\ UNCHANGED <<nSocketList, pc, sock, scan>>
          /\ mainPc' = "scan"
          /\ \A t \in Threads : pc[t] # "start"
      BY <2>2 DEF AcceptClient, AcceptFails, threadVars, StartOrder
    <3> QED
      BY <3>1 DEF SlotsKept, HasSlot, Serves
  <2>3. CASE getFreeClient
    <3>1. /\ UNCHANGED <<nSocketList, nSporeSocket, pc, sock, scan>>
          /\ mainPc' # "spawn"
      BY <2>3 DEF getFreeClient, threadVars
    <3>2. mainPc' = "store" => nFreeSocketSlot' \in Slots
                               /\ nSocketList[nFreeSocketSlot'] = EMPTY_SOCKET
      <4>1. SUFFICES ASSUME mainPc' = "store"
                     PROVE  nFreeSocketSlot' \in Slots
                            /\ nSocketList[nFreeSocketSlot'] = EMPTY_SOCKET
        OBVIOUS
      <4>2. /\ nFreeSocketSlot # 0 /\ nFreeSocketSlot' = nFreeSocketSlot - 1
            /\ nSocketList[nFreeSocketSlot - 1] = EMPTY_SOCKET
        BY <2>3, <4>1 DEF getFreeClient
      <4>3. nFreeSocketSlot - 1 \in Slots
        BY <4>2 DEF TypeOK, Slots
      <4> QED
        BY <4>2, <4>3
    <3> QED
      BY <3>1, <3>2 DEF SlotsKept, HasSlot, Serves
  <2>4. CASE StoreSlot
    <3>1. /\ UNCHANGED <<nSporeSocket, nFreeSocketSlot, pc, sock, scan>>
          /\ mainPc' = "spawn"
          /\ nFreeSocketSlot \in Slots
          /\ nSocketList[nFreeSocketSlot] = EMPTY_SOCKET
          /\ nSocketList'[nFreeSocketSlot] = nSporeSocket
          /\ \A s \in Slots : s # nFreeSocketSlot => nSocketList'[s] = nSocketList[s]
      BY <2>4 DEF StoreSlot, SlotsKept, threadVars, TypeOK
    <3>2. ASSUME NEW f, HasSlot(f) PROVE HasSlot(f)'
      BY <3>1, <3>2 DEF HasSlot
    <3>3. HasSlot(nSporeSocket)'
      BY <3>1 DEF HasSlot
    <3>4. ASSUME NEW u \in Threads, pc'[u] \in Serving \cup {"start"}
          PROVE  HasSlot(Serves(u))'
      <4>1. HasSlot(Serves(u)) /\ Serves(u)' = Serves(u)
        BY <3>1, <3>4 DEF SlotsKept, Serves
      <4> QED
        BY <3>2, <4>1 DEF HasSlot
    <3>5. ASSUME NEW u \in Threads, pc'[u] = "clear"
          PROVE  scan'[u] \in Slots /\ nSocketList'[scan'[u]] = sock'[u]
      <4>1. /\ scan[u] \in Slots /\ nSocketList[scan[u]] = sock[u]
            /\ sock[u] # EMPTY_SOCKET
        BY <3>1, <3>5 DEF SlotsKept, Freeing
      <4> QED
        BY <3>1, <4>1
    <3> QED
      BY <3>1, <3>3, <3>4, <3>5 DEF SlotsKept, Freeing
  <2>5. CASE Spawn
    <3>1. PICK t \in Threads : pc[t] = "idle" /\ pc' = [pc EXCEPT ![t] = "start"]
      BY <2>5 DEF Spawn
    <3>2. /\ UNCHANGED <<nSocketList, nSporeSocket, sock, scan>>
          /\ mainPc = "spawn" /\ mainPc' = "sleep"
      BY <2>5 DEF Spawn
    <3>3. /\ pc'[t] = "start"
          /\ \A u \in Threads : u # t => pc'[u] = pc[u]
      BY <3>1 DEF TypeOK
    <3> QED
      BY <3>2, <3>3 DEF SlotsKept, HasSlot, Serves, Serving, Freeing
  <2> QED
    BY <1>5, <2>1, <2>2, <2>3, <2>4, <2>5 DEF Main
<1>6. CASE \E t \in Threads : BT_clientService(t) \/ BT_dataArrives(t)
  BY <1>6, KeptThreadStep
<1>7. CASE UNCHANGED vars
  BY <1>1, <1>7 DEF vars, threadVars
<1> QED
  BY <1>2, <1>3, <1>4, <1>5, <1>6, <1>7 DEF Next

(* Threads that are served have slots of their own, so they are not more     *)
(* than there are slots.                                                     *)
LEMMA KeptWithinLimit ==
  ASSUME TypeOK, DescriptorInv, SlotsKept
  PROVE  ServedWithinLimit
<1> DEFINE Served == {t \in Threads : pc[t] \in Serving /\ sock[t] \in Fds}
           slotOf == [t \in Served |-> CHOOSE s \in Slots : nSocketList[s] = sock[t]]
<1>1. ASSUME NEW t \in Served
      PROVE  slotOf[t] \in Slots /\ nSocketList[slotOf[t]] = sock[t]
  <2>1. \E s \in Slots : nSocketList[s] = sock[t]
    BY DEF SlotsKept, HasSlot, Serves, Serving
  <2> QED
    BY <2>1
<1>2. slotOf \in Injection(Served, Slots)
  <2>1. slotOf \in [Served -> Slots]
    BY <1>1
  <2>2. ASSUME NEW t \in Served, NEW u \in Served, slotOf[t] = slotOf[u]
        PROVE  t = u
    <3>1. sock[t] = sock[u] /\ sock[t] # BadFd
      BY <1>1, <2>2, ConstantsAssumption
    <3> QED
      BY <3>1 DEF DescriptorInv, OwnDescriptor
  <2> HIDE DEF slotOf, Served
  <2> QED
    BY <2>1, <2>2 DEF Injection, IsInjective
<1>3. IsFiniteSet(Slots) /\ Cardinality(Slots) = SlotCount
  <2>1. /\ 0 \in Int /\ SlotCount - 1 \in Int /\ ~ (0 > SlotCount - 1)
        /\ (SlotCount - 1) - 0 + 1 = SlotCount
    BY ConstantsAssumption
  <2> QED
    BY <2>1, FS_Interval DEF Slots
<1>4. Cardinality(Served) <= SlotCount
  <2> HIDE DEF slotOf, Served
  <2> QED
    BY <1>2, <1>3, FS_Injection
<1> QED
  BY <1>4 DEF ServedWithinLimit

(* The clients served are never more than nSocketList has slots, if threads  *)
(* start within main's sleep and two things do not happen: that accept gives *)
(* a closed descriptor to a new client before its slot is free, and that two *)
(* threads whose accept failed free their slots at the same time             *)
(* (bt_daemon.c:55, 100-108, 425-427, 843-849). Nothing else breaks the      *)
(* limit: not signals, refused clients or failed calls.                      *)
THEOREM LimitHoldsUndisturbed ==
  ASSUME StartsWithinSleep
  PROVE  Spec /\ []FreesUndisturbed => []ServedWithinLimit
<1> DEFINE Inv == /\ TypeOK /\ StartOrder /\ OneStart /\ DescriptorInv
                  /\ SlotsKept
<1>1. Init => Inv
  <2> SUFFICES ASSUME Init PROVE Inv
    OBVIOUS
  <2>1. TypeOK
    BY TypeInit
  <2>2. StartOrder /\ OneStart /\ DescriptorInv
    BY DEF Init, StartOrder, OneStart, DescriptorInv, OwnDescriptor, InHand,
           Serving
  <2>3. SlotsKept
    BY DEF Init, SlotsKept, Serving, Freeing
  <2> QED
    BY <2>1, <2>2, <2>3
<1>2. Inv /\ FreesUndisturbed /\ [Next]_vars => Inv'
  BY TypeStep, StartStep, DescriptorStep, KeptStep
<1>3. Inv => ServedWithinLimit
  BY KeptWithinLimit
<1> QED
  BY <1>1, <1>2, <1>3, PTL DEF Spec

-----------------------------------------------------------------------------
(* Progress, whatever the other threads do.                                  *)

(* How many steps main has left until it is in accept again, or has ended    *)
(* the process.                                                              *)
MainStepsLeft ==
  CASE mainPc = "scan" -> nFreeSocketSlot + 6
    [] mainPc = "store" -> 5
    [] mainPc = "spawn" -> 4
    [] mainPc \in {"sleep", "refuse"} -> 3
    [] mainPc = "check" -> 2
    [] mainPc = "accept" -> 1
    [] mainPc = "exited" -> 0

MainComesRound ==
  mainPc # "accept" =>
    /\ Main => MainStepsLeft' < MainStepsLeft
    /\ MainStepsLeft' <= MainStepsLeft
    /\ canceled => mainPc' # "accept"

MainStepsAre(left) ==
  /\ left \in Nat
  /\ mainPc = "scan" => left = nFreeSocketSlot + 6
  /\ mainPc = "store" => left = 5
  /\ mainPc = "spawn" => left = 4
  /\ mainPc \in {"sleep", "refuse"} => left = 3
  /\ mainPc = "check" => left = 2
  /\ mainPc = "accept" => left = 1
  /\ mainPc = "exited" => left = 0

LEMMA MainStepsNow ==
  ASSUME TypeOK
  PROVE  MainStepsAre(MainStepsLeft) /\ MainStepsLeft <= SlotCount + 6
<1>1. nFreeSocketSlot \in 0 .. SlotCount /\ SlotCount \in Nat /\ mainPc \in MainPcs
  BY ConstantsAssumption DEF TypeOK
<1> QED
  BY <1>1 DEF MainStepsLeft, MainStepsAre, MainPcs

LEMMA MainStepsNext ==
  ASSUME TypeOK'
  PROVE  MainStepsAre(MainStepsLeft)'
<1>1. nFreeSocketSlot' \in 0 .. SlotCount /\ SlotCount \in Nat /\ mainPc' \in MainPcs
  BY ConstantsAssumption DEF TypeOK
<1> QED
  BY <1>1 DEF MainStepsLeft, MainStepsAre, MainPcs

LEMMA MainStepsShrink ==
  ASSUME TypeOK, TypeOK', [Next]_vars
  PROVE  MainComesRound
<1> SUFFICES ASSUME mainPc # "accept"
             PROVE  /\ Main => MainStepsLeft' < MainStepsLeft
                    /\ MainStepsLeft' <= MainStepsLeft
                    /\ canceled => mainPc' # "accept"
  BY DEF MainComesRound
<1>1. /\ mainPc \in MainPcs
      /\ nFreeSocketSlot \in Nat /\ nFreeSocketSlot' \in Nat /\ SlotCount \in Nat
  BY ConstantsAssumption DEF TypeOK
<1>2. MainStepsAre(MainStepsLeft) /\ MainStepsAre(MainStepsLeft)'
  BY MainStepsNow, MainStepsNext
<1> HIDE DEF MainStepsLeft
<1>3. ASSUME Main
      PROVE  MainStepsLeft' < MainStepsLeft /\ (canceled => mainPc' # "accept")
  <2>1. CASE MainCheck
    BY <1>2, <2>1 DEF MainCheck, MainStepsAre
  <2>2. CASE AcceptClient \/ AcceptFails
    BY <2>2 DEF AcceptClient, AcceptFails
  <2>3. CASE getFreeClient
    <3>1. /\ mainPc = "scan" /\ mainPc' \in {"refuse", "store", "scan"}
          /\ mainPc' = "scan" => nFreeSocketSlot' = nFreeSocketSlot - 1
      BY <2>3 DEF getFreeClient
    <3>2. MainStepsLeft = nFreeSocketSlot + 6
      BY <1>2, <3>1 DEF MainStepsAre
    <3>3. CASE mainPc' = "scan"
      <4>1. MainStepsLeft' = nFreeSocketSlot' + 6
        BY <1>2, <3>3 DEF MainStepsAre
      <4> QED
        BY <1>1, <3>1, <3>2, <3>3, <4>1
    <3>4. CASE mainPc' \in {"refuse", "store"}
      <4>1. MainStepsLeft' \in {3, 5}
        BY <1>2, <3>4 DEF MainStepsAre
      <4> QED
        BY <1>1, <3>2, <3>4, <4>1
    <3> QED
      BY <3>1, <3>3, <3>4
  <2>4. CASE Refuse
    BY <1>2, <2>4 DEF Refuse, MainStepsAre
  <2>5. CASE StoreSlot
    BY <1>2, <2>5 DEF StoreSlot, MainStepsAre
  <2>6. CASE Spawn \/ SpawnFails
    BY <1>2, <2>6 DEF Spawn, SpawnFails, MainStepsAre
  <2>7. CASE SleepOver
    BY <1>2, <2>7 DEF SleepOver, MainStepsAre
  <2> QED
    BY <1>3, <2>1, <2>2, <2>3, <2>4, <2>5, <2>6, <2>7 DEF Main
<1>4. ASSUME UNCHANGED mainVars
      PROVE  MainStepsLeft' = MainStepsLeft /\ mainPc' # "accept"
  BY <1>1, <1>2, <1>4 DEF MainStepsAre, MainPcs, mainVars
<1>5. CASE sig_term
  <2>1. ~ canceled /\ canceled' # canceled
    BY <1>5 DEF sig_term
  <2>2. ~ Main
    BY <2>1 DEF Main, MainCheck, AcceptClient, AcceptFails, getFreeClient, Refuse,
       StoreSlot, Spawn, SpawnFails, SleepOver
  <2>3. \/ mainPc = "sleep" /\ mainPc' = "check"
        \/ UNCHANGED mainVars
    BY <1>5 DEF sig_term, SignalMain, SignalThread, SignalUnnoticed
  <2>4. MainStepsLeft' <= MainStepsLeft
    BY <1>2, <1>4, <2>3 DEF MainStepsAre
  <2> QED
    BY <2>1, <2>2, <2>4
<1>6. ASSUME ~ Main, ~ sig_term PROVE UNCHANGED mainVars
  BY <1>6 DEF Next, Connect, Disconnect, BT_clientService, BT_dataArrives, vars
<1> QED
  BY <1>2, <1>3, <1>4, <1>5, <1>6 DEF MainStepsAre

(* How many steps thread t has left, once its recv has failed.               *)
Leaving == {"close", "free", "clear", "release"}

ThreadStepsLeft(t) ==
  CASE pc[t] = "close" -> 2 * SlotCount + 3
    [] pc[t] = "free" -> 2 * scan[t] + 2
    [] pc[t] = "clear" -> 2 * scan[t] + 3
    [] pc[t] = "release" -> 1
    [] OTHER -> 0

LeavesInTheEnd(t) ==
  pc[t] \in Leaving =>
    /\ pc'[t] \in Leaving \cup {"idle"}
    /\ BT_clientService(t) => ThreadStepsLeft(t)' < ThreadStepsLeft(t)
    /\ ThreadStepsLeft(t)' <= ThreadStepsLeft(t)

LEMMA ThreadStepsShrink ==
  ASSUME TypeOK, TypeOK', [Next]_vars, NEW t \in Threads
  PROVE  LeavesInTheEnd(t)
<1> SUFFICES ASSUME pc[t] \in Leaving
             PROVE  /\ pc'[t] \in Leaving \cup {"idle"}
                    /\ BT_clientService(t) => ThreadStepsLeft(t)' < ThreadStepsLeft(t)
                    /\ ThreadStepsLeft(t)' <= ThreadStepsLeft(t)
  BY DEF LeavesInTheEnd
<1>1. /\ scan[t] \in 0 .. SlotCount /\ scan'[t] \in 0 .. SlotCount /\ SlotCount \in Nat
      /\ pc \in [Threads -> ThreadPcs] /\ scan \in [Threads -> 0 .. SlotCount]
  BY ConstantsAssumption DEF TypeOK
<1>2. /\ ThreadStepsLeft(t) \in Nat
      /\ pc[t] = "close" => ThreadStepsLeft(t) = 2 * SlotCount + 3
      /\ pc[t] = "free" => ThreadStepsLeft(t) = 2 * scan[t] + 2
      /\ pc[t] = "clear" => ThreadStepsLeft(t) = 2 * scan[t] + 3
      /\ pc[t] = "release" => ThreadStepsLeft(t) = 1
      /\ pc[t] = "idle" => ThreadStepsLeft(t) = 0
  BY <1>1 DEF ThreadStepsLeft
<1>3. /\ ThreadStepsLeft(t)' \in Nat
      /\ pc'[t] = "close" => ThreadStepsLeft(t)' = 2 * SlotCount + 3
      /\ pc'[t] = "free" => ThreadStepsLeft(t)' = 2 * scan'[t] + 2
      /\ pc'[t] = "clear" => ThreadStepsLeft(t)' = 2 * scan'[t] + 3
      /\ pc'[t] = "release" => ThreadStepsLeft(t)' = 1
      /\ pc'[t] = "idle" => ThreadStepsLeft(t)' = 0
  BY <1>1 DEF ThreadStepsLeft
<1>4. ASSUME BT_clientService(t)
      PROVE  /\ pc'[t] \in Leaving \cup {"idle"}
             /\ ThreadStepsLeft(t)' < ThreadStepsLeft(t)
  <2>1. CASE CloseSocket(t)
    <3>1. pc[t] = "close" /\ pc'[t] = "free" /\ scan'[t] = SlotCount
      BY <1>1, <2>1 DEF CloseSocket, Goto
    <3> QED
      BY <1>1, <1>2, <1>3, <3>1 DEF Leaving
  <2>2. CASE setSocketSlotFree(t)
    <3>1. \/ pc[t] = "free" /\ scan[t] = 0 /\ pc'[t] = "release"
          \/ /\ pc[t] = "free" /\ scan[t] # 0 /\ scan'[t] = scan[t] - 1
             /\ pc'[t] \in {"free", "clear"}
          \/ pc[t] = "clear" /\ pc'[t] = "free" /\ scan'[t] = scan[t]
      BY <1>1, <2>2 DEF setSocketSlotFree, Goto
    <3> QED
      BY <1>1, <1>2, <1>3, <3>1 DEF Leaving
  <2>3. CASE Release(t)
    <3>1. pc[t] = "release" /\ pc'[t] = "idle"
      BY <1>1, <2>3 DEF Release, Goto
    <3> QED
      BY <1>2, <1>3, <3>1
  <2>4. CASE Start(t) \/ PrepareSeq(t) \/ EnterRecv(t) \/ RecvEmpty(t) \/ RecvFails(t)
    BY <2>4 DEF Start, PrepareSeq, EnterRecv, RecvEmpty, RecvFails, Leaving
  <2> QED
    BY <1>4, <2>1, <2>2, <2>3, <2>4 DEF BT_clientService
<1>5. ASSUME UNCHANGED <<pc[t], scan[t]>>
      PROVE  pc'[t] \in Leaving \cup {"idle"} /\ ThreadStepsLeft(t)' = ThreadStepsLeft(t)
  BY <1>1, <1>2, <1>3, <1>5 DEF Leaving
<1>6. ASSUME NEW u \in Threads, u # t, BT_clientService(u) \/ BT_dataArrives(u)
      PROVE  UNCHANGED <<pc[t], scan[t]>>
  BY <1>1, <1>6 DEF BT_clientService, BT_dataArrives, Start, PrepareSeq, EnterRecv,
     RecvEmpty, RecvFails, RecvData, RecvReturns, CloseSocket, setSocketSlotFree,
     Release, Goto
<1>7. ASSUME BT_dataArrives(t) PROVE FALSE
  BY <1>7 DEF BT_dataArrives, RecvData, Leaving
<1>8. ASSUME sig_term \/ Main PROVE UNCHANGED <<pc[t], scan[t]>>
  <2>1. CASE sig_term
    BY <1>1, <2>1 DEF sig_term, SignalMain, SignalThread, SignalUnnoticed, threadVars,
       Leaving
  <2>2. CASE Main
    BY <1>1, <2>2 DEF Main, MainCheck, AcceptClient, AcceptFails, getFreeClient, Refuse,
       StoreSlot, Spawn, SpawnFails, SleepOver, threadVars, Leaving
  <2> QED
    BY <1>8, <2>1, <2>2
<1>9. ASSUME ~ BT_clientService(t) PROVE UNCHANGED <<pc[t], scan[t]>>
  BY <1>6, <1>7, <1>8, <1>9 DEF Next, Connect, Disconnect, vars, threadVars
<1> QED
  BY <1>2, <1>3, <1>4, <1>5, <1>9

(* Main is back in accept, or has ended the process, after at most           *)
(* SlotCount + 6 of its own steps, and once __io_canceled is set it is never *)
(* in accept again: no other thread and no client takes it further from      *)
(* there. What PendingHandled and StopsOnceAcceptReturns claim is then left  *)
(* to main going on (bt_daemon.c:838-861).                                   *)
THEOREM MainReturnsToAccept ==
  Spec => [](MainStepsLeft \in 0 .. (SlotCount + 6)) /\ [][MainComesRound]_vars
<1>1. TypeOK => MainStepsLeft \in 0 .. (SlotCount + 6)
  <2> SUFFICES ASSUME TypeOK PROVE MainStepsLeft \in 0 .. (SlotCount + 6)
    OBVIOUS
  <2>1. MainStepsLeft \in Nat /\ MainStepsLeft <= SlotCount + 6 /\ SlotCount \in Nat
    BY MainStepsNow, ConstantsAssumption DEF MainStepsAre
  <2> QED
    BY <2>1
<1>2. TypeOK /\ TypeOK' /\ [Next]_vars => [MainComesRound]_vars
  BY MainStepsShrink
<1> QED
  BY <1>1, <1>2, TypeInit, TypeStep, PTL DEF Spec

(* A thread whose recv has failed closes its socket, goes once through all   *)
(* of nSocketList and is gone, in at most 2 * SlotCount + 3 of its own       *)
(* steps, whatever main and the other threads write there meanwhile: what    *)
(* DepartedReclaimed claims of it is left to the thread going on             *)
(* (bt_daemon.c:100-108, 425-439).                                           *)
THEOREM ThreadsLeave ==
  Spec => [][\A t \in Threads : LeavesInTheEnd(t)]_vars
<1>1. TypeOK /\ TypeOK' /\ [Next]_vars => [\A t \in Threads : LeavesInTheEnd(t)]_vars
  BY ThreadStepsShrink
<1> QED
  BY <1>1, TypeInit, TypeStep, PTL DEF Spec

=============================================================================
