------------------------------ MODULE BtServer ------------------------------
(***************************************************************************)
(* The Bluetooth side of the daemon: the accept loop of main and the       *)
(* detached threads that run BT_clientService, one per accepted client.    *)
(*                                                                         *)
(* They share, with no lock, the table nSocketList and main's local        *)
(* variable nSporeSocket, whose address is what a new thread is given.     *)
(* Both scans of the table (getFreeClient, setSocketSlotFree) are loops    *)
(* that other threads interleave with, so each iteration is a step here.   *)
(*                                                                         *)
(* What a thread does with the bytes it receives is NoteFraming; a recv    *)
(* that returns data is here a step back to the loop condition.            *)
(***************************************************************************)
EXTENDS Integers, Sequences, FiniteSets

CONSTANTS
  SlotCount,     \* MAX_CLIENT_SOCKET_CNT, the length of nSocketList
  Fds,           \* the descriptors accept may return
  EMPTY_SOCKET,  \* the value of a free slot (0 in the code)
  BadFd,         \* what a failed accept returns (-1)
  Clients,       \* the remote peers; a peer that is gone may come back
  NoClient,
  Threads,       \* as many threads as pthread_create can make at a time
  Backlog,       \* how many clients the listening socket queues
  Ends,          \* how recv reports a departed peer: "reset" and/or "eof"
  StartsWithinSleep
    \* TRUE: a new thread has copied *pSporeSocket before main's
    \* usleep(100000) is over, unless a signal ends the sleep.
    \* FALSE: nothing orders the two, as POSIX has it.

ASSUME ConstantsAssumption ==
  /\ SlotCount \in Nat \ {0}
  /\ Backlog \in Nat
  /\ EMPTY_SOCKET \notin Fds
  /\ BadFd \notin Fds
  /\ BadFd # EMPTY_SOCKET
  /\ NoClient \notin Clients
  /\ Ends \subseteq {"reset", "eof"}
  /\ StartsWithinSleep \in BOOLEAN

Slots == 0 .. SlotCount - 1

VARIABLES
  canceled,         \* __io_canceled
  mainPc,           \* where main is in its accept loop
  nSporeSocket,     \* main's local variable, read by every new thread
  nFreeSocketSlot,  \* main's local variable; while main scans, the slots left
  nSocketList,      \* the slot table
  pc,               \* where each service thread is; "idle" when not created
  sock,             \* each thread's own copy of nSporeSocket
  scan,             \* how many slots setSocketSlotFree has left to visit
  recvOn,           \* the connection a thread's blocked recv holds
  open,             \* the connection a descriptor names
  peer,             \* what the kernel knows of each client's connection
  backlog           \* the listening socket's queue

mainVars   == <<mainPc, nSporeSocket, nFreeSocketSlot>>
threadVars == <<pc, sock, scan, recvOn>>
netVars    == <<open, peer, backlog>>
vars == <<canceled, mainVars, nSocketList, threadVars, netVars>>

MainPcs == {"check", "accept", "scan", "refuse", "store", "spawn", "sleep",
            "exited"}
ThreadPcs == {"idle", "start", "init", "check", "recv", "close", "free",
              "clear", "release"}
PeerStates == {"away", "pending", "connected", "reset", "eof"}

TypeOK ==
  /\ canceled \in BOOLEAN
  /\ mainPc \in MainPcs
  /\ nSporeSocket \in Fds \cup {BadFd, EMPTY_SOCKET}
  /\ nFreeSocketSlot \in 0 .. SlotCount
  /\ nSocketList \in [Slots -> Fds \cup {BadFd, EMPTY_SOCKET}]
  /\ pc \in [Threads -> ThreadPcs]
  /\ sock \in [Threads -> Fds \cup {BadFd, EMPTY_SOCKET}]
  /\ scan \in [Threads -> 0 .. SlotCount]
  /\ recvOn \in [Threads -> Clients \cup {NoClient}]
  /\ open \in [Fds -> Clients \cup {NoClient}]
  /\ peer \in [Clients -> PeerStates]
  /\ backlog \in Seq(Clients)

Init ==
  /\ canceled = FALSE
  /\ mainPc = "check"
  /\ nSporeSocket = EMPTY_SOCKET
  /\ nFreeSocketSlot = 0
  /\ nSocketList = [s \in Slots |-> EMPTY_SOCKET]
  /\ pc = [t \in Threads |-> "idle"]
  /\ sock = [t \in Threads |-> EMPTY_SOCKET]
  /\ scan = [t \in Threads |-> 0]
  /\ recvOn = [t \in Threads |-> NoClient]
  /\ open = [f \in Fds |-> NoClient]
  /\ peer = [c \in Clients |-> "away"]
  /\ backlog = <<>>

Running == mainPc # "exited"

(* A connection lives as long as a descriptor names it or a recv is blocked  *)
(* on it; the last of them to go tells the peer.                             *)
PeerAfter(names, holds) ==
  [c \in Clients |->
     IF /\ peer[c] \in {"connected", "reset", "eof"}
        /\ \A f \in Fds : names[f] # c
        /\ \A t \in Threads : holds[t] # c
     THEN "away"
     ELSE peer[c]]

CloseFd(f) ==
  /\ open' = [g \in Fds |-> IF g = f THEN NoClient ELSE open[g]]
  /\ peer' = PeerAfter(open', recvOn')

-----------------------------------------------------------------------------
(* The peers and the signal.                                                 *)

Connect(c) ==
  /\ Running
  /\ peer[c] = "away"
  /\ Len(backlog) < Backlog
  /\ peer' = [peer EXCEPT ![c] = "pending"]
  /\ backlog' = Append(backlog, c)
  /\ UNCHANGED <<canceled, mainVars, nSocketList, threadVars, open>>

Disconnect(c, how) ==
  /\ Running
  /\ peer[c] = "connected"
  /\ peer' = [peer EXCEPT ![c] = how]
  /\ UNCHANGED <<canceled, mainVars, nSocketList, threadVars, open, backlog>>

(* SIGINT runs sig_term in whichever thread the kernel picks. A call that    *)
(* thread is blocked in returns early or is restarted: sa_flags is not       *)
(* initialised, so SA_RESTART may or may not be set. usleep always returns.  *)
SignalMain ==
  /\ \/ /\ mainPc = "sleep"
        /\ mainPc' = "check"
        /\ UNCHANGED <<nSporeSocket, nFreeSocketSlot>>
     \/ /\ mainPc = "accept"
        /\ mainPc' = "scan"
        /\ nSporeSocket' = BadFd
        /\ nFreeSocketSlot' = SlotCount
  /\ UNCHANGED <<threadVars, peer>>

SignalThread(t) ==
  /\ pc[t] = "recv"
  /\ pc' = [pc EXCEPT ![t] = "close"]
  /\ recvOn' = [recvOn EXCEPT ![t] = NoClient]
  /\ peer' = PeerAfter(open, recvOn')
  /\ UNCHANGED <<mainVars, sock, scan>>

SignalUnnoticed == UNCHANGED <<mainVars, threadVars, peer>>

sig_term ==
  /\ Running
  /\ ~canceled
  /\ canceled' = TRUE
  /\ \/ SignalMain
     \/ \E t \in Threads : SignalThread(t)
     \/ SignalUnnoticed
  /\ UNCHANGED <<nSocketList, open, backlog>>

-----------------------------------------------------------------------------
(* main's accept loop.                                                       *)

(* Mutant: the loop condition is not looked at again. *)
MainCheck_Forever ==
  /\ mainPc = "check"
  /\ mainPc' = "accept"
  /\ UNCHANGED <<canceled, nSporeSocket, nFreeSocketSlot, nSocketList,
                 threadVars, netVars>>

MainCheck ==
  /\ mainPc = "check"
  /\ mainPc' = IF canceled THEN "exited" ELSE "accept"
  /\ UNCHANGED <<canceled, nSporeSocket, nFreeSocketSlot, nSocketList,
                 threadVars, netVars>>

(* Mutant: the scan is given one slot too many. *)
AcceptFails_OneMore ==
  /\ mainPc = "accept"
  /\ nSporeSocket' = BadFd
  /\ nFreeSocketSlot' = SlotCount + 1
  /\ mainPc' = "scan"
  /\ UNCHANGED <<canceled, nSocketList, threadVars, netVars>>

AcceptClient ==
  /\ mainPc = "accept"
  /\ backlog # <<>>
  /\ \E f \in Fds :
       /\ open[f] = NoClient
       /\ open' = [open EXCEPT ![f] = Head(backlog)]
       /\ nSporeSocket' = f
  /\ peer' = [peer EXCEPT ![Head(backlog)] = "connected"]
  /\ backlog' = Tail(backlog)
  /\ nFreeSocketSlot' = SlotCount
  /\ mainPc' = "scan"
  /\ UNCHANGED <<canceled, nSocketList, threadVars>>

(* No descriptor left, no memory, a connection aborted while queued...: the  *)
(* result is not tested and goes through the loop like a socket.             *)
AcceptFails ==
  /\ mainPc = "accept"
  /\ nSporeSocket' = BadFd
  /\ nFreeSocketSlot' = SlotCount
  /\ mainPc' = "scan"
  /\ UNCHANGED <<canceled, nSocketList, threadVars, netVars>>

getFreeClient ==
  /\ mainPc = "scan"
  /\ IF nFreeSocketSlot = 0
     THEN mainPc' = "refuse" /\ UNCHANGED nFreeSocketSlot
     ELSE /\ nFreeSocketSlot' = nFreeSocketSlot - 1
          /\ mainPc' = IF nSocketList[nFreeSocketSlot - 1] = EMPTY_SOCKET
                       THEN "store" ELSE "scan"
  /\ UNCHANGED <<canceled, nSporeSocket, nSocketList, threadVars, netVars>>

Refuse ==
  /\ mainPc = "refuse"
  /\ UNCHANGED threadVars
  /\ CloseFd(nSporeSocket)
  /\ mainPc' = "check"
  /\ UNCHANGED <<canceled, nSporeSocket, nFreeSocketSlot, nSocketList, backlog>>

StoreSlot ==
  /\ mainPc = "store"
  /\ nSocketList' = [nSocketList EXCEPT ![nFreeSocketSlot] = nSporeSocket]
  /\ mainPc' = "spawn"
  /\ UNCHANGED <<canceled, nSporeSocket, nFreeSocketSlot, threadVars, netVars>>

Spawn ==
  /\ mainPc = "spawn"
  /\ \E t \in Threads :
       /\ pc[t] = "idle"
       /\ pc' = [pc EXCEPT ![t] = "start"]
  /\ mainPc' = "sleep"
  /\ UNCHANGED <<canceled, nSporeSocket, nFreeSocketSlot, nSocketList,
                 sock, scan, recvOn, netVars>>

(* pthread_create fails: erroExitHandler ends the process.                   *)
SpawnFails ==
  /\ mainPc = "spawn"
  /\ mainPc' = "exited"
  /\ UNCHANGED <<canceled, nSporeSocket, nFreeSocketSlot, nSocketList,
                 threadVars, netVars>>

(* Mutant: main does not sleep. *)
SleepOver_AtOnce ==
  /\ mainPc = "sleep"
  /\ mainPc' = "check"
  /\ UNCHANGED <<canceled, nSporeSocket, nFreeSocketSlot, nSocketList,
                 threadVars, netVars>>

(* Mutant: main joins the thread it has made. *)
SleepOver_Join ==
  /\ mainPc = "sleep"
  /\ \A t \in Threads : pc[t] = "idle"
  /\ mainPc' = "check"
  /\ UNCHANGED <<canceled, nSporeSocket, nFreeSocketSlot, nSocketList,
                 threadVars, netVars>>

SleepOver ==
  /\ mainPc = "sleep"
  /\ StartsWithinSleep => \A t \in Threads : pc[t] # "start"
  /\ mainPc' = "check"
  /\ UNCHANGED <<canceled, nSporeSocket, nFreeSocketSlot, nSocketList,
                 threadVars, netVars>>

Main ==
  \/ MainCheck \/ AcceptClient \/ AcceptFails \/ getFreeClient \/ Refuse
  \/ StoreSlot \/ Spawn \/ SpawnFails \/ SleepOver

-----------------------------------------------------------------------------
(* BT_clientService, the body of a service thread.                           *)

Goto(t, to) == pc' = [pc EXCEPT ![t] = to]

Start(t) ==
  /\ pc[t] = "start"
  /\ sock' = [sock EXCEPT ![t] = nSporeSocket]
  /\ Goto(t, "init")
  /\ UNCHANGED <<scan, recvOn, nSocketList, open, peer>>

(* prepareSeqInforForThread, and on success the greeting melody.             *)
PrepareSeq(t) ==
  /\ pc[t] = "init"
  /\ \E to \in {"check", "close"} : Goto(t, to)
  /\ UNCHANGED <<sock, scan, recvOn, nSocketList, open, peer>>

(* The loop condition and the call of recv, which looks the descriptor up:   *)
(* a descriptor that names nothing makes it fail.                            *)
EnterRecv(t) ==
  /\ pc[t] = "check"
  /\ LET conn == IF sock[t] \in Fds THEN open[sock[t]] ELSE NoClient
     IN IF canceled \/ conn = NoClient
        THEN Goto(t, "close") /\ UNCHANGED recvOn
        ELSE Goto(t, "recv") /\ recvOn' = [recvOn EXCEPT ![t] = conn]
  /\ UNCHANGED <<sock, scan, nSocketList, open, peer>>

RecvReturns(t, to) ==
  /\ Goto(t, to)
  /\ recvOn' = [recvOn EXCEPT ![t] = NoClient]
  /\ peer' = PeerAfter(open, recvOn')
  /\ UNCHANGED <<sock, scan, nSocketList, open>>

RecvData(t) ==
  /\ pc[t] = "recv"
  /\ peer[recvOn[t]] = "connected"
  /\ RecvReturns(t, "check")

(* "Received empty": the thread goes on with its loop.                       *)
RecvEmpty(t) ==
  /\ pc[t] = "recv"
  /\ peer[recvOn[t]] = "eof"
  /\ RecvReturns(t, "check")

(* Mutant: an error is logged and the loop goes on. *)
RecvFails_GoOn(t) ==
  /\ pc[t] = "recv"
  /\ peer[recvOn[t]] = "reset"
  /\ RecvReturns(t, "check")

RecvFails(t) ==
  /\ pc[t] = "recv"
  /\ peer[recvOn[t]] = "reset"
  /\ RecvReturns(t, "close")

CloseSocket(t) ==
  /\ pc[t] = "close"
  /\ scan' = [scan EXCEPT ![t] = SlotCount]
  /\ Goto(t, "free")
  /\ UNCHANGED <<sock, recvOn, nSocketList>>
  /\ CloseFd(sock[t])

(* Mutant: the loop stops before the first slot. *)
setSocketSlotFree_Short(t) ==
  \/ /\ pc[t] = "free"
     /\ IF scan[t] = 1
        THEN Goto(t, "release") /\ UNCHANGED scan
        ELSE /\ scan' = [scan EXCEPT ![t] = @ - 1]
             /\ IF nSocketList[scan[t] - 1] = sock[t]
                THEN Goto(t, "clear") ELSE UNCHANGED pc
     /\ UNCHANGED <<sock, recvOn, nSocketList, open, peer>>
  \/ /\ pc[t] = "clear"
     /\ nSocketList' = [nSocketList EXCEPT ![scan[t]] = EMPTY_SOCKET]
     /\ Goto(t, "free")
     /\ UNCHANGED <<sock, scan, recvOn, open, peer>>

(* One iteration of setSocketSlotFree: the test, and then the store.         *)
setSocketSlotFree(t) ==
  \/ /\ pc[t] = "free"
     /\ IF scan[t] = 0
        THEN Goto(t, "release") /\ UNCHANGED scan
        ELSE /\ scan' = [scan EXCEPT ![t] = @ - 1]
             /\ IF nSocketList[scan[t] - 1] = sock[t]
                THEN Goto(t, "clear") ELSE UNCHANGED pc
     /\ UNCHANGED <<sock, recvOn, nSocketList, open, peer>>
  \/ /\ pc[t] = "clear"
     /\ nSocketList' = [nSocketList EXCEPT ![scan[t]] = EMPTY_SOCKET]
     /\ Goto(t, "free")
     /\ UNCHANGED <<sock, scan, recvOn, open, peer>>

(* Ports and sequencer are given back and the detached thread is gone.       *)
Release(t) ==
  /\ pc[t] = "release"
  /\ Goto(t, "idle")
  /\ sock' = [sock EXCEPT ![t] = EMPTY_SOCKET]
  /\ UNCHANGED <<scan, recvOn, nSocketList, open, peer>>

BT_clientService(t) ==
  /\ Running
  /\ \/ Start(t) \/ PrepareSeq(t) \/ EnterRecv(t)
     \/ RecvEmpty(t) \/ RecvFails(t) \/ CloseSocket(t)
     \/ setSocketSlotFree(t) \/ Release(t)
  /\ UNCHANGED <<canceled, mainVars, backlog>>

BT_dataArrives(t) ==
  /\ Running
  /\ RecvData(t)
  /\ UNCHANGED <<canceled, mainVars, backlog>>

-----------------------------------------------------------------------------

Next ==
  \/ \E c \in Clients : Connect(c)
  \/ \E c \in Clients, how \in Ends : Disconnect(c, how)
  \/ sig_term
  \/ Main
  \/ \E t \in Threads : BT_clientService(t) \/ BT_dataArrives(t)

Spec == Init /\ [][Next]_vars

(* Threads that can run do run. accept and recv may block for ever when      *)
(* nobody connects or sends; accept does not fail for ever while a client is *)
(* queued and a descriptor is free.                                          *)
MainRuns ==
  \/ MainCheck \/ getFreeClient \/ Refuse \/ StoreSlot
  \/ Spawn \/ SpawnFails \/ SleepOver

Fairness ==
  /\ WF_vars(MainRuns)
  /\ SF_vars(AcceptClient)
  /\ \A t \in Threads : WF_vars(BT_clientService(t))

FairSpec == Spec /\ Fairness

-----------------------------------------------------------------------------
(* Properties.                                                               *)

Serving == {"init", "check", "recv", "close"}
Live(t) == pc[t] # "idle"

(* The descriptor thread t works for: its own copy once it has made it.      *)
Serves(t) == IF pc[t] = "start" THEN nSporeSocket ELSE sock[t]

(* A taken slot of nSocketList belongs to somebody who will empty it: a live *)
(* service thread with that descriptor, or the thread main is about to make. *)
(* Otherwise the slot is lost, and with it one of the clients the daemon can *)
(* serve (bt_daemon.c:100-108, 427, 843-858).                                *)
SlotHasServer ==
  Running =>
    \A s \in Slots :
      \/ nSocketList[s] = EMPTY_SOCKET
      \/ mainPc = "spawn" /\ nFreeSocketSlot = s
      \/ \E t \in Threads : Live(t) /\ Serves(t) = nSocketList[s]

(* No two threads that have yet to close their socket have the same one, so  *)
(* a thread neither reads another client's notes nor closes its connection   *)
(* (bt_daemon.c:379, 398, 426, 851).                                         *)
OwnDescriptor ==
  \A t, u \in Threads :
    /\ t # u
    /\ pc[t] \in Serving
    /\ pc[u] \in Serving
    /\ sock[t] = sock[u]
    => sock[t] = BadFd

(* The daemon never serves more clients than nSocketList has slots           *)
(* (MAX_CLIENT_SOCKET_CNT, bt_daemon.c:55, 843-849).                         *)
ServedWithinLimit ==
  Cardinality({t \in Threads : pc[t] \in Serving /\ sock[t] \in Fds})
    <= SlotCount

(* The slot of a client that is gone is freed again, or the process ends     *)
(* (bt_daemon.c:399-403, 425-427).                                           *)
DepartedReclaimed ==
  \A s \in Slots :
    ( /\ nSocketList[s] \in Fds
      /\ \E c \in Clients : /\ open[nSocketList[s]] = c
                            /\ peer[c] \in {"reset", "eof"} )
    ~> (nSocketList[s] = EMPTY_SOCKET \/ ~Running)

(* A client in the listening queue is accepted sooner or later, whatever the *)
(* clients before it do: serving them never blocks main (bt_daemon.c:838-861).*)
PendingHandled ==
  \A c \in Clients : (peer[c] = "pending") ~> (peer[c] # "pending" \/ ~Running)

(* Once __io_canceled is set, main ends the process if accept returns at all *)
(* (bt_daemon.c:85-88, 838, 863-874).                                        *)
StopsOnceAcceptReturns ==
  (canceled /\ mainPc # "accept") ~> ~Running

(* SIGINT ends the server (bt_daemon.c:578-583, 589).                        *)
SignalEndsServer == canceled ~> ~Running

=============================================================================
