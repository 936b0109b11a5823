----------------------------- MODULE IpcServer ------------------------------
(***************************************************************************)
(* The IPC server of the daemon, thread updateMidiAttr: local programs     *)
(* connect to its Unix socket and send commands that change the MIDI       *)
(* attributes. One thread serves them all with select.                     *)
(*                                                                         *)
(* The listening socket does not block; the sockets accept returns do,     *)
(* since on Linux they do not inherit the flag. A call that blocks is an   *)
(* action that is not enabled. The text of a command is left out: unread   *)
(* counts what a client has sent and the server has not read.              *)
(***************************************************************************)
EXTENDS Integers, Sequences, FiniteSets

CONSTANTS
  Fds,        \* the descriptors this thread may be given
  Clients,    \* the local programs
  NoOne,      \* what a descriptor names that is not this server's
  Listener,   \* what nServerSocket names
  Backlog,    \* how many clients the listening socket queues (8)
  MaxUnread   \* bound: a client has at most so much unread

ASSUME IpcAssumption ==
  /\ Fds \subseteq Nat
  /\ IsFiniteSet(Fds)
  /\ NoOne \notin Clients
  /\ Listener \notin Clients
  /\ NoOne # Listener
  /\ Backlog \in Nat
  /\ MaxUnread \in Nat

VARIABLES
  canceled,       \* __io_canceled
  pc,             \* where the thread is
  nMaxSocketFd,
  tMasterFdSet,   \* the descriptors select watches
  tWorkingFdSet,  \* those the last select found ready
  nReadyFd,       \* how many of them are left to serve
  nFdIndex,       \* the one being served, or the next to look at
  open,           \* what each descriptor names
  backlog,        \* the clients accept has yet to return
  peer,           \* each client's end of its connection
  unread          \* what each client has sent and the server has not read

setVars == <<nMaxSocketFd, tMasterFdSet>>
scanVars == <<tWorkingFdSet, nReadyFd, nFdIndex>>
vars == <<canceled, pc, setVars, scanVars, open, backlog, peer, unread>>

Pcs == {"setup", "select", "scan", "accept", "recv", "close", "cleanup", "done"}

TypeOK ==
  /\ canceled \in BOOLEAN
  /\ pc \in Pcs
  /\ nMaxSocketFd \in Fds \cup {0}
  /\ tMasterFdSet \subseteq Fds
  /\ tWorkingFdSet \subseteq Fds
  /\ nReadyFd \in Nat
  /\ nFdIndex \in Nat
  /\ open \in [Fds -> Clients \cup {NoOne, Listener}]
  /\ backlog \in Seq(Clients)
  /\ peer \in [Clients -> {"away", "here", "closed", "reset"}]
  /\ unread \in [Clients -> 0 .. MaxUnread]

Init ==
  /\ canceled = FALSE
  /\ pc = "setup"
  /\ nMaxSocketFd = 0
  /\ tMasterFdSet = {}
  /\ tWorkingFdSet = {}
  /\ nReadyFd = 0
  /\ nFdIndex = 0
  /\ open = [f \in Fds |-> NoOne]
  /\ backlog = <<>>
  /\ peer = [c \in Clients |-> "away"]
  /\ unread = [c \in Clients |-> 0]

Listening == \E f \in Fds : open[f] = Listener

-----------------------------------------------------------------------------
(* The clients and the signal.                                               *)

Connect(c) ==
  /\ Listening
  /\ peer[c] = "away"
  /\ Len(backlog) < Backlog
  /\ peer' = [peer EXCEPT ![c] = "here"]
  /\ backlog' = Append(backlog, c)
  /\ UNCHANGED <<canceled, pc, setVars, scanVars, open, unread>>

Send(c) ==
  /\ peer[c] = "here"
  /\ unread[c] < MaxUnread
  /\ unread' = [unread EXCEPT ![c] = @ + 1]
  /\ UNCHANGED <<canceled, pc, setVars, scanVars, open, backlog, peer>>

HangUp(c) ==
  /\ peer[c] = "here"
  /\ \E how \in {"closed", "reset"} : peer' = [peer EXCEPT ![c] = how]
  /\ UNCHANGED <<canceled, pc, setVars, scanVars, open, backlog, unread>>

(* sig_term runs in this thread, and ends the select or recv it is blocked   *)
(* in, or in another.                                                        *)
sig_term ==
  /\ ~ canceled
  /\ canceled' = TRUE
  /\ \/ pc = "select" /\ pc' = "cleanup"
     \/ pc = "recv" /\ pc' = "close"
     \/ UNCHANGED pc
  /\ UNCHANGED <<setVars, scanVars, open, backlog, peer, unread>>

-----------------------------------------------------------------------------
(* The server.                                                               *)

(* The sequencer is opened, the ports parsed and connected, the listening    *)
(* socket made; whatever fails, what was there is given back.                *)
Setup ==
  /\ pc = "setup"
  /\ \/ \E f \in Fds :
          /\ open[f] = NoOne
          /\ open' = [open EXCEPT ![f] = Listener]
          /\ tMasterFdSet' = {f}
          /\ nMaxSocketFd' = f
          /\ pc' = "select"
     \/ pc' = "done" /\ UNCHANGED <<setVars, open>>
  /\ UNCHANGED <<canceled, scanVars, backlog, peer, unread>>

Readable(f) ==
  \/ open[f] = Listener /\ backlog # <<>>
  \/ open[f] \in Clients /\ (unread[open[f]] > 0 \/ peer[open[f]] # "here")

Select ==
  LET ready == {f \in tMasterFdSet : f <= nMaxSocketFd /\ Readable(f)} IN
  /\ pc = "select"
  /\ ready # {}
  /\ tWorkingFdSet' = ready
  /\ nReadyFd' = Cardinality(ready)
  /\ nFdIndex' = 0
  /\ pc' = "scan"
  /\ UNCHANGED <<canceled, setVars, open, backlog, peer, unread>>

(* The descriptors the for loop has left to visit.                           *)
Ahead == {f \in tWorkingFdSet : nFdIndex <= f /\ f <= nMaxSocketFd}

VisitNext ==
  /\ pc = "scan"
  /\ nReadyFd > 0
  /\ \E f \in Ahead :
       /\ \A g \in Ahead : f <= g
       /\ nFdIndex' = f
       /\ pc' = IF open[f] = Listener THEN "accept" ELSE "recv"
  /\ nReadyFd' = nReadyFd - 1
  /\ UNCHANGED <<canceled, setVars, tWorkingFdSet, open, backlog, peer, unread>>

(* Mutant: the loop condition is forgotten. *)
ScanOver_Forever ==
  /\ pc = "scan"
  /\ nReadyFd = 0 \/ Ahead = {}
  /\ pc' = "select"
  /\ UNCHANGED <<canceled, setVars, scanVars, open, backlog, peer, unread>>

ScanOver ==
  /\ pc = "scan"
  /\ nReadyFd = 0 \/ Ahead = {}
  /\ pc' = IF canceled THEN "cleanup" ELSE "select"
  /\ UNCHANGED <<canceled, setVars, scanVars, open, backlog, peer, unread>>

(* Mutant: nMaxSocketFd is not raised. *)
AcceptClient_KeepMax ==
  /\ pc = "accept"
  /\ backlog # <<>>
  /\ \E f \in Fds :
       /\ open[f] = NoOne
       /\ open' = [open EXCEPT ![f] = Head(backlog)]
       /\ tMasterFdSet' = tMasterFdSet \cup {f}
  /\ backlog' = Tail(backlog)
  /\ UNCHANGED <<canceled, pc, nMaxSocketFd, scanVars, peer, unread>>

AcceptClient ==
  /\ pc = "accept"
  /\ backlog # <<>>
  /\ \E f \in Fds :
       /\ open[f] = NoOne
       /\ open' = [open EXCEPT ![f] = Head(backlog)]
       /\ tMasterFdSet' = tMasterFdSet \cup {f}
       /\ nMaxSocketFd' = IF f > nMaxSocketFd THEN f ELSE nMaxSocketFd
  /\ backlog' = Tail(backlog)
  /\ UNCHANGED <<canceled, pc, scanVars, peer, unread>>

(* Mutant: the loop does not go on to the next descriptor. *)
NextIndex_Stay ==
  /\ nFdIndex' = nFdIndex
  /\ pc' = "scan"

NextIndex ==
  /\ nFdIndex' = nFdIndex + 1
  /\ pc' = "scan"

AcceptWouldBlock ==
  /\ pc = "accept"
  /\ backlog = <<>>
  /\ NextIndex
  /\ UNCHANGED <<canceled, setVars, tWorkingFdSet, nReadyFd, open, backlog, peer, unread>>

(* No descriptor or no memory, which accept may find out before it looks at  *)
(* the queue: the whole daemon is sent SIGINT.                               *)
AcceptFails ==
  /\ pc = "accept"
  /\ canceled' = TRUE
  /\ NextIndex
  /\ UNCHANGED <<setVars, tWorkingFdSet, nReadyFd, open, backlog, peer, unread>>

Served == open[nFdIndex]

(* Commands are received and executed; the loop then calls recv again.       *)
RecvCommands ==
  /\ pc = "recv"
  /\ peer[Served] # "reset"
  /\ \E n \in 1 .. unread[Served] :
       unread' = [unread EXCEPT ![Served] = @ - n]
  /\ UNCHANGED <<canceled, pc, setVars, scanVars, open, backlog, peer>>

(* Mutant: recv returning 0 does not end the loop. *)
RecvEnds_ErrorOnly ==
  /\ pc = "recv"
  /\ peer[Served] = "reset"
  /\ pc' = "close"
  /\ UNCHANGED <<canceled, setVars, scanVars, open, backlog, peer, unread>>

(* recv returns 0, or fails.                                                 *)
RecvEnds ==
  /\ pc = "recv"
  /\ \/ peer[Served] = "reset"
     \/ peer[Served] = "closed" /\ unread[Served] = 0
  /\ pc' = "close"
  /\ UNCHANGED <<canceled, setVars, scanVars, open, backlog, peer, unread>>

(* A closed connection is forgotten; its client may connect again.           *)
Forget(gone) ==
  /\ peer' = [c \in Clients |-> IF c \in gone THEN "away" ELSE peer[c]]
  /\ unread' = [c \in Clients |-> IF c \in gone THEN 0 ELSE unread[c]]

(* Mutant: the highest descriptor is taken to be the one below. *)
CloseClient_NextMax ==
  /\ pc = "close"
  /\ open' = [open EXCEPT ![nFdIndex] = NoOne]
  /\ Forget({Served})
  /\ tMasterFdSet' = tMasterFdSet \ {nFdIndex}
  /\ nMaxSocketFd' = IF nFdIndex = nMaxSocketFd
                     THEN nMaxSocketFd - 1 ELSE nMaxSocketFd
  /\ NextIndex
  /\ UNCHANGED <<canceled, tWorkingFdSet, nReadyFd, backlog>>

(* Mutant: FD_CLR is forgotten. *)
CloseClient_KeepBit ==
  /\ pc = "close"
  /\ open' = [open EXCEPT ![nFdIndex] = NoOne]
  /\ Forget({Served})
  /\ NextIndex
  /\ UNCHANGED <<canceled, setVars, tWorkingFdSet, nReadyFd, backlog>>

CloseClient ==
  /\ pc = "close"
  /\ open' = [open EXCEPT ![nFdIndex] = NoOne]
  /\ Forget({Served})
  /\ tMasterFdSet' = tMasterFdSet \ {nFdIndex}
  /\ nMaxSocketFd' =
       IF nFdIndex = nMaxSocketFd
       THEN CHOOSE f \in tMasterFdSet' : \A g \in tMasterFdSet' : g <= f
       ELSE nMaxSocketFd
  /\ NextIndex
  /\ UNCHANGED <<canceled, tWorkingFdSet, nReadyFd, backlog>>

(* Mutant: the highest descriptor is left open. *)
Cleanup_BelowMax ==
  /\ pc = "cleanup"
  /\ open' = [f \in Fds |-> IF f \in tMasterFdSet /\ f < nMaxSocketFd
                            THEN NoOne ELSE open[f]]
  /\ Forget({c \in Clients : \E f \in tMasterFdSet : open[f] = c}
              \cup {backlog[i] : i \in 1 .. Len(backlog)})
  /\ backlog' = <<>>
  /\ pc' = "done"
  /\ UNCHANGED <<canceled, setVars, scanVars>>

(* Every descriptor of the master set is closed, the listening socket and    *)
(* with it its queue included.                                               *)
Cleanup ==
  /\ pc = "cleanup"
  /\ open' = [f \in Fds |-> IF f \in tMasterFdSet /\ f <= nMaxSocketFd
                            THEN NoOne ELSE open[f]]
  /\ Forget({c \in Clients : \E f \in tMasterFdSet : open[f] = c}
              \cup {backlog[i] : i \in 1 .. Len(backlog)})
  /\ backlog' = <<>>
  /\ pc' = "done"
  /\ UNCHANGED <<canceled, setVars, scanVars>>

updateMidiAttr ==
  \/ Setup \/ Select \/ VisitNext \/ ScanOver
  \/ AcceptClient \/ AcceptWouldBlock \/ AcceptFails
  \/ RecvCommands \/ RecvEnds \/ CloseClient \/ Cleanup

-----------------------------------------------------------------------------

Next ==
  \/ \E c \in Clients : Connect(c) \/ Send(c) \/ HangUp(c)
  \/ sig_term
  \/ updateMidiAttr

Spec == Init /\ [][Next]_vars

(* The thread runs whenever no call blocks it.                               *)
FairSpec == Spec /\ WF_vars(updateMidiAttr)

-----------------------------------------------------------------------------
(* Properties.                                                               *)

Serving == pc \in Pcs \ {"setup", "done"}

(* The master set holds the server's descriptors, all of them and no other,  *)
(* through every accept and close: none is watched after its close, when     *)
(* another thread may have it, and none is forgotten                         *)
(* (bt_daemon.c:539-541, 598, 661-662).                                         *)
WatchedAreOpen ==
  Serving => tMasterFdSet = {f \in Fds : open[f] # NoOne}

(* nMaxSocketFd is the highest descriptor of the master set: select, the     *)
(* scan and the last clean-up reach every one, and the loop that lowers it   *)
(* stops (bt_daemon.c:540, 599-600, 663-666).                                *)
MaxIsWatched ==
  Serving => /\ nMaxSocketFd \in tMasterFdSet
             /\ \A f \in tMasterFdSet : f <= nMaxSocketFd

(* What select found ready and the scan has not visited is still what it     *)
(* was: no descriptor is read that was closed, or closed and given to        *)
(* another client, since (bt_daemon.c:563-565, 585, 661).                    *)
ReadyStaysOpen ==
  pc \in {"scan", "accept", "recv", "close"} =>
    \A f \in tWorkingFdSet :
      f >= nFdIndex => open[f] # NoOne

(* No socket is left behind when the thread ends (bt_daemon.c:677-680).      *)
NothingLeftOpen == pc = "done" => \A f \in Fds : open[f] = NoOne

(* The thread serves one client at a time, until that client hangs up: one   *)
(* that never does, silent or sending for ever, may keep it in its recv loop *)
(* (bt_daemon.c:618-649).                                                    *)
ClientStays == <>[](pc = "recv" /\ peer[Served] = "here")

Waiting(c) ==
  \/ unread[c] > 0
  \/ \E i \in 1 .. Len(backlog) : backlog[i] = c
EachIsServed == \A c \in Clients : Waiting(c) ~> (~ Waiting(c) \/ canceled)

(* Whoever waits in the queue or has sent something gets the server's        *)
(* attention, however the clients connect, send, hang up and come back,      *)
(* unless one of them stays for ever while it is served: nothing else holds  *)
(* anybody up (bt_daemon.c:577-606, 618-649).                                *)
ServedUnlessClientStays == ClientStays \/ EachIsServed

(* Were the client sockets non-blocking, as the comment has it, a connected  *)
(* client that is silent could keep nobody waiting: once nobody sends any    *)
(* more, all that was sent is read (bt_daemon.c:505-509, 619-624).           *)
SilentClientsDelayNobody ==
  (<>[][\A c \in Clients : ~ Send(c)]_vars) => EachIsServed

(* Once __io_canceled is set the thread ends, after the connections select   *)
(* has found ready, unless select does not return or a client stays for ever *)
(* while it is served (bt_daemon.c:552-556, 618-649, 671-680).               *)
EndsUnlessClientStays ==
  \/ ClientStays
  \/ (canceled /\ pc \notin {"setup", "select"}) ~> (pc = "done")
=============================================================================
