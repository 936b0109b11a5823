-------------------------- MODULE IpcServerProofs ---------------------------
(***************************************************************************)
(* The bookkeeping of the IPC server's select loop is right for any number *)
(* of clients and descriptors.                                             *)
(***************************************************************************)
EXTENDS IpcServer, FiniteSetTheorems, WellFoundedInduction, TLAPS

-----------------------------------------------------------------------------
(* Types.                                                                    *)

LEMMA TypeInit == Init => TypeOK
<1> SUFFICES ASSUME Init PROVE TypeOK
  OBVIOUS
<1> USE IpcAssumption DEF Init
<1>1. canceled \in BOOLEAN /\ pc \in Pcs
  BY DEF Pcs
<1>2. /\ nMaxSocketFd \in Fds \cup {0}
      /\ tMasterFdSet \subseteq Fds /\ tWorkingFdSet \subseteq Fds
      /\ nReadyFd \in Nat /\ nFdIndex \in Nat
  OBVIOUS
<1>3. /\ open \in [Fds -> Clients \cup {NoOne, Listener}]
      /\ peer \in [Clients -> {"away", "here", "closed", "reset"}]
  OBVIOUS
<1>4. unread \in [Clients -> 0 .. MaxUnread] /\ backlog \in Seq(Clients)
  OBVIOUS
<1> QED
  BY <1>1, <1>2, <1>3, <1>4 DEF TypeOK

(* A descriptor being served is a client's, and the listening socket stays.  *)
ServesClient ==
  /\ pc = "accept" => nFdIndex \in Fds /\ open[nFdIndex] = Listener
  /\ pc \in {"recv", "close"} => nFdIndex \in Fds /\ open[nFdIndex] \in Clients
  /\ Serving => Listening
  /\ pc = "setup" => \A f \in Fds : open[f] = NoOne

LoopInv ==
  /\ TypeOK
  /\ ServesClient
  /\ WatchedAreOpen
  /\ MaxIsWatched
  /\ ReadyStaysOpen
  /\ NothingLeftOpen

LEMMA LoopInit == Init => LoopInv
<1> SUFFICES ASSUME Init PROVE LoopInv
  OBVIOUS
<1>1. TypeOK
  BY TypeInit
<1> QED
  BY <1>1 DEF Init, LoopInv, ServesClient, WatchedAreOpen, MaxIsWatched,
              ReadyStaysOpen, NothingLeftOpen, Serving, Pcs

LEMMA ConnectStep ==
  ASSUME LoopInv, NEW c \in Clients, Connect(c)
  PROVE  LoopInv'
<1> USE IpcAssumption
<1>1. TypeOK'
  BY DEF Connect, LoopInv, TypeOK, setVars, scanVars, Pcs
<1>2. ServesClient'
    BY DEF Connect, LoopInv, TypeOK, ServesClient, Listening, Serving, Pcs,
     setVars, scanVars
<1>3. WatchedAreOpen'
  BY DEF Connect, LoopInv, TypeOK, WatchedAreOpen, Serving, Pcs, setVars, scanVars
<1>4. MaxIsWatched'
    BY DEF Connect, LoopInv, TypeOK, MaxIsWatched, WatchedAreOpen, Serving, Pcs,
     setVars, scanVars
<1>5. ReadyStaysOpen'
    BY DEF Connect, LoopInv, TypeOK, ReadyStaysOpen, WatchedAreOpen, Serving,
     Pcs, setVars, scanVars
<1>6. NothingLeftOpen'
    BY DEF Connect, LoopInv, TypeOK, NothingLeftOpen, WatchedAreOpen,
     MaxIsWatched, Serving, Pcs, setVars, scanVars
<1> QED
  BY <1>1, <1>2, <1>3, <1>4, <1>5, <1>6 DEF LoopInv

LEMMA SendStep ==
  ASSUME LoopInv, NEW c \in Clients, Send(c)
  PROVE  LoopInv'
<1> USE IpcAssumption
<1>1. TypeOK'
  BY DEF Send, LoopInv, TypeOK, setVars, scanVars, Pcs
<1>2. ServesClient'
    BY DEF Send, LoopInv, TypeOK, ServesClient, Listening, Serving, Pcs,
     setVars, scanVars
<1>3. WatchedAreOpen'
  BY DEF Send, LoopInv, TypeOK, WatchedAreOpen, Serving, Pcs, setVars, scanVars
<1>4. MaxIsWatched'
    BY DEF Send, LoopInv, TypeOK, MaxIsWatched, WatchedAreOpen, Serving, Pcs,
     setVars, scanVars
<1>5. ReadyStaysOpen'
    BY DEF Send, LoopInv, TypeOK, ReadyStaysOpen, WatchedAreOpen, Serving, Pcs,
     setVars, scanVars
<1>6. NothingLeftOpen'
    BY DEF Send, LoopInv, TypeOK, NothingLeftOpen, WatchedAreOpen, MaxIsWatched,
     Serving, Pcs, setVars, scanVars
<1> QED
  BY <1>1, <1>2, <1>3, <1>4, <1>5, <1>6 DEF LoopInv

LEMMA HangUpStep ==
  ASSUME LoopInv, NEW c \in Clients, HangUp(c)
  PROVE  LoopInv'
<1> USE IpcAssumption
<1>1. TypeOK'
  BY DEF HangUp, LoopInv, TypeOK, setVars, scanVars, Pcs
<1>2. ServesClient'
    BY DEF HangUp, LoopInv, TypeOK, ServesClient, Listening, Serving, Pcs,
     setVars, scanVars
<1>3. WatchedAreOpen'
  BY DEF HangUp, LoopInv, TypeOK, WatchedAreOpen, Serving, Pcs, setVars, scanVars
<1>4. MaxIsWatched'
    BY DEF HangUp, LoopInv, TypeOK, MaxIsWatched, WatchedAreOpen, Serving, Pcs,
     setVars, scanVars
<1>5. ReadyStaysOpen'
    BY DEF HangUp, LoopInv, TypeOK, ReadyStaysOpen, WatchedAreOpen, Serving,
     Pcs, setVars, scanVars
<1>6. NothingLeftOpen'
    BY DEF HangUp, LoopInv, TypeOK, NothingLeftOpen, WatchedAreOpen,
     MaxIsWatched, Serving, Pcs, setVars, scanVars
<1> QED
  BY <1>1, <1>2, <1>3, <1>4, <1>5, <1>6 DEF LoopInv

LEMMA sig_termStep ==
  ASSUME LoopInv, sig_term
  PROVE  LoopInv'
<1> USE IpcAssumption
<1>1. TypeOK'
  BY DEF sig_term, LoopInv, TypeOK, setVars, scanVars, Pcs
<1>2. ServesClient'
    BY DEF sig_term, LoopInv, TypeOK, ServesClient, Listening, Serving, Pcs,
     setVars, scanVars
<1>3. WatchedAreOpen'
  BY DEF sig_term, LoopInv, TypeOK, WatchedAreOpen, Serving, Pcs, setVars, scanVars
<1>4. MaxIsWatched'
    BY DEF sig_term, LoopInv, TypeOK, MaxIsWatched, WatchedAreOpen, Serving,
     Pcs, setVars, scanVars
<1>5. ReadyStaysOpen'
    BY DEF sig_term, LoopInv, TypeOK, ReadyStaysOpen, WatchedAreOpen, Serving,
     Pcs, setVars, scanVars
<1>6. NothingLeftOpen'
    BY DEF sig_term, LoopInv, TypeOK, NothingLeftOpen, WatchedAreOpen,
     MaxIsWatched, Serving, Pcs, setVars, scanVars
<1> QED
  BY <1>1, <1>2, <1>3, <1>4, <1>5, <1>6 DEF LoopInv

LEMMA SetupStep ==
  ASSUME LoopInv, Setup
  PROVE  LoopInv'
<1> USE IpcAssumption
<1>1. TypeOK'
  BY DEF Setup, LoopInv, TypeOK, setVars, scanVars, Pcs
<1>2. ServesClient'
    BY DEF Setup, LoopInv, TypeOK, ServesClient, Listening, Serving, Pcs,
     setVars, scanVars
<1>3. WatchedAreOpen'
  <2>1. \A f \in Fds : open[f] = NoOne
    BY DEF Setup, LoopInv, ServesClient
  <2>2. ASSUME NEW f \in Fds, open' = [open EXCEPT ![f] = Listener],
               tMasterFdSet' = {f}
        PROVE  tMasterFdSet' = {g \in Fds : open'[g] # NoOne}
    <3>1. open \in [Fds -> Clients \cup {NoOne, Listener}]
      BY DEF LoopInv, TypeOK
    <3>2. \A g \in Fds : open'[g] # NoOne <=> g = f
      BY <2>1, <2>2, <3>1
    <3> QED
      BY <2>2, <3>2
  <2>3. CASE pc' = "done"
    BY <2>3 DEF WatchedAreOpen, Serving
  <2> QED
    BY <2>2, <2>3 DEF Setup, WatchedAreOpen
<1>4. MaxIsWatched'
    BY DEF Setup, LoopInv, TypeOK, MaxIsWatched, WatchedAreOpen, Serving, Pcs,
     setVars, scanVars
<1>5. ReadyStaysOpen'
    BY DEF Setup, LoopInv, TypeOK, ReadyStaysOpen, WatchedAreOpen, Serving, Pcs,
     setVars, scanVars
<1>6. NothingLeftOpen'
    BY DEF Setup, LoopInv, TypeOK, ServesClient, NothingLeftOpen,
     WatchedAreOpen, MaxIsWatched, Serving, Pcs, setVars, scanVars
<1> QED
  BY <1>1, <1>2, <1>3, <1>4, <1>5, <1>6 DEF LoopInv

LEMMA SelectStep ==
  ASSUME LoopInv, Select
  PROVE  LoopInv'
<1> USE IpcAssumption
<1> DEFINE ready == {f \in tMasterFdSet : f <= nMaxSocketFd /\ Readable(f)}
<1>a. Cardinality(ready) \in Nat
  <2>1. ready \subseteq Fds
    BY DEF LoopInv, TypeOK
  <2>2. IsFiniteSet(ready)
    BY <2>1, FS_Subset
  <2> QED
    BY <2>2, FS_CardinalityType
<1>b. ready \subseteq Fds
  BY DEF LoopInv, TypeOK
<1>1. TypeOK'
  <2> HIDE DEF ready
  <2>1. /\ tWorkingFdSet' = ready
        /\ nReadyFd' = Cardinality(ready)
        /\ nFdIndex' = 0
        /\ pc' = "scan"
        /\ UNCHANGED <<canceled, setVars, open, backlog, peer, unread>>
    BY DEF Select, ready
  <2> QED
    BY <1>a, <1>b, <2>1 DEF LoopInv, TypeOK, setVars, Pcs
<1>2. ServesClient'
    BY DEF Select, LoopInv, TypeOK, ServesClient, Listening, Serving, Pcs,
     setVars, scanVars, Readable
<1>3. WatchedAreOpen'
    BY DEF Select, LoopInv, TypeOK, WatchedAreOpen, Serving, Pcs, setVars,
     scanVars, Readable
<1>4. MaxIsWatched'
    BY DEF Select, LoopInv, TypeOK, MaxIsWatched, WatchedAreOpen, Serving, Pcs,
     setVars, scanVars, Readable
<1>5. ReadyStaysOpen'
    BY DEF Select, LoopInv, TypeOK, ReadyStaysOpen, WatchedAreOpen, Serving,
     Pcs, setVars, scanVars, Readable
<1>6. NothingLeftOpen'
    BY DEF Select, LoopInv, TypeOK, NothingLeftOpen, WatchedAreOpen,
     MaxIsWatched, Serving, Pcs, setVars, scanVars, Readable
<1> QED
  BY <1>1, <1>2, <1>3, <1>4, <1>5, <1>6 DEF LoopInv

LEMMA VisitNextStep ==
  ASSUME LoopInv, VisitNext
  PROVE  LoopInv'
<1> USE IpcAssumption
<1>1. TypeOK'
  BY DEF VisitNext, LoopInv, ReadyStaysOpen, Ahead, TypeOK, setVars, scanVars, Pcs
<1>2. ServesClient'
    BY DEF VisitNext, LoopInv, ReadyStaysOpen, Ahead, TypeOK, ServesClient,
     Listening, Serving, Pcs, setVars, scanVars
<1>3. WatchedAreOpen'
  BY DEF VisitNext, LoopInv, TypeOK, WatchedAreOpen, Serving, Pcs, setVars, scanVars
<1>4. MaxIsWatched'
    BY DEF VisitNext, LoopInv, TypeOK, MaxIsWatched, WatchedAreOpen, Serving,
     Pcs, setVars, scanVars
<1>5. ReadyStaysOpen'
  <2>1. PICK f \in Ahead : nFdIndex' = f /\ \A g \in Ahead : f <= g
    BY DEF VisitNext
  <2>2. /\ Fds \subseteq Nat /\ tWorkingFdSet \subseteq Fds
        /\ f \in Nat /\ nFdIndex \in Nat /\ f >= nFdIndex
    BY <2>1 DEF LoopInv, TypeOK, Ahead
  <2>3. \A g \in tWorkingFdSet : g >= f => g >= nFdIndex
    BY <2>2
  <2>4. \A g \in tWorkingFdSet : g >= nFdIndex => open[g] # NoOne
    BY DEF VisitNext, LoopInv, ReadyStaysOpen
  <2>5. UNCHANGED <<tWorkingFdSet, open>>
    BY DEF VisitNext
  <2> QED
    BY <2>1, <2>3, <2>4, <2>5 DEF ReadyStaysOpen
<1>6. NothingLeftOpen'
    BY DEF VisitNext, LoopInv, TypeOK, NothingLeftOpen, WatchedAreOpen,
     MaxIsWatched, Serving, Pcs, setVars, scanVars
<1> QED
  BY <1>1, <1>2, <1>3, <1>4, <1>5, <1>6 DEF LoopInv

LEMMA ScanOverStep ==
  ASSUME LoopInv, ScanOver
  PROVE  LoopInv'
<1> USE IpcAssumption
<1>1. TypeOK'
  BY DEF ScanOver, LoopInv, TypeOK, setVars, scanVars, Pcs
<1>2. ServesClient'
    BY DEF ScanOver, LoopInv, TypeOK, ServesClient, Listening, Serving, Pcs,
     setVars, scanVars
<1>3. WatchedAreOpen'
  BY DEF ScanOver, LoopInv, TypeOK, WatchedAreOpen, Serving, Pcs, setVars, scanVars
<1>4. MaxIsWatched'
    BY DEF ScanOver, LoopInv, TypeOK, MaxIsWatched, WatchedAreOpen, Serving,
     Pcs, setVars, scanVars
<1>5. ReadyStaysOpen'
    BY DEF ScanOver, LoopInv, TypeOK, ReadyStaysOpen, WatchedAreOpen, Serving,
     Pcs, setVars, scanVars
<1>6. NothingLeftOpen'
    BY DEF ScanOver, LoopInv, TypeOK, NothingLeftOpen, WatchedAreOpen,
     MaxIsWatched, Serving, Pcs, setVars, scanVars
<1> QED
  BY <1>1, <1>2, <1>3, <1>4, <1>5, <1>6 DEF LoopInv

LEMMA AcceptClientStep ==
  ASSUME LoopInv, AcceptClient
  PROVE  LoopInv'
<1> USE IpcAssumption
<1>1. TypeOK'
  BY DEF AcceptClient, LoopInv, TypeOK, setVars, scanVars, Pcs
<1>2. ServesClient'
    BY DEF AcceptClient, LoopInv, TypeOK, ServesClient, Listening, Serving, Pcs,
     setVars, scanVars
<1>3. WatchedAreOpen'
    BY DEF AcceptClient, LoopInv, TypeOK, WatchedAreOpen, Serving, Pcs, setVars,
     scanVars
<1>4. MaxIsWatched'
    BY DEF AcceptClient, LoopInv, TypeOK, MaxIsWatched, WatchedAreOpen, Serving,
     Pcs, setVars, scanVars
<1>5. ReadyStaysOpen'
    BY DEF AcceptClient, LoopInv, TypeOK, ReadyStaysOpen, WatchedAreOpen,
     Serving, Pcs, setVars, scanVars
<1>6. NothingLeftOpen'
    BY DEF AcceptClient, LoopInv, TypeOK, NothingLeftOpen, WatchedAreOpen,
     MaxIsWatched, Serving, Pcs, setVars, scanVars
<1> QED
  BY <1>1, <1>2, <1>3, <1>4, <1>5, <1>6 DEF LoopInv

LEMMA AcceptWouldBlockStep ==
  ASSUME LoopInv, AcceptWouldBlock
  PROVE  LoopInv'
<1> USE IpcAssumption
<1>1. TypeOK'
  BY DEF AcceptWouldBlock, LoopInv, TypeOK, setVars, scanVars, Pcs, NextIndex
<1>2. ServesClient'
    BY DEF AcceptWouldBlock, LoopInv, TypeOK, ServesClient, Listening, Serving,
     Pcs, setVars, scanVars, NextIndex
<1>3. WatchedAreOpen'
    BY DEF AcceptWouldBlock, LoopInv, TypeOK, WatchedAreOpen, Serving, Pcs,
     setVars, scanVars, NextIndex
<1>4. MaxIsWatched'
    BY DEF AcceptWouldBlock, LoopInv, TypeOK, MaxIsWatched, WatchedAreOpen,
     Serving, Pcs, setVars, scanVars, NextIndex
<1>5. ReadyStaysOpen'
    BY DEF AcceptWouldBlock, LoopInv, TypeOK, ReadyStaysOpen, WatchedAreOpen,
     Serving, Pcs, setVars, scanVars, NextIndex
<1>6. NothingLeftOpen'
    BY DEF AcceptWouldBlock, LoopInv, TypeOK, NothingLeftOpen, WatchedAreOpen,
     MaxIsWatched, Serving, Pcs, setVars, scanVars, NextIndex
<1> QED
  BY <1>1, <1>2, <1>3, <1>4, <1>5, <1>6 DEF LoopInv

LEMMA AcceptFailsStep ==
  ASSUME LoopInv, AcceptFails
  PROVE  LoopInv'
<1> USE IpcAssumption
<1>1. TypeOK'
  BY DEF AcceptFails, LoopInv, TypeOK, setVars, scanVars, Pcs, NextIndex
<1>2. ServesClient'
    BY DEF AcceptFails, LoopInv, TypeOK, ServesClient, Listening, Serving, Pcs,
     setVars, scanVars, NextIndex
<1>3. WatchedAreOpen'
    BY DEF AcceptFails, LoopInv, TypeOK, WatchedAreOpen, Serving, Pcs, setVars,
     scanVars, NextIndex
<1>4. MaxIsWatched'
    BY DEF AcceptFails, LoopInv, TypeOK, MaxIsWatched, WatchedAreOpen, Serving,
     Pcs, setVars, scanVars, NextIndex
<1>5. ReadyStaysOpen'
    BY DEF AcceptFails, LoopInv, TypeOK, ReadyStaysOpen, WatchedAreOpen,
     Serving, Pcs, setVars, scanVars, NextIndex
<1>6. NothingLeftOpen'
    BY DEF AcceptFails, LoopInv, TypeOK, NothingLeftOpen, WatchedAreOpen,
     MaxIsWatched, Serving, Pcs, setVars, scanVars, NextIndex
<1> QED
  BY <1>1, <1>2, <1>3, <1>4, <1>5, <1>6 DEF LoopInv

LEMMA RecvCommandsStep ==
  ASSUME LoopInv, RecvCommands
  PROVE  LoopInv'
<1> USE IpcAssumption
<1>a. Served \in Clients
  BY DEF RecvCommands, LoopInv, ServesClient, Served
<1>1. TypeOK'
  <2>1. PICK n \in 1 .. unread[Served] : unread' = [unread EXCEPT ![Served] = @ - n]
    BY DEF RecvCommands
  <2>2. unread[Served] \in 0 .. MaxUnread
    BY <1>a DEF LoopInv, TypeOK
  <2>3. unread[Served] - n \in 0 .. MaxUnread
    BY <2>2
  <2>4. unread' \in [Clients -> 0 .. MaxUnread]
    BY <2>1, <2>3 DEF LoopInv, TypeOK
  <2> QED
    BY <2>4 DEF RecvCommands, LoopInv, TypeOK, setVars, scanVars
<1>2. ServesClient'
    BY DEF RecvCommands, LoopInv, TypeOK, ServesClient, Listening, Serving, Pcs,
     setVars, scanVars, Served
<1>3. WatchedAreOpen'
    BY DEF RecvCommands, LoopInv, TypeOK, WatchedAreOpen, Serving, Pcs, setVars,
     scanVars, Served
<1>4. MaxIsWatched'
    BY DEF RecvCommands, LoopInv, TypeOK, MaxIsWatched, WatchedAreOpen, Serving,
     Pcs, setVars, scanVars, Served
<1>5. ReadyStaysOpen'
    BY DEF RecvCommands, LoopInv, TypeOK, ReadyStaysOpen, WatchedAreOpen,
     Serving, Pcs, setVars, scanVars, Served
<1>6. NothingLeftOpen'
    BY DEF RecvCommands, LoopInv, TypeOK, NothingLeftOpen, WatchedAreOpen,
     MaxIsWatched, Serving, Pcs, setVars, scanVars, Served
<1> QED
  BY <1>1, <1>2, <1>3, <1>4, <1>5, <1>6 DEF LoopInv

LEMMA RecvEndsStep ==
  ASSUME LoopInv, RecvEnds
  PROVE  LoopInv'
<1> USE IpcAssumption
<1>1. TypeOK'
  BY DEF RecvEnds, LoopInv, TypeOK, setVars, scanVars, Pcs, Served
<1>2. ServesClient'
    BY DEF RecvEnds, LoopInv, TypeOK, ServesClient, Listening, Serving, Pcs,
     setVars, scanVars, Served
<1>3. WatchedAreOpen'
    BY DEF RecvEnds, LoopInv, TypeOK, WatchedAreOpen, Serving, Pcs, setVars,
     scanVars, Served
<1>4. MaxIsWatched'
    BY DEF RecvEnds, LoopInv, TypeOK, MaxIsWatched, WatchedAreOpen, Serving,
     Pcs, setVars, scanVars, Served
<1>5. ReadyStaysOpen'
    BY DEF RecvEnds, LoopInv, TypeOK, ReadyStaysOpen, WatchedAreOpen, Serving,
     Pcs, setVars, scanVars, Served
<1>6. NothingLeftOpen'
    BY DEF RecvEnds, LoopInv, TypeOK, NothingLeftOpen, WatchedAreOpen,
     MaxIsWatched, Serving, Pcs, setVars, scanVars, Served
<1> QED
  BY <1>1, <1>2, <1>3, <1>4, <1>5, <1>6 DEF LoopInv

(* A set of naturals has a least element.                                    *)
LEMMA LeastOf ==
  ASSUME NEW S \in SUBSET Nat, S # {}
  PROVE  \E p \in S : \A q \in S : p <= q
<1>1. PICK p \in S : \A q \in S : ~ (<<q, p>> \in OpToRel(<, Nat))
  BY NatLessThanWellFounded, WFMin
<1>2. \A q \in S : ~ (q < p)
  BY <1>1 DEF OpToRel
<1> QED
  BY <1>2

(* A bounded set of naturals has a greatest element. bt_daemon.c:663-666     *)
(* finds the highest descriptor of a set.                                    *)
LEMMA GreatestOf ==
  ASSUME NEW S \in SUBSET Nat, S # {},
         NEW bound \in Nat, \A q \in S : q <= bound
  PROVE  \E p \in S : \A q \in S : q <= p
<1> DEFINE Below == {bound - q : q \in S}
<1>1. Below \in SUBSET Nat /\ Below # {}
  <2>1. \A q \in S : bound - q \in Nat
    OBVIOUS
  <2>2. PICK q \in S : TRUE
    OBVIOUS
  <2>3. bound - q \in Below
    OBVIOUS
  <2> QED
    BY <2>1, <2>3
<1>2. PICK d \in Below : \A e \in Below : d <= e
  <2> HIDE DEF Below
  <2> QED
    BY <1>1, LeastOf
<1>3. PICK p \in S : d = bound - p
  OBVIOUS
<1>4. \A q \in S : bound - p <= bound - q
  BY <1>2, <1>3
<1>5. p \in Nat /\ \A q \in S : q \in Nat
  OBVIOUS
<1> QED
  BY <1>4, <1>5

LEMMA CloseClientStep ==
  ASSUME LoopInv, CloseClient
  PROVE  LoopInv'
<1> USE IpcAssumption
<1>a. /\ nFdIndex \in Fds /\ open[nFdIndex] \in Clients
      /\ nMaxSocketFd \in Fds /\ nMaxSocketFd \in tMasterFdSet
      /\ \A f \in tMasterFdSet : f <= nMaxSocketFd
      /\ tMasterFdSet = {f \in Fds : open[f] # NoOne}
      /\ tMasterFdSet' = tMasterFdSet \ {nFdIndex}
  BY DEF CloseClient, LoopInv, TypeOK, ServesClient, MaxIsWatched, WatchedAreOpen,
         Serving, Pcs
<1>b. PICK f \in Fds : open[f] = Listener
  BY DEF CloseClient, LoopInv, ServesClient, Listening, Serving, Pcs
<1>c. f \in tMasterFdSet'
  BY <1>a, <1>b
<1>d. \E m \in tMasterFdSet' : \A g \in tMasterFdSet' : g <= m
  <2>1. /\ tMasterFdSet' \in SUBSET Nat /\ tMasterFdSet' # {}
        /\ nMaxSocketFd \in Nat /\ \A g \in tMasterFdSet' : g <= nMaxSocketFd
    BY <1>a, <1>c
  <2> QED
    BY ONLY <2>1, GreatestOf
<1>e. nMaxSocketFd' \in tMasterFdSet' /\ \A g \in tMasterFdSet' : g <= nMaxSocketFd'
  <2>1. CASE nFdIndex = nMaxSocketFd
    BY <2>1, <1>d DEF CloseClient
  <2>2. CASE nFdIndex # nMaxSocketFd
    BY <2>2, <1>a DEF CloseClient
  <2> QED
    BY <2>1, <2>2
<1>1. TypeOK'
  <2>1. nMaxSocketFd' \in Fds \cup {0} /\ tMasterFdSet' \subseteq Fds
    BY <1>a, <1>e
  <2>2. /\ open' \in [Fds -> Clients \cup {NoOne, Listener}]
        /\ peer' \in [Clients -> {"away", "here", "closed", "reset"}]
        /\ nFdIndex' \in Nat /\ pc' \in Pcs
    BY <1>a DEF CloseClient, LoopInv, TypeOK, Pcs, NextIndex, Forget
  <2>3. unread' \in [Clients -> 0 .. MaxUnread]
    BY DEF CloseClient, LoopInv, TypeOK, Forget
  <2> QED
    BY <2>1, <2>2, <2>3 DEF CloseClient, LoopInv, TypeOK
<1>2. ServesClient'
    BY DEF CloseClient, LoopInv, TypeOK, ServesClient, Listening, Serving, Pcs,
     setVars, scanVars, NextIndex, Forget, Served
<1>3. WatchedAreOpen'
    BY DEF CloseClient, LoopInv, TypeOK, WatchedAreOpen, Serving, Pcs, setVars,
     scanVars, NextIndex, Forget, Served
<1>4. MaxIsWatched'
  BY <1>e DEF MaxIsWatched
<1>5. ReadyStaysOpen'
    BY DEF CloseClient, LoopInv, TypeOK, ReadyStaysOpen, WatchedAreOpen,
     Serving, Pcs, setVars, scanVars, NextIndex, Forget, Served
<1>6. NothingLeftOpen'
    BY DEF CloseClient, LoopInv, TypeOK, NothingLeftOpen, WatchedAreOpen,
     MaxIsWatched, Serving, Pcs, setVars, scanVars, NextIndex, Forget, Served
<1> QED
  BY <1>1, <1>2, <1>3, <1>4, <1>5, <1>6 DEF LoopInv

LEMMA CleanupStep ==
  ASSUME LoopInv, Cleanup
  PROVE  LoopInv'
<1> USE IpcAssumption
<1>1. TypeOK'
  BY DEF Cleanup, LoopInv, TypeOK, setVars, scanVars, Pcs, Forget
<1>2. ServesClient'
    BY DEF Cleanup, LoopInv, TypeOK, ServesClient, Listening, Serving, Pcs,
     setVars, scanVars, Forget
<1>3. WatchedAreOpen'
    BY DEF Cleanup, LoopInv, TypeOK, WatchedAreOpen, Serving, Pcs, setVars,
     scanVars, Forget
<1>4. MaxIsWatched'
    BY DEF Cleanup, LoopInv, TypeOK, MaxIsWatched, WatchedAreOpen, Serving, Pcs,
     setVars, scanVars, Forget
<1>5. ReadyStaysOpen'
    BY DEF Cleanup, LoopInv, TypeOK, ReadyStaysOpen, WatchedAreOpen, Serving,
     Pcs, setVars, scanVars, Forget
<1>6. NothingLeftOpen'
    BY DEF Cleanup, LoopInv, TypeOK, NothingLeftOpen, WatchedAreOpen,
     MaxIsWatched, Serving, Pcs, setVars, scanVars, Forget
<1> QED
  BY <1>1, <1>2, <1>3, <1>4, <1>5, <1>6 DEF LoopInv

LEMMA LoopNext == LoopInv /\ [Next]_vars => LoopInv'
<1> SUFFICES ASSUME LoopInv, [Next]_vars PROVE LoopInv'
  OBVIOUS
<1>1. ASSUME NEW c \in Clients, Connect(c) \/ Send(c) \/ HangUp(c) PROVE LoopInv'
  BY <1>1, ConnectStep, SendStep, HangUpStep
<1>2. CASE updateMidiAttr
  BY <1>2, SetupStep, SelectStep, VisitNextStep, ScanOverStep, AcceptClientStep,
     AcceptWouldBlockStep, AcceptFailsStep, RecvCommandsStep, RecvEndsStep,
     CloseClientStep, CleanupStep DEF updateMidiAttr
<1>3. CASE UNCHANGED vars
  BY <1>3 DEF vars, setVars, scanVars, LoopInv, TypeOK, ServesClient, Listening,
              WatchedAreOpen, MaxIsWatched, ReadyStaysOpen, NothingLeftOpen, Serving
<1> QED
  BY <1>1, <1>2, <1>3, sig_termStep DEF Next

-----------------------------------------------------------------------------
(* Progress, whatever the clients do.                                        *)

(* How many steps the thread has left until it is in select again, or has    *)
(* ended, if it does not receive anything. A visit is of a client, or of the *)
(* listening socket, where every accept that returns one takes a descriptor. *)
FreeFds == {f \in Fds : open[f] = NoOne}
PerVisit == Cardinality(Fds) + 4

RoundStepsLeft ==
  CASE pc = "scan" -> PerVisit * nReadyFd + 2
    [] pc = "accept" -> PerVisit * nReadyFd + 3 + Cardinality(FreeFds)
    [] pc = "recv" -> PerVisit * nReadyFd + 4
    [] pc = "close" -> PerVisit * nReadyFd + 3
    [] pc = "cleanup" -> 1
    [] pc \in {"setup", "select", "done"} -> 0

RoundComesToItsEnd ==
  pc \notin {"setup", "select", "done"} =>
    /\ updateMidiAttr /\ ~ RecvCommands => RoundStepsLeft' < RoundStepsLeft
    /\ RecvCommands => unread'[Served] < unread[Served]
    /\ RoundStepsLeft' <= RoundStepsLeft
    /\ canceled => pc' # "select"

(* What is left, where visits counts what the ready descriptors still take.  *)
RoundStepsAre(left, visits, free) ==
  /\ left \in Nat
  /\ pc = "scan" => left = visits + 2
  /\ pc = "accept" => left = visits + 3 + free
  /\ pc = "recv" => left = visits + 4
  /\ pc = "close" => left = visits + 3
  /\ pc = "cleanup" => left = 1
  /\ pc \in {"setup", "select", "done"} => left = 0

LEMMA FreeFdsAre ==
  ASSUME NEW S \in SUBSET Fds
  PROVE  /\ IsFiniteSet(S) /\ Cardinality(S) \in Nat /\ Cardinality(Fds) \in Nat
         /\ Cardinality(S) <= Cardinality(Fds)
<1>1. IsFiniteSet(Fds)
  BY IpcAssumption
<1> QED
  BY <1>1, FS_Subset, FS_CardinalityType

LEMMA VisitsAre ==
  ASSUME NEW n \in Nat
  PROVE  /\ PerVisit \in Nat /\ PerVisit = Cardinality(Fds) + 4
         /\ PerVisit * n \in Nat
         /\ n > 0 => PerVisit * (n - 1) = PerVisit * n - PerVisit
<1>1. Cardinality(Fds) \in Nat
  BY FreeFdsAre
<1> QED
  BY <1>1 DEF PerVisit

LEMMA RoundStepsNow ==
  ASSUME TypeOK
  PROVE  RoundStepsAre(RoundStepsLeft, PerVisit * nReadyFd, Cardinality(FreeFds))
<1> DEFINE v == PerVisit * nReadyFd
           c == Cardinality(FreeFds)
<1>1. v \in Nat /\ c \in Nat /\ pc \in Pcs
  BY VisitsAre, FreeFdsAre DEF TypeOK, FreeFds
<1>2. RoundStepsLeft = CASE pc = "scan" -> v + 2
                         [] pc = "accept" -> v + 3 + c
                         [] pc = "recv" -> v + 4
                         [] pc = "close" -> v + 3
                         [] pc = "cleanup" -> 1
                         [] pc \in {"setup", "select", "done"} -> 0
  BY DEF RoundStepsLeft
<1> HIDE DEF v, c
<1>3. RoundStepsAre(RoundStepsLeft, v, c)
  BY <1>1, <1>2 DEF RoundStepsAre, Pcs
<1> QED
  BY <1>3 DEF v, c

LEMMA RoundStepsNext ==
  ASSUME TypeOK'
  PROVE  RoundStepsAre(RoundStepsLeft, PerVisit * nReadyFd, Cardinality(FreeFds))'
<1> DEFINE v == PerVisit * nReadyFd'
           c == Cardinality(FreeFds')
<1>1. v \in Nat /\ c \in Nat /\ pc' \in Pcs
  <2>1. nReadyFd' \in Nat /\ FreeFds' \in SUBSET Fds /\ pc' \in Pcs
    BY DEF TypeOK, FreeFds
  <2> QED
    BY <2>1, VisitsAre, FreeFdsAre
<1>2. RoundStepsLeft' = CASE pc' = "scan" -> v + 2
                          [] pc' = "accept" -> v + 3 + c
                          [] pc' = "recv" -> v + 4
                          [] pc' = "close" -> v + 3
                          [] pc' = "cleanup" -> 1
                          [] pc' \in {"setup", "select", "done"} -> 0
  BY DEF RoundStepsLeft, PerVisit
<1>3. RoundStepsAre(RoundStepsLeft, PerVisit * nReadyFd, Cardinality(FreeFds))' =
        ( /\ RoundStepsLeft' \in Nat
          /\ pc' = "scan" => RoundStepsLeft' = v + 2
          /\ pc' = "accept" => RoundStepsLeft' = v + 3 + c
          /\ pc' = "recv" => RoundStepsLeft' = v + 4
          /\ pc' = "close" => RoundStepsLeft' = v + 3
          /\ pc' = "cleanup" => RoundStepsLeft' = 1
          /\ pc' \in {"setup", "select", "done"} => RoundStepsLeft' = 0 )
  BY DEF RoundStepsAre, PerVisit
<1> HIDE DEF v, c
<1>4. /\ RoundStepsLeft' \in Nat
      /\ pc' = "scan" => RoundStepsLeft' = v + 2
      /\ pc' = "accept" => RoundStepsLeft' = v + 3 + c
      /\ pc' = "recv" => RoundStepsLeft' = v + 4
      /\ pc' = "close" => RoundStepsLeft' = v + 3
      /\ pc' = "cleanup" => RoundStepsLeft' = 1
      /\ pc' \in {"setup", "select", "done"} => RoundStepsLeft' = 0
  BY <1>1, <1>2 DEF Pcs
<1> QED
  BY <1>3, <1>4, Zenon

LEMMA AcceptTakesFd ==
  ASSUME TypeOK, AcceptClient
  PROVE  Cardinality(FreeFds') < Cardinality(FreeFds)
<1>1. PICK f \in Fds : open[f] = NoOne /\ open' = [open EXCEPT ![f] = Head(backlog)]
  BY DEF AcceptClient
<1>2. Head(backlog) \in Clients
  BY DEF AcceptClient, TypeOK
<1>3. FreeFds' = FreeFds \ {f} /\ f \in FreeFds
  BY <1>1, <1>2, IpcAssumption DEF FreeFds, TypeOK
<1>4. IsFiniteSet(FreeFds) /\ Cardinality(FreeFds) \in Nat
  BY FreeFdsAre DEF FreeFds
<1> QED
  BY <1>3, <1>4, FS_RemoveElement

LEMMA RoundStepsShrink ==
  ASSUME LoopInv, LoopInv', [Next]_vars
  PROVE  RoundComesToItsEnd
<1> SUFFICES ASSUME pc \notin {"setup", "select", "done"}
             PROVE  /\ updateMidiAttr /\ ~ RecvCommands => RoundStepsLeft' < RoundStepsLeft
                    /\ RecvCommands => unread'[Served] < unread[Served]
                    /\ RoundStepsLeft' <= RoundStepsLeft
                    /\ canceled => pc' # "select"
  BY DEF RoundComesToItsEnd
<1> DEFINE left == RoundStepsLeft
           next == RoundStepsLeft'
           v == PerVisit * nReadyFd
           w == PerVisit * nReadyFd'
           c == Cardinality(FreeFds)
           d == Cardinality(FreeFds')
<1>0. TypeOK /\ TypeOK'
  BY DEF LoopInv
<1>1. /\ pc = "scan" => left = v + 2
      /\ pc = "accept" => left = v + 3 + c
      /\ pc = "recv" => left = v + 4
      /\ pc = "close" => left = v + 3
      /\ pc = "cleanup" => left = 1
      /\ left \in Nat
  BY <1>0, RoundStepsNow DEF RoundStepsAre
<1>2. /\ pc' = "scan" => next = w + 2
      /\ pc' = "accept" => next = w + 3 + d
      /\ pc' = "recv" => next = w + 4
      /\ pc' = "close" => next = w + 3
      /\ pc' = "cleanup" => next = 1
      /\ pc' \in {"setup", "select", "done"} => next = 0
      /\ next \in Nat
  BY <1>0, RoundStepsNext DEF RoundStepsAre, PerVisit
<1>3. /\ nReadyFd \in Nat /\ nReadyFd' \in Nat /\ pc \in Pcs
      /\ v \in Nat /\ w \in Nat /\ c \in Nat /\ d \in Nat
      /\ PerVisit \in Nat /\ d + 4 <= PerVisit
  <2>1. nReadyFd \in Nat /\ nReadyFd' \in Nat /\ pc \in Pcs
    BY <1>0 DEF TypeOK
  <2>2. FreeFds \in SUBSET Fds /\ FreeFds' \in SUBSET Fds
    BY DEF FreeFds
  <2>3. v \in Nat /\ w \in Nat /\ PerVisit \in Nat /\ PerVisit = Cardinality(Fds) + 4
    BY <2>1, VisitsAre
  <2>4. c \in Nat /\ d \in Nat /\ Cardinality(Fds) \in Nat /\ d <= Cardinality(Fds)
    BY <2>2, FreeFdsAre
  <2> QED
    BY <2>1, <2>3, <2>4
<1>4. /\ nReadyFd' = nReadyFd => w = v
      /\ nReadyFd > 0 /\ nReadyFd' = nReadyFd - 1 => w = v - PerVisit
  BY <1>3, VisitsAre
<1>5. AcceptClient => d < c
  BY <1>0, AcceptTakesFd
<1>6. open' = open => d = c
  BY DEF FreeFds
<1> HIDE DEF left, next, v, w, c, d
<1>7. ASSUME updateMidiAttr, ~ RecvCommands
      PROVE  next < left /\ (canceled => pc' # "select")
  <2>1. CASE Setup \/ Select
    BY <2>1 DEF Setup, Select
  <2>2. CASE VisitNext
    <3>1. /\ pc = "scan" /\ pc' \in {"accept", "recv"}
          /\ nReadyFd > 0 /\ nReadyFd' = nReadyFd - 1
      BY <2>2 DEF VisitNext
    <3> QED
      BY <1>1, <1>2, <1>3, <1>4, <3>1
  <2>3. CASE ScanOver
    BY <1>1, <1>2, <1>3, <2>3 DEF ScanOver
  <2>4. CASE AcceptClient
    <3>1. pc = "accept" /\ pc' = "accept" /\ nReadyFd' = nReadyFd
      BY <2>4 DEF AcceptClient, scanVars
    <3> QED
      BY <1>1, <1>2, <1>3, <1>4, <1>5, <2>4, <3>1
  <2>5. CASE AcceptWouldBlock \/ AcceptFails
    <3>1. pc = "accept" /\ pc' = "scan" /\ nReadyFd' = nReadyFd
      BY <2>5 DEF AcceptWouldBlock, AcceptFails, NextIndex
    <3> QED
      BY <1>1, <1>2, <1>3, <1>4, <3>1
  <2>6. CASE RecvEnds
    <3>1. pc = "recv" /\ pc' = "close" /\ nReadyFd' = nReadyFd
      BY <2>6 DEF RecvEnds, scanVars
    <3> QED
      BY <1>1, <1>2, <1>3, <1>4, <3>1
  <2>7. CASE CloseClient
    <3>1. pc = "close" /\ pc' = "scan" /\ nReadyFd' = nReadyFd
      BY <2>7 DEF CloseClient, NextIndex
    <3> QED
      BY <1>1, <1>2, <1>3, <1>4, <3>1
  <2>8. CASE Cleanup
    <3>1. pc = "cleanup" /\ pc' = "done"
      BY <2>8 DEF Cleanup
    <3> QED
      BY <1>1, <1>2, <3>1
  <2> QED
    BY <1>7, <2>1, <2>2, <2>3, <2>4, <2>5, <2>6, <2>7, <2>8 DEF updateMidiAttr
<1>8. ASSUME UNCHANGED <<pc, nReadyFd, open>>
      PROVE  next = left /\ pc' # "select"
  BY <1>1, <1>2, <1>3, <1>4, <1>6, <1>8 DEF Pcs
<1>9. ASSUME RecvCommands
      PROVE  /\ unread'[Served] < unread[Served]
             /\ UNCHANGED <<pc, nReadyFd, open>>
  <2>1. Served \in Clients
    BY <1>9 DEF RecvCommands, Served, LoopInv, ServesClient
  <2>2. unread[Served] \in Nat /\ unread \in [Clients -> 0 .. MaxUnread]
    BY <1>0, <2>1, IpcAssumption DEF TypeOK
  <2>3. PICK n \in 1 .. unread[Served] : unread' = [unread EXCEPT ![Served] = @ - n]
    BY <1>9 DEF RecvCommands
  <2>4. unread'[Served] = unread[Served] - n
    BY <2>1, <2>2, <2>3
  <2> QED
    BY <1>9, <2>2, <2>3, <2>4 DEF RecvCommands, scanVars
<1>10. ASSUME sig_term
       PROVE  next <= left /\ ~ canceled
  <2>1. \/ pc = "recv" /\ pc' = "close" /\ nReadyFd' = nReadyFd
        \/ UNCHANGED <<pc, nReadyFd, open>>
    BY <1>10 DEF sig_term, scanVars
  <2>2. CASE pc = "recv" /\ pc' = "close" /\ nReadyFd' = nReadyFd
    BY <1>1, <1>2, <1>3, <1>4, <1>10, <2>2 DEF sig_term
  <2> QED
    BY <1>1, <1>8, <1>10, <2>1, <2>2 DEF sig_term
<1>11. updateMidiAttr \/ sig_term \/ UNCHANGED <<pc, nReadyFd, open>>
  BY DEF Next, Connect, Send, HangUp, vars, scanVars
<1>12. next <= left /\ (canceled => pc' # "select")
  BY <1>1, <1>2, <1>7, <1>8, <1>9, <1>10, <1>11
<1> QED
  BY <1>7, <1>9, <1>12 DEF left, next

-----------------------------------------------------------------------------
(* The results.                                                              *)

LEMMA LoopCorrect == Spec => []LoopInv
  BY LoopInit, LoopNext, PTL DEF Spec

(* The select loop keeps its types (bt_daemon.c:443-458).                    *)
THEOREM IpcTypeCorrect == Spec => []TypeOK
<1>1. LoopInv => TypeOK
  BY DEF LoopInv
<1> QED
  BY <1>1, LoopCorrect, PTL

(* The master set is exactly the server's open descriptors, for any number   *)
(* of clients and any choice of descriptors (bt_daemon.c:539-541, 598, 661-662). *)
THEOREM MasterSetIsExact == Spec => []WatchedAreOpen
<1>1. LoopInv => WatchedAreOpen
  BY DEF LoopInv
<1> QED
  BY <1>1, LoopCorrect, PTL

(* nMaxSocketFd is the highest watched descriptor (bt_daemon.c:599, 663-666).*)
THEOREM MaxSocketFdIsHighest == Spec => []MaxIsWatched
<1>1. LoopInv => MaxIsWatched
  BY DEF LoopInv
<1> QED
  BY <1>1, LoopCorrect, PTL

(* A ready descriptor is still open when the scan comes to it                *)
(* (bt_daemon.c:563-565).                                                    *)
THEOREM NoStaleDescriptorRead == Spec => []ReadyStaysOpen
<1>1. LoopInv => ReadyStaysOpen
  BY DEF LoopInv
<1> QED
  BY <1>1, LoopCorrect, PTL

(* The thread ends with every socket of its closed (bt_daemon.c:677-680).    *)
THEOREM EndsWithNothingOpen == Spec => []NothingLeftOpen
<1>1. LoopInv => NothingLeftOpen
  BY DEF LoopInv
<1> QED
  BY <1>1, LoopCorrect, PTL

(* Having served what select found ready, the thread is in select again, or  *)
(* ends if it is canceled: every step but a recv that returns data brings it *)
(* nearer to that, and such a recv leaves its client less unread. Clients    *)
(* can hold it up by sending on or by not hanging up, and in no other way.   *)
(* What EndsUnlessClientStays claims is left to the thread going on and to   *)
(* clients that hang up (bt_daemon.c:552-672).                               *)
THEOREM RoundsComeToAnEnd ==
  Spec => [](RoundStepsLeft \in Nat) /\ [][RoundComesToItsEnd]_vars
<1>1. LoopInv => RoundStepsLeft \in Nat
  BY RoundStepsNow DEF LoopInv, RoundStepsAre
<1>2. LoopInv /\ LoopInv' /\ [Next]_vars => [RoundComesToItsEnd]_vars
  BY RoundStepsShrink
<1> QED
  BY <1>1, <1>2, LoopInit, LoopNext, PTL DEF Spec
=============================================================================
