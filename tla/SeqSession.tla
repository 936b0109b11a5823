----------------------------- MODULE SeqSession -----------------------------
(***************************************************************************)
(* Start-up of the daemon, and the sequencer session of each of its        *)
(* threads: main, the IPC thread (updateMidiAttr), the serial thread       *)
(* (UART_clientService) and the Bluetooth threads (BT_clientService).      *)
(*                                                                         *)
(* A session is a sequencer (pSeq), a list of target ports (pPorts) and a  *)
(* source port (nMyPortID). Each is taken by a call that may fail, and     *)
(* every exit gives back what its variables say is held. The IPC thread    *)
(* is created before main reads the options: both use cSndPort.            *)
(***************************************************************************)
EXTENDS Integers, Sequences

CONSTANTS
  Main, Ipc, Uart,   \* the threads there is one of
  BtThreads,         \* the Bluetooth threads
  ValidLists,        \* arguments of -p that name existing ports
  InvalidLists,      \* arguments of -p that do not
  Empty,             \* cSndPort before any -p
  Torn,              \* cSndPort while strcpy writes it
  CommandLines       \* the option lists to start the daemon with

Threads == {Main, Ipc, Uart} \cup BtThreads
PortLists == ValidLists \cup InvalidLists
Options == {[opt |-> "p", arg |-> a] : a \in PortLists}
             \cup {[opt |-> o, arg |-> Empty] : o \in {"h", "V", "l", "?"}}

ASSUME SessionAssumption ==
  /\ Main # Ipc /\ Main # Uart /\ Ipc # Uart
  /\ {Main, Ipc, Uart} \cap BtThreads = {}
  /\ CommandLines \subseteq Seq(Options)
  /\ {Empty, Torn} \cap PortLists = {}
  /\ ValidLists \cap InvalidLists = {}

VARIABLES
  pc,          \* where each thread is
  argv,        \* the options getopt_long has yet to return
  cSndPort,
  nPortCount,  \* main's: "unset", "none" (below one) or "some"
  nDoList,
  pSeq,        \* each thread's sequencer: "null", "open", "closed"
  pPorts,      \* each thread's port list: "null", "held", "freed"
  blocks,      \* the port lists each thread has allocated and not freed
  nMyPortID,   \* each thread's source port: "zero", "made", "bad"
  parsed,      \* the text each thread's ports were parsed from
  fresh,       \* whether a thread's stack had never been used before
  failed,      \* the steps of each thread's preparation that failed
  misused,     \* calls each thread made with something already given back
  sounding     \* whether the note of a thread's melody is on

resources == <<pSeq, pPorts, blocks, nMyPortID, misused>>
mainVars == <<argv, cSndPort, nPortCount, nDoList>>
vars == <<pc, mainVars, resources, parsed, fresh, failed, sounding>>

Pcs == {"none", "init", "parse", "grow", "address", "port", "connect",
        "melody", "ready", "exit", "gone", "options", "copy", "uart", "socket"}
Steps == {"init", "parse", "grow", "address", "port", "connect"}
Calls == {"realloc", "free", "delete", "close"}

(* nMyPortID and the pointers of a Bluetooth thread are never initialised:   *)
(* on a used stack they are what an earlier thread left there.               *)
TypeOK ==
  /\ pc \in [Threads -> Pcs]
  /\ argv \in Seq(Options)
  /\ cSndPort \in PortLists \cup {Empty, Torn}
  /\ nPortCount \in {"unset", "none", "some"}
  /\ nDoList \in BOOLEAN
  /\ pSeq \in [Threads -> {"null", "open", "closed"}]
  /\ pPorts \in [Threads -> {"null", "held", "freed"}]
  /\ blocks \in [Threads -> Nat]
  /\ nMyPortID \in [Threads -> {"zero", "made", "bad"}]
  /\ parsed \in [Threads -> PortLists \cup {Empty, Torn}]
  /\ fresh \in [Threads -> BOOLEAN]
  /\ failed \in [Threads -> SUBSET Steps]
  /\ misused \in [Threads -> SUBSET Calls]
  /\ sounding \in [Threads -> BOOLEAN]

(* Mutant: the serial thread is created with the IPC thread, before the      *)
(* options.                                                                  *)
Init_UartFirst ==
  /\ pc = [t \in Threads |-> IF t \in BtThreads THEN "none" ELSE "init"]
  /\ argv \in CommandLines
  /\ cSndPort = Empty
  /\ nPortCount = "unset"
  /\ nDoList = FALSE
  /\ pSeq = [t \in Threads |-> "null"]
  /\ pPorts = [t \in Threads |-> "null"]
  /\ blocks = [t \in Threads |-> 0]
  /\ nMyPortID = [t \in Threads |-> "zero"]
  /\ parsed = [t \in Threads |-> Empty]
  /\ fresh = [t \in Threads |-> TRUE]
  /\ failed = [t \in Threads |-> {}]
  /\ misused = [t \in Threads |-> {}]
  /\ sounding = [t \in Threads |-> FALSE]

(* main has just created the IPC thread.                                     *)
Init ==
  /\ pc = [t \in Threads |-> IF t \in {Main, Ipc} THEN "init" ELSE "none"]
  /\ argv \in CommandLines
  /\ cSndPort = Empty
  /\ nPortCount = "unset"
  /\ nDoList = FALSE
  /\ pSeq = [t \in Threads |-> "null"]
  /\ pPorts = [t \in Threads |-> "null"]
  /\ blocks = [t \in Threads |-> 0]
  /\ nMyPortID = [t \in Threads |-> "zero"]
  /\ parsed = [t \in Threads |-> Empty]
  /\ fresh = [t \in Threads |-> TRUE]
  /\ failed = [t \in Threads |-> {}]
  /\ misused = [t \in Threads |-> {}]
  /\ sounding = [t \in Threads |-> FALSE]

Running == pc[Main] # "gone"

Goto(t, there) == pc' = [pc EXCEPT ![t] = there]

Misuse(t, calls) == misused' = [misused EXCEPT ![t] = @ \cup calls]

(* Mutant: a failed nConnectPorts returns without the exit label.            *)
AfterFailure_Return(t, step) ==
  IF step \in {"init", "connect"} THEN "gone" ELSE "exit"

(* Where a thread goes when a step of its preparation fails.                 *)
AfterFailure(t, step) == IF t = Ipc /\ step = "init" THEN "gone" ELSE "exit"

Fails(t, step) ==
  /\ failed' = [failed EXCEPT ![t] = @ \cup {step}]
  /\ IF t = Main /\ step = "init"
       THEN Goto(t, "gone")
       ELSE Goto(t, AfterFailure(t, step))

-----------------------------------------------------------------------------
(* The steps of a session.                                                   *)

(* nInitSeq opens the sequencer and names the client. When it fails the      *)
(* caller closes the sequencer if its pointer is not null; what the pointer  *)
(* held stays there when the sequencer could not be opened.                  *)
nInitSeq(t) ==
  /\ Running
  /\ pc[t] = "init"
  /\ \/ /\ pSeq' = [pSeq EXCEPT ![t] = "open"]
        /\ Goto(t, IF t = Main THEN "options" ELSE "parse")
        /\ UNCHANGED <<failed, misused>>
     \/ /\ pSeq' = [pSeq EXCEPT ![t] = "closed"]
        /\ Fails(t, "init")
        /\ UNCHANGED misused
     \/ /\ Misuse(t, IF pSeq[t] = "closed" THEN {"close"} ELSE {})
        /\ Fails(t, "init")
        /\ UNCHANGED pSeq
  /\ UNCHANGED <<mainVars, pPorts, blocks, nMyPortID, parsed, fresh, sounding>>

(* nParsePorts goes through the ports of its text: it makes the list grow    *)
(* for each and parses its address. A step that fails ends it; main goes on  *)
(* with its options, and looks at the count when there are no more.          *)
ParseFails(t, step) ==
  IF t = Main
    THEN /\ failed' = [failed EXCEPT ![Main] = @ \cup {step}]
         /\ nPortCount' = "none"
         /\ Goto(Main, "options")
    ELSE Fails(t, step) /\ UNCHANGED nPortCount

(* strdup of cSndPort.                                                       *)
CopyText(t) ==
  /\ Running
  /\ pc[t] = "parse"
  /\ parsed' = [parsed EXCEPT ![t] = cSndPort]
  /\ \/ Goto(t, "grow") /\ UNCHANGED <<nPortCount, failed>>
     \/ ParseFails(t, "parse")
  /\ UNCHANGED <<argv, cSndPort, nDoList, resources, fresh, sounding>>

(* realloc of *pPorts, whose result takes its place: when there is none, the *)
(* list that could not grow is still allocated, and nothing points to it.    *)
GrowList(t) ==
  /\ Running
  /\ pc[t] = "grow"
  /\ Misuse(t, IF pPorts[t] = "freed" THEN {"realloc"} ELSE {})
  /\ \/ /\ pPorts' = [pPorts EXCEPT ![t] = "held"]
        /\ blocks' = [blocks EXCEPT ![t] = IF pPorts[t] = "held" THEN @ ELSE @ + 1]
        /\ Goto(t, "address")
        /\ UNCHANGED <<nPortCount, failed>>
     \/ /\ pPorts' = [pPorts EXCEPT ![t] = "null"]
        /\ ParseFails(t, IF pPorts[t] = "held" THEN "grow" ELSE "parse")
        /\ UNCHANGED blocks
  /\ UNCHANGED <<argv, cSndPort, nDoList, pSeq, nMyPortID, parsed, fresh,
                 sounding>>

(* One port is parsed, and there are more; it is the last; or it names no    *)
(* port, and the list is freed and left in *pPorts.                          *)
ParseAddress(t) ==
  /\ Running
  /\ pc[t] = "address"
  /\ \/ /\ parsed[t] # Empty
        /\ Goto(t, "grow")
        /\ UNCHANGED <<nPortCount, pPorts, blocks, failed>>
     \/ /\ parsed[t] \in ValidLists \cup {Torn}
        /\ IF t = Main THEN nPortCount' = "some" ELSE UNCHANGED nPortCount
        /\ Goto(t, IF t = Main THEN "options" ELSE "port")
        /\ UNCHANGED <<pPorts, blocks, failed>>
     \/ /\ parsed[t] \notin ValidLists
        /\ pPorts' = [pPorts EXCEPT ![t] = "freed"]
        /\ blocks' = [blocks EXCEPT ![t] = @ - 1]
        /\ ParseFails(t, "address")
  /\ UNCHANGED <<argv, cSndPort, nDoList, pSeq, nMyPortID, misused, parsed,
                 fresh, sounding>>

nParsePorts(t) == CopyText(t) \/ GrowList(t) \/ ParseAddress(t)

(* Mutant: prepareSeqInforForThread also closes when the source port cannot  *)
(* be made.                                                                  *)
pCreateSourcePort_Closes(t) ==
  /\ Running
  /\ pc[t] = "port"
  /\ nMyPortID' = [nMyPortID EXCEPT ![t] = "bad"]
  /\ pSeq' = [pSeq EXCEPT ![t] = "closed"]
  /\ Fails(t, "port")
  /\ UNCHANGED <<mainVars, pPorts, blocks, misused, parsed, fresh, sounding>>

pCreateSourcePort(t) ==
  /\ Running
  /\ pc[t] = "port"
  /\ \/ /\ nMyPortID' = [nMyPortID EXCEPT ![t] = "made"]
        /\ Goto(t, "connect")
        /\ UNCHANGED failed
     \/ /\ nMyPortID' = [nMyPortID EXCEPT ![t] = "bad"]
        /\ Fails(t, "port")
  /\ UNCHANGED <<mainVars, pSeq, pPorts, blocks, misused, parsed, fresh,
                 sounding>>

(* nConnectPorts reads as many ports as the count says. main's count is      *)
(* whatever was on its stack when there is no -p: with no list to read the   *)
(* process ends.                                                             *)
nConnectPorts(t) ==
  /\ Running
  /\ pc[t] = "connect"
  /\ \/ /\ pPorts[t] # "null"
        /\ Goto(t, IF t \in {Ipc, Uart} THEN "ready" ELSE "melody")
        /\ UNCHANGED failed
     \/ /\ pPorts[t] # "null"
        /\ Fails(t, "connect")
     \/ /\ pPorts[t] = "null"
        /\ Goto(Main, "gone")
        /\ UNCHANGED failed
  /\ UNCHANGED <<mainVars, resources, parsed, fresh, sounding>>

(* nPlayReadyMidi and nPlayConnectedMidi: two notes, each switched on and,   *)
(* 0.3 seconds later, off.                                                   *)
PlayMelody(t) ==
  /\ Running
  /\ pc[t] = "melody"
  /\ sounding' = [sounding EXCEPT ![t] = ~ @]
  /\ \/ UNCHANGED pc
     \/ sounding[t] /\ Goto(t, IF t = Main THEN "uart" ELSE "ready")
  /\ UNCHANGED <<mainVars, resources, parsed, fresh, failed>>

(* The thread's loop ends: the signal, or its reads fail. (The IPC thread    *)
(* may also fail to make its socket.)                                        *)
Leave(t) ==
  /\ Running
  /\ pc[t] = "ready"
  /\ Goto(t, "exit")
  /\ UNCHANGED <<mainVars, resources, parsed, fresh, failed, sounding>>

(* UART_HANDLER_EXIT, BT_HANDLER_EXIT, RELEASE_IPC_SEQ, erroExitHandler and  *)
(* the end of main: free, delete the source port, close, each only if its    *)
(* own variable says so.                                                     *)
Release(t) ==
  /\ Running
  /\ pc[t] = "exit"
  /\ Misuse(t, {c \in {"free"} : pPorts[t] = "freed"}
                 \cup {c \in {"delete"} : /\ nMyPortID[t] # "bad"
                                          /\ pSeq[t] # "open"}
                 \cup {c \in {"close"} : pSeq[t] = "closed"})
  /\ pPorts' = [pPorts EXCEPT ![t] = IF @ = "null" THEN @ ELSE "freed"]
  /\ blocks' = [blocks EXCEPT ![t] = IF pPorts[t] = "held" THEN @ - 1 ELSE @]
  /\ pSeq' = [pSeq EXCEPT ![t] = IF @ = "null" THEN @ ELSE "closed"]
  /\ Goto(t, "gone")
  /\ UNCHANGED <<mainVars, nMyPortID, parsed, fresh, failed, sounding>>

-----------------------------------------------------------------------------
(* main.                                                                     *)

(* The options that do not stop the daemon: -l, and -p with its copy into    *)
(* cSndPort, which the other threads may read before it is complete.         *)
TakeOption ==
  /\ pc[Main] = "options" /\ argv # <<>>
  /\ CASE Head(argv).opt = "p" ->
            /\ cSndPort' = Torn
            /\ Goto(Main, "copy")
            /\ UNCHANGED <<argv, nDoList>>
       [] Head(argv).opt = "l" ->
            /\ nDoList' = TRUE
            /\ argv' = Tail(argv)
            /\ UNCHANGED <<pc, cSndPort>>
       [] OTHER ->       \* help, version or usage, then exit(0)
            /\ Goto(Main, "gone")
            /\ argv' = Tail(argv)
            /\ UNCHANGED <<cSndPort, nDoList>>
  /\ UNCHANGED <<nPortCount, resources, parsed, fresh, failed, sounding>>

(* The copy is complete, and nParsePorts is called with it.                  *)
ParseOption ==
  /\ pc[Main] = "copy"
  /\ cSndPort' = Head(argv).arg
  /\ argv' = Tail(argv)
  /\ Goto(Main, "parse")
  /\ UNCHANGED <<nPortCount, nDoList, resources, parsed, fresh, failed, sounding>>

(* Mutant: main does not look at what nParsePorts returned.                  *)
OptionsDone_Unchecked ==
  /\ pc[Main] = "options" /\ argv = <<>>
  /\ Goto(Main, IF nDoList THEN "gone" ELSE "port")
  /\ UNCHANGED <<mainVars, resources, parsed, fresh, failed, sounding>>

(* The options are read: list the ports and exit, or test the count, which   *)
(* nothing has set when there was no -p.                                     *)
OptionsDone ==
  /\ pc[Main] = "options" /\ argv = <<>>
  /\ \/ nDoList /\ Goto(Main, "gone")
     \/ ~ nDoList /\ nPortCount # "some" /\ Goto(Main, "exit")
     \/ ~ nDoList /\ nPortCount # "none" /\ Goto(Main, "port")
  /\ UNCHANGED <<mainVars, resources, parsed, fresh, failed, sounding>>

(* A thread that has ended leaves its stack to the next one.                 *)
StackFor(t) ==
  \/ fresh' = fresh /\ UNCHANGED resources
  \/ /\ \E u \in Threads \ {Main} : pc[u] = "gone"
     /\ fresh' = [fresh EXCEPT ![t] = FALSE]
     /\ IF t = Uart     \* memset(&tSeqInfo, 0, ...)
          THEN UNCHANGED resources
          ELSE /\ pSeq' = [pSeq EXCEPT ![t] = "closed"]
               /\ pPorts' = [pPorts EXCEPT ![t] = "freed"]
               /\ UNCHANGED <<blocks, nMyPortID, misused>>

CreateUartThread ==
  /\ pc[Main] = "uart"
  /\ \/ /\ pc' = [pc EXCEPT ![Main] = "socket", ![Uart] = "init"]
        /\ StackFor(Uart)
     \/ /\ pc' = [pc EXCEPT ![Main] = "socket", ![Uart] = "gone"]
        /\ UNCHANGED <<resources, fresh>>     \* it cannot open the port
     \/ Goto(Main, "gone") /\ UNCHANGED <<resources, fresh>>
  /\ UNCHANGED <<mainVars, parsed, failed, sounding>>

(* The Bluetooth socket is made, bound and listened on, or the daemon exits. *)
OpenServerSocket ==
  /\ pc[Main] = "socket"
  /\ Goto(Main, "ready") \/ Goto(Main, "exit")
  /\ UNCHANGED <<mainVars, resources, parsed, fresh, failed, sounding>>

CreateBtThread(t) ==
  /\ pc[Main] = "ready"
  /\ pc[t] = "none"
  /\ Goto(t, "init")
  /\ StackFor(t)
  /\ UNCHANGED <<mainVars, parsed, failed, sounding>>

Next ==
  \/ \E t \in Threads :
       \/ nInitSeq(t) \/ nParsePorts(t) \/ pCreateSourcePort(t)
       \/ nConnectPorts(t) \/ PlayMelody(t) \/ Leave(t) \/ Release(t)
  \/ TakeOption \/ ParseOption \/ OptionsDone
  \/ CreateUartThread \/ OpenServerSocket
  \/ \E t \in BtThreads : CreateBtThread(t)

Spec == Init /\ [][Next]_vars

-----------------------------------------------------------------------------
(* Properties.                                                               *)

(* A thread gives everything back exactly once, whatever call of its         *)
(* preparation fails, except where the code is known to repeat itself: a     *)
(* serial or Bluetooth thread whose nInitSeq failed (prepareSeqInforForThread*)
(* has closed the sequencer already), any thread that nParsePorts found an   *)
(* invalid port for (it has freed the list), and a Bluetooth thread that     *)
(* found an earlier thread's leftovers in its uninitialised tSeqInfo.        *)
CleanRelease ==
  \A t \in Threads :
    misused[t] # {} =>
      \/ "address" \in failed[t]
      \/ "init" \in failed[t] /\ t \in {Uart} \cup BtThreads
      \/ ~ fresh[t] /\ t \in BtThreads

(* No exit path of a thread, early or late, forgets a sequencer or a list:   *)
(* what it opened is closed and what it allocated is freed when it is gone.  *)
(* One path forgets a list, and no more than one: when realloc fails for the *)
(* second or a later port, *pPorts loses the list of the ports before.       *)
NothingLeaks ==
  \A t \in Threads \ {Main} :
    pc[t] = "gone" =>
      /\ pSeq[t] # "open"
      /\ blocks[t] = IF "grow" \in failed[t] THEN 1 ELSE 0

(* A thread that plays, and main from the serial thread's creation on, has   *)
(* its sequencer open, its ports parsed and not freed, its source port made, *)
(* and has switched off the notes of its melody. For main this also says     *)
(* that a count nothing has set never takes it past nConnectPorts.           *)
ReadyIsComplete ==
  \A t \in Threads :
    pc[t] \in {"uart", "socket", "ready"} =>
      /\ pSeq[t] = "open"
      /\ pPorts[t] = "held"
      /\ nMyPortID[t] = "made"
      /\ ~ sounding[t]

(* The threads created after the options are read connect to the ports of    *)
(* the last -p, the ones main is connected to; only the IPC thread, created  *)
(* before, may see cSndPort empty, half written or replaced.                 *)
LateThreadsHaveOption ==
  \A t \in {Uart} \cup BtThreads :
    pc[t] \in {"port", "connect", "melody", "ready"} =>
      parsed[t] \in ValidLists /\ parsed[t] = parsed[Main]

=============================================================================
