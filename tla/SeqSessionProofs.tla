-------------------------- MODULE SeqSessionProofs ---------------------------
(***************************************************************************)
(* What a thread of the daemon takes it gives back, and who plays has a    *)
(* whole session on the right ports, for any number of Bluetooth threads   *)
(* and any command line.                                                   *)
(***************************************************************************)
EXTENDS SeqSession, TLAPS

Late == {Uart} \cup BtThreads

-----------------------------------------------------------------------------
(* Types.                                                                    *)

LEMMA TypeInit == Init => TypeOK
<1> SUFFICES ASSUME Init PROVE TypeOK
  OBVIOUS
<1> USE SessionAssumption DEF Init
<1>1. pc \in [Threads -> Pcs] /\ argv \in Seq(Options)
  BY DEF Pcs
<1>2. /\ cSndPort \in PortLists \cup {Empty, Torn}
      /\ nPortCount \in {"unset", "none", "some"}
      /\ nDoList \in BOOLEAN
  OBVIOUS
<1>3. /\ pSeq \in [Threads -> {"null", "open", "closed"}]
      /\ pPorts \in [Threads -> {"null", "held", "freed"}]
      /\ nMyPortID \in [Threads -> {"zero", "made", "bad"}]
      /\ parsed \in [Threads -> PortLists \cup {Empty, Torn}]
      /\ blocks \in [Threads -> Nat]
  OBVIOUS
<1>4. /\ fresh \in [Threads -> BOOLEAN]
      /\ failed \in [Threads -> SUBSET Steps]
      /\ misused \in [Threads -> SUBSET Calls]
      /\ sounding \in [Threads -> BOOLEAN]
  OBVIOUS
<1> QED
  BY <1>1, <1>2, <1>3, <1>4 DEF TypeOK

-----------------------------------------------------------------------------
(* The invariant.                                                            *)

(* The repeated releases the code is known for.                              *)
Excused(t) ==
  \/ "address" \in failed[t]
  \/ "init" \in failed[t] /\ t \in Late
  \/ ~ fresh[t] /\ t \in BtThreads

(* What a thread holds, by the place it is at.                               *)
Holds(t) ==
  /\ pc[t] = "none" => pSeq[t] = "null" /\ pPorts[t] = "null"
  /\ pc[t] = "init" => /\ pSeq[t] # "open" /\ pPorts[t] # "held"
                       /\ pSeq[t] = "closed" => Excused(t)
  /\ pc[t] \notin {"none", "init", "exit", "gone"} => pSeq[t] = "open"
  /\ pc[t] \in {"connect", "melody", "ready", "uart", "socket"} =>
       nMyPortID[t] = "made"
  /\ pc[t] \in {"port", "connect", "melody", "ready"} /\ t # Main =>
       pPorts[t] = "held"
  /\ pc[t] = "address" => pPorts[t] = "held"
  /\ sounding[t] => pc[t] \in {"melody", "gone"}
  /\ pc[t] = "gone" /\ t # Main => pSeq[t] # "open" /\ pPorts[t] # "held"
  /\ pc[t] = "exit" => pSeq[t] = "open" \/ Excused(t)
  /\ pPorts[t] = "freed" /\ pc[t] # "gone" => Excused(t)
  /\ misused[t] # {} => Excused(t)

(* The lists a thread has not freed are the one it points to and the one it  *)
(* lost; main, which may parse again, may have lost several.                 *)
Accounts(t) ==
  /\ pPorts[t] = "held" => blocks[t] >= 1
  /\ t # Main =>
       /\ pPorts[t] = "held" => blocks[t] = 1 /\ "grow" \notin failed[t]
       /\ pPorts[t] # "held" => blocks[t] = IF "grow" \in failed[t] THEN 1 ELSE 0
       /\ "grow" \in failed[t] => pc[t] \in {"exit", "gone"}

(* How far main is, what it has of the options, and who may exist by then.   *)
MainInv ==
  /\ pc[Main] # "none"
  /\ \A t \in Threads \ {Main} :
       pc[t] \notin {"options", "copy", "uart", "socket"}
  /\ pc[Main] \in {"init", "options", "copy", "parse", "grow", "address",
                    "port", "connect", "melody", "uart"} =>
       \A t \in Late : pc[t] = "none"
  /\ \A t \in Late : pc[t] # "none" => nPortCount = "some"
  /\ nPortCount = "unset" /\ pc[Main] \notin {"grow", "address"} =>
       pPorts[Main] = "null"
  /\ nPortCount = "some" /\ pc[Main] \notin {"exit", "gone"} => pPorts[Main] = "held"
  /\ pc[Main] \in {"port", "connect"} => nPortCount # "none"
  /\ pc[Main] \in {"melody", "uart", "socket", "ready"} => nPortCount = "some"
  /\ pc[Main] = "init" => nPortCount = "unset"
  /\ nPortCount = "some" /\ pc[Main] \notin {"copy", "parse", "grow", "address"} =>
       cSndPort \in ValidLists /\ parsed[Main] = cSndPort
  /\ pc[Main] = "copy" => argv # <<>> /\ Head(argv).arg \in PortLists
  /\ pc[Main] \in {"parse", "grow", "address"} => cSndPort \in PortLists
  /\ pc[Main] \in {"grow", "address"} => parsed[Main] = cSndPort
  /\ \A t \in Late : pc[t] \in {"grow", "address"} => parsed[t] = cSndPort

SessInv ==
  /\ TypeOK
  /\ \A t \in Threads : Holds(t)
  /\ \A t \in Threads : Accounts(t)
  /\ MainInv
  /\ LateThreadsHaveOption

LEMMA SessInit == Init => SessInv
<1> SUFFICES ASSUME Init PROVE SessInv
  OBVIOUS
<1>1. TypeOK
  BY TypeInit
<1>2. \A t \in Threads : Holds(t)
  BY DEF Init, Holds
<1>3. MainInv
  BY SessionAssumption DEF Init, MainInv, Threads, Late
<1>4. LateThreadsHaveOption
  BY SessionAssumption DEF Init, LateThreadsHaveOption, Threads
<1>5. \A t \in Threads : Accounts(t)
  BY DEF Init, Accounts
<1> QED
  BY <1>1, <1>2, <1>3, <1>4, <1>5 DEF SessInv

(* Where the threads named are.                                              *)
LEMMA Names ==
  /\ Threads = {Main, Ipc} \cup Late
  /\ Late = {Uart} \cup BtThreads
  /\ Main \notin Late /\ Ipc \notin Late /\ Main # Ipc
  /\ Uart \notin BtThreads
  /\ \A a \in ValidLists : a # Torn /\ a # Empty
  BY SessionAssumption DEF Threads, Late, PortLists

LEMMA nInitSeqStep ==
  ASSUME SessInv, NEW t \in Threads, nInitSeq(t)
  PROVE  SessInv'
<1> USE Names
<1>1. TypeOK'
  <2>1. /\ pc' \in [Threads -> Pcs] /\ argv' \in Seq(Options)
        /\ cSndPort' \in PortLists \cup {Empty, Torn}
        /\ nPortCount' \in {"unset", "none", "some"} /\ nDoList' \in BOOLEAN
    BY DEF nInitSeq, Misuse, Fails, Goto, AfterFailure, mainVars,
           SessInv, TypeOK, Pcs
  <2>2. /\ pSeq' \in [Threads -> {"null", "open", "closed"}]
        /\ pPorts' \in [Threads -> {"null", "held", "freed"}]
        /\ nMyPortID' \in [Threads -> {"zero", "made", "bad"}]
        /\ parsed' \in [Threads -> PortLists \cup {Empty, Torn}]
        /\ fresh' \in [Threads -> BOOLEAN] /\ sounding' \in [Threads -> BOOLEAN]
    BY DEF nInitSeq, Misuse, Fails, Goto, AfterFailure, mainVars,
           SessInv, TypeOK
  <2>3. blocks' \in [Threads -> Nat]
    BY DEF nInitSeq, Misuse, Fails, Goto, AfterFailure, mainVars,
           SessInv, TypeOK
  <2>4. failed' \in [Threads -> SUBSET Steps]
    BY DEF nInitSeq, Misuse, Fails, Goto, AfterFailure, mainVars,
           SessInv, TypeOK, Steps
  <2>5. misused' \in [Threads -> SUBSET Calls]
    BY DEF nInitSeq, Misuse, Fails, Goto, AfterFailure, mainVars,
           SessInv, TypeOK, Calls
  <2> QED
    BY <2>1, <2>2, <2>3, <2>4, <2>5 DEF TypeOK
<1>2. ASSUME NEW u \in Threads PROVE Holds(u)'
  <2>1. CASE u # t
    BY <2>1 DEF nInitSeq, SessInv, TypeOK, Holds, Excused, Misuse, Fails, Goto,
                mainVars
  <2>2. CASE u = t
    <3>1. /\ pc[u] = "init" /\ Holds(u)
          /\ UNCHANGED <<pPorts, nMyPortID, fresh, sounding>>
      BY <2>2 DEF nInitSeq, SessInv
    <3>2. CASE /\ pSeq'[u] = "open" /\ pc'[u] \in {"options", "parse"}
               /\ failed'[u] = failed[u] /\ misused'[u] = misused[u]
      BY <3>1, <3>2 DEF Holds, Excused
    <3>3. CASE /\ pSeq'[u] \in {"closed", pSeq[u]}
               /\ failed'[u] = failed[u] \cup {"init"}
               /\ pc'[u] = IF u \in {Main, Ipc} THEN "gone" ELSE "exit"
               /\ misused'[u] # {} => misused[u] # {} \/ pSeq[u] = "closed"
      <4>1. Excused(u) => Excused(u)'
        BY <3>1, <3>3 DEF Excused
      <4>2. pc'[u] = "exit" => Excused(u)'
        BY <3>3 DEF Excused
      <4>3. pc'[u] \in {"exit", "gone"}
        BY <3>3
      <4>4. ~ sounding'[u]
        BY <3>1 DEF Holds
      <4>5. pSeq'[u] # "open" /\ pPorts'[u] # "held"
        BY <3>1, <3>3 DEF Holds
      <4>6. pPorts'[u] = "freed" => Excused(u)'
        BY <3>1, <4>1 DEF Holds
      <4>7. misused'[u] # {} => Excused(u)'
        BY <3>1, <3>3, <4>1 DEF Holds
      <4> QED
        BY <4>2, <4>3, <4>4, <4>5, <4>6, <4>7 DEF Holds
    <3> QED
      BY <2>2, <3>2, <3>3 DEF nInitSeq, SessInv, TypeOK, Misuse, Fails, Goto,
                        AfterFailure, mainVars
  <2> QED
    BY <2>1, <2>2
<1>3. MainInv'
  BY DEF nInitSeq, SessInv, TypeOK, Holds, MainInv, Misuse, Fails, Goto,
         AfterFailure, mainVars
<1>4. LateThreadsHaveOption'
  BY DEF nInitSeq, SessInv, TypeOK, MainInv, LateThreadsHaveOption, Late,
         Misuse, Fails, Goto, AfterFailure, mainVars
<1>5. ASSUME NEW u \in Threads PROVE Accounts(u)'
  <2>1. CASE u # t
    BY <2>1 DEF nInitSeq, Misuse, Fails, Goto, AfterFailure, mainVars, SessInv,
       TypeOK, Accounts
  <2>2. CASE u = t
    BY <2>2 DEF nInitSeq, Misuse, Fails, Goto, AfterFailure, mainVars, SessInv,
       TypeOK, Accounts, Holds
  <2> QED
    BY <2>1, <2>2
<1> QED
  BY <1>1, <1>2, <1>3, <1>4, <1>5 DEF SessInv

LEMMA pCreateSourcePortStep ==
  ASSUME SessInv, NEW t \in Threads, pCreateSourcePort(t)
  PROVE  SessInv'
<1> USE Names
<1>1. TypeOK'
  <2>1. /\ pc' \in [Threads -> Pcs] /\ argv' \in Seq(Options)
        /\ cSndPort' \in PortLists \cup {Empty, Torn}
        /\ nPortCount' \in {"unset", "none", "some"} /\ nDoList' \in BOOLEAN
    BY DEF pCreateSourcePort, Fails, Goto, AfterFailure, mainVars,
           SessInv, TypeOK, Pcs
  <2>2. /\ pSeq' \in [Threads -> {"null", "open", "closed"}]
        /\ pPorts' \in [Threads -> {"null", "held", "freed"}]
        /\ nMyPortID' \in [Threads -> {"zero", "made", "bad"}]
        /\ parsed' \in [Threads -> PortLists \cup {Empty, Torn}]
        /\ fresh' \in [Threads -> BOOLEAN] /\ sounding' \in [Threads -> BOOLEAN]
    BY DEF pCreateSourcePort, Fails, Goto, AfterFailure, mainVars,
           SessInv, TypeOK
  <2>3. blocks' \in [Threads -> Nat]
    BY DEF pCreateSourcePort, Fails, Goto, AfterFailure, mainVars,
           SessInv, TypeOK
  <2>4. failed' \in [Threads -> SUBSET Steps]
    BY DEF pCreateSourcePort, Fails, Goto, AfterFailure, mainVars,
           SessInv, TypeOK, Steps
  <2>5. misused' \in [Threads -> SUBSET Calls]
    BY DEF pCreateSourcePort, Fails, Goto, AfterFailure, mainVars,
           SessInv, TypeOK, Calls
  <2> QED
    BY <2>1, <2>2, <2>3, <2>4, <2>5 DEF TypeOK
<1>2. ASSUME NEW u \in Threads PROVE Holds(u)'
  <2>1. CASE u # t
    BY <2>1 DEF pCreateSourcePort, Fails, Goto, AfterFailure, mainVars,
                SessInv, TypeOK, Holds, Excused
  <2>2. CASE u = t
    BY <2>2 DEF pCreateSourcePort, Fails, Goto, AfterFailure, mainVars,
                SessInv, TypeOK, Holds, Excused
  <2> QED
    BY <2>1, <2>2
<1>3. MainInv'
  BY DEF pCreateSourcePort, Fails, Goto, AfterFailure, mainVars, SessInv,
         TypeOK, Holds, MainInv
<1>4. LateThreadsHaveOption'
  BY DEF pCreateSourcePort, Fails, Goto, AfterFailure, mainVars, SessInv,
         TypeOK, MainInv, LateThreadsHaveOption
<1>5. ASSUME NEW u \in Threads PROVE Accounts(u)'
  <2>1. CASE u # t
    BY <2>1 DEF pCreateSourcePort, Fails, Goto, AfterFailure, mainVars, SessInv,
       TypeOK, Accounts
  <2>2. CASE u = t
    BY <2>2 DEF pCreateSourcePort, Fails, Goto, AfterFailure, mainVars, SessInv,
       TypeOK, Accounts, Holds
  <2> QED
    BY <2>1, <2>2
<1> QED
  BY <1>1, <1>2, <1>3, <1>4, <1>5 DEF SessInv

LEMMA nConnectPortsStep ==
  ASSUME SessInv, NEW t \in Threads, nConnectPorts(t)
  PROVE  SessInv'
<1> USE Names
<1>1. TypeOK'
  <2>1. /\ pc' \in [Threads -> Pcs] /\ argv' \in Seq(Options)
        /\ cSndPort' \in PortLists \cup {Empty, Torn}
        /\ nPortCount' \in {"unset", "none", "some"} /\ nDoList' \in BOOLEAN
    BY DEF nConnectPorts, Fails, Goto, AfterFailure, mainVars, resources,
           SessInv, TypeOK, Pcs
  <2>2. /\ pSeq' \in [Threads -> {"null", "open", "closed"}]
        /\ pPorts' \in [Threads -> {"null", "held", "freed"}]
        /\ nMyPortID' \in [Threads -> {"zero", "made", "bad"}]
        /\ parsed' \in [Threads -> PortLists \cup {Empty, Torn}]
        /\ fresh' \in [Threads -> BOOLEAN] /\ sounding' \in [Threads -> BOOLEAN]
    BY DEF nConnectPorts, Fails, Goto, AfterFailure, mainVars, resources,
           SessInv, TypeOK
  <2>3. blocks' \in [Threads -> Nat]
    BY DEF nConnectPorts, Fails, Goto, AfterFailure, mainVars, resources,
           SessInv, TypeOK
  <2>4. failed' \in [Threads -> SUBSET Steps]
    BY DEF nConnectPorts, Fails, Goto, AfterFailure, mainVars, resources,
           SessInv, TypeOK, Steps
  <2>5. misused' \in [Threads -> SUBSET Calls]
    BY DEF nConnectPorts, Fails, Goto, AfterFailure, mainVars, resources,
           SessInv, TypeOK, Calls
  <2> QED
    BY <2>1, <2>2, <2>3, <2>4, <2>5 DEF TypeOK
<1>2. ASSUME NEW u \in Threads PROVE Holds(u)'
  <2>1. CASE u # t
    BY <2>1 DEF nConnectPorts, Fails, Goto, AfterFailure, mainVars, resources,
                SessInv, TypeOK, Holds, Excused
  <2>2. CASE u = t
    BY <2>2 DEF nConnectPorts, Fails, Goto, AfterFailure, mainVars, resources,
                SessInv, TypeOK, Holds, Excused
  <2> QED
    BY <2>1, <2>2
<1>3. MainInv'
  BY DEF nConnectPorts, Fails, Goto, AfterFailure, mainVars, resources,
         SessInv, TypeOK, Holds, MainInv
<1>4. LateThreadsHaveOption'
  BY DEF nConnectPorts, Fails, Goto, AfterFailure, mainVars, resources,
         SessInv, TypeOK, MainInv, LateThreadsHaveOption
<1>5. ASSUME NEW u \in Threads PROVE Accounts(u)'
  <2>1. CASE u # t
    BY <2>1 DEF nConnectPorts, Fails, Goto, AfterFailure, mainVars, resources,
       SessInv, TypeOK, Accounts
  <2>2. CASE u = t
    BY <2>2 DEF nConnectPorts, Fails, Goto, AfterFailure, mainVars, resources,
       SessInv, TypeOK, Accounts, Holds
  <2> QED
    BY <2>1, <2>2
<1> QED
  BY <1>1, <1>2, <1>3, <1>4, <1>5 DEF SessInv

LEMMA PlayMelodyStep ==
  ASSUME SessInv, NEW t \in Threads, PlayMelody(t)
  PROVE  SessInv'
<1> USE Names
<1>1. TypeOK'
  BY DEF PlayMelody, Goto, mainVars, resources, SessInv, TypeOK, Pcs, Steps,
         Calls, PortLists
<1>2. ASSUME NEW u \in Threads PROVE Holds(u)'
  <2>1. CASE u # t
    BY <2>1 DEF PlayMelody, Goto, mainVars, resources, SessInv, TypeOK, Holds,
                Excused
  <2>2. CASE u = t
    BY <2>2 DEF PlayMelody, Goto, mainVars, resources, SessInv, TypeOK, Holds,
                Excused
  <2> QED
    BY <2>1, <2>2
<1>3. MainInv'
  BY DEF PlayMelody, Goto, mainVars, resources, SessInv, TypeOK, Holds,
         MainInv
<1>4. LateThreadsHaveOption'
  BY DEF PlayMelody, Goto, mainVars, resources, SessInv, TypeOK, MainInv,
         LateThreadsHaveOption
<1>5. ASSUME NEW u \in Threads PROVE Accounts(u)'
  <2>1. CASE u # t
    BY <2>1 DEF PlayMelody, Goto, mainVars, resources, SessInv, TypeOK, Accounts
  <2>2. CASE u = t
    BY <2>2 DEF PlayMelody, Goto, mainVars, resources, SessInv, TypeOK,
       Accounts, Holds
  <2> QED
    BY <2>1, <2>2
<1> QED
  BY <1>1, <1>2, <1>3, <1>4, <1>5 DEF SessInv

LEMMA LeaveStep ==
  ASSUME SessInv, NEW t \in Threads, Leave(t)
  PROVE  SessInv'
<1> USE Names
<1>1. TypeOK'
  BY DEF Leave, Goto, mainVars, resources, SessInv, TypeOK, Pcs, Steps, Calls,
         PortLists
<1>2. ASSUME NEW u \in Threads PROVE Holds(u)'
  <2>1. CASE u # t
    BY <2>1 DEF Leave, Goto, mainVars, resources, SessInv, TypeOK, Holds,
                Excused
  <2>2. CASE u = t
    BY <2>2 DEF Leave, Goto, mainVars, resources, SessInv, TypeOK, Holds,
                Excused
  <2> QED
    BY <2>1, <2>2
<1>3. MainInv'
  BY DEF Leave, Goto, mainVars, resources, SessInv, TypeOK, Holds, MainInv
<1>4. LateThreadsHaveOption'
  BY DEF Leave, Goto, mainVars, resources, SessInv, TypeOK, MainInv,
         LateThreadsHaveOption
<1>5. ASSUME NEW u \in Threads PROVE Accounts(u)'
  <2>1. CASE u # t
    BY <2>1 DEF Leave, Goto, mainVars, resources, SessInv, TypeOK, Accounts
  <2>2. CASE u = t
    BY <2>2 DEF Leave, Goto, mainVars, resources, SessInv, TypeOK, Accounts,
       Holds
  <2> QED
    BY <2>1, <2>2
<1> QED
  BY <1>1, <1>2, <1>3, <1>4, <1>5 DEF SessInv

LEMMA ReleaseStep ==
  ASSUME SessInv, NEW t \in Threads, Release(t)
  PROVE  SessInv'
<1> USE Names
<1>1. TypeOK'
  <2>1. /\ pc' \in [Threads -> Pcs] /\ argv' \in Seq(Options)
        /\ cSndPort' \in PortLists \cup {Empty, Torn}
        /\ nPortCount' \in {"unset", "none", "some"} /\ nDoList' \in BOOLEAN
    BY DEF Release, Goto, Misuse, mainVars,
           SessInv, TypeOK, Pcs
  <2>2. /\ pSeq' \in [Threads -> {"null", "open", "closed"}]
        /\ pPorts' \in [Threads -> {"null", "held", "freed"}]
        /\ nMyPortID' \in [Threads -> {"zero", "made", "bad"}]
        /\ parsed' \in [Threads -> PortLists \cup {Empty, Torn}]
        /\ fresh' \in [Threads -> BOOLEAN] /\ sounding' \in [Threads -> BOOLEAN]
    BY DEF Release, Goto, Misuse, mainVars,
           SessInv, TypeOK
  <2>3. blocks' \in [Threads -> Nat]
    BY DEF Release, Goto, Misuse, mainVars,
           SessInv, TypeOK, Accounts, Holds
  <2>4. failed' \in [Threads -> SUBSET Steps]
    BY DEF Release, Goto, Misuse, mainVars,
           SessInv, TypeOK, Steps
  <2>5. misused' \in [Threads -> SUBSET Calls]
    BY DEF Release, Goto, Misuse, mainVars,
           SessInv, TypeOK, Calls
  <2> QED
    BY <2>1, <2>2, <2>3, <2>4, <2>5 DEF TypeOK
<1>2. ASSUME NEW u \in Threads PROVE Holds(u)'
  <2>1. CASE u # t
    BY <2>1 DEF Release, Goto, Misuse, mainVars, SessInv, TypeOK, Holds,
                Excused
  <2>2. CASE u = t
    BY <2>2 DEF Release, Goto, Misuse, mainVars, SessInv, TypeOK, Holds,
                Excused
  <2> QED
    BY <2>1, <2>2
<1>3. MainInv'
  BY DEF Release, Goto, Misuse, mainVars, SessInv, TypeOK, Holds, MainInv
<1>4. LateThreadsHaveOption'
  BY DEF Release, Goto, Misuse, mainVars, SessInv, TypeOK, MainInv,
         LateThreadsHaveOption
<1>5. ASSUME NEW u \in Threads PROVE Accounts(u)'
  <2>1. CASE u # t
    BY <2>1 DEF Release, Goto, Misuse, mainVars, SessInv, TypeOK, Accounts
  <2>2. CASE u = t
    BY <2>2 DEF Release, Goto, Misuse, mainVars, SessInv, TypeOK, Accounts,
       Holds
  <2> QED
    BY <2>1, <2>2
<1> QED
  BY <1>1, <1>2, <1>3, <1>4, <1>5 DEF SessInv

LEMMA CopyTextStep ==
  ASSUME SessInv, NEW t \in Threads, CopyText(t)
  PROVE  SessInv'
<1> USE Names
<1>1. TypeOK'
  <2>1. /\ pc' \in [Threads -> Pcs] /\ argv' \in Seq(Options)
        /\ cSndPort' \in PortLists \cup {Empty, Torn}
        /\ nPortCount' \in {"unset", "none", "some"} /\ nDoList' \in BOOLEAN
    BY DEF CopyText, ParseFails, Fails, Goto, AfterFailure, resources,
           SessInv, TypeOK, Pcs
  <2>2. /\ pSeq' \in [Threads -> {"null", "open", "closed"}]
        /\ pPorts' \in [Threads -> {"null", "held", "freed"}]
        /\ nMyPortID' \in [Threads -> {"zero", "made", "bad"}]
        /\ parsed' \in [Threads -> PortLists \cup {Empty, Torn}]
        /\ fresh' \in [Threads -> BOOLEAN] /\ sounding' \in [Threads -> BOOLEAN]
    BY DEF CopyText, ParseFails, Fails, Goto, AfterFailure, resources,
           SessInv, TypeOK
  <2>3. blocks' \in [Threads -> Nat]
    BY DEF CopyText, ParseFails, Fails, Goto, AfterFailure, resources,
           SessInv, TypeOK
  <2>4. failed' \in [Threads -> SUBSET Steps]
    BY DEF CopyText, ParseFails, Fails, Goto, AfterFailure, resources,
           SessInv, TypeOK, Steps
  <2>5. misused' \in [Threads -> SUBSET Calls]
    BY DEF CopyText, ParseFails, Fails, Goto, AfterFailure, resources,
           SessInv, TypeOK, Calls
  <2> QED
    BY <2>1, <2>2, <2>3, <2>4, <2>5 DEF TypeOK
<1>2. ASSUME NEW u \in Threads PROVE Holds(u)'
  <2>1. CASE u # t
    BY <2>1 DEF CopyText, ParseFails, Fails, Goto, AfterFailure, resources,
                SessInv, TypeOK, Holds, Excused
  <2>2. CASE u = t
    BY <2>2 DEF CopyText, ParseFails, Fails, Goto, AfterFailure, resources,
                SessInv, TypeOK, Holds, Excused
  <2> QED
    BY <2>1, <2>2
<1>3. MainInv'
  BY DEF CopyText, ParseFails, Fails, Goto, AfterFailure, resources, SessInv,
         TypeOK, Holds, MainInv
<1>4. LateThreadsHaveOption'
  BY DEF CopyText, ParseFails, Fails, Goto, AfterFailure, resources, SessInv,
         TypeOK, MainInv, LateThreadsHaveOption
<1>5. ASSUME NEW u \in Threads PROVE Accounts(u)'
  <2>1. CASE u # t
    BY <2>1 DEF CopyText, ParseFails, Fails, Goto, AfterFailure, resources,
                SessInv, TypeOK, Accounts
  <2>2. CASE u = t
    BY <2>2 DEF CopyText, ParseFails, Fails, Goto, AfterFailure, resources,
                SessInv, TypeOK, Accounts, Holds
  <2> QED
    BY <2>1, <2>2
<1> QED
  BY <1>1, <1>2, <1>3, <1>4, <1>5 DEF SessInv

LEMMA GrowListStep ==
  ASSUME SessInv, NEW t \in Threads, GrowList(t)
  PROVE  SessInv'
<1> USE Names
<1>1. TypeOK'
  <2>1. /\ pc' \in [Threads -> Pcs] /\ argv' \in Seq(Options)
        /\ cSndPort' \in PortLists \cup {Empty, Torn}
        /\ nPortCount' \in {"unset", "none", "some"} /\ nDoList' \in BOOLEAN
    BY DEF GrowList, ParseFails, Fails, Goto, AfterFailure, Misuse,
           SessInv, TypeOK, Pcs
  <2>2. /\ pSeq' \in [Threads -> {"null", "open", "closed"}]
        /\ pPorts' \in [Threads -> {"null", "held", "freed"}]
        /\ nMyPortID' \in [Threads -> {"zero", "made", "bad"}]
        /\ parsed' \in [Threads -> PortLists \cup {Empty, Torn}]
        /\ fresh' \in [Threads -> BOOLEAN] /\ sounding' \in [Threads -> BOOLEAN]
    BY DEF GrowList, ParseFails, Fails, Goto, AfterFailure, Misuse,
           SessInv, TypeOK
  <2>3. blocks' \in [Threads -> Nat]
    BY DEF GrowList, ParseFails, Fails, Goto, AfterFailure, Misuse,
           SessInv, TypeOK
  <2>4. failed' \in [Threads -> SUBSET Steps]
    BY DEF GrowList, ParseFails, Fails, Goto, AfterFailure, Misuse,
           SessInv, TypeOK, Steps
  <2>5. misused' \in [Threads -> SUBSET Calls]
    BY DEF GrowList, ParseFails, Fails, Goto, AfterFailure, Misuse,
           SessInv, TypeOK, Calls
  <2> QED
    BY <2>1, <2>2, <2>3, <2>4, <2>5 DEF TypeOK
<1>2. ASSUME NEW u \in Threads PROVE Holds(u)'
  <2>1. CASE u # t
    BY <2>1 DEF GrowList, ParseFails, Fails, Goto, AfterFailure, Misuse,
                SessInv, TypeOK, Holds, Excused
  <2>2. CASE u = t
    BY <2>2 DEF GrowList, ParseFails, Fails, Goto, AfterFailure, Misuse,
                SessInv, TypeOK, Holds, Excused
  <2> QED
    BY <2>1, <2>2
<1>3. MainInv'
  BY DEF GrowList, ParseFails, Fails, Goto, AfterFailure, Misuse, SessInv,
         TypeOK, Holds, MainInv
<1>4. LateThreadsHaveOption'
  BY DEF GrowList, ParseFails, Fails, Goto, AfterFailure, Misuse, SessInv,
         TypeOK, MainInv, LateThreadsHaveOption
<1>5. ASSUME NEW u \in Threads PROVE Accounts(u)'
  <2>1. CASE u # t
    BY <2>1 DEF GrowList, ParseFails, Fails, Goto, AfterFailure, Misuse,
                SessInv, TypeOK, Accounts
  <2>2. CASE u = t
    BY <2>2 DEF GrowList, ParseFails, Fails, Goto, AfterFailure, Misuse,
                SessInv, TypeOK, Accounts, Holds
  <2> QED
    BY <2>1, <2>2
<1> QED
  BY <1>1, <1>2, <1>3, <1>4, <1>5 DEF SessInv

LEMMA ParseAddressStep ==
  ASSUME SessInv, NEW t \in Threads, ParseAddress(t)
  PROVE  SessInv'
<1> USE Names
<1>1. TypeOK'
  <2>1. /\ pc' \in [Threads -> Pcs] /\ argv' \in Seq(Options)
        /\ cSndPort' \in PortLists \cup {Empty, Torn}
        /\ nPortCount' \in {"unset", "none", "some"} /\ nDoList' \in BOOLEAN
    BY DEF ParseAddress, ParseFails, Fails, Goto, AfterFailure,
           SessInv, TypeOK, Pcs
  <2>2. /\ pSeq' \in [Threads -> {"null", "open", "closed"}]
        /\ pPorts' \in [Threads -> {"null", "held", "freed"}]
        /\ nMyPortID' \in [Threads -> {"zero", "made", "bad"}]
        /\ parsed' \in [Threads -> PortLists \cup {Empty, Torn}]
        /\ fresh' \in [Threads -> BOOLEAN] /\ sounding' \in [Threads -> BOOLEAN]
    BY DEF ParseAddress, ParseFails, Fails, Goto, AfterFailure,
           SessInv, TypeOK
  <2>3. blocks' \in [Threads -> Nat]
    <3>1. pPorts[t] = "held" /\ blocks[t] >= 1 /\ blocks \in [Threads -> Nat]
      BY DEF ParseAddress, SessInv, TypeOK, Holds, Accounts
    <3>2. blocks' = blocks \/ blocks' = [blocks EXCEPT ![t] = @ - 1]
      BY DEF ParseAddress
    <3>3. blocks[t] - 1 \in Nat
      BY <3>1
    <3> QED
      BY <3>1, <3>2, <3>3
  <2>4. failed' \in [Threads -> SUBSET Steps]
    BY DEF ParseAddress, ParseFails, Fails, Goto, AfterFailure,
           SessInv, TypeOK, Steps
  <2>5. misused' \in [Threads -> SUBSET Calls]
    BY DEF ParseAddress, ParseFails, Fails, Goto, AfterFailure,
           SessInv, TypeOK, Calls
  <2> QED
    BY <2>1, <2>2, <2>3, <2>4, <2>5 DEF TypeOK
<1>2. ASSUME NEW u \in Threads PROVE Holds(u)'
  <2>1. CASE u # t
    BY <2>1 DEF ParseAddress, ParseFails, Fails, Goto, AfterFailure,
                SessInv, TypeOK, Holds, Excused
  <2>2. CASE u = t
    BY <2>2 DEF ParseAddress, ParseFails, Fails, Goto, AfterFailure,
                SessInv, TypeOK, Holds, Excused
  <2> QED
    BY <2>1, <2>2
<1>3. MainInv'
  <2>1. /\ pc[t] = "address" /\ pPorts[t] = "held"
        /\ UNCHANGED <<argv, cSndPort, parsed>>
        /\ pc \in [Threads -> Pcs] /\ pPorts \in [Threads -> {"null", "held", "freed"}]
    BY DEF ParseAddress, SessInv, TypeOK, Holds
  <2>2. CASE t # Main
    <3>1. /\ UNCHANGED nPortCount /\ pPorts'[Main] = pPorts[Main]
          /\ \E there \in {"grow", "port", "exit"} : pc' = [pc EXCEPT ![t] = there]
      BY <2>1, <2>2 DEF ParseAddress, ParseFails, Fails, Goto, AfterFailure
    <3> QED
      BY <2>1, <2>2, <3>1 DEF SessInv, MainInv
  <2>3. CASE t = Main
    <3>1. /\ \A u \in Late : pc[u] = "none"
          /\ \A u \in Threads \ {Main} : pc[u] \notin {"options", "copy", "uart", "socket"}
          /\ cSndPort \in PortLists /\ parsed[Main] = cSndPort /\ cSndPort # Torn
      BY <2>1, <2>3, SessionAssumption DEF SessInv, MainInv
    <3>2. \/ pc' = [pc EXCEPT ![Main] = "grow"] /\ UNCHANGED <<nPortCount, pPorts>>
          \/ /\ pc' = [pc EXCEPT ![Main] = "options"] /\ UNCHANGED pPorts
             /\ nPortCount' = "some" /\ cSndPort \in ValidLists
          \/ /\ pc' = [pc EXCEPT ![Main] = "options"]
             /\ nPortCount' = "none"
      BY <2>1, <2>3, <3>1 DEF ParseAddress, ParseFails, Fails, Goto
    <3> QED
      BY <2>1, <2>3, <3>1, <3>2 DEF SessInv, MainInv
  <2> QED
    BY <2>2, <2>3
<1>4. LateThreadsHaveOption'
  <2>1. UNCHANGED <<cSndPort, parsed>>
    BY DEF ParseAddress
  <2>2. ASSUME NEW u \in Late, pc'[u] \in {"port", "connect", "melody", "ready"}
        PROVE  parsed[u] \in ValidLists /\ parsed[u] = parsed[Main]
    <3>1. CASE pc[u] \in {"port", "connect", "melody", "ready"}
      BY <3>1 DEF SessInv, LateThreadsHaveOption
    <3>2. CASE pc[u] \notin {"port", "connect", "melody", "ready"}
      <4>1. u = t /\ pc[u] = "address" /\ parsed[u] \in ValidLists \cup {Torn}
        BY <2>2, <3>2 DEF ParseAddress, ParseFails, Fails, Goto, AfterFailure,
                          SessInv, TypeOK
      <4>2. /\ parsed[u] = cSndPort /\ cSndPort \in ValidLists
            /\ parsed[Main] = cSndPort
        BY <4>1 DEF SessInv, MainInv
      <4> QED
        BY <4>2
    <3> QED
      BY <3>1, <3>2
  <2> QED
    BY <2>1, <2>2 DEF LateThreadsHaveOption, Late
<1>5. ASSUME NEW u \in Threads PROVE Accounts(u)'
  <2>1. CASE u # t
    BY <2>1 DEF ParseAddress, ParseFails, Fails, Goto, AfterFailure,
                SessInv, TypeOK, Accounts
  <2>2. CASE u = t
    BY <2>2 DEF ParseAddress, ParseFails, Fails, Goto, AfterFailure,
                SessInv, TypeOK, Accounts, Holds
  <2> QED
    BY <2>1, <2>2
<1> QED
  BY <1>1, <1>2, <1>3, <1>4, <1>5 DEF SessInv

LEMMA TakeOptionStep ==
  ASSUME SessInv, TakeOption
  PROVE  SessInv'
<1> USE Names
<1>1. TypeOK'
  <2>1. argv \in Seq(Options) /\ argv' \in {argv, Tail(argv)} /\ argv # <<>>
    BY DEF TakeOption, SessInv, TypeOK
  <2>2. argv' \in Seq(Options)
    BY <2>1
  <2>3. pc' \in [Threads -> Pcs]
    BY DEF TakeOption, Goto, SessInv, TypeOK, Pcs
  <2>4. cSndPort' \in {cSndPort, Torn} /\ nDoList' \in BOOLEAN
    BY DEF TakeOption, SessInv, TypeOK
  <2> QED
    BY <2>2, <2>3, <2>4 DEF TakeOption, resources, SessInv, TypeOK
<1>2. ASSUME NEW u \in Threads PROVE Holds(u)'
  <2>1. CASE u # Main
    BY <2>1 DEF TakeOption, Goto, Options, resources, SessInv, TypeOK, Holds,
                Excused
  <2>2. CASE u = Main
    BY <2>2 DEF TakeOption, Goto, Options, resources, SessInv, TypeOK, Holds,
                Excused, MainInv
  <2> QED
    BY <2>1, <2>2
<1>3. MainInv'
  BY DEF TakeOption, Goto, Options, resources, SessInv, TypeOK, Holds,
         MainInv, PortLists
<1>4. LateThreadsHaveOption'
  BY DEF TakeOption, Goto, Options, resources, SessInv, TypeOK, MainInv,
         LateThreadsHaveOption
<1>5. ASSUME NEW u \in Threads PROVE Accounts(u)'
  <2>1. CASE u # Main
    BY <2>1 DEF TakeOption, Goto, Options, resources, SessInv, TypeOK, Accounts
  <2>2. CASE u = Main
    BY <2>2 DEF TakeOption, Goto, Options, resources, SessInv, TypeOK, Accounts,
       Holds
  <2> QED
    BY <2>1, <2>2
<1> QED
  BY <1>1, <1>2, <1>3, <1>4, <1>5 DEF SessInv

LEMMA OptionsDoneStep ==
  ASSUME SessInv, OptionsDone
  PROVE  SessInv'
<1> USE Names
<1>1. TypeOK'
  BY DEF OptionsDone, Goto, mainVars, resources, SessInv, TypeOK, Pcs,
         PortLists
<1>2. ASSUME NEW u \in Threads PROVE Holds(u)'
  <2>1. CASE u # Main
    BY <2>1 DEF OptionsDone, Goto, mainVars, resources, SessInv, TypeOK,
                Holds, Excused
  <2>2. CASE u = Main
    BY <2>2 DEF OptionsDone, Goto, mainVars, resources, SessInv, TypeOK,
                Holds, Excused, MainInv
  <2> QED
    BY <2>1, <2>2
<1>3. MainInv'
  BY DEF OptionsDone, Goto, mainVars, resources, SessInv, TypeOK, Holds,
         MainInv, PortLists
<1>4. LateThreadsHaveOption'
  BY DEF OptionsDone, Goto, mainVars, resources, SessInv, TypeOK, MainInv,
         LateThreadsHaveOption
<1>5. ASSUME NEW u \in Threads PROVE Accounts(u)'
  <2>1. CASE u # Main
    BY <2>1 DEF OptionsDone, Goto, mainVars, resources, SessInv, TypeOK,
       Accounts
  <2>2. CASE u = Main
    BY <2>2 DEF OptionsDone, Goto, mainVars, resources, SessInv, TypeOK,
       Accounts, Holds
  <2> QED
    BY <2>1, <2>2
<1> QED
  BY <1>1, <1>2, <1>3, <1>4, <1>5 DEF SessInv

LEMMA OpenServerSocketStep ==
  ASSUME SessInv, OpenServerSocket
  PROVE  SessInv'
<1> USE Names
<1>1. TypeOK'
  BY DEF OpenServerSocket, Goto, mainVars, resources, SessInv, TypeOK, Pcs,
         PortLists
<1>2. ASSUME NEW u \in Threads PROVE Holds(u)'
  <2>1. CASE u # Main
    BY <2>1 DEF OpenServerSocket, Goto, mainVars, resources, SessInv, TypeOK,
                Holds, Excused
  <2>2. CASE u = Main
    BY <2>2 DEF OpenServerSocket, Goto, mainVars, resources, SessInv, TypeOK,
                Holds, Excused, MainInv
  <2> QED
    BY <2>1, <2>2
<1>3. MainInv'
  BY DEF OpenServerSocket, Goto, mainVars, resources, SessInv, TypeOK, Holds,
         MainInv, PortLists
<1>4. LateThreadsHaveOption'
  BY DEF OpenServerSocket, Goto, mainVars, resources, SessInv, TypeOK,
         MainInv, LateThreadsHaveOption
<1>5. ASSUME NEW u \in Threads PROVE Accounts(u)'
  <2>1. CASE u # Main
    BY <2>1 DEF OpenServerSocket, Goto, mainVars, resources, SessInv, TypeOK,
       Accounts
  <2>2. CASE u = Main
    BY <2>2 DEF OpenServerSocket, Goto, mainVars, resources, SessInv, TypeOK,
       Accounts, Holds
  <2> QED
    BY <2>1, <2>2
<1> QED
  BY <1>1, <1>2, <1>3, <1>4, <1>5 DEF SessInv

LEMMA ParseOptionStep ==
  ASSUME SessInv, ParseOption
  PROVE  SessInv'
<1> USE Names
<1>1. /\ pc[Main] = "copy" /\ argv # <<>> /\ cSndPort' \in PortLists
      /\ argv' = Tail(argv) /\ Goto(Main, "parse")
      /\ UNCHANGED <<nPortCount, nDoList, resources, parsed, fresh, failed, sounding>>
  BY DEF ParseOption, SessInv, MainInv
<1>2. TypeOK'
  <2>1. argv' \in Seq(Options)
    BY <1>1 DEF SessInv, TypeOK
  <2> QED
    BY <1>1, <2>1 DEF SessInv, TypeOK, Goto, Pcs, resources
<1>3. ASSUME NEW u \in Threads PROVE Holds(u)' /\ Accounts(u)'
  BY <1>1 DEF SessInv, TypeOK, Goto, Holds, Excused, Accounts, resources
<1>4. MainInv'
  BY <1>1 DEF SessInv, TypeOK, MainInv, Goto, resources
<1>5. LateThreadsHaveOption'
  BY <1>1 DEF SessInv, TypeOK, MainInv, LateThreadsHaveOption, Goto
<1> QED
  BY <1>2, <1>3, <1>4, <1>5 DEF SessInv

(* What the stack of a new thread holds.                                     *)
LEMMA StackStep ==
  ASSUME SessInv, NEW t \in Late, StackFor(t), pc[t] = "none"
  PROVE  /\ pSeq' \in [Threads -> {"null", "open", "closed"}]
         /\ pPorts' \in [Threads -> {"null", "held", "freed"}]
         /\ fresh' \in [Threads -> BOOLEAN]
         /\ UNCHANGED <<blocks, nMyPortID, misused>>
         /\ \A u \in Threads \ {t} : /\ pSeq'[u] = pSeq[u] /\ pPorts'[u] = pPorts[u]
                                     /\ fresh'[u] <=> fresh[u]
         /\ pSeq'[t] # "open" /\ pPorts'[t] # "held"
         /\ pSeq'[t] = "closed" \/ pPorts'[t] = "freed" =>
              ~ fresh'[t] /\ t \in BtThreads
         /\ ~ fresh[t] => ~ fresh'[t]
<1> USE Names
<1>1. /\ TypeOK /\ t \in Threads
      /\ pSeq[t] = "null" /\ pPorts[t] = "null"
  BY DEF SessInv, Holds
<1>2. CASE fresh' = fresh /\ UNCHANGED resources
  BY <1>1, <1>2 DEF TypeOK, resources
<1>3. CASE fresh' = [fresh EXCEPT ![t] = FALSE] /\ t = Uart /\ UNCHANGED resources
  BY <1>1, <1>3 DEF TypeOK, resources
<1>4. CASE /\ fresh' = [fresh EXCEPT ![t] = FALSE] /\ t # Uart
           /\ pSeq' = [pSeq EXCEPT ![t] = "closed"]
           /\ pPorts' = [pPorts EXCEPT ![t] = "freed"]
           /\ UNCHANGED <<blocks, nMyPortID, misused>>
  BY <1>1, <1>4 DEF TypeOK
<1> QED
  BY <1>2, <1>3, <1>4 DEF StackFor

LEMMA CreateBtThreadStep ==
  ASSUME SessInv, NEW t \in BtThreads, CreateBtThread(t)
  PROVE  SessInv'
<1> USE Names
<1>1. /\ pc[Main] = "ready" /\ pc[t] = "none" /\ Goto(t, "init") /\ StackFor(t)
      /\ UNCHANGED <<mainVars, parsed, failed, sounding>>
  BY DEF CreateBtThread
<1>2. /\ pSeq' \in [Threads -> {"null", "open", "closed"}]
      /\ pPorts' \in [Threads -> {"null", "held", "freed"}]
      /\ fresh' \in [Threads -> BOOLEAN]
      /\ UNCHANGED <<blocks, nMyPortID, misused>>
  BY <1>1, StackStep
<1>3. /\ \A u \in Threads \ {t} : /\ pSeq'[u] = pSeq[u] /\ pPorts'[u] = pPorts[u]
                                  /\ fresh'[u] <=> fresh[u]
      /\ pSeq'[t] # "open" /\ pPorts'[t] # "held"
      /\ pSeq'[t] = "closed" \/ pPorts'[t] = "freed" => ~ fresh'[t]
      /\ ~ fresh[t] => ~ fresh'[t]
  BY <1>1, StackStep
<1>4. TypeOK'
  BY <1>1, <1>2 DEF SessInv, TypeOK, Goto, Pcs, mainVars
<1>5. ASSUME NEW u \in Threads PROVE Holds(u)' /\ Accounts(u)'
  <2>1. CASE u # t
    BY <1>1, <1>2, <1>3, <2>1 DEF SessInv, TypeOK, Goto, Holds, Excused,
       Accounts
  <2>2. CASE u = t
    BY <1>1, <1>2, <1>3, <2>2 DEF SessInv, TypeOK, Goto, Holds, Excused,
       Accounts
  <2> QED
    BY <2>1, <2>2
<1>6. MainInv'
  BY <1>1, <1>2, <1>3 DEF SessInv, TypeOK, MainInv, Goto, mainVars
<1>7. LateThreadsHaveOption'
  BY <1>1 DEF SessInv, TypeOK, LateThreadsHaveOption, Goto, mainVars
<1> QED
  BY <1>4, <1>5, <1>6, <1>7 DEF SessInv

LEMMA CreateUartThreadStep ==
  ASSUME SessInv, CreateUartThread
  PROVE  SessInv'
<1> USE Names
<1>1. /\ pc[Main] = "uart" /\ pc[Uart] = "none"
      /\ UNCHANGED <<mainVars, parsed, failed, sounding>>
  BY DEF CreateUartThread, SessInv, MainInv
<1>2. CASE /\ pc' = [pc EXCEPT ![Main] = "socket", ![Uart] = "init"]
           /\ StackFor(Uart)
  <2>1. /\ pSeq' \in [Threads -> {"null", "open", "closed"}]
        /\ pPorts' \in [Threads -> {"null", "held", "freed"}]
        /\ fresh' \in [Threads -> BOOLEAN]
        /\ UNCHANGED <<blocks, nMyPortID, misused>>
    BY <1>1, <1>2, StackStep
  <2>2. /\ \A u \in Threads \ {Uart} :
             /\ pSeq'[u] = pSeq[u] /\ pPorts'[u] = pPorts[u]
             /\ fresh'[u] <=> fresh[u]
        /\ pSeq'[Uart] = "null" /\ pPorts'[Uart] = "null"
        /\ ~ fresh[Uart] => ~ fresh'[Uart]
    BY <1>1, <1>2, <2>1, StackStep
  <2>3. TypeOK'
    BY <1>1, <1>2, <2>1 DEF SessInv, TypeOK, Pcs, mainVars
  <2>4. ASSUME NEW u \in Threads PROVE Holds(u)' /\ Accounts(u)'
    <3>1. CASE u \notin {Main, Uart}
      BY <1>1, <1>2, <2>1, <2>2, <3>1 DEF SessInv, TypeOK, Holds, Accounts,
         Excused
    <3>2. CASE u = Main
      BY <1>1, <1>2, <2>1, <2>2, <3>2 DEF SessInv, TypeOK, MainInv, Holds,
         Accounts, Excused
    <3>3. CASE u = Uart
      BY <1>1, <1>2, <2>1, <2>2, <3>3 DEF SessInv, TypeOK, Holds, Accounts,
         Excused
    <3> QED
      BY <3>1, <3>2, <3>3
  <2>5. MainInv'
    BY <1>1, <1>2, <2>1, <2>2 DEF SessInv, TypeOK, MainInv, mainVars
  <2>6. LateThreadsHaveOption'
    BY <1>1, <1>2 DEF SessInv, TypeOK, LateThreadsHaveOption, mainVars
  <2> QED
    BY <2>3, <2>4, <2>5, <2>6 DEF SessInv
<1>3. CASE /\ \/ pc' = [pc EXCEPT ![Main] = "socket", ![Uart] = "gone"]
              \/ Goto(Main, "gone")
           /\ UNCHANGED <<resources, fresh>>
  <2>1. TypeOK'
    BY <1>1, <1>3 DEF SessInv, TypeOK, Goto, Pcs, mainVars, resources
  <2>2. ASSUME NEW u \in Threads PROVE Holds(u)' /\ Accounts(u)'
    <3>1. CASE u \notin {Main, Uart}
      BY <1>1, <1>3, <3>1 DEF SessInv, TypeOK, Goto, Holds, Accounts, Excused,
         resources
    <3>2. CASE u = Main
      BY <1>1, <1>3, <3>2 DEF SessInv, TypeOK, Goto, MainInv, Holds, Accounts,
         Excused, resources
    <3>3. CASE u = Uart
      BY <1>1, <1>3, <3>3 DEF SessInv, TypeOK, Goto, Holds, Accounts, Excused,
         resources
    <3> QED
      BY <3>1, <3>2, <3>3
  <2>3. MainInv'
    BY <1>1, <1>3 DEF SessInv, TypeOK, Goto, MainInv, mainVars, resources
  <2>4. LateThreadsHaveOption'
    BY <1>1, <1>3 DEF SessInv, TypeOK, Goto, LateThreadsHaveOption, mainVars
  <2> QED
    BY <2>1, <2>2, <2>3, <2>4 DEF SessInv
<1> QED
  BY <1>2, <1>3 DEF CreateUartThread

LEMMA SessNext == SessInv /\ [Next]_vars => SessInv'
<1> SUFFICES ASSUME SessInv, [Next]_vars PROVE SessInv'
  OBVIOUS
<1>1. ASSUME NEW t \in Threads,
             \/ nInitSeq(t) \/ nParsePorts(t) \/ pCreateSourcePort(t)
             \/ nConnectPorts(t) \/ PlayMelody(t) \/ Leave(t) \/ Release(t)
      PROVE  SessInv'
  BY <1>1, nInitSeqStep, CopyTextStep, GrowListStep, ParseAddressStep,
     pCreateSourcePortStep, nConnectPortsStep, PlayMelodyStep, LeaveStep,
     ReleaseStep DEF nParsePorts
<1>2. CASE UNCHANGED vars
  BY <1>2 DEF vars, mainVars, resources, SessInv, TypeOK, Holds, Excused,
              Accounts, MainInv, LateThreadsHaveOption
<1> QED
  BY <1>1, <1>2, TakeOptionStep, ParseOptionStep, OptionsDoneStep,
     CreateUartThreadStep, OpenServerSocketStep, CreateBtThreadStep DEF Next

LEMMA SessCorrect == Spec => []SessInv
  BY SessInit, SessNext, PTL DEF Spec

-----------------------------------------------------------------------------
(* The results.                                                              *)

(* The variables of every thread and main's options keep their types, for    *)
(* any threads, port lists and command lines (bt_daemon.c:181-214, 740-812). *)
THEOREM SessionTypeCorrect == Spec => []TypeOK
<1>1. SessInv => TypeOK
  BY DEF SessInv
<1> QED
  BY <1>1, SessCorrect, PTL

(* Every thread gives back once what it took, on every path through its      *)
(* preparation and its exit, except the paths named in the property, for any *)
(* number of Bluetooth threads and any options (bt_daemon.c:181-214, 354-364,*)
(* 428-439, midi.c).                                                         *)
THEOREM ReleasesAreClean == Spec => []CleanRelease
<1>1. SessInv => CleanRelease
  BY Names DEF SessInv, Holds, Excused, CleanRelease
<1> QED
  BY <1>1, SessCorrect, PTL

(* A thread that has ended holds no sequencer and no list of ports, but for  *)
(* the list that is lost when realloc fails for a port after the first,      *)
(* which is exactly one (bt_daemon.c:354-364, 428-439, 682-692,              *)
(* midi.c:70-91).                                                            *)
THEOREM ThreadsLeakNothing == Spec => []NothingLeaks
<1>1. SessInv => NothingLeaks
  BY DEF SessInv, Holds, Accounts, NothingLeaks
<1> QED
  BY <1>1, SessCorrect, PTL

(* Who plays has a whole session, and main never goes past the test of a     *)
(* count that nothing has set without one (bt_daemon.c:791-812).             *)
THEOREM PlayersAreReady == Spec => []ReadyIsComplete
<1>1. SessInv => ReadyIsComplete
  BY DEF SessInv, Holds, MainInv, ReadyIsComplete
<1> QED
  BY <1>1, SessCorrect, PTL

(* The serial and the Bluetooth threads play to the ports of the last -p     *)
(* (bt_daemon.c:748-790).                                                    *)
THEOREM LateThreadsFollowOption == Spec => []LateThreadsHaveOption
<1>1. SessInv => LateThreadsHaveOption
  BY DEF SessInv
<1> QED
  BY <1>1, SessCorrect, PTL
=============================================================================
