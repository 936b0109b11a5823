--------------------------- MODULE HciClientProofs ---------------------------
(***************************************************************************)
(* A client of the HCI library keeps its socket and its filter in order,   *)
(* whatever the devices, the controller and the other processes do, and    *)
(* takes no answer but its own while nothing reports an event that looks   *)
(* like it, for any number of calls.                                       *)
(***************************************************************************)
EXTENDS HciClient, FiniteSetTheorems, SequenceTheorems, WellFoundedInduction,
        TLAPS

-----------------------------------------------------------------------------
(* Descriptors.                                                              *)

SocketInv ==
  /\ dpc \in {"list", "ask", "scan", "open", "bind", "opened", "failed", "closed"}
  /\ OneSocketPerDevice

LEMMA SocketInit == Init => SocketInv
  BY DEF Init, DevInit, SocketInv, OneSocketPerDevice

LEMMA SocketNext == SocketInv /\ [Next]_vars => SocketInv'
<1> SUFFICES ASSUME SocketInv, [Next]_vars PROVE SocketInv'
  OBVIOUS
<1> USE DEF SocketInv, OneSocketPerDevice
<1>1. CASE StartWalk
  BY <1>1 DEF StartWalk, WalkGives
<1>2. CASE ListDevices \/ ScanDevice
  <2>1. ASSUME NEW found, dpc \in {"ask", "scan"}, EndWalk(found) PROVE SocketInv'
    BY <2>1 DEF EndWalk, WalkGives
  <2>2. CASE ListDevices
    <3>1. CASE dpc = "ask" /\ UNCHANGED sockets /\ dpc' = "scan"
      BY <3>1
    <3> QED
      BY <2>1, <2>2, <3>1 DEF ListDevices
  <2>3. CASE ScanDevice
    <3>1. CASE UNCHANGED <<dpc, sockets>>
      BY <3>1
    <3> QED
      BY <2>1, <2>3, <3>1 DEF ScanDevice
  <2> QED
    BY <1>2, <2>2, <2>3
<1>3. CASE hci_open_dev \/ hci_close_dev
  BY <1>3 DEF hci_open_dev, OpenSocket, BindSocket, hci_close_dev
<1>4. ASSUME NEW d \in Adapters, DeviceChanges(d) PROVE SocketInv'
  BY <1>4 DEF DeviceChanges
<1>5. CASE UNCHANGED devVars
  BY <1>5 DEF devVars
<1> QED
  BY <1>1, <1>2, <1>3, <1>4, <1>5
  DEF Next, FindDevice, UseDevice, CloseDevice, hci_get_route, vars

-----------------------------------------------------------------------------
(* The filter.                                                               *)

(* During a call the user's filter is in of, and only there.                 *)
FilterInv ==
  /\ hpc \in {"idle", "send", "poll", "read", "failed", "done"}
  /\ FilterRestored
  /\ hpc # "idle" => of = userFilter

LEMMA FilterInit == Init => FilterInv
  BY DEF Init, HciInit, FilterInv, FilterRestored

LEMMA VerdictRange ==
  ASSUME NEW e PROVE Verdict(e) \in {"poll", "done", "failed"}
  BY DEF Verdict

LEMMA FilterStep == FilterInv /\ HciNext => FilterInv'
<1> SUFFICES ASSUME FilterInv, HciNext PROVE FilterInv'
  OBVIOUS
<1> USE DEF FilterInv, FilterRestored
<1>1. ASSUME NEW c \in Requests, NEW t \in Timeouts, NEW d \in About(c), Call(c, d, t)
      PROVE  FilterInv'
  BY <1>1 DEF Call
<1>2. CASE hci_send_cmd
  BY <1>2 DEF hci_send_cmd
<1>3. CASE Poll
  BY <1>3 DEF Poll
<1>4. CASE ReadPacket
  <2>1. hpc = "read" /\ hpc' \in {"poll", "done", "failed"}
    BY <1>4, VerdictRange DEF ReadPacket
  <2>2. UNCHANGED <<of, filter, userFilter>>
    BY <1>4 DEF ReadPacket
  <2> QED
    BY <2>1, <2>2
<1>5. CASE Return
  BY <1>5 DEF Return, LeaveCall
<1>6. CASE SocketFails
  BY <1>6 DEF SocketFails
<1>7. CASE Controller
  BY <1>7 DEF Controller, ControllerAnswers, ControllerFinishes,
              OtherProcessSends, ControllerReports, clientVars
<1> QED
  BY <1>1, <1>2, <1>3, <1>4, <1>5, <1>6, <1>7 DEF HciNext, hci_send_req

LEMMA FilterNext == FilterInv /\ [Next]_vars => FilterInv'
<1> SUFFICES ASSUME FilterInv, [Next]_vars PROVE FilterInv'
  OBVIOUS
<1>1. CASE UNCHANGED hciVars
  BY <1>1 DEF hciVars, clientVars, FilterInv, FilterRestored
<1> QED
  BY <1>1, FilterStep DEF Next, FindDevice, UseDevice, CloseDevice, vars

-----------------------------------------------------------------------------
(* Commands and verdicts.                                                    *)

Known == Commands \cup OtherRequests

(* The event a command waits for is one the library knows, and none of the   *)
(* three that have a branch of their own.                                    *)
ProperEvent(c) ==
  \/ c.event = 0
  \/ IF c.le THEN c.event \in LeSubevents
             ELSE c.event \in EventCodes \
                    {EVT_CMD_COMPLETE, EVT_CMD_STATUS, EVT_LE_META_EVENT}

AwaitedCodes == {1, 3, 4, 5, 6, 7, 8, 9, 11, 12, 18, 20, 28, 35}

LEMMA AwaitsProper ==
  ASSUME NEW fn, NEW ogf, NEW ocf, NEW event \in AwaitedCodes,
         NEW clen, NEW rlen, NEW reads,
         ogf = OGF_LE_CTL => event \in LeSubevents
  PROVE  ProperEvent(Awaits(fn, ogf, ocf, event, clen, rlen, reads))
<1>1. /\ Awaits(fn, ogf, ocf, event, clen, rlen, reads).event = event
      /\ Awaits(fn, ogf, ocf, event, clen, rlen, reads).le = (ogf = OGF_LE_CTL)
  BY DEF Awaits, Completes
<1>2. event \in EventCodes \ {EVT_CMD_COMPLETE, EVT_CMD_STATUS, EVT_LE_META_EVENT}
  BY DEF AwaitedCodes, EventCodes, EVT_CMD_COMPLETE, EVT_CMD_STATUS,
         EVT_LE_META_EVENT
<1> QED
  BY <1>1, <1>2 DEF ProperEvent

LEMMA CompletesProper ==
  ASSUME NEW fn, NEW ogf, NEW ocf, NEW clen, NEW rlen, NEW reads
  PROVE  ProperEvent(Completes(fn, ogf, ocf, clen, rlen, reads))
  BY DEF ProperEvent, Completes

LEMMA UncheckedProper ==
  ASSUME NEW fn, NEW ogf, NEW ocf, NEW clen
  PROVE  ProperEvent(Unchecked(fn, ogf, ocf, clen))
  BY CompletesProper DEF Unchecked

LEMMA KnownEvents == ASSUME NEW c \in Known PROVE ProperEvent(c)
<1> USE AwaitsProper, CompletesProper, UncheckedProper
    DEF AwaitedCodes, LeSubevents, OGF_LINK_CTL, OGF_LINK_POLICY, OGF_LE_CTL
<1>1. ASSUME NEW d \in LinkCommands PROVE ProperEvent(d)
  BY <1>1 DEF LinkCommands, EVT_CONN_COMPLETE, EVT_DISCONN_COMPLETE
<1>2. ASSUME NEW d \in ListCommands PROVE ProperEvent(d)
  BY <1>2 DEF ListCommands
<1>3. ASSUME NEW d \in NameCommands PROVE ProperEvent(d)
  BY <1>3 DEF NameCommands, EVT_REMOTE_NAME_REQ_COMPLETE
<1>4. ASSUME NEW d \in RemoteCommands PROVE ProperEvent(d)
  BY <1>4 DEF RemoteCommands, EVT_READ_REMOTE_VERSION_COMPLETE,
              EVT_READ_REMOTE_FEATURES_COMPLETE,
              EVT_READ_REMOTE_EXT_FEATURES_COMPLETE,
              EVT_READ_CLOCK_OFFSET_COMPLETE
<1>5. ASSUME NEW d \in LocalCommands PROVE ProperEvent(d)
  BY <1>5 DEF LocalCommands
<1>6. ASSUME NEW d \in SettingCommands PROVE ProperEvent(d)
  BY <1>6 DEF SettingCommands
<1>7. ASSUME NEW d \in KeyCommands PROVE ProperEvent(d)
  BY <1>7 DEF KeyCommands, EVT_AUTH_COMPLETE, EVT_ENCRYPT_CHANGE,
              EVT_CHANGE_CONN_LINK_KEY_COMPLETE, EVT_ROLE_CHANGE
<1>8. ASSUME NEW d \in ModeCommands PROVE ProperEvent(d)
  BY <1>8 DEF ModeCommands, EVT_MODE_CHANGE
<1>9. ASSUME NEW d \in InquiryCommands PROVE ProperEvent(d)
  BY <1>9 DEF InquiryCommands
<1>10. ASSUME NEW d \in PairingCommands PROVE ProperEvent(d)
  BY <1>10 DEF PairingCommands
<1>11. ASSUME NEW d \in PolicyCommands PROVE ProperEvent(d)
  BY <1>11 DEF PolicyCommands
<1>12. ASSUME NEW d \in StatusCommands PROVE ProperEvent(d)
  BY <1>12 DEF StatusCommands
<1>13. ASSUME NEW d \in LeCommands PROVE ProperEvent(d)
  <2>1. EVT_LE_CONN_COMPLETE \in LeSubevents \cap AwaitedCodes
    BY DEF EVT_LE_CONN_COMPLETE
  <2>2. \A fn, ogf, ocf, clen, rlen, reads :
          /\ ProperEvent(Completes(fn, ogf, ocf, clen, rlen, reads))
          /\ ProperEvent(Awaits(fn, ogf, ocf, EVT_LE_CONN_COMPLETE,
                                clen, rlen, reads))
    BY <2>1, AwaitsProper, CompletesProper
  <2> QED
    BY <1>13, <2>2, Zenon DEF LeCommands
<1>14. ASSUME NEW d \in LeLinkCommands PROVE ProperEvent(d)
  BY <1>14 DEF LeLinkCommands, EVT_LE_CONN_UPDATE_COMPLETE,
               EVT_LE_READ_REMOTE_USED_FEATURES_COMPLETE
<1>15. ASSUME NEW d \in OtherRequests \ Commands PROVE ProperEvent(d)
  <2>1. CASE d.event = 0
    BY <2>1 DEF ProperEvent
  <2>2. CASE d.event # 0
    <3>1. PICK k \in EventKinds :
            /\ k.evt = EVT_LE_META_EVENT <=> d.le
            /\ d.event = IF d.le THEN k.sub ELSE k.evt
      BY <1>15, <2>2, RequestAssumption
    <3>2. CASE d.le
      BY <3>1, <3>2 DEF EventKinds, ProperEvent, EVT_CMD_COMPLETE,
                        EVT_CMD_STATUS, EVT_LE_META_EVENT
    <3>3. CASE ~ d.le
      BY <3>1, <3>3 DEF EventKinds, ProperEvent
    <3> QED
      BY <3>2, <3>3
  <2> QED
    BY <2>1, <2>2
<1> QED
  BY <1>1, <1>2, <1>3, <1>4, <1>5, <1>6, <1>7, <1>8, <1>9, <1>10, <1>11, <1>12,
     <1>13, <1>14, <1>15 DEF Known, Commands

LEMMA VerdictDone ==
  ASSUME NEW e, Verdict(e) = "done"
  PROVE  /\ e.evt # EVT_CMD_STATUS
         /\ e.evt = EVT_CMD_COMPLETE => e.opcode = r.cmd.opcode
         /\ e.evt = EVT_REMOTE_NAME_REQ_COMPLETE => e.dev = r.dev
         /\ e.evt = EVT_LE_META_EVENT => e.sub = r.cmd.event
         /\ e.evt \notin {EVT_CMD_COMPLETE, EVT_LE_META_EVENT} => e.evt = r.cmd.event
<1>1. /\ EVT_CMD_STATUS # EVT_CMD_COMPLETE
      /\ EVT_CMD_STATUS # EVT_REMOTE_NAME_REQ_COMPLETE
      /\ EVT_CMD_STATUS # EVT_LE_META_EVENT
      /\ EVT_CMD_COMPLETE # EVT_REMOTE_NAME_REQ_COMPLETE
      /\ EVT_CMD_COMPLETE # EVT_LE_META_EVENT
      /\ EVT_REMOTE_NAME_REQ_COMPLETE # EVT_LE_META_EVENT
  BY DEF EVT_CMD_STATUS, EVT_CMD_COMPLETE, EVT_REMOTE_NAME_REQ_COMPLETE,
         EVT_LE_META_EVENT
<1>2. e.evt # EVT_CMD_STATUS
  BY <1>1, Zenon DEF Verdict
<1>3. e.evt = EVT_CMD_COMPLETE => e.opcode = r.cmd.opcode
  BY <1>1, Zenon DEF Verdict
<1>4. e.evt = EVT_REMOTE_NAME_REQ_COMPLETE => e.dev = r.dev /\ e.evt = r.cmd.event
  BY <1>1, Zenon DEF Verdict
<1>5. e.evt = EVT_LE_META_EVENT => e.sub = r.cmd.event
  BY <1>1, Zenon DEF Verdict
<1>6. ASSUME e.evt \notin {EVT_CMD_STATUS, EVT_CMD_COMPLETE,
                          EVT_REMOTE_NAME_REQ_COMPLETE, EVT_LE_META_EVENT}
      PROVE  e.evt = r.cmd.event
  BY <1>6, Zenon DEF Verdict
<1> QED
  BY <1>2, <1>3, <1>4, <1>5, <1>6

-----------------------------------------------------------------------------
(* Packets: each completes or acknowledges a command, or is an event of a    *)
(* kind the library knows.                                                   *)

Genuine(e) ==
  \/ e.evt \in {EVT_CMD_COMPLETE, EVT_CMD_STATUS}
  \/ [evt |-> e.evt, sub |-> e.sub] \in EventKinds

Packets ==
  {e \in [evt : Nat, sub : Nat, status : {0, 1},
          opcode : {0} \cup {c.opcode : c \in Known},
          dev : {0} \cup Devices, id : Nat] : Genuine(e)}

Works == [cmd : Known, dev : {0} \cup Devices, id : Nat, busy : BOOLEAN]

(* The packet that ends a command.                                           *)
Ends(e, c) ==
  IF c.event = 0 THEN e.evt = EVT_CMD_COMPLETE
  ELSE e.evt \notin {EVT_CMD_COMPLETE, EVT_CMD_STATUS} /\ Code(e) = c.event

PacketInv ==
  /\ calls \in Nat /\ others \in Nat /\ unasked \in Seq(EventKinds)
  /\ hpc # "idle" => /\ r \in [cmd : Known, dev : {0} \cup Devices, id : Nat]
                     /\ r.id = calls /\ calls # 0
  /\ pending \subseteq Works
  /\ \A p \in pending : /\ p.id <= calls /\ (p.busy => p.cmd.event # 0)
                        /\ p.id = r.id /\ p.id # Other => p.cmd = r.cmd
  /\ queue \in Seq(Packets)
  /\ \A i \in 1 .. Len(queue) : queue[i].id <= calls
  /\ refused \subseteq 0 .. calls

LEMMA KindsAre ==
  ASSUME NEW k \in EventKinds
  PROVE  /\ k.evt \in Nat /\ k.sub \in Nat /\ Code(k) # 0
         /\ k.evt \notin {EVT_CMD_COMPLETE, EVT_CMD_STATUS}
  BY DEF EventKinds, EventCodes, LeSubevents, Code, EVT_CMD_COMPLETE,
         EVT_CMD_STATUS, EVT_LE_META_EVENT

LEMMA AnswerGenuine ==
  ASSUME NEW p \in Works, NEW status \in {0, 1}
  PROVE  /\ Event(p, EVT_CMD_COMPLETE, 0, status) \in Packets
         /\ Event(p, EVT_CMD_STATUS, 0, status) \in Packets
  BY DEF Works, Packets, Event, Genuine, EVT_CMD_COMPLETE, EVT_CMD_STATUS

LEMMA EndGenuine ==
  ASSUME NEW p \in Works, NEW status \in {0, 1}, p.cmd.event # 0,
         NEW e, e = IF p.cmd.le
                      THEN Event(p, EVT_LE_META_EVENT, p.cmd.event, status)
                      ELSE Event(p, p.cmd.event, 0, status)
  PROVE  e \in Packets /\ Ends(e, p.cmd)
<1>1. ProperEvent(p.cmd)
  BY KnownEvents DEF Works
<1> DEFINE k == [evt |-> e.evt, sub |-> e.sub]
<1>2. /\ e.opcode = p.cmd.opcode /\ e.dev = p.dev /\ e.id = p.id
      /\ e.status = status
      /\ e.evt = IF p.cmd.le THEN EVT_LE_META_EVENT ELSE p.cmd.event
      /\ e.sub = IF p.cmd.le THEN p.cmd.event ELSE 0
      /\ e = [evt |-> e.evt, sub |-> e.sub, status |-> e.status,
              opcode |-> e.opcode, dev |-> e.dev, id |-> e.id]
  BY DEF Event
<1>3. k \in EventKinds /\ Code(e) = p.cmd.event
  <2>1. CASE p.cmd.le
    BY <1>1, <1>2, <2>1 DEF ProperEvent, EventKinds, Code
  <2>2. CASE ~ p.cmd.le
    BY <1>1, <1>2, <2>2 DEF ProperEvent, EventKinds, Code
  <2> QED
    BY <2>1, <2>2
<1>4. /\ e.evt \in Nat /\ e.sub \in Nat
      /\ e.evt \notin {EVT_CMD_COMPLETE, EVT_CMD_STATUS}
  <2>1. k.evt = e.evt /\ k.sub = e.sub
    OBVIOUS
  <2> HIDE DEF k
  <2> QED
    BY <1>3, <2>1, KindsAre
<1> QED
  BY <1>2, <1>3, <1>4 DEF Works, Packets, Genuine, Ends

LEMMA DeliverKeeps ==
  ASSUME NEW e \in Packets, queue \in Seq(Packets), Deliver(e)
  PROVE  /\ queue' \in Seq(Packets)
         /\ queue' \in {queue, Append(queue, e)}
         /\ \A i \in 1 .. Len(queue') :
              \/ i \in 1 .. Len(queue) /\ queue'[i] = queue[i]
              \/ i = Len(queue) + 1 /\ queue'[i] = e
<1>1. queue' \in {queue, Append(queue, e)}
  BY DEF Deliver
<1> QED
  BY <1>1

LEMMA PacketInit == Init => PacketInv
  BY DEF Init, HciInit, PacketInv

(* Whatever the controller does for a command, it sends at most one packet,  *)
(* with the command's id; what is not an acknowledgement is the end of it.   *)
LEMMA ControllerStep ==
  ASSUME pending \subseteq Works, \A q \in pending : q.busy => q.cmd.event # 0,
         NEW p \in pending, ControllerAnswers(p) \/ ControllerFinishes(p)
  PROVE  \E e \in Packets :
           /\ Deliver(e) /\ e.id = p.id
           /\ e.evt # EVT_CMD_STATUS => Ends(e, p.cmd) /\ pending' = pending \ {p}
           /\ refused' = IF e.status = 0 THEN refused ELSE refused \cup {p.id}
           /\ \/ pending' = pending \ {p}
              \/ /\ e.status = 0 /\ p.cmd.event # 0
                 /\ \E q \in Works : /\ pending' = (pending \ {p}) \cup {q}
                                     /\ q.id = p.id /\ q.cmd = p.cmd
<1>1. p \in Works
  OBVIOUS
<1>2. CASE ControllerAnswers(p)
  <2>1. PICK status \in {0, 1} :
          /\ Refuse(p, status)
          /\ IF p.cmd.event = 0
               THEN Deliver(Event(p, EVT_CMD_COMPLETE, 0, status))
               ELSE Deliver(Event(p, EVT_CMD_STATUS, 0, status))
          /\ pending' = IF p.cmd.event # 0 /\ status = 0
                          THEN (pending \ {p}) \cup {[p EXCEPT !.busy = TRUE]}
                          ELSE pending \ {p}
    BY <1>2 DEF ControllerAnswers
  <2>2. PICK e \in Packets :
          /\ Deliver(e) /\ e.id = p.id /\ e.status = status
          /\ e.evt = IF p.cmd.event = 0 THEN EVT_CMD_COMPLETE ELSE EVT_CMD_STATUS
    <3>1. CASE p.cmd.event = 0
      BY <1>1, <2>1, <3>1, AnswerGenuine DEF Event
    <3>2. CASE p.cmd.event # 0
      BY <1>1, <2>1, <3>2, AnswerGenuine DEF Event
    <3> QED
      BY <3>1, <3>2
  <2>3. /\ [p EXCEPT !.busy = TRUE] \in Works
        /\ [p EXCEPT !.busy = TRUE].id = p.id
        /\ [p EXCEPT !.busy = TRUE].cmd = p.cmd
    BY <1>1 DEF Works
  <2>4. refused' = IF e.status = 0 THEN refused ELSE refused \cup {p.id}
    BY <2>1, <2>2 DEF Refuse
  <2>5. e.evt # EVT_CMD_STATUS => Ends(e, p.cmd) /\ pending' = pending \ {p}
    BY <2>1, <2>2 DEF Ends
  <2> HIDE DEF Deliver
  <2>6. \/ pending' = pending \ {p}
        \/ /\ e.status = 0 /\ p.cmd.event # 0
           /\ pending' = (pending \ {p}) \cup {[p EXCEPT !.busy = TRUE]}
    BY <2>1, <2>2
  <2> QED
    BY <2>2, <2>3, <2>4, <2>5, <2>6
<1>3. CASE ControllerFinishes(p)
  <2>1. PICK status \in {0, 1} :
          /\ Refuse(p, status)
          /\ IF p.cmd.le
               THEN Deliver(Event(p, EVT_LE_META_EVENT, p.cmd.event, status))
               ELSE Deliver(Event(p, p.cmd.event, 0, status))
    BY <1>3 DEF ControllerFinishes
  <2>2. pending' = pending \ {p} /\ p.cmd.event # 0
    BY <1>3 DEF ControllerFinishes
  <2> DEFINE e == IF p.cmd.le
                    THEN Event(p, EVT_LE_META_EVENT, p.cmd.event, status)
                    ELSE Event(p, p.cmd.event, 0, status)
  <2>3. e.id = p.id /\ e.status = status
    BY DEF Event
  <2>4. Deliver(e)
    BY <2>1
  <2>5. e \in Packets /\ Ends(e, p.cmd)
    <3> HIDE DEF e
    <3>1. e = IF p.cmd.le
                THEN Event(p, EVT_LE_META_EVENT, p.cmd.event, status)
                ELSE Event(p, p.cmd.event, 0, status)
      BY DEF e
    <3> QED
      BY <1>1, <2>2, <3>1, EndGenuine
  <2>6. refused' = IF e.status = 0 THEN refused ELSE refused \cup {p.id}
    <3> HIDE DEF e
    <3> QED
      BY <2>1, <2>3 DEF Refuse
  <2> HIDE DEF e
  <2> QED
    BY <2>2, <2>3, <2>4, <2>5, <2>6
<1> QED
  BY <1>2, <1>3

(* The frame of the controller's steps.                                      *)
LEMMA ControllerKeeps ==
  ASSUME Controller
  PROVE  UNCHANGED <<hpc, r, filter, of, to, try, answer, gaveUp, returned,
                     userFilter, calls>>
  BY DEF Controller, ControllerAnswers, ControllerFinishes, OtherProcessSends,
         ControllerReports, clientVars

LEMMA PacketController ==
  ASSUME PacketInv, NEW p \in pending,
         ControllerAnswers(p) \/ ControllerFinishes(p)
  PROVE  PacketInv'
<1>1. /\ p \in Works /\ p.id \in 0 .. calls
      /\ p.id = r.id /\ p.id # Other => p.cmd = r.cmd
  BY DEF PacketInv, Works
<1>2. UNCHANGED <<hpc, r, calls, others, unasked>>
  BY DEF ControllerAnswers, ControllerFinishes, clientVars
<1>3. PICK e \in Packets :
        /\ Deliver(e) /\ e.id = p.id
        /\ refused' = IF e.status = 0 THEN refused ELSE refused \cup {p.id}
        /\ \/ pending' = pending \ {p}
           \/ /\ p.cmd.event # 0
              /\ \E q \in Works : /\ pending' = (pending \ {p}) \cup {q}
                                  /\ q.id = p.id /\ q.cmd = p.cmd
  BY ControllerStep DEF PacketInv
<1>4. queue' \in Seq(Packets) /\ \A i \in 1 .. Len(queue') : queue'[i].id <= calls
  BY <1>1, <1>3, DeliverKeeps DEF PacketInv
<1>5. refused' \subseteq 0 .. calls
  BY <1>1, <1>3 DEF PacketInv
<1>6. \A q \in pending' :
        /\ q \in Works /\ q.id <= calls /\ (q.busy => q.cmd.event # 0)
        /\ q.id = r.id /\ q.id # Other => q.cmd = r.cmd
  BY <1>1, <1>3 DEF PacketInv
<1> QED
  BY <1>2, <1>4, <1>5, <1>6 DEF PacketInv

LEMMA PacketOthers ==
  ASSUME PacketInv, NEW c \in OtherRequests, NEW d \in About(c),
         OtherProcessSends(c, d)
  PROVE  PacketInv'
<1> DEFINE w == [cmd |-> c, dev |-> d, id |-> Other, busy |-> FALSE]
<1>1. c \in Known /\ d \in {0} \cup Devices
  BY DEF Known, About
<1>2. w \in Works /\ w.id = 0 /\ w.id = Other /\ ~ w.busy
  BY <1>1 DEF Works, Other
<1>3. /\ UNCHANGED <<hpc, r, queue, calls, unasked, refused>>
      /\ others' = others + 1
      /\ pending' = pending \cup {w}
  BY DEF OtherProcessSends, clientVars
<1> HIDE DEF w
<1> QED
  BY <1>2, <1>3 DEF PacketInv

(* An event nobody asked for.                                                *)
LEMMA ReportGenuine ==
  ASSUME NEW k \in Unsolicited, NEW d \in Concerns(k), NEW status \in {0, 1},
         NEW e, e = [evt |-> k.evt, sub |-> k.sub, status |-> status,
                     opcode |-> 0, dev |-> d, id |-> Other]
  PROVE  e \in Packets /\ e.id = Other /\ Code(e) = Code(k) /\ k \in EventKinds
         /\ e.evt \notin {EVT_CMD_COMPLETE, EVT_CMD_STATUS}
<1>1. /\ k \in EventKinds /\ k.evt \in Nat /\ k.sub \in Nat
      /\ k.evt \notin {EVT_CMD_COMPLETE, EVT_CMD_STATUS}
  BY RequestAssumption, KindsAre
<1>2. k = [evt |-> k.evt, sub |-> k.sub]
  BY <1>1 DEF EventKinds
<1>3. d \in {0} \cup Devices
  BY DEF Concerns
<1> QED
  BY <1>1, <1>2, <1>3 DEF Packets, Genuine, Code, Other

LEMMA PacketReports ==
  ASSUME PacketInv, NEW k \in Unsolicited, NEW d \in Concerns(k),
         ControllerReports(k, d)
  PROVE  PacketInv'
<1>1. /\ UNCHANGED <<hpc, r, pending, calls, others, refused>>
      /\ unasked' = Append(unasked, k)
  BY DEF ControllerReports, clientVars
<1>2. PICK e \in Packets : Deliver(e) /\ e.id = 0
  BY ReportGenuine DEF ControllerReports, Other
<1>3. queue' \in Seq(Packets) /\ \A i \in 1 .. Len(queue') : queue'[i].id <= calls
  BY <1>2, DeliverKeeps DEF PacketInv
<1>4. unasked' \in Seq(EventKinds)
  BY <1>1, RequestAssumption DEF PacketInv
<1> QED
  BY <1>1, <1>3, <1>4 DEF PacketInv

LEMMA PacketCall ==
  ASSUME PacketInv, NEW c \in Requests, NEW t \in Timeouts, NEW d \in About(c),
         Call(c, d, t)
  PROVE  PacketInv'
<1>1. c \in Known /\ d \in {0} \cup Devices
  BY RequestAssumption DEF Known, About
<1>2. /\ calls' = calls + 1 /\ calls' \in Nat /\ calls' # 0
      /\ r' = [cmd |-> c, dev |-> d, id |-> calls']
      /\ UNCHANGED <<queue, pending, others, unasked, refused>>
  BY DEF Call, PacketInv
<1>3. r' \in [cmd : Known, dev : {0} \cup Devices, id : Nat] /\ r'.id = calls'
  BY <1>1, <1>2
<1>4. \A p \in pending : p.id <= calls' /\ p.id # r'.id
  BY <1>2, <1>3 DEF PacketInv, Works
<1>5. refused \subseteq 0 .. calls'
  BY <1>2 DEF PacketInv
<1>6. \A i \in 1 .. Len(queue) : queue[i].id <= calls'
  <2>1. \A i \in 1 .. Len(queue) : queue[i].id \in Nat
    BY DEF PacketInv, Packets
  <2> QED
    BY <1>2, <2>1 DEF PacketInv
<1> QED
  BY <1>2, <1>3, <1>4, <1>5, <1>6 DEF PacketInv

LEMMA PacketSend ==
  ASSUME PacketInv, hci_send_cmd
  PROVE  PacketInv'
<1> DEFINE w == [cmd |-> r.cmd, dev |-> r.dev, id |-> r.id, busy |-> FALSE]
<1>1. w \in Works /\ w.id = calls /\ ~ w.busy /\ w.cmd = r.cmd
  BY DEF PacketInv, Works, hci_send_cmd
<1>2. /\ hpc = "send" /\ hpc' # "idle"
      /\ UNCHANGED <<r, queue, calls, others, unasked, refused>>
      /\ pending' \subseteq pending \cup {w}
  BY DEF hci_send_cmd
<1> HIDE DEF w
<1>3. \A p \in pending' :
        /\ p \in Works /\ p.id <= calls /\ (p.busy => p.cmd.event # 0)
        /\ p.id = r.id /\ p.id # Other => p.cmd = r.cmd
  BY <1>1, <1>2 DEF PacketInv
<1> QED
  BY <1>2, <1>3 DEF PacketInv

LEMMA PacketStep == PacketInv /\ FilterInv /\ HciNext => PacketInv'
<1> SUFFICES ASSUME PacketInv, FilterInv, HciNext PROVE PacketInv'
  OBVIOUS
<1>1. CASE Poll \/ SocketFails
  BY <1>1 DEF Poll, SocketFails, PacketInv
<1>2. CASE ReadPacket
  <2>1. /\ hpc = "read" /\ queue # <<>> /\ queue' = Tail(queue)
        /\ UNCHANGED <<r, pending, calls, others, unasked, refused>>
    BY <1>2 DEF ReadPacket
  <2>2. /\ queue' \in Seq(Packets)
        /\ \A i \in 1 .. Len(queue') : i + 1 \in 1 .. Len(queue)
                                       /\ queue'[i] = queue[i + 1]
    BY <2>1 DEF PacketInv
  <2> QED
    BY <2>1, <2>2 DEF PacketInv
<1>3. CASE Return
  BY <1>3 DEF Return, LeaveCall, PacketInv
<1>4. CASE Controller
  BY <1>4, PacketController, PacketOthers, PacketReports DEF Controller
<1> QED
  BY <1>1, <1>2, <1>3, <1>4, PacketCall, PacketSend DEF HciNext, hci_send_req

-----------------------------------------------------------------------------
(* The kind of the answer.                                                   *)

LEMMA KindTaken ==
  ASSUME PacketInv, FilterInv, ReadPacket, hpc' = "done"
  PROVE  AnswerOfAskedKind'
<1> DEFINE e == Head(queue)
<1>1. /\ hpc = "read" /\ r' = r /\ answer' = <<e>> /\ Verdict(e) = "done"
  BY DEF ReadPacket
<1>2. e \in Packets
  BY DEF ReadPacket, PacketInv
<1>3. /\ e.evt = EVT_CMD_COMPLETE => e.opcode = r.cmd.opcode
      /\ e.evt = EVT_REMOTE_NAME_REQ_COMPLETE => e.dev = r.dev
      /\ e.evt = EVT_LE_META_EVENT => e.sub = r.cmd.event
      /\ e.evt \notin {EVT_CMD_COMPLETE, EVT_LE_META_EVENT} => e.evt = r.cmd.event
      /\ e.evt # EVT_CMD_STATUS
  BY <1>1, VerdictDone
<1> HIDE DEF e
<1>4. SUFFICES ASSUME ~ Ambiguous(r.cmd),
                      e.evt # EVT_CMD_COMPLETE
               PROVE  r.cmd.le <=> e.evt = EVT_LE_META_EVENT
  <2>1. answer'[1] = e
    BY <1>1
  <2> QED
    BY <1>1, <1>3, <1>4, <2>1 DEF AnswerOfAskedKind, Ambiguous
<1>5. /\ e.evt = EVT_LE_META_EVENT => e.sub \in LeSubevents
      /\ e.evt # EVT_LE_META_EVENT => e.evt \in EventCodes
  BY <1>2, <1>3, <1>4 DEF Packets, Genuine, EventKinds
<1> QED
  BY <1>3, <1>4, <1>5 DEF Ambiguous

LEMMA KindStep ==
  AnswerOfAskedKind /\ PacketInv /\ FilterInv /\ HciNext => AnswerOfAskedKind'
<1> SUFFICES ASSUME AnswerOfAskedKind, PacketInv, FilterInv, HciNext
             PROVE  AnswerOfAskedKind'
  OBVIOUS
<1>1. ASSUME NEW c \in Requests, NEW t \in Timeouts, NEW d \in About(c), Call(c, d, t)
      PROVE  hpc' # "done"
  BY <1>1 DEF Call
<1>2. CASE hci_send_cmd \/ Poll \/ Return \/ SocketFails
  <2>1. hpc' # "done"
    BY <1>2 DEF hci_send_cmd, Poll, Return, LeaveCall, SocketFails
  <2> QED
    BY <2>1 DEF AnswerOfAskedKind
<1>3. CASE Controller
  BY <1>3, ControllerKeeps DEF AnswerOfAskedKind, Ambiguous
<1>4. CASE ReadPacket
  BY <1>4, KindTaken DEF AnswerOfAskedKind
<1>5. hpc' # "done" => AnswerOfAskedKind'
  BY DEF AnswerOfAskedKind
<1> QED
  BY <1>1, <1>2, <1>3, <1>4, <1>5 DEF HciNext, hci_send_req

-----------------------------------------------------------------------------
(* The one answer. Before any call has given up or another process has sent  *)
(* anything, what a call may take for its answer is its own end or an event  *)
(* with the awaited code that was reported unasked. A call that such an      *)
(* event has misled leaves its own answer behind for later calls, but that   *)
(* answer has a code that was reported unasked too: it misleads no other.    *)

Quiet == others = 0 /\ ~ gaveUp

Reported(code) == \E i \in DOMAIN unasked : Code(unasked[i]) = code

(* What no call takes for an answer, unless it is misled.                    *)
Harmless(e) ==
  \/ e.evt = EVT_CMD_STATUS
  \/ e.evt # EVT_CMD_COMPLETE /\ Reported(Code(e))

LeftOver ==
  /\ \A p \in pending : Reported(p.cmd.event)
  /\ \A i \in 1 .. Len(queue) : Harmless(queue[i])

(* During a call there are besides the command and its end.                  *)
Mixed ==
  /\ \A p \in pending : p.id = r.id \/ Reported(p.cmd.event)
  /\ \A i \in 1 .. Len(queue) :
       Harmless(queue[i]) \/ (queue[i].id = r.id /\ Ends(queue[i], r.cmd))

(* The controller works on the command, and has not refused it, or has sent  *)
(* its end, and then nothing more.                                           *)
OneEnd ==
  /\ \A p, q \in pending : p.id = r.id /\ q.id = r.id => p = q
  /\ \A p \in pending : p.id = r.id => r.id \notin refused
  /\ \A i \in 1 .. Len(queue) :
       queue[i].id = r.id /\ queue[i].evt # EVT_CMD_STATUS =>
         /\ \A p \in pending : p.id # r.id
         /\ \A j \in 1 .. Len(queue) :
              j # i => queue[j].id # r.id \/ queue[j].evt = EVT_CMD_STATUS
         /\ queue[i].status = 0 => r.id \notin refused

QuietInv ==
  /\ returned => hpc = "idle" /\ r.id # Other
  /\ Quiet =>
       /\ \A p \in pending : p.id # Other
       /\ hpc \in {"idle", "send", "done"} => LeftOver
       /\ hpc = "send" => /\ r.id \notin refused
                          /\ \A p \in pending : p.id # r.id
                          /\ \A i \in 1 .. Len(queue) : queue[i].id # r.id
       /\ hpc \in {"poll", "read"} => Mixed /\ OneEnd
       /\ hpc = "done" /\ ~ Misled(r.cmd) =>
            /\ answer[1].id = r.id
            /\ answer[1].status = 0 => r.id \notin refused
       /\ returned /\ ChecksStatus(r.cmd) /\ ~ Misled(r.cmd) => r.id \notin refused

LEMMA MisledIsReported ==
  ASSUME NEW c
  PROVE  Misled(c) <=> Reported(c.event)
  BY DEF Misled, Reported

(* Nothing waits for the code 0.                                             *)
LEMMA ReportedIsProper ==
  ASSUME PacketInv
  PROVE  ~ Reported(0)
<1>1. \A i \in DOMAIN unasked : unasked[i] \in EventKinds
  BY DEF PacketInv
<1> QED
  BY <1>1, KindsAre DEF Reported

LEMMA QuietInit == Init => QuietInv
  BY DEF Init, HciInit, QuietInv, LeftOver

(* A call's id is new.                                                       *)
LEMMA QuietCall ==
  ASSUME QuietInv, PacketInv, NEW c \in Requests, NEW t \in Timeouts,
         NEW d \in About(c), Call(c, d, t)
  PROVE  QuietInv'
<1>1. /\ hpc = "idle" /\ hpc' = "send" /\ returned' = FALSE
      /\ r'.id = calls + 1
      /\ UNCHANGED <<queue, pending, others, unasked, gaveUp, refused>>
  BY DEF Call
<1>2. /\ r'.id \notin refused
      /\ \A p \in pending : p.id # r'.id
      /\ \A i \in 1 .. Len(queue) : queue[i].id # r'.id
  <2>1. \A i \in 1 .. Len(queue) : queue[i].id \in Nat
    BY DEF PacketInv, Packets
  <2> QED
    BY <1>1, <2>1 DEF PacketInv, Works
<1>3. LeftOver => LeftOver'
  BY <1>1 DEF LeftOver, Harmless, Reported
<1> QED
  BY <1>1, <1>2, <1>3 DEF QuietInv, Quiet

LEMMA QuietSend ==
  ASSUME QuietInv, PacketInv, hci_send_cmd
  PROVE  QuietInv'
<1> DEFINE w == [cmd |-> r.cmd, dev |-> r.dev, id |-> r.id, busy |-> FALSE]
<1>1. /\ hpc = "send"
      /\ UNCHANGED <<r, queue, others, unasked, gaveUp, refused, returned>>
      /\ \/ hpc' = "poll" /\ pending' = pending \cup {w}
         \/ hpc' = "failed" /\ UNCHANGED pending
  BY DEF hci_send_cmd
<1>2. w.id = r.id /\ r.id # Other
  BY <1>1 DEF PacketInv, Other
<1> HIDE DEF w
<1>3. ASSUME Quiet, hpc' = "poll" PROVE Mixed' /\ OneEnd'
  <2>1. /\ LeftOver /\ r.id \notin refused
        /\ \A p \in pending : p.id # r.id
        /\ \A i \in 1 .. Len(queue) : queue[i].id # r.id
    BY <1>1, <1>3 DEF QuietInv
  <2>2. pending' = pending \cup {w}
    BY <1>1, <1>3
  <2>3. Mixed'
    BY <1>1, <1>2, <2>1, <2>2 DEF Mixed, LeftOver, Harmless, Reported
  <2>4. OneEnd'
    BY <1>1, <1>2, <2>1, <2>2 DEF OneEnd
  <2> QED
    BY <2>3, <2>4
<1>4. (Quiet' <=> Quiet) /\ ~ returned'
  BY <1>1 DEF Quiet, QuietInv
<1> QED
  BY <1>1, <1>2, <1>3, <1>4 DEF QuietInv

LEMMA QuietWaits ==
  ASSUME QuietInv, Poll \/ SocketFails
  PROVE  QuietInv'
<1>1. /\ hpc \in {"poll", "read"} /\ hpc' \in {"read", "failed"}
      /\ UNCHANGED <<r, queue, pending, others, unasked, gaveUp, refused, returned>>
  BY DEF Poll, SocketFails
<1>2. (Mixed => Mixed') /\ (OneEnd => OneEnd')
  BY <1>1 DEF Mixed, OneEnd, Harmless, Reported
<1> QED
  BY <1>1, <1>2 DEF QuietInv, Quiet

(* The packet taken is the command's end, or the call is misled.             *)
LEMMA QuietRead ==
  ASSUME QuietInv, PacketInv, ReadPacket
  PROVE  QuietInv'
<1> DEFINE e == Head(queue)
<1>1. /\ hpc = "read" /\ queue # <<>> /\ queue' = Tail(queue)
      /\ hpc' = Verdict(e)
      /\ answer' = IF hpc' = "done" THEN <<e>> ELSE <<>>
      /\ UNCHANGED <<r, pending, others, unasked, gaveUp, refused, returned>>
  BY DEF ReadPacket
<1>2. /\ queue \in Seq(Packets) /\ Len(queue) \in Nat \ {0}
      /\ Len(queue') = Len(queue) - 1
      /\ \A i \in 1 .. Len(queue') : queue'[i] = queue[i + 1]
      /\ \A i \in 1 .. Len(queue') : i + 1 \in 1 .. Len(queue) /\ i + 1 # 1
      /\ e = queue[1] /\ 1 \in 1 .. Len(queue)
  BY <1>1 DEF PacketInv
<1> HIDE DEF e
<1>3. SUFFICES ASSUME Quiet, Mixed, OneEnd
               PROVE  /\ hpc' = "poll" => Mixed' /\ OneEnd'
                      /\ hpc' = "done" =>
                           /\ LeftOver'
                           /\ ~ Misled(r.cmd) =>
                                /\ answer'[1].id = r.id
                                /\ answer'[1].status = 0 => r.id \notin refused
  <2>1. hpc' \in {"poll", "done", "failed"}
    BY <1>1, VerdictRange
  <2>2. ~ returned' /\ (Quiet' <=> Quiet) /\ (Quiet => Mixed /\ OneEnd)
    BY <1>1 DEF QuietInv, Quiet
  <2>3. Misled(r.cmd)' <=> Misled(r.cmd)
    BY <1>1 DEF Misled
  <2>4. Quiet => \A p \in pending : p.id # Other
    BY DEF QuietInv
  <2> QED
    BY <1>1, <1>3, <2>1, <2>2, <2>3, <2>4 DEF QuietInv
<1>4. Mixed'
  <2>1. \A x : Harmless(x)' <=> Harmless(x)
    BY <1>1 DEF Harmless, Reported
  <2>2. \A c : Reported(c)' <=> Reported(c)
    BY <1>1 DEF Reported
  <2>3. \A i \in 1 .. Len(queue') :
          \/ Harmless(queue'[i])
          \/ queue'[i].id = r.id /\ Ends(queue'[i], r.cmd)
    BY <1>2, <1>3 DEF Mixed
  <2> QED
    BY <1>1, <1>3, <2>1, <2>2, <2>3 DEF Mixed
<1>5. OneEnd'
  <2>1. ASSUME NEW i \in 1 .. Len(queue'),
               queue'[i].id = r.id, queue'[i].evt # EVT_CMD_STATUS
        PROVE  /\ \A p \in pending : p.id # r.id
               /\ \A j \in 1 .. Len(queue') :
                    j # i => queue'[j].id # r.id \/ queue'[j].evt = EVT_CMD_STATUS
               /\ queue'[i].status = 0 => r.id \notin refused
    <3>1. queue'[i] = queue[i + 1] /\ i + 1 \in 1 .. Len(queue)
      BY <1>2
    <3>2. /\ \A p \in pending : p.id # r.id
          /\ \A j \in 1 .. Len(queue) :
               j # i + 1 => queue[j].id # r.id \/ queue[j].evt = EVT_CMD_STATUS
          /\ queue[i + 1].status = 0 => r.id \notin refused
      BY <1>3, <2>1, <3>1 DEF OneEnd
    <3>3. ASSUME NEW j \in 1 .. Len(queue'), j # i
          PROVE  queue'[j].id # r.id \/ queue'[j].evt = EVT_CMD_STATUS
      <4>1. queue'[j] = queue[j + 1] /\ j + 1 \in 1 .. Len(queue) /\ j + 1 # i + 1
        BY <1>2, <3>3
      <4> QED
        BY <3>2, <4>1
    <3> QED
      BY <3>1, <3>2, <3>3
  <2> QED
    BY <1>1, <1>3, <2>1 DEF OneEnd
<1>6. ASSUME hpc' = "done"
      PROVE  /\ LeftOver'
             /\ ~ Misled(r.cmd) => /\ answer'[1].id = r.id
                                   /\ answer'[1].status = 0 => r.id \notin refused
  <2>1. /\ e.evt # EVT_CMD_STATUS
        /\ e.evt # EVT_CMD_COMPLETE => Code(e) = r.cmd.event
    BY <1>1, <1>6, VerdictDone DEF Code
  <2>2. answer'[1] = e
    BY <1>1, <1>6
  <2>3. \A p \in pending : p.id = r.id => p.cmd = r.cmd
    BY <1>1, <1>3 DEF PacketInv, QuietInv
  <2>4. ASSUME NEW x, Ends(x, r.cmd), Reported(r.cmd.event) PROVE Harmless(x)
    <3>1. r.cmd.event # 0
      BY <2>4, ReportedIsProper
    <3> QED
      BY <2>4, <3>1 DEF Ends, Harmless
  <2>5. CASE Reported(r.cmd.event)
    <3>1. LeftOver'
      <4>1. \A p \in pending : Reported(p.cmd.event)
        BY <1>3, <2>3, <2>5 DEF Mixed
      <4>2. \A i \in 1 .. Len(queue') : Harmless(queue'[i])
        BY <1>2, <1>3, <2>4, <2>5 DEF Mixed
      <4> QED
        BY <1>1, <4>1, <4>2 DEF LeftOver, Harmless, Reported
    <3>2. Misled(r.cmd)
      BY <2>5, MisledIsReported
    <3> QED
      BY <3>1, <3>2
  <2>6. CASE ~ Reported(r.cmd.event)
    <3>1. ~ Harmless(e)
      BY <2>1, <2>6 DEF Harmless
    <3>2. e.id = r.id
      BY <1>2, <1>3, <3>1 DEF Mixed
    <3>3. /\ \A p \in pending : p.id # r.id
          /\ \A j \in 1 .. Len(queue) :
               j # 1 => queue[j].id # r.id \/ queue[j].evt = EVT_CMD_STATUS
          /\ e.status = 0 => r.id \notin refused
      BY <1>2, <1>3, <2>1, <3>2 DEF OneEnd
    <3>4. \A p \in pending : Reported(p.cmd.event)
      BY <1>3, <3>3 DEF Mixed
    <3>5. ASSUME NEW j \in 1 .. Len(queue), j # 1 PROVE Harmless(queue[j])
      BY <1>3, <3>3, <3>5 DEF Mixed, Harmless
    <3>6. \A i \in 1 .. Len(queue') : Harmless(queue'[i])
      BY <1>2, <3>5
    <3>7. LeftOver'
      BY <1>1, <3>4, <3>6 DEF LeftOver, Harmless, Reported
    <3> QED
      BY <2>2, <3>2, <3>3, <3>7
  <2> QED
    BY <2>5, <2>6
<1> QED
  BY <1>4, <1>5, <1>6

LEMMA QuietReturn ==
  ASSUME QuietInv, PacketInv, Return
  PROVE  QuietInv'
<1>1. /\ hpc \in {"failed", "done"} /\ hpc' = "idle"
      /\ UNCHANGED <<r, queue, pending, others, unasked, refused>>
  BY DEF Return, LeaveCall
<1>2. gaveUp' <=> gaveUp \/ hpc = "failed"
  BY Zenon DEF Return
<1>3. returned' => (ChecksStatus(r.cmd) => answer[1].status = 0)
  BY Zenon DEF Return
<1>4. r.id # Other
  BY <1>1 DEF PacketInv, Other
<1>5. CASE hpc = "failed"
  <2>1. ~ Quiet'
    BY <1>2, <1>5, Zenon DEF Quiet
  <2> QED
    BY <1>1, <1>4, <2>1 DEF QuietInv
<1>6. CASE hpc = "done"
  <2>1. Quiet' => Quiet
    BY <1>1, <1>2, Zenon DEF Quiet
  <2>2. Quiet => LeftOver' /\ \A p \in pending' : p.id # Other
    BY <1>1, <1>6 DEF QuietInv, LeftOver, Harmless, Reported
  <2>3. Misled(r.cmd)' <=> Misled(r.cmd)
    BY <1>1 DEF Misled
  <2>4. Quiet /\ ~ Misled(r.cmd) /\ answer[1].status = 0 => r.id \notin refused
    BY <1>6 DEF QuietInv
  <2>5. returned' /\ ChecksStatus(r.cmd) => answer[1].status = 0
    BY <1>3, Zenon
  <2>6. Quiet' /\ returned' /\ ChecksStatus(r.cmd)' /\ ~ Misled(r.cmd)'
          => r'.id \notin refused'
    BY <1>1, <2>1, <2>3, <2>4, <2>5 DEF ChecksStatus
  <2> QED
    BY <1>1, <1>4, <2>1, <2>2, <2>6 DEF QuietInv
<1> QED
  BY <1>1, <1>5, <1>6

(* The controller's steps, when it works on p.                               *)
LEMMA QuietController ==
  ASSUME QuietInv, PacketInv, FilterInv,
         NEW p \in pending, ControllerAnswers(p) \/ ControllerFinishes(p)
  PROVE  QuietInv'
<1>1. UNCHANGED <<hpc, r, answer, gaveUp, returned, others, unasked>>
  BY DEF ControllerAnswers, ControllerFinishes, clientVars
<1>2. PICK e \in Packets :
        /\ Deliver(e) /\ e.id = p.id
        /\ e.evt # EVT_CMD_STATUS => Ends(e, p.cmd) /\ pending' = pending \ {p}
        /\ refused' = IF e.status = 0 THEN refused ELSE refused \cup {p.id}
        /\ \/ pending' = pending \ {p}
           \/ /\ e.status = 0 /\ p.cmd.event # 0
              /\ \E q \in Works : /\ pending' = (pending \ {p}) \cup {q}
                                  /\ q.id = p.id /\ q.cmd = p.cmd
  BY ControllerStep DEF PacketInv
<1>3. \A q \in pending' : \/ q \in pending /\ q # p
                          \/ q.id = p.id /\ q.cmd = p.cmd /\ e.status = 0
  BY <1>2
<1>4. \A i \in 1 .. Len(queue') :
        \/ i \in 1 .. Len(queue) /\ queue'[i] = queue[i]
        \/ i = Len(queue) + 1 /\ queue'[i] = e
  BY <1>2, DeliverKeeps DEF PacketInv
<1>5. /\ \A x : Harmless(x)' <=> Harmless(x)
      /\ \A c : Reported(c)' <=> Reported(c)
      /\ Misled(r.cmd)' <=> Misled(r.cmd)
      /\ Quiet' <=> Quiet
  BY <1>1 DEF Harmless, Reported, Misled, Quiet
<1>6. Reported(p.cmd.event) => Harmless(e)
  <2>1. SUFFICES ASSUME Reported(p.cmd.event), e.evt # EVT_CMD_STATUS PROVE Harmless(e)
    BY DEF Harmless
  <2>2. p.cmd.event # 0
    BY <2>1, ReportedIsProper
  <2> QED
    BY <1>2, <2>1, <2>2 DEF Ends, Harmless
<1>7. LeftOver => LeftOver'
  <2>1. SUFFICES ASSUME LeftOver PROVE LeftOver'
    OBVIOUS
  <2>2. Harmless(e)
    BY <1>6, <2>1 DEF LeftOver
  <2>3. \A q \in pending' : Reported(q.cmd.event)
    BY <1>3, <2>1 DEF LeftOver
  <2>4. \A i \in 1 .. Len(queue') : Harmless(queue'[i])
    BY <1>4, <2>1, <2>2 DEF LeftOver
  <2> QED
    BY <1>5, <2>3, <2>4 DEF LeftOver
<1>8. ASSUME Quiet, hpc \in {"poll", "read"} PROVE Mixed' /\ OneEnd'
  <2>1. Mixed /\ OneEnd /\ r.id # Other /\ (p.id = r.id => p.cmd = r.cmd)
    BY <1>8 DEF QuietInv, PacketInv, Other
  <2>2. Harmless(e) \/ (e.id = r.id /\ Ends(e, r.cmd))
    <3>1. CASE p.id = r.id
      BY <1>2, <2>1, <3>1 DEF Harmless
    <3>2. CASE p.id # r.id
      BY <1>6, <2>1, <3>2 DEF Mixed
    <3> QED
      BY <3>1, <3>2
  <2>3. Mixed'
    <3>1. \A q \in pending' : q.id = r.id \/ Reported(q.cmd.event)
      BY <1>3, <2>1 DEF Mixed
    <3>2. \A i \in 1 .. Len(queue') :
            Harmless(queue'[i]) \/ (queue'[i].id = r.id /\ Ends(queue'[i], r.cmd))
      BY <1>4, <2>1, <2>2 DEF Mixed
    <3> QED
      BY <1>1, <1>5, <3>1, <3>2 DEF Mixed
  <2>4. OneEnd'
    <3>1. ASSUME p.id # r.id PROVE OneEnd'
      <4>1. r.id \in refused' => r.id \in refused
        BY <1>2, <3>1
      <4>2. \A q \in pending' : q.id = r.id => q \in pending
        BY <1>3, <3>1
      <4>3. \A i \in 1 .. Len(queue') :
              queue'[i].id = r.id => i \in 1 .. Len(queue) /\ queue'[i] = queue[i]
        BY <1>2, <1>4, <3>1
      <4> QED
        BY <1>1, <2>1, <4>1, <4>2, <4>3 DEF OneEnd
    <3>2. ASSUME p.id = r.id PROVE OneEnd'
      <4>1. r.id \notin refused /\ \A q \in pending : q.id = r.id => q = p
        BY <2>1, <3>2 DEF OneEnd
      <4>2. \A i \in 1 .. Len(queue) :
              queue[i].id = r.id => queue[i].evt = EVT_CMD_STATUS
        BY <2>1, <3>2 DEF OneEnd
      <4>3. e.status = 0 => r.id \notin refused'
        BY <1>2, <4>1
      <4>4. CASE pending' = pending \ {p}
        <5>1. \A q \in pending' : q.id # r.id
          BY <4>1, <4>4
        <5>2. \A i \in 1 .. Len(queue') :
                queue'[i].id = r.id /\ queue'[i].evt # EVT_CMD_STATUS
                  => i = Len(queue) + 1 /\ queue'[i] = e
          BY <1>4, <4>2
        <5> QED
          BY <1>1, <4>3, <5>1, <5>2 DEF OneEnd
      <4>5. CASE pending' # pending \ {p}
        <5>1. e.evt = EVT_CMD_STATUS /\ e.status = 0
          BY <1>2, <4>5
        <5>2. \A i \in 1 .. Len(queue') :
                queue'[i].id = r.id => queue'[i].evt = EVT_CMD_STATUS
          BY <1>4, <4>2, <5>1
        <5>3. PICK q \in Works : pending' = (pending \ {p}) \cup {q}
          BY <1>2, <4>5
        <5>4. \A x \in pending' : x.id = r.id => x = q
          BY <4>1, <5>3
        <5> QED
          BY <1>1, <4>3, <5>1, <5>2, <5>4 DEF OneEnd
      <4> QED
        BY <4>4, <4>5
    <3> QED
      BY <3>1, <3>2
  <2> QED
    BY <2>3, <2>4
<1>9. ASSUME Quiet, hpc = "send"
      PROVE  /\ r.id \notin refused'
             /\ \A q \in pending' : q.id # r.id
             /\ \A i \in 1 .. Len(queue') : queue'[i].id # r.id
  <2>1. /\ r.id \notin refused /\ p.id # r.id
        /\ \A q \in pending : q.id # r.id
        /\ \A i \in 1 .. Len(queue) : queue[i].id # r.id
    BY <1>9 DEF QuietInv
  <2> QED
    BY <1>2, <1>3, <1>4, <2>1
<1>10. ASSUME Quiet, hpc \in {"idle", "done"}, r.id # Other, ~ Misled(r.cmd)
       PROVE  r.id \in refused' => r.id \in refused
  <2>1. Reported(p.cmd.event) /\ ~ Reported(r.cmd.event)
    BY <1>10, MisledIsReported DEF QuietInv, LeftOver
  <2>2. p.id # r.id
    BY <1>10, <2>1 DEF PacketInv
  <2> QED
    BY <1>2, <2>2
<1>11. Quiet => \A q \in pending' : q.id # Other
  BY <1>3 DEF QuietInv
<1>12. hpc = "done" => r.id # Other
  BY DEF PacketInv, Other
<1>13. ASSUME Quiet, hpc = "done", ~ Misled(r.cmd)
       PROVE  answer[1].id = r.id /\ (answer[1].status = 0 => r.id \notin refused')
  BY <1>10, <1>12, <1>13 DEF QuietInv
<1>14. ASSUME Quiet, returned, ChecksStatus(r.cmd), ~ Misled(r.cmd)
       PROVE  r.id \notin refused'
  BY <1>10, <1>14 DEF QuietInv
<1>15. ChecksStatus(r.cmd)' <=> ChecksStatus(r.cmd)
  BY <1>1 DEF ChecksStatus
<1> QED
  BY <1>1, <1>5, <1>7, <1>8, <1>9, <1>11, <1>13, <1>14, <1>15 DEF QuietInv

(* An event nobody asked for: its code is reported from now on.              *)
LEMMA QuietReports ==
  ASSUME QuietInv, PacketInv, NEW k \in Unsolicited, NEW d \in Concerns(k),
         ControllerReports(k, d)
  PROVE  QuietInv'
<1>1. /\ UNCHANGED <<hpc, r, pending, answer, gaveUp, returned, others, refused>>
      /\ unasked' = Append(unasked, k) /\ unasked \in Seq(EventKinds)
      /\ k \in EventKinds
  BY RequestAssumption DEF ControllerReports, clientVars, PacketInv
<1>2. PICK e \in Packets :
        /\ Deliver(e) /\ e.id = Other /\ Code(e) = Code(k)
        /\ e.evt \notin {EVT_CMD_COMPLETE, EVT_CMD_STATUS}
  BY ReportGenuine DEF ControllerReports
<1>3. \A i \in 1 .. Len(queue') :
        \/ i \in 1 .. Len(queue) /\ queue'[i] = queue[i]
        \/ i = Len(queue) + 1 /\ queue'[i] = e
  BY <1>2, DeliverKeeps DEF PacketInv
<1>4. \A c : Reported(c) => Reported(c)'
  <2>1. \A i \in DOMAIN unasked : i \in DOMAIN unasked' /\ unasked'[i] = unasked[i]
    BY <1>1
  <2> QED
    BY <2>1 DEF Reported, Code
<1>5. Reported(Code(k))'
  <2>1. /\ Len(unasked) + 1 \in DOMAIN unasked'
        /\ unasked'[Len(unasked) + 1] = k
    BY <1>1
  <2> QED
    BY <2>1 DEF Reported, Code
<1>6. (\A x : Harmless(x) => Harmless(x)') /\ Harmless(e)'
  BY <1>2, <1>4, <1>5 DEF Harmless
<1>7. LeftOver => LeftOver'
  BY <1>1, <1>3, <1>4, <1>6 DEF LeftOver
<1>8. Mixed => Mixed'
  BY <1>1, <1>3, <1>4, <1>6 DEF Mixed
<1>9. hpc # "idle" => e.id # r.id
  BY <1>2 DEF PacketInv, Other
<1>10. hpc # "idle" => (OneEnd => OneEnd')
  BY <1>1, <1>3, <1>9 DEF OneEnd
<1>11. Misled(r.cmd) => Misled(r.cmd)'
  BY <1>1, <1>4, MisledIsReported DEF Misled, Reported
<1>12. (Quiet' <=> Quiet) /\ (ChecksStatus(r.cmd)' <=> ChecksStatus(r.cmd))
  BY <1>1 DEF Quiet, ChecksStatus
<1>13. hpc = "send" /\ (\A i \in 1 .. Len(queue) : queue[i].id # r.id)
         => \A i \in 1 .. Len(queue') : queue'[i].id # r.id
  BY <1>3, <1>9
<1> QED
  BY <1>1, <1>7, <1>8, <1>10, <1>11, <1>12, <1>13 DEF QuietInv

LEMMA QuietStep == QuietInv /\ PacketInv /\ FilterInv /\ HciNext => QuietInv'
<1> SUFFICES ASSUME QuietInv, PacketInv, FilterInv, HciNext PROVE QuietInv'
  OBVIOUS
<1>1. ASSUME NEW c \in OtherRequests, NEW d \in About(c), OtherProcessSends(c, d)
      PROVE  QuietInv'
  <2>1. others' = others + 1 /\ UNCHANGED <<hpc, r, returned>>
    BY <1>1 DEF OtherProcessSends, clientVars
  <2>2. others' # 0
    BY <2>1 DEF PacketInv
  <2> QED
    BY <2>1, <2>2 DEF QuietInv, Quiet
<1>2. CASE Controller
  BY <1>1, <1>2, QuietController, QuietReports DEF Controller
<1> QED
  BY <1>2, QuietCall, QuietSend, QuietWaits, QuietRead, QuietReturn
  DEF HciNext, hci_send_req

-----------------------------------------------------------------------------
(* All of it together.                                                       *)

AnswerInv == FilterInv /\ PacketInv /\ QuietInv /\ AnswerOfAskedKind

LEMMA AnswerInit == Init => AnswerInv
<1>1. Init => AnswerOfAskedKind
  BY DEF Init, HciInit, AnswerOfAskedKind
<1> QED
  BY <1>1, FilterInit, PacketInit, QuietInit DEF AnswerInv

LEMMA AnswerNext == AnswerInv /\ [Next]_vars => AnswerInv'
<1> SUFFICES ASSUME AnswerInv, [Next]_vars PROVE AnswerInv'
  OBVIOUS
<1>1. CASE UNCHANGED hciVars
  <2>1. UNCHANGED <<hpc, r, filter, of, to, try, answer, gaveUp, returned,
                    userFilter, queue, pending, calls, others, unasked, refused>>
    BY <1>1 DEF hciVars, clientVars
  <2>2. FilterInv'
    BY <2>1 DEF AnswerInv, FilterInv, FilterRestored
  <2>3. PacketInv'
    BY <2>1 DEF AnswerInv, PacketInv
  <2>4. QuietInv'
    BY <2>1 DEF AnswerInv, QuietInv, Quiet, LeftOver, Mixed, OneEnd, Harmless,
                Reported, Misled
  <2>5. AnswerOfAskedKind'
    BY <2>1 DEF AnswerInv, AnswerOfAskedKind, Ambiguous
  <2> QED
    BY <2>2, <2>3, <2>4, <2>5 DEF AnswerInv
<1>2. CASE HciNext
  BY <1>2, FilterStep, PacketStep, QuietStep, KindStep DEF AnswerInv
<1> QED
  BY <1>1, <1>2 DEF Next, FindDevice, UseDevice, CloseDevice, vars

LEMMA AnswersCorrect == Spec => []AnswerInv
  BY AnswerInit, AnswerNext, PTL DEF Spec

-----------------------------------------------------------------------------
(* The route, for the devices that stand still.                              *)

(* No device of a walk's list that stands still is what the walk is for.     *)
PassedOver(walk) ==
  \A i \in 1 .. Len(lists[walk]) :
    lists[walk][i] \in changed \/ ~ Suits(walk, lists[walk][i])

(* dl is what is left of the walk's list after the first n.                  *)
ScannedUpTo(n) ==
  /\ Len(lists[pass]) = n + Len(dl)
  /\ \A i \in 1 .. Len(dl) : dl[i] = lists[pass][n + i]
  /\ \A i \in 1 .. n :
       lists[pass][i] \in changed \/ ~ Suits(pass, lists[pass][i])

RouteInv ==
  /\ devs \in [Adapters -> DeviceStates]
  /\ changed \subseteq Adapters
  /\ lists \in [{"other", "same"} -> Seq(Adapters)]
  /\ dl \in Seq(Adapters)
  /\ dev_id \in Adapters \cup {-1}
  /\ pass \in {"other", "same"}
  /\ dpc \in {"list", "ask", "scan"} => dev_id = -1
  /\ dpc \in {"bind", "opened"} => dev_id \in Adapters
  /\ dpc \in {"list", "ask"} => lists[pass] = <<>>
  /\ pass = "other" => lists["same"] = <<>>
  /\ pass = "same" => PassedOver("other")
  /\ dpc = "scan" =>
       /\ \E n \in Nat : ScannedUpTo(n)
       /\ \A i \in 1 .. Len(lists[pass]) :
            lists[pass][i] \in changed \/ IsUp(lists[pass][i])
  /\ RouteIsFirstOfList

LEMMA RouteInit == Init => RouteInv
<1> SUFFICES ASSUME Init PROVE RouteInv
  OBVIOUS
<1>1. /\ dpc = "list" /\ dl = <<>> /\ dev_id = -1 /\ pass = "other"
      /\ changed = {} /\ devs \in [Adapters -> DeviceStates]
      /\ lists = [other |-> <<>>, same |-> <<>>]
  BY DEF Init, DevInit
<1>2. /\ lists = [walk \in {"other", "same"} |-> <<>>]
      /\ lists["other"] = <<>> /\ lists["same"] = <<>>
  BY <1>1
<1>3. lists \in [{"other", "same"} -> Seq(Adapters)]
  BY <1>2
<1> QED
  BY <1>1, <1>2, <1>3 DEF RouteInv, RouteIsFirstOfList

(* What the devices that stand still are does not change.                    *)
LEMMA RouteDevices ==
  ASSUME RouteInv, NEW d \in Adapters, DeviceChanges(d)
  PROVE  RouteInv'
<1>1. /\ UNCHANGED <<dpc, dl, sockets, dev_id, pass, lists>>
      /\ changed' = changed \cup {d}
      /\ devs' \in [Adapters -> DeviceStates]
      /\ \A x \in Adapters : x # d => devs'[x] = devs[x]
  BY DEF DeviceChanges, RouteInv
<1>2. \A x \in Adapters : x \notin changed' =>
        /\ x \notin changed /\ (IsUp(x)' <=> IsUp(x))
        /\ \A walk : Suits(walk, x)' <=> Suits(walk, x)
  BY <1>1 DEF IsUp, Suits
<1>3. \A walk \in {"other", "same"} : \A i \in 1 .. Len(lists[walk]) :
        lists[walk][i] \in Adapters
  BY DEF RouteInv
<1>4. \A walk \in {"other", "same"} : PassedOver(walk) => PassedOver(walk)'
  BY <1>1, <1>2, <1>3 DEF PassedOver
<1>5. \A n \in Nat : ScannedUpTo(n) => ScannedUpTo(n)'
  <2> SUFFICES ASSUME NEW n \in Nat, ScannedUpTo(n) PROVE ScannedUpTo(n)'
    OBVIOUS
  <2>1. \A i \in 1 .. n : i \in 1 .. Len(lists[pass])
    BY DEF ScannedUpTo, RouteInv
  <2>2. \A i \in 1 .. n : lists[pass][i] \in Adapters
    BY <2>1, <1>3 DEF RouteInv
  <2> QED
    BY <1>1, <1>2, <2>2 DEF ScannedUpTo
<1>6. RouteIsFirstOfList'
  <2>1. SUFFICES ASSUME dpc = "open" PROVE RouteIsFirstOfList'
    BY <1>1 DEF RouteIsFirstOfList
  <2>2. /\ DOMAIN lists = {"other", "same"}
        /\ \A walk \in {"other", "same"} :
             DOMAIN lists[walk] = 1 .. Len(lists[walk])
    BY DEF RouteInv
  <2>3. dev_id >= 0 => dev_id \in Adapters
    BY DEF RouteInv
  <2> QED
    BY <1>1, <1>2, <1>3, <2>1, <2>2, <2>3 DEF RouteIsFirstOfList, RouteInv
<1> QED
  BY <1>1, <1>2, <1>3, <1>4, <1>5, <1>6 DEF RouteInv

(* A walk that gives no device has passed over all that stand still.         *)
LEMMA RouteNone ==
  ASSUME RouteInv, WalkGives(-1), PassedOver(pass), UNCHANGED <<devs, changed>>,
         lists' = lists, dl' \in Seq(Adapters), dpc \in {"list", "ask", "scan"}
  PROVE  RouteInv'
<1>1. /\ dev_id' = -1 /\ -1 \notin Adapters
      /\ IF pass = "other" THEN pass' = "same" /\ dpc' = "list"
                           ELSE pass' = pass /\ dpc' = "open"
  BY AdapterAssumption DEF WalkGives
<1>2. PassedOver("other") /\ (pass = "same" => PassedOver("same"))
  BY DEF RouteInv
<1>3. \A walk : PassedOver(walk)' <=> PassedOver(walk)
  BY DEF PassedOver, Suits, IsUp
<1>4. CASE pass = "other"
  BY <1>1, <1>2, <1>3, <1>4 DEF RouteInv, RouteIsFirstOfList
<1>5. CASE pass = "same"
  <2>1. dpc' = "open" /\ pass' = "same"
    BY <1>1, <1>5
  <2>2. \A walk \in {"other", "same"} : DOMAIN lists[walk] = 1 .. Len(lists[walk])
    BY DEF RouteInv
  <2>3. DOMAIN lists = {"other", "same"}
    BY DEF RouteInv
  <2>4. RouteIsFirstOfList'
    BY <1>1, <1>2, <1>3, <1>5, <2>2, <2>3 DEF PassedOver, RouteIsFirstOfList
  <2> QED
    BY <1>1, <1>2, <1>3, <1>5, <2>1, <2>4 DEF RouteInv
<1> QED
  BY <1>4, <1>5 DEF RouteInv

(* A walk starts with all of a list, or gives no device.                     *)
LEMMA RouteStarts ==
  ASSUME RouteInv, StartWalk \/ ListDevices
  PROVE  RouteInv'
<1>1. /\ UNCHANGED <<devs, changed>> /\ dpc \in {"list", "ask"}
      /\ lists[pass] = <<>> /\ PassedOver(pass)
  BY DEF RouteInv, StartWalk, ListDevices, PassedOver
<1>2. CASE dpc' = "ask"
  <2>1. UNCHANGED <<dl, lists, dev_id, pass>>
    BY <1>2 DEF StartWalk, ListDevices, EndWalk, WalkGives
  <2> QED
    BY <1>1, <1>2, <2>1
    DEF RouteInv, PassedOver, Suits, IsUp, RouteIsFirstOfList
<1>3. CASE dpc' = "scan"
  <2> DEFINE up == {d \in Adapters : IsUp(d)}
  <2>1. /\ dl' \in Bijection(1 .. Cardinality(up), up)
        /\ lists' = [lists EXCEPT ![pass] = dl']
        /\ UNCHANGED <<dev_id, pass>> /\ dpc = "ask"
    BY <1>3 DEF StartWalk, ListDevices, EndWalk, WalkGives
  <2>2. IsFiniteSet(up) /\ Cardinality(up) \in Nat /\ up \subseteq Adapters
    BY AdapterAssumption, FS_Subset, FS_CardinalityType
  <2> HIDE DEF up
  <2>3. dl' \in [1 .. Cardinality(up) -> up]
    BY <2>1 DEF Bijection, Injection
  <2>4. dl' \in Seq(up) /\ dl' \in Seq(Adapters)
    BY <2>2, <2>3
  <2>5. /\ lists' \in [{"other", "same"} -> Seq(Adapters)] /\ lists'[pass] = dl'
        /\ \A walk \in {"other", "same"} : walk # pass => lists'[walk] = lists[walk]
    BY <2>1, <2>4 DEF RouteInv
  <2>6. \A i \in 1 .. Len(dl') : IsUp(dl'[i])
    BY <2>4 DEF up
  <2>7. ScannedUpTo(0)'
    BY <2>1, <2>4, <2>5 DEF ScannedUpTo
  <2>8. pass = "same" => PassedOver("other")'
    BY <1>1, <2>1, <2>5 DEF RouteInv, PassedOver, Suits, IsUp
  <2> QED
    BY <1>1, <1>3, <2>1, <2>4, <2>5, <2>6, <2>7, <2>8
    DEF RouteInv, IsUp, RouteIsFirstOfList
<1>4. CASE dpc' \notin {"ask", "scan"}
  <2>1. WalkGives(-1) /\ UNCHANGED <<dl, lists>>
    BY <1>4 DEF StartWalk, ListDevices, EndWalk
  <2> QED
    BY <1>1, <2>1, RouteNone DEF RouteInv
<1> QED
  BY <1>2, <1>3, <1>4

(* The first wanted device of the list ends the walk; one that is passed     *)
(* over is not wanted.                                                       *)
LEMMA RouteScan ==
  ASSUME RouteInv, ScanDevice
  PROVE  RouteInv'
<1> DEFINE d == Head(dl)
           wanted == IF pass = "other" THEN __other_bdaddr(d) ELSE __same_bdaddr(d)
<1>1. UNCHANGED <<devs, lists, changed>> /\ dpc = "scan" /\ dev_id = -1
  BY DEF ScanDevice, RouteInv
<1>2. /\ \A walk, x : Suits(walk, x)' <=> Suits(walk, x)
      /\ \A x : IsUp(x)' <=> IsUp(x)
      /\ \A walk : PassedOver(walk)' <=> PassedOver(walk)
  BY <1>1 DEF PassedOver, Suits, IsUp
<1>3. PICK n \in Nat : ScannedUpTo(n)
  BY <1>1 DEF RouteInv
<1>4. /\ lists[pass] \in Seq(Adapters) /\ dl \in Seq(Adapters)
      /\ pass \in {"other", "same"}
  BY DEF RouteInv
<1>5. CASE dl = <<>>
  <2>1. WalkGives(-1) /\ UNCHANGED dl
    BY <1>5 DEF ScanDevice, EndWalk
  <2>2. PassedOver(pass)
    BY <1>3, <1>4, <1>5 DEF ScannedUpTo, PassedOver
  <2> QED
    BY <1>1, <1>4, <2>1, <2>2, RouteNone
<1>6. dl # <<>> => /\ Len(dl) \in Nat \ {0} /\ d = dl[1] /\ d \in Adapters
                   /\ n + 1 \in 1 .. Len(lists[pass]) /\ d = lists[pass][n + 1]
  <2>1. SUFFICES ASSUME dl # <<>>
                 PROVE  /\ Len(dl) \in Nat \ {0} /\ d = dl[1] /\ d \in Adapters
                        /\ n + 1 \in 1 .. Len(lists[pass]) /\ d = lists[pass][n + 1]
    OBVIOUS
  <2>2. Len(dl) \in Nat \ {0} /\ d = dl[1] /\ d \in Adapters /\ 1 \in 1 .. Len(dl)
    BY <1>4, <2>1, HeadTailProperties, LenProperties, EmptySeq
  <2> HIDE DEF d
  <2> QED
    BY <1>3, <1>4, <2>2 DEF ScannedUpTo
<1>7. dl # <<>> => d \in changed \/ (wanted <=> Suits(pass, d))
  <2>1. SUFFICES ASSUME dl # <<>>, d \notin changed PROVE wanted <=> Suits(pass, d)
    OBVIOUS
  <2>2. IsUp(d)
    BY <1>1, <1>6, <2>1 DEF RouteInv
  <2> HIDE DEF d
  <2> QED
    BY <1>4, <2>2 DEF Suits, IsUp, IsThere, __other_bdaddr, __same_bdaddr
<1>8. CASE dl # <<>> /\ wanted
  <2>1. EndWalk(d) /\ dl' = <<>>
    BY <1>8 DEF ScanDevice
  <2>2. ~ (d < 0) /\ d \in Adapters
    <3>1. d \in Adapters
      BY <1>6, <1>8
    <3> HIDE DEF d
    <3> QED
      BY <3>1, AdapterAssumption
  <2>3. dev_id' = d /\ pass' = pass /\ dpc' = "open"
    BY <2>1, <2>2 DEF EndWalk, WalkGives
  <2>4. d \in changed \/ Suits(pass, d)
    BY <1>7, <1>8
  <2>5. ASSUME NEW walk \in {"other", "same"}, NEW i \in 1 .. Len(lists[walk]),
               lists[walk][i] \notin changed, Suits(walk, lists[walk][i])
        PROVE  pass = walk /\ \E j \in 1 .. i : d = lists[walk][j]
    <3>1. walk = pass
      <4>1. CASE pass = "other"
        BY <2>5, <4>1 DEF RouteInv
      <4>2. CASE pass = "same"
        BY <2>5, <4>2 DEF RouteInv, PassedOver
      <4> QED
        BY <1>4, <4>1, <4>2
    <3>2. ~ (i \in 1 .. n)
      BY <1>3, <2>5, <3>1 DEF ScannedUpTo
    <3>3. n + 1 \in 1 .. i
      BY <1>4, <3>1, <3>2
    <3> QED
      BY <1>6, <1>8, <3>1, <3>3
  <2> HIDE DEF d
  <2>6. RouteIsFirstOfList'
    <3>1. /\ DOMAIN lists = {"other", "same"}
          /\ \A walk \in {"other", "same"} :
               DOMAIN lists[walk] = 1 .. Len(lists[walk])
      BY DEF RouteInv
    <3> QED
      BY <1>1, <1>2, <2>3, <2>4, <2>5, <3>1 DEF RouteIsFirstOfList
  <2> QED
    BY <1>1, <1>2, <2>1, <2>2, <2>3, <2>6 DEF RouteInv
<1>9. CASE dl # <<>> /\ ~ wanted
  <2>1. dl' = Tail(dl) /\ UNCHANGED <<dpc, sockets, dev_id, pass>>
    BY <1>9 DEF ScanDevice
  <2>2. /\ dl' \in Seq(Adapters)
        /\ Len(dl') = Len(dl) - 1
        /\ \A i \in 1 .. Len(dl') : dl'[i] = dl[i + 1]
        /\ Len(dl) \in Nat \ {0}
    BY <1>4, <1>9, <2>1, HeadTailProperties, LenProperties, EmptySeq
  <2>3. \A i \in 1 .. Len(dl') : i + 1 \in 1 .. Len(dl) /\ (n + 1) + i = n + (i + 1)
    BY <2>2
  <2>4. d \in changed \/ ~ Suits(pass, d)
    BY <1>7, <1>9
  <2>5. d = lists[pass][n + 1]
    BY <1>6, <1>9
  <2> HIDE DEF d
  <2>6. \A i \in 1 .. n + 1 :
          lists[pass][i] \in changed \/ ~ Suits(pass, lists[pass][i])
    <3>1. \A i \in 1 .. n + 1 : i \in 1 .. n \/ i = n + 1
      OBVIOUS
    <3> QED
      BY <1>3, <2>4, <2>5, <3>1 DEF ScannedUpTo
  <2>7. \A i \in 1 .. Len(dl') : dl'[i] = lists[pass][(n + 1) + i]
    BY <1>3, <2>2, <2>3 DEF ScannedUpTo
  <2>8. Len(lists[pass]) = (n + 1) + Len(dl')
    BY <1>3, <2>2 DEF ScannedUpTo
  <2>9. ScannedUpTo(n + 1)'
    BY <1>1, <1>2, <2>1, <2>6, <2>7, <2>8 DEF ScannedUpTo
  <2> QED
    BY <1>1, <1>2, <2>1, <2>2, <2>9 DEF RouteInv, RouteIsFirstOfList
<1> QED
  BY <1>5, <1>8, <1>9

LEMMA RouteNext == RouteInv /\ [Next]_vars => RouteInv'
<1> SUFFICES ASSUME RouteInv, [Next]_vars PROVE RouteInv'
  OBVIOUS
<1>1. CASE StartWalk \/ ListDevices
  BY <1>1, RouteStarts
<1>2. CASE ScanDevice
  BY <1>2, RouteScan
<1>3. CASE hci_open_dev \/ hci_close_dev
  <2>1. UNCHANGED <<devs, dl, dev_id, pass, lists, changed>>
    BY <1>3 DEF hci_open_dev, OpenSocket, BindSocket, hci_close_dev
  <2>2. /\ dpc' = "bind" => dev_id >= 0
        /\ dpc' = "opened" => dpc = "bind"
    BY <1>3 DEF hci_open_dev, OpenSocket, BindSocket, hci_close_dev
  <2>3. dpc' \in {"bind", "opened", "failed", "closed"}
    BY <1>3 DEF hci_open_dev, OpenSocket, BindSocket, hci_close_dev
  <2> QED
    BY <2>1, <2>2, <2>3
    DEF RouteInv, PassedOver, Suits, IsUp, RouteIsFirstOfList
<1>4. ASSUME NEW d \in Adapters, DeviceChanges(d) PROVE RouteInv'
  BY <1>4, RouteDevices
<1>5. CASE UNCHANGED devVars
  <2>1. UNCHANGED <<dpc, devs, dl, dev_id, pass, lists, changed>>
    BY <1>5 DEF devVars
  <2> QED
    BY <2>1
    DEF RouteInv, PassedOver, ScannedUpTo, Suits, IsUp, RouteIsFirstOfList
<1> QED
  BY <1>1, <1>2, <1>3, <1>4, <1>5
  DEF Next, FindDevice, UseDevice, CloseDevice, hci_get_route, vars

-----------------------------------------------------------------------------
(* The types of a call, and its time.                                        *)

CallTypes ==
  /\ HciTypeOK
  /\ calls \in 0 .. MaxCalls
  /\ hpc # "idle" => r.id \in 0 .. MaxCalls

LEMMA CallTypesInit == Init => CallTypes
<1> SUFFICES ASSUME Init PROVE CallTypes
  OBVIOUS
<1>1. TRIES \in Nat /\ MaxCalls \in Nat
  BY RequestAssumption
<1>2. /\ hpc = "idle" /\ try = 0 /\ to = 0 /\ answer = <<>>
      /\ pending = {} /\ calls = 0
  BY DEF Init, HciInit
<1> QED
  BY <1>1, <1>2 DEF CallTypes, HciTypeOK

LEMMA CallTypesStep == CallTypes /\ HciNext => CallTypes'
<1> SUFFICES ASSUME CallTypes, HciNext PROVE CallTypes'
  OBVIOUS
<1> USE RequestAssumption DEF CallTypes, HciTypeOK
<1>1. ASSUME NEW c \in Requests, NEW t \in Timeouts, NEW d \in About(c), Call(c, d, t)
      PROVE  CallTypes'
  <2>1. calls' \in 0 .. MaxCalls /\ r'.id = calls' /\ hpc' = "send"
    BY <1>1 DEF Call
  <2>2. try' \in 0 .. TRIES /\ to' \in Nat /\ answer' = <<>> /\ UNCHANGED pending
    BY <1>1 DEF Call
  <2> QED
    BY <2>1, <2>2
<1>2. CASE hci_send_cmd
  <2>1. \A p \in pending' : p.id \in 0 .. MaxCalls
    BY <1>2 DEF hci_send_cmd
  <2> QED
    BY <1>2, <2>1 DEF hci_send_cmd
<1>3. CASE Poll
  BY <1>3 DEF Poll
<1>4. CASE ReadPacket
  <2>1. hpc' \in {"poll", "done", "failed"}
    BY <1>4, VerdictRange DEF ReadPacket
  <2>2. answer' = IF hpc' = "done" THEN <<Head(queue)>> ELSE <<>>
    BY <1>4 DEF ReadPacket
  <2>3. (hpc' = "done" <=> answer' # <<>>) /\ Len(answer') <= 1
    BY <2>1, <2>2
  <2>4. UNCHANGED <<r, try, to, pending, calls>> /\ hpc # "idle"
    BY <1>4 DEF ReadPacket
  <2> QED
    BY <2>1, <2>3, <2>4
<1>5. CASE Return
  BY <1>5 DEF Return, LeaveCall
<1>6. CASE SocketFails
  BY <1>6 DEF SocketFails
<1>7. CASE Controller
  <2>1. UNCHANGED <<hpc, r, try, to, answer, calls>>
    BY <1>7 DEF Controller, ControllerAnswers, ControllerFinishes,
                OtherProcessSends, ControllerReports, clientVars
  <2>2. \A q \in pending' : q.id \in 0 .. MaxCalls
    <3>1. ASSUME NEW p \in pending, ControllerAnswers(p)
          PROVE  \A q \in pending' : q.id \in 0 .. MaxCalls
      <4>1. pending' \subseteq pending \cup {[p EXCEPT !.busy = TRUE]}
        BY <3>1 DEF ControllerAnswers
      <4>2. [p EXCEPT !.busy = TRUE].id = p.id
        OBVIOUS
      <4> QED
        BY <4>1, <4>2
    <3>2. ASSUME NEW p \in pending, ControllerFinishes(p)
          PROVE  \A q \in pending' : q.id \in 0 .. MaxCalls
      BY <3>2 DEF ControllerFinishes
    <3>3. ASSUME NEW c, NEW d, OtherProcessSends(c, d)
          PROVE  \A q \in pending' : q.id \in 0 .. MaxCalls
      BY <3>3 DEF OtherProcessSends, Other
    <3>4. ASSUME NEW k, NEW d, ControllerReports(k, d)
          PROVE  \A q \in pending' : q.id \in 0 .. MaxCalls
      BY <3>4 DEF ControllerReports
    <3> QED
      BY <1>7, <3>1, <3>2, <3>3, <3>4 DEF Controller
  <2> QED
    BY <2>1, <2>2
<1> QED
  BY <1>1, <1>2, <1>3, <1>4, <1>5, <1>6, <1>7 DEF HciNext, hci_send_req

LEMMA CallTypesNext == CallTypes /\ [Next]_vars => CallTypes'
<1> SUFFICES ASSUME CallTypes, [Next]_vars PROVE CallTypes'
  OBVIOUS
<1>1. CASE UNCHANGED hciVars
  BY <1>1 DEF hciVars, clientVars, CallTypes, HciTypeOK
<1> QED
  BY <1>1, CallTypesStep DEF Next, FindDevice, UseDevice, CloseDevice, vars

(* Every time asked for lasts for a poll before each attempt.                *)
EnoughTime == \A t \in Timeouts : t > (TRIES - 1) * STEP

(* A read is only made when poll has said that there is a packet.            *)
ReadsFindPacket == hpc = "read" => queue # <<>>

(* What is left of the time is enough for the attempts that are left.        *)
TimeInv ==
  /\ hpc = "send" => try = TRIES
  /\ hpc \in {"send", "poll", "read"} => to > (try - 1) * STEP
  /\ ReadsFindPacket

(* An attempt takes STEP off the time, or what is left of it.                *)
LEMMA TimeShrinks ==
  ASSUME NEW n \in Nat \ {0}, NEW t \in Nat, NEW s \in Nat \ {0},
         t > (n - 1) * s
  PROVE  (IF t > s THEN t - s ELSE 0) > ((n - 1) - 1) * s
<1>1. /\ (n - 1) * s \in Int /\ ((n - 1) - 1) * s \in Int
      /\ ((n - 1) - 1) * s = (n - 1) * s - s
  OBVIOUS
<1>2. CASE n = 1
  BY <1>1, <1>2
<1>3. CASE n # 1
  <2>1. (n - 1) * s >= s
    BY <1>3
  <2> QED
    BY <1>1, <2>1
<1> QED
  BY <1>2, <1>3

LEMMA TimeStep ==
  ASSUME EnoughTime, CallTypes, TimeInv, HciNext
  PROVE  TimeInv'
<1> USE DEF TimeInv, ReadsFindPacket
<1>1. ASSUME NEW c \in Requests, NEW t \in Timeouts, NEW d \in About(c), Call(c, d, t)
      PROVE  TimeInv'
  BY <1>1 DEF Call, EnoughTime
<1>2. CASE hci_send_cmd
  BY <1>2 DEF hci_send_cmd
<1>3. CASE Poll
  <2>1. hpc = "poll" /\ UNCHANGED queue /\ to > (try - 1) * STEP
    BY <1>3 DEF Poll
  <2>2. try \in 0 .. TRIES /\ to \in Nat /\ TRIES \in Nat /\ STEP \in Nat \ {0}
    BY RequestAssumption DEF CallTypes, HciTypeOK
  <2>3. CASE hpc' = "failed"
    BY <2>3
  <2>4. CASE hpc' # "failed"
    <3>1. try \in Nat \ {0} /\ try' = try - 1 /\ hpc' = "read"
      BY <1>3, <2>2, <2>4 DEF Poll
    <3>2. to > 0
      <4>1. (try - 1) * STEP >= 0
        BY <2>2, <3>1
      <4> QED
        BY <2>1, <2>2, <3>1, <4>1
    <3>3. queue # <<>> /\ to' = IF to > STEP THEN to - STEP ELSE 0
      BY <1>3, <2>4, <3>2 DEF Poll
    <3>4. (IF to > STEP THEN to - STEP ELSE 0) > ((try - 1) - 1) * STEP
      BY <2>1, <2>2, <3>1, TimeShrinks
    <3> QED
      BY <2>1, <3>1, <3>3, <3>4
  <2> QED
    BY <2>3, <2>4
<1>4. CASE ReadPacket
  <2>1. hpc' \in {"poll", "done", "failed"} /\ hpc = "read" /\ UNCHANGED <<to, try>>
    BY <1>4, VerdictRange DEF ReadPacket
  <2> QED
    BY <2>1
<1>5. CASE Return
  BY <1>5 DEF Return, LeaveCall
<1>6. CASE SocketFails
  BY <1>6 DEF SocketFails
<1>7. CASE Controller
  <2>1. UNCHANGED <<hpc, to, try>>
    BY <1>7 DEF Controller, ControllerAnswers, ControllerFinishes,
                OtherProcessSends, ControllerReports, clientVars
  <2>2. ASSUME NEW e, Deliver(e), queue # <<>> PROVE queue' # <<>>
    BY <2>2 DEF Deliver
  <2>3. queue # <<>> => queue' # <<>>
    BY <1>7, <2>2 DEF Controller, ControllerAnswers, ControllerFinishes,
                      OtherProcessSends, ControllerReports
  <2> QED
    BY <2>1, <2>3
<1> QED
  BY <1>1, <1>2, <1>3, <1>4, <1>5, <1>6, <1>7 DEF HciNext, hci_send_req

LEMMA TimeNext ==
  ASSUME EnoughTime
  PROVE  CallTypes /\ TimeInv /\ [Next]_vars => TimeInv'
<1> SUFFICES ASSUME CallTypes, TimeInv, [Next]_vars PROVE TimeInv'
  OBVIOUS
<1>1. CASE UNCHANGED hciVars
  BY <1>1 DEF hciVars, clientVars, TimeInv, ReadsFindPacket
<1> QED
  BY <1>1, TimeStep DEF Next, FindDevice, UseDevice, CloseDevice, vars

-----------------------------------------------------------------------------
(* How many steps of its own a call has left: an attempt is a poll and a     *)
(* read, and the steps before and after the attempts are three.              *)
CallStepsLeft ==
  CASE hpc = "send" -> 2 * TRIES + 3
    [] hpc = "poll" -> 2 * try + 2
    [] hpc = "read" -> 2 * try + 3
    [] hpc \in {"failed", "done"} -> 1
    [] hpc = "idle" -> 0

CallComesToItsEnd ==
  /\ hci_send_req \/ SocketFails => CallStepsLeft' < CallStepsLeft
  /\ hpc # "idle" => CallStepsLeft' <= CallStepsLeft

LEMMA CallStepsAre ==
  ASSUME CallTypes
  PROVE  /\ CallStepsLeft \in Nat /\ CallStepsLeft <= 2 * TRIES + 3
         /\ hpc = "send" => CallStepsLeft = 2 * TRIES + 3
         /\ hpc = "poll" => CallStepsLeft = 2 * try + 2
         /\ hpc = "read" => CallStepsLeft = 2 * try + 3
         /\ hpc \in {"failed", "done"} => CallStepsLeft = 1
         /\ hpc = "idle" => CallStepsLeft = 0
<1>1. /\ try \in 0 .. TRIES /\ TRIES \in Nat \ {0}
      /\ hpc \in {"idle", "send", "poll", "read", "failed", "done"}
  BY RequestAssumption DEF CallTypes, HciTypeOK
<1> QED
  BY <1>1 DEF CallStepsLeft

LEMMA CallStepsShrink ==
  ASSUME CallTypes, CallTypes', [Next]_vars
  PROVE  CallComesToItsEnd
<1>0. /\ try \in Nat /\ try' \in Nat /\ TRIES \in Nat /\ try <= TRIES
      /\ hpc \in {"idle", "send", "poll", "read", "failed", "done"}
  BY RequestAssumption DEF CallTypes, HciTypeOK
<1>1. /\ CallStepsLeft \in Nat
      /\ hpc = "send" => CallStepsLeft = 2 * TRIES + 3
      /\ hpc = "poll" => CallStepsLeft = 2 * try + 2
      /\ hpc = "read" => CallStepsLeft = 2 * try + 3
      /\ hpc \in {"failed", "done"} => CallStepsLeft = 1
      /\ hpc = "idle" => CallStepsLeft = 0
  BY CallStepsAre
<1>2. /\ CallStepsLeft' \in Nat
      /\ hpc' = "send" => CallStepsLeft' = 2 * TRIES + 3
      /\ hpc' = "poll" => CallStepsLeft' = 2 * try' + 2
      /\ hpc' = "read" => CallStepsLeft' = 2 * try' + 3
      /\ hpc' \in {"failed", "done"} => CallStepsLeft' = 1
      /\ hpc' = "idle" => CallStepsLeft' = 0
  <2>1. /\ try' \in 0 .. TRIES /\ TRIES \in Nat \ {0}
        /\ hpc' \in {"idle", "send", "poll", "read", "failed", "done"}
    BY RequestAssumption DEF CallTypes, HciTypeOK
  <2> QED
    BY <2>1 DEF CallStepsLeft
<1>3. ASSUME hci_send_req \/ SocketFails PROVE CallStepsLeft' < CallStepsLeft
  <2>1. CASE hci_send_cmd
    BY <1>0, <1>1, <1>2, <2>1 DEF hci_send_cmd
  <2>2. CASE Poll
    <3>1. /\ hpc = "poll" /\ hpc' \in {"read", "failed"}
          /\ hpc' = "read" => try' = try - 1
      BY <2>2 DEF Poll
    <3>2. CASE hpc' = "read"
      BY <1>0, <1>1, <1>2, <3>1, <3>2
    <3>3. CASE hpc' = "failed"
      BY <1>0, <1>1, <1>2, <3>1, <3>3
    <3> QED
      BY <3>1, <3>2, <3>3
  <2>3. CASE ReadPacket
    <3>1. hpc = "read" /\ hpc' \in {"poll", "done", "failed"} /\ try' = try
      BY <2>3, VerdictRange DEF ReadPacket
    <3> QED
      BY <1>0, <1>1, <1>2, <3>1
  <2>4. CASE Return
    BY <1>1, <1>2, <2>4 DEF Return, LeaveCall
  <2>5. CASE SocketFails
    BY <1>0, <1>1, <1>2, <2>5 DEF SocketFails
  <2> QED
    BY <1>3, <2>1, <2>2, <2>3, <2>4, <2>5 DEF hci_send_req
<1>4. ASSUME hpc # "idle", UNCHANGED <<hpc, try>>
      PROVE  CallStepsLeft' <= CallStepsLeft
  <2>1. CallStepsLeft' = CallStepsLeft
    BY <1>0, <1>1, <1>2, <1>4
  <2> QED
    BY <1>1, <2>1
<1>5. ASSUME hpc # "idle"
      PROVE  hci_send_req \/ SocketFails \/ UNCHANGED <<hpc, try>>
  <2>1. CASE Controller
    BY <2>1 DEF Controller, ControllerAnswers, ControllerFinishes,
                OtherProcessSends, ControllerReports, clientVars
  <2>2. CASE UNCHANGED hciVars
    BY <2>2 DEF hciVars, clientVars
  <2> QED
    BY <1>5, <2>1, <2>2
    DEF Next, FindDevice, UseDevice, CloseDevice, HciNext, Call, vars
<1> QED
  BY <1>1, <1>2, <1>3, <1>4, <1>5 DEF CallComesToItsEnd

-----------------------------------------------------------------------------
(* The results.                                                              *)

(* The client, its device and its call keep their types, and every command   *)
(* the controller works on is one of this client's calls or another          *)
(* process's (hci.c:836-1010, 1120-1260).                                    *)
THEOREM ClientTypeCorrect == Spec => []TypeOK
<1>1. SocketInv /\ RouteInv /\ CallTypes => TypeOK
  BY DEF SocketInv, OneSocketPerDevice, RouteInv, CallTypes, TypeOK
<1> QED
  BY <1>1, SocketInit, SocketNext, RouteInit, RouteNext, CallTypesInit,
     CallTypesNext, PTL DEF Spec

(* If every call is given enough time for a poll before each attempt, no     *)
(* read is made that could block, whatever the controller and the other      *)
(* processes send and however many attempts there are: why a polled call     *)
(* returns even if it is never answered (hci.c:1170-1191).                   *)
THEOREM PolledReadsFindPacket ==
  ASSUME EnoughTime
  PROVE  Spec => []ReadsFindPacket
<1>1. Init => TimeInv
  BY DEF Init, HciInit, TimeInv, ReadsFindPacket
<1>2. TimeInv => ReadsFindPacket
  BY DEF TimeInv
<1>3. CallTypes /\ TimeInv /\ [Next]_vars => TimeInv'
  BY TimeNext
<1> QED
  BY <1>1, <1>2, <1>3, CallTypesInit, CallTypesNext, PTL DEF Spec

(* A client holds one descriptor while it has its device or walks the list,  *)
(* and none otherwise, however many devices there are and whatever becomes   *)
(* of them (hci.c:863-921, 984-1010).                                        *)
THEOREM SocketsAccountedFor == Spec => []OneSocketPerDevice
<1>1. SocketInv => OneSocketPerDevice
  BY DEF SocketInv
<1> QED
  BY <1>1, SocketInit, SocketNext, PTL DEF Spec

(* The route is no later in its walk's list than the first device that suits *)
(* and has stood still, however the kernel orders the list, however many     *)
(* devices there are and whatever the others do; the second walk decides     *)
(* only when the first has none such (hci.c:836-921).                        *)
THEOREM RouteIsTheFirst == Spec => []RouteIsFirstOfList
<1>1. RouteInv => RouteIsFirstOfList
  BY DEF RouteInv
<1> QED
  BY <1>1, RouteInit, RouteNext, PTL DEF Spec

(* On every way out of hci_send_req the socket's own filter is put back      *)
(* (hci.c:1251-1260).                                                        *)
THEOREM FilterIsRestored == Spec => []FilterRestored
<1>1. FilterInv => FilterRestored
  BY DEF FilterInv
<1> QED
  BY <1>1, FilterInit, FilterNext, PTL DEF Spec

(* The answer a call takes is to its own command, until a call has given up  *)
(* or another process has sent a command, unless the controller has reported *)
(* an event with the awaited code unasked; a command that is answered by its *)
(* completion gets its own answer whatever is reported. An earlier call that *)
(* was misled leaves no answer that this one could take (hci.c:1166-1249).   *)
THEOREM AnswersAreOwn == Spec => []OwnAnswer
<1>1. AnswerInv => OwnAnswer
  BY DEF AnswerInv, QuietInv, Quiet, OwnAnswer
<1> QED
  BY <1>1, AnswersCorrect, PTL

(* The answer a call takes is of the kind its command asks for, and a name   *)
(* is the asked device's, whatever the controller reports of its own accord  *)
(* and for other processes, of all events the library knows, for every       *)
(* command whose event has its code to itself (hci.c:1193-1247).             *)
THEOREM AnswersAreOfTheirKind == Spec => []AnswerOfAskedKind
<1>1. AnswerInv => AnswerOfAskedKind
  BY DEF AnswerInv
<1> QED
  BY <1>1, AnswersCorrect, PTL

(* A function that looks at the status reports a refusal, which may come     *)
(* with the acknowledgement, the completion or the final event, until a call *)
(* has given up or another process has sent a command, unless an event with  *)
(* the awaited code was reported unasked (hci.c:1200-1247).                  *)
THEOREM RefusalsAreReported == Spec => []RefusalIsReported
<1>1. AnswerInv => RefusalIsReported
  BY DEF AnswerInv, QuietInv, Quiet, RefusalIsReported
<1> QED
  BY <1>1, AnswersCorrect, PTL

(* A call of hci_send_req takes at most 2 * TRIES + 3 steps of its own, each *)
(* of which brings it nearer to its end, whatever packets it is sent and     *)
(* whatever fails: what PolledCallsReturn claims is left to the thread going *)
(* on, and to reads that find a packet (hci.c:1166-1260).                    *)
THEOREM CallsComeToAnEnd ==
  Spec => /\ [](CallStepsLeft \in 0 .. (2 * TRIES + 3))
          /\ [][CallComesToItsEnd]_vars
<1>1. CallTypes => CallStepsLeft \in 0 .. (2 * TRIES + 3)
  <2> SUFFICES ASSUME CallTypes PROVE CallStepsLeft \in 0 .. (2 * TRIES + 3)
    OBVIOUS
  <2>1. CallStepsLeft \in Nat /\ CallStepsLeft <= 2 * TRIES + 3 /\ TRIES \in Nat
    BY CallStepsAre, RequestAssumption
  <2> QED
    BY <2>1
<1>2. CallTypes /\ CallTypes' /\ [Next]_vars => [CallComesToItsEnd]_vars
  BY CallStepsShrink
<1> QED
  BY <1>1, <1>2, CallTypesInit, CallTypesNext, PTL DEF Spec

-----------------------------------------------------------------------------
(* The names of bits, of every value.                                        *)

Name == INSTANCE HciNames

(* A set of naturals that is not empty has a least element: what fails after *)
(* some entry of a table fails first after one (hci.c:66-70).                *)
LEMMA LeastOf ==
  ASSUME NEW S \in SUBSET Nat, S # {}
  PROVE  \E p \in S : \A q \in S : p <= q
<1>1. PICK p \in S : \A q \in S : ~ (<<q, p>> \in OpToRel(<, Nat))
  BY NatLessThanWellFounded, WFMin
<1>2. \A q \in S : ~ (q < p)
  BY <1>1 DEF OpToRel
<1> QED
  BY <1>2

(* What the loop of hci_bit2str over the table m has taken after each entry  *)
(* up to last.                                                               *)
IsUpTo(f, m, val, last) ==
  f = [n \in 0 .. last |->
         IF n = 0 THEN <<>>
         ELSE IF m[n][2] \cap val # {} THEN Append(f[n - 1], m[n])
         ELSE f[n - 1]]

(* The loop of hci_bit2str (hci.c:66-70) does something after every entry.   *)
LEMMA LoopIsDefined ==
  ASSUME NEW m, NEW val, NEW last \in Nat
  PROVE  \E f : IsUpTo(f, m, val, last)
<1> DEFINE Without == {k \in Nat : ~ \E f : IsUpTo(f, m, val, k)}
<1>1. SUFFICES ASSUME Without # {} PROVE FALSE
  OBVIOUS
<1>2. PICK k \in Without : \A q \in Without : k <= q
  <2>1. Without \in SUBSET Nat
    OBVIOUS
  <2> HIDE DEF Without
  <2> QED
    BY <1>1, <2>1, LeastOf
<1>3. k # 0
  <2>1. IsUpTo([n \in 0 .. 0 |-> <<>>], m, val, 0)
    BY DEF IsUpTo
  <2> QED
    BY <2>1
<1>4. PICK f : IsUpTo(f, m, val, k - 1)
  <2>1. k - 1 \in Nat /\ ~ (k <= k - 1)
    BY <1>3
  <2> QED
    BY <2>1, <1>2
<1> DEFINE g == [n \in 0 .. k |->
                   IF n < k THEN f[n]
                   ELSE IF m[n][2] \cap val # {} THEN Append(f[n - 1], m[n])
                   ELSE f[n - 1]]
<1>5. \A n \in 0 .. k - 1 : g[n] = f[n]
  OBVIOUS
<1>6. \A n \in 0 .. k - 1 :
        f[n] = IF n = 0 THEN <<>>
               ELSE IF m[n][2] \cap val # {} THEN Append(f[n - 1], m[n])
               ELSE f[n - 1]
  BY <1>4 DEF IsUpTo
<1>7. \A n \in 0 .. k :
        g[n] = IF n = 0 THEN <<>>
               ELSE IF m[n][2] \cap val # {} THEN Append(g[n - 1], m[n])
               ELSE g[n - 1]
  <2> TAKE n \in 0 .. k
  <2>1. CASE n = 0
    BY <2>1, <1>3, <1>5, <1>6
  <2>2. CASE n # 0 /\ n < k
    <3>1. n \in 0 .. k - 1 /\ n - 1 \in 0 .. k - 1
      BY <2>2
    <3>2. g[n] = f[n] /\ g[n - 1] = f[n - 1]
      BY <3>1, <1>5
    <3> QED
      BY <3>1, <3>2, <2>2, <1>6
  <2>3. CASE n # 0 /\ ~ (n < k)
    <3>1. n - 1 \in 0 .. k - 1
      BY <2>3
    <3>2. g[n - 1] = f[n - 1]
      BY <3>1, <1>5
    <3> QED
      BY <3>2, <2>3
  <2> QED
    BY <2>1, <2>2, <2>3
<1>8. IsUpTo(g, m, val, k)
  <2>1. g = [n \in 0 .. k |-> g[n]]
    OBVIOUS
  <2> HIDE DEF g
  <2> QED
    BY <2>1, <1>7 DEF IsUpTo
<1> QED
  BY <1>8

(* s has the entries up to last with a bit of the value, and no other.       *)
HasPicked(s, Entries, m, val, last) ==
  /\ s \in Seq(Entries)
  /\ \A i \in 1 .. Len(s) : \E n \in 1 .. last : m[n][2] \cap val # {} /\ s[i] = m[n]
  /\ \A n \in 1 .. last : m[n][2] \cap val # {} => \E i \in 1 .. Len(s) : s[i] = m[n]

(* After each entry hci_bit2str has taken the right ones (hci.c:66-70).      *)
LEMMA LoopPicks ==
  ASSUME NEW Entries, NEW m \in Seq(Entries), NEW val, NEW f,
         IsUpTo(f, m, val, Len(m)), NEW k \in 0 .. Len(m)
  PROVE  HasPicked(f[k], Entries, m, val, k)
<1> DEFINE Wrong == {j \in 0 .. Len(m) : ~ HasPicked(f[j], Entries, m, val, j)}
<1>1. SUFFICES ASSUME Wrong # {} PROVE FALSE
  OBVIOUS
<1>2. PICK j \in Wrong : \A q \in Wrong : j <= q
  <2>1. Wrong \in SUBSET Nat
    OBVIOUS
  <2> HIDE DEF Wrong
  <2> QED
    BY <1>1, <2>1, LeastOf
<1>3. \A n \in 0 .. Len(m) :
        f[n] = IF n = 0 THEN <<>>
               ELSE IF m[n][2] \cap val # {} THEN Append(f[n - 1], m[n])
               ELSE f[n - 1]
  BY DEF IsUpTo
<1>4. CASE j = 0
  <2>1. f[0] = <<>>
    <3>1. 0 \in 0 .. Len(m)
      OBVIOUS
    <3> QED
      BY <3>1, <1>3
  <2>2. HasPicked(f[0], Entries, m, val, 0)
    BY <2>1 DEF HasPicked
  <2> QED
    BY <1>4, <2>2
<1>5. CASE j # 0
  <2> DEFINE i == j - 1
  <2>1. /\ j \in 1 .. Len(m) /\ i \in 0 .. Len(m) /\ ~ (j <= i)
        /\ 1 .. j = (1 .. i) \cup {j}
    BY <1>5
  <2>2. HasPicked(f[i], Entries, m, val, i)
    BY <2>1, <1>2
  <2>3. f[j] = IF m[j][2] \cap val # {} THEN Append(f[i], m[j]) ELSE f[i]
    BY <2>1, <1>5, <1>3
  <2> HIDE DEF i
  <2>4. m[j] \in Entries
    BY <2>1
  <2>5. CASE m[j][2] \cap val # {}
    <3>1. /\ f[j] = Append(f[i], m[j]) /\ f[i] \in Seq(Entries)
          /\ f[j] \in Seq(Entries) /\ Len(f[j]) = Len(f[i]) + 1
      BY <2>2, <2>3, <2>4, <2>5 DEF HasPicked
    <3>2. /\ Len(f[i]) + 1 \in 1 .. Len(f[j]) /\ f[j][Len(f[i]) + 1] = m[j]
          /\ \A x \in 1 .. Len(f[i]) : x \in 1 .. Len(f[j]) /\ f[j][x] = f[i][x]
          /\ 1 .. Len(f[j]) = (1 .. Len(f[i])) \cup {Len(f[i]) + 1}
      BY <3>1, <2>4
    <3>3. \A x \in 1 .. Len(f[j]) :
            \E n \in 1 .. j : m[n][2] \cap val # {} /\ f[j][x] = m[n]
      <4> TAKE x \in 1 .. Len(f[j])
      <4>1. CASE x = Len(f[i]) + 1
        BY <4>1, <3>2, <2>1, <2>5
      <4>2. CASE x \in 1 .. Len(f[i])
        <5>1. PICK n \in 1 .. i : m[n][2] \cap val # {} /\ f[i][x] = m[n]
          BY <4>2, <2>2 DEF HasPicked
        <5> QED
          BY <5>1, <4>2, <3>2, <2>1
      <4> QED
        BY <4>1, <4>2, <3>2
    <3>4. \A n \in 1 .. j :
            m[n][2] \cap val # {} => \E x \in 1 .. Len(f[j]) : f[j][x] = m[n]
      BY <3>2, <2>1, <2>2 DEF HasPicked
    <3>5. HasPicked(f[j], Entries, m, val, j)
      BY <3>1, <3>3, <3>4 DEF HasPicked
    <3> QED
      BY <3>5
  <2>6. CASE m[j][2] \cap val = {}
    BY <2>1, <2>2, <2>3, <2>6 DEF HasPicked
  <2> QED
    BY <2>5, <2>6
<1> QED
  BY <1>4, <1>5

(* hci_bit2str takes the entries of the table that have a bit of the value.  *)
LEMMA ChosenArePicked ==
  ASSUME NEW Entries, NEW m \in Seq(Entries), NEW val
  PROVE  HasPicked(Name!Chosen(m, val), Entries, m, val, Len(m))
<1>1. PICK upTo : /\ upTo = CHOOSE f : IsUpTo(f, m, val, Len(m))
                  /\ Name!Chosen(m, val) = upTo[Len(m)]
  BY DEF Name!Chosen, IsUpTo
<1>2. Len(m) \in Nat /\ Len(m) \in 0 .. Len(m)
  OBVIOUS
<1>3. IsUpTo(upTo, m, val, Len(m))
  BY <1>1, <1>2, LoopIsDefined
<1> QED
  BY <1>1, <1>2, <1>3, LoopPicks

(* What the code has between two names: a space, or a comma.                 *)
Separators == {" ", ","}

(* A sequence of entries with a name of their own, which is no separator,    *)
(* and at most one bit.                                                      *)
IsTable(m) ==
  /\ Len(m) \in Nat /\ m = [k \in 1 .. Len(m) |-> m[k]]
  /\ \A j, k \in 1 .. Len(m) : m[j][1] = m[k][1] => j = k
  /\ \A k \in 1 .. Len(m) : m[k][1] \notin Separators
  /\ \A k \in 1 .. Len(m) : \A a, b \in m[k][2] : a = b

(* str has a name at every odd place up to last, and sep at the others.      *)
IsSeparated(str, names, last, sep) ==
  str = [i \in 1 .. last |-> IF i % 2 = 1 THEN names[(i + 1) \div 2] ELSE sep]

LEMMA SeparatedPlaces ==
  ASSUME NEW str, NEW names, NEW last \in Nat, NEW sep,
         IsSeparated(str, names, last, sep)
  PROVE  /\ Len(str) = last /\ DOMAIN str = 1 .. last
         /\ \A i \in 1 .. last :
              str[i] = IF i % 2 = 1 THEN names[(i + 1) \div 2] ELSE sep
<1> DEFINE D == 1 .. last
<1>1. str = [i \in D |-> IF i % 2 = 1 THEN names[(i + 1) \div 2] ELSE sep]
  BY DEF IsSeparated
<1> HIDE DEF D
<1>2. str = [i \in D |-> str[i]]
  BY <1>1
<1>3. \A i \in D : str[i] = IF i % 2 = 1 THEN names[(i + 1) \div 2] ELSE sep
  BY <1>1
<1>4. Len(str) = last /\ DOMAIN str = 1 .. last
  BY <1>2 DEF D
<1> QED
  BY <1>3, <1>4 DEF D

(* Every place of a list with commas is that of a name or of a comma, and    *)
(* those of the names are its tokens (hci.c:85).                             *)
LEMMA ListedTokens ==
  ASSUME NEW names, NEW len \in Nat, Len(names) = len
  PROVE  LET str == Name!Listed(names)
         IN /\ \A i \in DOMAIN str :
                 str[i] = "," \/ \E j \in 1 .. len : str[i] = names[j]
            /\ \A j \in 1 .. len :
                 \E i \in DOMAIN str : Name!IsToken(str, i) /\ str[i] = names[j]
<1> DEFINE str == Name!Listed(names)
           last == 2 * len - 1
<1>1. CASE len = 0
  <2>1. DOMAIN str = 1 .. 2 * len - 1
    BY DEF Name!Listed
  <2> QED
    BY <1>1, <2>1
<1>2. CASE len # 0
  <2>1. last \in Nat /\ last = 2 * len - 1
    BY <1>2
  <2>2. PICK sep : sep = "," /\ IsSeparated(str, names, last, sep)
    BY DEF Name!Listed, IsSeparated
  <2> HIDE DEF str, last
  <2>3. /\ Len(str) = last /\ DOMAIN str = 1 .. last
        /\ \A i \in 1 .. last :
             str[i] = IF i % 2 = 1 THEN names[(i + 1) \div 2] ELSE sep
    <3>1. IsSeparated(str, names, last, sep)
      BY <2>2
    <3> QED
      BY <2>1, <3>1, SeparatedPlaces
  <2>4. ASSUME NEW i \in 1 .. last
        PROVE  str[i] = "," \/ \E j \in 1 .. len : str[i] = names[j]
    <3>1. i % 2 = 1 => (i + 1) \div 2 \in 1 .. len
      BY <2>1
    <3> QED
      BY <3>1, <2>2, <2>3
  <2>5. ASSUME NEW j \in 1 .. len
        PROVE  \E i \in 1 .. last : Name!IsToken(str, i) /\ str[i] = names[j]
    <3> DEFINE i == 2 * j - 1
    <3>1. /\ i \in 1 .. last /\ i % 2 = 1 /\ (i + 1) \div 2 = j
          /\ i # 1 => i - 1 \in 1 .. last /\ (i - 1) % 2 # 1
          /\ i # last => i + 1 \in 1 .. last /\ (i + 1) % 2 # 1
      BY <2>1
    <3> HIDE DEF i
    <3>2. str[i] = names[j]
      BY <3>1, <2>3
    <3>3. (i # 1 => str[i - 1] = ",") /\ (i # last => str[i + 1] = ",")
      BY <3>1, <2>2, <2>3
    <3>4. Name!IsToken(str, i)
      BY <3>3, <2>3 DEF Name!IsToken
    <3> QED
      BY <3>1, <3>2, <3>4
  <2> QED
    BY <2>3, <2>4, <2>5 DEF str
<1> QED
  BY <1>1, <1>2

(* What hci_bit2str prints has no comma to cut it at, and no token of it is  *)
(* a name: the place of a name is not the last, and a space follows it       *)
(* (hci.c:68, 85).                                                           *)
LEMMA PrintedIsUnread ==
  ASSUME NEW m, IsTable(m), NEW val, NEW len \in Nat,
         Len(Name!Names(Name!Chosen(m, val))) = len
  PROVE  ~ Name!hci_str2bit(m, Name!hci_bit2str(m, val)).set
<1> DEFINE names == Name!Names(Name!Chosen(m, val))
           str == Name!hci_bit2str(m, val)
           last == 2 * len
<1>1. last \in Nat /\ last % 2 # 1
  OBVIOUS
<1>2. PICK sep : sep = " " /\ IsSeparated(str, names, last, sep)
  BY DEF Name!hci_bit2str, IsSeparated
<1> HIDE DEF str, names, last
<1>4. /\ Len(str) = last /\ DOMAIN str = 1 .. last
      /\ \A i \in 1 .. last :
           str[i] = IF i % 2 = 1 THEN names[(i + 1) \div 2] ELSE sep
  <2>1. IsSeparated(str, names, last, sep)
    BY <1>2
  <2> QED
    BY <1>1, <2>1, SeparatedPlaces
<1>3. ASSUME NEW i \in 1 .. last, NEW k \in 1 .. Len(m),
             Name!IsToken(str, i), m[k][1] = str[i]
      PROVE  FALSE
  <2>1. CASE i % 2 = 1
    <3>1. i # last /\ i + 1 \in 1 .. last /\ (i + 1) % 2 # 1
      BY <2>1, <1>1
    <3>2. str[i + 1] = sep /\ sep # ","
      BY <3>1, <1>2, <1>4
    <3> QED
      BY <3>1, <3>2, <1>3, <1>4 DEF Name!IsToken
  <2>2. CASE i % 2 # 1
    <3>1. m[k][1] \in Separators
      BY <2>2, <1>2, <1>3, <1>4 DEF Separators
    <3> QED
      BY <3>1 DEF IsTable
  <2> QED
    BY <2>1, <2>2
<1> QED
  <2>1. DOMAIN m = 1 .. Len(m)
    BY DEF IsTable
  <2> QED
    BY <2>1, <1>3, <1>4 DEF Name!hci_str2bit, str

(* In such a table hci_str2bit finds the entries hci_bit2str took when their *)
(* names are listed with commas, their bits are the value's, and it finds    *)
(* none in what hci_bit2str printed (hci.c:57-96).                           *)
LEMMA TableIsRead ==
  ASSUME NEW m, IsTable(m), NEW val
  PROVE  LET names == Name!Names(Name!Chosen(m, val))
         IN /\ Name!hci_str2bit(m, Name!Listed(names)).val
                 = val \cap UNION {m[k][2] : k \in DOMAIN m}
            /\ ~ Name!hci_str2bit(m, Name!hci_bit2str(m, val)).set
<1> DEFINE chosen == Name!Chosen(m, val)
           names == Name!Names(chosen)
           str == Name!Listed(names)
           known == {k \in DOMAIN m :
                       \E i \in DOMAIN str : Name!IsToken(str, i) /\ m[k][1] = str[i]}
<1>1. Name!hci_str2bit(m, str).val = UNION {m[k][2] : k \in known}
  BY DEF Name!hci_str2bit
<1>2. PICK Entries : /\ m \in Seq(Entries) /\ DOMAIN m = 1 .. Len(m)
                     /\ HasPicked(chosen, Entries, m, val, Len(m))
  <2>1. m \in Seq({m[k] : k \in 1 .. Len(m)}) /\ DOMAIN m = 1 .. Len(m)
    BY DEF IsTable
  <2> QED
    BY <2>1, ChosenArePicked
<1>3. /\ Len(chosen) \in Nat /\ Len(names) = Len(chosen)
      /\ DOMAIN names = 1 .. Len(chosen)
      /\ \A i \in 1 .. Len(chosen) : names[i] = chosen[i][1]
  BY <1>2 DEF Name!Names, HasPicked
<1>4. /\ \A i \in DOMAIN str :
           str[i] = "," \/ \E j \in 1 .. Len(chosen) : str[i] = names[j]
      /\ \A j \in 1 .. Len(chosen) :
           \E i \in DOMAIN str : Name!IsToken(str, i) /\ str[i] = names[j]
  <2> HIDE DEF names, chosen
  <2> QED
    BY <1>3, ListedTokens DEF str
<1>5. /\ \A i \in DOMAIN str :
           str[i] = "," \/ \E j \in 1 .. Len(chosen) : str[i] = chosen[j][1]
      /\ \A j \in 1 .. Len(chosen) :
           \E i \in DOMAIN str : Name!IsToken(str, i) /\ str[i] = chosen[j][1]
  <2> HIDE DEF names, chosen, str
  <2>1. ASSUME NEW i \in DOMAIN str, str[i] # ","
        PROVE  \E j \in 1 .. Len(chosen) : str[i] = chosen[j][1]
    <3>1. PICK j \in 1 .. Len(chosen) : str[i] = names[j]
      BY <2>1, <1>4
    <3> QED
      BY <3>1, <1>3
  <2>2. ASSUME NEW j \in 1 .. Len(chosen)
        PROVE  \E i \in DOMAIN str : Name!IsToken(str, i) /\ str[i] = chosen[j][1]
    <3>1. PICK i \in DOMAIN str : Name!IsToken(str, i) /\ str[i] = names[j]
      BY <1>4
    <3> QED
      BY <3>1, <1>3
  <2> QED
    BY <2>1, <2>2
<1>6. \A k \in 1 .. Len(m) : k \in known <=> m[k][2] \cap val # {}
  <2> HIDE DEF str, chosen
  <2> TAKE k \in 1 .. Len(m)
  <2>1. ASSUME k \in known PROVE m[k][2] \cap val # {}
    <3>1. PICK i \in 1 .. Len(chosen) : m[k][1] = chosen[i][1]
      <4>1. PICK i \in DOMAIN str : m[k][1] = str[i]
        BY <2>1
      <4>2. m[k][1] \notin Separators /\ "," \in Separators
        BY DEF IsTable, Separators
      <4> QED
        BY <4>1, <4>2, <1>5
    <3>2. PICK n \in 1 .. Len(m) : m[n][2] \cap val # {} /\ chosen[i] = m[n]
      BY <1>2 DEF HasPicked
    <3> QED
      BY <3>1, <3>2 DEF IsTable
  <2>2. ASSUME m[k][2] \cap val # {} PROVE k \in known
    <3>1. PICK j \in 1 .. Len(chosen) : chosen[j] = m[k]
      BY <2>2, <1>2 DEF HasPicked
    <3>2. PICK i \in DOMAIN str : Name!IsToken(str, i) /\ str[i] = chosen[j][1]
      BY <1>5
    <3> QED
      BY <3>1, <3>2, <1>2
  <2> QED
    BY <2>1, <2>2
<1>7. UNION {m[k][2] : k \in known} = val \cap UNION {m[k][2] : k \in 1 .. Len(m)}
  <2>1. known \subseteq 1 .. Len(m)
    BY <1>2
  <2> HIDE DEF known
  <2> QED
    BY <2>1, <1>6 DEF IsTable
<1>8. ~ Name!hci_str2bit(m, Name!hci_bit2str(m, val)).set
  BY <1>3, PrintedIsUnread
<1> QED
  BY <1>1, <1>2, <1>7, <1>8

(* The types of ACL packets are such a table (hci.c:224-241).                *)
LEMMA PacketTypesAreTable == IsTable(Name!pkt_type_map)
<1> DEFINE m == Name!pkt_type_map
<1>1. /\ Len(m) = 15 /\ m = [k \in 1 .. 15 |-> m[k]]
      /\ 1 .. 15 = {1, 2, 3, 4, 5, 6, 7, 8, 9, 10, 11, 12, 13, 14, 15}
  BY DEF Name!pkt_type_map
<1>2. \A j, k \in {1, 2, 3, 4, 5, 6, 7, 8, 9, 10, 11, 12, 13, 14, 15} :
        m[j][1] = m[k][1] => j = k
  BY DEF Name!pkt_type_map
<1>3. /\ m[1][1] \notin Separators /\ m[2][1] \notin Separators
      /\ m[3][1] \notin Separators /\ m[4][1] \notin Separators
      /\ m[5][1] \notin Separators /\ m[6][1] \notin Separators
      /\ m[7][1] \notin Separators /\ m[8][1] \notin Separators
      /\ m[9][1] \notin Separators /\ m[10][1] \notin Separators
      /\ m[11][1] \notin Separators /\ m[12][1] \notin Separators
      /\ m[13][1] \notin Separators /\ m[14][1] \notin Separators
      /\ m[15][1] \notin Separators
  BY DEF Name!pkt_type_map, Separators
<1>4. \A k \in {1, 2, 3, 4, 5, 6, 7, 8, 9, 10, 11, 12, 13, 14, 15} :
        \A a, b \in m[k][2] : a = b
  BY DEF Name!pkt_type_map
<1> QED
  BY <1>1, <1>2, <1>3, <1>4 DEF IsTable

(* The types of SCO packets are one (hci.c:243-255).                         *)
LEMMA ScoTypesAreTable == IsTable(Name!sco_ptype_map)
<1> DEFINE m == Name!sco_ptype_map
<1>1. /\ Len(m) = 10 /\ m = [k \in 1 .. 10 |-> m[k]]
      /\ 1 .. 10 = {1, 2, 3, 4, 5, 6, 7, 8, 9, 10}
  BY DEF Name!sco_ptype_map
<1>2. \A j, k \in {1, 2, 3, 4, 5, 6, 7, 8, 9, 10} :
        m[j][1] = m[k][1] => j = k
  BY DEF Name!sco_ptype_map
<1>3. /\ m[1][1] \notin Separators /\ m[2][1] \notin Separators
      /\ m[3][1] \notin Separators /\ m[4][1] \notin Separators
      /\ m[5][1] \notin Separators /\ m[6][1] \notin Separators
      /\ m[7][1] \notin Separators /\ m[8][1] \notin Separators
      /\ m[9][1] \notin Separators /\ m[10][1] \notin Separators
  BY DEF Name!sco_ptype_map, Separators
<1>4. \A k \in {1, 2, 3, 4, 5, 6, 7, 8, 9, 10} :
        \A a, b \in m[k][2] : a = b
  BY DEF Name!sco_ptype_map
<1> QED
  BY <1>1, <1>2, <1>3, <1>4 DEF IsTable

(* The link policies are one (hci.c:278-285).                                *)
LEMMA PoliciesAreTable == IsTable(Name!link_policy_map)
<1> DEFINE m == Name!link_policy_map
<1>1. /\ Len(m) = 5 /\ m = [k \in 1 .. 5 |-> m[k]]
      /\ 1 .. 5 = {1, 2, 3, 4, 5}
  BY DEF Name!link_policy_map
<1>2. \A j, k \in {1, 2, 3, 4, 5} :
        m[j][1] = m[k][1] => j = k
  BY DEF Name!link_policy_map
<1>3. /\ m[1][1] \notin Separators /\ m[2][1] \notin Separators
      /\ m[3][1] \notin Separators /\ m[4][1] \notin Separators
      /\ m[5][1] \notin Separators
  BY DEF Name!link_policy_map, Separators
<1>4. \A k \in {1, 2, 3, 4, 5} :
        \A a, b \in m[k][2] : a = b
  BY DEF Name!link_policy_map
<1> QED
  BY <1>1, <1>2, <1>3, <1>4 DEF IsTable

(* The link modes are one (hci.c:298-308).                                   *)
LEMMA ModesAreTable == IsTable(Name!link_mode_map)
<1> DEFINE m == Name!link_mode_map
<1>1. /\ Len(m) = 8 /\ m = [k \in 1 .. 8 |-> m[k]]
      /\ 1 .. 8 = {1, 2, 3, 4, 5, 6, 7, 8}
  BY DEF Name!link_mode_map
<1>2. \A j, k \in {1, 2, 3, 4, 5, 6, 7, 8} :
        m[j][1] = m[k][1] => j = k
  BY DEF Name!link_mode_map
<1>3. /\ m[1][1] \notin Separators /\ m[2][1] \notin Separators
      /\ m[3][1] \notin Separators /\ m[4][1] \notin Separators
      /\ m[5][1] \notin Separators /\ m[6][1] \notin Separators
      /\ m[7][1] \notin Separators /\ m[8][1] \notin Separators
  BY DEF Name!link_mode_map, Separators
<1>4. \A k \in {1, 2, 3, 4, 5, 6, 7, 8} :
        \A a, b \in m[k][2] : a = b
  BY DEF Name!link_mode_map
<1> QED
  BY <1>1, <1>2, <1>3, <1>4 DEF IsTable

(* The names that one of the four tables has for the bits of a value, listed *)
(* with commas, are read as these bits and no other, and the string with     *)
(* spaces that hci_bit2str prints is read as no name at all, for every       *)
(* value: the part of NamesFitAndRead that is not about the lengths of       *)
(* strings (hci.c:57-96, 224-335).                                           *)
THEOREM NamesOfBitsAreRead ==
  ASSUME NEW val
  PROVE  Name!NamesRead(val)
  BY PacketTypesAreTable, ScoTypesAreTable, PoliciesAreTable, ModesAreTable,
     TableIsRead DEF Name!NamesRead, Name!ReadTables
=============================================================================
