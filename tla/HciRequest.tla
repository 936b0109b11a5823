----------------------------- MODULE HciRequest -----------------------------
(***************************************************************************)
(* hci_send_req of the HCI library: a raw socket's filter is replaced, a   *)
(* command is sent to the controller, at most ten packets are read until   *)
(* one is taken for its answer, and the filter is put back.                *)
(*                                                                         *)
(* Every raw socket sees the events of the whole controller that pass its  *)
(* filter: those of other processes' commands, those of its own earlier    *)
(* commands that it gave up on, and those that nobody asked for, such as   *)
(* the end of a connection. The id of a command and of the events it       *)
(* causes is the model's: the code has no such thing.                      *)
(***************************************************************************)
EXTENDS HciCommands, Sequences, FiniteSets

CONSTANTS
  Requests,       \* the commands the client sends
  OtherRequests,  \* those other processes send
  Unsolicited,    \* the kinds of events the controller reports unasked
  Devices,        \* the remote devices a command may be about
  Timeouts,       \* the values of to
  TRIES,          \* 10
  STEP,           \* what an attempt takes off to (10)
  UserFilters,    \* the filters the socket may have before a call
  MaxCalls,       \* bound: calls of hci_send_req
  MaxOthers       \* bound: commands of other processes and unasked events

Other == 0   \* the id of what no command of this client has caused

(* What an event tells of itself: its code, and the subevent of an LE event. *)
EventKinds ==
  [evt : EventCodes \ {EVT_CMD_COMPLETE, EVT_CMD_STATUS, EVT_LE_META_EVENT},
   sub : {0}]
    \cup [evt : {EVT_LE_META_EVENT}, sub : LeSubevents]

ASSUME RequestAssumption ==
  /\ Requests \subseteq Commands
  /\ \A c \in OtherRequests :
       \/ c.event = 0
       \/ \E k \in EventKinds :
            /\ k.evt = EVT_LE_META_EVENT <=> c.le
            /\ c.event = IF c.le THEN k.sub ELSE k.evt
  /\ Unsolicited \subseteq EventKinds
  /\ TRIES \in Nat \ {0} /\ STEP \in Nat \ {0}
  /\ Timeouts \subseteq Nat
  /\ MaxCalls \in Nat

VARIABLES
  hpc,         \* where hci_send_req is
  r,           \* its request: the command, the device and the id
  filter,      \* the socket's filter
  of,          \* the one to put back
  userFilter,  \* the one the user of the library set
  to, try,
  queue,       \* what the socket has for read
  pending,     \* the commands the controller works on
  answer,      \* the packet taken for the answer, as a sequence of at most one
  calls, others,   \* counters of the bounds
  unasked,     \* the kinds of the events reported unasked so far, in order
  gaveUp,      \* a call has failed, perhaps before its answer came
  refused,     \* the ids of the commands the controller did not carry out
  returned     \* whether the last function returned success

clientVars == <<hpc, r, filter, of, to, try, answer, gaveUp, returned>>
hciVars == <<clientVars, userFilter, queue, pending, calls, others, unasked,
             refused>>

NoFilter == [events |-> {}, opcode |-> 0]
(* The devices a command is followed for: those that answer it by an event.  *)
About(c) == IF c.event = 0 THEN {0} ELSE Devices

(* Those an unasked event is followed for: only a name's is looked at.       *)
Concerns(k) == IF k.evt = EVT_REMOTE_NAME_REQ_COMPLETE THEN Devices ELSE {0}

NoRequest == [cmd |-> [event |-> -1], dev |-> 0, id |-> 0]

HciInit ==
  /\ hpc = "idle"
  /\ r = NoRequest
  /\ userFilter \in UserFilters
  /\ filter = userFilter
  /\ of = NoFilter
  /\ to = 0
  /\ try = 0
  /\ queue = <<>>
  /\ pending = {}
  /\ answer = <<>>
  /\ calls = 0
  /\ others = 0
  /\ unasked = <<>>
  /\ gaveUp = FALSE
  /\ refused = {}
  /\ returned = FALSE

-----------------------------------------------------------------------------
(* The controller and the kernel.                                            *)

(* A filter has a bit for the last six bits of an event's code.              *)
FilterBit(evt) == evt % 64

(* What a filter lets through; its opcode only concerns the two events that  *)
(* carry one.                                                                *)
Passes(e, f) ==
  /\ FilterBit(e.evt) \in f.events
  /\ e.evt \in {EVT_CMD_COMPLETE, EVT_CMD_STATUS} => f.opcode \in {0, e.opcode}

Deliver(e) == queue' = IF Passes(e, filter) THEN Append(queue, e) ELSE queue

Event(p, evt, sub, status) ==
  [evt |-> evt, sub |-> sub, status |-> status, opcode |-> p.cmd.opcode,
   dev |-> p.dev, id |-> p.id]

Refuse(p, status) ==
  refused' = IF status = 0 THEN refused ELSE refused \cup {p.id}

(* A command is answered at once, or acknowledged and finished later.        *)
ControllerAnswers(p) ==
  /\ ~ p.busy
  /\ \E status \in {0, 1} :
       /\ Refuse(p, status)
       /\ IF p.cmd.event = 0
            THEN Deliver(Event(p, EVT_CMD_COMPLETE, 0, status))
            ELSE Deliver(Event(p, EVT_CMD_STATUS, 0, status))
       /\ pending' = IF p.cmd.event # 0 /\ status = 0
                       THEN (pending \ {p}) \cup {[p EXCEPT !.busy = TRUE]}
                       ELSE pending \ {p}
  /\ UNCHANGED <<clientVars, userFilter, calls, others, unasked>>

ControllerFinishes(p) ==
  /\ p.busy
  /\ \E status \in {0, 1} :
       /\ Refuse(p, status)
       /\ IF p.cmd.le
            THEN Deliver(Event(p, EVT_LE_META_EVENT, p.cmd.event, status))
            ELSE Deliver(Event(p, p.cmd.event, 0, status))
  /\ pending' = pending \ {p}
  /\ UNCHANGED <<clientVars, userFilter, calls, others, unasked>>

OtherProcessSends(c, d) ==
  /\ others + Len(unasked) < MaxOthers
  /\ hpc # "idle"
  /\ others' = others + 1
  /\ pending' = pending \cup {[cmd |-> c, dev |-> d, id |-> Other, busy |-> FALSE]}
  /\ UNCHANGED <<clientVars, userFilter, queue, calls, unasked, refused>>

(* An event no command has caused: a connection that is asked for or ends, a *)
(* change the remote side has made.                                          *)
ControllerReports(k, d) ==
  /\ others + Len(unasked) < MaxOthers
  /\ unasked' = Append(unasked, k)
  /\ \E status \in {0, 1} :
       Deliver([evt |-> k.evt, sub |-> k.sub, status |-> status, opcode |-> 0,
                dev |-> d, id |-> Other])
  /\ UNCHANGED <<clientVars, userFilter, pending, calls, others, refused>>

-----------------------------------------------------------------------------
(* hci_send_req. A getsockopt or setsockopt that fails before the command is *)
(* sent returns with nothing changed.                                        *)

(* nf, built with hci_filter_clear, hci_filter_set_event and _set_opcode.    *)
RequestFilter(c) ==
  [events |-> {FilterBit(e) : e \in {EVT_CMD_STATUS, EVT_CMD_COMPLETE,
                                     EVT_LE_META_EVENT, c.event}},
   opcode |-> c.opcode]

(* Bounds: the first call names a fixed device, the devices being alike, and  *)
(* the others all have the longest time.                                      *)
Call(c, d, t) ==
  /\ hpc = "idle"
  /\ IF calls = 0 THEN d \in {0, CHOOSE x \in Devices : TRUE}
                  ELSE \A u \in Timeouts : u <= t
  /\ calls < MaxCalls
  /\ calls' = calls + 1
  /\ r' = [cmd |-> c, dev |-> d, id |-> calls']
  /\ of' = filter
  /\ filter' = RequestFilter(c)
  /\ to' = t
  /\ try' = TRIES
  /\ answer' = <<>>
  /\ hpc' = "send"
  /\ returned' = FALSE
  /\ UNCHANGED <<userFilter, queue, pending, others, unasked, gaveUp,
                 refused>>

(* writev is repeated while it is interrupted.                               *)
hci_send_cmd ==
  /\ hpc = "send"
  /\ \/ /\ pending' = pending \cup
             {[cmd |-> r.cmd, dev |-> r.dev, id |-> r.id, busy |-> FALSE]}
        /\ hpc' = "poll"
     \/ hpc' = "failed" /\ UNCHANGED pending
  /\ UNCHANGED <<r, filter, of, userFilter, to, try, queue, answer, calls,
                 others, unasked, gaveUp, refused, returned>>

(* Mutant: the time left shrinks twice as fast.                              *)
Poll_Twice ==
  /\ hpc = "poll"
  /\ \/ try = 0 /\ hpc' = "failed" /\ UNCHANGED <<to, try>>
     \/ /\ try > 0 /\ to = 0
        /\ hpc' = "read" /\ try' = try - 1 /\ UNCHANGED to
     \/ /\ try > 0 /\ to > 0 /\ queue # <<>>
        /\ to' = IF to > 2 * STEP THEN to - 2 * STEP ELSE 0
        /\ hpc' = "read" /\ try' = try - 1
     \/ /\ try > 0 /\ to > 0 /\ queue = <<>>       \* the time is over
        /\ hpc' = "failed" /\ try' = try - 1 /\ UNCHANGED to
  /\ UNCHANGED <<r, filter, of, userFilter, queue, pending, answer, calls,
                 others, unasked, gaveUp, refused, returned>>

(* Mutant: --try is tested where try-- is meant.                             *)
Poll_CountDown ==
  /\ hpc = "poll"
  /\ \/ try < 0 /\ hpc' = "failed" /\ UNCHANGED <<to, try>>
     \/ /\ try >= 0 /\ to = 0
        /\ hpc' = "read" /\ try' = try - 1 /\ UNCHANGED to
     \/ /\ try >= 0 /\ to > 0 /\ queue # <<>>
        /\ to' = IF to > STEP THEN to - STEP ELSE 0
        /\ hpc' = "read" /\ try' = try - 1
     \/ /\ try >= 0 /\ to > 0 /\ queue = <<>>       \* the time is over
        /\ hpc' = "failed" /\ try' = try - 1 /\ UNCHANGED to
  /\ UNCHANGED <<r, filter, of, userFilter, queue, pending, answer, calls,
                 others, unasked, gaveUp, refused, returned>>

(* An attempt polls only while there is time left; with none it goes straight*)
(* to a read that blocks.                                                    *)
Poll ==
  /\ hpc = "poll"
  /\ \/ try = 0 /\ hpc' = "failed" /\ UNCHANGED <<to, try>>
     \/ /\ try > 0 /\ to = 0
        /\ hpc' = "read" /\ try' = try - 1 /\ UNCHANGED to
     \/ /\ try > 0 /\ to > 0 /\ queue # <<>>
        /\ to' = IF to > STEP THEN to - STEP ELSE 0
        /\ hpc' = "read" /\ try' = try - 1
     \/ /\ try > 0 /\ to > 0 /\ queue = <<>>       \* the time is over
        /\ hpc' = "failed" /\ try' = try - 1 /\ UNCHANGED to
  /\ UNCHANGED <<r, filter, of, userFilter, queue, pending, answer, calls,
                 others, unasked, gaveUp, refused, returned>>

(* Mutant: the address of a remote name is not compared.                     *)
Verdict_AnyName(e) ==
  CASE e.evt = EVT_CMD_STATUS ->
         IF e.opcode = r.cmd.opcode /\ e.status # 0 THEN "failed" ELSE "poll"
    [] e.evt = EVT_CMD_COMPLETE ->
         IF e.opcode = r.cmd.opcode THEN "done" ELSE "poll"
    [] e.evt = EVT_REMOTE_NAME_REQ_COMPLETE ->
         IF e.evt = r.cmd.event THEN "done" ELSE "poll"
    [] e.evt = EVT_LE_META_EVENT ->
         IF e.sub = r.cmd.event THEN "done" ELSE "poll"
    [] OTHER ->
         IF e.evt = r.cmd.event THEN "done" ELSE "poll"

(* Mutant: an acknowledgement is taken for the answer.                       *)
Verdict_StatusEnds(e) ==
  CASE e.evt = EVT_CMD_STATUS ->
         IF e.opcode # r.cmd.opcode THEN "poll"
         ELSE IF e.status # 0 THEN "failed" ELSE "done"
    [] e.evt = EVT_CMD_COMPLETE ->
         IF e.opcode = r.cmd.opcode THEN "done" ELSE "poll"
    [] e.evt = EVT_REMOTE_NAME_REQ_COMPLETE ->
         IF e.evt = r.cmd.event /\ e.dev = r.dev THEN "done" ELSE "poll"
    [] e.evt = EVT_LE_META_EVENT ->
         IF e.sub = r.cmd.event THEN "done" ELSE "poll"
    [] OTHER ->
         IF e.evt = r.cmd.event THEN "done" ELSE "poll"

(* Mutant: the default branch does not compare the event.                    *)
Verdict_AnyEvent(e) ==
  CASE e.evt = EVT_CMD_STATUS ->
         IF e.opcode = r.cmd.opcode /\ e.status # 0 THEN "failed" ELSE "poll"
    [] e.evt = EVT_CMD_COMPLETE ->
         IF e.opcode = r.cmd.opcode THEN "done" ELSE "poll"
    [] e.evt = EVT_REMOTE_NAME_REQ_COMPLETE ->
         IF e.evt = r.cmd.event /\ e.dev = r.dev THEN "done" ELSE "poll"
    [] e.evt = EVT_LE_META_EVENT ->
         IF e.sub = r.cmd.event THEN "done" ELSE "poll"
    [] OTHER -> "done"

(* What the switch makes of a packet: the next step of the loop. No request  *)
(* of the library asks for EVT_CMD_STATUS itself.                            *)
Verdict(e) ==
  CASE e.evt = EVT_CMD_STATUS ->
         IF e.opcode = r.cmd.opcode /\ e.status # 0 THEN "failed" ELSE "poll"
    [] e.evt = EVT_CMD_COMPLETE ->
         IF e.opcode = r.cmd.opcode THEN "done" ELSE "poll"
    [] e.evt = EVT_REMOTE_NAME_REQ_COMPLETE ->
         IF e.evt = r.cmd.event /\ e.dev = r.dev THEN "done" ELSE "poll"
    [] e.evt = EVT_LE_META_EVENT ->
         IF e.sub = r.cmd.event THEN "done" ELSE "poll"
    [] OTHER ->
         IF e.evt = r.cmd.event THEN "done" ELSE "poll"

ReadPacket ==
  /\ hpc = "read"
  /\ queue # <<>>
  /\ queue' = Tail(queue)
  /\ hpc' = Verdict(Head(queue))
  /\ answer' = IF hpc' = "done" THEN <<Head(queue)>> ELSE <<>>
  /\ UNCHANGED <<r, filter, of, userFilter, to, try, pending, calls, others,
                 unasked, gaveUp, refused, returned>>

(* poll or read returns an error other than EAGAIN and EINTR.                *)
SocketFails ==
  /\ hpc \in {"poll", "read"}
  /\ hpc' = "failed"
  /\ UNCHANGED <<r, filter, of, userFilter, to, try, queue, pending, answer,
                 calls, others, unasked, gaveUp, refused, returned>>

(* The call's variables are gone.                                            *)
LeaveCall ==
  /\ hpc' = "idle"
  /\ of' = NoFilter
  /\ to' = 0
  /\ try' = 0
  /\ answer' = <<>>

(* Mutant: the failed: exit leaves the request's filter in place.            *)
Return_KeepFilter ==
  /\ hpc \in {"failed", "done"}
  /\ filter' = IF hpc = "done" THEN of ELSE filter
  /\ returned' = /\ hpc = "done"
                 /\ ChecksStatus(r.cmd) => answer[1].status = 0
  /\ gaveUp' = (gaveUp \/ hpc = "failed")
  /\ LeaveCall
  /\ UNCHANGED <<r, userFilter, queue, pending, calls, others, unasked,
                 refused>>

(* Mutant: the status is not looked at.                                      *)
Return_NoStatus ==
  /\ hpc \in {"failed", "done"}
  /\ filter' = of
  /\ returned' = (hpc = "done")
  /\ gaveUp' = (gaveUp \/ hpc = "failed")
  /\ LeaveCall
  /\ UNCHANGED <<r, userFilter, queue, pending, calls, others, unasked,
                 refused>>

(* failed: and done: put the filter back; the library's function then looks  *)
(* at the status, if it is one that does.                                    *)
Return ==
  /\ hpc \in {"failed", "done"}
  /\ filter' = of
  /\ returned' = /\ hpc = "done"
                 /\ ChecksStatus(r.cmd) => answer[1].status = 0
  /\ gaveUp' = (gaveUp \/ hpc = "failed")
  /\ LeaveCall
  /\ UNCHANGED <<r, userFilter, queue, pending, calls, others, unasked,
                 refused>>

hci_send_req == hci_send_cmd \/ Poll \/ ReadPacket \/ Return

Controller ==
  \/ \E p \in pending : ControllerAnswers(p) \/ ControllerFinishes(p)
  \/ \E c \in OtherRequests : \E d \in About(c) : OtherProcessSends(c, d)
  \/ \E k \in Unsolicited : \E d \in Concerns(k) : ControllerReports(k, d)

HciNext ==
  \/ \E c \in Requests, t \in Timeouts : \E d \in About(c) : Call(c, d, t)
  \/ hci_send_req
  \/ SocketFails
  \/ Controller

-----------------------------------------------------------------------------
(* Properties.                                                               *)

HciTypeOK ==
  /\ hpc \in {"idle", "send", "poll", "read", "failed", "done"}
  /\ try \in 0 .. TRIES
  /\ to \in Nat
  /\ hpc = "done" <=> answer # <<>>
  /\ Len(answer) <= 1
  /\ \A p \in pending : p.id \in 0 .. MaxCalls

(* Between calls the socket has the filter its user gave it, whichever of    *)
(* the ways out of hci_send_req was taken.                                   *)
FilterRestored == hpc = "idle" => filter = userFilter

(* The code hci_send_req compares with the one it waits for.                 *)
Code(k) == IF k.evt = EVT_LE_META_EVENT THEN k.sub ELSE k.evt

(* The controller has reported an event of its own accord whose code is the  *)
(* one the command c waits for. Nothing waits for the code 0.                *)
Misled(c) == \E i \in DOMAIN unasked : Code(unasked[i]) = c.event

(* The answer taken is the one to this very command, unless another process  *)
(* has sent commands, an earlier call gave up and its answer came late, or   *)
(* an event with the awaited code was reported unasked, which the default    *)
(* branch takes for the answer. A command that is answered by its completion *)
(* is misled by no event, whatever the controller reports.                   *)
OwnAnswer ==
  hpc = "done" /\ others = 0 /\ ~ gaveUp /\ ~ Misled(r.cmd)
    => answer[1].id = r.id

(* The command's event has the code of some LE subevent, or its LE subevent  *)
(* the code of some event, of all those that hci.h has: an event that any    *)
(* process or nobody at all has asked for may pass for the answer.           *)
Ambiguous(c) == IF c.le THEN c.event \in EventCodes ELSE c.event \in LeSubevents

(* Whatever the controller reports, and whoever asked for it, the answer     *)
(* taken is of the kind the command asked for, except for the commands whose *)
(* event shares its code with one of the other kind: the switch does not     *)
(* tell the two apart. A remote name is that of the device asked about,      *)
(* although other processes may be asking for names at the same time.        *)
AnswerOfAskedKind ==
  hpc = "done" /\ ~ Ambiguous(r.cmd) =>
    /\ answer[1].evt = EVT_REMOTE_NAME_REQ_COMPLETE => answer[1].dev = r.dev
    /\ \/ answer[1].evt = EVT_CMD_COMPLETE /\ answer[1].opcode = r.cmd.opcode
       \/ r.cmd.le /\ answer[1].evt = EVT_LE_META_EVENT
       \/ ~ r.cmd.le /\ answer[1].evt = r.cmd.event

(* A function that looks at the status never reports success for a command   *)
(* the controller refused, at once or later, unless it was misled as above:  *)
(* by another process's events, a late answer, or an event nobody asked for  *)
(* that has the awaited code and may come before the command's own status.   *)
RefusalIsReported ==
  returned /\ ChecksStatus(r.cmd) /\ others = 0 /\ ~ gaveUp /\ ~ Misled(r.cmd)
    => r.id \notin refused

(* A call whose time is enough for a poll before every attempt returns, even *)
(* if the controller never answers: it is never left in a read that blocks.  *)
PolledCallsReturn ==
  \A t \in {u \in Timeouts : u > (TRIES - 1) * STEP} :
    hpc = "send" /\ to = t ~> hpc = "idle"

=============================================================================
