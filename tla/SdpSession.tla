----------------------------- MODULE SdpSession -----------------------------
(***************************************************************************)
(* A client's session with an SDP server (sdp.c): connecting and closing,  *)
(* the calls that send a request and wait for the response, those that     *)
(* start a transaction whose responses the event loop hands to             *)
(* sdp_process, and registering and removing a record.  An answer may come *)
(* in fragments, for each of which the client sends its request again with *)
(* a new transaction id and the server's continuation state.               *)
(*                                                                         *)
(* The server is external: it answers every request in order, each answer  *)
(* in as many fragments as it likes up to a bound, takes its time, may     *)
(* refuse, and may go away.  Each response is written whole, and none is   *)
(* read in parts.  The client waits for a transaction to end before it     *)
(* starts anything else in the session, and registers one record.          *)
(***************************************************************************)
EXTENDS Integers, Sequences

CONSTANTS
  Tids,         \* how many transaction ids there are: 2^16 in the code
  PerFragment,  \* how many record handles a fragment of a search has
  MaxFragments, \* bound: fragments of an answer
  MaxCalls,     \* bound: calls
  MaxSessions   \* bound: sessions

ASSUME SessAssumption ==
  /\ Tids \in Nat /\ MaxCalls \in Nat /\ MaxCalls < Tids
  /\ PerFragment \in 1..65535 /\ MaxFragments \in Nat \ {0} /\ MaxSessions \in Nat

Queries == {"search", "attr", "search_attr"}

VARIABLES
  pc,        \* "none", "connecting", "idle", "send", "process", or
             \* "select" and "recv", where a call waits for its response
  local,     \* session->local
  retry,     \* SDP_RETRY_IF_BUSY
  tid,       \* session->tid
  cur,       \* the call: its number, kind, whether it is asynchronous, reqhdr->tid,
             \* the continuation state (0: none), the fragments so far and csrc
  results,   \* what each call came to, and how often its caller was told
  record,    \* the record: "held" or "freed", and its handle (0: none)
  up, down,  \* requests and responses on their way
  there,     \* whether the server is
  db,        \* the server's record handles
  answers,   \* how many fragments the server's answer to each call has in all
  sessions   \* sessions so far

clientVarsButResults == <<pc, local, retry, tid, cur, record, sessions>>
clientVars == <<clientVarsButResults, results>>
serverVars == <<there, db, answers>>
sessVars == <<clientVars, serverVars, up, down>>

NoCall == [n |-> 0, kind |-> "search", async |-> FALSE, tid |-> 0, cstate |-> 0,
           got |-> <<>>, count |-> 0]
Pending == [st |-> "pending", got |-> <<>>, count |-> 0, told |-> 0]

SessInit ==
  /\ pc = "none" /\ local = FALSE /\ retry = FALSE
  /\ tid = 0
  /\ cur = NoCall
  /\ results = <<>>
  /\ record = [st |-> "held", handle |-> 0]
  /\ up = <<>> /\ down = <<>>
  /\ there = FALSE
  /\ db = {}
  /\ answers = <<>>
  /\ sessions = 0

-----------------------------------------------------------------------------
(* The server.                                                               *)

(* One response to the oldest request: to a query, the next fragment, after  *)
(* which there may be more, or, to a search, that there are no such records; *)
(* to the others, that it is done; or an error.                              *)
Respond(req, pdu, cstate, fragment) ==
  down' = Append(down, [tid |-> req.tid, pdu |-> pdu, cstate |-> cstate,
                        fragment |-> fragment])

ServerAnswers ==
  /\ there /\ up # <<>>
  /\ up' = Tail(up)
  /\ LET req == Head(up)
         here == req.cstate + 1
     IN \/ /\ req.kind \in Queries
           /\ \E more \in IF here < MaxFragments THEN BOOLEAN ELSE {FALSE} :
                /\ Respond(req, "rsp", IF more THEN here ELSE 0, <<req.n, here>>)
                /\ answers' = IF more THEN answers ELSE [answers EXCEPT ![req.n] = here]
           /\ UNCHANGED db
        \/ /\ req.kind = "search" /\ req.cstate = 0
           /\ Respond(req, "none", 0, <<req.n, 0>>)
           /\ UNCHANGED <<db, answers>>
        \/ /\ req.kind = "register"
           /\ Respond(req, "rsp", 0, <<req.n, 1>>)
           /\ db' = db \cup {req.n}
           /\ answers' = [answers EXCEPT ![req.n] = 1]
        \/ /\ req.kind = "remove" /\ req.handle \in db
           /\ Respond(req, "rsp", 0, <<req.n, 1>>)
           /\ db' = db \ {req.handle}
           /\ answers' = [answers EXCEPT ![req.n] = 1]
        \/ /\ Respond(req, "error", 0, <<req.n, 0>>)
           /\ UNCHANGED <<db, answers>>
  /\ UNCHANGED <<clientVars, there>>

(* When a connection ends, the server drops its records or keeps them.       *)
(* What it has sent can still be read; then recv returns 0.                  *)
ServerHangsUp ==
  /\ there
  /\ there' = FALSE
  /\ up' = <<>>
  /\ db' \in {db, {}}
  /\ UNCHANGED <<clientVars, answers, down>>

-----------------------------------------------------------------------------
(* Sessions.                                                                 *)

(* sdp_connect makes a session, whose transaction ids begin at 0, and its    *)
(* socket. A local server is never busy.                                     *)
sdp_connect(isLocal, isRetry) ==
  /\ pc = "none" /\ sessions < MaxSessions
  /\ ~(isLocal /\ isRetry)
  /\ pc' = "connecting"
  /\ local' = isLocal /\ retry' = isRetry
  /\ tid' = 0
  /\ sessions' = sessions + 1
  /\ UNCHANGED <<cur, results, record, serverVars, up, down>>

(* connect succeeds, or is tried again while the device is busy if that was  *)
(* asked for, or fails and closes the socket.                                *)
ConnectReturns ==
  /\ pc = "connecting"
  /\ \/ pc' = "idle" /\ there' = TRUE
     \/ pc' = "connecting" /\ retry /\ UNCHANGED there
     \/ pc' = "none" /\ UNCHANGED there
  /\ UNCHANGED <<local, retry, tid, cur, results, record, sessions, db, answers, up, down>>

(* sdp_close, between calls or in the middle of a transaction, of which      *)
(* nothing is heard any more.                                                *)
sdp_close ==
  /\ pc \in {"idle", "process"}
  /\ pc' = "none"
  /\ there' = FALSE
  /\ up' = <<>> /\ down' = <<>>
  /\ db' \in IF there THEN {db, {}} ELSE {db}
  /\ results' = IF pc = "process" THEN [results EXCEPT ![cur.n].st = "closed"]
                                  ELSE results
  /\ cur' = NoCall
  /\ UNCHANGED <<local, retry, tid, record, sessions, answers>>

-----------------------------------------------------------------------------
(* Sending.                                                                  *)

(* The call returns, or its transaction's callback is called.                *)
Tell(st, got, count) ==
  results' = [results EXCEPT ![cur.n] =
                [st |-> st, got |-> got, count |-> count, told |-> @.told + 1]]

Finish(st, got, count) == Tell(st, got, count) /\ pc' = "idle"

NextTid == (tid + 1) % Tids

(* The request of the call c, sent if the connection is up to it.            *)
Send(c) == up' = Append(up, [n |-> c.n, tid |-> c.tid, kind |-> c.kind,
                             cstate |-> c.cstate, handle |-> record.handle])

(* A call begins.                                                            *)
Begin(kind, async) ==
  /\ pc = "idle" /\ Len(results) < MaxCalls
  /\ answers' = Append(answers, 0)
  /\ results' = Append(results, Pending)
  /\ cur' = [NoCall EXCEPT !.n = Len(results'), !.kind = kind, !.async = async]
  /\ pc' = "send"
  /\ UNCHANGED <<local, retry, tid, record, sessions, there, db, up, down>>

(* A call about the record, refused unless the session is with the local     *)
(* server.                                                                   *)
BeginLocal(kind) ==
  \/ local /\ Begin(kind, FALSE)
  \/ /\ ~local
     /\ pc = "idle" /\ Len(results) < MaxCalls
     /\ answers' = Append(answers, 0)
     /\ results' = Append(results, [Pending EXCEPT !.st = "failed", !.told = 1])
     /\ UNCHANGED <<clientVarsButResults, there, db, up, down>>

sdp_service_search_req == Begin("search", FALSE)
sdp_service_attr_req == Begin("attr", FALSE)
sdp_service_search_attr_req == Begin("search_attr", FALSE)
sdp_service_search_async == Begin("search", TRUE)
sdp_service_attr_async == Begin("attr", TRUE)
sdp_service_search_attr_async == Begin("search_attr", TRUE)

sdp_device_record_register ==
  record.st = "held" /\ record.handle = 0 /\ BeginLocal("register")

sdp_device_record_unregister ==
  record.st = "held" /\ record.handle # 0 /\ BeginLocal("remove")

(* The request is made with a new transaction id and what continuation state *)
(* there is, and sent. If that fails the call returns, or the transaction is *)
(* not started and has no callback.                                          *)
SendRequest ==
  /\ pc = "send"
  /\ tid' = NextTid
  /\ cur' = [cur EXCEPT !.tid = tid]
  /\ \/ /\ there
        /\ Send(cur')
        /\ pc' = IF cur.async THEN "process" ELSE "select"
        /\ UNCHANGED results
     \/ /\ IF cur.async
             THEN /\ results' = [results EXCEPT ![cur.n].st = "unsent"]
                  /\ pc' = "idle"
             ELSE Finish("failed", cur.got, 0)
        /\ UNCHANGED up
  /\ UNCHANGED <<local, retry, record, sessions, serverVars, down>>

-----------------------------------------------------------------------------
(* Receiving.                                                                *)

(* Mutant: the response is taken without a look at its transaction id.       *)
Belongs_Any(rsp) == rsp.tid \in 0..(Tids - 1)

(* Whether a response belongs to the request: only its transaction id tells. *)
Belongs(rsp) == rsp.tid = cur.tid

(* Mutant: a record is freed whatever came of its removal.                   *)
RecordAfter_Always(ok, rsp) ==
  CASE ok /\ cur.kind = "register" -> [record EXCEPT !.handle = rsp.fragment[1]]
    [] cur.kind = "remove" -> [record EXCEPT !.st = "freed"]
    [] OTHER -> record

(* The record once a call has its response: a registered one has the handle  *)
(* the server gave it, a removed one is freed.                               *)
RecordAfter(ok, rsp) ==
  CASE ok /\ cur.kind = "register" -> [record EXCEPT !.handle = rsp.fragment[1]]
    [] ok /\ cur.kind = "remove" -> [record EXCEPT !.st = "freed"]
    [] OTHER -> record

(* What each call takes for an answer. A search without records is none; the *)
(* others look for an error.                                                 *)
SearchAnswer(rsp) == rsp.pdu = "rsp"
AttrAnswer(rsp) == rsp.pdu # "error"
SearchAttrAnswer(rsp) == rsp.pdu # "error"
RegisterAnswer(rsp) == rsp.pdu = "rsp"
RemoveAnswer(rsp) == rsp.pdu = "rsp"

Answers(rsp) ==
  CASE cur.kind = "search" -> SearchAnswer(rsp)
    [] cur.kind = "attr" -> AttrAnswer(rsp)
    [] cur.kind = "search_attr" -> SearchAttrAnswer(rsp)
    [] cur.kind = "register" -> RegisterAnswer(rsp)
    [] cur.kind = "remove" -> RemoveAnswer(rsp)

(* recv takes the oldest response. A local session's socket is a stream:     *)
(* there it may take several that have come, and the first is looked at.     *)
TakeResponses ==
  \E n \in 1..(IF local THEN Len(down) ELSE 1) : down' = SubSeq(down, n + 1, Len(down))

Reading == pc \in {"select", "recv"}

(* select fails, because a signal has come: only its 0 is looked at, so recv *)
(* is called whether or not there is anything, and has no time-out.          *)
SelectFails ==
  /\ pc = "select"
  /\ pc' = "recv"
  /\ UNCHANGED <<local, retry, tid, cur, results, record, sessions, serverVars, up, down>>

(* sdp_send_req_w4_rsp has a response. One that is not the request's, an     *)
(* error, or a search without records ends the call. A fragment with a       *)
(* continuation state goes round again; the last one ends it well.           *)
Receive ==
  /\ Reading /\ down # <<>>
  /\ TakeResponses
  /\ LET rsp == Head(down)
         ok == Belongs(rsp) /\ Answers(rsp)
         got == Append(cur.got, rsp.fragment)
     IN /\ IF ok /\ rsp.cstate # 0
             THEN /\ cur' = [cur EXCEPT !.got = got, !.cstate = rsp.cstate]
                  /\ pc' = "send"
                  /\ UNCHANGED results
             ELSE /\ IF ok THEN Finish("ok", got, 0) ELSE Finish("failed", cur.got, 0)
                  /\ UNCHANGED cur
        /\ record' = RecordAfter(ok, rsp)
  /\ UNCHANGED <<local, retry, tid, sessions, serverVars, up>>

(* There is nothing to read, and the call returns without an answer.         *)
GivesUp ==
  /\ Reading /\ down = <<>>
  /\ Finish("failed", cur.got, 0)
  /\ UNCHANGED <<local, retry, tid, cur, record, sessions, serverVars, up, down>>

(* Mutant: select waits without a time-out.                                  *)
NoResponse_Waits == ~there /\ GivesUp

(* select returns 0 after SDP_RESPONSE_TIMEOUT seconds with nothing to read; *)
(* recv returns 0 when the server has gone.                                  *)
NoResponse == (pc = "select" \/ ~there) /\ GivesUp

(* A recv that blocks is interrupted in its turn.                            *)
RecvInterrupted == pc = "recv" /\ GivesUp

-----------------------------------------------------------------------------
(* Transactions.                                                             *)

(* The counts of the fragments are added where they lie, as little-endian    *)
(* numbers that are big-endian ones: the carry goes from the high byte to    *)
(* the low one.                                                              *)
AddCounts(a, b) ==
  LET high == (a \div 256) + (b \div 256)
      low == (a % 256) + (b % 256) + (high \div 256)
  IN ((high % 256) * 256) + (low % 256)

Concatenated(rsp) ==
  [cur EXCEPT !.got = Append(@, rsp.fragment),
              !.count = IF cur.kind # "search" THEN 0
                        ELSE IF cur.got = <<>> THEN PerFragment
                        ELSE AddCounts(@, PerFragment)]

(* Mutant: the callback is called for every fragment.                        *)
Continue_Tells(c) ==
  /\ tid' = NextTid
  /\ cur' = [c EXCEPT !.tid = tid]
  /\ Tell("pending", c.got, c.count)
  /\ IF there THEN Send(cur') ELSE UNCHANGED up
  /\ UNCHANGED pc

(* The request again, with the continuation state; if it cannot be sent the  *)
(* transaction ends, with what there is of the answer.                       *)
Continue(c) ==
  /\ tid' = NextTid
  /\ cur' = [c EXCEPT !.tid = tid]
  /\ \/ there /\ Send(cur') /\ UNCHANGED <<results, pc>>
     \/ Finish("failed", c.got, c.count) /\ UNCHANGED up

(* When sdp_process may be called. It does not look at this itself: as its   *)
(* comment asks, the event loop calls it when there is data to be read, and  *)
(* not once it has returned -1, which says that the transaction is over.     *)
MayProcess == pc = "process" /\ (down # <<>> \/ ~there)

(* sdp_process has a response. A search without records is an answer here.   *)
sdp_process ==
  /\ MayProcess /\ down # <<>>
  /\ TakeResponses
  /\ LET rsp == Head(down)
         c == Concatenated(rsp)
     IN \/ /\ Belongs(rsp) /\ rsp.pdu = "rsp" /\ rsp.cstate # 0
           /\ Continue([c EXCEPT !.cstate = rsp.cstate])
        \/ /\ Belongs(rsp) /\ rsp.pdu = "rsp" /\ rsp.cstate = 0
           /\ Finish("ok", c.got, c.count) /\ UNCHANGED <<tid, cur, up>>
        \/ /\ Belongs(rsp) /\ rsp.pdu = "none"
           /\ Finish("ok", cur.got, cur.count) /\ UNCHANGED <<tid, cur, up>>
        \/ /\ ~ Belongs(rsp) \/ rsp.pdu = "error"
           /\ Finish("failed", cur.got, cur.count) /\ UNCHANGED <<tid, cur, up>>
  /\ UNCHANGED <<local, retry, record, sessions, serverVars>>

(* The socket is readable because the server has gone.                       *)
ProcessEnd ==
  /\ MayProcess /\ down = <<>>
  /\ Finish("failed", cur.got, cur.count)
  /\ UNCHANGED <<local, retry, tid, cur, record, sessions, serverVars, up, down>>

-----------------------------------------------------------------------------
SessNext ==
  \/ ServerAnswers \/ ServerHangsUp
  \/ (\E isLocal, isRetry \in BOOLEAN : sdp_connect(isLocal, isRetry))
  \/ ConnectReturns \/ sdp_close
  \/ sdp_service_search_req \/ sdp_service_attr_req \/ sdp_service_search_attr_req
  \/ sdp_service_search_async \/ sdp_service_attr_async
  \/ sdp_service_search_attr_async
  \/ sdp_device_record_register \/ sdp_device_record_unregister
  \/ SendRequest \/ SelectFails \/ Receive \/ NoResponse \/ RecvInterrupted
  \/ sdp_process \/ ProcessEnd

(* The thread that makes a call goes on with it. Nothing is assumed of the   *)
(* server, nor of whoever calls, nor of signals.                             *)
SessSpec ==
  /\ SessInit /\ [][SessNext]_sessVars
  /\ WF_sessVars(SendRequest) /\ WF_sessVars(Receive) /\ WF_sessVars(NoResponse)

-----------------------------------------------------------------------------
Fragments(n) == [i \in 1..answers[n] |-> <<n, i>>]

(* What sdp_process says of its count: the first csrc contains the sum of    *)
(* the partial ones. It holds while the sum fits a byte.                     *)
CountIsSum ==
  \A n \in 1..Len(results) :
    results[n].st = "ok" /\ results[n].count # 0 =>
      results[n].count = PerFragment * Len(results[n].got)

(* A call that succeeds, or a callback that is told so, has the server's     *)
(* whole answer to its own request: every fragment once and in order, none   *)
(* of an answer that came after an earlier call had given up waiting, and,   *)
(* where no sum of counts has a carry, as many handles as it says.           *)
WholeAnswerInOrder ==
  /\ \A n \in 1..Len(results) : results[n].st = "ok" => results[n].got = Fragments(n)
  /\ PerFragment * MaxFragments < 256 => CountIsSum

(* The caller of a call, or the callback of a transaction, is told once how  *)
(* it ended, however many responses it took, and not of one that was never   *)
(* started or whose session was closed.                                      *)
ToldOnce ==
  \A n \in 1..Len(results) :
    results[n].told = IF results[n].st \in {"ok", "failed"} THEN 1 ELSE 0

(* The client's record and the server's agree: one that has been freed is    *)
(* not registered any more, and what a successful call has registered is the *)
(* record's. (A registration that failed may have left one that nobody       *)
(* knows.)                                                                   *)
RecordMatchesServer ==
  /\ record.st = "freed" => record.handle \notin db
  /\ \A h \in db : results[h].st = "ok" => h = record.handle

(* A recv waits for good: select had failed, and the server, which is still  *)
(* there, does not answer.                                                   *)
ReadBlocks == <>[](pc = "recv" /\ down = <<>> /\ there)

(* A call that waits for its responses returns, whether the server answers,  *)
(* is silent or goes away, and although it may wait once for each fragment.  *)
(* It takes two things for granted: that the server's answers end, for the   *)
(* loops on the continuation state have no bound of their own, and that no   *)
(* signal has made select fail while the server has nothing to say.          *)
CallsReturn == ReadBlocks \/ ((pc = "send" \/ Reading) /\ ~cur.async ~> pc = "idle")

=============================================================================
