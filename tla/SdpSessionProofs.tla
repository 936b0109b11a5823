--------------------------- MODULE SdpSessionProofs ---------------------------
(***************************************************************************)
(* A session gives its caller the whole answer to the request it made, and *)
(* says so once, for any number of transaction ids greater than the number *)
(* of calls: time-outs leave answers behind, but no two that are still on  *)
(* their way have the same id.                                             *)
(***************************************************************************)
EXTENDS SdpSession, TLAPS

Ids == 0 .. (Tids - 1)
Kinds == Queries \cup {"register", "remove"}
Fragment == (Nat \ {0}) \X Nat

CallRecords ==
  [n : Nat, kind : Kinds, async : BOOLEAN, tid : Ids, cstate : Nat,
   got : Seq(Fragment), count : Nat]
ResultRecords ==
  [st : {"pending", "ok", "failed", "closed", "unsent"},
   got : Seq(Fragment), count : Nat, told : Nat]
RequestRecords ==
  [n : Nat \ {0}, tid : Ids, kind : Kinds, cstate : Nat, handle : Nat]
ResponseRecords ==
  [tid : Ids, pdu : {"rsp", "none", "error"}, cstate : Nat, fragment : Fragment]

SessTypes ==
  /\ pc \in {"none", "connecting", "idle", "send", "select", "recv", "process"}
  /\ tid \in Ids
  /\ cur \in CallRecords
  /\ results \in Seq(ResultRecords) /\ Len(results) <= MaxCalls
  /\ answers \in Seq(Nat) /\ Len(answers) = Len(results)
  /\ up \in Seq(RequestRecords) /\ down \in Seq(ResponseRecords)
  /\ record \in [st : {"held", "freed"}, handle : Nat]
  /\ db \subseteq 1 .. Len(results)

(* A call or a transaction is under way.                                     *)
Active == pc \in {"send", "select", "recv", "process"}
Waiting == pc \in {"select", "recv", "process"}

CallInv ==
  /\ ToldOnce
  /\ Active => /\ cur.n = Len(results) /\ cur.n # 0
               /\ results[cur.n].st = "pending"
               /\ cur.async => cur.kind \in Queries
  /\ pc = "process" => cur.kind \in Queries
  /\ ~ Active /\ pc # "idle" => up = <<>> /\ down = <<>>

(* What is on its way belongs to calls in the order they were made, one for  *)
(* each at most. How many ids ago its own was given out is bounded by the    *)
(* calls since, because none of those can go beyond its first request as     *)
(* long as an older answer is to be read before its own.                     *)
Behind(at, t) == IF t <= at THEN at - t ELSE at - t + Tids
Lag(t) == Behind(tid, t)

Way(n, t, at, phase, res, own) ==
  /\ n <= Len(res) /\ res[n].st # "ok"
  /\ Behind(at, t) >= 1
  /\ Behind(at, t) + n <= Len(res) + (IF phase = "send" THEN 0 ELSE 1)
  /\ phase = "send" => n < own
  /\ phase \in {"select", "recv", "process"} =>
       IF n = own THEN Behind(at, t) = 1 ELSE Behind(at, t) >= 2

OnItsWay(n, t) == Way(n, t, tid, pc, results, cur.n)

PipeInv ==
  /\ \A i \in 1 .. Len(down) : OnItsWay(down[i].fragment[1], down[i].tid)
  /\ \A i \in 1 .. Len(up) : OnItsWay(up[i].n, up[i].tid)
  /\ \A i, j \in 1 .. Len(down) : i < j => down[i].fragment[1] < down[j].fragment[1]
  /\ \A i, j \in 1 .. Len(up) : i < j => up[i].n < up[j].n
  /\ \A i \in 1 .. Len(down), j \in 1 .. Len(up) : down[i].fragment[1] < up[j].n
  /\ Waiting => Lag(cur.tid) = 1

(* What the server makes of the current request.                             *)
GoodAnswer(rsp) ==
  /\ rsp.pdu = "rsp" /\ cur.kind \in Queries =>
       /\ rsp.fragment[2] = cur.cstate + 1
       /\ \/ rsp.cstate = 0 /\ answers[cur.n] = cur.cstate + 1
          \/ /\ rsp.cstate = cur.cstate + 1 /\ answers[cur.n] = 0
             /\ rsp.cstate < MaxFragments
  /\ rsp.pdu = "rsp" /\ cur.kind \notin Queries =>
       /\ rsp.fragment[2] = 1 /\ rsp.cstate = 0 /\ answers[cur.n] = 1
       /\ cur.kind = "remove" => record.handle \notin db
  /\ rsp.pdu = "none" => cur.kind = "search" /\ cur.cstate = 0 /\ answers[cur.n] = 0

(* What the call under way has had of its answer.                            *)
SoFar ==
  /\ Len(cur.got) = cur.cstate /\ cur.cstate < MaxFragments
  /\ \A i \in 1 .. cur.cstate : cur.got[i] = <<cur.n, i>>
  /\ PerFragment * MaxFragments < 256 =>
       cur.count = IF pc = "process" /\ cur.kind = "search"
                     THEN PerFragment * cur.cstate ELSE 0
  /\ cur.kind \notin Queries => cur.cstate = 0
  /\ pc = "send" /\ cur.async => cur.cstate = 0
  /\ Reading => ~ cur.async

OwnRequest(req) ==
  /\ req.kind = cur.kind /\ req.cstate = cur.cstate /\ req.handle = record.handle
  /\ answers[cur.n] = 0

AnswerInv ==
  /\ WholeAnswerInOrder
  /\ Active => SoFar
  /\ pc = "send" => answers[cur.n] = 0
  /\ Waiting =>
       /\ \A i \in 1 .. Len(up) : up[i].n = cur.n => OwnRequest(up[i])
       /\ \A i \in 1 .. Len(down) : down[i].fragment[1] = cur.n => GoodAnswer(down[i])

RecordInv ==
  /\ RecordMatchesServer
  /\ record.handle # 0 => /\ record.handle <= Len(results)
                          /\ results[record.handle].st = "ok"
  /\ Active => IF cur.kind = "register" THEN record.st = "held" /\ record.handle = 0
                                        ELSE cur.n \notin db

SessInv == SessTypes /\ CallInv /\ PipeInv /\ AnswerInv /\ RecordInv

-----------------------------------------------------------------------------
(* Sequences, ids and numbers.                                               *)

LEMMA TailIs ==
  ASSUME NEW S, NEW s \in Seq(S), s # <<>>
  PROVE  /\ Tail(s) \in Seq(S) /\ Len(Tail(s)) = Len(s) - 1
         /\ Len(s) >= 1 /\ Head(s) = s[1] /\ Head(s) \in S
         /\ \A i \in 1 .. Len(Tail(s)) : Tail(s)[i] = s[i + 1] /\ i + 1 \in 1 .. Len(s)
  OBVIOUS

(* One recv takes some of the responses, the oldest at least.                *)
LEMMA TakenIs ==
  ASSUME SessTypes, down # <<>>, TakeResponses
  PROVE  /\ down' \in Seq(ResponseRecords)
         /\ Head(down) = down[1] /\ Head(down) \in ResponseRecords
         /\ \E k \in 1 .. Len(down) :
              /\ Len(down') = Len(down) - k
              /\ \A i \in 1 .. Len(down') :
                   down'[i] = down[i + k] /\ i + k \in 1 .. Len(down)
<1>1. down \in Seq(ResponseRecords)
  BY DEF SessTypes
<1>2. Len(down) \in Nat /\ Len(down) >= 1
  BY <1>1
<1>3. PICK k \in 1 .. Len(down) : down' = SubSeq(down, k + 1, Len(down))
  BY <1>2 DEF TakeResponses
<1>4. /\ down' \in Seq(ResponseRecords) /\ Len(down') = Len(down) - k
      /\ \A i \in 1 .. Len(down') : down'[i] = down[i + k]
  BY <1>1, <1>2, <1>3
<1>5. \A i \in 1 .. Len(down') : i + k \in 1 .. Len(down)
  BY <1>2, <1>3, <1>4
<1> QED
  BY <1>1, <1>2, <1>4, <1>5

LEMMA AppendIs ==
  ASSUME NEW S, NEW s \in Seq(S), NEW e \in S
  PROVE  /\ Append(s, e) \in Seq(S) /\ Len(Append(s, e)) = Len(s) + 1
         /\ Append(s, e)[Len(s) + 1] = e
         /\ \A i \in 1 .. Len(s) : Append(s, e)[i] = s[i]
  OBVIOUS

LEMMA ReplacedIs ==
  ASSUME NEW S, NEW s \in Seq(S), NEW i \in 1 .. Len(s), NEW e \in S
  PROVE  /\ [s EXCEPT ![i] = e] \in Seq(S) /\ Len([s EXCEPT ![i] = e]) = Len(s)
         /\ [s EXCEPT ![i] = e][i] = e
         /\ \A j \in 1 .. Len(s) : j # i => [s EXCEPT ![i] = e][j] = s[j]
  OBVIOUS

LEMMA NextTidIs ==
  ASSUME SessTypes
  PROVE  /\ NextTid = IF tid + 1 = Tids THEN 0 ELSE tid + 1
         /\ NextTid \in Ids
<1>1. Tids \in Nat /\ Tids # 0 /\ tid \in 0 .. (Tids - 1)
  <2>1. Tids \in Nat /\ Tids # 0
    BY SessAssumption
  <2>2. tid \in 0 .. (Tids - 1)
    BY Zenon DEF SessTypes, Ids
  <2> QED
    BY <2>1, <2>2
<1>2. CASE tid + 1 = Tids
  <2>1. (tid + 1) % Tids = 0
    BY <1>1, <1>2
  <2> QED
    BY <1>1, <1>2, <2>1 DEF NextTid, Ids
<1>3. CASE tid + 1 # Tids
  <2>1. tid + 1 \in 0 .. (Tids - 1)
    BY <1>1, <1>3
  <2>2. (tid + 1) % Tids = tid + 1
    BY <1>1, <2>1
  <2> QED
    BY <1>1, <1>3, <2>1, <2>2 DEF NextTid, Ids
<1> QED
  BY <1>2, <1>3

(* A new id leaves every other one further behind.                           *)
LEMMA LagGrows ==
  ASSUME SessTypes, tid' = NextTid, NEW t \in Ids
  PROVE  /\ Lag(t) \in Nat
         /\ Lag(t) + 1 < Tids => Behind(tid', t) = Lag(t) + 1
         /\ Tids > 1 => Behind(tid', tid) = 1
<1>1. Tids \in Nat /\ tid \in 0 .. (Tids - 1) /\ t \in 0 .. (Tids - 1)
  <2>1. Tids \in Nat
    BY SessAssumption
  <2>2. tid \in 0 .. (Tids - 1) /\ t \in 0 .. (Tids - 1)
    BY Zenon DEF SessTypes, Ids
  <2> QED
    BY <2>1, <2>2
<1>2. tid' = IF tid + 1 = Tids THEN 0 ELSE tid + 1
  BY NextTidIs
<1> QED
  BY <1>1, <1>2 DEF Lag, Behind

LEMMA CountsAdd ==
  ASSUME NEW a \in Nat, NEW b \in Nat
  PROVE  /\ AddCounts(a, b) \in Nat
         /\ a + b < 256 => AddCounts(a, b) = a + b
  BY DEF AddCounts

LEMMA ProductGrows ==
  ASSUME NEW c \in Nat, c < MaxFragments
  PROVE  /\ PerFragment * c \in Nat
         /\ PerFragment * (c + 1) = PerFragment * c + PerFragment
         /\ PerFragment * (c + 1) <= PerFragment * MaxFragments
         /\ PerFragment * 0 = 0
  BY SessAssumption

-----------------------------------------------------------------------------
(* The steps.                                                                *)

Starts(kind, async) ==
  /\ Begin(kind, async)
  /\ async => kind \in Queries
  /\ kind = "register" => record.st = "held" /\ record.handle = 0

Refused ==
  /\ pc = "idle" /\ Len(results) < MaxCalls
  /\ answers' = Append(answers, 0)
  /\ results' = Append(results, [Pending EXCEPT !.st = "failed", !.told = 1])
  /\ UNCHANGED <<clientVarsButResults, there, db, up, down>>

LEMMA NextCases ==
  ASSUME SessNext
  PROVE  \/ ServerAnswers \/ ServerHangsUp
         \/ \E isLocal, isRetry \in BOOLEAN : sdp_connect(isLocal, isRetry)
         \/ ConnectReturns \/ sdp_close
         \/ \E kind \in Kinds, async \in BOOLEAN : Starts(kind, async)
         \/ Refused
         \/ SendRequest \/ SelectFails \/ Receive \/ GivesUp
         \/ sdp_process \/ ProcessEnd
<1>1. ASSUME NEW kind \in Queries, NEW async \in BOOLEAN, Begin(kind, async)
      PROVE  \E k \in Kinds, a \in BOOLEAN : Starts(k, a)
  <2>1. kind \in Kinds /\ kind # "register"
    BY DEF Kinds, Queries
  <2> QED
    BY <1>1, <2>1 DEF Starts
<1>2. CASE sdp_device_record_register
  <2>1. "register" \in Kinds /\ FALSE \in BOOLEAN
    BY DEF Kinds
  <2>2. /\ record.st = "held" /\ record.handle = 0
        /\ Begin("register", FALSE) \/ Refused
    BY <1>2 DEF sdp_device_record_register, BeginLocal, Refused
  <2> QED
    BY <2>1, <2>2 DEF Starts
<1>3. CASE sdp_device_record_unregister
  <2>1. "remove" \in Kinds /\ FALSE \in BOOLEAN
    BY DEF Kinds
  <2>2. Begin("remove", FALSE) \/ Refused
    BY <1>3 DEF sdp_device_record_unregister, BeginLocal, Refused
  <2> QED
    BY <2>1, <2>2 DEF Starts
<1>4. /\ {"search", "attr", "search_attr"} = Queries
      /\ TRUE \in BOOLEAN /\ FALSE \in BOOLEAN
  BY DEF Queries
<1> QED
  BY <1>1, <1>2, <1>3, <1>4
     DEF SessNext, sdp_service_search_req, sdp_service_attr_req,
         sdp_service_search_attr_req, sdp_service_search_async,
         sdp_service_attr_async, sdp_service_search_attr_async,
         NoResponse, RecvInterrupted

(* What a call or a transaction comes to.                                    *)
LEMMA TellIs ==
  ASSUME SessTypes, CallInv, Active,
         NEW st \in {"pending", "ok", "failed"}, NEW got \in Seq(Fragment), NEW count \in Nat,
         Tell(st, got, count)
  PROVE  /\ results' \in Seq(ResultRecords) /\ Len(results') = Len(results)
         /\ cur.n = Len(results) /\ cur.n \in 1 .. Len(results)
         /\ results'[cur.n] = [st |-> st, got |-> got, count |-> count, told |-> 1]
         /\ \A n \in 1 .. Len(results) : n # cur.n => results'[n] = results[n]
<1>1. results \in Seq(ResultRecords) /\ Len(results) \in Nat
  BY DEF SessTypes
<1>2. cur.n = Len(results) /\ cur.n # 0 /\ results[cur.n].st = "pending"
  BY DEF CallInv
<1>3. cur.n \in 1 .. Len(results)
  BY <1>1, <1>2
<1>4. results[cur.n].told = 0
  BY <1>2, <1>3 DEF CallInv, ToldOnce
<1>5. results' = [results EXCEPT ![cur.n] =
                    [st |-> st, got |-> got, count |-> count, told |-> 1]]
  BY <1>4 DEF Tell
<1>6. [st |-> st, got |-> got, count |-> count, told |-> 1] \in ResultRecords
  BY DEF ResultRecords
<1> QED
  BY <1>1, <1>2, <1>3, <1>5, <1>6

LEMMA RecordAfterIs ==
  ASSUME NEW ok \in BOOLEAN, NEW rsp
  PROVE  /\ ok /\ cur.kind = "register" =>
              RecordAfter(ok, rsp) = [record EXCEPT !.handle = rsp.fragment[1]]
         /\ ok /\ cur.kind = "remove" =>
              RecordAfter(ok, rsp) = [record EXCEPT !.st = "freed"]
         /\ ~ ok \/ cur.kind \notin {"register", "remove"} =>
              RecordAfter(ok, rsp) = record
<1>1. CASE ok /\ cur.kind = "register"
  <2>1. cur.kind # "remove"
    BY <1>1
  <2> QED
    BY <1>1, <2>1, Zenon DEF RecordAfter
<1>2. CASE ok /\ cur.kind = "remove"
  <2>1. cur.kind # "register"
    BY <1>2
  <2> QED
    BY <1>2, <2>1, Zenon DEF RecordAfter
<1>3. CASE ~ ok \/ cur.kind \notin {"register", "remove"}
  <2>1. ~ (ok /\ cur.kind = "register") /\ ~ (ok /\ cur.kind = "remove")
    BY <1>3
  <2> QED
    BY <2>1, Zenon DEF RecordAfter
<1> QED
  BY <1>1, <1>2, <1>3

LEMMA AnswersIs ==
  ASSUME NEW rsp \in ResponseRecords, cur.kind \in Kinds, Answers(rsp)
  PROVE  /\ rsp.pdu \in {"rsp", "none"}
         /\ rsp.pdu = "none" => cur.kind \in {"attr", "search_attr"}
<1>1. rsp.pdu \in {"rsp", "none", "error"}
  BY DEF ResponseRecords
<1>2. CASE cur.kind = "search"
  BY <1>1, <1>2 DEF Answers, SearchAnswer
<1>3. CASE cur.kind = "attr"
  BY <1>1, <1>3 DEF Answers, AttrAnswer
<1>4. CASE cur.kind = "search_attr"
  BY <1>1, <1>4 DEF Answers, SearchAttrAnswer
<1>5. CASE cur.kind = "register"
  BY <1>1, <1>5 DEF Answers, RegisterAnswer
<1>6. CASE cur.kind = "remove"
  BY <1>1, <1>6 DEF Answers, RemoveAnswer
<1> QED
  BY <1>2, <1>3, <1>4, <1>5, <1>6 DEF Kinds, Queries

-----------------------------------------------------------------------------
(* The types.                                                                *)

LEMMA ConcatenatedIs ==
  ASSUME SessTypes, NEW rsp \in ResponseRecords
  PROVE  /\ Concatenated(rsp) \in CallRecords
         /\ Concatenated(rsp).got = Append(cur.got, rsp.fragment)
         /\ Concatenated(rsp).n = cur.n /\ Concatenated(rsp).kind = cur.kind
         /\ Concatenated(rsp).async = cur.async
         /\ Concatenated(rsp).tid = cur.tid /\ Concatenated(rsp).cstate = cur.cstate
         /\ Concatenated(rsp).count =
              IF cur.kind # "search" THEN 0
              ELSE IF cur.got = <<>> THEN PerFragment
              ELSE AddCounts(cur.count, PerFragment)
<1>1. cur \in CallRecords
  BY DEF SessTypes
<1>2. Append(cur.got, rsp.fragment) \in Seq(Fragment)
  BY <1>1 DEF CallRecords, ResponseRecords
<1>3. PerFragment \in Nat
  BY SessAssumption
<1>4. AddCounts(cur.count, PerFragment) \in Nat
  BY <1>1, <1>3, CountsAdd DEF CallRecords
<1> DEFINE c == IF cur.kind # "search" THEN 0
                ELSE IF cur.got = <<>> THEN PerFragment
                ELSE AddCounts(cur.count, PerFragment)
<1>5. c \in Nat
  BY <1>3, <1>4
<1>6. Concatenated(rsp) = [cur EXCEPT !.got = Append(@, rsp.fragment), !.count = c]
  BY DEF Concatenated
<1> HIDE DEF c
<1>7. /\ [cur EXCEPT !.got = Append(@, rsp.fragment), !.count = c] \in CallRecords
      /\ [cur EXCEPT !.got = Append(@, rsp.fragment), !.count = c].got
           = Append(cur.got, rsp.fragment)
      /\ [cur EXCEPT !.got = Append(@, rsp.fragment), !.count = c].n = cur.n
      /\ [cur EXCEPT !.got = Append(@, rsp.fragment), !.count = c].kind = cur.kind
      /\ [cur EXCEPT !.got = Append(@, rsp.fragment), !.count = c].async = cur.async
      /\ [cur EXCEPT !.got = Append(@, rsp.fragment), !.count = c].tid = cur.tid
      /\ [cur EXCEPT !.got = Append(@, rsp.fragment), !.count = c].cstate = cur.cstate
      /\ [cur EXCEPT !.got = Append(@, rsp.fragment), !.count = c].count = c
  BY <1>1, <1>2, <1>5 DEF CallRecords
<1> QED
  BY <1>6, <1>7 DEF c

LEMMA RequestIs ==
  ASSUME SessTypes, NEW c \in CallRecords, c.n # 0
  PROVE  [n |-> c.n, tid |-> c.tid, kind |-> c.kind, cstate |-> c.cstate,
          handle |-> record.handle] \in RequestRecords
  BY DEF SessTypes, CallRecords, RequestRecords

(* What the server does with its oldest request.                             *)
Answered(req, rsp) ==
  \/ /\ req.kind \in Queries
     /\ rsp.pdu = "rsp" /\ rsp.fragment[2] = req.cstate + 1
     /\ \/ /\ rsp.cstate = req.cstate + 1 /\ rsp.cstate < MaxFragments
           /\ answers' = answers
        \/ /\ rsp.cstate = 0
           /\ answers' = [answers EXCEPT ![req.n] = req.cstate + 1]
     /\ db' = db
  \/ /\ req.kind = "search" /\ req.cstate = 0 /\ rsp.pdu = "none"
     /\ answers' = answers /\ db' = db
  \/ /\ req.kind \in {"register", "remove"}
     /\ rsp.pdu = "rsp" /\ rsp.fragment[2] = 1 /\ rsp.cstate = 0
     /\ answers' = [answers EXCEPT ![req.n] = 1]
     /\ IF req.kind = "register" THEN db' = db \cup {req.n}
                                 ELSE req.handle \in db /\ db' = db \ {req.handle}
  \/ /\ rsp.pdu = "error"
     /\ answers' = answers /\ db' = db

LEMMA ServerAnswersIs ==
  ASSUME SessTypes, ServerAnswers
  PROVE  /\ up # <<>> /\ up' = Tail(up) /\ Head(up) \in RequestRecords
         /\ UNCHANGED clientVars
         /\ \E rsp \in ResponseRecords :
              /\ down' = Append(down, rsp)
              /\ rsp.tid = Head(up).tid /\ rsp.fragment[1] = Head(up).n
              /\ Answered(Head(up), rsp)
<1>1. up # <<>> /\ up' = Tail(up) /\ UNCHANGED clientVars
  BY DEF ServerAnswers
<1>2. Head(up) \in RequestRecords
  BY <1>1 DEF SessTypes
<1> DEFINE req == Head(up)
           R(pdu, cstate, k) == [tid |-> req.tid, pdu |-> pdu, cstate |-> cstate,
                                 fragment |-> <<req.n, k>>]
<1>3. req.n \in Nat \ {0} /\ req.cstate \in Nat /\ req.tid \in Ids
  BY <1>2 DEF RequestRecords
<1>4. ASSUME NEW pdu \in {"rsp", "none", "error"}, NEW cstate \in Nat, NEW k \in Nat
      PROVE  /\ R(pdu, cstate, k) \in ResponseRecords
             /\ R(pdu, cstate, k).pdu = pdu /\ R(pdu, cstate, k).cstate = cstate
             /\ R(pdu, cstate, k).tid = req.tid
             /\ R(pdu, cstate, k).fragment[1] = req.n
             /\ R(pdu, cstate, k).fragment[2] = k
  BY <1>3 DEF ResponseRecords, Fragment
<1>5. CASE /\ req.kind \in Queries
           /\ \E more \in IF req.cstate + 1 < MaxFragments THEN BOOLEAN ELSE {FALSE} :
                /\ Respond(req, "rsp", IF more THEN req.cstate + 1 ELSE 0,
                           <<req.n, req.cstate + 1>>)
                /\ answers' = IF more THEN answers
                              ELSE [answers EXCEPT ![req.n] = req.cstate + 1]
           /\ UNCHANGED db
  <2>1. PICK more \in IF req.cstate + 1 < MaxFragments THEN BOOLEAN ELSE {FALSE} :
                /\ Respond(req, "rsp", IF more THEN req.cstate + 1 ELSE 0,
                           <<req.n, req.cstate + 1>>)
                /\ answers' = IF more THEN answers
                              ELSE [answers EXCEPT ![req.n] = req.cstate + 1]
    BY <1>5
  <2>2. CASE more
    <3>1. req.cstate + 1 < MaxFragments
      BY <2>1, <2>2
    <3>2. /\ down' = Append(down, R("rsp", req.cstate + 1, req.cstate + 1))
          /\ answers' = answers
      BY <2>1, <2>2, Zenon DEF Respond
    <3>3. req.cstate + 1 \in Nat
      BY <1>3
    <3>4. Answered(req, R("rsp", req.cstate + 1, req.cstate + 1))
      BY <1>4, <1>5, <3>1, <3>2, <3>3 DEF Answered
    <3> QED
      BY <1>1, <1>2, <1>4, <3>2, <3>3, <3>4
  <2>3. CASE ~ more
    <3>1. /\ down' = Append(down, R("rsp", 0, req.cstate + 1))
          /\ answers' = [answers EXCEPT ![req.n] = req.cstate + 1]
      BY <2>1, <2>3, Zenon DEF Respond
    <3>2. req.cstate + 1 \in Nat
      BY <1>3
    <3>3. Answered(req, R("rsp", 0, req.cstate + 1))
      BY <1>4, <1>5, <3>1, <3>2 DEF Answered
    <3> QED
      BY <1>1, <1>2, <1>4, <3>1, <3>2, <3>3
  <2> QED
    BY <2>2, <2>3
<1>6. CASE /\ req.kind = "search" /\ req.cstate = 0
           /\ Respond(req, "none", 0, <<req.n, 0>>)
           /\ UNCHANGED <<db, answers>>
  <2>1. down' = Append(down, R("none", 0, 0))
    BY <1>6 DEF Respond
  <2>2. Answered(req, R("none", 0, 0))
    BY <1>4, <1>6 DEF Answered
  <2> QED
    BY <1>1, <1>2, <1>4, <2>1, <2>2
<1>7. CASE /\ req.kind = "register"
           /\ Respond(req, "rsp", 0, <<req.n, 1>>)
           /\ db' = db \cup {req.n}
           /\ answers' = [answers EXCEPT ![req.n] = 1]
  <2>1. down' = Append(down, R("rsp", 0, 1))
    BY <1>7 DEF Respond
  <2>2. Answered(req, R("rsp", 0, 1))
    BY <1>4, <1>7 DEF Answered
  <2> QED
    BY <1>1, <1>2, <1>4, <2>1, <2>2
<1>8. CASE /\ req.kind = "remove" /\ req.handle \in db
           /\ Respond(req, "rsp", 0, <<req.n, 1>>)
           /\ db' = db \ {req.handle}
           /\ answers' = [answers EXCEPT ![req.n] = 1]
  <2>1. down' = Append(down, R("rsp", 0, 1))
    BY <1>8 DEF Respond
  <2>2. Answered(req, R("rsp", 0, 1))
    BY <1>4, <1>8 DEF Answered
  <2> QED
    BY <1>1, <1>2, <1>4, <2>1, <2>2
<1>9. CASE /\ Respond(req, "error", 0, <<req.n, 0>>)
           /\ UNCHANGED <<db, answers>>
  <2>1. down' = Append(down, R("error", 0, 0))
    BY <1>9 DEF Respond
  <2>2. Answered(req, R("error", 0, 0))
    BY <1>4, <1>9 DEF Answered
  <2> QED
    BY <1>1, <1>2, <1>4, <2>1, <2>2
<1> QED
  BY <1>5, <1>6, <1>7, <1>8, <1>9 DEF ServerAnswers

LEMMA EndTypes ==
  ASSUME SessTypes, CallInv, Active,
         NEW st \in {"ok", "failed"}, NEW got \in Seq(Fragment), NEW count \in Nat,
         Finish(st, got, count)
  PROVE  /\ results' \in Seq(ResultRecords) /\ Len(results') = Len(results)
         /\ Len(results') <= MaxCalls
         /\ pc' = "idle"
  BY TellIs DEF Finish, SessTypes

LEMMA StatusIs ==
  ASSUME NEW r \in ResultRecords,
         NEW s \in {"pending", "ok", "failed", "closed", "unsent"}
  PROVE  /\ [r EXCEPT !.st = s] \in ResultRecords
         /\ [r EXCEPT !.st = s].st = s /\ [r EXCEPT !.st = s].told = r.told
         /\ [r EXCEPT !.st = s].got = r.got /\ [r EXCEPT !.st = s].count = r.count
  BY DEF ResultRecords

LEMMA RefusalIs ==
  /\ Pending \in ResultRecords
  /\ [Pending EXCEPT !.st = "failed", !.told = 1] \in ResultRecords
  /\ [Pending EXCEPT !.st = "failed", !.told = 1].st = "failed"
  /\ [Pending EXCEPT !.st = "failed", !.told = 1].told = 1
<1>1. Pending \in ResultRecords
  BY DEF Pending, ResultRecords
<1>2. ASSUME NEW r \in ResultRecords
      PROVE  /\ [r EXCEPT !.st = "failed", !.told = 1] \in ResultRecords
             /\ [r EXCEPT !.st = "failed", !.told = 1].st = "failed"
             /\ [r EXCEPT !.st = "failed", !.told = 1].told = 1
  BY DEF ResultRecords
<1> QED
  BY <1>1, <1>2

LEMMA LengthIs ==
  ASSUME SessTypes
  PROVE  /\ Len(results) \in Nat /\ Len(up) \in Nat /\ Len(down) \in Nat
         /\ Len(answers) = Len(results)
         /\ MaxCalls \in Nat /\ Tids \in Nat /\ MaxCalls < Tids
<1>1. /\ Len(results) \in Nat /\ Len(up) \in Nat /\ Len(down) \in Nat
      /\ Len(answers) = Len(results)
  BY DEF SessTypes
<1> QED
  BY <1>1, SessAssumption

LEMMA TypesStep == SessInv /\ SessNext => SessTypes'
<1> SUFFICES ASSUME SessInv, SessNext PROVE SessTypes'
  OBVIOUS
<1>0. SessTypes /\ CallInv /\ PipeInv
  BY DEF SessInv
<1>1. CASE ServerAnswers
  <2>1. /\ up # <<>> /\ up' = Tail(up) /\ Head(up) \in RequestRecords
        /\ UNCHANGED clientVars
    BY <1>0, <1>1, ServerAnswersIs
  <2>2. PICK rsp \in ResponseRecords :
              /\ down' = Append(down, rsp)
              /\ rsp.tid = Head(up).tid /\ rsp.fragment[1] = Head(up).n
              /\ Answered(Head(up), rsp)
    BY <1>0, <1>1, ServerAnswersIs
  <2>3. Head(up).n \in 1 .. Len(results) /\ Head(up).cstate \in Nat
    <3>1. 1 \in 1 .. Len(up) /\ Head(up) = up[1]
      BY <1>0, <2>1 DEF SessTypes
    <3>2. Head(up).n <= Len(results)
      BY <1>0, <3>1 DEF PipeInv, OnItsWay, Way
    <3> QED
      BY <1>0, <2>1, <3>2 DEF RequestRecords, SessTypes
  <2>4. answers' \in Seq(Nat) /\ Len(answers') = Len(answers)
    <3>1. \A k \in Nat : /\ [answers EXCEPT ![Head(up).n] = k] \in Seq(Nat)
                         /\ Len([answers EXCEPT ![Head(up).n] = k]) = Len(answers)
      BY <1>0, <2>3 DEF SessTypes
    <3>2. \/ answers' = answers
          \/ \E k \in {1, Head(up).cstate + 1} : answers' = [answers EXCEPT ![Head(up).n] = k]
      BY <2>2 DEF Answered
    <3>3. {1, Head(up).cstate + 1} \subseteq Nat
      BY <2>3
    <3>4. answers \in Seq(Nat)
      BY <1>0 DEF SessTypes
    <3> QED
      BY <3>1, <3>2, <3>3, <3>4
  <2>5. db' \subseteq 1 .. Len(results)
    BY <1>0, <2>2, <2>3 DEF Answered, SessTypes
  <2>6. up' \in Seq(RequestRecords) /\ down' \in Seq(ResponseRecords)
    BY <1>0, <2>1, <2>2 DEF SessTypes
  <2> QED
    BY <1>0, <2>1, <2>4, <2>5, <2>6
       DEF SessTypes, clientVars, clientVarsButResults
<1>2. CASE ServerHangsUp
  <2>1. up' \in Seq(RequestRecords) /\ db' \subseteq 1 .. Len(results)
    BY <1>0, <1>2 DEF ServerHangsUp, SessTypes
  <2> QED
    BY <1>0, <1>2, <2>1
       DEF ServerHangsUp, SessTypes, clientVars, clientVarsButResults
<1>3. ASSUME NEW isLocal \in BOOLEAN, NEW isRetry \in BOOLEAN,
             sdp_connect(isLocal, isRetry)
      PROVE  SessTypes'
  <2>1. tid' \in Ids
    BY <1>3, SessAssumption DEF sdp_connect, Ids
  <2> QED
    BY <1>0, <1>3, <2>1 DEF sdp_connect, SessTypes, serverVars
<1>4. CASE ConnectReturns
  BY <1>0, <1>4 DEF ConnectReturns, SessTypes, serverVars
<1>5. CASE sdp_close
  <2>1. cur' \in CallRecords
    <3>1. 0 \in Ids
      BY SessAssumption DEF Ids
    <3> QED
      BY <1>5, <3>1 DEF sdp_close, NoCall, CallRecords, Kinds, Queries
  <2>2. results' \in Seq(ResultRecords) /\ Len(results') = Len(results)
    <3>1. CASE pc = "process"
      <4>1. cur.n \in 1 .. Len(results)
        BY <1>0, <3>1 DEF SessTypes, CallInv, Active
      <4>2. [results[cur.n] EXCEPT !.st = "closed"] \in ResultRecords
        <5>1. results[cur.n] \in ResultRecords
          BY <1>0, <4>1 DEF SessTypes
        <5> QED
          BY <5>1, StatusIs
      <4>3. results' = [results EXCEPT ![cur.n] = [results[cur.n] EXCEPT !.st = "closed"]]
        BY <1>5, <3>1 DEF sdp_close
      <4> QED
        BY <1>0, <4>1, <4>2, <4>3 DEF SessTypes
    <3> QED
      BY <1>0, <1>5, <3>1 DEF sdp_close, SessTypes
  <2>3. up' \in Seq(RequestRecords) /\ down' \in Seq(ResponseRecords)
    BY <1>5 DEF sdp_close
  <2>4. db' \subseteq 1 .. Len(results)
    BY <1>0, <1>5 DEF sdp_close, SessTypes
  <2> QED
    BY <1>0, <1>5, <2>1, <2>2, <2>3, <2>4 DEF sdp_close, SessTypes
<1>6. ASSUME NEW kind \in Kinds, NEW async \in BOOLEAN, Starts(kind, async)
      PROVE  SessTypes'
  <2>1. results' = Append(results, Pending) /\ Len(results) < MaxCalls
    BY <1>6 DEF Starts, Begin
  <2>2. Pending \in ResultRecords
    BY DEF Pending, ResultRecords
  <2>3. results' \in Seq(ResultRecords) /\ Len(results') = Len(results) + 1
    BY <1>0, <2>1, <2>2 DEF SessTypes
  <2>4. cur' \in CallRecords
    <3>1. 0 \in Ids
      BY SessAssumption DEF Ids
    <3>2. cur' = [n |-> Len(results'), kind |-> kind, async |-> async, tid |-> 0,
                  cstate |-> 0, got |-> <<>>, count |-> 0]
      BY <1>6 DEF Starts, Begin, NoCall
    <3> QED
      BY <1>0, <2>3, <3>1, <3>2 DEF CallRecords, SessTypes
  <2>5. answers' \in Seq(Nat) /\ Len(answers') = Len(answers) + 1
    BY <1>0, <1>6 DEF Starts, Begin, SessTypes
  <2>6. Len(results') <= MaxCalls
    BY <1>0, <2>1, <2>3, LengthIs
  <2> QED
    BY <1>0, <1>6, <2>3, <2>4, <2>5, <2>6 DEF Starts, Begin, SessTypes
<1>7. CASE Refused
  <2>1. [Pending EXCEPT !.st = "failed", !.told = 1] \in ResultRecords
    BY RefusalIs
  <2>2. results' \in Seq(ResultRecords) /\ Len(results') = Len(results) + 1
    BY <1>0, <1>7, <2>1 DEF Refused, SessTypes
  <2>3. answers' \in Seq(Nat) /\ Len(answers') = Len(answers) + 1
    BY <1>0, <1>7 DEF Refused, SessTypes
  <2>4. Len(results') <= MaxCalls
    BY <1>0, <1>7, <2>2, LengthIs DEF Refused
  <2> QED
    BY <1>0, <1>7, <2>2, <2>3, <2>4 DEF Refused, SessTypes, clientVarsButResults
<1>8. CASE SendRequest
  <2>1. tid' \in Ids /\ cur' = [cur EXCEPT !.tid = tid] /\ cur' \in CallRecords
    BY <1>0, <1>8, NextTidIs DEF SendRequest, SessTypes, CallRecords
  <2>2. Active /\ cur.n # 0 /\ cur'.n = cur.n
    BY <1>0, <1>8, <2>1 DEF SendRequest, Active, CallInv, SessTypes, CallRecords
  <2>3. CASE there /\ Send(cur') /\ UNCHANGED results /\ pc' \in {"process", "select"}
    <3>1. up' \in Seq(RequestRecords)
      BY <1>0, <2>1, <2>2, <2>3, RequestIs, AppendIs DEF Send, SessTypes
    <3> QED
      BY <1>0, <1>8, <2>1, <2>3, <3>1 DEF SendRequest, SessTypes, serverVars
  <2>4. CASE /\ results' = [results EXCEPT ![cur.n].st = "unsent"]
             /\ pc' = "idle" /\ UNCHANGED up
    <3>1. cur.n \in 1 .. Len(results)
      BY <1>0, <2>2 DEF SessTypes, CallInv
    <3>2. [results[cur.n] EXCEPT !.st = "unsent"] \in ResultRecords
      <4>1. results[cur.n] \in ResultRecords
        BY <1>0, <3>1 DEF SessTypes
      <4> QED
        BY <4>1, StatusIs
    <3>3. results' \in Seq(ResultRecords) /\ Len(results') = Len(results)
      <4> DEFINE e == [results[cur.n] EXCEPT !.st = "unsent"]
      <4>1. results' = [results EXCEPT ![cur.n] = e] /\ e \in ResultRecords
        BY <2>4, <3>2
      <4>2. results \in Seq(ResultRecords)
        BY <1>0 DEF SessTypes
      <4> HIDE DEF e
      <4> QED
        BY <3>1, <4>1, <4>2, ReplacedIs
    <3> QED
      BY <1>0, <1>8, <2>1, <2>4, <3>3 DEF SendRequest, SessTypes, serverVars
  <2>5. CASE Finish("failed", cur.got, 0) /\ UNCHANGED up
    <3>1. cur.got \in Seq(Fragment)
      BY <1>0 DEF SessTypes, CallRecords
    <3> QED
      BY <1>0, <1>8, <2>1, <2>2, <2>5, <3>1, EndTypes DEF SendRequest,
         SessTypes, serverVars
  <2> QED
    BY <1>8, <2>3, <2>4, <2>5 DEF SendRequest
<1>9. CASE Receive
  <2>1. /\ down # <<>> /\ TakeResponses /\ Head(down) \in ResponseRecords
        /\ down' \in Seq(ResponseRecords) /\ Active
    BY <1>0, <1>9, TakenIs DEF Receive, SessTypes, Active, Reading
  <2> DEFINE rsp == Head(down)
             ok == Belongs(rsp) /\ Answers(rsp)
             got == Append(cur.got, rsp.fragment)
  <2>2. /\ rsp.fragment \in Fragment /\ rsp.cstate \in Nat
        /\ cur \in CallRecords /\ cur.got \in Seq(Fragment) /\ got \in Seq(Fragment)
    BY <1>0, <2>1 DEF SessTypes, CallRecords, ResponseRecords
  <2>3. record' \in [st : {"held", "freed"}, handle : Nat]
    <3>1. record' = RecordAfter(ok, rsp) /\ ok \in BOOLEAN
      BY <1>9 DEF Receive
    <3>2. record \in [st : {"held", "freed"}, handle : Nat]
      BY <1>0 DEF SessTypes
    <3>3. rsp.fragment[1] \in Nat
      BY <2>2 DEF Fragment
    <3>4. RecordAfter(ok, rsp) \in {record, [record EXCEPT !.handle = rsp.fragment[1]],
                                    [record EXCEPT !.st = "freed"]}
      BY <3>1, RecordAfterIs
    <3> QED
      BY <3>1, <3>2, <3>3, <3>4
  <2>4. CASE /\ cur' = [cur EXCEPT !.got = got, !.cstate = rsp.cstate]
             /\ pc' = "send" /\ UNCHANGED results
    <3>1. cur' \in CallRecords
      BY <2>2, <2>4 DEF CallRecords
    <3> QED
      BY <1>0, <1>9, <2>1, <2>3, <2>4, <3>1 DEF Receive, SessTypes, serverVars
  <2>5. CASE (Finish("ok", got, 0) \/ Finish("failed", cur.got, 0)) /\ UNCHANGED cur
    <3>1. results' \in Seq(ResultRecords) /\ Len(results') = Len(results) /\ pc' = "idle"
      BY <1>0, <2>1, <2>2, <2>5, EndTypes
    <3> QED
      BY <1>0, <1>9, <2>1, <2>3, <2>5, <3>1 DEF Receive, SessTypes, serverVars
  <2> QED
    BY <1>9, <2>4, <2>5 DEF Receive
<1>10. CASE GivesUp
  <2>1. Finish("failed", cur.got, 0) /\ Active /\ cur.got \in Seq(Fragment)
    BY <1>0, <1>10 DEF GivesUp, Reading, Active, SessTypes, CallRecords
  <2> QED
    BY <1>0, <1>10, <2>1, EndTypes DEF GivesUp, Reading, SessTypes, serverVars
<1>11. CASE sdp_process
  <2>1. /\ down # <<>> /\ TakeResponses /\ Head(down) \in ResponseRecords
        /\ down' \in Seq(ResponseRecords) /\ Active
    BY <1>0, <1>11, TakenIs DEF sdp_process, MayProcess, SessTypes, Active
  <2> DEFINE rsp == Head(down)
             c == Concatenated(rsp)
  <2>2. /\ rsp.cstate \in Nat /\ c \in CallRecords /\ cur \in CallRecords
    BY <1>0, <2>1, ConcatenatedIs DEF SessTypes, ResponseRecords
  <2>3. CASE Continue([c EXCEPT !.cstate = rsp.cstate])
    <3> DEFINE d == [c EXCEPT !.cstate = rsp.cstate]
    <3>1. d \in CallRecords /\ d.n = c.n
      BY <2>2 DEF CallRecords
    <3>2. d.n # 0
      BY <1>0, <2>1, <3>1, ConcatenatedIs DEF CallInv
    <3> HIDE DEF d
    <3>3. tid' \in Ids /\ cur' = [d EXCEPT !.tid = tid]
      BY <1>0, <2>3, NextTidIs DEF Continue, d
    <3>4. cur' \in CallRecords /\ cur'.n # 0
      BY <1>0, <3>1, <3>2, <3>3 DEF SessTypes, CallRecords
    <3>5. CASE Send(cur') /\ UNCHANGED <<results, pc>>
      <4>1. up' \in Seq(RequestRecords)
        BY <1>0, <3>4, <3>5, RequestIs, AppendIs DEF Send, SessTypes
      <4> QED
        BY <1>0, <1>11, <2>1, <3>3, <3>4, <3>5, <4>1 DEF sdp_process, SessTypes,
           serverVars
    <3>6. CASE Finish("failed", d.got, d.count) /\ UNCHANGED up
      <4>1. d.got \in Seq(Fragment) /\ d.count \in Nat
        BY <3>1 DEF CallRecords
      <4> QED
        BY <1>0, <1>11, <2>1, <3>3, <3>4, <3>6, <4>1, EndTypes
           DEF sdp_process, SessTypes, serverVars
    <3> QED
      BY <2>3, <3>5, <3>6 DEF Continue, d
  <2>4. CASE /\ \/ Finish("ok", c.got, c.count)
                \/ Finish("ok", cur.got, cur.count)
                \/ Finish("failed", cur.got, cur.count)
             /\ UNCHANGED <<tid, cur, up>>
    <3>1. /\ c.got \in Seq(Fragment) /\ c.count \in Nat
          /\ cur.got \in Seq(Fragment) /\ cur.count \in Nat
      BY <2>2 DEF CallRecords
    <3>2. results' \in Seq(ResultRecords) /\ Len(results') = Len(results) /\ pc' = "idle"
      BY <1>0, <2>1, <2>4, <3>1, EndTypes
    <3> QED
      BY <1>0, <1>11, <2>1, <2>4, <3>2 DEF sdp_process, SessTypes, serverVars
  <2> QED
    BY <1>11, <2>3, <2>4 DEF sdp_process
<1>12. CASE ProcessEnd
  <2>1. /\ Finish("failed", cur.got, cur.count) /\ Active
        /\ cur.got \in Seq(Fragment) /\ cur.count \in Nat
    BY <1>0, <1>12 DEF ProcessEnd, MayProcess, Active, SessTypes, CallRecords
  <2> QED
    BY <1>0, <1>12, <2>1, EndTypes DEF ProcessEnd, SessTypes, serverVars
<1>13. CASE SelectFails
  <2>1. pc' = "recv" /\ UNCHANGED <<tid, cur, results, record, answers, db, up, down>>
    BY <1>13 DEF SelectFails, serverVars
  <2> QED
    BY <1>0, <2>1 DEF SessTypes
<1> QED
  BY <1>1, <1>2, <1>3, <1>4, <1>5, <1>6, <1>7, <1>8, <1>9, <1>10, <1>11, <1>12,
     <1>13, NextCases

-----------------------------------------------------------------------------
(* The call under way.                                                       *)

LEMMA EndCall ==
  ASSUME SessTypes, CallInv, Active,
         NEW st \in {"ok", "failed"}, NEW got \in Seq(Fragment), NEW count \in Nat,
         Finish(st, got, count)
  PROVE  CallInv'
<1>1. /\ Len(results') = Len(results) /\ cur.n \in 1 .. Len(results)
      /\ results'[cur.n] = [st |-> st, got |-> got, count |-> count, told |-> 1]
      /\ \A n \in 1 .. Len(results) : n # cur.n => results'[n] = results[n]
      /\ pc' = "idle"
  BY TellIs DEF Finish
<1>2. ToldOnce'
  BY <1>1 DEF ToldOnce, CallInv
<1> QED
  BY <1>1, <1>2 DEF CallInv, Active

LEMMA CallStep == SessInv /\ SessNext /\ SessTypes' => CallInv'
<1> SUFFICES ASSUME SessInv, SessNext, SessTypes' PROVE CallInv'
  OBVIOUS
<1>0. SessTypes /\ CallInv
  BY DEF SessInv
<1>1. CASE ServerAnswers
  <2>1. up # <<>> /\ UNCHANGED clientVars
    BY <1>0, <1>1, ServerAnswersIs
  <2> QED
    BY <1>0, <2>1 DEF CallInv, ToldOnce, Active, clientVars,
       clientVarsButResults
<1>2. CASE ServerHangsUp
  BY <1>0, <1>2
     DEF ServerHangsUp, CallInv, ToldOnce, Active, clientVars, clientVarsButResults
<1>3. ASSUME NEW isLocal \in BOOLEAN, NEW isRetry \in BOOLEAN,
             sdp_connect(isLocal, isRetry)
      PROVE  CallInv'
  BY <1>0, <1>3 DEF sdp_connect, CallInv, ToldOnce, Active
<1>4. CASE ConnectReturns
  BY <1>0, <1>4 DEF ConnectReturns, CallInv, ToldOnce, Active
<1>5. CASE sdp_close
  <2>1. ToldOnce'
    <3>1. CASE pc = "process"
      <4>1. cur.n \in 1 .. Len(results) /\ results[cur.n].st = "pending"
        BY <1>0, <3>1, LengthIs DEF CallInv, Active
      <4> DEFINE e == [results[cur.n] EXCEPT !.st = "closed"]
      <4>2. results' = [results EXCEPT ![cur.n] = e]
        BY <1>5, <3>1 DEF sdp_close
      <4>3. results[cur.n] \in ResultRecords /\ results \in Seq(ResultRecords)
        BY <1>0, <4>1 DEF SessTypes
      <4>4. e \in ResultRecords /\ e.st = "closed" /\ e.told = results[cur.n].told
        BY <4>3, StatusIs
      <4>5. results[cur.n].told = 0
        BY <1>0, <4>1 DEF CallInv, ToldOnce
      <4> HIDE DEF e
      <4>6. /\ Len(results') = Len(results) /\ results'[cur.n] = e
            /\ \A n \in 1 .. Len(results) : n # cur.n => results'[n] = results[n]
        BY <4>1, <4>2, <4>3, <4>4, ReplacedIs
      <4> QED
        BY <1>0, <4>4, <4>5, <4>6 DEF CallInv, ToldOnce
    <3>2. CASE pc # "process"
      <4>1. results' = results
        BY <1>5, <3>2 DEF sdp_close
      <4> QED
        BY <1>0, <4>1 DEF CallInv, ToldOnce
    <3> QED
      BY <3>1, <3>2
  <2> QED
    BY <1>5, <2>1 DEF sdp_close, CallInv, Active
<1>6. ASSUME NEW kind \in Kinds, NEW async \in BOOLEAN, Starts(kind, async)
      PROVE  CallInv'
  <2>1. results' = Append(results, Pending) /\ pc' = "send"
    BY <1>6 DEF Starts, Begin
  <2>2. /\ Len(results') = Len(results) + 1 /\ results'[Len(results) + 1] = Pending
        /\ \A n \in 1 .. Len(results) : results'[n] = results[n]
    <3>1. results \in Seq(ResultRecords)
      BY <1>0 DEF SessTypes
    <3> QED
      BY <2>1, <3>1, RefusalIs, AppendIs
  <2>3. ToldOnce'
    <3>1. Pending.st = "pending" /\ Pending.told = 0
      BY DEF Pending
    <3>2. SUFFICES ASSUME NEW n \in 1 .. Len(results')
                   PROVE  results'[n].told =
                            IF results'[n].st \in {"ok", "failed"} THEN 1 ELSE 0
      BY DEF ToldOnce
    <3>3. n \in 1 .. Len(results) \/ n = Len(results) + 1
      BY <1>0, <2>2, LengthIs
    <3> QED
      BY <1>0, <2>2, <3>1, <3>3 DEF CallInv, ToldOnce
  <2>4. cur' = [n |-> Len(results'), kind |-> kind, async |-> async, tid |-> 0,
                cstate |-> 0, got |-> <<>>, count |-> 0]
    BY <1>6 DEF Starts, Begin, NoCall
  <2>5. /\ cur'.n = Len(results') /\ cur'.n # 0 /\ results'[cur'.n].st = "pending"
        /\ cur'.async => cur'.kind \in Queries
    BY <1>0, <1>6, <2>2, <2>4, LengthIs DEF Starts, Pending
  <2> QED
    BY <2>1, <2>3, <2>5 DEF CallInv, Active
<1>7. CASE Refused
  <2> DEFINE e == [Pending EXCEPT !.st = "failed", !.told = 1]
  <2>1. results' = Append(results, e) /\ e \in ResultRecords /\ e.st = "failed" /\ e.told = 1
    BY <1>7, RefusalIs DEF Refused
  <2> HIDE DEF e
  <2>2. /\ Len(results') = Len(results) + 1 /\ results'[Len(results) + 1] = e
        /\ \A n \in 1 .. Len(results) : results'[n] = results[n]
    <3>1. results \in Seq(ResultRecords)
      BY <1>0 DEF SessTypes
    <3> QED
      BY <2>1, <3>1, AppendIs
  <2>3. ToldOnce'
    <3>1. SUFFICES ASSUME NEW n \in 1 .. Len(results')
                   PROVE  results'[n].told =
                            IF results'[n].st \in {"ok", "failed"} THEN 1 ELSE 0
      BY DEF ToldOnce
    <3>2. n \in 1 .. Len(results) \/ n = Len(results) + 1
      BY <1>0, <2>2, LengthIs
    <3> QED
      BY <1>0, <2>1, <2>2, <3>2 DEF CallInv, ToldOnce
  <2> QED
    BY <1>7, <2>3 DEF Refused, CallInv, Active, clientVarsButResults
<1>8. CASE SendRequest
  <2>1. /\ cur' = [cur EXCEPT !.tid = tid] /\ cur \in CallRecords /\ Active
        /\ cur.got \in Seq(Fragment)
    BY <1>0, <1>8 DEF SendRequest, SessTypes, Active, CallRecords
  <2>2. cur'.n = cur.n /\ cur'.kind = cur.kind /\ cur'.async = cur.async
    BY <2>1 DEF CallRecords
  <2>3. CASE /\ UNCHANGED results
             /\ pc' = IF cur.async THEN "process" ELSE "select"
    BY <1>0, <2>1, <2>2, <2>3 DEF CallInv, ToldOnce, Active
  <2>4. CASE /\ results' = [results EXCEPT ![cur.n].st = "unsent"]
             /\ pc' = "idle"
    <3>1. cur.n \in 1 .. Len(results) /\ results[cur.n].st = "pending"
      BY <1>0, <2>1, LengthIs DEF CallInv
    <3> DEFINE e == [results[cur.n] EXCEPT !.st = "unsent"]
    <3>2. results' = [results EXCEPT ![cur.n] = e]
      BY <2>4
    <3>3. results[cur.n] \in ResultRecords /\ results \in Seq(ResultRecords)
      BY <1>0, <3>1 DEF SessTypes
    <3>4. e \in ResultRecords /\ e.st = "unsent" /\ e.told = results[cur.n].told
      BY <3>3, StatusIs
    <3>5. results[cur.n].told = 0
      BY <1>0, <3>1 DEF CallInv, ToldOnce
    <3> HIDE DEF e
    <3>6. /\ Len(results') = Len(results) /\ results'[cur.n] = e
          /\ \A n \in 1 .. Len(results) : n # cur.n => results'[n] = results[n]
      BY <3>1, <3>2, <3>3, <3>4, ReplacedIs
    <3>7. ToldOnce'
      BY <1>0, <3>4, <3>5, <3>6 DEF CallInv, ToldOnce
    <3> QED
      BY <2>4, <3>7 DEF CallInv, Active
  <2>5. CASE Finish("failed", cur.got, 0)
    BY <1>0, <2>1, <2>5, EndCall
  <2> QED
    BY <1>8, <2>3, <2>4, <2>5 DEF SendRequest
<1>9. CASE Receive
  <2>1. down # <<>> /\ Head(down) \in ResponseRecords /\ Active /\ cur \in CallRecords
    BY <1>0, <1>9, TakenIs DEF Receive, SessTypes, Active, Reading
  <2> DEFINE rsp == Head(down)
             got == Append(cur.got, rsp.fragment)
  <2>2. cur.got \in Seq(Fragment) /\ got \in Seq(Fragment)
    BY <2>1 DEF CallRecords, ResponseRecords
  <2>3. CASE /\ cur' = [cur EXCEPT !.got = got, !.cstate = rsp.cstate]
             /\ pc' = "send" /\ UNCHANGED results
    <3>1. cur'.n = cur.n /\ cur'.kind = cur.kind /\ cur'.async = cur.async
      BY <2>1, <2>3 DEF CallRecords
    <3> QED
      BY <1>0, <2>1, <2>3, <3>1 DEF CallInv, ToldOnce, Active
  <2>4. CASE Finish("ok", got, 0) \/ Finish("failed", cur.got, 0)
    BY <1>0, <2>1, <2>2, <2>4, EndCall
  <2> QED
    BY <1>9, <2>3, <2>4 DEF Receive
<1>10. CASE GivesUp
  <2>1. Finish("failed", cur.got, 0) /\ Active /\ cur.got \in Seq(Fragment)
    BY <1>0, <1>10 DEF GivesUp, Reading, Active, SessTypes, CallRecords
  <2> QED
    BY <1>0, <2>1, EndCall
<1>11. CASE sdp_process
  <2>1. /\ down # <<>> /\ Head(down) \in ResponseRecords /\ Active
        /\ cur \in CallRecords /\ pc = "process" /\ cur.kind \in Queries
    BY <1>0, <1>11, TakenIs DEF sdp_process, MayProcess, SessTypes, Active,
       CallInv
  <2> DEFINE rsp == Head(down)
             c == Concatenated(rsp)
  <2>2. /\ rsp.cstate \in Nat /\ c \in CallRecords
        /\ c.n = cur.n /\ c.kind = cur.kind /\ c.async = cur.async
    BY <1>0, <2>1, ConcatenatedIs DEF ResponseRecords
  <2>3. CASE Continue([c EXCEPT !.cstate = rsp.cstate])
    <3> DEFINE d == [c EXCEPT !.cstate = rsp.cstate]
    <3>1. /\ d \in CallRecords /\ d.n = cur.n /\ d.kind = cur.kind
          /\ d.async = cur.async
      BY <2>2 DEF CallRecords
    <3> HIDE DEF d
    <3>2. cur' = [d EXCEPT !.tid = tid]
      BY <2>3 DEF Continue, d
    <3>3. cur'.n = cur.n /\ cur'.kind = cur.kind /\ cur'.async = cur.async
      BY <3>1, <3>2 DEF CallRecords
    <3>4. CASE UNCHANGED <<results, pc>>
      BY <1>0, <2>1, <3>3, <3>4 DEF CallInv, ToldOnce, Active
    <3>5. CASE Finish("failed", d.got, d.count)
      <4>1. d.got \in Seq(Fragment) /\ d.count \in Nat
        BY <3>1 DEF CallRecords
      <4> QED
        BY <1>0, <2>1, <3>5, <4>1, EndCall
    <3> QED
      BY <2>3, <3>4, <3>5 DEF Continue, d
  <2>4. CASE \/ Finish("ok", c.got, c.count)
             \/ Finish("ok", cur.got, cur.count)
             \/ Finish("failed", cur.got, cur.count)
    <3>1. /\ c.got \in Seq(Fragment) /\ c.count \in Nat
          /\ cur.got \in Seq(Fragment) /\ cur.count \in Nat
      BY <2>1, <2>2 DEF CallRecords
    <3> QED
      BY <1>0, <2>1, <2>4, <3>1, EndCall
  <2> QED
    BY <1>11, <2>3, <2>4 DEF sdp_process
<1>12. CASE ProcessEnd
  <2>1. /\ Finish("failed", cur.got, cur.count) /\ Active
        /\ cur.got \in Seq(Fragment) /\ cur.count \in Nat
    BY <1>0, <1>12 DEF ProcessEnd, MayProcess, Active, SessTypes, CallRecords
  <2> QED
    BY <1>0, <2>1, EndCall
<1>13. CASE SelectFails
  <2>1. pc = "select" /\ pc' = "recv" /\ cur' = cur /\ results' = results
    BY <1>13 DEF SelectFails
  <2> QED
    BY <1>0, <2>1 DEF CallInv, ToldOnce, Active
<1> QED
  BY <1>1, <1>2, <1>3, <1>4, <1>5, <1>6, <1>7, <1>8, <1>9, <1>10, <1>11, <1>12,
     <1>13, NextCases

-----------------------------------------------------------------------------
(* What is on its way.                                                       *)

LEMMA ElementsAre ==
  ASSUME SessTypes
  PROVE  /\ \A i \in 1 .. Len(down) : /\ down[i] \in ResponseRecords
                                      /\ down[i].fragment[1] \in Nat \ {0}
                                      /\ down[i].tid \in Ids
         /\ \A i \in 1 .. Len(up) : /\ up[i] \in RequestRecords
                                    /\ up[i].n \in Nat \ {0} /\ up[i].tid \in Ids
<1>1. \A i \in 1 .. Len(down) : down[i] \in ResponseRecords
  BY DEF SessTypes
<1>2. \A i \in 1 .. Len(up) : up[i] \in RequestRecords
  BY DEF SessTypes
<1>3. \A rsp \in ResponseRecords : rsp.fragment[1] \in Nat \ {0} /\ rsp.tid \in Ids
  BY DEF ResponseRecords, Fragment
<1>4. \A req \in RequestRecords : req.n \in Nat \ {0} /\ req.tid \in Ids
  BY DEF RequestRecords
<1> QED
  BY <1>1, <1>2, <1>3, <1>4

(* The answer to the call under way is the last thing there is.              *)
LEMMA OwnIsLast ==
  ASSUME SessTypes, CallInv, PipeInv, Active,
         NEW i \in 1 .. Len(down), down[i].fragment[1] = cur.n
  PROVE  i = Len(down) /\ up = <<>>
<1>1. cur.n = Len(results) /\ Len(results) \in Nat
  BY LengthIs DEF CallInv
<1>2. ASSUME i # Len(down) PROVE FALSE
  <2>1. Len(down) \in 1 .. Len(down) /\ i < Len(down)
    BY <1>2, LengthIs
  <2>2. down[Len(down)].fragment[1] > cur.n
    BY <2>1 DEF PipeInv
  <2>3. down[Len(down)].fragment[1] <= Len(results)
    BY <2>1 DEF PipeInv, OnItsWay, Way
  <2>4. down[Len(down)].fragment[1] \in Nat
    BY <2>1, ElementsAre
  <2> QED
    BY <1>1, <2>2, <2>3, <2>4
<1>3. ASSUME up # <<>> PROVE FALSE
  <2>1. 1 \in 1 .. Len(up)
    BY <1>3 DEF SessTypes
  <2>2. up[1].n > cur.n /\ up[1].n <= Len(results) /\ up[1].n \in Nat
    BY <2>1, ElementsAre DEF PipeInv, OnItsWay, Way
  <2> QED
    BY <1>1, <2>2
<1> QED
  BY <1>2, <1>3

LEMMA BelongsIsOwn ==
  ASSUME SessTypes, CallInv, PipeInv, Waiting, down # <<>>, Belongs(Head(down))
  PROVE  /\ Head(down) = down[1] /\ Len(down) = 1 /\ up = <<>>
         /\ TakeResponses => down' = <<>>
         /\ Head(down).fragment[1] = cur.n
<1>1. Head(down) = down[1] /\ 1 \in 1 .. Len(down)
  BY DEF SessTypes
<1>2. OnItsWay(down[1].fragment[1], down[1].tid)
  BY <1>1 DEF PipeInv
<1>3. Lag(down[1].tid) = 1
  BY <1>1 DEF Belongs, PipeInv
<1>4. down[1].fragment[1] = cur.n
  BY <1>2, <1>3 DEF OnItsWay, Way, Lag, Waiting
<1>5. Active
  BY DEF Active, Waiting
<1>6. Len(down) = 1 /\ up = <<>>
  BY <1>1, <1>4, <1>5, OwnIsLast
<1>7. ASSUME TakeResponses PROVE down' = <<>>
  <2>1. down' \in Seq(ResponseRecords) /\ Len(down') = 0
    BY <1>6, <1>7, TakenIs
  <2>2. \A s \in Seq(ResponseRecords) : Len(s) = 0 => s = <<>>
    OBVIOUS
  <2> QED
    BY <2>1, <2>2
<1> QED
  BY <1>1, <1>4, <1>6, <1>7

LEMMA PipeEmpties ==
  ASSUME down' = <<>>, up' = <<>>, Waiting' => Lag(cur.tid)' = 1
  PROVE  PipeInv'
  BY DEF PipeInv

NextWay(n, t) == Way(n, t, tid', pc', results', cur'.n)

LEMMA PipeShrinks ==
  ASSUME SessTypes, PipeInv,
         down' = down \/ (down # <<>> /\ TakeResponses), up' = up \/ up' = <<>>,
         \A n \in Nat \ {0}, t \in Ids : OnItsWay(n, t) => NextWay(n, t),
         Waiting' => Lag(cur.tid)' = 1
  PROVE  PipeInv'
<1>1. PICK k \in 0 .. Len(down) : /\ Len(down') \in Nat
                          /\ \A i \in 1 .. Len(down') : down'[i] = down[i + k] /\ i + k \in 1 .. Len(down)
  <2>1. CASE down' = down
    <3>1. \A i \in 1 .. Len(down') : down'[i] = down[i + 0] /\ i + 0 \in 1 .. Len(down)
      BY <2>1, LengthIs
    <3> QED
      BY <2>1, <3>1, LengthIs
  <2>2. CASE down # <<>> /\ TakeResponses
    BY <2>2, TakenIs, LengthIs
  <2> QED
    BY <2>1, <2>2
<1>2. \A i \in 1 .. Len(up') : up'[i] = up[i] /\ i \in 1 .. Len(up)
  OBVIOUS
<1>3. \A i \in 1 .. Len(down') : NextWay(down'[i].fragment[1], down'[i].tid)
  BY <1>1, ElementsAre DEF PipeInv
<1>4. \A i \in 1 .. Len(up') : NextWay(up'[i].n, up'[i].tid)
  BY <1>2, ElementsAre DEF PipeInv
<1>5. \A i, j \in 1 .. Len(down') : i < j => down'[i].fragment[1] < down'[j].fragment[1]
  <2>1. SUFFICES ASSUME NEW i \in 1 .. Len(down'), NEW j \in 1 .. Len(down'), i < j
                 PROVE  down'[i].fragment[1] < down'[j].fragment[1]
    OBVIOUS
  <2>2. i + k < j + k
    BY <1>1, <2>1
  <2> QED
    BY <1>1, <2>2 DEF PipeInv
<1>6. \A i, j \in 1 .. Len(up') : i < j => up'[i].n < up'[j].n
  BY <1>2 DEF PipeInv
<1>7. \A i \in 1 .. Len(down'), j \in 1 .. Len(up') : down'[i].fragment[1] < up'[j].n
  BY <1>1, <1>2 DEF PipeInv
<1> QED
  BY <1>3, <1>4, <1>5, <1>6, <1>7 DEF PipeInv, OnItsWay, NextWay

LEMMA PipeMoves ==
  ASSUME SessTypes, PipeInv, up # <<>>, NEW rsp \in ResponseRecords,
         up' = Tail(up), down' = Append(down, rsp),
         rsp.tid = Head(up).tid, rsp.fragment[1] = Head(up).n,
         UNCHANGED <<tid, pc, results, cur>>
  PROVE  PipeInv'
<1>1. /\ Len(up') = Len(up) - 1 /\ Len(up) \in Nat
      /\ \A i \in 1 .. Len(up') : up'[i] = up[i + 1] /\ i + 1 \in 1 .. Len(up)
      /\ Head(up) = up[1] /\ 1 \in 1 .. Len(up)
  BY TailIs, LengthIs DEF SessTypes
<1>2. /\ Len(down') = Len(down) + 1 /\ Len(down) \in Nat
      /\ down'[Len(down) + 1] = rsp
      /\ \A i \in 1 .. Len(down) : down'[i] = down[i]
  BY AppendIs, LengthIs DEF SessTypes
<1>3. \A i \in 1 .. Len(down') : i \in 1 .. Len(down) \/ i = Len(down) + 1
  BY <1>2
<1>4. \A i \in 1 .. Len(down') : OnItsWay(down'[i].fragment[1], down'[i].tid)
  BY <1>1, <1>2, <1>3 DEF PipeInv
<1>5. \A i \in 1 .. Len(up') : OnItsWay(up'[i].n, up'[i].tid)
  BY <1>1 DEF PipeInv
<1>6. \A i, j \in 1 .. Len(down') : i < j => down'[i].fragment[1] < down'[j].fragment[1]
  <2>1. SUFFICES ASSUME NEW i \in 1 .. Len(down'), NEW j \in 1 .. Len(down'), i < j
                 PROVE  down'[i].fragment[1] < down'[j].fragment[1]
    OBVIOUS
  <2>2. i \in 1 .. Len(down)
    BY <1>2, <2>1
  <2>3. CASE j \in 1 .. Len(down)
    BY <1>2, <2>1, <2>2, <2>3 DEF PipeInv
  <2>4. CASE j = Len(down) + 1
    BY <1>1, <1>2, <2>2, <2>4 DEF PipeInv
  <2> QED
    BY <1>3, <2>3, <2>4
<1>7. \A i, j \in 1 .. Len(up') : i < j => up'[i].n < up'[j].n
  <2>1. SUFFICES ASSUME NEW i \in 1 .. Len(up'), NEW j \in 1 .. Len(up'), i < j
                 PROVE  up'[i].n < up'[j].n
    OBVIOUS
  <2>2. i + 1 < j + 1
    BY <2>1
  <2> QED
    BY <1>1, <2>2 DEF PipeInv
<1>8. \A i \in 1 .. Len(down'), j \in 1 .. Len(up') : down'[i].fragment[1] < up'[j].n
  <2>1. SUFFICES ASSUME NEW i \in 1 .. Len(down'), NEW j \in 1 .. Len(up')
                 PROVE  down'[i].fragment[1] < up'[j].n
    OBVIOUS
  <2>2. CASE i \in 1 .. Len(down)
    BY <1>1, <1>2, <2>1, <2>2 DEF PipeInv
  <2>3. CASE i = Len(down) + 1
    <3>1. 1 < j + 1 /\ j + 1 \in 1 .. Len(up)
      BY <1>1, <2>1
    <3> QED
      BY <1>1, <1>2, <2>1, <2>3, <3>1 DEF PipeInv
  <2> QED
    BY <1>3, <2>1, <2>2, <2>3
<1>9. Waiting' => Lag(cur.tid)' = 1
  BY DEF PipeInv, Waiting, Lag
<1> QED
  BY <1>4, <1>5, <1>6, <1>7, <1>8, <1>9 DEF PipeInv, OnItsWay

LEMMA PipeGrows ==
  ASSUME SessTypes, PipeInv, NEW req \in RequestRecords,
         down' = down, up' = Append(up, req),
         \A n \in Nat \ {0}, t \in Ids : OnItsWay(n, t) => NextWay(n, t) /\ n < req.n,
         NextWay(req.n, req.tid),
         Waiting' => Lag(cur.tid)' = 1
  PROVE  PipeInv'
<1>1. /\ Len(up') = Len(up) + 1 /\ Len(up) \in Nat /\ up'[Len(up) + 1] = req
      /\ \A i \in 1 .. Len(up) : up'[i] = up[i]
  BY AppendIs, LengthIs DEF SessTypes
<1>2. \A i \in 1 .. Len(up') : i \in 1 .. Len(up) \/ i = Len(up) + 1
  BY <1>1
<1>3. /\ \A i \in 1 .. Len(down) : /\ NextWay(down[i].fragment[1], down[i].tid)
                                   /\ down[i].fragment[1] < req.n
      /\ \A i \in 1 .. Len(up) : NextWay(up[i].n, up[i].tid) /\ up[i].n < req.n
  BY ElementsAre DEF PipeInv
<1>4. \A i \in 1 .. Len(up') : NextWay(up'[i].n, up'[i].tid)
  BY <1>1, <1>2, <1>3
<1>5. \A i, j \in 1 .. Len(up') : i < j => up'[i].n < up'[j].n
  <2>1. SUFFICES ASSUME NEW i \in 1 .. Len(up'), NEW j \in 1 .. Len(up'), i < j
                 PROVE  up'[i].n < up'[j].n
    OBVIOUS
  <2>2. i \in 1 .. Len(up)
    BY <1>1, <2>1
  <2> QED
    BY <1>1, <1>2, <1>3, <2>1, <2>2 DEF PipeInv
<1>6. \A i \in 1 .. Len(down), j \in 1 .. Len(up') : down[i].fragment[1] < up'[j].n
  BY <1>1, <1>2, <1>3 DEF PipeInv
<1> QED
  BY <1>3, <1>4, <1>5, <1>6 DEF PipeInv, OnItsWay, NextWay

LEMMA IdleKeeps ==
  ASSUME SessTypes, tid' = tid, pc' = "idle",
         Len(results') \in Nat, Len(results') >= Len(results),
         \A n \in 1 .. Len(results) : results[n].st # "ok" => results'[n].st # "ok",
         NEW n \in Nat \ {0}, NEW t \in Ids, OnItsWay(n, t)
  PROVE  NextWay(n, t)
<1>1. n \in 1 .. Len(results) /\ Behind(tid, t) \in Nat /\ Len(results) \in Nat
  <2>1. n <= Len(results)
    BY DEF OnItsWay, Way
  <2>2. Behind(tid, t) \in Nat
    BY LengthIs DEF SessTypes, Behind, Ids
  <2> QED
    BY <2>1, <2>2, LengthIs
<1> HIDE DEF Behind
<1> QED
  BY <1>1 DEF OnItsWay, NextWay, Way

(* A call that has no answer leaves the pipe as it is; one that has was the  *)
(* last in it.                                                               *)
LEMMA EndPipe ==
  ASSUME SessTypes, CallInv, PipeInv, Active, tid' = tid, up' = up,
         NEW st \in {"ok", "failed"}, NEW got \in Seq(Fragment), NEW count \in Nat,
         Finish(st, got, count),
         down' = down \/ (down # <<>> /\ TakeResponses),
         st = "ok" => up' = <<>> /\ down' = <<>>
  PROVE  PipeInv'
<1>1. /\ Len(results') = Len(results) /\ cur.n \in 1 .. Len(results)
      /\ results'[cur.n] = [st |-> st, got |-> got, count |-> count, told |-> 1]
      /\ \A n \in 1 .. Len(results) : n # cur.n => results'[n] = results[n]
      /\ pc' = "idle"
  BY TellIs DEF Finish
<1>2. ~ Waiting'
  BY <1>1 DEF Waiting
<1>3. CASE st = "ok"
  BY <1>2, <1>3, PipeEmpties
<1>4. CASE st # "ok"
  <2>1. \A n \in 1 .. Len(results) : results[n].st # "ok" => results'[n].st # "ok"
    BY <1>1, <1>4
  <2>2. \A n \in Nat \ {0}, t \in Ids : OnItsWay(n, t) => NextWay(n, t)
    BY <1>1, <2>1, LengthIs, IdleKeeps
  <2> QED
    BY <1>2, <2>2, PipeShrinks
<1> QED
  BY <1>3, <1>4

LEMMA PipeStep == SessInv /\ SessNext /\ SessTypes' /\ CallInv' => PipeInv'
<1> SUFFICES ASSUME SessInv, SessNext, SessTypes', CallInv' PROVE PipeInv'
  OBVIOUS
<1>0. SessTypes /\ CallInv /\ PipeInv
  BY DEF SessInv
<1>1. CASE ServerAnswers
  <2>1. up # <<>> /\ up' = Tail(up) /\ UNCHANGED <<tid, pc, results, cur>>
    BY <1>0, <1>1, ServerAnswersIs DEF clientVars, clientVarsButResults
  <2> QED
    BY <1>0, <1>1, <2>1, ServerAnswersIs, PipeMoves
<1>2. CASE ServerHangsUp
  <2>1. up' = <<>> /\ down' = down /\ UNCHANGED <<tid, pc, results, cur>>
    BY <1>2 DEF ServerHangsUp, clientVars, clientVarsButResults
  <2>2. \A n \in Nat \ {0}, t \in Ids : OnItsWay(n, t) => NextWay(n, t)
    BY <2>1 DEF OnItsWay, NextWay
  <2>3. Waiting' => Lag(cur.tid)' = 1
    BY <1>0, <2>1 DEF PipeInv, Waiting, Lag
  <2> QED
    BY <1>0, <2>1, <2>2, <2>3, PipeShrinks
<1>3. ASSUME NEW isLocal \in BOOLEAN, NEW isRetry \in BOOLEAN,
             sdp_connect(isLocal, isRetry)
      PROVE  PipeInv'
  <2>1. up' = <<>> /\ down' = <<>> /\ ~ Waiting'
    BY <1>0, <1>3 DEF sdp_connect, CallInv, Active, Waiting
  <2> QED
    BY <2>1, PipeEmpties
<1>4. CASE ConnectReturns
  <2>1. up' = <<>> /\ down' = <<>> /\ ~ Waiting'
    BY <1>0, <1>4 DEF ConnectReturns, CallInv, Active, Waiting
  <2> QED
    BY <2>1, PipeEmpties
<1>5. CASE sdp_close
  <2>1. up' = <<>> /\ down' = <<>> /\ ~ Waiting'
    BY <1>5 DEF sdp_close, Waiting
  <2> QED
    BY <2>1, PipeEmpties
<1>6. ASSUME NEW kind \in Kinds, NEW async \in BOOLEAN, Starts(kind, async)
      PROVE  PipeInv'
  <2>1. /\ results' = Append(results, Pending) /\ pc = "idle" /\ pc' = "send"
        /\ tid' = tid /\ up' = up /\ down' = down
        /\ cur' = [NoCall EXCEPT !.n = Len(results'), !.kind = kind, !.async = async]
    BY <1>6 DEF Starts, Begin
  <2>2. /\ Len(results') = Len(results) + 1
        /\ \A n \in 1 .. Len(results) : results'[n] = results[n]
    <3>1. results \in Seq(ResultRecords)
      BY <1>0 DEF SessTypes
    <3> QED
      BY <2>1, <3>1, RefusalIs, AppendIs
  <2>3. cur'.n = Len(results) + 1
    BY <2>1, <2>2 DEF NoCall
  <2>4. ASSUME NEW n \in Nat \ {0}, NEW t \in Ids, OnItsWay(n, t) PROVE NextWay(n, t)
    <3>1. /\ n <= Len(results) /\ results[n].st # "ok"
          /\ Behind(tid, t) >= 1 /\ Behind(tid, t) + n <= Len(results) + 1
      BY <2>1, <2>4 DEF OnItsWay, Way
    <3>2. Len(results) \in Nat /\ n \in 1 .. Len(results)
      BY <1>0, <3>1, LengthIs
    <3>3. results'[n].st # "ok"
      BY <2>2, <3>1, <3>2
    <3> QED
      BY <2>1, <2>2, <2>3, <3>1, <3>2, <3>3 DEF NextWay, Way
  <2>5. ~ Waiting'
    BY <2>1 DEF Waiting
  <2> QED
    BY <1>0, <2>1, <2>4, <2>5, PipeShrinks
<1>7. CASE Refused
  <2> DEFINE e == [Pending EXCEPT !.st = "failed", !.told = 1]
  <2>1. /\ results' = Append(results, e) /\ e \in ResultRecords
        /\ pc' = "idle" /\ tid' = tid /\ up' = up /\ down' = down
    BY <1>7, RefusalIs DEF Refused, clientVarsButResults
  <2> HIDE DEF e
  <2>2. /\ Len(results') = Len(results) + 1 /\ Len(results) \in Nat
        /\ \A n \in 1 .. Len(results) : results'[n] = results[n]
    <3>1. results \in Seq(ResultRecords)
      BY <1>0 DEF SessTypes
    <3> QED
      BY <1>0, <2>1, <3>1, AppendIs, LengthIs
  <2>3. \A n \in Nat \ {0}, t \in Ids : OnItsWay(n, t) => NextWay(n, t)
    <3>1. Len(results') \in Nat /\ Len(results') >= Len(results)
      BY <2>2
    <3> QED
      BY <1>0, <2>1, <2>2, <3>1, IdleKeeps
  <2>4. ~ Waiting'
    BY <2>1 DEF Waiting
  <2> QED
    BY <1>0, <2>1, <2>3, <2>4, PipeShrinks
<1>8. CASE SendRequest
  <2>1. /\ cur' = [cur EXCEPT !.tid = tid] /\ cur \in CallRecords /\ Active
        /\ pc = "send" /\ tid' = NextTid /\ down' = down /\ tid \in Ids
        /\ cur.got \in Seq(Fragment)
    BY <1>0, <1>8 DEF SendRequest, SessTypes, Active, CallRecords
  <2>2. /\ cur'.n = cur.n /\ cur'.tid = tid /\ cur' \in CallRecords
        /\ cur.n = Len(results) /\ cur.n # 0 /\ results[cur.n].st = "pending"
        /\ Len(results) <= MaxCalls
    BY <1>0, <2>1 DEF CallRecords, CallInv, SessTypes
  <2>3. Behind(tid', tid) = 1
    BY <1>0, <2>1, <2>2, LagGrows, LengthIs
  <2>4. ASSUME NEW n \in Nat \ {0}, NEW t \in Ids, OnItsWay(n, t)
        PROVE  /\ n \in 1 .. Len(results) /\ results[n].st # "ok" /\ n < cur.n
               /\ Behind(tid', t) = Behind(tid, t) + 1 /\ Behind(tid, t) \in Nat
               /\ Behind(tid, t) >= 1 /\ Behind(tid, t) + n <= Len(results)
    <3>1. /\ n <= Len(results) /\ results[n].st # "ok" /\ n < cur.n
          /\ Behind(tid, t) >= 1 /\ Behind(tid, t) + n <= Len(results)
      BY <2>1, <2>4, <1>0, LengthIs DEF OnItsWay, Way
    <3>2. Lag(t) \in Nat /\ (Lag(t) + 1 < Tids => Behind(tid', t) = Lag(t) + 1)
      BY <1>0, <2>1, LagGrows
    <3> QED
      BY <1>0, <2>2, <3>1, <3>2, LengthIs DEF Lag
  <2>5. CASE Send(cur') /\ UNCHANGED results /\ pc' \in {"process", "select"}
    <3> DEFINE req == [n |-> cur'.n, tid |-> cur'.tid, kind |-> cur'.kind,
                       cstate |-> cur'.cstate, handle |-> record.handle]
    <3>1. up' = Append(up, req)
      BY <2>5 DEF Send
    <3>2. req \in RequestRecords
      BY <1>0, <2>2, RequestIs
    <3>3. req.n = cur.n /\ req.tid = tid
      BY <2>2
    <3> HIDE DEF req
    <3>4. ASSUME NEW n \in Nat \ {0}, NEW t \in Ids, OnItsWay(n, t)
          PROVE  NextWay(n, t) /\ n < req.n
      <4>1. /\ n \in 1 .. Len(results) /\ results[n].st # "ok" /\ n < cur.n
            /\ Behind(tid', t) = Behind(tid, t) + 1 /\ Behind(tid, t) \in Nat
            /\ Behind(tid, t) >= 1 /\ Behind(tid, t) + n <= Len(results)
        BY <2>4, <3>4
      <4>2. n # cur'.n /\ Behind(tid', t) >= 2
        BY <1>0, <2>2, <4>1, LengthIs
      <4>3. /\ n <= Len(results') /\ results'[n].st # "ok" /\ Behind(tid', t) >= 1
            /\ Behind(tid', t) + n <= Len(results') + 1
        BY <1>0, <2>5, <4>1, LengthIs
      <4> QED
        BY <2>5, <3>3, <4>1, <4>2, <4>3 DEF NextWay, Way
    <3>5. NextWay(req.n, req.tid)
      <4>1. /\ req.n <= Len(results') /\ results'[req.n].st # "ok"
            /\ 1 + req.n <= Len(results') + 1
        BY <1>0, <2>2, <2>5, <3>3, LengthIs
      <4> QED
        BY <2>2, <2>3, <2>5, <3>3, <4>1 DEF NextWay, Way
    <3>6. Lag(cur.tid)' = 1
      BY <2>2, <2>3 DEF Lag
    <3> QED
      BY <1>0, <2>1, <3>1, <3>2, <3>4, <3>5, <3>6, PipeGrows
  <2>6. CASE /\ UNCHANGED up /\ pc' = "idle" /\ Len(results') = Len(results)
             /\ \A n \in 1 .. Len(results) : results[n].st # "ok" => results'[n].st # "ok"
    <3>1. ASSUME NEW n \in Nat \ {0}, NEW t \in Ids, OnItsWay(n, t) PROVE NextWay(n, t)
      <4>1. /\ n \in 1 .. Len(results) /\ results[n].st # "ok" /\ n < cur.n
            /\ Behind(tid', t) = Behind(tid, t) + 1 /\ Behind(tid, t) \in Nat
            /\ Behind(tid, t) >= 1 /\ Behind(tid, t) + n <= Len(results)
        BY <2>4, <3>1
      <4>2. /\ n <= Len(results') /\ results'[n].st # "ok" /\ Behind(tid', t) >= 1
            /\ Behind(tid', t) + n <= Len(results') + 1
        BY <1>0, <2>6, <4>1, LengthIs
      <4> QED
        BY <2>6, <4>2 DEF NextWay, Way
    <3>2. ~ Waiting'
      BY <2>6 DEF Waiting
    <3> QED
      BY <1>0, <2>1, <2>6, <3>1, <3>2, PipeShrinks
  <2>7. ASSUME /\ results' = [results EXCEPT ![cur.n].st = "unsent"]
               /\ pc' = "idle" /\ UNCHANGED up
        PROVE  PipeInv'
    <3>1. cur.n \in 1 .. Len(results)
      BY <1>0, <2>2, LengthIs
    <3> DEFINE e == [results[cur.n] EXCEPT !.st = "unsent"]
    <3>2. results' = [results EXCEPT ![cur.n] = e]
      BY <2>7
    <3>3. results[cur.n] \in ResultRecords /\ results \in Seq(ResultRecords)
      BY <1>0, <3>1 DEF SessTypes
    <3>4. e \in ResultRecords /\ e.st = "unsent"
      BY <3>3, StatusIs
    <3> HIDE DEF e
    <3>5. /\ Len(results') = Len(results) /\ results'[cur.n] = e
          /\ \A n \in 1 .. Len(results) : n # cur.n => results'[n] = results[n]
      BY <3>1, <3>2, <3>3, <3>4, ReplacedIs
    <3> QED
      BY <2>6, <2>7, <3>4, <3>5
  <2>8. ASSUME Finish("failed", cur.got, 0), UNCHANGED up PROVE PipeInv'
    <3>1. /\ Len(results') = Len(results) /\ pc' = "idle"
          /\ results'[cur.n] = [st |-> "failed", got |-> cur.got, count |-> 0, told |-> 1]
          /\ \A n \in 1 .. Len(results) : n # cur.n => results'[n] = results[n]
      <4>1. Tell("failed", cur.got, 0) /\ pc' = "idle"
        BY <2>8 DEF Finish
      <4> QED
        BY <1>0, <2>1, <4>1, TellIs
    <3> QED
      BY <2>6, <2>8, <3>1
  <2> QED
    BY <1>8, <2>5, <2>7, <2>8 DEF SendRequest
<1>9. CASE Receive
  <2>1. /\ down # <<>> /\ TakeResponses /\ Head(down) \in ResponseRecords
        /\ Active /\ Waiting /\ cur \in CallRecords /\ tid' = tid /\ up' = up
    BY <1>0, <1>9, TakenIs DEF Receive, SessTypes, Active, Reading, Waiting
  <2> DEFINE rsp == Head(down)
             got == Append(cur.got, rsp.fragment)
  <2>2. cur.got \in Seq(Fragment) /\ got \in Seq(Fragment)
    BY <2>1 DEF CallRecords, ResponseRecords
  <2>3. CASE Belongs(rsp)
    <3>1. up' = <<>> /\ down' = <<>>
      BY <1>0, <2>1, <2>3, BelongsIsOwn
    <3>2. ~ Waiting'
      BY <1>9 DEF Receive, Finish, Waiting
    <3> QED
      BY <3>1, <3>2, PipeEmpties
  <2>4. CASE ~ Belongs(rsp)
    <3>1. Finish("failed", cur.got, 0)
      BY <1>9, <2>4 DEF Receive
    <3> QED
      BY <1>0, <2>1, <2>2, <3>1, EndPipe
  <2> QED
    BY <2>3, <2>4
<1>10. CASE GivesUp
  <2>1. /\ Finish("failed", cur.got, 0) /\ Active /\ cur.got \in Seq(Fragment)
        /\ tid' = tid /\ up' = up /\ down' = down
    BY <1>0, <1>10 DEF GivesUp, Reading, Active, SessTypes, CallRecords
  <2> QED
    BY <1>0, <2>1, EndPipe
<1>11. CASE sdp_process
  <2>1. /\ down # <<>> /\ TakeResponses /\ Head(down) \in ResponseRecords
        /\ Active /\ Waiting /\ cur \in CallRecords /\ pc = "process"
    BY <1>0, <1>11, TakenIs DEF sdp_process, MayProcess, SessTypes, Active,
       Waiting
  <2> DEFINE rsp == Head(down)
             c == Concatenated(rsp)
  <2>2. /\ c \in CallRecords /\ c.n = cur.n
        /\ cur.got \in Seq(Fragment) /\ cur.count \in Nat
        /\ c.got \in Seq(Fragment) /\ c.count \in Nat
    BY <1>0, <2>1, ConcatenatedIs DEF CallRecords
  <2>3. CASE /\ Belongs(rsp) /\ rsp.pdu = "rsp" /\ rsp.cstate # 0
             /\ Continue([c EXCEPT !.cstate = rsp.cstate])
    <3> DEFINE d == [c EXCEPT !.cstate = rsp.cstate]
    <3>1. d \in CallRecords /\ d.n = cur.n
      BY <2>1, <2>2 DEF CallRecords, ResponseRecords
    <3>2. up = <<>> /\ down' = <<>>
      BY <1>0, <2>1, <2>3, BelongsIsOwn
    <3> HIDE DEF d
    <3>3. /\ tid' = NextTid /\ cur' = [d EXCEPT !.tid = tid] /\ tid \in Ids
      BY <1>0, <2>3 DEF Continue, d, SessTypes
    <3>4. /\ cur' \in CallRecords /\ cur'.n = cur.n /\ cur'.tid = tid
          /\ cur.n = Len(results) /\ cur.n # 0 /\ results[cur.n].st = "pending"
          /\ Len(results) <= MaxCalls
      BY <1>0, <2>1, <3>1, <3>3 DEF CallRecords, SessTypes, CallInv
    <3>5. Behind(tid', tid) = 1
      BY <1>0, <3>3, <3>4, LagGrows, LengthIs
    <3>6. Lag(cur.tid)' = 1
      BY <3>4, <3>5 DEF Lag
    <3>7. CASE Send(cur') /\ UNCHANGED <<results, pc>>
      <4> DEFINE req == [n |-> cur'.n, tid |-> cur'.tid, kind |-> cur'.kind,
                         cstate |-> cur'.cstate, handle |-> record.handle]
      <4>1. up' = <<req>>
        BY <3>2, <3>7 DEF Send
      <4>2. req.n = cur.n /\ req.tid = tid
        BY <3>4
      <4> HIDE DEF req
      <4>3. Len(up') = 1 /\ up'[1] = req /\ Len(down') = 0
        BY <3>2, <4>1
      <4>4. NextWay(req.n, req.tid)
        <5>1. /\ req.n <= Len(results') /\ results'[req.n].st # "ok"
              /\ 1 + req.n <= Len(results') + 1
          BY <1>0, <3>4, <3>7, <4>2, LengthIs
        <5> QED
          BY <2>1, <3>4, <3>5, <3>7, <4>2, <5>1 DEF NextWay, Way
      <4> QED
        BY <3>6, <4>3, <4>4 DEF PipeInv, OnItsWay, NextWay
    <3>8. CASE Finish("failed", d.got, d.count) /\ UNCHANGED up
      <4>1. ~ Waiting' /\ up' = <<>>
        BY <3>2, <3>8 DEF Finish, Waiting
      <4> QED
        BY <3>2, <4>1, PipeEmpties
    <3> QED
      BY <2>3, <3>7, <3>8 DEF Continue, d
  <2>4. CASE /\ Belongs(rsp)
             /\ Finish("ok", c.got, c.count) \/ Finish("ok", cur.got, cur.count)
             /\ UNCHANGED <<tid, cur, up>>
    <3>1. up' = <<>> /\ down' = <<>>
      BY <1>0, <2>1, <2>4, BelongsIsOwn
    <3>2. ~ Waiting'
      BY <2>4 DEF Finish, Waiting
    <3> QED
      BY <3>1, <3>2, PipeEmpties
  <2>5. CASE Finish("failed", cur.got, cur.count) /\ UNCHANGED <<tid, cur, up>>
    BY <1>0, <2>1, <2>2, <2>5, EndPipe
  <2> QED
    BY <1>11, <2>3, <2>4, <2>5 DEF sdp_process
<1>12. CASE ProcessEnd
  <2>1. /\ Finish("failed", cur.got, cur.count) /\ Active
        /\ cur.got \in Seq(Fragment) /\ cur.count \in Nat
        /\ tid' = tid /\ up' = up /\ down' = down
    BY <1>0, <1>12 DEF ProcessEnd, MayProcess, Active, SessTypes, CallRecords
  <2> QED
    BY <1>0, <2>1, EndPipe
<1>13. CASE SelectFails
  <2>1. /\ pc = "select" /\ pc' = "recv"
        /\ UNCHANGED <<tid, cur, results, up, down>>
    BY <1>13 DEF SelectFails
  <2>2. \A n \in Nat \ {0}, t \in Ids : OnItsWay(n, t) => NextWay(n, t)
    BY <2>1 DEF OnItsWay, NextWay, Way
  <2>3. Waiting' => Lag(cur.tid)' = 1
    BY <1>0, <2>1 DEF PipeInv, Waiting, Lag
  <2> QED
    BY <1>0, <2>1, <2>2, <2>3, PipeShrinks
<1> QED
  BY <1>1, <1>2, <1>3, <1>4, <1>5, <1>6, <1>7, <1>8, <1>9, <1>10, <1>11, <1>12,
     <1>13, NextCases

-----------------------------------------------------------------------------
(* The answers.                                                              *)

LEMMA SeqIsFragments ==
  ASSUME NEW S, NEW s \in Seq(S), NEW n, NEW k \in Nat, Len(s) = k,
         \A i \in 1 .. k : s[i] = <<n, i>>
  PROVE  s = [i \in 1 .. k |-> <<n, i>>]
<1>1. s \in [1 .. k -> S]
  OBVIOUS
<1>2. s = [i \in 1 .. k |-> s[i]]
  BY <1>1, Zenon
<1>3. [i \in 1 .. k |-> s[i]] = [i \in 1 .. k |-> <<n, i>>]
  BY Zenon
<1> QED
  BY <1>2, <1>3, Zenon

LEMMA WholeKept ==
  ASSUME WholeAnswerInOrder,
         \A n \in 1 .. Len(results') : results'[n].st = "ok" =>
           /\ n \in 1 .. Len(results)
           /\ results'[n] = results[n] /\ answers'[n] = answers[n]
  PROVE  WholeAnswerInOrder'
<1>1. \A n \in 1 .. Len(results') : results'[n].st = "ok" =>
        results'[n].got = [i \in 1 .. answers'[n] |-> <<n, i>>]
  BY DEF WholeAnswerInOrder, Fragments
<1>2. PerFragment * MaxFragments < 256 =>
        \A n \in 1 .. Len(results') : results'[n].st = "ok" /\ results'[n].count # 0 =>
          results'[n].count = PerFragment * Len(results'[n].got)
  BY DEF WholeAnswerInOrder, CountIsSum
<1> QED
  BY <1>1, <1>2 DEF WholeAnswerInOrder, CountIsSum, Fragments

LEMMA EndWhole ==
  ASSUME SessTypes, CallInv, WholeAnswerInOrder, Active, answers' = answers,
         NEW st \in {"ok", "failed"}, NEW got \in Seq(Fragment), NEW count \in Nat,
         Finish(st, got, count),
         st = "ok" => /\ got = [i \in 1 .. answers[cur.n] |-> <<cur.n, i>>]
                      /\ PerFragment * MaxFragments < 256 /\ count # 0 =>
                           count = PerFragment * Len(got)
  PROVE  AnswerInv'
<1>1. /\ Len(results') = Len(results) /\ cur.n \in 1 .. Len(results)
      /\ results'[cur.n] = [st |-> st, got |-> got, count |-> count, told |-> 1]
      /\ \A n \in 1 .. Len(results) : n # cur.n => results'[n] = results[n]
      /\ pc' = "idle"
  BY TellIs DEF Finish
<1>2. \A n \in 1 .. Len(results') : results'[n].st = "ok" =>
        results'[n].got = [i \in 1 .. answers'[n] |-> <<n, i>>]
  <2>1. SUFFICES ASSUME NEW n \in 1 .. Len(results'), results'[n].st = "ok"
                 PROVE  results'[n].got = [i \in 1 .. answers'[n] |-> <<n, i>>]
    OBVIOUS
  <2>2. CASE n = cur.n
    <3>1. st = "ok" /\ results'[cur.n].got = got
      BY <1>1, <2>1, <2>2
    <3>2. got = [i \in 1 .. answers[cur.n] |-> <<cur.n, i>>]
      BY <3>1
    <3> QED
      BY <2>2, <3>1, <3>2, Zenon
  <2>3. CASE n # cur.n
    <3>1. results'[n] = results[n] /\ n \in 1 .. Len(results)
      BY <1>1, <2>1, <2>3
    <3>2. results[n].got = [i \in 1 .. answers[n] |-> <<n, i>>]
      BY <2>1, <3>1 DEF WholeAnswerInOrder, Fragments
    <3> QED
      BY <3>1, <3>2
  <2> QED
    BY <2>2, <2>3
<1>3. PerFragment * MaxFragments < 256 =>
        \A n \in 1 .. Len(results') : results'[n].st = "ok" /\ results'[n].count # 0 =>
          results'[n].count = PerFragment * Len(results'[n].got)
  BY <1>1 DEF WholeAnswerInOrder, CountIsSum
<1>4. WholeAnswerInOrder'
  BY <1>2, <1>3 DEF WholeAnswerInOrder, CountIsSum, Fragments
<1> QED
  BY <1>1, <1>4 DEF AnswerInv, Active, Waiting

LEMMA OwnIsGood ==
  ASSUME SessTypes, CallInv, PipeInv, AnswerInv, Waiting, down # <<>>, Belongs(Head(down))
  PROVE  GoodAnswer(Head(down)) /\ Head(down).fragment[1] = cur.n
<1>1. /\ Head(down) = down[1] /\ Len(down) = 1 /\ Head(down).fragment[1] = cur.n
  BY BelongsIsOwn
<1> QED
  BY <1>1 DEF AnswerInv

(* One fragment more.                                                        *)
LEMMA FragmentAdded ==
  ASSUME SessTypes, SoFar,
         NEW rsp \in ResponseRecords,
         rsp.fragment[1] = cur.n, rsp.fragment[2] = cur.cstate + 1
  PROVE  /\ Append(cur.got, rsp.fragment) \in Seq(Fragment)
         /\ Len(Append(cur.got, rsp.fragment)) = cur.cstate + 1
         /\ \A i \in 1 .. (cur.cstate + 1) :
              Append(cur.got, rsp.fragment)[i] = <<cur.n, i>>
         /\ Append(cur.got, rsp.fragment) = [i \in 1 .. (cur.cstate + 1) |-> <<cur.n, i>>]
<1> DEFINE got == Append(cur.got, rsp.fragment)
<1>1. cur.got \in Seq(Fragment) /\ cur.cstate \in Nat /\ rsp.fragment \in Fragment
  BY DEF SessTypes, CallRecords, ResponseRecords
<1>2. rsp.fragment = <<cur.n, cur.cstate + 1>>
  BY <1>1 DEF Fragment
<1>3. /\ got \in Seq(Fragment) /\ Len(got) = cur.cstate + 1
      /\ got[cur.cstate + 1] = rsp.fragment
      /\ \A i \in 1 .. cur.cstate : got[i] = cur.got[i]
  BY <1>1, AppendIs DEF SoFar, Reading
<1>4. \A i \in 1 .. (cur.cstate + 1) : got[i] = <<cur.n, i>>
  <2>1. SUFFICES ASSUME NEW i \in 1 .. (cur.cstate + 1) PROVE got[i] = <<cur.n, i>>
    OBVIOUS
  <2>2. i \in 1 .. cur.cstate \/ i = cur.cstate + 1
    BY <1>1
  <2> QED
    BY <1>2, <1>3, <2>2 DEF SoFar, Reading
<1> HIDE DEF got
<1>5. got = [i \in 1 .. (cur.cstate + 1) |-> <<cur.n, i>>]
  <2>1. cur.cstate + 1 \in Nat
    BY <1>1
  <2>2. ASSUME NEW k \in Nat, k = cur.cstate + 1
        PROVE  got = [i \in 1 .. k |-> <<cur.n, i>>]
    <3>1. got \in Seq(Fragment) /\ Len(got) = k /\ \A i \in 1 .. k : got[i] = <<cur.n, i>>
      BY <1>3, <1>4, <2>2
    <3> QED
      BY <3>1, SeqIsFragments
  <2> QED
    BY <2>1, <2>2
<1> QED
  BY <1>3, <1>4, <1>5 DEF got

LEMMA AnswerStep == SessInv /\ SessNext /\ SessTypes' /\ CallInv' => AnswerInv'
<1> SUFFICES ASSUME SessInv, SessNext, SessTypes', CallInv' PROVE AnswerInv'
  OBVIOUS
<1>0. SessTypes /\ CallInv /\ PipeInv /\ AnswerInv /\ WholeAnswerInOrder
  BY DEF SessInv, AnswerInv
<1>1. CASE ServerAnswers
  <2>1. /\ up # <<>> /\ up' = Tail(up) /\ Head(up) \in RequestRecords
        /\ UNCHANGED <<pc, cur, results, record>>
    BY <1>0, <1>1, ServerAnswersIs DEF clientVars, clientVarsButResults
  <2>2. PICK rsp \in ResponseRecords :
              /\ down' = Append(down, rsp)
              /\ rsp.tid = Head(up).tid /\ rsp.fragment[1] = Head(up).n
              /\ Answered(Head(up), rsp)
    BY <1>0, <1>1, ServerAnswersIs
  <2> DEFINE req == Head(up)
  <2>3. /\ Len(up') = Len(up) - 1 /\ Len(up) \in Nat
        /\ \A i \in 1 .. Len(up') : up'[i] = up[i + 1] /\ i + 1 \in 1 .. Len(up)
        /\ req = up[1] /\ 1 \in 1 .. Len(up)
    BY <1>0, <2>1, TailIs, LengthIs DEF SessTypes
  <2>4. /\ Len(down') = Len(down) + 1 /\ Len(down) \in Nat
        /\ down'[Len(down) + 1] = rsp
        /\ \A i \in 1 .. Len(down) : down'[i] = down[i]
    BY <1>0, <2>2, AppendIs, LengthIs DEF SessTypes
  <2>5. req.n \in 1 .. Len(results) /\ results[req.n].st # "ok"
    <3>1. req.n <= Len(results) /\ results[req.n].st # "ok"
      BY <1>0, <2>3 DEF PipeInv, OnItsWay, Way
    <3> QED
      BY <1>0, <2>1, <3>1, LengthIs DEF RequestRecords
  <2>6. \A n \in 1 .. Len(results) : n # req.n => answers'[n] = answers[n]
    <3>1. \A k : \A n \in 1 .. Len(results) : n # req.n =>
             [answers EXCEPT ![req.n] = k][n] = answers[n]
      BY <1>0, LengthIs DEF SessTypes
    <3>2. \/ answers' = answers
          \/ \E k \in {1, req.cstate + 1} : answers' = [answers EXCEPT ![req.n] = k]
      BY <2>2 DEF Answered
    <3> QED
      BY <3>1, <3>2
  <2>7. WholeAnswerInOrder'
    BY <1>0, <2>1, <2>5, <2>6, WholeKept
  <2>8. Active' => SoFar'
    BY <1>0, <2>1 DEF AnswerInv, Active, SoFar, Reading
  <2>9. ASSUME pc = "send" PROVE answers'[cur.n] = 0
    <3>1. req.n < cur.n /\ cur.n \in 1 .. Len(results)
      <4>1. Active
        BY <2>9 DEF Active
      <4> QED
        BY <1>0, <2>3, <2>9, <4>1, LengthIs DEF PipeInv, OnItsWay, Way, CallInv
    <3>2. req.n # cur.n
      BY <2>5, <3>1
    <3> QED
      BY <1>0, <2>6, <2>9, <3>1, <3>2 DEF AnswerInv
  <2>10. ASSUME Waiting, NEW i \in 1 .. Len(up'), up'[i].n = cur.n
         PROVE  OwnRequest(up[i])'
    <3>1. OwnRequest(up[i + 1])
      BY <1>0, <2>3, <2>10 DEF AnswerInv
    <3>2. req.n < cur.n /\ cur.n \in 1 .. Len(results)
      <4>1. 1 < i + 1
        BY <2>10
      <4>2. req.n < cur.n
        BY <1>0, <2>3, <2>10, <4>1 DEF PipeInv
      <4>3. Active
        BY <2>10 DEF Active, Waiting
      <4> QED
        BY <1>0, <4>2, <4>3, LengthIs DEF CallInv
    <3>3. answers'[cur.n] = answers[cur.n]
      <4>1. req.n # cur.n
        BY <2>5, <3>2
      <4> QED
        BY <2>6, <3>2, <4>1
    <3> QED
      BY <2>1, <2>3, <2>10, <3>1, <3>3 DEF OwnRequest
  <2>11. ASSUME Waiting, NEW i \in 1 .. Len(down'), down'[i].fragment[1] = cur.n
         PROVE  GoodAnswer(down[i])'
    <3>1. Active
      BY <2>11 DEF Active, Waiting
    <3>2. i = Len(down) + 1
      <4>1. SUFFICES ASSUME i # Len(down) + 1 PROVE FALSE
        OBVIOUS
      <4>2. i \in 1 .. Len(down)
        BY <2>4, <2>11, <4>1
      <4> QED
        BY <1>0, <2>1, <2>4, <2>11, <3>1, <4>2, OwnIsLast
    <3>3. down'[i] = rsp /\ req.n = cur.n
      BY <2>2, <2>4, <2>11, <3>2
    <3>4. OwnRequest(req)
      BY <1>0, <2>3, <2>11, <3>3 DEF AnswerInv
    <3>5. cur.n \in 1 .. Len(answers) /\ answers \in Seq(Nat) /\ cur \in CallRecords
      BY <1>0, <2>5, <3>3, LengthIs DEF SessTypes
    <3>6. \A k : [answers EXCEPT ![req.n] = k][cur.n] = k
      BY <3>3, <3>5
    <3>7. CASE req.kind \in Queries /\ rsp.pdu = "rsp"
      <4>1. /\ rsp.fragment[2] = req.cstate + 1
            /\ \/ /\ rsp.cstate = req.cstate + 1 /\ rsp.cstate < MaxFragments
                  /\ answers' = answers
               \/ /\ rsp.cstate = 0
                  /\ answers' = [answers EXCEPT ![req.n] = req.cstate + 1]
        BY <2>2, <3>7 DEF Answered, Queries
      <4>2. cur.kind \in Queries /\ req.cstate = cur.cstate /\ answers[cur.n] = 0
        BY <3>4, <3>7 DEF OwnRequest
      <4>3. \/ rsp.cstate = 0 /\ answers'[cur.n] = cur.cstate + 1
            \/ /\ rsp.cstate = cur.cstate + 1 /\ answers'[cur.n] = 0
               /\ rsp.cstate < MaxFragments
        BY <3>6, <4>1, <4>2
      <4> QED
        BY <2>1, <3>3, <3>7, <4>1, <4>2, <4>3 DEF GoodAnswer
    <3>8. CASE req.kind \notin Queries /\ rsp.pdu = "rsp"
      <4>1. /\ rsp.fragment[2] = 1 /\ rsp.cstate = 0
            /\ answers' = [answers EXCEPT ![req.n] = 1]
            /\ req.kind = "remove" => db' = db \ {req.handle}
        BY <2>2, <3>8 DEF Answered, Queries
      <4>2. /\ cur.kind \notin Queries /\ cur.kind = req.kind
            /\ req.handle = record.handle
        BY <3>4, <3>8 DEF OwnRequest
      <4>3. cur.kind = "remove" => record.handle \notin db'
        BY <4>1, <4>2
      <4> QED
        BY <2>1, <3>3, <3>6, <3>8, <4>1, <4>2, <4>3 DEF GoodAnswer
    <3>9. CASE rsp.pdu = "none"
      <4>1. req.kind = "search" /\ req.cstate = 0 /\ answers' = answers
        BY <2>2, <3>9 DEF Answered
      <4>2. cur.kind = "search" /\ cur.cstate = 0 /\ answers[cur.n] = 0
        BY <3>4, <4>1 DEF OwnRequest
      <4> QED
        BY <2>1, <3>3, <3>9, <4>1, <4>2 DEF GoodAnswer
    <3>10. CASE rsp.pdu \notin {"rsp", "none"}
      BY <3>3, <3>10 DEF GoodAnswer
    <3> QED
      BY <3>7, <3>8, <3>9, <3>10
  <2> QED
    BY <2>1, <2>7, <2>8, <2>9, <2>10, <2>11 DEF AnswerInv, Waiting
<1>2. CASE ServerHangsUp
  <2>1. /\ up' = <<>> /\ down' = down /\ UNCHANGED <<pc, cur, results, record, answers>>
        /\ db' \in {db, {}}
    BY <1>2 DEF ServerHangsUp, clientVars, clientVarsButResults
  <2>2. WholeAnswerInOrder'
    BY <1>0, <2>1, WholeKept
  <2>3. Active' => SoFar'
    BY <1>0, <2>1 DEF AnswerInv, Active, SoFar, Reading
  <2>4. ASSUME Waiting, NEW i \in 1 .. Len(down'), down'[i].fragment[1] = cur.n
        PROVE  GoodAnswer(down[i])'
    <3>1. GoodAnswer(down[i])
      BY <1>0, <2>1, <2>4 DEF AnswerInv
    <3> QED
      BY <2>1, <3>1 DEF GoodAnswer
  <2> QED
    BY <1>0, <2>1, <2>2, <2>3, <2>4 DEF AnswerInv, Waiting
<1>3. ASSUME NEW isLocal \in BOOLEAN, NEW isRetry \in BOOLEAN,
             sdp_connect(isLocal, isRetry)
      PROVE  AnswerInv'
  <2>1. UNCHANGED <<results, answers>> /\ pc' = "connecting"
    BY <1>3 DEF sdp_connect, serverVars
  <2>2. WholeAnswerInOrder'
    BY <1>0, <2>1, WholeKept
  <2> QED
    BY <2>1, <2>2 DEF AnswerInv, Active, Waiting
<1>4. CASE ConnectReturns
  <2>1. UNCHANGED <<results, answers>> /\ pc' \in {"idle", "connecting", "none"}
    BY <1>4 DEF ConnectReturns
  <2>2. WholeAnswerInOrder'
    BY <1>0, <2>1, WholeKept
  <2> QED
    BY <2>1, <2>2 DEF AnswerInv, Active, Waiting
<1>5. CASE sdp_close
  <2>1. answers' = answers /\ pc' = "none"
    BY <1>5 DEF sdp_close
  <2>2. \A n \in 1 .. Len(results') : results'[n].st = "ok" =>
           n \in 1 .. Len(results) /\ results'[n] = results[n]
    <3>1. CASE pc = "process"
      <4>1. cur.n \in 1 .. Len(results)
        BY <1>0, <3>1, LengthIs DEF CallInv, Active
      <4> DEFINE e == [results[cur.n] EXCEPT !.st = "closed"]
      <4>2. results' = [results EXCEPT ![cur.n] = e]
        BY <1>5, <3>1 DEF sdp_close
      <4>3. results[cur.n] \in ResultRecords /\ results \in Seq(ResultRecords)
        BY <1>0, <4>1 DEF SessTypes
      <4>4. e \in ResultRecords /\ e.st = "closed"
        BY <4>3, StatusIs
      <4> HIDE DEF e
      <4>5. /\ Len(results') = Len(results) /\ results'[cur.n] = e
            /\ \A n \in 1 .. Len(results) : n # cur.n => results'[n] = results[n]
        BY <4>1, <4>2, <4>3, <4>4, ReplacedIs
      <4> QED
        BY <4>4, <4>5
    <3>2. CASE pc # "process"
      BY <1>5, <3>2 DEF sdp_close
    <3> QED
      BY <3>1, <3>2
  <2>3. WholeAnswerInOrder'
    BY <1>0, <2>1, <2>2, WholeKept
  <2> QED
    BY <2>1, <2>3 DEF AnswerInv, Active, Waiting
<1>6. ASSUME NEW kind \in Kinds, NEW async \in BOOLEAN, Starts(kind, async)
      PROVE  AnswerInv'
  <2>1. /\ results' = Append(results, Pending) /\ answers' = Append(answers, 0)
        /\ pc' = "send"
    BY <1>6 DEF Starts, Begin
  <2>2. /\ Len(results') = Len(results) + 1 /\ results'[Len(results) + 1] = Pending
        /\ \A n \in 1 .. Len(results) : results'[n] = results[n]
        /\ answers'[Len(results) + 1] = 0
        /\ \A n \in 1 .. Len(results) : answers'[n] = answers[n]
    <3>1. results \in Seq(ResultRecords) /\ answers \in Seq(Nat) /\ Len(answers) = Len(results)
      BY <1>0 DEF SessTypes
    <3>2. 0 \in Nat
      OBVIOUS
    <3> QED
      BY <2>1, <3>1, <3>2, RefusalIs, AppendIs
  <2>3. cur' = [n |-> Len(results'), kind |-> kind, async |-> async, tid |-> 0,
                cstate |-> 0, got |-> <<>>, count |-> 0]
    BY <1>6 DEF Starts, Begin, NoCall
  <2>4. \A n \in 1 .. Len(results') : results'[n].st = "ok" =>
          n \in 1 .. Len(results) /\ results'[n] = results[n] /\ answers'[n] = answers[n]
    <3>1. \A n \in 1 .. Len(results') : n \in 1 .. Len(results) \/ n = Len(results) + 1
      BY <1>0, <2>2, LengthIs
    <3> QED
      BY <2>2, <3>1 DEF Pending
  <2>5. WholeAnswerInOrder'
    BY <1>0, <2>4, WholeKept
  <2>6. SoFar'
    <3>1. MaxFragments > 0 /\ MaxFragments \in Nat
      BY SessAssumption
    <3> QED
      BY <2>1, <2>3, <3>1 DEF SoFar, Reading
  <2>7. answers'[cur'.n] = 0
    BY <2>2, <2>3
  <2> QED
    BY <2>1, <2>5, <2>6, <2>7 DEF AnswerInv, Waiting
<1>7. CASE Refused
  <2> DEFINE e == [Pending EXCEPT !.st = "failed", !.told = 1]
  <2>1. /\ results' = Append(results, e) /\ answers' = Append(answers, 0)
        /\ e \in ResultRecords /\ e.st = "failed" /\ pc' = "idle"
    BY <1>7, RefusalIs DEF Refused, clientVarsButResults
  <2> HIDE DEF e
  <2>2. /\ Len(results') = Len(results) + 1 /\ results'[Len(results) + 1] = e
        /\ \A n \in 1 .. Len(results) : results'[n] = results[n]
        /\ \A n \in 1 .. Len(results) : answers'[n] = answers[n]
    <3>1. results \in Seq(ResultRecords) /\ answers \in Seq(Nat) /\ Len(answers) = Len(results)
      BY <1>0 DEF SessTypes
    <3>2. 0 \in Nat
      OBVIOUS
    <3> QED
      BY <2>1, <3>1, <3>2, AppendIs
  <2>3. \A n \in 1 .. Len(results') : results'[n].st = "ok" =>
          n \in 1 .. Len(results) /\ results'[n] = results[n] /\ answers'[n] = answers[n]
    <3>1. \A n \in 1 .. Len(results') : n \in 1 .. Len(results) \/ n = Len(results) + 1
      BY <1>0, <2>2, LengthIs
    <3> QED
      BY <2>1, <2>2, <3>1
  <2>4. WholeAnswerInOrder'
    BY <1>0, <2>3, WholeKept
  <2> QED
    BY <2>1, <2>4 DEF AnswerInv, Active, Waiting
<1>8. CASE SendRequest
  <2>1. /\ cur' = [cur EXCEPT !.tid = tid] /\ cur \in CallRecords /\ Active
        /\ pc = "send" /\ down' = down /\ answers' = answers /\ record' = record
        /\ cur.got \in Seq(Fragment)
    BY <1>0, <1>8 DEF SendRequest, SessTypes, Active, CallRecords, serverVars
  <2>2. /\ cur'.n = cur.n /\ cur'.kind = cur.kind /\ cur'.cstate = cur.cstate
        /\ cur'.got = cur.got /\ cur'.count = cur.count /\ cur'.async = cur.async
        /\ cur.n = Len(results) /\ cur.n # 0 /\ cur.n \in Nat /\ answers[cur.n] = 0
        /\ cur' \in CallRecords
    BY <1>0, <2>1 DEF CallRecords, CallInv, AnswerInv, SessTypes
  <2>3. CASE /\ Send(cur') /\ UNCHANGED results
             /\ pc' = IF cur.async THEN "process" ELSE "select"
    <3> DEFINE req == [n |-> cur'.n, tid |-> cur'.tid, kind |-> cur'.kind,
                       cstate |-> cur'.cstate, handle |-> record.handle]
    <3>1. up' = Append(up, req)
      BY <2>3 DEF Send
    <3>2. req \in RequestRecords
      BY <1>0, <2>2, RequestIs
    <3>3. /\ req.n = cur.n /\ req.kind = cur.kind /\ req.cstate = cur.cstate
          /\ req.handle = record.handle
      BY <2>2
    <3> HIDE DEF req
    <3>4. /\ Len(up') = Len(up) + 1 /\ Len(up) \in Nat /\ up'[Len(up) + 1] = req
          /\ \A i \in 1 .. Len(up) : up'[i] = up[i]
      BY <1>0, <3>1, <3>2, AppendIs, LengthIs DEF SessTypes
    <3>5. \A i \in 1 .. Len(up) : up[i].n # cur.n
      <4>1. \A i \in 1 .. Len(up) : up[i].n < cur.n /\ up[i].n \in Nat
        BY <1>0, <2>1, ElementsAre DEF PipeInv, OnItsWay, Way
      <4> QED
        BY <2>2, <4>1
    <3>6. \A i \in 1 .. Len(down) : down[i].fragment[1] # cur.n
      <4>1. \A i \in 1 .. Len(down) :
              down[i].fragment[1] < cur.n /\ down[i].fragment[1] \in Nat
        BY <1>0, <2>1, ElementsAre DEF PipeInv, OnItsWay, Way
      <4> QED
        BY <2>2, <4>1
    <3>7. ASSUME NEW i \in 1 .. Len(up'), up'[i].n = cur'.n PROVE OwnRequest(up[i])'
      <4>1. i \in 1 .. Len(up) \/ i = Len(up) + 1
        BY <3>4
      <4>2. up'[i] = req
        BY <2>2, <3>4, <3>5, <3>7, <4>1
      <4> QED
        BY <2>1, <2>2, <3>3, <4>2 DEF OwnRequest
    <3>8. WholeAnswerInOrder'
      BY <1>0, <2>1, <2>3, WholeKept
    <3>9. SoFar'
      <4>1. SoFar
        BY <1>0, <2>1 DEF AnswerInv
      <4>2. PerFragment * 0 = 0
        BY SessAssumption
      <4>3. /\ Len(cur'.got) = cur'.cstate /\ cur'.cstate < MaxFragments
            /\ \A i \in 1 .. cur'.cstate : cur'.got[i] = <<cur'.n, i>>
            /\ cur'.kind \notin Queries => cur'.cstate = 0
            /\ cur.async => cur.cstate = 0
        BY <2>1, <2>2, <4>1 DEF SoFar, Reading
      <4>4. PerFragment * MaxFragments < 256 =>
              cur'.count = IF pc' = "process" /\ cur'.kind = "search"
                             THEN PerFragment * cur'.cstate ELSE 0
        <5>1. PerFragment * MaxFragments < 256 => cur.count = 0
          BY <2>1, <4>1 DEF SoFar, Reading
        <5> QED
          BY <2>2, <2>3, <4>2, <4>3, <5>1
      <4> QED
        BY <2>2, <2>3, <4>3, <4>4 DEF SoFar, Reading
    <3> QED
      BY <2>1, <2>2, <2>3, <3>6, <3>7, <3>8, <3>9 DEF AnswerInv
  <2>4. CASE /\ results' = [results EXCEPT ![cur.n].st = "unsent"]
             /\ pc' = "idle"
    <3>1. cur.n \in 1 .. Len(results)
      BY <1>0, <2>2, LengthIs
    <3> DEFINE e == [results[cur.n] EXCEPT !.st = "unsent"]
    <3>2. results' = [results EXCEPT ![cur.n] = e]
      BY <2>4
    <3>3. results[cur.n] \in ResultRecords /\ results \in Seq(ResultRecords)
      BY <1>0, <3>1 DEF SessTypes
    <3>4. e \in ResultRecords /\ e.st = "unsent"
      BY <3>3, StatusIs
    <3> HIDE DEF e
    <3>5. /\ Len(results') = Len(results) /\ results'[cur.n] = e
          /\ \A n \in 1 .. Len(results) : n # cur.n => results'[n] = results[n]
      BY <3>1, <3>2, <3>3, <3>4, ReplacedIs
    <3>6. WholeAnswerInOrder'
      BY <1>0, <2>1, <3>4, <3>5, WholeKept
    <3> QED
      BY <2>4, <3>6 DEF AnswerInv, Active, Waiting
  <2>5. CASE Finish("failed", cur.got, 0)
    BY <1>0, <2>1, <2>5, EndWhole
  <2> QED
    BY <1>8, <2>3, <2>4, <2>5 DEF SendRequest
<1>9. CASE Receive
  <2>1. /\ down # <<>> /\ TakeResponses /\ Head(down) \in ResponseRecords
        /\ Active /\ Waiting /\ Reading /\ pc # "process" /\ cur \in CallRecords
        /\ answers' = answers /\ SoFar /\ cur.got \in Seq(Fragment) /\ cur.kind \in Kinds
    BY <1>0, <1>9, TakenIs
       DEF Receive, SessTypes, Active, Reading, Waiting, serverVars, AnswerInv, CallRecords
  <2> DEFINE rsp == Head(down)
             got == Append(cur.got, rsp.fragment)
  <2>2. CASE ~ (Belongs(rsp) /\ Answers(rsp))
    <3>1. Finish("failed", cur.got, 0)
      BY <1>9, <2>2 DEF Receive
    <3> QED
      BY <1>0, <2>1, <3>1, EndWhole
  <2>3. CASE Belongs(rsp) /\ Answers(rsp)
    <3>1. GoodAnswer(rsp) /\ rsp.fragment[1] = cur.n
      BY <1>0, <2>1, <2>3, OwnIsGood
    <3>2. rsp.pdu = "rsp"
      <4>1. rsp.pdu \in {"rsp", "none"} /\ (rsp.pdu = "none" => cur.kind \in {"attr", "search_attr"})
        BY <2>1, <2>3, AnswersIs
      <4> QED
        BY <3>1, <4>1 DEF GoodAnswer
    <3>3. rsp.fragment[2] = cur.cstate + 1
      BY <2>1, <3>1, <3>2 DEF GoodAnswer, SoFar, Reading
    <3>4. /\ got \in Seq(Fragment) /\ Len(got) = cur.cstate + 1
          /\ \A i \in 1 .. (cur.cstate + 1) : got[i] = <<cur.n, i>>
          /\ got = [i \in 1 .. (cur.cstate + 1) |-> <<cur.n, i>>]
      BY <1>0, <2>1, <3>1, <3>3, FragmentAdded
    <3>5. CASE rsp.cstate # 0
      <4>1. /\ cur' = [cur EXCEPT !.got = got, !.cstate = rsp.cstate]
            /\ pc' = "send" /\ results' = results
        BY <1>9, <2>3, <3>5 DEF Receive
      <4>2. /\ rsp.cstate = cur.cstate + 1 /\ answers[cur.n] = 0
            /\ rsp.cstate < MaxFragments /\ cur.kind \in Queries
        BY <3>1, <3>2, <3>5 DEF GoodAnswer
      <4> HIDE DEF got
      <4>3. /\ cur'.n = cur.n /\ cur'.kind = cur.kind /\ cur'.async = cur.async
            /\ cur'.count = cur.count /\ cur'.got = got /\ cur'.cstate = cur.cstate + 1
        BY <2>1, <4>1, <4>2 DEF CallRecords
      <4>4. WholeAnswerInOrder'
        BY <1>0, <2>1, <4>1, WholeKept
      <4>5. SoFar'
        BY <2>1, <3>4, <4>1, <4>2, <4>3 DEF SoFar, Reading
      <4> QED
        BY <2>1, <4>1, <4>2, <4>3, <4>4, <4>5 DEF AnswerInv, Waiting
    <3>6. CASE rsp.cstate = 0
      <4>1. Finish("ok", got, 0)
        BY <1>9, <2>3, <3>6 DEF Receive
      <4>2. answers[cur.n] = cur.cstate + 1
        BY <2>1, <3>1, <3>2, <3>6 DEF GoodAnswer, SoFar, Reading, CallRecords
      <4> HIDE DEF got
      <4>3. got = [i \in 1 .. answers[cur.n] |-> <<cur.n, i>>]
        BY <3>4, <4>2
      <4> QED
        BY <1>0, <2>1, <3>4, <4>1, <4>3, EndWhole
    <3> QED
      BY <3>5, <3>6
  <2> QED
    BY <2>2, <2>3
<1>10. CASE GivesUp
  <2>1. /\ Finish("failed", cur.got, 0) /\ Active /\ cur.got \in Seq(Fragment)
        /\ answers' = answers
    BY <1>0, <1>10 DEF GivesUp, Reading, Active, SessTypes, CallRecords,
       serverVars
  <2> QED
    BY <1>0, <2>1, EndWhole
<1>11. CASE sdp_process
  <2>1. /\ down # <<>> /\ TakeResponses /\ Head(down) \in ResponseRecords
        /\ Active /\ Waiting /\ pc = "process" /\ cur \in CallRecords
        /\ answers' = answers /\ record' = record /\ SoFar
        /\ cur.got \in Seq(Fragment) /\ cur.count \in Nat /\ cur.cstate \in Nat
        /\ cur.kind \in Queries
    BY <1>0, <1>11, TakenIs
       DEF sdp_process, MayProcess, SessTypes, Active, Waiting, serverVars, AnswerInv, CallRecords, CallInv
  <2> DEFINE rsp == Head(down)
             c == Concatenated(rsp)
  <2>2. /\ c \in CallRecords /\ c.got = Append(cur.got, rsp.fragment)
        /\ c.n = cur.n /\ c.kind = cur.kind /\ c.async = cur.async
        /\ c.count = IF cur.kind # "search" THEN 0
                     ELSE IF cur.got = <<>> THEN PerFragment
                     ELSE AddCounts(cur.count, PerFragment)
    BY <1>0, <2>1, ConcatenatedIs
  <2>3. c.got \in Seq(Fragment) /\ c.count \in Nat
    BY <2>2 DEF CallRecords
  <2>4. CASE /\ ~ Belongs(rsp) \/ rsp.pdu = "error"
             /\ Finish("failed", cur.got, cur.count)
    BY <1>0, <2>1, <2>4, EndWhole
  <2>5. CASE /\ Belongs(rsp) /\ rsp.pdu = "none"
             /\ Finish("ok", cur.got, cur.count)
    <3>1. GoodAnswer(rsp)
      BY <1>0, <2>1, <2>5, OwnIsGood
    <3>2. cur.cstate = 0 /\ answers[cur.n] = 0
      BY <2>5, <3>1 DEF GoodAnswer
    <3>3. Len(cur.got) = 0 /\ 0 \in Nat
      BY <2>1, <3>2 DEF SoFar, Reading
    <3>4. cur.got = [i \in 1 .. 0 |-> <<cur.n, i>>]
      <4>1. \A i \in 1 .. 0 : cur.got[i] = <<cur.n, i>>
        OBVIOUS
      <4> QED
        BY <2>1, <3>3, <4>1, SeqIsFragments
    <3>5. PerFragment * MaxFragments < 256 => cur.count = 0
      <4>1. PerFragment * 0 = 0
        BY SessAssumption
      <4> QED
        BY <2>1, <3>2, <4>1 DEF SoFar, Reading
    <3>6. cur.got = [i \in 1 .. answers[cur.n] |-> <<cur.n, i>>]
      BY <3>2, <3>4
    <3> QED
      BY <1>0, <2>1, <2>5, <3>5, <3>6, EndWhole
  <2>6. ASSUME Belongs(rsp), rsp.pdu = "rsp"
        PROVE  /\ GoodAnswer(rsp) /\ Len(c.got) = cur.cstate + 1
               /\ \A i \in 1 .. (cur.cstate + 1) : c.got[i] = <<cur.n, i>>
               /\ c.got = [i \in 1 .. (cur.cstate + 1) |-> <<cur.n, i>>]
               /\ PerFragment * MaxFragments < 256 =>
                    c.count = IF cur.kind = "search" THEN PerFragment * (cur.cstate + 1) ELSE 0
    <3>1. GoodAnswer(rsp) /\ rsp.fragment[1] = cur.n
      BY <1>0, <2>1, <2>6, OwnIsGood
    <3>2. rsp.fragment[2] = cur.cstate + 1
      BY <2>1, <2>6, <3>1 DEF GoodAnswer
    <3>3. /\ Len(c.got) = cur.cstate + 1
          /\ \A i \in 1 .. (cur.cstate + 1) : c.got[i] = <<cur.n, i>>
          /\ c.got = [i \in 1 .. (cur.cstate + 1) |-> <<cur.n, i>>]
      BY <1>0, <2>1, <2>2, <3>1, <3>2, FragmentAdded
    <3>4. ASSUME PerFragment * MaxFragments < 256, cur.kind = "search"
          PROVE  c.count = PerFragment * (cur.cstate + 1)
      <4>1. cur.count = PerFragment * cur.cstate
        BY <2>1, <3>4 DEF SoFar, Reading
      <4>2. /\ PerFragment * cur.cstate \in Nat /\ PerFragment \in Nat /\ MaxFragments \in Nat
            /\ PerFragment * (cur.cstate + 1) = PerFragment * cur.cstate + PerFragment
            /\ PerFragment * (cur.cstate + 1) <= PerFragment * MaxFragments
            /\ PerFragment * 0 = 0 /\ PerFragment * MaxFragments \in Nat
        <5>1. cur.cstate \in Nat /\ cur.cstate < MaxFragments
          BY <2>1 DEF SoFar, Reading
        <5>2. /\ PerFragment * cur.cstate \in Nat
              /\ PerFragment * (cur.cstate + 1) = PerFragment * cur.cstate + PerFragment
              /\ PerFragment * (cur.cstate + 1) <= PerFragment * MaxFragments
              /\ PerFragment * 0 = 0
          BY <5>1, ProductGrows, Zenon
        <5>3. /\ PerFragment \in Nat /\ MaxFragments \in Nat
              /\ PerFragment * MaxFragments \in Nat
          BY SessAssumption
        <5> QED
          BY <5>2, <5>3
      <4>3. CASE cur.got = <<>>
        <5>1. cur.cstate = 0
          BY <2>1, <4>3 DEF SoFar, Reading
        <5>2. c.count = PerFragment
          BY <2>2, <3>4, <4>3
        <5> QED
          BY <4>2, <5>1, <5>2
      <4>4. CASE cur.got # <<>>
        <5>1. c.count = AddCounts(cur.count, PerFragment)
          BY <2>2, <3>4, <4>4
        <5>2. cur.count + PerFragment < 256
          BY <3>4, <4>1, <4>2
        <5>3. AddCounts(cur.count, PerFragment) = cur.count + PerFragment
          BY <2>1, <4>2, <5>2, CountsAdd
        <5> QED
          BY <4>1, <4>2, <5>1, <5>3
      <4> QED
        BY <4>3, <4>4
    <3>5. cur.kind # "search" => c.count = 0
      BY <2>2
    <3> QED
      BY <3>1, <3>3, <3>4, <3>5
  <2>7. CASE /\ Belongs(rsp) /\ rsp.pdu = "rsp" /\ rsp.cstate = 0
             /\ Finish("ok", c.got, c.count)
    <3>1. answers[cur.n] = cur.cstate + 1
      BY <2>1, <2>6, <2>7 DEF GoodAnswer
    <3> HIDE DEF c
    <3>2. c.got = [i \in 1 .. answers[cur.n] |-> <<cur.n, i>>]
      BY <2>6, <2>7, <3>1
    <3>3. PerFragment * MaxFragments < 256 /\ c.count # 0 =>
            c.count = PerFragment * Len(c.got)
      BY <2>6, <2>7
    <3> QED
      BY <1>0, <2>1, <2>3, <2>7, <3>2, <3>3, EndWhole
  <2>8. CASE /\ Belongs(rsp) /\ rsp.pdu = "rsp" /\ rsp.cstate # 0
             /\ Continue([c EXCEPT !.cstate = rsp.cstate])
    <3> DEFINE d == [c EXCEPT !.cstate = rsp.cstate]
    <3>1. /\ rsp.cstate = cur.cstate + 1 /\ rsp.cstate < MaxFragments
          /\ answers[cur.n] = 0
      BY <2>1, <2>6, <2>8 DEF GoodAnswer
    <3>2. up = <<>> /\ down' = <<>>
      BY <1>0, <2>1, <2>8, BelongsIsOwn
    <3>3. /\ d \in CallRecords /\ d.n = c.n /\ d.kind = c.kind /\ d.async = c.async
          /\ d.got = c.got /\ d.count = c.count /\ d.cstate = rsp.cstate
      BY <2>1, <2>2 DEF CallRecords, ResponseRecords
    <3> HIDE DEF d
    <3>4. cur' = [d EXCEPT !.tid = tid] /\ tid \in Ids
      BY <1>0, <2>8 DEF Continue, d, SessTypes
    <3>5. /\ cur'.n = cur.n /\ cur'.kind = cur.kind /\ cur'.async = cur.async
          /\ cur'.got = c.got /\ cur'.count = c.count /\ cur'.cstate = cur.cstate + 1
          /\ cur.n # 0
      BY <1>0, <2>1, <2>2, <3>1, <3>3, <3>4 DEF CallRecords, CallInv
    <3>6. CASE Send(cur') /\ UNCHANGED <<results, pc>>
      <4> DEFINE req == [n |-> cur'.n, tid |-> cur'.tid, kind |-> cur'.kind,
                         cstate |-> cur'.cstate, handle |-> record.handle]
      <4>1. up' = <<req>>
        BY <3>2, <3>6 DEF Send
      <4>2. /\ req.kind = cur'.kind /\ req.cstate = cur'.cstate
            /\ req.handle = record.handle
        OBVIOUS
      <4> HIDE DEF req, c
      <4>3. Len(up') = 1 /\ up'[1] = req /\ Len(down') = 0
        BY <3>2, <4>1
      <4>4. WholeAnswerInOrder'
        BY <1>0, <2>1, <3>6, WholeKept
      <4>5. SoFar'
        <5>1. /\ Len(cur'.got) = cur'.cstate /\ cur'.cstate < MaxFragments
              /\ \A i \in 1 .. cur'.cstate : cur'.got[i] = <<cur'.n, i>>
          BY <2>6, <2>8, <3>1, <3>5
        <5>2. PerFragment * MaxFragments < 256 =>
                cur'.count = IF pc' = "process" /\ cur'.kind = "search"
                               THEN PerFragment * cur'.cstate ELSE 0
          BY <2>1, <2>6, <2>8, <3>5, <3>6
        <5> QED
          BY <2>1, <3>5, <3>6, <5>1, <5>2 DEF SoFar, Reading
      <4>6. \A i \in 1 .. Len(up') : OwnRequest(up[i])'
        <5>1. SUFFICES ASSUME NEW i \in 1 .. Len(up') PROVE OwnRequest(up[i])'
          OBVIOUS
        <5>2. up'[i] = req
          BY <4>3
        <5> QED
          BY <2>1, <3>1, <3>5, <4>2, <5>2 DEF OwnRequest
      <4>7. pc' = "process"
        BY <2>1, <3>6
      <4> QED
        BY <4>3, <4>4, <4>5, <4>6, <4>7 DEF AnswerInv
    <3>7. CASE Finish("failed", d.got, d.count)
      BY <1>0, <2>1, <2>3, <3>3, <3>7, EndWhole
    <3> QED
      BY <2>8, <3>6, <3>7 DEF Continue, d
  <2> QED
    BY <1>11, <2>4, <2>5, <2>7, <2>8 DEF sdp_process
<1>12. CASE ProcessEnd
  <2>1. /\ Finish("failed", cur.got, cur.count) /\ Active
        /\ cur.got \in Seq(Fragment) /\ cur.count \in Nat /\ answers' = answers
    BY <1>0, <1>12 DEF ProcessEnd, MayProcess, Active, SessTypes, CallRecords,
       serverVars
  <2> QED
    BY <1>0, <2>1, EndWhole
<1>13. CASE SelectFails
  <2>1. /\ pc = "select" /\ pc' = "recv" /\ Active /\ Waiting
        /\ UNCHANGED <<cur, results, record, answers, db, up, down>>
    BY <1>13 DEF SelectFails, serverVars, Active, Waiting
  <2>2. WholeAnswerInOrder'
    BY <1>0, <2>1, WholeKept
  <2>3. SoFar'
    BY <1>0, <2>1 DEF AnswerInv, SoFar, Reading
  <2> QED
    BY <1>0, <2>1, <2>2, <2>3 DEF AnswerInv, OwnRequest, GoodAnswer
<1> QED
  BY <1>1, <1>2, <1>3, <1>4, <1>5, <1>6, <1>7, <1>8, <1>9, <1>10, <1>11, <1>12,
     <1>13, NextCases

-----------------------------------------------------------------------------
(* The record.                                                               *)

(* The record and the server's handles, without the call under way.          *)
Agrees ==
  /\ RecordMatchesServer
  /\ record.handle # 0 => /\ record.handle <= Len(results)
                          /\ results[record.handle].st = "ok"

LEMMA AgreesKept ==
  ASSUME SessTypes, Agrees, record' = record, db' \subseteq db,
         Len(results') \in Nat, Len(results') >= Len(results),
         \A n \in 1 .. Len(results) : results'[n].st = "ok" <=> results[n].st = "ok"
  PROVE  Agrees'
<1>1. db \subseteq 1 .. Len(results) /\ record.handle \in Nat /\ Len(results) \in Nat
  BY LengthIs DEF SessTypes
<1>2. record'.st = "freed" => record'.handle \notin db'
  BY DEF Agrees, RecordMatchesServer
<1>3. \A h \in db' : results'[h].st = "ok" => h = record'.handle
  BY <1>1 DEF Agrees, RecordMatchesServer
<1>4. record'.handle # 0 => /\ record'.handle <= Len(results')
                            /\ results'[record'.handle].st = "ok"
  BY <1>1 DEF Agrees
<1> QED
  BY <1>2, <1>3, <1>4 DEF Agrees, RecordMatchesServer

LEMMA EndRecord ==
  ASSUME SessTypes, CallInv, RecordInv, Active, record' = record, db' = db,
         NEW st \in {"ok", "failed"}, NEW got \in Seq(Fragment), NEW count \in Nat,
         Finish(st, got, count), st = "ok" => cur.kind # "register"
  PROVE  RecordInv'
<1>1. /\ Len(results') = Len(results) /\ cur.n \in 1 .. Len(results)
      /\ results'[cur.n] = [st |-> st, got |-> got, count |-> count, told |-> 1]
      /\ \A n \in 1 .. Len(results) : n # cur.n => results'[n] = results[n]
      /\ pc' = "idle" /\ results[cur.n].st = "pending"
  BY TellIs DEF Finish, CallInv
<1>2. db \subseteq 1 .. Len(results) /\ record.handle \in Nat /\ Len(results) \in Nat
  BY LengthIs DEF SessTypes
<1>3. record.handle # 0 => record.handle # cur.n
  BY <1>1 DEF RecordInv
<1>4. \A h \in db : results'[h].st = "ok" => h = record.handle
  <2>1. SUFFICES ASSUME NEW h \in db, results'[h].st = "ok" PROVE h = record.handle
    OBVIOUS
  <2>2. CASE h = cur.n
    BY <1>1, <2>1, <2>2 DEF RecordInv
  <2>3. CASE h # cur.n
    BY <1>1, <1>2, <2>1, <2>3 DEF RecordInv, RecordMatchesServer
  <2> QED
    BY <2>2, <2>3
<1>5. record.handle # 0 => /\ record.handle <= Len(results')
                           /\ results'[record.handle].st = "ok"
  BY <1>1, <1>2, <1>3 DEF RecordInv
<1>6. record.st = "freed" => record.handle \notin db
  BY DEF RecordInv, RecordMatchesServer
<1> QED
  BY <1>1, <1>4, <1>5, <1>6 DEF RecordInv, RecordMatchesServer, Active

LEMMA RecordStep == SessInv /\ SessNext /\ SessTypes' /\ CallInv' => RecordInv'
<1> SUFFICES ASSUME SessInv, SessNext, SessTypes', CallInv' PROVE RecordInv'
  OBVIOUS
<1>0. SessTypes /\ CallInv /\ PipeInv /\ AnswerInv /\ RecordInv /\ Agrees
  BY DEF SessInv, RecordInv, Agrees
<1>1. CASE ServerAnswers
  <2>1. /\ up # <<>> /\ up' = Tail(up) /\ Head(up) \in RequestRecords
        /\ UNCHANGED <<pc, cur, results, record>>
    BY <1>0, <1>1, ServerAnswersIs DEF clientVars, clientVarsButResults
  <2>2. PICK rsp \in ResponseRecords :
              /\ down' = Append(down, rsp)
              /\ rsp.tid = Head(up).tid /\ rsp.fragment[1] = Head(up).n
              /\ Answered(Head(up), rsp)
    BY <1>0, <1>1, ServerAnswersIs
  <2> DEFINE req == Head(up)
  <2>3. /\ req = up[1] /\ 1 \in 1 .. Len(up) /\ Len(results) \in Nat
        /\ req.n \in Nat \ {0} /\ req.n <= Len(results) /\ results[req.n].st # "ok"
    <3>1. req = up[1] /\ 1 \in 1 .. Len(up)
      BY <1>0, <2>1 DEF SessTypes
    <3>2. req.n <= Len(results) /\ results[req.n].st # "ok"
      BY <1>0, <3>1 DEF PipeInv, OnItsWay, Way
    <3> QED
      BY <1>0, <2>1, <3>1, <3>2, LengthIs DEF RequestRecords
  <2>4. CASE db' \subseteq db
    <3>1. Agrees'
      BY <1>0, <2>1, <2>3, <2>4, AgreesKept
    <3>2. Active' => IF cur'.kind = "register" THEN record'.st = "held" /\ record'.handle = 0
                                               ELSE cur'.n \notin db'
      BY <1>0, <2>1, <2>4 DEF RecordInv, Active
    <3> QED
      BY <3>1, <3>2 DEF RecordInv, Agrees
  <2>5. CASE req.kind = "register" /\ db' = db \cup {req.n}
    <3>1. record.handle # req.n
      BY <1>0, <2>3 DEF RecordInv
    <3>2. record.st = "freed" => record.handle \notin db'
      BY <1>0, <2>5, <3>1 DEF RecordInv, RecordMatchesServer
    <3>3. \A h \in db' : results[h].st = "ok" => h = record.handle
      BY <1>0, <2>3, <2>5 DEF RecordInv, RecordMatchesServer
    <3>4. ASSUME Active, cur.kind # "register" PROVE cur.n \notin db'
      <4>1. req.n # cur.n
        <5>1. CASE pc = "send"
          <6>1. req.n < cur.n
            BY <1>0, <2>3, <5>1 DEF PipeInv, OnItsWay, Way
          <6>2. cur.n = Len(results)
            BY <1>0, <3>4 DEF CallInv
          <6> QED
            BY <2>3, <6>1, <6>2
        <5>2. CASE pc # "send"
          <6>1. Waiting
            BY <3>4, <5>2 DEF Active, Waiting
          <6> QED
            BY <1>0, <2>3, <2>5, <3>4, <6>1 DEF AnswerInv, OwnRequest
        <5> QED
          BY <5>1, <5>2
      <4>2. cur.n \notin db
        BY <1>0, <3>4 DEF RecordInv
      <4> QED
        BY <2>5, <4>1, <4>2
    <3> QED
      BY <1>0, <2>1, <3>2, <3>3, <3>4 DEF RecordInv, RecordMatchesServer, Active
  <2> QED
    BY <2>2, <2>4, <2>5 DEF Answered
<1>2. CASE ServerHangsUp
  <2>1. UNCHANGED <<pc, cur, results, record>> /\ db' \subseteq db
    BY <1>2 DEF ServerHangsUp, clientVars, clientVarsButResults
  <2>2. Agrees'
    BY <1>0, <2>1, AgreesKept, LengthIs
  <2> QED
    BY <1>0, <2>1, <2>2 DEF RecordInv, Agrees, Active
<1>3. ASSUME NEW isLocal \in BOOLEAN, NEW isRetry \in BOOLEAN,
             sdp_connect(isLocal, isRetry)
      PROVE  RecordInv'
  <2>1. UNCHANGED <<results, record, db>> /\ pc' = "connecting"
    BY <1>3 DEF sdp_connect, serverVars
  <2> QED
    BY <1>0, <2>1 DEF RecordInv, RecordMatchesServer, Active
<1>4. CASE ConnectReturns
  <2>1. UNCHANGED <<results, record, db>> /\ pc' \in {"idle", "connecting", "none"}
    BY <1>4 DEF ConnectReturns
  <2> QED
    BY <1>0, <2>1 DEF RecordInv, RecordMatchesServer, Active
<1>5. CASE sdp_close
  <2>1. record' = record /\ pc' = "none" /\ db' \subseteq db
    BY <1>5 DEF sdp_close
  <2>2. /\ Len(results') = Len(results)
        /\ \A n \in 1 .. Len(results) : results'[n].st = "ok" <=> results[n].st = "ok"
    <3>1. CASE pc = "process"
      <4>1. cur.n \in 1 .. Len(results) /\ results[cur.n].st = "pending"
        BY <1>0, <3>1, LengthIs DEF CallInv, Active
      <4> DEFINE e == [results[cur.n] EXCEPT !.st = "closed"]
      <4>2. results' = [results EXCEPT ![cur.n] = e]
        BY <1>5, <3>1 DEF sdp_close
      <4>3. results[cur.n] \in ResultRecords /\ results \in Seq(ResultRecords)
        BY <1>0, <4>1 DEF SessTypes
      <4>4. e \in ResultRecords /\ e.st = "closed"
        BY <4>3, StatusIs
      <4> HIDE DEF e
      <4>5. /\ Len(results') = Len(results) /\ results'[cur.n] = e
            /\ \A n \in 1 .. Len(results) : n # cur.n => results'[n] = results[n]
        BY <4>1, <4>2, <4>3, <4>4, ReplacedIs
      <4> QED
        BY <4>1, <4>4, <4>5
    <3>2. CASE pc # "process"
      BY <1>5, <3>2 DEF sdp_close
    <3> QED
      BY <3>1, <3>2
  <2>3. Agrees'
    BY <1>0, <2>1, <2>2, AgreesKept, LengthIs
  <2> QED
    BY <2>1, <2>3 DEF RecordInv, Agrees, Active
<1>6. ASSUME NEW kind \in Kinds, NEW async \in BOOLEAN, Starts(kind, async)
      PROVE  RecordInv'
  <2>1. /\ results' = Append(results, Pending) /\ UNCHANGED <<record, db>>
        /\ kind = "register" => record.st = "held" /\ record.handle = 0
    BY <1>6 DEF Starts, Begin
  <2>2. /\ Len(results') = Len(results) + 1 /\ Len(results) \in Nat
        /\ \A n \in 1 .. Len(results) : results'[n] = results[n]
    <3>1. results \in Seq(ResultRecords)
      BY <1>0 DEF SessTypes
    <3> QED
      BY <1>0, <2>1, <3>1, RefusalIs, AppendIs, LengthIs
  <2>3. cur'.n = Len(results) + 1 /\ cur'.kind = kind
    BY <1>6, <2>2 DEF Starts, Begin, NoCall
  <2>4. Agrees'
    <3>1. Len(results') \in Nat /\ Len(results') >= Len(results)
      BY <2>2
    <3> QED
      BY <1>0, <2>1, <2>2, <3>1, AgreesKept
  <2>5. Len(results) + 1 \notin db
    BY <1>0, <2>2 DEF SessTypes
  <2> QED
    BY <2>1, <2>3, <2>4, <2>5 DEF RecordInv, Agrees
<1>7. CASE Refused
  <2> DEFINE e == [Pending EXCEPT !.st = "failed", !.told = 1]
  <2>1. /\ results' = Append(results, e) /\ UNCHANGED <<record, db>>
        /\ e \in ResultRecords /\ pc' = "idle"
    BY <1>7, RefusalIs DEF Refused, clientVarsButResults
  <2> HIDE DEF e
  <2>2. /\ Len(results') = Len(results) + 1 /\ Len(results) \in Nat
        /\ \A n \in 1 .. Len(results) : results'[n] = results[n]
    <3>1. results \in Seq(ResultRecords)
      BY <1>0 DEF SessTypes
    <3> QED
      BY <1>0, <2>1, <3>1, AppendIs, LengthIs
  <2>3. Agrees'
    <3>1. Len(results') \in Nat /\ Len(results') >= Len(results)
      BY <2>2
    <3> QED
      BY <1>0, <2>1, <2>2, <3>1, AgreesKept
  <2> QED
    BY <2>1, <2>3 DEF RecordInv, Agrees, Active
<1>8. CASE SendRequest
  <2>1. /\ cur' = [cur EXCEPT !.tid = tid] /\ cur \in CallRecords /\ Active
        /\ UNCHANGED <<record, db>> /\ cur.got \in Seq(Fragment)
    BY <1>0, <1>8 DEF SendRequest, SessTypes, Active, CallRecords, serverVars
  <2>2. cur'.n = cur.n /\ cur'.kind = cur.kind
    BY <2>1 DEF CallRecords
  <2>3. CASE UNCHANGED results
    BY <1>0, <2>1, <2>2, <2>3 DEF RecordInv, RecordMatchesServer
  <2>4. CASE /\ results' = [results EXCEPT ![cur.n].st = "unsent"]
             /\ pc' = "idle"
    <3>1. cur.n \in 1 .. Len(results) /\ results[cur.n].st = "pending"
      BY <1>0, <2>1, LengthIs DEF CallInv
    <3> DEFINE e == [results[cur.n] EXCEPT !.st = "unsent"]
    <3>2. results' = [results EXCEPT ![cur.n] = e]
      BY <2>4
    <3>3. results[cur.n] \in ResultRecords /\ results \in Seq(ResultRecords)
      BY <1>0, <3>1 DEF SessTypes
    <3>4. e \in ResultRecords /\ e.st = "unsent"
      BY <3>3, StatusIs
    <3> HIDE DEF e
    <3>5. /\ Len(results') = Len(results) /\ results'[cur.n] = e
          /\ \A n \in 1 .. Len(results) : n # cur.n => results'[n] = results[n]
      BY <3>1, <3>2, <3>3, <3>4, ReplacedIs
    <3>6. \A n \in 1 .. Len(results) : results'[n].st = "ok" <=> results[n].st = "ok"
      BY <3>1, <3>4, <3>5
    <3>7. Agrees'
      BY <1>0, <2>1, <3>5, <3>6, AgreesKept, LengthIs
    <3> QED
      BY <2>4, <3>7 DEF RecordInv, Agrees, Active
  <2>5. CASE Finish("failed", cur.got, 0)
    BY <1>0, <2>1, <2>5, EndRecord
  <2> QED
    BY <1>8, <2>3, <2>4, <2>5 DEF SendRequest
<1>9. CASE Receive
  <2>1. /\ down # <<>> /\ TakeResponses /\ Head(down) \in ResponseRecords
        /\ Active /\ Waiting /\ cur \in CallRecords /\ db' = db
        /\ cur.got \in Seq(Fragment) /\ cur.kind \in Kinds
    BY <1>0, <1>9, TakenIs
       DEF Receive, SessTypes, Active, Reading, Waiting, serverVars, CallRecords
  <2> DEFINE rsp == Head(down)
             got == Append(cur.got, rsp.fragment)
             ok == Belongs(rsp) /\ Answers(rsp)
  <2>2. record' = RecordAfter(ok, rsp) /\ ok \in BOOLEAN
    BY <1>9 DEF Receive
  <2>3. got \in Seq(Fragment)
    BY <2>1 DEF ResponseRecords
  <2>4. CASE ~ ok
    <3>1. Finish("failed", cur.got, 0)
      BY <1>9, <2>4 DEF Receive
    <3>2. record' = record
      BY <2>2, <2>4, RecordAfterIs
    <3> QED
      BY <1>0, <2>1, <3>1, <3>2, EndRecord
  <2>5. CASE ok
    <3>1. GoodAnswer(rsp) /\ rsp.fragment[1] = cur.n
      BY <1>0, <2>1, <2>5, OwnIsGood
    <3>2. rsp.pdu = "rsp"
      <4>1. rsp.pdu \in {"rsp", "none"} /\ (rsp.pdu = "none" => cur.kind \in {"attr", "search_attr"})
        BY <2>1, <2>5, AnswersIs
      <4> QED
        BY <3>1, <4>1 DEF GoodAnswer
    <3>3. CASE cur.kind \in Queries
      <4>1. record' = record /\ cur.kind # "register"
        BY <2>2, <3>3, RecordAfterIs DEF Queries
      <4>2. CASE rsp.cstate = 0
        <5>1. Finish("ok", got, 0)
          BY <1>9, <2>5, <4>2 DEF Receive
        <5> QED
          BY <1>0, <2>1, <2>3, <4>1, <5>1, EndRecord
      <4>3. CASE rsp.cstate # 0
        <5>1. cur' = [cur EXCEPT !.got = got, !.cstate = rsp.cstate] /\ results' = results
          BY <1>9, <2>5, <4>3 DEF Receive
        <5>2. cur'.n = cur.n /\ cur'.kind = cur.kind
          BY <2>1, <5>1 DEF CallRecords
        <5> QED
          BY <1>0, <2>1, <4>1, <5>1, <5>2 DEF RecordInv, RecordMatchesServer
      <4> QED
        BY <4>2, <4>3
    <3>4. ASSUME cur.kind \notin Queries
          PROVE  /\ Finish("ok", got, 0) /\ pc' = "idle"
                 /\ Len(results') = Len(results) /\ cur.n \in 1 .. Len(results)
                 /\ results'[cur.n].st = "ok"
                 /\ \A n \in 1 .. Len(results) : n # cur.n => results'[n] = results[n]
      <4>1. rsp.cstate = 0
        BY <3>1, <3>2, <3>4 DEF GoodAnswer
      <4>2. Finish("ok", got, 0)
        BY <1>9, <2>5, <4>1 DEF Receive
      <4>3. Tell("ok", got, 0) /\ pc' = "idle"
        BY <4>2 DEF Finish
      <4> HIDE DEF got
      <4>4. results'[cur.n] = [st |-> "ok", got |-> got, count |-> 0, told |-> 1]
        BY <1>0, <2>1, <2>3, <4>3, TellIs
      <4>5. /\ Len(results') = Len(results) /\ cur.n \in 1 .. Len(results)
            /\ \A n \in 1 .. Len(results) : n # cur.n => results'[n] = results[n]
        BY <1>0, <2>1, <2>3, <4>3, TellIs
      <4> QED
        BY <4>2, <4>3, <4>4, <4>5
    <3>5. CASE cur.kind = "register"
      <4>1. cur.kind \notin Queries
        BY <3>5 DEF Queries
      <4>2. record' = [record EXCEPT !.handle = cur.n] /\ record \in [st : {"held", "freed"}, handle : Nat]
        <5>1. record' = [record EXCEPT !.handle = rsp.fragment[1]]
          BY <2>2, <2>5, <3>5, RecordAfterIs
        <5>2. record \in [st : {"held", "freed"}, handle : Nat]
          BY <1>0 DEF SessTypes
        <5> QED
          BY <3>1, <5>1, <5>2, Zenon
      <4>3. record'.handle = cur.n /\ record'.st = record.st
        BY <4>2
      <4>4. record.st = "held" /\ record.handle = 0
        BY <1>0, <2>1, <3>5 DEF RecordInv
      <4>5. db \subseteq 1 .. Len(results) /\ Len(results) \in Nat
        BY <1>0, LengthIs DEF SessTypes
      <4>6. \A h \in db' : results'[h].st = "ok" => h = record'.handle
        <5>1. SUFFICES ASSUME NEW h \in db, h # cur.n, results'[h].st = "ok" PROVE FALSE
          BY <2>1, <4>3
        <5>2. results[h].st = "ok"
          BY <3>4, <4>1, <4>5, <5>1
        <5>3. h = 0
          BY <1>0, <4>4, <5>1, <5>2 DEF RecordInv, RecordMatchesServer
        <5> QED
          BY <4>5, <5>1, <5>3
      <4>7. cur.n <= Len(results') /\ results'[cur.n].st = "ok" /\ pc' = "idle"
        BY <3>4, <4>1, <4>5
      <4> QED
        BY <4>3, <4>4, <4>6, <4>7 DEF RecordInv, RecordMatchesServer, Active
    <3>6. CASE cur.kind = "remove"
      <4>1. cur.kind \notin Queries
        BY <3>6 DEF Queries
      <4>2. record' = [record EXCEPT !.st = "freed"] /\ record \in [st : {"held", "freed"}, handle : Nat]
        BY <1>0, <2>2, <2>5, <3>6, RecordAfterIs DEF SessTypes
      <4>3. record'.handle = record.handle /\ record.handle \in Nat
        BY <4>2
      <4>4. record.handle \notin db /\ cur.n \notin db
        BY <1>0, <2>1, <3>1, <3>2, <3>6, <4>1 DEF GoodAnswer, RecordInv
      <4>5. db \subseteq 1 .. Len(results) /\ Len(results) \in Nat
        BY <1>0, LengthIs DEF SessTypes
      <4>6. \A h \in db' : results'[h].st = "ok" => h = record'.handle
        <5>1. SUFFICES ASSUME NEW h \in db, results'[h].st = "ok" PROVE h = record.handle
          BY <2>1, <4>3
        <5>2. results[h].st = "ok"
          BY <3>4, <4>1, <4>4, <4>5, <5>1
        <5> QED
          BY <1>0, <5>1, <5>2 DEF RecordInv, RecordMatchesServer
      <4>7. record.handle # 0 => /\ record.handle <= Len(results')
                                 /\ results'[record.handle].st = "ok"
        <5>1. SUFFICES ASSUME record.handle # 0
                       PROVE  /\ record.handle <= Len(results')
                              /\ results'[record.handle].st = "ok"
          OBVIOUS
        <5>2. record.handle \in 1 .. Len(results) /\ results[record.handle].st = "ok"
          BY <1>0, <4>3, <4>5, <5>1 DEF RecordInv
        <5> QED
          BY <3>4, <4>1, <4>3, <4>5, <5>2
      <4>8. pc' = "idle"
        BY <3>4, <4>1
      <4> QED
        BY <2>1, <4>3, <4>4, <4>6, <4>7, <4>8 DEF RecordInv,
           RecordMatchesServer, Active
    <3> QED
      BY <2>1, <3>3, <3>5, <3>6 DEF Kinds
  <2> QED
    BY <2>4, <2>5
<1>10. CASE GivesUp
  <2>1. /\ Finish("failed", cur.got, 0) /\ Active /\ cur.got \in Seq(Fragment)
        /\ record' = record /\ db' = db
    BY <1>0, <1>10 DEF GivesUp, Reading, Active, SessTypes, CallRecords,
       serverVars
  <2> QED
    BY <1>0, <2>1, EndRecord
<1>11. CASE sdp_process
  <2>1. /\ down # <<>> /\ TakeResponses /\ Head(down) \in ResponseRecords
        /\ Active /\ cur \in CallRecords /\ record' = record /\ db' = db
        /\ cur.got \in Seq(Fragment) /\ cur.count \in Nat /\ cur.kind # "register"
    BY <1>0, <1>11, TakenIs
       DEF sdp_process, MayProcess, SessTypes, Active, serverVars, CallRecords, CallInv, Queries
  <2> DEFINE rsp == Head(down)
             c == Concatenated(rsp)
  <2>2. c \in CallRecords /\ c.n = cur.n /\ c.kind = cur.kind
    BY <1>0, <2>1, ConcatenatedIs
  <2>3. c.got \in Seq(Fragment) /\ c.count \in Nat
    BY <2>2 DEF CallRecords
  <2>4. CASE \/ Finish("ok", c.got, c.count)
             \/ Finish("ok", cur.got, cur.count)
             \/ Finish("failed", cur.got, cur.count)
    BY <1>0, <2>1, <2>3, <2>4, EndRecord
  <2>5. CASE Continue([c EXCEPT !.cstate = rsp.cstate])
    <3> DEFINE d == [c EXCEPT !.cstate = rsp.cstate]
    <3>1. /\ d \in CallRecords /\ d.n = c.n /\ d.kind = c.kind
          /\ d.got = c.got /\ d.count = c.count
      BY <2>1, <2>2 DEF CallRecords, ResponseRecords
    <3> HIDE DEF d
    <3>2. cur' = [d EXCEPT !.tid = tid]
      BY <2>5 DEF Continue, d
    <3>3. cur'.n = cur.n /\ cur'.kind = cur.kind
      BY <2>2, <3>1, <3>2 DEF CallRecords
    <3>4. CASE UNCHANGED <<results, pc>>
      BY <1>0, <2>1, <3>3, <3>4 DEF RecordInv, RecordMatchesServer, Active
    <3>5. CASE Finish("failed", d.got, d.count)
      BY <1>0, <2>1, <2>3, <3>1, <3>5, EndRecord
    <3> QED
      BY <2>5, <3>4, <3>5 DEF Continue, d
  <2> QED
    BY <1>11, <2>4, <2>5 DEF sdp_process
<1>12. CASE ProcessEnd
  <2>1. /\ Finish("failed", cur.got, cur.count) /\ Active
        /\ cur.got \in Seq(Fragment) /\ cur.count \in Nat /\ record' = record /\ db' = db
    BY <1>0, <1>12 DEF ProcessEnd, MayProcess, Active, SessTypes, CallRecords,
       serverVars
  <2> QED
    BY <1>0, <2>1, EndRecord
<1>13. CASE SelectFails
  <2>1. /\ pc = "select" /\ pc' = "recv" /\ UNCHANGED <<cur, results, record, db>>
    BY <1>13 DEF SelectFails, serverVars
  <2> QED
    BY <1>0, <2>1 DEF RecordInv, RecordMatchesServer, Active
<1> QED
  BY <1>1, <1>2, <1>3, <1>4, <1>5, <1>6, <1>7, <1>8, <1>9, <1>10, <1>11, <1>12,
     <1>13, NextCases

-----------------------------------------------------------------------------
(* The results.                                                              *)

LEMMA SessionInit == SessInit => SessInv
<1> SUFFICES ASSUME SessInit PROVE SessInv
  OBVIOUS
<1>0. 0 \in Ids /\ MaxCalls >= 0
  <2>1. Tids \in Nat /\ MaxCalls \in Nat /\ MaxCalls < Tids
    BY SessAssumption
  <2> QED
    BY <2>1 DEF Ids
<1> USE DEF SessInit
<1>1. SessTypes
  <2>1. cur \in CallRecords
    BY <1>0 DEF NoCall, CallRecords, Kinds, Queries
  <2> QED
    BY <1>0, <2>1 DEF SessTypes
<1>2. CallInv
  BY DEF CallInv, ToldOnce, Active
<1>3. PipeInv
  BY DEF PipeInv, Waiting
<1>4. AnswerInv
  BY DEF AnswerInv, WholeAnswerInOrder, CountIsSum, Active, Waiting
<1>5. RecordInv
  BY DEF RecordInv, RecordMatchesServer, Active
<1> QED
  BY <1>1, <1>2, <1>3, <1>4, <1>5 DEF SessInv

LEMMA SessionNext == SessInv /\ [SessNext]_sessVars => SessInv'
<1> SUFFICES ASSUME SessInv, [SessNext]_sessVars PROVE SessInv'
  OBVIOUS
<1>1. CASE SessNext
  <2>1. SessTypes'
    BY <1>1, TypesStep
  <2>2. CallInv'
    BY <1>1, <2>1, CallStep
  <2>3. PipeInv'
    BY <1>1, <2>1, <2>2, PipeStep
  <2>4. AnswerInv'
    BY <1>1, <2>1, <2>2, AnswerStep
  <2>5. RecordInv'
    BY <1>1, <2>1, <2>2, RecordStep
  <2> QED
    BY <2>1, <2>2, <2>3, <2>4, <2>5 DEF SessInv
<1>2. CASE UNCHANGED sessVars
  <2>1. UNCHANGED <<pc, tid, cur, results, record, up, down, db, answers>>
    BY <1>2 DEF sessVars, clientVars, clientVarsButResults, serverVars
  <2>2. SessTypes' /\ CallInv'
    BY <2>1 DEF SessInv, SessTypes, CallInv, ToldOnce, Active
  <2>3. PipeInv'
    BY <2>1 DEF SessInv, PipeInv, OnItsWay, Waiting, Lag
  <2>4. AnswerInv'
    <3>1. WholeAnswerInOrder'
      BY <2>1, WholeKept DEF SessInv, AnswerInv
    <3> QED
      BY <2>1, <3>1 DEF SessInv, AnswerInv, Active, Waiting, SoFar, Reading,
         OwnRequest, GoodAnswer
  <2>5. RecordInv'
    BY <2>1 DEF SessInv, RecordInv, RecordMatchesServer, Active
  <2> QED
    BY <2>2, <2>3, <2>4, <2>5 DEF SessInv
<1> QED
  BY <1>1, <1>2

LEMMA SessionCorrect == SessSpec => []SessInv
  BY SessionInit, SessionNext, PTL DEF SessSpec

(* A call or a transaction that succeeds has all of the server's answer to   *)
(* its own request, each fragment once and in order, although answers of     *)
(* calls that gave up waiting are still on their way: none has its id        *)
(* (sdp.c:1718-1740, 4150-4355).                                             *)
THEOREM AnswersAreWhole == SessSpec => []WholeAnswerInOrder
<1>1. SessInv => WholeAnswerInOrder
  BY DEF SessInv, AnswerInv
<1> QED
  BY <1>1, SessionCorrect, PTL

(* The caller or the callback is told once how a call or a transaction       *)
(* ended, on every way out (sdp.c:3523-3528, 4324-4355).                     *)
THEOREM CallersAreToldOnce == SessSpec => []ToldOnce
<1>1. SessInv => ToldOnce
  BY DEF SessInv, CallInv
<1> QED
  BY <1>1, SessionCorrect, PTL

(* The record the client has and the server's handles agree, whichever calls *)
(* gave up and whenever the server went away (sdp.c:2938-2964, 3085-3094).   *)
THEOREM RecordsAgree == SessSpec => []RecordMatchesServer
<1>1. SessInv => RecordMatchesServer
  BY DEF SessInv, RecordInv
<1> QED
  BY <1>1, SessionCorrect, PTL

-----------------------------------------------------------------------------
(* Progress, whatever the server does.                                       *)

(* How many steps a call or a transaction has left: three for each fragment  *)
(* there may still be.                                                       *)
StepsLeft ==
  CASE pc = "send" -> 3 * (MaxFragments - cur.cstate)
    [] pc \in {"select", "process"} -> 3 * (MaxFragments - cur.cstate) - 1
    [] pc = "recv" -> 3 * (MaxFragments - cur.cstate) - 2
    [] pc \in {"none", "connecting", "idle"} -> 0

CallGoesOn ==
  SendRequest \/ SelectFails \/ Receive \/ GivesUp \/ sdp_process \/ ProcessEnd

CallComesToItsEnd ==
  Active => /\ CallGoesOn => StepsLeft' < StepsLeft
            /\ StepsLeft' <= StepsLeft

StepsAre(left, fragments) ==
  /\ pc = "send" => left = 3 * fragments
  /\ pc \in {"select", "process"} => left = 3 * fragments - 1
  /\ pc = "recv" => left = 3 * fragments - 2
  /\ pc \in {"none", "connecting", "idle"} => left = 0

LEMMA StepsNow ==
  ASSUME SessInv
  PROVE  /\ StepsAre(StepsLeft, MaxFragments - cur.cstate) /\ StepsLeft \in Nat
         /\ cur.cstate \in Nat /\ MaxFragments \in Nat
         /\ Active => MaxFragments - cur.cstate \in Nat \ {0}
         /\ StepsLeft <= 3 * MaxFragments
<1>1. /\ pc \in {"none", "connecting", "idle", "send", "select", "recv", "process"}
      /\ cur.cstate \in Nat /\ MaxFragments \in Nat
      /\ Active => cur.cstate < MaxFragments
  <2>1. cur \in CallRecords
    BY DEF SessInv, SessTypes
  <2>2. cur.cstate \in Nat
    BY <2>1 DEF CallRecords
  <2>3. pc \in {"none", "connecting", "idle", "send", "select", "recv", "process"}
    BY DEF SessInv, SessTypes
  <2>4. Active => cur.cstate < MaxFragments
    BY DEF SessInv, AnswerInv, SoFar, Reading
  <2> QED
    BY <2>2, <2>3, <2>4, SessAssumption
<1>2. StepsAre(StepsLeft, MaxFragments - cur.cstate)
  BY <1>1 DEF StepsLeft, StepsAre
<1> QED
  BY <1>1, <1>2 DEF StepsAre, Active

LEMMA StepsNext ==
  ASSUME SessTypes'
  PROVE  StepsAre(StepsLeft, MaxFragments - cur.cstate)'
<1>1. pc' \in {"none", "connecting", "idle", "send", "select", "recv", "process"}
  BY DEF SessTypes
<1> QED
  BY <1>1 DEF StepsLeft, StepsAre

(* A fragment that has more behind it is the next one, and not the last.     *)
LEMMA MoreIsNext ==
  ASSUME SessInv, Waiting, down # <<>>,
         Belongs(Head(down)), Answers(Head(down)) \/ Head(down).pdu = "rsp",
         Head(down).cstate # 0
  PROVE  Head(down).cstate = cur.cstate + 1 /\ Head(down).cstate < MaxFragments
<1> DEFINE rsp == Head(down)
<1>1. rsp \in ResponseRecords /\ cur.kind \in Kinds
  BY DEF SessInv, SessTypes, CallRecords
<1>2. GoodAnswer(rsp)
  BY OwnIsGood DEF SessInv
<1>3. rsp.pdu \in {"rsp", "none"} /\ (rsp.pdu = "none" => cur.kind \in {"attr", "search_attr"})
  BY <1>1, AnswersIs
<1>4. rsp.pdu = "rsp"
  BY <1>2, <1>3 DEF GoodAnswer
<1> QED
  BY <1>2, <1>4 DEF GoodAnswer

LEMMA CallStepsShrink ==
  ASSUME SessInv, SessInv', [SessNext]_sessVars
  PROVE  CallComesToItsEnd
<1> SUFFICES ASSUME Active
             PROVE  /\ CallGoesOn => StepsLeft' < StepsLeft
                    /\ StepsLeft' <= StepsLeft
  BY DEF CallComesToItsEnd
<1> DEFINE left == StepsLeft
           next == StepsLeft'
           k == MaxFragments - cur.cstate
           m == MaxFragments - cur'.cstate
<1>1. StepsAre(left, k) /\ k \in Nat \ {0} /\ left \in Nat
  BY StepsNow
<1>2. /\ pc' = "send" => next = 3 * m
      /\ pc' \in {"select", "process"} => next = 3 * m - 1
      /\ pc' = "recv" => next = 3 * m - 2
      /\ pc' \in {"none", "connecting", "idle"} => next = 0
  BY StepsNext DEF SessInv, StepsAre
<1>3. cur \in CallRecords /\ cur.cstate \in Nat /\ MaxFragments \in Nat
      /\ (cur'.cstate = cur.cstate => m = k)
      /\ (cur'.cstate = cur.cstate + 1 => m = k - 1)
  <2>1. cur \in CallRecords
    BY DEF SessInv, SessTypes
  <2>2. cur.cstate \in Nat /\ MaxFragments \in Nat
    BY StepsNow
  <2>3. cur'.cstate = cur.cstate => m = k
    BY Zenon
  <2>4. ASSUME NEW j, j = cur.cstate + 1 PROVE MaxFragments - j = k - 1
    BY <2>2, <2>4
  <2> QED
    BY <2>1, <2>2, <2>3, <2>4, Zenon
<1> HIDE DEF left, next, k, m
<1>4. left > 0
  BY <1>1 DEF StepsAre, Active
<1>5. ASSUME pc' = "idle" \/ pc' = "none" PROVE next < left
  BY <1>2, <1>4, <1>5
<1>6. ASSUME SendRequest PROVE next < left
  <2>1. cur'.cstate = cur.cstate /\ pc = "send"
    BY <1>3, <1>6 DEF SendRequest, CallRecords
  <2>2. pc' \in {"select", "process", "idle"}
    BY <1>6 DEF SendRequest, Finish
  <2> QED
    BY <1>1, <1>2, <1>3, <1>5, <2>1, <2>2 DEF StepsAre
<1>7. ASSUME Receive PROVE next < left
  <2> DEFINE rsp == Head(down)
             ok == Belongs(rsp) /\ Answers(rsp)
  <2>1. CASE ok /\ rsp.cstate # 0
    <3>1. /\ Reading /\ pc' = "send" /\ down # <<>>
          /\ cur' = [cur EXCEPT !.got = Append(cur.got, rsp.fragment), !.cstate = rsp.cstate]
      BY <1>7, <2>1 DEF Receive, Reading
    <3>2. cur'.cstate = rsp.cstate
      BY <1>3, <3>1 DEF CallRecords
    <3>3. rsp.cstate = cur.cstate + 1
      BY <2>1, <3>1, MoreIsNext DEF Waiting, Reading
    <3> QED
      BY <1>1, <1>2, <1>3, <3>1, <3>2, <3>3 DEF StepsAre, Reading
  <2>2. CASE ~ (ok /\ rsp.cstate # 0)
    BY <1>5, <1>7, <2>2 DEF Receive, Finish
  <2> QED
    BY <2>1, <2>2
<1>8. ASSUME GivesUp \/ ProcessEnd PROVE next < left
  BY <1>5, <1>8 DEF GivesUp, Reading, ProcessEnd, MayProcess, Finish
<1>9. ASSUME sdp_process PROVE next < left
  <2> DEFINE rsp == Head(down)
             c == [Concatenated(rsp) EXCEPT !.cstate = rsp.cstate]
  <2>1. CASE /\ Belongs(rsp) /\ rsp.pdu = "rsp" /\ rsp.cstate # 0
             /\ Continue(c) /\ pc' # "idle"
    <3>1. pc = "process" /\ pc' = "process" /\ down # <<>> /\ cur' = [c EXCEPT !.tid = tid]
      BY <1>9, <2>1 DEF sdp_process, MayProcess, Continue, Finish
    <3>2. rsp.cstate = cur.cstate + 1
      BY <2>1, <3>1, MoreIsNext DEF Waiting
    <3>3. cur'.cstate = rsp.cstate
      <4>1. rsp \in ResponseRecords
        BY <3>1 DEF SessInv, SessTypes
      <4>2. Concatenated(rsp) \in CallRecords
        BY <4>1, ConcatenatedIs DEF SessInv
      <4> QED
        BY <3>1, <4>2 DEF CallRecords
    <3> QED
      BY <1>1, <1>2, <1>3, <3>1, <3>2, <3>3 DEF StepsAre
  <2>2. pc' = "idle" \/ (/\ Belongs(rsp) /\ rsp.pdu = "rsp" /\ rsp.cstate # 0
                         /\ Continue(c) /\ pc' # "idle")
    BY <1>9 DEF sdp_process, Finish
  <2> QED
    BY <1>5, <2>1, <2>2
<1>10. ASSUME UNCHANGED <<pc, cur>> PROVE next <= left
  <2>1. m = k
    BY <1>3, <1>10
  <2> QED
    BY <1>1, <1>2, <1>10, <2>1 DEF StepsAre, Active
<1>11. ASSUME ~ CallGoesOn PROVE UNCHANGED <<pc, cur>> \/ pc' = "none"
  <2>1. CASE UNCHANGED sessVars
    BY <2>1 DEF sessVars, clientVars, clientVarsButResults
  <2>2. CASE ServerAnswers \/ ServerHangsUp
    BY <2>2 DEF ServerAnswers, ServerHangsUp, clientVars, clientVarsButResults
  <2>3. CASE sdp_close
    BY <2>3 DEF sdp_close
  <2>4. ~ (\E isLocal, isRetry \in BOOLEAN : sdp_connect(isLocal, isRetry))
    BY DEF sdp_connect, Active
  <2>5. ~ (\E kind \in Kinds, async \in BOOLEAN : Starts(kind, async)) /\ ~ Refused
    BY DEF Starts, Begin, Refused, Active
  <2>6. ~ ConnectReturns
    BY DEF ConnectReturns, Active
  <2> QED
    BY <1>11, <2>1, <2>2, <2>3, <2>4, <2>5, <2>6, NextCases DEF CallGoesOn
<1>12. CallGoesOn => next < left
  <2>1. ASSUME SelectFails PROVE next < left
    <3>1. pc = "select" /\ pc' = "recv" /\ m = k
      BY <1>3, <2>1 DEF SelectFails
    <3> QED
      BY <1>1, <1>2, <3>1 DEF StepsAre
  <2> QED
    BY <1>6, <1>7, <1>8, <1>9, <2>1 DEF CallGoesOn
<1>13. next <= left
  <2>1. left \in Nat /\ next \in Int
    <3>1. SessTypes'
      BY DEF SessInv
    <3>2. pc' \in {"none", "connecting", "idle", "send", "select", "recv", "process"} /\ m \in Int
      <4>1. cur' \in CallRecords
        BY <3>1 DEF SessTypes
      <4>2. cur'.cstate \in Nat
        BY <4>1 DEF CallRecords
      <4> QED
        BY <1>3, <3>1, <4>2 DEF SessTypes, m
    <3> QED
      BY <1>1, <1>2, <3>2
  <2> QED
    BY <1>5, <1>10, <1>11, <1>12, <2>1
<1> QED
  BY <1>12, <1>13 DEF left, next

(* The end of a call is the last thing its result hears of.                  *)
ResultsStand ==
  /\ Len(results) <= Len(results')
  /\ \A n \in 1 .. Len(results) :
       results[n].st # "pending" => results'[n] = results[n]

LEMMA StandsStep ==
  ASSUME SessInv, [SessNext]_sessVars
  PROVE  ResultsStand
<1>0. SessTypes /\ CallInv /\ results \in Seq(ResultRecords) /\ Len(results) \in Nat
  BY DEF SessInv, SessTypes
<1>1. ASSUME Active, NEW st \in {"pending", "ok", "failed"}, NEW got \in Seq(Fragment),
             NEW count \in Nat, Tell(st, got, count)
      PROVE  ResultsStand
  <2>1. /\ Len(results') = Len(results)
        /\ \A n \in 1 .. Len(results) : n # cur.n => results'[n] = results[n]
    BY <1>0, <1>1, TellIs
  <2>2. results[cur.n].st = "pending"
    BY <1>0, <1>1 DEF CallInv
  <2> QED
    BY <1>0, <2>1, <2>2 DEF ResultsStand
<1>2. ASSUME UNCHANGED results PROVE ResultsStand
  BY <1>0, <1>2 DEF ResultsStand
<1>3. ASSUME Active, NEW st \in {"closed", "unsent"},
             results' = [results EXCEPT ![cur.n].st = st]
      PROVE  ResultsStand
  <2>1. cur.n \in 1 .. Len(results) /\ results[cur.n].st = "pending"
    BY <1>0, <1>3 DEF CallInv, SessTypes
  <2>2. /\ Len(results') = Len(results)
        /\ \A n \in 1 .. Len(results) : n # cur.n => results'[n] = results[n]
    BY <1>0, <1>3, <2>1
  <2> QED
    BY <1>0, <2>1, <2>2 DEF ResultsStand
<1>4. ASSUME NEW e, results' = Append(results, e) PROVE ResultsStand
  BY <1>0, <1>4 DEF ResultsStand
<1>5. cur.got \in Seq(Fragment) /\ cur.count \in Nat /\ 0 \in Nat
  BY <1>0 DEF SessTypes, CallRecords
<1>6. ASSUME NEW rsp \in ResponseRecords
      PROVE  /\ Append(cur.got, rsp.fragment) \in Seq(Fragment)
             /\ Concatenated(rsp).got \in Seq(Fragment) /\ Concatenated(rsp).count \in Nat
             /\ [Concatenated(rsp) EXCEPT !.cstate = rsp.cstate].got = Concatenated(rsp).got
             /\ [Concatenated(rsp) EXCEPT !.cstate = rsp.cstate].count
                  = Concatenated(rsp).count
  <2>1. Concatenated(rsp) \in CallRecords
        /\ Concatenated(rsp).got = Append(cur.got, rsp.fragment)
    BY <1>0, <1>6, ConcatenatedIs
  <2> QED
    BY <2>1 DEF CallRecords
<1>7. CASE ServerAnswers \/ ServerHangsUp
  BY <1>2, <1>7 DEF ServerAnswers, ServerHangsUp, clientVars
<1>8. CASE \E isLocal, isRetry \in BOOLEAN : sdp_connect(isLocal, isRetry)
  BY <1>2, <1>8 DEF sdp_connect
<1>9. CASE ConnectReturns
  BY <1>2, <1>9 DEF ConnectReturns
<1>10. CASE sdp_close
  BY <1>2, <1>3, <1>10 DEF sdp_close, Active
<1>11. CASE (\E kind \in Kinds, async \in BOOLEAN : Starts(kind, async)) \/ Refused
  BY <1>4, <1>11 DEF Starts, Begin, Refused
<1>12. CASE SendRequest
  BY <1>1, <1>2, <1>3, <1>5, <1>12 DEF SendRequest, Finish, Active
<1>13. CASE Receive
  <2>1. Active /\ Head(down) \in ResponseRecords
    BY <1>0, <1>13 DEF Receive, Reading, Active, SessTypes
  <2>2. \/ UNCHANGED results
        \/ Tell("ok", Append(cur.got, Head(down).fragment), 0)
        \/ Tell("failed", cur.got, 0)
    BY <1>13 DEF Receive, Finish
  <2> QED
    BY <1>1, <1>2, <1>5, <1>6, <2>1, <2>2
<1>14. CASE GivesUp \/ ProcessEnd
  BY <1>1, <1>5, <1>14 DEF GivesUp, Reading, ProcessEnd, MayProcess, Finish,
     Active
<1>15. CASE sdp_process
  <2> DEFINE rsp == Head(down)
             c == Concatenated(rsp)
             d == [c EXCEPT !.cstate = rsp.cstate]
  <2>1. Active /\ rsp \in ResponseRecords
    BY <1>0, <1>15 DEF sdp_process, MayProcess, Active, SessTypes
  <2>2. \/ UNCHANGED results
        \/ Tell("failed", d.got, d.count)
        \/ Tell("ok", c.got, c.count)
        \/ Tell("ok", cur.got, cur.count)
        \/ Tell("failed", cur.got, cur.count)
    BY <1>15 DEF sdp_process, Continue, Finish
  <2>3. c.got \in Seq(Fragment) /\ c.count \in Nat /\ d.got = c.got /\ d.count = c.count
    BY <1>6, <2>1
  <2> HIDE DEF c, d
  <2> QED
    BY <1>1, <1>2, <1>5, <2>1, <2>2, <2>3
<1>16. CASE UNCHANGED sessVars
  BY <1>2, <1>16 DEF sessVars, clientVars
<1>17. CASE SelectFails
  BY <1>2, <1>17 DEF SelectFails
<1> QED
  BY <1>17, <1>7, <1>8, <1>9, <1>10, <1>11, <1>12, <1>13, <1>14, <1>15, <1>16,
     NextCases

(* A call or a transaction takes three steps of its own for each fragment of *)
(* its answer at most, and nothing the server does adds to that, neither     *)
(* answers that come late nor its going away: what is left of CallsReturn is *)
(* that the thread goes on and does not block in recv after select failed    *)
(* (sdp.c:1697-1740, 4150-4355, 4657-4719).                                  *)
THEOREM CallsComeToAnEnd ==
  SessSpec => [](StepsLeft \in 0 .. (3 * MaxFragments)) /\ [][CallComesToItsEnd]_sessVars
<1>1. SessInv => StepsLeft \in 0 .. (3 * MaxFragments)
  <2> SUFFICES ASSUME SessInv PROVE StepsLeft \in 0 .. (3 * MaxFragments)
    OBVIOUS
  <2>1. StepsLeft \in Nat /\ StepsLeft <= 3 * MaxFragments /\ MaxFragments \in Nat
    BY StepsNow
  <2> QED
    BY <2>1
<1>2. SessInv /\ SessInv' /\ [SessNext]_sessVars => [CallComesToItsEnd]_sessVars
  BY CallStepsShrink
<1> QED
  BY <1>1, <1>2, SessionInit, SessionNext, PTL DEF SessSpec

(* How a call or a transaction ended never changes afterwards: not by an     *)
(* answer that comes when its caller has given up, by a later call of the    *)
(* session, or by the session's being closed (sdp.c:1697-1745, 4324-4355).   *)
THEOREM EndedCallsStand == SessSpec => [][ResultsStand]_sessVars
<1>1. SessInv /\ [SessNext]_sessVars => [ResultsStand]_sessVars
  BY StandsStep
<1> QED
  BY <1>1, SessionInit, SessionNext, PTL DEF SessSpec
=============================================================================
