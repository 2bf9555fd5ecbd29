------------------------------- MODULE Http1 -------------------------------
(***************************************************************************)
(* HTTP/1.1 exchanges (internal/transport/http1/http1.go) over the pooled  *)
(* connections of NetPool, driven by Client.CtxDo (internal/client.go).    *)
(*                                                                         *)
(* CtxDo connects (pc goes from "out" to "use"), calls Session.Do, and the *)
(* user reads and closes the body. Setup starts two goroutines for each    *)
(* connection: the write loop receives a session and writes its request,   *)
(* then hands the session to the read loop, which reads the response head  *)
(* and answers on doneCh. job says where a session is: "idle" before Do    *)
(* has handed it over, "write" and "toread" in the write loop, "read" in   *)
(* the read loop, "body" once Do has returned a response.                  *)
(*                                                                         *)
(* The server and the network are the environment: a connection carries    *)
(* requests to the server in order, and heads and pieces of bodies back.   *)
(***************************************************************************)
EXTENDS NetPool

CONSTANTS MaxBody,        \* pieces of the longest response body
          MayCancel,      \* the context may be done while Do selects
          BodyMayFail,    \* GetBody or the request body may fail
          PeerMayClose,   \* the server may close at any time
          Interim,        \* the server may send a 1xx response first
          EarlyClose      \* the user may close a body it has not read

ASSUME SessionAssumption ==
  /\ MaxBody \in Nat
  /\ {MayCancel, BodyMayFail, PeerMayClose, Interim, EarlyClose} \subseteq BOOLEAN

VARIABLES job,        \* where each client's session is
          remaining,  \* Session.remaining, in pieces
          needClose,  \* Session.needClose
          reqno,      \* tells a client's consecutive requests apart
          resp,       \* the requests whose responses the user has read from
          wloop,      \* each connection's write loop
          rloop,      \* and read loop
          peer,       \* whether the server still holds the connection
          sent,       \* requests the server has not answered
          inbox       \* response bytes nobody has read

sessVars == <<job, remaining, needClose, reqno, resp>>
loopVars == <<wloop, rloop>>
wireVars == <<peer, sent, inbox>>
httpVars == <<poolVars, sessVars, loopVars, wireVars>>

Jobs == {"idle", "write", "toread", "read", "body"}
Requests == Clients \X {0, 1}
Heads == [of : Requests, part : {"head"}, len : 0..MaxBody, close : BOOLEAN]
Pieces == [of : Requests, part : {"piece"}]

Request(c) == <<c, reqno[c]>>
Conn(c) == own[c]

HttpInit ==
  /\ Init
  /\ job = [c \in Clients |-> "idle"]
  /\ remaining = [c \in Clients |-> 0]
  /\ needClose = [c \in Clients |-> FALSE]
  /\ reqno = [c \in Clients |-> 0]
  /\ resp = [c \in Clients |-> {}]
  /\ wloop = [n \in Conns |-> "off"]
  /\ rloop = [n \in Conns |-> "off"]
  /\ peer = [n \in Conns |-> "gone"]
  /\ sent = [n \in Conns |-> <<>>]
  /\ inbox = [n \in Conns |-> <<>>]

(* Connect makes a new Session for every call.                             *)
SessionEnds(c) ==
  /\ job' = [job EXCEPT ![c] = "idle"]
  /\ remaining' = [remaining EXCEPT ![c] = 0]
  /\ needClose' = [needClose EXCEPT ![c] = FALSE]
  /\ resp' = [resp EXCEPT ![c] = {}]

-----------------------------------------------------------------------------
(* The pool's steps. http1's Setup does not fail.                          *)

PoolOnly(c) ==
  /\ \/ Connect(c) \/ PollIdle(c) \/ TakeTicket(c) \/ SelectIdle(c) \/ Park(c)
     \/ Received(c) \/ (\E n \in Conns : DialOK(c, n)) \/ DialFail(c) \/ DrainTicket(c)
  /\ UNCHANGED <<sessVars, loopVars, wireVars>>

Setup(c) ==
  /\ SetupOK(c)
  /\ wloop' = [wloop EXCEPT ![own[c]] = "idle"]
  /\ rloop' = [rloop EXCEPT ![own[c]] = "idle"]
  /\ peer' = [peer EXCEPT ![own[c]] = "up"]
  /\ UNCHANGED <<sessVars, sent, inbox>>

(* Both directions end with the connection. A loop that has not returned   *)
(* on an error stays blocked on its channel for good: nothing closes wloop.*)
CloseTransport(c) ==
  /\ CloseConn(c)
  /\ peer' = [peer EXCEPT ![own[c]] = "gone"]
  /\ sent' = [sent EXCEPT ![own[c]] = <<>>]
  /\ inbox' = [inbox EXCEPT ![own[c]] = <<>>]
  /\ UNCHANGED <<sessVars, loopVars>>

-----------------------------------------------------------------------------
(* Session.Do.                                                             *)

(* The send on wloop: the write loop must be there to receive it.          *)
HandToWriter(c) ==
  /\ pc[c] = "use" /\ job[c] = "idle"
  /\ wloop[Conn(c)] = "idle"
  /\ job' = [job EXCEPT ![c] = "write"]
  /\ wloop' = [wloop EXCEPT ![Conn(c)] = "busy"]
  /\ reqno' = [reqno EXCEPT ![c] = 1 - @]
  /\ UNCHANGED <<poolVars, remaining, needClose, resp, rloop, wireVars>>

(* Faulty: a cancelled call gives its connection back while the answer is  *)
(* still due.                                                              *)
CancelledReleases(c) ==
  /\ MayCancel
  /\ pc[c] = "use" /\ job[c] \in {"idle", "read"}
  /\ ReleaseKeep(c)
  /\ SessionEnds(c)
  /\ rloop' = [rloop EXCEPT ![Conn(c)] = "idle"]
  /\ UNCHANGED <<reqno, wloop, wireVars>>

(* The other branch of the select. Do returns ctx.Err() and CtxDo drops    *)
(* the session: nobody will release it.                                    *)
Cancelled(c) ==
  /\ MayCancel
  /\ pc[c] = "use" /\ job[c] = "idle"
  /\ own' = [own EXCEPT ![c] = NoConn]
  /\ pc' = [pc EXCEPT ![c] = "out"]
  /\ UNCHANGED <<connTicket, idleTicket, waitq, live, lost, sessVars, loopVars, wireVars>>

-----------------------------------------------------------------------------
(* The write loop.                                                         *)

(* writeRequest returns nil. What is written to a connection the server    *)
(* has closed is lost.                                                     *)
WriteRequest(c) ==
  /\ job[c] = "write"
  /\ job' = [job EXCEPT ![c] = "toread"]
  /\ sent' = IF peer[Conn(c)] = "up"
             THEN [sent EXCEPT ![Conn(c)] = Append(@, Request(c))] ELSE sent
  /\ UNCHANGED <<poolVars, remaining, needClose, reqno, resp, loopVars, peer, inbox>>

(* Faulty: the loop returns without an answer on doneCh.                   *)
WriteErrorSilent(c) ==
  /\ job[c] = "write"
  /\ BodyMayFail \/ peer[Conn(c)] = "gone"
  /\ wloop' = [wloop EXCEPT ![Conn(c)] = "off"]
  /\ job' = [job EXCEPT ![c] = "unanswered"]
  /\ UNCHANGED <<poolVars, remaining, needClose, reqno, resp, rloop, wireVars>>

(* writeRequest fails: set werr, Release(true), answer on doneCh, return.  *)
(* Do returns once the pool has closed the connection.                     *)
WriteError(c) ==
  /\ job[c] = "write"
  /\ BodyMayFail \/ peer[Conn(c)] = "gone"
  /\ ReleaseClose(c)
  /\ wloop' = [wloop EXCEPT ![Conn(c)] = "off"]
  /\ SessionEnds(c)
  /\ UNCHANGED <<reqno, rloop, wireVars>>

(* Faulty: the write loop ends after one request.                          *)
PassToReaderOnce(c) ==
  /\ job[c] = "toread"
  /\ rloop[Conn(c)] = "idle"
  /\ job' = [job EXCEPT ![c] = "read"]
  /\ wloop' = [wloop EXCEPT ![Conn(c)] = "off"]
  /\ rloop' = [rloop EXCEPT ![Conn(c)] = "busy"]
  /\ UNCHANGED <<poolVars, remaining, needClose, reqno, resp, wireVars>>

PassToReader(c) ==
  /\ job[c] = "toread"
  /\ rloop[Conn(c)] = "idle"
  /\ job' = [job EXCEPT ![c] = "read"]
  /\ wloop' = [wloop EXCEPT ![Conn(c)] = "idle"]
  /\ rloop' = [rloop EXCEPT ![Conn(c)] = "busy"]
  /\ UNCHANGED <<poolVars, remaining, needClose, reqno, resp, wireVars>>

-----------------------------------------------------------------------------
(* The read loop.                                                          *)

(* readResponse succeeds; Do returns nil and the user has the response.    *)
ReadResponse(c) ==
  /\ job[c] = "read"
  /\ inbox[Conn(c)] # <<>>
  /\ LET head == Head(inbox[Conn(c)]) IN
       /\ head.part = "head"
       /\ remaining' = [remaining EXCEPT ![c] = head.len]
       /\ needClose' = [needClose EXCEPT ![c] = head.close]
       /\ resp' = [resp EXCEPT ![c] = {head.of}]
  /\ inbox' = [inbox EXCEPT ![Conn(c)] = Tail(@)]
  /\ job' = [job EXCEPT ![c] = "body"]
  /\ rloop' = [rloop EXCEPT ![Conn(c)] = "idle"]
  /\ UNCHANGED <<poolVars, reqno, wloop, peer, sent>>

(* Faulty: Do returns the response although the lease is released.         *)
ReadErrorReturnsBody(c) ==
  /\ job[c] = "read"
  /\ \/ inbox[Conn(c)] = <<>> /\ peer[Conn(c)] = "gone"
     \/ inbox[Conn(c)] # <<>> /\ Head(inbox[Conn(c)]).part # "head"
  /\ ReleaseClose(c)
  /\ job' = [job EXCEPT ![c] = "body"]
  /\ rloop' = [rloop EXCEPT ![Conn(c)] = "idle"]
  /\ UNCHANGED <<remaining, needClose, reqno, resp, wloop, wireVars>>

(* The server has closed, or what comes is not a head: set rerr,           *)
(* Release(true), answer on doneCh; the loop goes on. CtxDo closes         *)
(* resp.Body, which by then has no pool session and closes the connection  *)
(* a second time.                                                          *)
ReadError(c) ==
  /\ job[c] = "read"
  /\ \/ inbox[Conn(c)] = <<>> /\ peer[Conn(c)] = "gone"
     \/ inbox[Conn(c)] # <<>> /\ Head(inbox[Conn(c)]).part # "head"
  /\ ReleaseClose(c)
  /\ rloop' = [rloop EXCEPT ![Conn(c)] = "idle"]
  /\ SessionEnds(c)
  /\ UNCHANGED <<reqno, wloop, wireVars>>

-----------------------------------------------------------------------------
(* The user, with the response.                                            *)

(* Faulty: subtracts the size of the buffer, not of what was read.         *)
ReadBodyByBuffer(c) ==
  /\ job[c] = "body"
  /\ remaining[c] > 0
  /\ inbox[Conn(c)] # <<>>
  /\ remaining' = [remaining EXCEPT ![c] = @ - (MaxBody + 1)]
  /\ resp' = [resp EXCEPT ![c] = @ \cup {Head(inbox[Conn(c)]).of}]
  /\ inbox' = [inbox EXCEPT ![Conn(c)] = Tail(@)]
  /\ UNCHANGED <<poolVars, job, needClose, reqno, loopVars, peer, sent>>

(* Session.Read takes what the connection has, whosever it is.             *)
ReadBody(c) ==
  /\ job[c] = "body"
  /\ remaining[c] > 0
  /\ inbox[Conn(c)] # <<>>
  /\ remaining' = [remaining EXCEPT ![c] = @ - 1]
  /\ resp' = [resp EXCEPT ![c] = @ \cup {Head(inbox[Conn(c)]).of}]
  /\ inbox' = [inbox EXCEPT ![Conn(c)] = Tail(@)]
  /\ UNCHANGED <<poolVars, job, needClose, reqno, loopVars, peer, sent>>

(* Faulty: the body ends one piece early.                                  *)
BodyEndedEarly(c) ==
  \/ remaining[c] <= 1
  \/ inbox[Conn(c)] = <<>> /\ peer[Conn(c)] = "gone"

(* Nothing more to read: the end of the body, or a read that fails. A      *)
(* failed read does not set needClose.                                     *)
BodyEnded(c) ==
  \/ remaining[c] = 0
  \/ inbox[Conn(c)] = <<>> /\ peer[Conn(c)] = "gone"

(* Session.Close: Release, then, if needClose, close the connection again. *)
CloseBody(c) ==
  /\ job[c] = "body"
  /\ BodyEnded(c) \/ EarlyClose
  /\ IF needClose[c] THEN ReleaseClose(c) ELSE ReleaseKeep(c)
  /\ SessionEnds(c)
  /\ UNCHANGED <<reqno, loopVars, wireVars>>

-----------------------------------------------------------------------------
(* The server.                                                             *)

Answer(n) ==
  /\ peer[n] = "up" /\ sent[n] # <<>>
  /\ \E k \in 0..MaxBody, close \in BOOLEAN :
       LET head  == [of |-> Head(sent[n]), part |-> "head", len |-> k, close |-> close]
           piece == [of |-> Head(sent[n]), part |-> "piece"]
       IN  /\ inbox' = [inbox EXCEPT ![n] = Append(@, head) \o [i \in 1..k |-> piece]]
           /\ peer' = IF close THEN [peer EXCEPT ![n] = "gone"] ELSE peer
  /\ sent' = [sent EXCEPT ![n] = Tail(@)]
  /\ UNCHANGED <<poolVars, sessVars, loopVars>>

(* What the read loop takes for a broken head.                             *)
AnswerMalformed(n) ==
  /\ peer[n] = "up" /\ sent[n] # <<>>
  /\ inbox' = [inbox EXCEPT ![n] = Append(@, [of |-> Head(sent[n]), part |-> "piece"])]
  /\ sent' = [sent EXCEPT ![n] = Tail(@)]
  /\ UNCHANGED <<poolVars, sessVars, loopVars, peer>>

(* An interim response announces the final one, which Answer sends later.  *)
(* Bound: only a server that is not behind sends one.                      *)
AnswerInterim(n) ==
  /\ Interim
  /\ peer[n] = "up" /\ Len(sent[n]) = 1 /\ inbox[n] = <<>>
  /\ inbox' = [inbox EXCEPT ![n] =
       <<[of |-> Head(sent[n]), part |-> "head", len |-> 0, close |-> FALSE]>>]
  /\ UNCHANGED <<poolVars, sessVars, loopVars, peer, sent>>

(* The server closes or dies at any time; the tail of what it sent may be  *)
(* lost.                                                                   *)
PeerCloses(n) ==
  /\ PeerMayClose
  /\ peer[n] = "up"
  /\ peer' = [peer EXCEPT ![n] = "gone"]
  /\ sent' = [sent EXCEPT ![n] = <<>>]
  /\ \E k \in 0..Len(inbox[n]) : inbox' = [inbox EXCEPT ![n] = SubSeq(@, 1, k)]
  /\ UNCHANGED <<poolVars, sessVars, loopVars>>

-----------------------------------------------------------------------------
LoopStep(c) ==
  \/ HandToWriter(c) \/ WriteRequest(c) \/ WriteError(c) \/ PassToReader(c)
  \/ ReadResponse(c) \/ ReadError(c)

PoolStep(c) == PoolOnly(c) \/ Setup(c) \/ CloseTransport(c)

UserStep(c) == ReadBody(c) \/ CloseBody(c)

HttpNext ==
  \/ \E c \in Clients : PoolStep(c) \/ LoopStep(c) \/ UserStep(c) \/ Cancelled(c)
  \/ \E n \in Conns : Answer(n) \/ AnswerMalformed(n) \/ AnswerInterim(n) \/ PeerCloses(n)

HttpSpec == HttpInit /\ [][HttpNext]_httpVars

(* The scheduler runs both loops and the pool; the user reads the body and *)
(* closes it; the server answers what it receives.                         *)
FairHttpSpec ==
  /\ HttpSpec
  /\ \A c \in Clients :
       /\ WF_httpVars(PoolStep(c) /\ pc[c] # "out")
       /\ WF_httpVars(LoopStep(c))
       /\ WF_httpVars(UserStep(c))
  /\ \A n \in Conns : WF_httpVars(Answer(n))

-----------------------------------------------------------------------------
(* Every variable of the exchanges holds values of its kind.               *)
HttpTypeOK ==
  /\ job \in [Clients -> Jobs]
  /\ remaining \in [Clients -> 0..MaxBody]
  /\ needClose \in [Clients -> BOOLEAN]
  /\ reqno \in [Clients -> {0, 1}]
  /\ resp \in [Clients -> SUBSET Requests]
  /\ wloop \in [Conns -> {"off", "idle", "busy"}]
  /\ rloop \in [Conns -> {"off", "idle", "busy"}]
  /\ peer \in [Conns -> {"up", "gone"}]
  /\ sent \in [Conns -> Seq(Requests)]
  /\ inbox \in [Conns -> Seq(Heads \cup Pieces)]

(* Head and body that a user reads belong to the request it just made,     *)
(* over every reuse of a connection: neither an earlier exchange on it nor *)
(* another client's ever shows through.                                    *)
OwnResponse ==
  \A c \in Clients : job[c] = "body" => resp[c] \subseteq {Request(c)}

(* A connection changes hands clean: while it is idle or on its way to the *)
(* next client, the server owes it no answer and nobody left bytes unread. *)
CleanReuse ==
  \A n \in Conns :
    \/ \E i \in 1..Len(idleTicket) : idleTicket[i] = n
    \/ \E c \in Clients : own[c] = n /\ pc[c] \in {"got", "use"} /\ job[c] = "idle"
    => sent[n] = <<>> /\ inbox[n] = <<>>

(* Whoever gets a connection finds its write loop waiting on the channel   *)
(* and, once the request is written, its read loop: a loop that ended on   *)
(* an error is never met again, and neither serves two sessions.           *)
LoopsServe ==
  \A c \in Clients : pc[c] = "use" =>
    /\ job[c] = "idle" => wloop[own[c]] = "idle" /\ rloop[own[c]] = "idle"
    /\ job[c] \in {"write", "toread"} => wloop[own[c]] = "busy" /\ rloop[own[c]] = "idle"
    /\ job[c] = "read" => wloop[own[c]] = "idle" /\ rloop[own[c]] = "busy"

(* A session that a loop or the user holds still has its lease: nothing    *)
(* releases it behind their back, and it is released once.                 *)
LeaseHeld == \A c \in Clients : job[c] # "idle" => pc[c] = "use"

(* A call to CtxDo that reached the pool returns: with a response, or with *)
(* an error and no lease.                                                  *)
CtxDoReturns ==
  \A c \in Clients : pc[c] = "try" ~> (job[c] = "body" \/ pc[c] = "out")
=============================================================================
