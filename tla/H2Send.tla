------------------------------- MODULE H2Send -------------------------------
(***************************************************************************)
(* Request bodies on the streams of one HTTP/2 connection:                 *)
(* Stream.WriteRequestBody and takeOutflow (internal/transport/h2c/        *)
(* stream.go), the windows of the streams and of the connection, and what  *)
(* SETTINGS and WINDOW_UPDATE do to them (conn.go). A body is a number of  *)
(* bytes, which its reader hands out as it likes; it may have been declared*)
(* shorter or longer. Writers with an empty window park in                 *)
(* condOutflow.Wait.                                                       *)
(*                                                                         *)
(* What H2Streams says of callers, resets, contexts and GOAWAY is here one *)
(* step, after which a stream is over; its writer goes on all the same. Of *)
(* the mutexes there are muPeer, muNewStream and condOutflow.L. A window of*)
(* the connection that overflows ends the connection (H2Connection); it    *)
(* does not here.                                                          *)
(***************************************************************************)
EXTENDS H2Flow, FiniteSets, Functions

CONSTANTS Requests,      \* the requests made on the connection, all with a body
          MaxFrame,      \* the peer's MAX_FRAME_SIZE
          Reserve, Low,  \* 1024 and 512 of readThreshold
          Declared,      \* Content-Lengths, -1 for none
          MaxBody,       \* bound: bytes of a body
          FirstWindow,   \* the peer's INITIAL_WINDOW_SIZE at first
          Windows,       \* those it may set later
          MaxSettings,   \* bound: SETTINGS frames
          Increments,    \* increments of WINDOW_UPDATE
          MaxUpdates     \* bound: WINDOW_UPDATE frames

ASSUME SendAssumption ==
  /\ IsFiniteSet(Requests)
  /\ {MaxFrame, Reserve, Low, MaxBody, MaxSettings, MaxUpdates} \subseteq Nat
  /\ Declared \subseteq Nat \cup {-1}
  /\ {FirstWindow} \cup Windows \cup Increments \subseteq 0..(Half - 1)

VARIABLES writer,       \* where the writer goroutine of each request stands
          over,         \* streams that are done and not in activeStreams any more
          readers,      \* writers that hold muPeer for reading
          loop,         \* where the read loop stands
          cur,          \* the streams it resets, with condOutflow.L held
          declared,     \* the sz of WriteRequestBody
          body,         \* its locals: read, current, sawEOF, and the tokens taken
          outflow,      \* Stream.outflow.n
          connOutflow,  \* Connection.outflow.n
          initial,      \* peerSettings.v[INITIAL_WINDOW_SIZE]
          flowWaiters,  \* writers parked in condOutflow.Wait
          allowed,      \* what the server takes on each stream, as it counts
          connAllowed,  \* and on the connection
          settings,     \* SETTINGS frames received
          updates       \* WINDOW_UPDATE frames received

streamVars == <<writer, over, readers>>
windowVars == <<outflow, connOutflow, initial, flowWaiters>>
serverVars == <<allowed, connAllowed>>
bodyVars == <<declared, body>>
loopVars == <<loop, cur, settings, updates>>
vars == <<streamVars, windowVars, serverVars, bodyVars, loopVars>>

Writers == {"none", "registered", "write", "body", "fill", "take", "data",
            "done", "broken", "failed"}

Init ==
  /\ writer = [r \in Requests |-> "none"]
  /\ over = {} /\ readers = {}
  /\ loop = "read" /\ cur = {}
  /\ declared \in [Requests -> Declared]
  /\ body = [r \in Requests |-> [read |-> 0, current |-> 0, sawEOF |-> FALSE, taken |-> 0]]
  /\ outflow = [r \in Requests |-> 0]
  /\ connOutflow = FirstWindow
  /\ initial = FirstWindow
  /\ flowWaiters = {}
  /\ allowed = [r \in Requests |-> FirstWindow]
  /\ connAllowed = FirstWindow
  /\ settings = 0 /\ updates = 0

(* muPeer.RLock does not block.                                            *)
CanReadSettings == loop \notin {"wantPeer", "havePeer"}

(* The read loop does not hold condOutflow.L.                              *)
CanLockOutflow == loop # "reset"

(* activeStreams, without those that are done                              *)
Live(r) == writer[r] # "none" /\ r \notin over

SetsWriter(r, state) == writer' = [writer EXCEPT ![r] = state]

-----------------------------------------------------------------------------
(* AssignStreamID, WriteHeaders and the end of a stream.                   *)

(* The stream gets its ID and its place in activeStreams, one at a time:   *)
(* muNewStream is held until the HEADERS are written. The caller waits for *)
(* it with muPeer held for reading, which no reader does here (H2Streams   *)
(* has the deadlock of that wait).                                         *)
Register(r) ==
  /\ writer[r] = "none"
  /\ CanReadSettings
  /\ \A q \in Requests : writer[q] \notin {"registered", "write"}
  /\ SetsWriter(r, "registered")
  /\ UNCHANGED <<over, readers, windowVars, serverVars, bodyVars, loopVars>>

(* It gets its first window, when SETTINGS know it already.                *)
OpenWindow(r) ==
  /\ writer[r] = "registered"
  /\ CanReadSettings
  /\ SetsWriter(r, "write")
  /\ outflow' = [outflow EXCEPT ![r] = Refunded(@, initial)]
  /\ UNCHANGED <<over, readers, connOutflow, initial, flowWaiters, serverVars, bodyVars,
                 loopVars>>

WriteHeaders(r, ok) ==
  /\ writer[r] = "write"
  /\ CanReadSettings
  /\ SetsWriter(r, IF ok THEN "body" ELSE "failed")
  /\ UNCHANGED <<over, readers, windowVars, serverVars, bodyVars, loopVars>>

(* The caller or the read loop closes the stream, for whatever reason, a   *)
(* GOAWAY before its HEADERS too: it is done and ReleaseStreamID deletes   *)
(* it. Its writer does not look.                                           *)
CloseWithError(r) ==
  /\ Live(r)
  /\ over' = over \cup {r}
  /\ UNCHANGED <<writer, readers, windowVars, serverVars, bodyVars, loopVars>>

-----------------------------------------------------------------------------
(* WriteRequestBody.                                                       *)

BufSz(r) == IF declared[r] = -1 \/ MaxFrame < declared[r] THEN MaxFrame ELSE declared[r]
ReadThreshold(r) ==
  Unsigned(IF BufSz(r) - Reserve < Low THEN BufSz(r) - Reserve ELSE Low)

BodyStep == UNCHANGED <<over, loopVars, declared, initial>>

(* Faulty: the settings are let go at once.                                *)
StartBodyUnlocked(r) ==
  /\ writer[r] = "body"
  /\ CanReadSettings
  /\ SetsWriter(r, "fill") /\ UNCHANGED readers
  /\ BodyStep /\ UNCHANGED <<body, outflow, connOutflow, flowWaiters, serverVars>>

(* muPeer.RLock, kept until WriteRequestBody returns.                      *)
StartBody(r) ==
  /\ writer[r] = "body"
  /\ CanReadSettings
  /\ SetsWriter(r, "fill") /\ readers' = readers \cup {r}
  /\ BodyStep /\ UNCHANGED <<body, outflow, connOutflow, flowWaiters, serverVars>>

(* The writer finds the error of a caller that has given up: the race on   *)
(* err again.                                                              *)
FindsError(r) ==
  /\ writer[r] = "body"
  /\ SetsWriter(r, "failed") /\ UNCHANGED readers
  /\ BodyStep /\ UNCHANGED <<body, outflow, connOutflow, flowWaiters, serverVars>>

Returns(r, state) == SetsWriter(r, state) /\ readers' = readers \ {r}

(* The context is over.                                                    *)
Cancelled(r) ==
  /\ writer[r] = "fill"
  /\ Returns(r, "broken")
  /\ BodyStep /\ UNCHANGED <<body, outflow, connOutflow, flowWaiters, serverVars>>

(* The reader gives l bytes, with or without the end of file. An error of  *)
(* the reader is nothing read: the loop goes on.                           *)
Fill(r, l, eof) ==
  /\ writer[r] = "fill"
  /\ IF ~body[r].sawEOF /\ body[r].current < ReadThreshold(r)
     THEN /\ l <= BufSz(r) - body[r].current /\ body[r].read + l <= MaxBody
          /\ body' = [body EXCEPT ![r].read = @ + l, ![r].current = @ + l, ![r].sawEOF = eof]
     ELSE l = 0 /\ ~eof /\ UNCHANGED body
  /\ SetsWriter(r, "take") /\ UNCHANGED readers
  /\ BodyStep /\ UNCHANGED <<outflow, connOutflow, flowWaiters, serverVars>>

(* takeOutflow: parks while either window is empty.                        *)
Park(r) ==
  /\ writer[r] = "take" /\ r \notin flowWaiters /\ CanLockOutflow
  /\ ~Available(outflow[r]) \/ ~Available(connOutflow)
  /\ flowWaiters' = flowWaiters \cup {r}
  /\ BodyStep /\ UNCHANGED <<writer, readers, body, outflow, connOutflow, serverVars>>

Takes(r, stream, conn, taken) ==
  /\ outflow' = [outflow EXCEPT ![r] = stream]
  /\ connOutflow' = conn
  /\ body' = [body EXCEPT ![r].taken = taken]
  /\ SetsWriter(r, "data")
  /\ BodyStep /\ UNCHANGED <<readers, flowWaiters, serverVars>>

(* Faulty: waits for the window of the connection only.                    *)
TakeUnseen(r) ==
  /\ writer[r] = "take" /\ r \notin flowWaiters /\ CanLockOutflow
  /\ Available(connOutflow)
  /\ LET take1 == Paid(outflow[r], body[r].current)
         take2 == Paid(connOutflow, take1) IN
     Takes(r, Refunded(AfterPay(outflow[r], take1), take1 - take2),
           AfterPay(connOutflow, take2), take2)

(* Faulty: sends what the stream could pay.                                *)
TakeOnlyStream(r) ==
  /\ writer[r] = "take" /\ r \notin flowWaiters /\ CanLockOutflow
  /\ Available(outflow[r]) /\ Available(connOutflow)
  /\ LET take1 == Paid(outflow[r], body[r].current) IN
     Takes(r, AfterPay(outflow[r], take1), AfterPay(connOutflow, take1), take1)

(* Faulty: what the connection could not pay stays taken from the stream.  *)
TakeKeeps(r) ==
  /\ writer[r] = "take" /\ r \notin flowWaiters /\ CanLockOutflow
  /\ Available(outflow[r]) /\ Available(connOutflow)
  /\ LET take1 == Paid(outflow[r], body[r].current)
         take2 == Paid(connOutflow, take1) IN
     Takes(r, AfterPay(outflow[r], take1), AfterPay(connOutflow, take2), take2)

(* Both pay; what the connection cannot pay goes back to the stream.       *)
Take(r) ==
  /\ writer[r] = "take" /\ r \notin flowWaiters /\ CanLockOutflow
  /\ Available(outflow[r]) /\ Available(connOutflow)
  /\ LET take1 == Paid(outflow[r], body[r].current)
         take2 == Paid(connOutflow, take1) IN
     Takes(r, Refunded(AfterPay(outflow[r], take1), take1 - take2),
           AfterPay(connOutflow, take2), take2)

(* Faulty: ends with the reader, whatever is left in the chunk.            *)
EndsWithReader(r) == body[r].sawEOF

(* endStream                                                               *)
Ends(r) == body[r].sawEOF /\ body[r].taken = body[r].current

TooLong(r) == declared[r] # -1 /\ body[r].read > declared[r]
TooShort(r) == declared[r] # -1 /\ body[r].read < declared[r]

(* The DATA frame, if there is one to write, and the tests after it.       *)
WriteData(r) ==
  /\ writer[r] = "data"
  /\ allowed' = [allowed EXCEPT ![r] = @ - body[r].taken]
  /\ connAllowed' = connAllowed - body[r].taken
  /\ body' = [body EXCEPT ![r].current = @ - body[r].taken, ![r].taken = 0]
  /\ IF TooLong(r) \/ (Ends(r) /\ TooShort(r)) THEN Returns(r, "broken")
     ELSE IF Ends(r) THEN Returns(r, "done")
     ELSE SetsWriter(r, "fill") /\ UNCHANGED readers
  /\ BodyStep /\ UNCHANGED <<outflow, connOutflow, flowWaiters>>

(* The frame cannot be written.                                            *)
WriteDataFails(r) ==
  /\ writer[r] = "data"
  /\ body[r].taken > 0 \/ Ends(r)
  /\ Returns(r, "broken")
  /\ BodyStep /\ UNCHANGED <<body, outflow, connOutflow, flowWaiters, serverVars>>

Uploading(r) ==
  \/ StartBody(r) \/ FindsError(r) \/ Cancelled(r)
  \/ \E l \in 0..MaxBody, eof \in BOOLEAN : Fill(r, l, eof)
  \/ Park(r) \/ Take(r) \/ WriteData(r) \/ WriteDataFails(r)

-----------------------------------------------------------------------------
(* The read loop.                                                          *)

(* SETTINGS with an INITIAL_WINDOW_SIZE: muPeer.Lock.                      *)
OnSettings ==
  /\ loop = "read" /\ settings < MaxSettings
  /\ settings' = settings + 1
  /\ loop' = "wantPeer"
  /\ UNCHANGED <<streamVars, windowVars, serverVars, bodyVars, cur, updates>>

LockPeer ==
  /\ loop = "wantPeer" /\ readers = {}
  /\ loop' = "havePeer"
  /\ UNCHANGED <<streamVars, windowVars, serverVars, bodyVars, cur, settings, updates>>

(* The callback, under condOutflow.L and muActive, Broadcast, then the ACK *)
(* and muPeer.Unlock. A window that would overflow is left as it is.       *)
UpdateSettings(window) ==
  /\ loop = "havePeer" /\ loop' = "read"
  /\ initial' = window
  /\ outflow' = [r \in Requests |->
                   IF Live(r) THEN Refunded(outflow[r], Delta(initial, window)) ELSE outflow[r]]
  /\ allowed' = [r \in Requests |-> allowed[r] + window - initial]
  /\ flowWaiters' = {}
  /\ UNCHANGED <<streamVars, connOutflow, connAllowed, bodyVars, cur, settings, updates>>

(* condOutflow.Broadcast                                                   *)
Wakes == flowWaiters' = {}

GetsUpdate ==
  /\ loop = "read" /\ updates < MaxUpdates
  /\ updates' = updates + 1
  /\ UNCHANGED <<streamVars, bodyVars, initial, settings>>

(* Faulty: wakes nobody.                                                   *)
OnConnUpdateQuiet(inc) ==
  /\ GetsUpdate
  /\ CanRefund(connOutflow, inc)
  /\ connOutflow' = Refunded(connOutflow, inc)
  /\ connAllowed' = connAllowed + inc
  /\ UNCHANGED <<loop, cur, outflow, allowed, flowWaiters>>

OnConnUpdate(inc) ==
  /\ GetsUpdate
  /\ CanRefund(connOutflow, inc)
  /\ connOutflow' = Refunded(connOutflow, inc)
  /\ connAllowed' = connAllowed + inc
  /\ Wakes
  /\ UNCHANGED <<loop, cur, outflow, allowed>>

(* withStream: a stream that is not valid any more gets an RST_STREAM. One *)
(* whose window would overflow is to be reset.                             *)
OnStreamUpdate(r, inc) ==
  /\ writer[r] \notin {"none", "registered", "write"}
  /\ GetsUpdate
  /\ IF ~Live(r) THEN Wakes /\ UNCHANGED <<loop, cur, outflow, allowed>>
     ELSE IF CanRefund(outflow[r], inc)
     THEN /\ allowed' = [allowed EXCEPT ![r] = @ + inc]
          /\ outflow' = [outflow EXCEPT ![r] = Refunded(@, inc)]
          /\ Wakes /\ UNCHANGED <<loop, cur>>
     ELSE /\ loop' = "reset" /\ cur' = {r}
          /\ UNCHANGED <<outflow, allowed, flowWaiters>>
  /\ UNCHANGED <<connOutflow, connAllowed>>

(* Reset of that stream, Broadcast, and Unlock.                            *)
LoopResets ==
  /\ loop = "reset" /\ loop' = "read"
  /\ over' = over \cup cur /\ cur' = {}
  /\ Wakes
  /\ UNCHANGED <<writer, readers, outflow, connOutflow, initial, serverVars, bodyVars,
                 settings, updates>>

-----------------------------------------------------------------------------
Next ==
  \/ \E r \in Requests :
       \/ Register(r) \/ OpenWindow(r) \/ CloseWithError(r) \/ Uploading(r)
       \/ \E ok \in BOOLEAN : WriteHeaders(r, ok)
  \/ OnSettings \/ LockPeer \/ LoopResets
  \/ \E window \in Windows : UpdateSettings(window)
  \/ \E inc \in Increments : OnConnUpdate(inc) \/ \E r \in Requests : OnStreamUpdate(r, inc)

Spec == Init /\ [][Next]_vars

-----------------------------------------------------------------------------
(* Every variable holds values of its kind; a body fits its buffer.        *)
TypeOK ==
  /\ writer \in [Requests -> Writers]
  /\ {over, readers, cur} \subseteq SUBSET Requests
  /\ loop \in {"read", "wantPeer", "havePeer", "reset"}
  /\ declared \in [Requests -> Declared]
  /\ body \in [Requests -> [read : 0..MaxBody, current : Nat, sawEOF : BOOLEAN, taken : Nat]]
  /\ \A r \in Requests :
       body[r].taken <= body[r].current /\ body[r].current <= BufSz(r)
  /\ outflow \in [Requests -> Int32] /\ connOutflow \in Int32
  /\ initial \in Windows \cup {FirstWindow}
  /\ flowWaiters \subseteq {r \in Requests : writer[r] = "take"}
  /\ allowed \in [Requests -> Int] /\ connAllowed \in Int
  /\ settings \in 0..MaxSettings /\ updates \in 0..MaxUpdates

Sent(r) == body[r].read - body[r].current

(* What the server counts for a stream beyond what we do.                  *)
Drift(r) == allowed[r] - outflow[r] - body[r].taken

(* Bytes go out only into windows that have room for them as the server    *)
(* counts it, whatever SETTINGS and WINDOW_UPDATE have done to them, on    *)
(* the connection and on every stream that is not over (flow.go: a sender  *)
(* must not send until the window is positive).                            *)
SendsWithin(r) == connAllowed' >= 0 /\ (Live(r) => allowed'[r] >= 0)
DataWithinWindow == [][\A r \in Requests : Sent(r)' > Sent(r) => SendsWithin(r)]_vars

(* The same, but of streams whose first window is not more than the server *)
(* counts.                                                                 *)
CountedWithinWindow ==
  [][\A r \in Requests : Sent(r)' > Sent(r) /\ Drift(r) >= 0 => SendsWithin(r)]_vars

(* The tokens that writers have taken and not sent.                        *)
Taken == [r \in Requests |-> body[r].taken]

(* The connection's window is the one the server counts, less the tokens   *)
(* writers have taken and not sent: none is lost or made up by writers that*)
(* share it, cancel or break; those of a frame that cannot be written stay *)
(* taken, as its stream ends.                                              *)
ConnWindowExact == connOutflow = connAllowed - SumFunction(Taken)

(* Once a stream has its first window, no step makes the window differ from*)
(* the server's count by more or by less than it did, as long as the server*)
(* lets no window overflow. (SETTINGS that come between the stream's       *)
(* registration and its first window do.)                                  *)
StreamWindowKept ==
  [][\A r \in Requests :
       /\ Live(r) /\ Live(r)' /\ writer[r] # "registered"
       /\ outflow[r] + initial' - initial < Half
       => Drift(r)' = Drift(r)]_vars

(* No wake-up of condOutflow is lost: a writer is parked only while one of *)
(* its two windows is empty.                                               *)
ParkedIsDry ==
  \A r \in flowWaiters : ~Available(outflow[r]) \/ ~Available(connOutflow)

(* A body that WriteRequest calls written was read to its end and has gone *)
(* out whole, and is as long as the request said.                          *)
EndsComplete ==
  \A r \in Requests : writer[r] = "done" =>
    body[r].sawEOF /\ body[r].current = 0 /\ ~TooLong(r) /\ ~TooShort(r)

(* No HEADERS and no DATA of a stream go out while a SETTINGS frame is     *)
(* applied, before its ACK (conn.go: "prevent frame writes until after ack *)
(* is written"). An RST_STREAM takes no muPeer and may.                    *)
AckFirst ==
  [][loop = "havePeer" => \A r \in Requests :
       Sent(r)' = Sent(r) /\ (writer[r] = "write" => writer'[r] # "body")]_vars
=============================================================================
