---------------------------- MODULE H2Connection ----------------------------
(***************************************************************************)
(* One HTTP/2 connection as its read loop sees it (internal/transport/h2c/ *)
(* controller/controller.go, pinger.go, and the DATA handler of            *)
(* internal/transport/h2c/conn.go): the handshake, how the connection ends *)
(* (doneOnce), pings, and response bodies, which go through one io.Pipe per*)
(* stream to their readers under the flow control of the connection.       *)
(*                                                                         *)
(* The goroutines are the read loop (Handshake, then consumer), one caller *)
(* per ping, one reader per response. The server sends its frames in order;*)
(* WINDOW_UPDATE frames go to it in another direction, so that only their  *)
(* sum matters. It keeps to its window unless it overdraws. HEADERS, resets*)
(* from it and its stream windows are left out (H2Streams); a GOAWAY from  *)
(* it leaves the streams alone.                                            *)
(***************************************************************************)
EXTENDS H2Flow, Sequences, FiniteSets, Functions

CONSTANTS Streams,       \* response streams
          Pings,         \* calls of Ping
          SelfWindow,    \* our INITIAL_WINDOW_SIZE, which inflow starts with
          PeerWindow,    \* the window the protocol gives the server at first
          Lengths, Pads, \* bytes and padding of a DATA frame
          MaxBytes,      \* bound: bytes of a response
          MaxFlight      \* bound: frames of the server on their way

ASSUME ConnectionAssumption ==
  /\ IsFiniteSet(Streams) /\ IsFiniteSet(Pings)
  /\ SelfWindow \in 0..(Half - 1) /\ PeerWindow \in 0..SelfWindow
  /\ Lengths \cup Pads \subseteq Nat /\ {MaxBytes, MaxFlight} \subseteq Nat
  /\ \A n \in Lengths, pad \in Pads : n + pad <= Half

VARIABLES loop,       \* where the read loop stands
          cur,        \* the frame it works for
          reason,     \* doneReason
          done,       \* the channel done is closed
          closing,    \* controller.closing, and the connection is closed
          wire,       \* frames of the server on their way
          inflow,     \* Connection.inflow
          peerWindow, \* what the server may send, as it counts
          updates,    \* increments on their way to the server
          overdrawn,  \* the server has sent more than it may
          sent,       \* bytes the server has sent on each stream
          ended,      \* streams the server has ended
          over,       \* streams that are done
          pipe,       \* bytes of the Write that blocks, and how each end is closed
          got,        \* what each reader has seen
          ping,       \* where each Ping stands
          pingFut     \* the pings in the table

onceVars == <<reason, done, closing>>
serverVars == <<wire, peerWindow, overdrawn, sent, ended>>
pipeVars == <<over, pipe, got>>
pingVars == <<ping, pingFut>>
vars == <<loop, cur, onceVars, serverVars, inflow, updates, pipeVars, pingVars>>

Frame(kind) == [kind |-> kind]
Data(s, n, pad, end) == [kind |-> "DATA", stream |-> s, n |-> n, pad |-> pad, end |-> end]

Init ==
  /\ loop = "handshake" /\ cur = Frame("none")
  /\ reason = "nil" /\ done = FALSE /\ closing = FALSE
  /\ wire = <<>>
  /\ inflow = [remaining |-> SelfWindow, queued |-> 0]
  /\ peerWindow = PeerWindow /\ updates = 0 /\ overdrawn = FALSE
  /\ sent = [s \in Streams |-> 0] /\ ended = {}
  /\ over = {}
  /\ pipe = [s \in Streams |-> [held |-> 0, writer |-> "open", reader |-> "open"]]
  /\ got = [s \in Streams |-> [n |-> 0, eof |-> FALSE]]
  /\ ping = [p \in Pings |-> "idle"] /\ pingFut = {}

-----------------------------------------------------------------------------
(* The server. Its frames arrive in order; a closed connection takes none. *)

Puts(frame) == Len(wire) < MaxFlight /\ wire' = Append(wire, frame)

ServerData(s, n, pad, end) ==
  /\ loop # "handshake" /\ s \notin ended
  /\ sent[s] + n <= MaxBytes
  /\ Puts(Data(s, n, pad, end))
  /\ n + pad <= peerWindow \/ ~overdrawn
  /\ overdrawn' = (overdrawn \/ n + pad > peerWindow)
  /\ peerWindow' = peerWindow - (n + pad)
  /\ sent' = [sent EXCEPT ![s] = @ + n]
  /\ ended' = IF end THEN ended \cup {s} ELSE ended
  /\ UNCHANGED <<loop, cur, onceVars, inflow, updates, pipeVars, pingVars>>

(* A GOAWAY; a frame we refuse, which is SETTINGS that do not parse or a    *)
(* WINDOW_UPDATE that overflows the connection's window, with the same     *)
(* GOAWAY of ours for either; or the end of the connection.                *)
ServerEnds(kind) ==
  /\ loop # "handshake"
  /\ \A i \in DOMAIN wire : wire[i].kind \notin {"GOAWAY", "REFUSED", "CLOSE"}
  /\ Puts(Frame(kind))
  /\ UNCHANGED <<loop, cur, onceVars, inflow, peerWindow, updates, overdrawn, sent, ended,
                 pipeVars, pingVars>>

(* It acknowledges a ping, perhaps twice, perhaps late.                    *)
ServerAcks(p) ==
  /\ loop # "handshake" /\ ping[p] \notin {"idle", "write"}
  /\ Puts([kind |-> "PING_ACK", ping |-> p])
  /\ UNCHANGED <<loop, cur, onceVars, inflow, peerWindow, updates, overdrawn, sent, ended,
                 pipeVars, pingVars>>

ServerGetsUpdates ==
  /\ updates > 0
  /\ peerWindow' = peerWindow + updates /\ updates' = 0
  /\ UNCHANGED <<loop, cur, onceVars, wire, inflow, overdrawn, sent, ended, pipeVars, pingVars>>

-----------------------------------------------------------------------------
(* The read loop: the end of the connection.                               *)

LoopGoes(state, frame) == loop' = state /\ cur' = frame

(* Handshake: the preface or our SETTINGS cannot be written. It returns the*)
(* error, done stays open and the consumer does not start.                 *)
PrefaceFails ==
  /\ loop = "handshake"
  /\ LoopGoes("ended", Frame("none"))
  /\ UNCHANGED <<onceVars, serverVars, inflow, updates, pipeVars, pingVars>>

(* The first frame of the server, or none. SETTINGS we refuse are no error:*)
(* the consumer starts, and stops.                                         *)
Handshake(kind) ==
  /\ loop = "handshake"
  /\ LoopGoes(IF kind = "SETTINGS" THEN "read" ELSE "once", Frame(kind))
  /\ UNCHANGED <<onceVars, serverVars, inflow, updates, pipeVars, pingVars>>

(* Why the frames that end the connection do, and what follows.            *)
Why == [DATA |-> "flow", REFUSED |-> "local", NOT_SETTINGS |-> "local", GOAWAY |-> "remote",
        CLOSE |-> "read"]
Then == [DATA |-> "deliver", REFUSED |-> "read", NOT_SETTINGS |-> "ended", GOAWAY |-> "read",
         CLOSE |-> "ended"]

(* Faulty: closes done first.                                              *)
CloseFirst ==
  /\ loop = "once"
  /\ LoopGoes(IF done THEN Then[cur.kind] ELSE "closeDone", cur)
  /\ done' = TRUE
  /\ UNCHANGED <<reason, closing, serverVars, inflow, updates, pipeVars, pingVars>>

(* doneOnce: doneReason, unless there is one.                              *)
SetReason ==
  /\ loop = "once"
  /\ LoopGoes(IF done THEN Then[cur.kind] ELSE "closeDone", cur)
  /\ reason' = IF done THEN reason ELSE Why[cur.kind]
  /\ UNCHANGED <<done, closing, serverVars, inflow, updates, pipeVars, pingVars>>

(* Then close(done); and a GOAWAY of our own, and the end of the connection*)
(* if it is we who end it.                                                 *)
CloseDone ==
  /\ loop = "closeDone"
  /\ LoopGoes(Then[cur.kind], cur)
  /\ done' = TRUE
  /\ closing' = (closing \/ reason \in {"flow", "local"})
  /\ UNCHANGED <<reason, serverVars, inflow, updates, pipeVars, pingVars>>

(* consumer: stops when it is told to, or at a read error.                 *)
Stops ==
  /\ loop = "read"
  /\ closing \/ (wire # <<>> /\ Head(wire).kind = "CLOSE")
  /\ LoopGoes("ended", Frame("none"))
  /\ UNCHANGED <<onceVars, serverVars, inflow, updates, pipeVars, pingVars>>

Reads(kind) ==
  /\ loop = "read" /\ ~closing
  /\ wire # <<>> /\ Head(wire).kind = kind
  /\ wire' = Tail(wire)
  /\ UNCHANGED <<peerWindow, overdrawn, sent, ended>>

OnEnd(kind) ==
  /\ Reads(kind)
  /\ LoopGoes("once", Head(wire))
  /\ UNCHANGED <<onceVars, inflow, updates, pipeVars, pingVars>>

-----------------------------------------------------------------------------
(* DATA. A frame the window does not cover ends the connection, and is     *)
(* delivered all the same.                                                 *)
OnData ==
  /\ Reads("DATA")
  /\ LET size == Head(wire).n + Head(wire).pad IN
     /\ inflow' = AfterCheckAndPay(inflow, size)
     /\ LoopGoes(IF CanPay(inflow, size) THEN "deliver" ELSE "once", Head(wire))
  /\ UNCHANGED <<onceVars, updates, pipeVars, pingVars>>

(* The end of the stream: its pipe, then the stream.                       *)
Ends(s, end, held) ==
  /\ over' = IF end THEN over \cup {s} ELSE over
  /\ pipe' = [pipe EXCEPT ![s].held = held,
                          ![s].writer = IF end /\ @ = "open" THEN "eof" ELSE @]
  /\ UNCHANGED got

(* The padding is refunded; what its refund announces is not sent. Then    *)
(* withStream: a stream that is over is answered with RST_STREAM; else     *)
(* Write, if there is something to write.                                  *)
Deliver ==
  /\ loop = "deliver"
  /\ inflow' = IF cur.pad > 0 THEN AfterRefund(inflow, cur.pad) ELSE inflow
  /\ LET s == cur.stream IN
     IF s \in over THEN LoopGoes("read", Frame("none")) /\ UNCHANGED pipeVars
     ELSE IF cur.n = 0 THEN LoopGoes("read", Frame("none")) /\ Ends(s, cur.end, 0)
     ELSE LoopGoes("write", cur) /\ Ends(s, FALSE, cur.n)
  /\ UNCHANGED <<onceVars, serverVars, updates, pingVars>>

RefundsAndTells(n) ==
  /\ inflow' = AfterRefund(inflow, n)
  /\ updates' = updates + Increment(inflow, n)
  /\ LoopGoes("read", Frame("none"))
  /\ UNCHANGED <<onceVars, serverVars, pingVars>>

(* Faulty: the last frame of a stream is not refunded.                     *)
WriteReturnsLast ==
  /\ loop = "write" /\ pipe[cur.stream].held = 0
  /\ RefundsAndTells(IF cur.end THEN 0 ELSE cur.n)
  /\ Ends(cur.stream, cur.end, 0)

(* Write returns when everything is read.                                  *)
WriteReturns ==
  /\ loop = "write" /\ pipe[cur.stream].held = 0
  /\ RefundsAndTells(cur.n)
  /\ Ends(cur.stream, cur.end, 0)

(* Or when an end is closed: what was not read is refunded, and the stream *)
(* reset.                                                                  *)
WriteFails ==
  /\ loop = "write"
  /\ LET s == cur.stream
         p == pipe[s] IN
     /\ p.held > 0 /\ (p.reader = "closed" \/ p.writer = "err")
     /\ RefundsAndTells(p.held)
     /\ over' = over \cup {s}
     /\ pipe' = [pipe EXCEPT ![s].held = 0, ![s].writer = IF @ = "open" THEN "err" ELSE @]
     /\ UNCHANGED got

-----------------------------------------------------------------------------
(* The user: reads a body in pieces, closes its reader, ends its context.  *)

Piped == UNCHANGED <<loop, cur, onceVars, serverVars, inflow, updates, pingVars>>

ReadBody(s, l) ==
  /\ pipe[s].reader = "open" /\ pipe[s].writer = "open" /\ l <= pipe[s].held
  /\ pipe' = [pipe EXCEPT ![s].held = @ - l]
  /\ got' = [got EXCEPT ![s].n = @ + l]
  /\ Piped /\ UNCHANGED over

ReadEOF(s) ==
  /\ pipe[s].reader = "open" /\ pipe[s].writer = "eof"
  /\ got' = [got EXCEPT ![s].eof = TRUE]
  /\ Piped /\ UNCHANGED <<over, pipe>>

CloseReader(s) ==
  /\ pipe[s].reader = "open"
  /\ pipe' = [pipe EXCEPT ![s].reader = "closed"]
  /\ Piped /\ UNCHANGED <<over, got>>

(* Faulty: closes the pipe without an error.                               *)
ResetClean(s) ==
  /\ s \notin over
  /\ over' = over \cup {s}
  /\ pipe' = [pipe EXCEPT ![s].writer = IF @ = "open" THEN "eof" ELSE @]
  /\ Piped /\ UNCHANGED got

(* Stream.Reset, by a caller whose context is over: the pipe gets an error *)
(* unless it is closed.                                                    *)
Reset(s) ==
  /\ s \notin over
  /\ over' = over \cup {s}
  /\ pipe' = [pipe EXCEPT ![s].writer = IF @ = "open" THEN "err" ELSE @]
  /\ Piped /\ UNCHANGED got

-----------------------------------------------------------------------------
(* Ping, and the handler of its acknowledgement, which holds muPing for    *)
(* reading while it sends to the caller.                                   *)

CanLockPing == loop # "ack"

PingGoes(p, from, to) ==
  /\ ping[p] = from /\ ping' = [ping EXCEPT ![p] = to]
  /\ UNCHANGED <<onceVars, inflow, updates, pipeVars>>

PingStarts(p) ==
  /\ PingGoes(p, "idle", "write") /\ CanLockPing
  /\ pingFut' = pingFut \cup {p}
  /\ UNCHANGED <<loop, cur, serverVars>>

WritePing(p, ok) ==
  /\ PingGoes(p, "write", IF ok THEN "wait" ELSE "delete")
  /\ UNCHANGED <<loop, cur, serverVars, pingFut>>

TimesOut(p) ==
  /\ PingGoes(p, "wait", "delete")
  /\ UNCHANGED <<loop, cur, serverVars, pingFut>>

OnPingAck ==
  /\ Reads("PING_ACK")
  /\ IF Head(wire).ping \in pingFut THEN LoopGoes("ack", Head(wire)) ELSE UNCHANGED <<loop, cur>>
  /\ UNCHANGED <<onceVars, inflow, updates, pipeVars, pingVars>>

(* v <- nil meets the receive of the caller, if that still waits.          *)
PingReturns(p) ==
  /\ loop = "ack" /\ cur.ping = p
  /\ PingGoes(p, "wait", "delete")
  /\ LoopGoes("read", Frame("none"))
  /\ UNCHANGED <<serverVars, pingFut>>

(* Faulty: without muPing.                                                 *)
DeleteUnlocked(p) ==
  /\ PingGoes(p, "delete", "close")
  /\ pingFut' = pingFut \ {p}
  /\ UNCHANGED <<loop, cur, serverVars>>

(* The deferred function: delete under muPing, then close(res).            *)
Delete(p) ==
  /\ PingGoes(p, "delete", "close") /\ CanLockPing
  /\ pingFut' = pingFut \ {p}
  /\ UNCHANGED <<loop, cur, serverVars>>

Close(p) ==
  /\ PingGoes(p, "close", "out")
  /\ UNCHANGED <<loop, cur, serverVars, pingFut>>

-----------------------------------------------------------------------------
FromServer ==
  \/ \E s \in Streams, n \in Lengths, pad \in Pads, end \in BOOLEAN : ServerData(s, n, pad, end)
  \/ \E kind \in {"GOAWAY", "REFUSED", "CLOSE"} : ServerEnds(kind)
  \/ \E p \in Pings : ServerAcks(p)
  \/ ServerGetsUpdates
LoopStep ==
  \/ \E kind \in {"SETTINGS", "REFUSED", "NOT_SETTINGS", "CLOSE"} : Handshake(kind)
  \/ PrefaceFails \/ SetReason \/ CloseDone \/ Stops
  \/ \E kind \in {"GOAWAY", "REFUSED"} : OnEnd(kind)
  \/ OnData \/ Deliver \/ WriteReturns \/ WriteFails \/ OnPingAck
Using(s) == (\E l \in 1..MaxBytes : ReadBody(s, l)) \/ ReadEOF(s) \/ CloseReader(s) \/ Reset(s)
Pinging(p) ==
  \/ PingStarts(p) \/ TimesOut(p) \/ PingReturns(p) \/ Delete(p) \/ Close(p)
  \/ \E ok \in BOOLEAN : WritePing(p, ok)

Next == FromServer \/ LoopStep \/ (\E s \in Streams : Using(s)) \/ (\E p \in Pings : Pinging(p))

Spec == Init /\ [][Next]_vars

-----------------------------------------------------------------------------
(* Every variable holds values of its kind, and windows are uint32.        *)
TypeOK ==
  /\ loop \in {"handshake", "once", "closeDone", "read", "ended", "deliver", "write", "ack"}
  /\ reason \in {"nil", "flow", "local", "remote", "read"}
  /\ {done, closing, overdrawn} \subseteq BOOLEAN
  /\ inflow \in [remaining : Uint, queued : 0..(InflowMinRefresh - 1)]
  /\ peerWindow \in Int /\ updates \in Nat
  /\ sent \in [Streams -> 0..MaxBytes] /\ {ended, over} \subseteq SUBSET Streams
  /\ pipe \in [Streams -> [held : 0..MaxBytes, writer : {"open", "eof", "err"},
                           reader : {"open", "closed"}]]
  /\ got \in [Streams -> [n : 0..MaxBytes, eof : BOOLEAN]]
  /\ ping \in [Pings -> {"idle", "write", "wait", "delete", "close", "out"}]
  /\ pingFut \subseteq Pings /\ Len(wire) <= MaxFlight

(* Whoever finds done closed finds a reason (errors.go: closed without     *)
(* reason is unexpected).                                                  *)
ReasonKnown == done => reason # "nil"

(* No ping's channel is sent to once it is closed: an acknowledgement that *)
(* comes as the ping times out holds its entry in the table (pinger.go:    *)
(* "or write after close may happen").                                     *)
NoWriteAfterClose == loop = "ack" => ping[cur.ping] # "out"

Size(frame) == IF frame.kind = "DATA" THEN frame.n + frame.pad ELSE 0
OnWire == SumFunction([i \in DOMAIN wire |-> Size(wire[i])])

(* A server that keeps to its window is never accused of overdrawing it:   *)
(* inflow covers all it may send, knows it may, or has sent.               *)
NoFalseAccusation ==
  ~overdrawn => reason # "flow" /\ peerWindow + OnWire + updates <= inflow.remaining

InProcess ==
  CASE loop = "write" -> cur.n
    [] loop \in {"once", "closeDone", "deliver"} -> Size(cur)
    [] OTHER -> 0

(* The tokens of the connection's window, wherever they are.               *)
Tokens == peerWindow + OnWire + InProcess + inflow.queued + updates

(* Tokens are never made up, and lost only where the code drops them: with *)
(* the padding whose refund reaches the threshold, with a frame for a      *)
(* stream that is over, with the part a reader has read of a frame whose   *)
(* rest fails.                                                             *)
TokensKept ==
  [][/\ Tokens' <= Tokens
     /\ Tokens' < Tokens =>
          \/ loop = "deliver" /\ (cur.stream \in over \/ Increment(inflow, cur.pad) > 0)
          \/ loop = "write" /\ pipe[cur.stream].held \in 1..(cur.n - 1)]_vars

(* A reader that sees the end of its body has got all of it, as the server *)
(* ended it: no reset, cancelled context or closed connection looks like   *)
(* the end.                                                                *)
NoFalseEOF == \A s \in Streams : got[s].eof => s \in ended /\ got[s].n = sent[s]
=============================================================================
