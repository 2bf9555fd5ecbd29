------------------------- MODULE H2ConnectionProofs -------------------------
(***************************************************************************)
(* What H2Connection says of doneReason, of pings, of response bodies and  *)
(* of the window of the connection, for any streams, pings, windows and    *)
(* bounds.                                                                 *)
(***************************************************************************)
EXTENDS H2Connection, H2FlowProofs

(* The reason is there before done is closed: it is set in the step before,*)
(* for every frame that gets there, unless it was set for an earlier one.  *)
ReasonInv ==
  /\ ReasonKnown
  /\ loop = "closeDone" => reason # "nil"
  /\ loop \in {"once", "closeDone"} => cur.kind \in DOMAIN Why

LEMMA ReasonStep == ReasonInv /\ [Next]_vars => ReasonInv'
<1> SUFFICES ASSUME ReasonInv, [Next]_vars PROVE ReasonInv'
  OBVIOUS
<1> USE DEF ReasonInv, ReasonKnown, LoopGoes
<1>1. ASSUME NEW kind \in {"SETTINGS", "REFUSED", "NOT_SETTINGS", "CLOSE"}, Handshake(kind)
      PROVE  ReasonInv'
  BY <1>1 DEF Handshake, Frame, Why, onceVars
<1>2. CASE SetReason
  <2>1. cur.kind \in DOMAIN Why /\ cur' = cur /\ done' = done
    BY <1>2 DEF SetReason
  <2>2. Why[cur.kind] # "nil" /\ Then[cur.kind] \in {"deliver", "read", "ended"}
    BY <2>1 DEF Why, Then
  <2> QED BY <1>2, <2>1, <2>2 DEF SetReason
<1>3. CASE CloseDone
  <2>1. Then[cur.kind] \in {"deliver", "read", "ended"}
    BY <1>3 DEF CloseDone, Why, Then
  <2> QED BY <1>3, <2>1 DEF CloseDone
<1>4. CASE Stops \/ PrefaceFails
  BY <1>4 DEF Stops, PrefaceFails, onceVars
<1>5. ASSUME NEW kind \in {"GOAWAY", "REFUSED"}, OnEnd(kind) PROVE ReasonInv'
  BY <1>5 DEF OnEnd, Reads, Why, onceVars
<1>6. CASE OnData
  BY <1>6 DEF OnData, Reads, Why, onceVars
<1>7. CASE Deliver
  BY <1>7 DEF Deliver, onceVars
<1>8. CASE WriteReturns \/ WriteFails
  <2>1. loop' = "read" /\ UNCHANGED onceVars
    BY <1>8 DEF WriteReturns, WriteFails, RefundsAndTells
  <2> QED BY <2>1 DEF onceVars
<1>9. CASE OnPingAck
  BY <1>9 DEF OnPingAck, Reads, onceVars
<1>10. CASE FromServer
  <2>1. UNCHANGED <<loop, cur, onceVars>>
    BY <1>10 DEF FromServer, ServerData, ServerEnds, ServerAcks, ServerGetsUpdates
  <2> QED BY <2>1 DEF onceVars
<1>11. ASSUME NEW s \in Streams, Using(s) PROVE ReasonInv'
  BY <1>11 DEF Using, ReadBody, ReadEOF, CloseReader, Reset, Piped, onceVars
<1>12. ASSUME NEW p \in Pings, Pinging(p) PROVE ReasonInv'
  <2>1. UNCHANGED onceVars
    BY <1>12 DEF Pinging, PingStarts, TimesOut, PingReturns, Delete, Close, WritePing, PingGoes
  <2>2. UNCHANGED <<loop, cur>> \/ loop' = "read"
    BY <1>12 DEF Pinging, PingStarts, TimesOut, PingReturns, Delete, Close, WritePing
  <2> QED BY <2>1, <2>2 DEF onceVars
<1>13. CASE UNCHANGED vars
  BY <1>13 DEF vars, onceVars
<1> QED BY <1>1, <1>2, <1>3, <1>4, <1>5, <1>6, <1>7, <1>8, <1>9, <1>10, <1>11, <1>12, <1>13
        DEF Next, LoopStep

(* An entry of the table belongs to a Ping that has not closed its channel,*)
(* and the handler sends to an entry of the table.                         *)
PingInv ==
  /\ ping \in [Pings -> {"idle", "write", "wait", "delete", "close", "out"}]
  /\ \A p \in Pings : p \in pingFut => ping[p] \in {"write", "wait", "delete"}
  /\ pingFut \subseteq Pings
  /\ loop = "ack" => cur.ping \in pingFut

LEMMA PingStep == ReasonInv /\ PingInv /\ [Next]_vars => PingInv'
<1> SUFFICES ASSUME ReasonInv, PingInv, [Next]_vars PROVE PingInv'
  OBVIOUS
<1> USE DEF PingInv, LoopGoes
<1>1. ASSUME NEW p \in Pings, PingStarts(p) PROVE PingInv'
  BY <1>1 DEF PingStarts, PingGoes
<1>2. ASSUME NEW p \in Pings, NEW ok \in BOOLEAN, WritePing(p, ok) PROVE PingInv'
  BY <1>2 DEF WritePing, PingGoes
<1>3. ASSUME NEW p \in Pings, TimesOut(p) PROVE PingInv'
  BY <1>3 DEF TimesOut, PingGoes
<1>4. CASE OnPingAck
  BY <1>4 DEF OnPingAck, Reads, pingVars
<1>5. ASSUME NEW p \in Pings, PingReturns(p) PROVE PingInv'
  BY <1>5 DEF PingReturns, PingGoes
<1>6. ASSUME NEW p \in Pings, Delete(p) PROVE PingInv'
  BY <1>6 DEF Delete, PingGoes, CanLockPing
<1>7. ASSUME NEW p \in Pings, Close(p) PROVE PingInv'
  BY <1>7 DEF Close, PingGoes
<1>8. CASE FromServer
  BY <1>8 DEF FromServer, ServerData, ServerEnds, ServerAcks, ServerGetsUpdates, pingVars
<1>9. ASSUME NEW s \in Streams, Using(s) PROVE PingInv'
  BY <1>9 DEF Using, ReadBody, ReadEOF, CloseReader, Reset, Piped, pingVars
<1>10. ASSUME NEW kind \in {"SETTINGS", "REFUSED", "NOT_SETTINGS", "CLOSE"}, Handshake(kind)
       PROVE  PingInv'
  BY <1>10 DEF Handshake, pingVars
<1>11. CASE SetReason \/ CloseDone
  <2>1. Then[cur.kind] \in {"deliver", "read", "ended"}
    BY <1>11 DEF SetReason, CloseDone, ReasonInv, Why, Then
  <2> QED BY <1>11, <2>1 DEF SetReason, CloseDone, pingVars
<1>12. CASE PrefaceFails \/ Stops \/ OnData
  BY <1>12 DEF PrefaceFails, Stops, OnData, pingVars
<1>13. ASSUME NEW kind \in {"GOAWAY", "REFUSED"}, OnEnd(kind) PROVE PingInv'
  BY <1>13 DEF OnEnd, pingVars
<1>14. CASE Deliver \/ WriteReturns \/ WriteFails
  BY <1>14 DEF Deliver, WriteReturns, WriteFails, RefundsAndTells, pingVars
<1>15. CASE UNCHANGED vars
  BY <1>15 DEF vars, pingVars
<1> QED BY <1>1, <1>2, <1>3, <1>4, <1>5, <1>6, <1>7, <1>8, <1>9, <1>10, <1>11, <1>12, <1>13,
           <1>14, <1>15 DEF Next, LoopStep, Pinging

-----------------------------------------------------------------------------
(* Frames on the wire, and their sums.                                     *)

DataFrames ==
  [kind : {"DATA"}, stream : Streams, n : Lengths \cap (0..MaxBytes), pad : Pads, end : BOOLEAN]
Frames ==
  {Frame(kind) : kind \in {"GOAWAY", "REFUSED", "CLOSE"}}
  \cup [kind : {"PING_ACK"}, ping : Pings] \cup DataFrames

(* The bytes of a stream in a frame, and on the wire.                      *)
Part(s, frame) == IF frame.kind = "DATA" /\ frame.stream = s THEN frame.n ELSE 0
Bytes(s) == SumFunction([i \in DOMAIN wire |-> Part(s, wire[i])])

LEMMA FrameSizes ==
  ASSUME NEW frame \in Frames
  PROVE  /\ Size(frame) \in Nat /\ Size(frame) <= Half
         /\ \A s \in Streams : Part(s, frame) \in Nat
         /\ frame.kind = "DATA" => frame \in DataFrames
         /\ frame.kind # "DATA" => Size(frame) = 0 /\ \A s \in Streams : Part(s, frame) = 0
<1>1. CASE frame \in DataFrames
  BY <1>1, ConnectionAssumption DEF DataFrames, Size, Part
<1>2. CASE frame \in [kind : {"PING_ACK"}, ping : Pings]
  BY <1>2, FlowAssumption DEF Size, Part
<1>3. ASSUME NEW kind \in {"GOAWAY", "REFUSED", "CLOSE"}, frame = Frame(kind)
      PROVE  frame.kind # "DATA"
  BY <1>3 DEF Frame
<1> QED BY <1>1, <1>2, <1>3, FlowAssumption DEF Frames, Size, Part

LEMMA FrameSums ==
  ASSUME NEW w \in Seq(Frames)
  PROVE  /\ SumFunction([i \in DOMAIN w |-> Size(w[i])]) \in Nat
         /\ \A j \in DOMAIN w : Size(w[j]) <= SumFunction([i \in DOMAIN w |-> Size(w[i])])
         /\ \A s \in Streams : SumFunction([i \in DOMAIN w |-> Part(s, w[i])]) \in Nat
<1>0. IsFiniteSet(DOMAIN w) /\ \A i \in DOMAIN w : w[i] \in Frames
  <2>1. DOMAIN w = 1..Len(w) /\ Len(w) \in Nat
    OBVIOUS
  <2> QED BY <2>1, FS_Interval
<1> DEFINE f == [i \in DOMAIN w |-> Size(w[i])]
<1>1. SumFunction(f) \in Nat /\ \A j \in DOMAIN w : Size(w[j]) <= SumFunction(f)
  <2>1. DOMAIN f = DOMAIN w /\ \A i \in DOMAIN w : f[i] = Size(w[i]) /\ f[i] \in Nat
    BY <1>0, FrameSizes
  <2> HIDE DEF f
  <2> QED BY <1>0, <2>1, SumElement
<1>2. ASSUME NEW s \in Streams PROVE SumFunction([i \in DOMAIN w |-> Part(s, w[i])]) \in Nat
  <2> DEFINE g == [i \in DOMAIN w |-> Part(s, w[i])]
  <2>1. DOMAIN g = DOMAIN w /\ \A i \in DOMAIN w : g[i] \in Nat
    BY <1>0, FrameSizes
  <2> HIDE DEF g
  <2>2. SumFunction(g) \in Nat
    BY <1>0, <2>1, SumElement
  <2> QED BY <2>2 DEF g
<1> QED BY <1>1, <1>2

LEMMA WireNat ==
  ASSUME wire \in Seq(Frames)
  PROVE  /\ OnWire \in Nat /\ \A i \in DOMAIN wire : Size(wire[i]) <= OnWire
         /\ \A s \in Streams : Bytes(s) \in Nat
BY FrameSums DEF OnWire, Bytes

LEMMA WireAppended ==
  ASSUME wire \in Seq(Frames), NEW frame \in Frames, wire' = Append(wire, frame)
  PROVE  /\ wire' \in Seq(Frames) /\ Len(wire') = Len(wire) + 1
         /\ \A i \in 1..Len(wire) : wire'[i] = wire[i]
         /\ wire'[Len(wire) + 1] = frame
         /\ OnWire' = OnWire + Size(frame)
         /\ \A s \in Streams : Bytes(s)' = Bytes(s) + Part(s, frame)
<1> DEFINE n == Len(wire)
<1>1. /\ wire' \in Seq(Frames) /\ Len(wire') = n + 1 /\ n \in Nat
      /\ DOMAIN wire = 1..n /\ DOMAIN wire' = 1..(n + 1)
      /\ \A i \in 1..n : wire'[i] = wire[i] /\ wire[i] \in Frames
      /\ \A i \in 1..(n + 1) : wire'[i] \in Frames
      /\ wire'[n + 1] = frame
  OBVIOUS
<1> HIDE DEF n
<1>2. OnWire' = OnWire + Size(frame)
  <2> DEFINE f == [i \in 1..n |-> Size(wire[i])]
             g == [i \in 1..(n + 1) |-> Size(wire'[i])]
  <2>1. f \in [1..n -> Nat] /\ g \in [1..(n + 1) -> Nat]
    BY <1>1, FrameSizes
  <2>2. (\A i \in 1..n : g[i] = f[i]) /\ g[n + 1] = Size(frame)
    BY <1>1
  <2>3. OnWire = SumFunction(f) /\ OnWire' = SumFunction(g)
    BY <1>1 DEF OnWire
  <2> HIDE DEF f, g
  <2> QED BY <1>1, <2>1, <2>2, <2>3, SumAppended
<1>3. ASSUME NEW s \in Streams PROVE Bytes(s)' = Bytes(s) + Part(s, frame)
  <2> DEFINE f == [i \in 1..n |-> Part(s, wire[i])]
             g == [i \in 1..(n + 1) |-> Part(s, wire'[i])]
  <2>1. f \in [1..n -> Nat] /\ g \in [1..(n + 1) -> Nat]
    BY <1>1, FrameSizes
  <2>2. (\A i \in 1..n : g[i] = f[i]) /\ g[n + 1] = Part(s, frame)
    BY <1>1
  <2>3. Bytes(s) = SumFunction(f) /\ Bytes(s)' = SumFunction(g)
    BY <1>1 DEF Bytes
  <2> HIDE DEF f, g
  <2> QED BY <1>1, <2>1, <2>2, <2>3, SumAppended
<1> QED BY <1>1, <1>2, <1>3 DEF n

LEMMA WireTaken ==
  ASSUME wire \in Seq(Frames), wire # <<>>, wire' = Tail(wire)
  PROVE  /\ Head(wire) \in Frames /\ wire' \in Seq(Frames) /\ Len(wire) = Len(wire') + 1
         /\ \A i \in 1..Len(wire') : wire'[i] = wire[i + 1]
         /\ Head(wire) = wire[1]
         /\ OnWire = Size(Head(wire)) + OnWire'
         /\ \A s \in Streams : Bytes(s) = Part(s, Head(wire)) + Bytes(s)'
<1> DEFINE n == Len(wire')
<1>1. /\ Head(wire) \in Frames /\ Head(wire) = wire[1]
      /\ wire' \in Seq(Frames) /\ Len(wire) = n + 1 /\ n \in Nat
      /\ DOMAIN wire = 1..(n + 1) /\ DOMAIN wire' = 1..n
      /\ \A i \in 1..n : wire'[i] = wire[i + 1] /\ wire'[i] \in Frames
      /\ \A i \in 1..(n + 1) : wire[i] \in Frames
  OBVIOUS
<1> HIDE DEF n
<1>2. OnWire = Size(Head(wire)) + OnWire'
  <2> DEFINE g == [i \in 1..n |-> Size(wire'[i])]
             f == [i \in 1..(n + 1) |-> Size(wire[i])]
  <2>1. g \in [1..n -> Nat] /\ f \in [1..(n + 1) -> Nat]
    BY <1>1, FrameSizes
  <2>2. (\A i \in 1..n : g[i] = f[i + 1]) /\ f[1] = Size(Head(wire))
    BY <1>1
  <2>3. OnWire = SumFunction(f) /\ OnWire' = SumFunction(g)
    BY <1>1 DEF OnWire
  <2> HIDE DEF f, g
  <2> QED BY <1>1, <2>1, <2>2, <2>3, SumTail
<1>3. ASSUME NEW s \in Streams PROVE Bytes(s) = Part(s, Head(wire)) + Bytes(s)'
  <2> DEFINE g == [i \in 1..n |-> Part(s, wire'[i])]
             f == [i \in 1..(n + 1) |-> Part(s, wire[i])]
  <2>1. g \in [1..n -> Nat] /\ f \in [1..(n + 1) -> Nat]
    BY <1>1, FrameSizes
  <2>2. (\A i \in 1..n : g[i] = f[i + 1]) /\ f[1] = Part(s, Head(wire))
    BY <1>1
  <2>3. Bytes(s) = SumFunction(f) /\ Bytes(s)' = SumFunction(g)
    BY <1>1 DEF Bytes
  <2> HIDE DEF f, g
  <2> QED BY <1>1, <2>1, <2>2, <2>3, SumTail
<1> QED BY <1>1, <1>2, <1>3 DEF n


-----------------------------------------------------------------------------
(* Types, with what is on the wire.                                        *)

Pipes ==
  [Streams -> [held : 0..MaxBytes, writer : {"open", "eof", "err"}, reader : {"open", "closed"}]]

(* TypeOK without the bound of the window, which WindowInv gives.          *)
Typed ==
  /\ loop \in {"handshake", "once", "closeDone", "read", "ended", "deliver", "write", "ack"}
  /\ reason \in {"nil", "flow", "local", "remote", "read"}
  /\ {done, closing, overdrawn} \subseteq BOOLEAN
  /\ inflow \in [remaining : Nat, queued : 0..(InflowMinRefresh - 1)]
  /\ peerWindow \in Int /\ updates \in Nat
  /\ sent \in [Streams -> 0..MaxBytes] /\ {ended, over} \subseteq SUBSET Streams
  /\ pipe \in Pipes
  /\ got \in [Streams -> [n : 0..MaxBytes, eof : BOOLEAN]]
  /\ wire \in Seq(Frames) /\ Len(wire) <= MaxFlight
  /\ loop \in {"deliver", "write"} => cur \in DataFrames
  /\ loop \in {"once", "closeDone"} /\ cur.kind = "DATA" => cur \in DataFrames

(* Only the frame that is being written is in a pipe.                      *)
HeldInv ==
  \A s \in Streams : pipe[s].held > 0 => loop = "write" /\ cur.stream = s /\ pipe[s].held <= cur.n

(* The bytes of a stream in the frame that is not yet in its pipe.         *)
InCur(s) == IF loop \in {"once", "closeDone", "deliver"} THEN Part(s, cur) ELSE 0

(* Every byte of a stream whose pipe is open is with its reader, in the    *)
(* pipe, in the frame at hand or on the wire; a pipe that is at its end has*)
(* had all of them.                                                        *)
BytesInv ==
  \A s \in Streams :
    /\ s \in over <=> pipe[s].writer # "open"
    /\ pipe[s].writer = "open" => got[s].n + pipe[s].held + InCur(s) + Bytes(s) = sent[s]
    /\ pipe[s].writer = "eof" => s \in ended /\ got[s].n = sent[s]
    /\ got[s].eof => pipe[s].writer = "eof"

(* No frame of a stream follows the one that ends it.                      *)
EndsInv ==
  /\ \A i \in DOMAIN wire : wire[i].kind = "DATA" /\ wire[i].end =>
       /\ wire[i].stream \in ended
       /\ \A j \in (i + 1)..Len(wire) : wire[j].kind = "DATA" => wire[j].stream # wire[i].stream
  /\ loop \in {"once", "closeDone", "deliver", "write"} /\ cur.kind = "DATA" /\ cur.end =>
       /\ cur.stream \in ended
       /\ \A j \in DOMAIN wire : wire[j].kind = "DATA" => wire[j].stream # cur.stream

(* What doneOnce does for the frame at hand.                               *)
LEMMA OnceMoves ==
  ASSUME ReasonInv, SetReason \/ CloseDone
  PROVE  /\ loop \in {"once", "closeDone"} /\ cur' = cur
         /\ loop' \in {"closeDone", "deliver", "read", "ended"}
         /\ loop' \in {"closeDone", "deliver"} \/ cur.kind # "DATA"
         /\ loop' = "deliver" => cur.kind = "DATA"
         /\ UNCHANGED <<serverVars, inflow, updates, pipeVars, pingVars>>
<1>1. cur.kind \in DOMAIN Why
  BY DEF ReasonInv, SetReason, CloseDone
<1>2. /\ Then[cur.kind] \in {"deliver", "read", "ended"}
      /\ Then[cur.kind] = "deliver" <=> cur.kind = "DATA"
  BY <1>1 DEF Why, Then
<1> QED BY <1>2 DEF SetReason, CloseDone, LoopGoes

(* What refunding does to the window, and what the server is told.         *)
LEMMA RefundMoves ==
  ASSUME Typed, NEW n \in Nat
  PROVE  /\ AfterRefund(inflow, n) \in [remaining : Nat, queued : 0..(InflowMinRefresh - 1)]
         /\ Increment(inflow, n) \in Nat
         /\ AfterRefund(inflow, n).remaining = inflow.remaining + Increment(inflow, n)
         /\ AfterRefund(inflow, n).queued = inflow.queued + n - Increment(inflow, n)
<1>1. inflow \in [remaining : Nat, queued : Nat] /\ Increment(inflow, n) \in Nat
  BY FlowAssumption DEF Typed, Increment
<1>2. /\ AfterRefund(inflow, n).remaining = inflow.remaining + Increment(inflow, n)
      /\ AfterRefund(inflow, n).queued + Increment(inflow, n) = inflow.queued + n
      /\ AfterRefund(inflow, n).queued \in 0..(InflowMinRefresh - 1)
  BY <1>1, RefundConserves
<1>3. AfterRefund(inflow, n) = [remaining |-> AfterRefund(inflow, n).remaining,
                                queued |-> AfterRefund(inflow, n).queued]
  BY DEF AfterRefund
<1> QED BY <1>1, <1>2, <1>3

(* The frame that the loop reads.                                          *)
LEMMA ReadsHead ==
  ASSUME Typed, NEW kind, Reads(kind)
  PROVE  /\ Head(wire) \in Frames /\ Head(wire).kind = kind
         /\ wire' \in Seq(Frames) /\ Len(wire) = Len(wire') + 1 /\ Len(wire') <= MaxFlight
         /\ \A i \in 1..Len(wire') : wire'[i] = wire[i + 1]
         /\ Head(wire) = wire[1]
         /\ OnWire = Size(Head(wire)) + OnWire' /\ OnWire' \in Nat
         /\ \A s \in Streams : Bytes(s) = Part(s, Head(wire)) + Bytes(s)' /\ Bytes(s)' \in Nat
         /\ UNCHANGED <<peerWindow, overdrawn, sent, ended>>
<1>1. /\ wire # <<>> /\ wire' = Tail(wire) /\ Head(wire).kind = kind
      /\ UNCHANGED <<peerWindow, overdrawn, sent, ended>>
  BY DEF Reads
<1>2. wire \in Seq(Frames) /\ Len(wire) <= MaxFlight /\ MaxFlight \in Nat
  BY ConnectionAssumption DEF Typed
<1>3. wire' \in Seq(Frames) /\ OnWire' \in Nat /\ \A s \in Streams : Bytes(s)' \in Nat
  <2>1. wire' \in Seq(Frames)
    BY <1>1, <1>2
  <2> QED BY <2>1, FrameSums DEF OnWire, Bytes
<1>4. Len(wire') <= MaxFlight
  BY <1>1, <1>2
<1> QED BY <1>1, <1>2, <1>3, <1>4, WireTaken

(* What each step does to the pipe of one stream, and to no other.         *)
LEMMA PipeSet ==
  ASSUME pipe \in Pipes, NEW s \in Streams, NEW h \in 0..MaxBytes, NEW w \in {"open", "eof", "err"},
         pipe' = [pipe EXCEPT ![s].held = h, ![s].writer = w]
  PROVE  /\ pipe' \in Pipes /\ \A q \in Streams : q # s => pipe'[q] = pipe[q]
         /\ pipe'[s].held = h /\ pipe'[s].writer = w /\ pipe'[s].reader = pipe[s].reader
<1> DEFINE p == [pipe EXCEPT ![s].held = h]
<1>1. /\ p \in Pipes /\ \A q \in Streams : q # s => p[q] = pipe[q]
      /\ p[s].held = h /\ p[s].reader = pipe[s].reader
  BY DEF Pipes
<1>2. pipe' = [p EXCEPT ![s].writer = w]
  OBVIOUS
<1> HIDE DEF p
<1>3. /\ p[s] \in [held : 0..MaxBytes, writer : {"open", "eof", "err"}, reader : {"open", "closed"}]
      /\ pipe' = [p EXCEPT ![s] = [p[s] EXCEPT !.writer = w]]
  BY <1>1, <1>2 DEF Pipes
<1>4. pipe' \in Pipes
  <2> DEFINE v == [p[s] EXCEPT !.writer = w]
  <2>1. v \in [held : 0..MaxBytes, writer : {"open", "eof", "err"}, reader : {"open", "closed"}]
    BY <1>3
  <2> HIDE DEF v
  <2>2. pipe' = [p EXCEPT ![s] = v]
    BY <1>3 DEF v
  <2> QED BY <1>1, <2>1, <2>2 DEF Pipes
<1>5. /\ \A q \in Streams : q # s => pipe'[q] = p[q]
      /\ pipe'[s] = [p[s] EXCEPT !.writer = w]
  BY <1>1, <1>3 DEF Pipes
<1>6. pipe'[s].held = p[s].held /\ pipe'[s].writer = w /\ pipe'[s].reader = p[s].reader
  BY <1>3, <1>5
<1> QED BY <1>1, <1>4, <1>5, <1>6

LEMMA EndsMoves ==
  ASSUME pipe \in Pipes, over \subseteq Streams,
         NEW s \in Streams, NEW end \in BOOLEAN, NEW h \in 0..MaxBytes, Ends(s, end, h)
  PROVE  /\ pipe' \in Pipes /\ \A q \in Streams : q # s => pipe'[q] = pipe[q]
         /\ pipe'[s].held = h
         /\ pipe'[s].writer = IF end /\ pipe[s].writer = "open" THEN "eof" ELSE pipe[s].writer
         /\ over' = (IF end THEN over \cup {s} ELSE over) /\ over' \subseteq Streams
         /\ got' = got
<1> DEFINE w == IF end /\ pipe[s].writer = "open" THEN "eof" ELSE pipe[s].writer
<1>1. w \in {"open", "eof", "err"}
  BY DEF Pipes
<1>2. pipe' = [pipe EXCEPT ![s].held = h, ![s].writer = w]
  BY DEF Ends, Pipes
<1>3. over' = (IF end THEN over \cup {s} ELSE over) /\ got' = got
  BY DEF Ends
<1> HIDE DEF w
<1>4. /\ pipe' \in Pipes /\ \A q \in Streams : q # s => pipe'[q] = pipe[q]
      /\ pipe'[s].held = h /\ pipe'[s].writer = w
  BY <1>1, <1>2, PipeSet
<1> QED BY <1>3, <1>4 DEF w

LEMMA FailsMoves ==
  ASSUME Typed, WriteFails
  PROVE  LET s == cur.stream IN
         /\ s \in Streams /\ loop = "write" /\ loop' = "read"
         /\ pipe[s].held \in Nat \ {0}
         /\ pipe' \in Pipes /\ \A q \in Streams : q # s => pipe'[q] = pipe[q]
         /\ pipe'[s].held = 0 /\ pipe'[s].writer # "open"
         /\ pipe'[s].writer = "eof" => pipe[s].writer = "eof"
         /\ pipe[s].writer = "eof" => pipe'[s].writer = "eof"
         /\ over' = over \cup {s} /\ got' = got
         /\ inflow' = AfterRefund(inflow, pipe[s].held)
         /\ updates' = updates + Increment(inflow, pipe[s].held)
         /\ UNCHANGED <<onceVars, serverVars, pingVars>>
<1> DEFINE s == cur.stream
           w == IF pipe[s].writer = "open" THEN "err" ELSE pipe[s].writer
<1>1. s \in Streams /\ pipe \in Pipes /\ 0 \in 0..MaxBytes
  BY ConnectionAssumption DEF WriteFails, Typed, DataFrames
<1>2. w \in {"open", "eof", "err"} /\ pipe[s].held \in Nat
  BY <1>1 DEF Pipes
<1>3. pipe' = [pipe EXCEPT ![s].held = 0, ![s].writer = w]
  BY <1>1 DEF WriteFails, Pipes
<1>4. /\ pipe' \in Pipes /\ \A q \in Streams : q # s => pipe'[q] = pipe[q]
      /\ pipe'[s].held = 0 /\ pipe'[s].writer = w
  <2> HIDE DEF w, s
  <2> QED BY <1>1, <1>2, <1>3, PipeSet
<1>5. pipe[s].held > 0 /\ over' = over \cup {s} /\ got' = got /\ loop = "write"
  BY DEF WriteFails
<1>6. RefundsAndTells(pipe[s].held)
  BY DEF WriteFails
<1> HIDE DEF s
<1>7. w # "open" /\ (w = "eof" <=> pipe[s].writer = "eof")
  OBVIOUS
<1> HIDE DEF w
<1> QED BY <1>1, <1>2, <1>4, <1>5, <1>6, <1>7 DEF RefundsAndTells, LoopGoes, s

LEMMA ResetMoves ==
  ASSUME Typed, NEW s \in Streams, Reset(s)
  PROVE  /\ pipe' \in Pipes /\ \A q \in Streams : q # s => pipe'[q] = pipe[q]
         /\ pipe'[s].held = pipe[s].held /\ pipe'[s].writer # "open"
         /\ pipe'[s].writer = "eof" <=> pipe[s].writer = "eof"
         /\ over' = over \cup {s} /\ got' = got
<1>1. pipe \in Pipes
  BY DEF Typed
<1>2. /\ pipe' = [pipe EXCEPT ![s].writer = IF @ = "open" THEN "err" ELSE @]
      /\ over' = over \cup {s} /\ got' = got
  BY DEF Reset
<1> QED BY <1>1, <1>2 DEF Pipes

LEMMA TypedStep == ReasonInv /\ Typed /\ HeldInv /\ BytesInv /\ [Next]_vars => Typed'
<1> SUFFICES ASSUME ReasonInv, Typed, HeldInv, BytesInv, [Next]_vars PROVE Typed'
  OBVIOUS
<1> USE DEF Typed, LoopGoes
<1>c. /\ MaxBytes \in Nat /\ Pads \subseteq Nat /\ Lengths \subseteq Nat
      /\ cur \in DataFrames =>
           /\ cur.stream \in Streams /\ cur.n \in 0..MaxBytes /\ cur.pad \in Nat /\ cur.end \in BOOLEAN
  BY ConnectionAssumption DEF DataFrames
<1>1. ASSUME NEW s \in Streams, NEW n \in Lengths, NEW pad \in Pads, NEW end \in BOOLEAN,
             ServerData(s, n, pad, end)
      PROVE  Typed'
  <2>1. n \in 0..MaxBytes /\ pad \in Nat /\ sent[s] + n \in 0..MaxBytes
    BY <1>1, <1>c DEF ServerData
  <2>2. Data(s, n, pad, end) \in Frames
    BY <2>1 DEF Data, Frames, DataFrames
  <2>3. wire' \in Seq(Frames) /\ Len(wire') <= MaxFlight
    BY <1>1, <2>2, ConnectionAssumption DEF ServerData, Puts
  <2> QED BY <1>1, <2>1, <2>3 DEF ServerData, onceVars, pipeVars
<1>2. ASSUME NEW kind \in {"GOAWAY", "REFUSED", "CLOSE"}, ServerEnds(kind) PROVE Typed'
  <2>1. Frame(kind) \in Frames
    BY DEF Frames
  <2>2. wire' \in Seq(Frames) /\ Len(wire') <= MaxFlight
    BY <1>2, <2>1, ConnectionAssumption DEF ServerEnds, Puts
  <2> QED BY <1>2, <2>2 DEF ServerEnds, onceVars, pipeVars
<1>3. ASSUME NEW p \in Pings, ServerAcks(p) PROVE Typed'
  <2>1. [kind |-> "PING_ACK", ping |-> p] \in Frames
    BY DEF Frames
  <2>2. wire' \in Seq(Frames) /\ Len(wire') <= MaxFlight
    BY <1>3, <2>1, ConnectionAssumption DEF ServerAcks, Puts
  <2> QED BY <1>3, <2>2 DEF ServerAcks, onceVars, pipeVars
<1>4. CASE ServerGetsUpdates
  BY <1>4 DEF ServerGetsUpdates, onceVars, pipeVars
<1>5. ASSUME NEW kind \in {"SETTINGS", "REFUSED", "NOT_SETTINGS", "CLOSE"}, Handshake(kind)
      PROVE  Typed'
  BY <1>5 DEF Handshake, Frame, onceVars, serverVars, pipeVars
<1>6. CASE SetReason \/ CloseDone
  <2>1. /\ loop' \in {"closeDone", "deliver", "read", "ended"} /\ cur' = cur
        /\ loop' = "deliver" => cur.kind = "DATA"
        /\ loop \in {"once", "closeDone"}
        /\ UNCHANGED <<serverVars, inflow, updates, pipeVars, pingVars>>
    BY <1>6, OnceMoves
  <2>2. reason' \in {"nil", "flow", "local", "remote", "read"} /\ {done', closing'} \subseteq BOOLEAN
    <3>1. cur.kind \in DOMAIN Why
      BY <2>1 DEF ReasonInv
    <3>2. Why[cur.kind] \in {"flow", "local", "remote", "read"}
      BY <3>1 DEF Why
    <3> QED BY <1>6, <3>2 DEF SetReason, CloseDone
  <2> QED BY <2>1, <2>2 DEF serverVars, pipeVars
<1>7. CASE Stops \/ PrefaceFails
  BY <1>7 DEF Stops, PrefaceFails, onceVars, serverVars, pipeVars
<1>8. ASSUME NEW kind \in {"GOAWAY", "REFUSED"}, OnEnd(kind) PROVE Typed'
  <2>1. Reads(kind)
    BY <1>8 DEF OnEnd
  <2>2. /\ wire' \in Seq(Frames) /\ Len(wire') <= MaxFlight /\ Head(wire).kind = kind
        /\ UNCHANGED <<peerWindow, overdrawn, sent, ended>>
    BY <2>1, ReadsHead
  <2> QED BY <1>8, <2>2 DEF OnEnd, onceVars, pipeVars
<1>9. CASE OnData
  <2>1. Reads("DATA")
    BY <1>9 DEF OnData
  <2>2. /\ wire' \in Seq(Frames) /\ Len(wire') <= MaxFlight
        /\ Head(wire).kind = "DATA" /\ Head(wire) \in Frames
        /\ UNCHANGED <<peerWindow, overdrawn, sent, ended>>
    BY <2>1, ReadsHead
  <2>3. Head(wire) \in DataFrames
    BY <2>2, FrameSizes
  <2>4. inflow' \in [remaining : Nat, queued : 0..(InflowMinRefresh - 1)]
    <3>1. Head(wire).n \in Nat /\ Head(wire).pad \in Nat
      BY <2>3, ConnectionAssumption DEF DataFrames
    <3>2. inflow' = AfterCheckAndPay(inflow, Head(wire).n + Head(wire).pad)
      BY <1>9 DEF OnData
    <3> DEFINE size == Head(wire).n + Head(wire).pad
    <3>3. size \in Nat /\ inflow' = AfterCheckAndPay(inflow, size)
      BY <3>1, <3>2
    <3>4. inflow \in [remaining : Nat, queued : 0..(InflowMinRefresh - 1)]
      OBVIOUS
    <3> HIDE DEF size, Typed
    <3> QED BY <3>3, <3>4 DEF AfterCheckAndPay, CanPay
  <2>5. loop' \in {"deliver", "once"} /\ cur' = Head(wire) /\ UNCHANGED <<onceVars, updates, pipeVars, pingVars>>
    BY <1>9 DEF OnData
  <2> QED BY <2>2, <2>3, <2>4, <2>5 DEF onceVars, pipeVars
<1>10. CASE Deliver
  <2>1. cur \in DataFrames
    BY <1>10 DEF Deliver
  <2>2. inflow' \in [remaining : Nat, queued : 0..(InflowMinRefresh - 1)]
    <3>1. AfterRefund(inflow, cur.pad) \in [remaining : Nat, queued : 0..(InflowMinRefresh - 1)]
      BY <2>1, <1>c, RefundMoves
    <3> QED BY <1>10, <3>1 DEF Deliver
  <2>3. over' \subseteq Streams /\ UNCHANGED got /\ pipe' \in Pipes
    <3>1. UNCHANGED pipeVars \/ Ends(cur.stream, cur.end, 0) \/ Ends(cur.stream, FALSE, cur.n)
      BY <1>10 DEF Deliver
    <3>2. cur.stream \in Streams /\ cur.n \in 0..MaxBytes /\ cur.end \in BOOLEAN /\ 0 \in 0..MaxBytes
      BY <2>1, <1>c
    <3> QED BY <3>1, <3>2, EndsMoves DEF pipeVars
  <2>4. loop' = "read" \/ (loop' = "write" /\ cur' = cur)
    BY <1>10 DEF Deliver
  <2> QED BY <1>10, <2>1, <2>2, <2>3, <2>4 DEF Deliver, onceVars, serverVars
<1>11. CASE WriteReturns
  <2>1. cur \in DataFrames
    BY <1>11 DEF WriteReturns
  <2>2. /\ AfterRefund(inflow, cur.n) \in [remaining : Nat, queued : 0..(InflowMinRefresh - 1)]
        /\ Increment(inflow, cur.n) \in Nat
    <3>1. cur.n \in Nat
      BY <2>1, <1>c
    <3> QED BY <3>1, RefundMoves
  <2>3. over' \subseteq Streams /\ UNCHANGED got /\ pipe' \in Pipes
    <3>1. cur.stream \in Streams /\ cur.end \in BOOLEAN /\ 0 \in 0..MaxBytes
      BY <2>1, <1>c
    <3>2. Ends(cur.stream, cur.end, 0)
      BY <1>11 DEF WriteReturns
    <3> QED BY <3>1, <3>2, EndsMoves
  <2> QED BY <1>11, <2>2, <2>3 DEF WriteReturns, RefundsAndTells, onceVars, serverVars
<1>12. CASE WriteFails
  <2>1. pipe[cur.stream].held \in Nat
    BY <1>12, FailsMoves
  <2>2. /\ AfterRefund(inflow, pipe[cur.stream].held)
             \in [remaining : Nat, queued : 0..(InflowMinRefresh - 1)]
        /\ Increment(inflow, pipe[cur.stream].held) \in Nat
    BY <2>1, RefundMoves
  <2>3. /\ over' \subseteq Streams /\ got' = got /\ pipe' \in Pipes /\ loop' = "read"
        /\ inflow' = AfterRefund(inflow, pipe[cur.stream].held)
        /\ updates' = updates + Increment(inflow, pipe[cur.stream].held)
        /\ UNCHANGED <<onceVars, serverVars, pingVars>>
    BY <1>12, FailsMoves
  <2> QED BY <2>2, <2>3 DEF onceVars, serverVars
<1>13. CASE OnPingAck
  <2>1. Reads("PING_ACK")
    BY <1>13 DEF OnPingAck
  <2>2. /\ wire' \in Seq(Frames) /\ Len(wire') <= MaxFlight
        /\ UNCHANGED <<peerWindow, overdrawn, sent, ended>>
    BY <2>1, ReadsHead
  <2>3. loop' = "ack" \/ (loop = "read" /\ loop' = loop)
    BY <1>13 DEF OnPingAck, Reads
  <2> QED BY <1>13, <2>2, <2>3 DEF OnPingAck, onceVars, pipeVars
<1>14. ASSUME NEW s \in Streams, NEW l \in 1..MaxBytes, ReadBody(s, l) PROVE Typed'
  <2>1. /\ l <= pipe[s].held /\ pipe[s].writer = "open"
        /\ got[s].n + pipe[s].held + InCur(s) + Bytes(s) = sent[s]
    BY <1>14 DEF ReadBody, BytesInv
  <2>2. InCur(s) \in Nat /\ Bytes(s) \in Nat
    <3>1. cur \in DataFrames => Part(s, cur) \in Nat
      BY <1>c DEF Part
    <3> QED BY <3>1, WireNat DEF InCur, Part
  <2>3. got[s].n + l \in 0..MaxBytes /\ pipe[s].held - l \in 0..MaxBytes
    BY SMTT(60), <2>1, <2>2, <1>c DEF Pipes
  <2>4. got' \in [Streams -> [n : 0..MaxBytes, eof : BOOLEAN]] /\ pipe' \in Pipes
    BY ZenonT(60), <1>14, <2>3 DEF ReadBody, Pipes
  <2> QED BY <1>14, <2>4 DEF ReadBody, Piped, onceVars, serverVars
<1>15. ASSUME NEW s \in Streams, ReadEOF(s) \/ CloseReader(s) \/ Reset(s) PROVE Typed'
  <2>1. UNCHANGED <<loop, cur, onceVars, serverVars, inflow, updates>>
    BY <1>15 DEF ReadEOF, CloseReader, Reset, Piped
  <2>2. over' \subseteq Streams /\ pipe' \in Pipes
        /\ got' \in [Streams -> [n : 0..MaxBytes, eof : BOOLEAN]]
    <3>1. CASE Reset(s)
      BY <3>1, ResetMoves
    <3>2. CASE ReadEOF(s)
      BY <3>2 DEF ReadEOF
    <3>3. CASE CloseReader(s)
      <4>1. pipe' \in Pipes
        BY <3>3 DEF CloseReader, Pipes
      <4> QED BY <3>3, <4>1 DEF CloseReader
    <3> QED BY <1>15, <3>1, <3>2, <3>3
  <2> QED BY <2>1, <2>2 DEF onceVars, serverVars
<1>16. ASSUME NEW p \in Pings, Pinging(p) PROVE Typed'
  <2>1. UNCHANGED <<onceVars, serverVars, inflow, updates, pipeVars>>
    BY <1>16 DEF Pinging, PingStarts, TimesOut, PingReturns, Delete, Close, WritePing, PingGoes
  <2>2. UNCHANGED <<loop, cur>> \/ loop' = "read"
    BY <1>16 DEF Pinging, PingStarts, TimesOut, PingReturns, Delete, Close, WritePing
  <2> QED BY <2>1, <2>2 DEF onceVars, serverVars, pipeVars
<1>17. CASE UNCHANGED vars
  BY <1>17 DEF vars, onceVars, serverVars, pipeVars
<1> QED BY SMTT(60), <1>1, <1>2, <1>3, <1>4, <1>5, <1>6, <1>7, <1>8, <1>9, <1>10, <1>11, <1>12, <1>13,
           <1>14, <1>15, <1>16, <1>17 DEF Next, FromServer, LoopStep, Using

LEMMA HeldStep == ReasonInv /\ Typed /\ HeldInv /\ [Next]_vars => HeldInv'
<1> SUFFICES ASSUME ReasonInv, Typed, HeldInv, [Next]_vars, NEW q \in Streams, pipe'[q].held > 0
             PROVE  loop' = "write" /\ cur'.stream = q /\ pipe'[q].held <= cur'.n
  BY DEF HeldInv
<1> DEFINE Goal == loop' = "write" /\ cur'.stream = q /\ pipe'[q].held <= cur'.n
<1> USE DEF LoopGoes
<1>t. pipe \in Pipes /\ over \subseteq Streams
  BY DEF Typed
<1>h. pipe[q].held > 0 => loop = "write" /\ cur.stream = q /\ pipe[q].held <= cur.n
  BY DEF HeldInv
<1>n. pipe[q].held \in Nat /\ 0 \in 0..MaxBytes
  BY <1>t, ConnectionAssumption DEF Pipes
<1>1. CASE FromServer
  <2>1. UNCHANGED <<loop, cur, pipe>>
    BY <1>1 DEF FromServer, ServerData, ServerEnds, ServerAcks, ServerGetsUpdates, pipeVars
  <2> QED BY <2>1, <1>h
<1>2. CASE PrefaceFails \/ Stops \/ OnData \/ OnPingAck
           \/ (\E kind \in {"SETTINGS", "REFUSED", "NOT_SETTINGS", "CLOSE"} : Handshake(kind))
           \/ (\E kind \in {"GOAWAY", "REFUSED"} : OnEnd(kind))
  <2>1. loop # "write" /\ UNCHANGED pipe
    BY <1>2 DEF Handshake, PrefaceFails, Stops, OnEnd, OnData, OnPingAck, Reads, pipeVars
  <2> QED BY <2>1, <1>h
<1>3. CASE SetReason \/ CloseDone
  <2>1. loop # "write" /\ UNCHANGED pipe
    BY <1>3, OnceMoves DEF pipeVars
  <2> QED BY <2>1, <1>h
<1>4. CASE Deliver
  <2>1. loop = "deliver" /\ cur \in DataFrames
    BY <1>4 DEF Deliver, Typed
  <2>2. cur.stream \in Streams /\ cur.n \in 0..MaxBytes /\ cur.end \in BOOLEAN
    BY <2>1 DEF DataFrames
  <2>3. pipe[q].held = 0
    BY <2>1, <1>h, <1>n
  <2>4. \/ UNCHANGED pipeVars
        \/ Ends(cur.stream, cur.end, 0)
        \/ loop' = "write" /\ cur' = cur /\ Ends(cur.stream, FALSE, cur.n)
    BY <1>4 DEF Deliver
  <2>5. CASE Ends(cur.stream, cur.end, 0)
    <3>1. pipe'[q].held = 0 \/ pipe'[q] = pipe[q]
      BY <2>2, <2>5, <1>t, <1>n, EndsMoves
    <3> QED BY <3>1, <2>3
  <2>6. CASE loop' = "write" /\ cur' = cur /\ Ends(cur.stream, FALSE, cur.n)
    <3>1. /\ \A r \in Streams : r # cur.stream => pipe'[r] = pipe[r]
          /\ pipe'[cur.stream].held = cur.n
      BY <2>2, <2>6, <1>t, <1>n, EndsMoves
    <3> QED BY <3>1, <2>2, <2>3, <2>6
  <2>7. CASE UNCHANGED pipeVars
    BY <2>3, <2>7 DEF pipeVars
  <2> QED BY <2>4, <2>5, <2>6, <2>7
<1>5. CASE WriteReturns \/ WriteFails
  <2>1. loop = "write" /\ cur \in DataFrames
    BY <1>5 DEF WriteReturns, WriteFails, Typed
  <2>2. cur.stream \in Streams /\ cur.end \in BOOLEAN
    BY <2>1 DEF DataFrames
  <2>3. pipe'[cur.stream].held = 0 /\ \A r \in Streams : r # cur.stream => pipe'[r] = pipe[r]
    <3>1. CASE WriteReturns
      <4>1. Ends(cur.stream, cur.end, 0)
        BY <3>1 DEF WriteReturns
      <4> QED BY <4>1, <2>2, <1>t, <1>n, EndsMoves
    <3>2. CASE WriteFails
      BY <3>2, FailsMoves
    <3> QED BY <1>5, <3>1, <3>2
  <2> QED BY <2>2, <2>3, <1>h
<1>6. ASSUME NEW s \in Streams, Using(s) PROVE Goal
  <2>1. UNCHANGED <<loop, cur>>
    BY <1>6 DEF Using, ReadBody, ReadEOF, CloseReader, Reset, Piped
  <2>2. pipe'[q].held <= pipe[q].held
    <3>1. ASSUME NEW l \in 1..MaxBytes, ReadBody(s, l) PROVE pipe'[q].held <= pipe[q].held
      BY <3>1, <1>t, <1>n DEF ReadBody, Pipes
    <3>2. CASE ReadEOF(s)
      BY <3>2, <1>n DEF ReadEOF
    <3>3. CASE CloseReader(s)
      BY <3>3, <1>t, <1>n DEF CloseReader, Pipes
    <3>4. CASE Reset(s)
      BY <3>4, <1>n, ResetMoves
    <3> QED BY <1>6, <3>1, <3>2, <3>3, <3>4 DEF Using
  <2>3. cur \in DataFrames => cur.n \in Nat
    BY ConnectionAssumption DEF DataFrames
  <2>4. pipe'[q].held \in Int
    <3>1. ASSUME NEW l \in 1..MaxBytes, ReadBody(s, l) PROVE pipe'[q].held \in Int
      BY <3>1, <1>t, <1>n DEF ReadBody, Pipes
    <3>2. CASE ReadEOF(s)
      BY <3>2, <1>n DEF ReadEOF
    <3>3. CASE CloseReader(s)
      BY <3>3, <1>t, <1>n DEF CloseReader, Pipes
    <3>4. CASE Reset(s)
      BY <3>4, <1>n, ResetMoves
    <3> QED BY <1>6, <3>1, <3>2, <3>3, <3>4 DEF Using
  <2>5. pipe[q].held > 0
    BY <2>2, <2>4, <1>n
  <2>6. loop = "write" => cur \in DataFrames
    BY DEF Typed
  <2> QED BY <2>1, <2>2, <2>3, <2>4, <2>5, <2>6, <1>h, <1>n
<1>7. ASSUME NEW p \in Pings, Pinging(p) PROVE Goal
  <2>1. UNCHANGED pipe
    BY <1>7 DEF Pinging, PingStarts, TimesOut, PingReturns, Delete, Close, WritePing, PingGoes, pipeVars
  <2>2. UNCHANGED <<loop, cur>> \/ loop # "write"
    BY <1>7 DEF Pinging, PingStarts, TimesOut, PingReturns, Delete, Close, WritePing
  <2> QED BY <2>1, <2>2, <1>h
<1>8. CASE UNCHANGED vars
  BY <1>8, <1>h DEF vars, pipeVars
<1> QED BY <1>1, <1>2, <1>3, <1>4, <1>5, <1>6, <1>7, <1>8 DEF Next, LoopStep

(* A stream of which nothing is on the wire.                               *)
LEMMA NoBytes ==
  ASSUME wire \in Seq(Frames), NEW s \in Streams,
         \A j \in DOMAIN wire : wire[j].kind = "DATA" => wire[j].stream # s
  PROVE  Bytes(s) = 0
<1> DEFINE f == [i \in DOMAIN wire |-> Part(s, wire[i])]
<1>1. IsFiniteSet(DOMAIN wire)
  <2>1. DOMAIN wire = 1..Len(wire) /\ Len(wire) \in Nat
    OBVIOUS
  <2> QED BY <2>1, FS_Interval
<1>2. DOMAIN f = DOMAIN wire /\ \A i \in DOMAIN wire : f[i] = 0
  BY DEF Part
<1>3. Bytes(s) = SumFunctionOnSet(f, DOMAIN f)
  BY DEF Bytes, SumFunction
<1> HIDE DEF f
<1> QED BY <1>1, <1>2, <1>3, SumZero

LEMMA BytesStep == ReasonInv /\ Typed /\ HeldInv /\ BytesInv /\ EndsInv /\ [Next]_vars => BytesInv'
<1> SUFFICES ASSUME ReasonInv, Typed, HeldInv, BytesInv, EndsInv, [Next]_vars, NEW q \in Streams
             PROVE  /\ q \in over' <=> pipe'[q].writer # "open"
                    /\ pipe'[q].writer = "open" =>
                         got'[q].n + pipe'[q].held + InCur(q)' + Bytes(q)' = sent'[q]
                    /\ pipe'[q].writer = "eof" => q \in ended' /\ got'[q].n = sent'[q]
                    /\ got'[q].eof => pipe'[q].writer = "eof"
  BY DEF BytesInv
<1> DEFINE Goal == /\ q \in over' <=> pipe'[q].writer # "open"
                   /\ pipe'[q].writer = "open" =>
                        got'[q].n + pipe'[q].held + InCur(q)' + Bytes(q)' = sent'[q]
                   /\ pipe'[q].writer = "eof" => q \in ended' /\ got'[q].n = sent'[q]
                   /\ got'[q].eof => pipe'[q].writer = "eof"
<1> USE DEF LoopGoes
<1>t. /\ pipe \in Pipes /\ over \subseteq Streams /\ wire \in Seq(Frames)
      /\ got \in [Streams -> [n : 0..MaxBytes, eof : BOOLEAN]]
      /\ sent \in [Streams -> 0..MaxBytes] /\ ended \subseteq Streams
  BY DEF Typed
<1>n. /\ pipe[q].held \in Nat /\ got[q].n \in Nat /\ sent[q] \in Nat /\ 0 \in 0..MaxBytes
  BY <1>t, ConnectionAssumption DEF Pipes
<1>b. /\ q \in over <=> pipe[q].writer # "open"
      /\ pipe[q].writer = "open" => got[q].n + pipe[q].held + InCur(q) + Bytes(q) = sent[q]
      /\ pipe[q].writer = "eof" => q \in ended /\ got[q].n = sent[q]
      /\ got[q].eof => pipe[q].writer = "eof"
  BY DEF BytesInv
<1>h. loop # "write" \/ cur.stream # q => pipe[q].held = 0
  BY <1>n DEF HeldInv
<1>s. InCur(q) \in Nat /\ Bytes(q) \in Nat
  <2>1. cur \in DataFrames => Part(q, cur) \in Nat
    BY ConnectionAssumption DEF DataFrames, Part
  <2>2. InCur(q) \in Nat
    BY <2>1 DEF InCur, Part, Typed
  <2> QED BY <2>2, <1>t, WireNat
<1>w. wire' = wire => Bytes(q)' = Bytes(q)
  BY DEF Bytes
<1>c. UNCHANGED <<loop, cur>> => InCur(q)' = InCur(q)
  BY DEF InCur, Part
<1>k. ASSUME UNCHANGED <<pipeVars, sent, ended>>,
             InCur(q)' + Bytes(q)' = InCur(q) + Bytes(q), InCur(q)' \in Nat, Bytes(q)' \in Nat
      PROVE  Goal
  <2>1. got[q].n + pipe[q].held + InCur(q)' + Bytes(q)' = got[q].n + pipe[q].held + InCur(q) + Bytes(q)
    BY <1>k, <1>n, <1>s
  <2> QED BY <1>k, <2>1, <1>b DEF pipeVars
<1>1. ASSUME NEW s \in Streams, NEW n \in Lengths, NEW pad \in Pads, NEW end \in BOOLEAN,
             ServerData(s, n, pad, end)
      PROVE  Goal
  <2>1. /\ s \notin ended /\ ended \subseteq ended' /\ sent' = [sent EXCEPT ![s] = @ + n]
        /\ wire' = Append(wire, Data(s, n, pad, end)) /\ sent[s] + n <= MaxBytes
        /\ UNCHANGED <<loop, cur, pipeVars>>
    BY <1>1 DEF ServerData, Puts
  <2>2. n \in 0..MaxBytes /\ pad \in Nat
    BY <2>1, <1>t, ConnectionAssumption
  <2>3. Data(s, n, pad, end) \in Frames /\ Part(q, Data(s, n, pad, end)) = IF q = s THEN n ELSE 0
    BY <2>2 DEF Data, Frames, DataFrames, Part
  <2>4. Bytes(q)' = Bytes(q) + Part(q, Data(s, n, pad, end))
    BY <2>1, <2>3, <1>t, WireAppended
  <2>5. CASE q = s
    <3>1. sent'[q] = sent[q] + n /\ Bytes(q)' = Bytes(q) + n
      BY <2>1, <2>3, <2>4, <2>5, <1>t
    <3>2. pipe[q].writer # "eof"
      BY <2>1, <2>5, <1>b
    <3> QED BY SMTT(60), <2>1, <2>2, <3>1, <3>2, <1>b, <1>c, <1>n, <1>s DEF pipeVars
  <2>6. CASE q # s
    <3>1. sent'[q] = sent[q] /\ Bytes(q)' = Bytes(q)
      BY <2>1, <2>3, <2>4, <2>6, <1>t, <1>s
    <3> QED BY <2>1, <3>1, <1>b, <1>c DEF pipeVars
  <2> QED BY <2>5, <2>6
<1>2. ASSUME NEW frame \in Frames, frame.kind # "DATA", Puts(frame),
             UNCHANGED <<loop, cur, pipeVars, sent, ended>>
      PROVE  Goal
  <2>1. Bytes(q)' = Bytes(q) + 0
    BY <1>2, <1>t, WireAppended, FrameSizes DEF Puts
  <2> QED BY <1>2, <2>1, <1>c, <1>k, <1>s
<1>3. ASSUME NEW kind \in {"GOAWAY", "REFUSED", "CLOSE"}, ServerEnds(kind) PROVE Goal
  <2>1. Frame(kind) \in Frames /\ Frame(kind).kind # "DATA"
    BY DEF Frames, Frame
  <2> QED BY <2>1, <1>2, <1>3 DEF ServerEnds
<1>4. ASSUME NEW p \in Pings, ServerAcks(p) PROVE Goal
  <2>1. [kind |-> "PING_ACK", ping |-> p] \in Frames
    BY DEF Frames
  <2> QED BY <2>1, <1>2, <1>4 DEF ServerAcks
<1>5. CASE ServerGetsUpdates
  BY <1>5, <1>w, <1>c, <1>k, <1>s DEF ServerGetsUpdates
<1>6. ASSUME NEW kind \in {"SETTINGS", "REFUSED", "NOT_SETTINGS", "CLOSE"}, Handshake(kind)
      PROVE  Goal
  <2>1. InCur(q) = 0 /\ InCur(q)' = 0
    BY <1>6 DEF Handshake, InCur, Part, Frame
  <2> QED BY <1>6, <2>1, <1>w, <1>k, <1>s DEF Handshake, serverVars
<1>7. CASE SetReason \/ CloseDone
  <2>1. InCur(q)' = InCur(q)
    BY <1>7, OnceMoves DEF InCur, Part
  <2>2. UNCHANGED <<serverVars, pipeVars>>
    BY <1>7, OnceMoves
  <2> QED BY <2>1, <2>2, <1>w, <1>k, <1>s DEF serverVars
<1>8. CASE Stops \/ PrefaceFails
  <2>1. InCur(q) = 0 /\ InCur(q)' = 0
    BY <1>8 DEF Stops, PrefaceFails, InCur
  <2> QED BY <1>8, <2>1, <1>w, <1>k, <1>s DEF Stops, PrefaceFails, serverVars
<1>9. ASSUME NEW kind \in {"GOAWAY", "REFUSED"}, OnEnd(kind) PROVE Goal
  <2>1. Reads(kind) /\ loop = "read" /\ loop' = "once" /\ cur' = Head(wire) /\ UNCHANGED pipeVars
    BY <1>9 DEF OnEnd, Reads
  <2>2. /\ Head(wire).kind = kind /\ UNCHANGED <<sent, ended>>
        /\ Bytes(q) = Part(q, Head(wire)) + Bytes(q)' /\ Bytes(q)' \in Nat
    BY <2>1, ReadsHead
  <2>3. Part(q, Head(wire)) = 0
    BY <2>2 DEF Part
  <2>4. InCur(q) = 0 /\ InCur(q)' = 0
    BY <2>1, <2>3 DEF InCur, Part
  <2> QED BY <2>1, <2>2, <2>3, <2>4, <1>k
<1>10. CASE OnData
  <2>1. Reads("DATA") /\ loop = "read" /\ loop' \in {"once", "deliver"} /\ cur' = Head(wire)
        /\ UNCHANGED pipeVars
    BY <1>10 DEF OnData, Reads
  <2>2. /\ Head(wire) \in Frames /\ UNCHANGED <<sent, ended>>
        /\ Bytes(q) = Part(q, Head(wire)) + Bytes(q)' /\ Bytes(q)' \in Nat
    BY <2>1, ReadsHead
  <2>3. Part(q, Head(wire)) \in Nat
    BY <2>2, FrameSizes
  <2>4. InCur(q) = 0 /\ InCur(q)' = Part(q, Head(wire))
    BY <2>1 DEF InCur, Part
  <2> QED BY <2>1, <2>2, <2>3, <2>4, <1>k
<1>11. CASE Deliver
  <2> DEFINE s == cur.stream
  <2>1. /\ loop = "deliver" /\ cur.kind = "DATA" /\ s \in Streams /\ cur.n \in 0..MaxBytes
        /\ cur.end \in BOOLEAN
    BY <1>11 DEF Deliver, Typed, DataFrames
  <2>2. pipe[q].held = 0 /\ InCur(q) = IF q = s THEN cur.n ELSE 0
    BY <2>1, <1>h DEF InCur, Part
  <2>3. loop' \in {"read", "write"} /\ UNCHANGED <<wire, sent, ended>>
    BY <1>11 DEF Deliver, serverVars
  <2>4. InCur(q)' = 0 /\ Bytes(q)' = Bytes(q)
    BY <2>3, <1>w DEF InCur
  <2>5. CASE s \in over
    <3>1. UNCHANGED pipeVars
      BY <1>11, <2>5 DEF Deliver
    <3> QED BY <3>1, <2>2, <2>3, <2>4, <2>5, <1>b, <1>n, <1>s DEF pipeVars
  <2>6. CASE s \notin over /\ cur.n = 0
    <3>1. Ends(s, cur.end, 0)
      BY <1>11, <2>6 DEF Deliver
    <3>2. /\ \A r \in Streams : r # s => pipe'[r] = pipe[r]
          /\ pipe'[s].held = 0
          /\ pipe'[s].writer = IF cur.end /\ pipe[s].writer = "open" THEN "eof" ELSE pipe[s].writer
          /\ over' = (IF cur.end THEN over \cup {s} ELSE over) /\ got' = got
      BY <3>1, <2>1, <1>t, <1>n, EndsMoves
    <3>3. CASE q # s
      BY <3>2, <3>3, <2>2, <2>3, <2>4, <1>b, <1>n, <1>s
    <3>4. CASE q = s
      <4>1. cur.end => q \in ended /\ Bytes(q) = 0
        <5>1. cur.end => /\ q \in ended
                         /\ \A j \in DOMAIN wire : wire[j].kind = "DATA" => wire[j].stream # q
          BY <3>4, <2>1 DEF EndsInv
        <5> QED BY <5>1, <1>t, NoBytes
      <4>2. pipe[q].writer = "open" /\ got[q].n + Bytes(q) = sent[q]
        BY <3>4, <2>2, <2>6, <1>b, <1>n, <1>s
      <4> QED BY <4>1, <4>2, <3>2, <3>4, <2>2, <2>3, <2>4, <1>b, <1>n, <1>s
    <3> QED BY <3>3, <3>4
  <2>7. CASE s \notin over /\ cur.n # 0
    <3>1. Ends(s, FALSE, cur.n)
      BY <1>11, <2>7 DEF Deliver
    <3>2. /\ \A r \in Streams : r # s => pipe'[r] = pipe[r]
          /\ pipe'[s].held = cur.n /\ pipe'[s].writer = pipe[s].writer
          /\ over' = over /\ got' = got
      BY <3>1, <2>1, <1>t, EndsMoves
    <3>3. cur.n \in Nat
      BY <2>1
    <3> QED BY <3>2, <3>3, <2>2, <2>3, <2>4, <1>b, <1>n, <1>s
  <2> QED BY <2>5, <2>6, <2>7
<1>12. CASE WriteReturns
  <2> DEFINE s == cur.stream
  <2>1. /\ loop = "write" /\ cur.kind = "DATA" /\ s \in Streams /\ cur.end \in BOOLEAN
        /\ pipe[s].held = 0
    BY <1>12 DEF WriteReturns, Typed, DataFrames
  <2>2. loop' = "read" /\ UNCHANGED <<wire, sent, ended>> /\ Ends(s, cur.end, 0)
    BY <1>12 DEF WriteReturns, RefundsAndTells, serverVars
  <2>3. InCur(q) = 0 /\ InCur(q)' = 0 /\ Bytes(q)' = Bytes(q)
    BY <2>1, <2>2, <1>w DEF InCur
  <2>4. /\ \A r \in Streams : r # s => pipe'[r] = pipe[r]
        /\ pipe'[s].held = 0
        /\ pipe'[s].writer = IF cur.end /\ pipe[s].writer = "open" THEN "eof" ELSE pipe[s].writer
        /\ over' = (IF cur.end THEN over \cup {s} ELSE over) /\ got' = got
    BY <2>1, <2>2, <1>t, <1>n, EndsMoves
  <2>5. CASE q # s
    BY <2>2, <2>3, <2>4, <2>5, <1>b
  <2>6. CASE q = s
    <3>1. cur.end => q \in ended /\ Bytes(q) = 0
      <4>1. cur.end => /\ q \in ended
                       /\ \A j \in DOMAIN wire : wire[j].kind = "DATA" => wire[j].stream # q
        BY <2>6, <2>1 DEF EndsInv
      <4> QED BY <4>1, <1>t, NoBytes
    <3>2. pipe[q].writer = "open" => got[q].n + Bytes(q) = sent[q]
      BY <2>6, <2>1, <2>3, <1>b, <1>n, <1>s
    <3> QED BY <3>1, <3>2, <2>1, <2>2, <2>3, <2>4, <2>6, <1>b, <1>n, <1>s
  <2> QED BY <2>5, <2>6
<1>13. CASE WriteFails
  <2> DEFINE s == cur.stream
  <2>1. /\ s \in Streams /\ loop = "write" /\ loop' = "read"
        /\ \A r \in Streams : r # s => pipe'[r] = pipe[r]
        /\ pipe'[s].writer # "open"
        /\ pipe'[s].writer = "eof" => pipe[s].writer = "eof"
        /\ pipe[s].writer = "eof" => pipe'[s].writer = "eof"
        /\ over' = over \cup {s} /\ got' = got /\ UNCHANGED <<wire, sent, ended>>
    BY <1>13, FailsMoves DEF serverVars
  <2>2. InCur(q) = 0 /\ InCur(q)' = 0 /\ Bytes(q)' = Bytes(q)
    BY <2>1, <1>w DEF InCur
  <2> QED BY <2>1, <2>2, <1>b
<1>14. CASE OnPingAck
  <2>1. Reads("PING_ACK") /\ loop = "read" /\ loop' \in {"ack", "read"} /\ UNCHANGED pipeVars
    BY <1>14 DEF OnPingAck, Reads
  <2>2. /\ Head(wire).kind = "PING_ACK" /\ UNCHANGED <<sent, ended>>
        /\ Bytes(q) = Part(q, Head(wire)) + Bytes(q)' /\ Bytes(q)' \in Nat
    BY <2>1, ReadsHead
  <2>3. Part(q, Head(wire)) = 0 /\ InCur(q) = 0 /\ InCur(q)' = 0
    BY <2>1, <2>2 DEF Part, InCur
  <2> QED BY <2>1, <2>2, <2>3, <1>k
<1>15. ASSUME NEW s \in Streams, Using(s) PROVE Goal
  <2>1. UNCHANGED <<loop, cur, wire, sent, ended>>
    BY <1>15 DEF Using, ReadBody, ReadEOF, CloseReader, Reset, Piped, serverVars
  <2>2. InCur(q)' = InCur(q) /\ Bytes(q)' = Bytes(q)
    BY <2>1, <1>w, <1>c
  <2>3. ASSUME NEW l \in 1..MaxBytes, ReadBody(s, l) PROVE Goal
    <3>1. CASE q # s
      <4>1. pipe'[q] = pipe[q] /\ got'[q] = got[q] /\ over' = over
        BY <2>3, <3>1, <1>t DEF ReadBody, Pipes
      <4> QED BY <4>1, <2>1, <2>2, <1>b
    <3>2. CASE q = s
      <4>1. /\ pipe'[q].held = pipe[q].held - l /\ pipe'[q].writer = pipe[q].writer
            /\ got'[q].n = got[q].n + l /\ got'[q].eof = got[q].eof /\ over' = over
            /\ pipe[q].writer = "open" /\ l \in Nat
        BY <2>3, <3>2, <1>t DEF ReadBody, Pipes
      <4> QED BY <4>1, <2>1, <2>2, <1>b, <1>n, <1>s
    <3> QED BY <3>1, <3>2
  <2>4. CASE ReadEOF(s)
    <3>1. UNCHANGED <<over, pipe>> /\ got'[q].n = got[q].n
          /\ (got'[q].eof => got[q].eof \/ pipe[q].writer = "eof")
      BY <2>4, <1>t DEF ReadEOF
    <3> QED BY <3>1, <2>1, <2>2, <1>b
  <2>5. CASE CloseReader(s)
    <3>1. /\ pipe'[q].held = pipe[q].held /\ pipe'[q].writer = pipe[q].writer
          /\ UNCHANGED <<over, got>>
      BY <2>5, <1>t DEF CloseReader, Pipes
    <3> QED BY <3>1, <2>1, <2>2, <1>b
  <2>6. CASE Reset(s)
    <3>1. /\ \A r \in Streams : r # s => pipe'[r] = pipe[r]
          /\ pipe'[s].writer # "open" /\ (pipe'[s].writer = "eof" <=> pipe[s].writer = "eof")
          /\ over' = over \cup {s} /\ got' = got
      BY <2>6, ResetMoves
    <3> QED BY <3>1, <2>1, <2>2, <1>b
  <2> QED BY <1>15, <2>3, <2>4, <2>5, <2>6 DEF Using
<1>16. ASSUME NEW p \in Pings, Pinging(p) PROVE Goal
  <2>1. UNCHANGED <<pipeVars, serverVars>>
    BY <1>16 DEF Pinging, PingStarts, TimesOut, PingReturns, Delete, Close, WritePing, PingGoes
  <2>2. UNCHANGED <<loop, cur>> \/ (loop = "ack" /\ loop' = "read")
    BY <1>16 DEF Pinging, PingStarts, TimesOut, PingReturns, Delete, Close, WritePing
  <2>3. InCur(q)' = InCur(q)
    BY <2>2, <1>c DEF InCur
  <2> QED BY <2>1, <2>3, <1>w, <1>k, <1>s DEF serverVars
<1>17. CASE UNCHANGED vars
  BY <1>17, <1>w, <1>c, <1>k, <1>s DEF vars, serverVars
<1> QED BY <1>1, <1>3, <1>4, <1>5, <1>6, <1>7, <1>8, <1>9, <1>10, <1>11, <1>12, <1>13,
           <1>14, <1>15, <1>16, <1>17 DEF Next, FromServer, LoopStep

(* A frame that is appended or taken keeps the order of the others.        *)
LEMMA EndsStep == ReasonInv /\ Typed /\ EndsInv /\ [Next]_vars => EndsInv'
<1> SUFFICES ASSUME ReasonInv, Typed, EndsInv, [Next]_vars PROVE EndsInv'
  OBVIOUS
<1> USE DEF LoopGoes
<1>t. wire \in Seq(Frames) /\ ended \subseteq Streams /\ Len(wire) \in Nat /\ DOMAIN wire = 1..Len(wire)
  BY DEF Typed
<1> DEFINE Last(w, i, e) == w[i].kind = "DATA" /\ w[i].end =>
             /\ w[i].stream \in e
             /\ \A j \in (i + 1)..Len(w) : w[j].kind = "DATA" => w[j].stream # w[i].stream
           AtHand(w, c, e) == c.kind = "DATA" /\ c.end =>
             /\ c.stream \in e
             /\ \A j \in DOMAIN w : w[j].kind = "DATA" => w[j].stream # c.stream
           Busy(l) == l \in {"once", "closeDone", "deliver", "write"}
<1>e. /\ \A i \in DOMAIN wire : Last(wire, i, ended)
      /\ Busy(loop) => AtHand(wire, cur, ended)
  BY DEF EndsInv
<1>g. ASSUME \A i \in DOMAIN wire' : Last(wire', i, ended'), Busy(loop') => AtHand(wire', cur', ended')
      PROVE  EndsInv'
  BY <1>g DEF EndsInv
<1>k. ASSUME UNCHANGED <<wire, ended>>, Busy(loop') => Busy(loop) /\ cur' = cur PROVE EndsInv'
  BY <1>k, <1>e, <1>g
<1>a. ASSUME NEW frame \in Frames, Puts(frame), UNCHANGED <<loop, cur>>, ended \subseteq ended',
             frame.kind = "DATA" =>
               frame.stream \notin ended /\ (frame.end => frame.stream \in ended')
      PROVE  EndsInv'
  <2>1. /\ Len(wire') = Len(wire) + 1 /\ DOMAIN wire' = 1..(Len(wire) + 1)
        /\ \A i \in 1..Len(wire) : wire'[i] = wire[i]
        /\ wire'[Len(wire) + 1] = frame
    BY <1>a, <1>t, WireAppended DEF Puts
  <2>2. ASSUME NEW i \in DOMAIN wire' PROVE Last(wire', i, ended')
    <3>1. CASE i \in 1..Len(wire)
      <4>1. SUFFICES ASSUME wire[i].kind = "DATA", wire[i].end,
                            NEW j \in (i + 1)..(Len(wire) + 1), wire'[j].kind = "DATA"
                     PROVE  wire[i].stream \in ended' /\ wire'[j].stream # wire[i].stream
        BY <2>1, <3>1, <1>t, <1>e, <1>a
      <4>2. wire[i].stream \in ended
        BY <3>1, <4>1, <1>e, <1>t
      <4>3. CASE j = Len(wire) + 1
        BY <2>1, <4>1, <4>2, <4>3, <1>a
      <4>4. CASE j # Len(wire) + 1
        <5>1. j \in (i + 1)..Len(wire) /\ j \in 1..Len(wire)
          BY <3>1, <4>4, <1>t
        <5> QED BY <5>1, <2>1, <3>1, <4>1, <4>2, <1>e, <1>t, <1>a
      <4> QED BY <4>3, <4>4
    <3>2. CASE i = Len(wire) + 1
      <4>1. (i + 1)..Len(wire') = {}
        BY <2>1, <3>2, <1>t
      <4> QED BY <2>1, <3>2, <4>1, <1>a
    <3> QED BY <2>1, <3>1, <3>2, <1>t
  <2>3. ASSUME Busy(loop') PROVE AtHand(wire', cur', ended')
    <3>1. AtHand(wire, cur, ended) /\ cur' = cur
      BY <2>3, <1>a, <1>e
    <3>2. SUFFICES ASSUME cur.kind = "DATA", cur.end,
                          NEW j \in 1..(Len(wire) + 1), wire'[j].kind = "DATA"
                   PROVE  wire'[j].stream # cur.stream
      BY <2>1, <3>1, <1>a
    <3>3. cur.stream \in ended
      BY <3>1, <3>2
    <3> QED BY <2>1, <3>1, <3>2, <3>3, <1>a, <1>t
  <2> QED BY <2>2, <2>3, <1>g
<1>r. ASSUME NEW kind, Reads(kind), loop' # "write", Busy(loop') => cur' = Head(wire) PROVE EndsInv'
  <2>1. /\ Len(wire) = Len(wire') + 1 /\ wire' \in Seq(Frames)
        /\ \A i \in 1..Len(wire') : wire'[i] = wire[i + 1]
        /\ Head(wire) = wire[1] /\ ended' = ended
    BY <1>r, ReadsHead
  <2>2. Len(wire') \in Nat /\ DOMAIN wire' = 1..Len(wire')
    BY <2>1
  <2>3. ASSUME NEW i \in DOMAIN wire' PROVE Last(wire', i, ended')
    <3>1. i + 1 \in DOMAIN wire /\ wire'[i] = wire[i + 1]
      BY <2>1, <2>2, <2>3, <1>t
    <3>2. SUFFICES ASSUME wire[i + 1].kind = "DATA", wire[i + 1].end
                   PROVE  /\ wire[i + 1].stream \in ended
                          /\ \A j \in (i + 1)..Len(wire') :
                               wire'[j].kind = "DATA" => wire'[j].stream # wire[i + 1].stream
      BY <2>1, <3>1
    <3>3. /\ wire[i + 1].stream \in ended
          /\ \A j \in ((i + 1) + 1)..Len(wire) : wire[j].kind = "DATA" => wire[j].stream # wire[i + 1].stream
      BY <3>1, <3>2, <1>e
    <3>4. ASSUME NEW j \in (i + 1)..Len(wire'), wire'[j].kind = "DATA"
          PROVE  wire'[j].stream # wire[i + 1].stream
      <4>1. j + 1 \in ((i + 1) + 1)..Len(wire) /\ wire'[j] = wire[j + 1]
        BY <2>1, <2>2, <2>3
      <4> QED BY <4>1, <3>3, <3>4
    <3> QED BY <3>3, <3>4
  <2>4. ASSUME Busy(loop') PROVE AtHand(wire', cur', ended')
    <3>1. cur' = wire[1] /\ 1 \in DOMAIN wire
      BY <2>1, <2>2, <2>4, <1>r, <1>t
    <3>2. Last(wire, 1, ended)
      BY <3>1, <1>e
    <3>3. ASSUME wire[1].kind = "DATA", wire[1].end, NEW j \in DOMAIN wire', wire'[j].kind = "DATA"
          PROVE  wire'[j].stream # wire[1].stream
      <4>1. j + 1 \in (1 + 1)..Len(wire) /\ wire'[j] = wire[j + 1]
        BY <2>1, <2>2, <3>3
      <4> QED BY <4>1, <3>2, <3>3
    <3> QED BY <2>1, <3>1, <3>2, <3>3
  <2> QED BY <2>3, <2>4, <1>g
<1> HIDE DEF Last, AtHand
<1>1. ASSUME NEW s \in Streams, NEW n \in Lengths, NEW pad \in Pads, NEW end \in BOOLEAN,
             ServerData(s, n, pad, end)
      PROVE  EndsInv'
  <2>1. /\ s \notin ended /\ ended' = (IF end THEN ended \cup {s} ELSE ended)
        /\ Puts(Data(s, n, pad, end)) /\ sent[s] + n <= MaxBytes /\ UNCHANGED <<loop, cur>>
    BY <1>1 DEF ServerData
  <2>2. Data(s, n, pad, end) \in Frames
    <3>1. n \in 0..MaxBytes /\ pad \in Nat
      BY <2>1, ConnectionAssumption DEF Typed
    <3> QED BY <3>1 DEF Data, Frames, DataFrames
  <2>3. Data(s, n, pad, end).stream = s /\ Data(s, n, pad, end).end = end
    BY DEF Data
  <2> QED BY <2>1, <2>2, <2>3, <1>a
<1>2. ASSUME NEW kind \in {"GOAWAY", "REFUSED", "CLOSE"}, ServerEnds(kind) PROVE EndsInv'
  <2>1. Frame(kind) \in Frames /\ Frame(kind).kind # "DATA"
    BY DEF Frames, Frame
  <2> QED BY <2>1, <1>a, <1>2 DEF ServerEnds
<1>3. ASSUME NEW p \in Pings, ServerAcks(p) PROVE EndsInv'
  <2>1. [kind |-> "PING_ACK", ping |-> p] \in Frames
    BY DEF Frames
  <2> QED BY <2>1, <1>a, <1>3 DEF ServerAcks
<1>4. CASE ServerGetsUpdates
  BY <1>4, <1>k DEF ServerGetsUpdates
<1>5. ASSUME NEW kind \in {"SETTINGS", "REFUSED", "NOT_SETTINGS", "CLOSE"}, Handshake(kind)
      PROVE  EndsInv'
  <2>1. UNCHANGED <<wire, ended>> /\ cur'.kind # "DATA"
    BY <1>5 DEF Handshake, Frame, serverVars
  <2> QED BY <2>1, <1>e, <1>g DEF Last, AtHand
<1>6. CASE SetReason \/ CloseDone
  <2>1. UNCHANGED <<wire, ended>> /\ Busy(loop) /\ cur' = cur
    BY <1>6, OnceMoves DEF serverVars
  <2> QED BY <2>1, <1>k
<1>7. CASE Stops \/ PrefaceFails
  BY <1>7, <1>k DEF Stops, PrefaceFails, serverVars
<1>8. ASSUME NEW kind \in {"GOAWAY", "REFUSED"}, OnEnd(kind) PROVE EndsInv'
  BY <1>8, <1>r DEF OnEnd
<1>9. CASE OnData
  <2>1. Reads("DATA") /\ loop' \in {"deliver", "once"} /\ cur' = Head(wire)
    BY <1>9 DEF OnData
  <2> QED BY <2>1, <1>r
<1>10. CASE Deliver
  <2>1. UNCHANGED <<wire, ended>> /\ Busy(loop) /\ (Busy(loop') => cur' = cur)
    BY <1>10 DEF Deliver, serverVars
  <2> QED BY <2>1, <1>k
<1>11. CASE WriteReturns \/ WriteFails
  <2>1. UNCHANGED <<wire, ended>> /\ loop' = "read"
    BY <1>11 DEF WriteReturns, WriteFails, RefundsAndTells, serverVars
  <2> QED BY <2>1, <1>k
<1>12. CASE OnPingAck
  <2>1. Reads("PING_ACK") /\ loop' \in {"ack", "read"}
    BY <1>12 DEF OnPingAck, Reads
  <2> QED BY <2>1, <1>r
<1>13. ASSUME NEW s \in Streams, Using(s) PROVE EndsInv'
  <2>1. UNCHANGED <<loop, cur, wire, ended>>
    BY <1>13 DEF Using, ReadBody, ReadEOF, CloseReader, Reset, Piped, serverVars
  <2> QED BY <2>1, <1>k
<1>14. ASSUME NEW p \in Pings, Pinging(p) PROVE EndsInv'
  <2>1. UNCHANGED <<wire, ended>> /\ (UNCHANGED <<loop, cur>> \/ loop' = "read")
    BY <1>14 DEF Pinging, PingStarts, TimesOut, PingReturns, Delete, Close, WritePing, PingGoes, serverVars
  <2> QED BY <2>1, <1>k
<1>15. CASE UNCHANGED vars
  BY <1>15, <1>k DEF vars, serverVars
<1> QED BY <1>1, <1>2, <1>3, <1>4, <1>5, <1>6, <1>7, <1>8, <1>9, <1>10, <1>11, <1>12, <1>13,
           <1>14, <1>15 DEF Next, FromServer, LoopStep

-----------------------------------------------------------------------------
(* The window of the connection.                                           *)

(* What the server may send, or has sent, and what inflow has to cover.    *)
Promised == peerWindow + OnWire + updates
Held == inflow.remaining + inflow.queued + InProcess

(* A server whose window is negative has overdrawn it, with the last DATA  *)
(* frame that it has sent.                                                 *)
Lasts(w, i) == w[i].kind = "DATA" /\ Size(w[i]) >= -peerWindow
Overdraws ==
  peerWindow < 0 =>
    /\ overdrawn
    /\ \A i \in DOMAIN wire : wire[i].kind = "DATA" => \E j \in i..Len(wire) : Lasts(wire, j)

(* x is the size of the frame that was delivered though inflow did not     *)
(* cover it: there is at most one, and the server has x less to send.      *)
Spare(x) ==
  /\ Held <= SelfWindow + x /\ Promised + x <= inflow.remaining
  /\ x > 0 => overdrawn /\ peerWindow >= -x

Accused == (loop \in {"once", "closeDone"} /\ cur.kind = "DATA") \/ reason = "flow"

WindowInv == Overdraws /\ (\E x \in 0..Half : Spare(x)) /\ (Accused => overdrawn)

LEMMA WindowStep == ReasonInv /\ Typed /\ HeldInv /\ WindowInv /\ [Next]_vars => WindowInv'
<1> SUFFICES ASSUME ReasonInv, Typed, HeldInv, WindowInv, [Next]_vars PROVE WindowInv'
  OBVIOUS
<1> USE DEF LoopGoes
<1>t. /\ wire \in Seq(Frames) /\ Len(wire) \in Nat /\ DOMAIN wire = 1..Len(wire)
      /\ peerWindow \in Int /\ updates \in Nat /\ OnWire \in Nat
      /\ inflow.remaining \in Nat /\ inflow.queued \in Nat
      /\ Half \in Nat /\ SelfWindow \in Nat /\ overdrawn \in BOOLEAN
  BY WireNat, FlowAssumption, ConnectionAssumption DEF Typed
<1>c. cur \in DataFrames =>
        /\ cur.stream \in Streams /\ cur.n \in Nat /\ cur.pad \in Nat /\ cur.kind = "DATA"
        /\ Size(cur) = cur.n + cur.pad
  BY ConnectionAssumption DEF DataFrames, Size
<1>p. InProcess \in Nat
  BY <1>c DEF InProcess, Typed, Size
<1>x. PICK x \in 0..Half : Spare(x)
  BY DEF WindowInv
<1>z. /\ peerWindow \in Int /\ updates \in Nat /\ OnWire \in Nat
      /\ inflow.remaining \in Nat /\ inflow.queued \in Nat
      /\ Half \in Nat /\ SelfWindow \in Nat
  BY <1>t
<1>v. x = 0 \/ peerWindow + x >= 0
  BY <1>z, <1>x DEF Spare
<1>y. /\ x \in Nat /\ x <= Half /\ Held \in Nat /\ Promised \in Int
      /\ Held <= SelfWindow + x /\ Promised + x <= inflow.remaining
      /\ x > 0 => overdrawn /\ peerWindow >= -x
  BY <1>t, <1>p, <1>x DEF Spare, Held, Promised
<1>w. wire' = wire => OnWire' = OnWire
  BY DEF OnWire
<1>k. ASSUME UNCHANGED <<wire, peerWindow, overdrawn>>,
             updates' \in Nat, InProcess' \in Nat, inflow'.remaining \in Nat, inflow'.queued \in Nat,
             Held' <= Held, updates' - updates <= inflow'.remaining - inflow.remaining,
             Accused' => Accused
      PROVE  WindowInv'
  <2>1. Overdraws'
    BY <1>k DEF WindowInv, Overdraws, Lasts, Size
  <2>2. Spare(x)'
    <3>1. Promised' = Promised + (updates' - updates)
      BY <1>k, <1>w, <1>t DEF Promised
    <3>2. Promised' + x <= inflow'.remaining
      <4>1. /\ updates' \in Nat /\ inflow'.remaining \in Nat
            /\ updates' - updates <= inflow'.remaining - inflow.remaining
        BY <1>k
      <4> QED BY <3>1, <4>1, <1>z, <1>y
    <3>3. Held' <= SelfWindow + x
      <4>1. Held' \in Nat
        BY SMTT(60), <1>k, <1>t DEF Held
      <4> QED BY <4>1, <1>k, <1>t, <1>y
    <3> QED BY <3>2, <3>3, <1>k, <1>y DEF Spare
  <2> QED BY <2>1, <2>2, <1>k DEF WindowInv
<1>a. ASSUME NEW frame \in Frames, Puts(frame), UNCHANGED <<loop, cur, reason, inflow, updates>>,
             peerWindow' = peerWindow - Size(frame), overdrawn => overdrawn',
             frame.kind = "DATA" => /\ Size(frame) <= peerWindow \/ ~overdrawn
                                    /\ Size(frame) > peerWindow => overdrawn'
      PROVE  WindowInv'
  <2>1. /\ Size(frame) \in Nat /\ (frame.kind # "DATA" => Size(frame) = 0)
        /\ Len(wire') = Len(wire) + 1 /\ DOMAIN wire' = 1..(Len(wire) + 1)
        /\ \A i \in 1..Len(wire) : wire'[i] = wire[i]
        /\ wire'[Len(wire) + 1] = frame
        /\ OnWire' = OnWire + Size(frame)
    BY <1>a, <1>t, WireAppended, FrameSizes DEF Puts
  <2>2. Overdraws'
    <3>1. SUFFICES ASSUME peerWindow' < 0
                   PROVE  /\ overdrawn'
                          /\ \A i \in DOMAIN wire' : wire'[i].kind = "DATA" =>
                               \E j \in i..Len(wire') :
                                 wire'[j].kind = "DATA" /\ Size(wire'[j]) >= -peerWindow'
      BY DEF Overdraws, Lasts, Size
    <3>2. CASE frame.kind = "DATA"
      <4>1. peerWindow >= 0 /\ Size(frame) > peerWindow
        <5>1. Size(frame) > peerWindow
          BY <3>1, <2>1, <1>a, <1>t
        <5>2. ~overdrawn
          BY <5>1, <3>2, <2>1, <1>a, <1>t
        <5> QED BY <5>1, <5>2, <1>t DEF WindowInv, Overdraws
      <4>2. Size(frame)' = Size(frame)
        BY DEF Size
      <4>3. Size(frame) >= -peerWindow'
        BY <4>1, <2>1, <1>a, <1>t
      <4>4. wire'[Len(wire')].kind = "DATA" /\ Size(wire'[Len(wire')]) >= -peerWindow'
        BY <2>1, <3>2, <4>3
      <4>5. \A i \in DOMAIN wire' : Len(wire') \in i..Len(wire')
        BY <2>1, <1>t
      <4> QED BY <4>1, <4>4, <4>5, <3>2, <1>a
    <3>3. CASE frame.kind # "DATA"
      <4>1. peerWindow' = peerWindow /\ peerWindow < 0
        BY <3>1, <3>3, <2>1, <1>a, <1>t
      <4>2. ASSUME NEW i \in DOMAIN wire', wire'[i].kind = "DATA"
            PROVE  \E j \in i..Len(wire') : wire'[j].kind = "DATA" /\ Size(wire'[j]) >= -peerWindow'
        <5>1. i \in 1..Len(wire) /\ wire'[i] = wire[i]
          BY <4>2, <2>1, <3>3, <1>t
        <5>2. PICK j \in i..Len(wire) : Lasts(wire, j)
          BY <5>1, <4>1, <4>2, <1>t DEF WindowInv, Overdraws
        <5>3. j \in i..Len(wire') /\ wire'[j] = wire[j]
          BY <5>1, <5>2, <2>1, <1>t
        <5> QED BY <5>2, <5>3, <4>1 DEF Lasts
      <4> QED BY <4>1, <4>2, <1>a DEF WindowInv, Overdraws
    <3> QED BY <3>2, <3>3
  <2>3. Spare(x)'
    <3>1. Promised' = Promised /\ Held' = Held
      BY <2>1, <1>a, <1>t DEF Promised, Held, InProcess, Size
    <3>2. x > 0 => overdrawn' /\ peerWindow' >= -x
      BY <2>1, <1>a, <1>t, <1>y DEF Spare
    <3> QED BY <3>1, <3>2, <1>a, <1>y DEF Spare
  <2> QED BY <2>2, <2>3, <1>a DEF WindowInv, Accused
<1>h. ASSUME NEW kind, Reads(kind)
      PROVE  /\ Overdraws'
             /\ Head(wire) \in Frames /\ Head(wire).kind = kind
             /\ OnWire = Size(Head(wire)) + OnWire' /\ OnWire' \in Nat
             /\ UNCHANGED <<peerWindow, overdrawn>>
  <2>1. /\ Len(wire) = Len(wire') + 1 /\ wire' \in Seq(Frames)
        /\ \A i \in 1..Len(wire') : wire'[i] = wire[i + 1]
        /\ Head(wire) \in Frames /\ Head(wire).kind = kind
        /\ OnWire = Size(Head(wire)) + OnWire' /\ OnWire' \in Nat
        /\ UNCHANGED <<peerWindow, overdrawn>>
    BY <1>h, ReadsHead
  <2>2. Len(wire') \in Nat /\ DOMAIN wire' = 1..Len(wire')
    BY <2>1
  <2>3. ASSUME peerWindow < 0, NEW i \in DOMAIN wire', wire'[i].kind = "DATA"
        PROVE  \E j \in i..Len(wire') : wire'[j].kind = "DATA" /\ Size(wire'[j]) >= -peerWindow
    <3>1. i + 1 \in DOMAIN wire /\ wire'[i] = wire[i + 1]
      BY <2>1, <2>2, <2>3, <1>t
    <3>2. PICK j \in (i + 1)..Len(wire) : Lasts(wire, j)
      BY <3>1, <2>3 DEF WindowInv, Overdraws
    <3>3. j - 1 \in i..Len(wire') /\ wire'[j - 1] = wire[(j - 1) + 1] /\ (j - 1) + 1 = j
      BY <2>1, <2>2, <2>3, <3>2
    <3> QED BY <3>2, <3>3 DEF Lasts
  <2>4. Overdraws'
    BY <2>1, <2>3 DEF WindowInv, Overdraws, Lasts, Size
  <2> QED BY <2>1, <2>4
<1>r. ASSUME NEW kind, kind # "DATA", Reads(kind), UNCHANGED <<inflow, updates, reason>>,
             InProcess = 0, InProcess' = 0, Accused' => Accused
      PROVE  WindowInv'
  <2>1. /\ Overdraws' /\ Head(wire) \in Frames /\ Head(wire).kind = kind
        /\ OnWire = Size(Head(wire)) + OnWire' /\ OnWire' \in Nat
        /\ UNCHANGED <<peerWindow, overdrawn>>
    BY <1>r, <1>h
  <2>2. OnWire' = OnWire
    BY <2>1, <1>r, FrameSizes
  <2>3. Promised' = Promised /\ Held' = Held
    BY <2>1, <2>2, <1>r DEF Promised, Held
  <2>4. Spare(x)'
    BY <2>1, <2>3, <1>r, <1>y DEF Spare
  <2> QED BY <2>1, <2>4, <1>r DEF WindowInv
<1>1. ASSUME NEW s \in Streams, NEW n \in Lengths, NEW pad \in Pads, NEW end \in BOOLEAN,
             ServerData(s, n, pad, end)
      PROVE  WindowInv'
  <2> DEFINE frame == Data(s, n, pad, end)
  <2>1. frame \in Frames
    <3>1. n \in 0..MaxBytes /\ pad \in Nat
      BY <1>1, ConnectionAssumption DEF ServerData, Typed
    <3> QED BY <3>1 DEF Data, Frames, DataFrames
  <2>2. Size(frame) = n + pad
    BY DEF Data, Size
  <2> HIDE DEF frame
  <2>3. /\ Puts(frame) /\ peerWindow' = peerWindow - Size(frame)
        /\ overdrawn' = (overdrawn \/ Size(frame) > peerWindow)
        /\ Size(frame) <= peerWindow \/ ~overdrawn
        /\ UNCHANGED <<loop, cur, reason, inflow, updates>>
    BY <1>1, <2>2 DEF ServerData, onceVars, frame
  <2> QED BY <2>1, <2>3, <1>a
<1>2. ASSUME NEW frame \in Frames, frame.kind # "DATA", Puts(frame),
             UNCHANGED <<loop, cur, reason, inflow, updates, peerWindow, overdrawn>>
      PROVE  WindowInv'
  <2>1. peerWindow' = peerWindow - Size(frame)
    BY <1>2, <1>t, FrameSizes
  <2> QED BY <2>1, <1>2, <1>a
<1>3. ASSUME NEW kind \in {"GOAWAY", "REFUSED", "CLOSE"}, ServerEnds(kind) PROVE WindowInv'
  <2>1. Frame(kind) \in Frames /\ Frame(kind).kind # "DATA"
    BY DEF Frames, Frame
  <2> QED BY <2>1, <1>2, <1>3 DEF ServerEnds, onceVars
<1>4. ASSUME NEW p \in Pings, ServerAcks(p) PROVE WindowInv'
  <2>1. [kind |-> "PING_ACK", ping |-> p] \in Frames
    BY DEF Frames
  <2> QED BY <2>1, <1>2, <1>4 DEF ServerAcks, onceVars
<1>5. CASE ServerGetsUpdates
  <2>1. /\ peerWindow' = peerWindow + updates /\ updates' = 0
        /\ UNCHANGED <<loop, cur, reason, wire, inflow, overdrawn>>
    BY <1>5 DEF ServerGetsUpdates, onceVars
  <2>2. Overdraws'
    <3>1. SUFFICES ASSUME peerWindow' < 0
                   PROVE  /\ overdrawn
                          /\ \A i \in DOMAIN wire : wire[i].kind = "DATA" =>
                               \E j \in i..Len(wire) : wire[j].kind = "DATA" /\ Size(wire[j]) >= -peerWindow'
      BY <2>1 DEF Overdraws, Lasts, Size
    <3>2. peerWindow < 0
      BY <3>1, <2>1, <1>t
    <3>3. ASSUME NEW i \in DOMAIN wire, wire[i].kind = "DATA"
          PROVE  \E j \in i..Len(wire) : wire[j].kind = "DATA" /\ Size(wire[j]) >= -peerWindow'
      <4>1. PICK j \in i..Len(wire) : Lasts(wire, j)
        BY <3>2, <3>3 DEF WindowInv, Overdraws
      <4>2. j \in DOMAIN wire /\ wire[j] \in Frames
        BY <4>1, <1>t
      <4>3. Size(wire[j]) \in Nat
        BY <4>2, FrameSizes
      <4> QED BY <4>1, <4>3, <2>1, <1>t DEF Lasts
    <3> QED BY <3>2, <3>3 DEF WindowInv, Overdraws
  <2>3. Spare(x)'
    <3>1. Promised' = Promised /\ Held' = Held
      BY <2>1, <1>t, <1>w DEF Promised, Held, InProcess, Size
    <3> QED BY <3>1, <2>1, <1>t, <1>y DEF Spare
  <2> QED BY <2>1, <2>2, <2>3 DEF WindowInv, Accused
<1>6. ASSUME NEW kind \in {"SETTINGS", "REFUSED", "NOT_SETTINGS", "CLOSE"}, Handshake(kind)
      PROVE  WindowInv'
  <2>1. /\ loop = "handshake" /\ loop' \in {"read", "once"} /\ cur'.kind # "DATA"
        /\ UNCHANGED <<wire, peerWindow, overdrawn, inflow, updates, reason>>
    BY <1>6 DEF Handshake, Frame, onceVars, serverVars
  <2>2. InProcess = 0 /\ InProcess' = 0
    BY <2>1 DEF InProcess, Size
  <2> QED BY <2>1, <2>2, <1>k, <1>t DEF Held, Accused
<1>7. CASE SetReason \/ CloseDone
  <2>1. /\ loop \in {"once", "closeDone"} /\ cur' = cur
        /\ loop' \in {"closeDone", "deliver", "read", "ended"}
        /\ loop' \in {"closeDone", "deliver"} \/ cur.kind # "DATA"
        /\ UNCHANGED <<wire, peerWindow, overdrawn, inflow, updates>>
    BY <1>7, OnceMoves DEF serverVars
  <2>2. InProcess' = InProcess
    BY <2>1 DEF InProcess, Size
  <2>3. Accused' => Accused
    <3>1. reason' = "flow" => reason = "flow" \/ cur.kind = "DATA"
      <4>1. cur.kind \in DOMAIN Why
        BY <2>1 DEF ReasonInv
      <4>2. Why[cur.kind] = "flow" => cur.kind = "DATA"
        BY <4>1 DEF Why
      <4> QED BY <1>7, <4>2 DEF SetReason, CloseDone
    <3> QED BY <2>1, <3>1 DEF Accused
  <2> QED BY <2>1, <2>2, <2>3, <1>k, <1>t, <1>p DEF Held
<1>8. CASE Stops \/ PrefaceFails
  <2>1. /\ loop \in {"read", "handshake"} /\ loop' = "ended"
        /\ UNCHANGED <<wire, peerWindow, overdrawn, inflow, updates, reason>>
    BY <1>8 DEF Stops, PrefaceFails, onceVars, serverVars
  <2>2. InProcess = 0 /\ InProcess' = 0
    BY <2>1 DEF InProcess
  <2> QED BY <2>1, <2>2, <1>k, <1>t DEF Held, Accused
<1>9. ASSUME NEW kind \in {"GOAWAY", "REFUSED"}, OnEnd(kind) PROVE WindowInv'
  <2>1. /\ Reads(kind) /\ loop = "read" /\ loop' = "once" /\ cur'.kind # "DATA"
        /\ UNCHANGED <<inflow, updates, reason>>
    BY <1>9 DEF OnEnd, Reads, onceVars
  <2>2. InProcess = 0 /\ InProcess' = 0
    BY <2>1 DEF InProcess, Size
  <2> QED BY <2>1, <2>2, <1>r DEF Accused
<1>10. CASE OnData
  <2> DEFINE size == Size(Head(wire))
  <2>1. /\ Reads("DATA") /\ loop = "read" /\ cur' = Head(wire)
        /\ UNCHANGED <<updates, reason>>
    BY <1>10 DEF OnData, Reads, onceVars
  <2>2. /\ Overdraws' /\ Head(wire) \in Frames /\ Head(wire).kind = "DATA"
        /\ OnWire = size + OnWire' /\ OnWire' \in Nat
        /\ UNCHANGED <<peerWindow, overdrawn>>
    BY <2>1, <1>h
  <2>3. size \in Nat /\ size <= Half /\ InProcess = 0 /\ (loop' \in {"once", "deliver"} => InProcess' = size)
    BY <2>1, <2>2, FrameSizes DEF InProcess, Size
  <2>4. /\ inflow' = AfterCheckAndPay(inflow, size)
        /\ loop' = IF CanPay(inflow, size) THEN "deliver" ELSE "once"
    BY <1>10, <2>2 DEF OnData, Size
  <2> HIDE DEF size
  <2>n. /\ size \in Nat /\ size <= Half /\ OnWire' = OnWire - size /\ OnWire' \in Nat
        /\ peerWindow' = peerWindow /\ updates' = updates /\ overdrawn' = overdrawn
        /\ InProcess = 0 /\ (loop' \in {"once", "deliver"} => InProcess' = size)
    <3>1. ASSUME NEW o \in Nat, NEW p \in Nat, o = size + p PROVE p = o - size
      BY <3>1, <2>3
    <3> QED BY <3>1, <2>1, <2>2, <2>3, <1>z
  <2>5. CASE inflow.remaining >= size
    <3>1. loop' = "deliver" /\ inflow' = [inflow EXCEPT !.remaining = @ - size]
      BY <2>4, <2>5 DEF CanPay, AfterCheckAndPay
    <3>2. inflow'.remaining = inflow.remaining - size /\ inflow'.queued = inflow.queued
      BY <3>1 DEF Typed
    <3>3. Promised' = Promised - size /\ Held' = Held
      BY <2>n, <3>1, <3>2, <1>z DEF Promised, Held
    <3>4. Promised' \in Int
      BY <2>n, <1>z DEF Promised
    <3>5. Spare(x)'
      BY <2>n, <3>2, <3>3, <3>4, <1>z, <1>y DEF Spare
    <3> QED BY <2>1, <2>2, <3>1, <3>5 DEF WindowInv, Accused
  <2>6. CASE ~(inflow.remaining >= size)
    <3>1. loop' = "once" /\ inflow' = inflow
      BY <2>4, <2>6 DEF CanPay, AfterCheckAndPay
    <3>2. Promised' = Promised - size /\ Held' = Held + size
      BY <2>n, <3>1, <1>z DEF Promised, Held
    <3>3. peerWindow + OnWire' + updates + x < 0
      <4>1. Promised + x < size
        BY <2>n, <2>6, <1>z, <1>y
      <4> QED BY <4>1, <2>n, <1>z, <1>y DEF Promised
    <3>4. peerWindow < 0 /\ x = 0
      BY <2>n, <3>3, <1>z, <1>y, <1>v
    <3>5. overdrawn
      BY <3>4 DEF WindowInv, Overdraws
    <3>6. peerWindow >= -size
      <4>1. /\ Len(wire) = Len(wire') + 1 /\ wire' \in Seq(Frames) /\ Head(wire) = wire[1]
            /\ \A i \in 1..Len(wire') : wire'[i] = wire[i + 1]
        BY <2>1, ReadsHead
      <4>2. 1 \in DOMAIN wire /\ DOMAIN wire' = 1..Len(wire') /\ Len(wire') \in Nat
        BY <4>1, <1>t
      <4>3. PICK j \in 1..Len(wire) : Lasts(wire, j)
        BY <2>2, <3>4, <4>1, <4>2 DEF WindowInv, Overdraws
      <4>4. CASE j = 1
        <5>1. size >= -peerWindow
          BY <4>1, <4>3, <4>4 DEF Lasts, size
        <5> QED BY <5>1, <2>3, <1>t
      <4>5. CASE j # 1
        <5>1. j - 1 \in DOMAIN wire' /\ wire'[j - 1] = wire[(j - 1) + 1] /\ (j - 1) + 1 = j
          BY <4>1, <4>2, <4>5
        <5>2. Size(wire[j]) <= OnWire' /\ Size(wire[j]) \in Nat
          <6>1. \A i \in DOMAIN wire' : Size(wire'[i]) <= OnWire'
            BY <4>1, FrameSums DEF OnWire, Size
          <6>2. wire[j] \in Frames
            BY <4>3, <1>t
          <6>3. wire'[j - 1] = wire[j]
            BY <5>1
          <6>4. Size(wire'[j - 1]) <= OnWire'
            BY <5>1, <6>1
          <6> QED BY <6>2, <6>3, <6>4, FrameSizes
        <5>3. Size(wire[j]) >= -peerWindow
          BY <4>3 DEF Lasts
        <5>4. FALSE
          BY <5>2, <5>3, <3>3, <2>n, <1>z, <1>y
        <5> QED BY <5>4
      <4> QED BY <4>4, <4>5
    <3>7. PICK y \in 0..Half : y = size
      BY <2>n, <1>z
    <3>8. Spare(y)'
      <4>1. Promised' \in Int
        BY <2>n, <1>z DEF Promised
      <4>2. Held <= SelfWindow /\ Promised <= inflow.remaining
        BY <3>4, <1>z, <1>y
      <4>3. Held' <= SelfWindow + size /\ Promised' + size <= inflow.remaining
        BY <4>1, <4>2, <3>2, <2>n, <1>z, <1>y
      <4>4. inflow'.remaining = inflow.remaining /\ overdrawn' /\ peerWindow' >= -size
        BY <3>1, <3>5, <3>6, <2>n
      <4> QED BY <3>7, <4>3, <4>4 DEF Spare
    <3> QED BY <2>2, <3>5, <3>8 DEF WindowInv
  <2> QED BY <2>5, <2>6
<1>11. CASE Deliver
  <2>1. /\ loop = "deliver" /\ cur \in DataFrames
        /\ inflow' = IF cur.pad > 0 THEN AfterRefund(inflow, cur.pad) ELSE inflow
        /\ loop' = "read" \/ (loop' = "write" /\ cur' = cur)
        /\ UNCHANGED <<wire, peerWindow, overdrawn, updates, reason>>
    BY <1>11 DEF Deliver, Typed, onceVars, serverVars
  <2>2. /\ AfterRefund(inflow, cur.pad) \in [remaining : Nat, queued : 0..(InflowMinRefresh - 1)]
        /\ Increment(inflow, cur.pad) \in Nat
        /\ AfterRefund(inflow, cur.pad).remaining = inflow.remaining + Increment(inflow, cur.pad)
        /\ AfterRefund(inflow, cur.pad).queued = inflow.queued + cur.pad - Increment(inflow, cur.pad)
    BY <2>1, <1>c, RefundMoves
  <2>3. /\ inflow'.remaining \in Nat /\ inflow'.queued \in Nat /\ inflow'.remaining >= inflow.remaining
        /\ inflow'.remaining + inflow'.queued = inflow.remaining + inflow.queued + cur.pad
    <3>1. CASE cur.pad > 0
      <4>1. inflow' = AfterRefund(inflow, cur.pad)
        BY <2>1, <3>1
      <4>2. inflow'.remaining \in Nat /\ inflow'.queued \in Nat
        BY <4>1, <2>2, FlowAssumption
      <4> QED BY <4>1, <4>2, <2>1, <2>2, <1>c, <1>z
    <3>2. CASE ~(cur.pad > 0)
      <4>1. inflow' = inflow /\ cur.pad = 0
        BY <2>1, <3>2, <1>c
      <4> QED BY <4>1, <1>z
    <3> QED BY <3>1, <3>2
  <2>4. InProcess = cur.n + cur.pad /\ InProcess' \in {0, cur.n} /\ cur.n \in Nat /\ cur.pad \in Nat
    BY <2>1, <1>c DEF InProcess
  <2>5. Held' <= Held
    BY <2>3, <2>4, <1>z DEF Held
  <2>6. updates' - updates <= inflow'.remaining - inflow.remaining
    BY <2>1, <2>3, <1>z
  <2>7. InProcess' \in Nat /\ updates' \in Nat /\ (Accused' => Accused)
    BY <2>1, <2>4, <1>z DEF Accused
  <2> QED BY <2>1, <2>3, <2>5, <2>6, <2>7, <1>k
<1>12. ASSUME NEW n \in Nat, n <= cur.n, loop = "write", RefundsAndTells(n) PROVE WindowInv'
  <2>1. /\ cur \in DataFrames /\ loop' = "read"
        /\ inflow' = AfterRefund(inflow, n) /\ updates' = updates + Increment(inflow, n)
        /\ UNCHANGED <<wire, peerWindow, overdrawn, reason>>
    BY <1>12 DEF RefundsAndTells, Typed, onceVars, serverVars
  <2>2. /\ inflow' \in [remaining : Nat, queued : 0..(InflowMinRefresh - 1)]
        /\ Increment(inflow, n) \in Nat
        /\ inflow'.remaining = inflow.remaining + Increment(inflow, n)
        /\ inflow'.queued = inflow.queued + n - Increment(inflow, n)
    BY <2>1, RefundMoves
  <2>3. inflow'.remaining \in Nat /\ inflow'.queued \in Nat /\ updates' \in Nat
    BY <2>1, <2>2, <1>z, FlowAssumption
  <2>4. InProcess = cur.n /\ InProcess' = 0 /\ cur.n \in Nat
    BY <2>1, <1>12, <1>c DEF InProcess
  <2>5. Held' <= Held
    BY <2>2, <2>3, <2>4, <1>12, <1>z DEF Held
  <2>6. updates' - updates <= inflow'.remaining - inflow.remaining
    BY <2>1, <2>2, <2>3, <1>z
  <2>7. Accused' => Accused
    BY <2>1 DEF Accused
  <2> QED BY <2>1, <2>3, <2>4, <2>5, <2>6, <2>7, <1>k
<1>13. CASE WriteReturns
  <2>1. loop = "write" /\ cur \in DataFrames /\ RefundsAndTells(cur.n)
    BY <1>13 DEF WriteReturns, Typed
  <2>2. cur.n \in Nat /\ cur.n <= cur.n
    BY <2>1, <1>c
  <2> QED BY <2>1, <2>2, <1>12
<1>14. CASE WriteFails
  <2>1. /\ loop = "write" /\ cur.stream \in Streams /\ pipe[cur.stream].held \in Nat \ {0}
        /\ RefundsAndTells(pipe[cur.stream].held)
    BY <1>14, FailsMoves DEF WriteFails
  <2>2. pipe[cur.stream].held <= cur.n
    BY <2>1 DEF HeldInv
  <2> QED BY <2>1, <2>2, <1>12
<1>15. CASE OnPingAck
  <2>1. /\ Reads("PING_ACK") /\ loop = "read" /\ loop' \in {"ack", "read"}
        /\ UNCHANGED <<inflow, updates, reason>>
    BY <1>15 DEF OnPingAck, Reads, onceVars
  <2>2. InProcess = 0 /\ InProcess' = 0
    BY <2>1 DEF InProcess
  <2> QED BY <2>1, <2>2, <1>r DEF Accused
<1>16. ASSUME UNCHANGED <<wire, peerWindow, overdrawn, inflow, updates, reason>>,
              UNCHANGED <<loop, cur>> \/ (loop = "ack" /\ loop' = "read")
       PROVE  WindowInv'
  <2>1. InProcess' = InProcess
    BY <1>16 DEF InProcess, Size
  <2> QED BY <2>1, <1>16, <1>k, <1>z, <1>p DEF Held, Accused
<1>17. ASSUME NEW s \in Streams, Using(s) PROVE WindowInv'
  <2>1. UNCHANGED <<loop, cur, wire, peerWindow, overdrawn, inflow, updates, reason>>
    BY <1>17 DEF Using, ReadBody, ReadEOF, CloseReader, Reset, Piped, onceVars, serverVars
  <2> QED BY <2>1, <1>16
<1>18. ASSUME NEW p \in Pings, Pinging(p) PROVE WindowInv'
  <2>1. UNCHANGED <<wire, peerWindow, overdrawn, inflow, updates, reason>>
    BY <1>18 DEF Pinging, PingStarts, TimesOut, PingReturns, Delete, Close, WritePing, PingGoes, onceVars, serverVars
  <2>2. UNCHANGED <<loop, cur>> \/ (loop = "ack" /\ loop' = "read")
    BY <1>18 DEF Pinging, PingStarts, TimesOut, PingReturns, Delete, Close, WritePing
  <2> QED BY <2>1, <2>2, <1>16
<1>19. CASE UNCHANGED vars
  BY <1>19, <1>16 DEF vars, onceVars, serverVars
<1> QED BY <1>1, <1>3, <1>4, <1>5, <1>6, <1>7, <1>8, <1>9, <1>10, <1>11, <1>13, <1>14, <1>15,
           <1>17, <1>18, <1>19 DEF Next, FromServer, LoopStep

-----------------------------------------------------------------------------
(* The tokens of the window.                                               *)

(* What TokensKept says of a step.                                         *)
KeepsTokens ==
  /\ Tokens' <= Tokens
  /\ Tokens' < Tokens =>
       \/ loop = "deliver" /\ (cur.stream \in over \/ Increment(inflow, cur.pad) > 0)
       \/ loop = "write" /\ pipe[cur.stream].held \in 1..(cur.n - 1)

LEMMA TokensStep == ReasonInv /\ Typed /\ HeldInv /\ [Next]_vars => KeepsTokens
<1> SUFFICES ASSUME ReasonInv, Typed, HeldInv, [Next]_vars PROVE KeepsTokens
  OBVIOUS
<1> USE DEF LoopGoes
<1>t. wire \in Seq(Frames)
  BY DEF Typed
<1>z. /\ peerWindow \in Int /\ updates \in Nat /\ OnWire \in Nat /\ inflow.queued \in Nat
  BY WireNat, FlowAssumption DEF Typed
<1>c. cur \in DataFrames =>
        /\ cur.stream \in Streams /\ cur.n \in Nat /\ cur.pad \in Nat /\ cur.kind = "DATA"
        /\ Size(cur) = cur.n + cur.pad
  BY ConnectionAssumption DEF DataFrames, Size
<1>p. InProcess \in Nat
  BY <1>c DEF InProcess, Typed, Size
<1>s. Tokens \in Int
  BY <1>z, <1>p DEF Tokens
<1>w. wire' = wire => OnWire' = OnWire
  BY DEF OnWire
<1>e. Tokens' = Tokens => KeepsTokens
  BY <1>s DEF KeepsTokens
<1>k. ASSUME UNCHANGED <<wire, peerWindow, updates>>, inflow'.queued = inflow.queued,
             InProcess' = InProcess
      PROVE  KeepsTokens
  <2>1. Tokens' = Tokens
    BY <1>k, <1>w DEF Tokens
  <2> QED BY <2>1, <1>e
<1>a. ASSUME NEW frame \in Frames, Puts(frame), UNCHANGED <<loop, cur, inflow, updates>>,
             peerWindow' = peerWindow - Size(frame)
      PROVE  KeepsTokens
  <2>1. OnWire' = OnWire + Size(frame) /\ Size(frame) \in Nat
    BY <1>a, <1>t, WireAppended, FrameSizes DEF Puts
  <2>2. InProcess' = InProcess
    BY <1>a DEF InProcess, Size
  <2>3. Tokens' = Tokens
    BY <2>1, <2>2, <1>a, <1>z, <1>p DEF Tokens
  <2> QED BY <2>3, <1>e
<1>r. ASSUME NEW kind, Reads(kind), UNCHANGED updates, inflow'.queued = inflow.queued,
             InProcess' = InProcess + Size(Head(wire))
      PROVE  KeepsTokens
  <2>1. /\ Head(wire) \in Frames /\ OnWire = Size(Head(wire)) + OnWire' /\ OnWire' \in Nat
        /\ UNCHANGED peerWindow
    BY <1>r, ReadsHead
  <2>2. Size(Head(wire)) \in Nat
    BY <2>1, FrameSizes
  <2>3. OnWire' = OnWire - Size(Head(wire))
    <3>1. ASSUME NEW o \in Nat, NEW p \in Nat, NEW q \in Nat, o = q + p PROVE p = o - q
      BY <3>1
    <3> QED BY <3>1, <2>1, <2>2, <1>z
  <2>4. Tokens' = Tokens
    BY <2>1, <2>2, <2>3, <1>r, <1>z, <1>p DEF Tokens
  <2> QED BY <2>4, <1>e
<1>1. ASSUME NEW s \in Streams, NEW n \in Lengths, NEW pad \in Pads, NEW end \in BOOLEAN,
             ServerData(s, n, pad, end)
      PROVE  KeepsTokens
  <2> DEFINE frame == Data(s, n, pad, end)
  <2>1. frame \in Frames
    <3>1. n \in 0..MaxBytes /\ pad \in Nat
      BY <1>1, ConnectionAssumption DEF ServerData, Typed
    <3> QED BY <3>1 DEF Data, Frames, DataFrames
  <2>2. Size(frame) = n + pad
    BY DEF Data, Size
  <2> HIDE DEF frame
  <2>3. /\ Puts(frame) /\ peerWindow' = peerWindow - Size(frame)
        /\ UNCHANGED <<loop, cur, inflow, updates>>
    BY <1>1, <2>2 DEF ServerData, frame
  <2> QED BY <2>1, <2>3, <1>a
<1>2. ASSUME NEW frame \in Frames, frame.kind # "DATA", Puts(frame),
             UNCHANGED <<loop, cur, inflow, updates, peerWindow>>
      PROVE  KeepsTokens
  <2>1. peerWindow' = peerWindow - Size(frame)
    BY <1>2, <1>z, FrameSizes
  <2> QED BY <2>1, <1>2, <1>a
<1>3. ASSUME NEW kind \in {"GOAWAY", "REFUSED", "CLOSE"}, ServerEnds(kind) PROVE KeepsTokens
  <2>1. Frame(kind) \in Frames /\ Frame(kind).kind # "DATA"
    BY DEF Frames, Frame
  <2> QED BY <2>1, <1>2, <1>3 DEF ServerEnds
<1>4. ASSUME NEW p \in Pings, ServerAcks(p) PROVE KeepsTokens
  <2>1. [kind |-> "PING_ACK", ping |-> p] \in Frames
    BY DEF Frames
  <2> QED BY <2>1, <1>2, <1>4 DEF ServerAcks
<1>5. CASE ServerGetsUpdates
  <2>1. /\ peerWindow' = peerWindow + updates /\ updates' = 0
        /\ UNCHANGED <<loop, cur, wire, inflow>>
    BY <1>5 DEF ServerGetsUpdates
  <2>2. InProcess' = InProcess
    BY <2>1 DEF InProcess, Size
  <2>3. Tokens' = Tokens
    BY <2>1, <2>2, <1>w, <1>z, <1>p DEF Tokens
  <2> QED BY <2>3, <1>e
<1>6. ASSUME NEW kind \in {"SETTINGS", "REFUSED", "NOT_SETTINGS", "CLOSE"}, Handshake(kind)
      PROVE  KeepsTokens
  <2>1. /\ loop = "handshake" /\ loop' \in {"read", "once"} /\ cur'.kind # "DATA"
        /\ UNCHANGED <<wire, peerWindow, inflow, updates>>
    BY <1>6 DEF Handshake, Frame, serverVars
  <2>2. InProcess = 0 /\ InProcess' = 0
    BY <2>1 DEF InProcess, Size
  <2> QED BY <2>1, <2>2, <1>k
<1>7. CASE SetReason \/ CloseDone
  <2>1. /\ loop \in {"once", "closeDone"} /\ cur' = cur
        /\ loop' \in {"closeDone", "deliver", "read", "ended"}
        /\ loop' \in {"closeDone", "deliver"} \/ cur.kind # "DATA"
        /\ UNCHANGED <<wire, peerWindow, inflow, updates>>
    BY <1>7, OnceMoves DEF serverVars
  <2>2. InProcess' = InProcess
    BY <2>1 DEF InProcess, Size
  <2> QED BY <2>1, <2>2, <1>k
<1>8. CASE Stops \/ PrefaceFails
  <2>1. /\ loop \in {"read", "handshake"} /\ loop' = "ended"
        /\ UNCHANGED <<wire, peerWindow, inflow, updates>>
    BY <1>8 DEF Stops, PrefaceFails, serverVars
  <2>2. InProcess = 0 /\ InProcess' = 0
    BY <2>1 DEF InProcess
  <2> QED BY <2>1, <2>2, <1>k
<1>9. ASSUME NEW kind \in {"GOAWAY", "REFUSED"}, OnEnd(kind) PROVE KeepsTokens
  <2>1. /\ Reads(kind) /\ loop = "read" /\ loop' = "once" /\ cur' = Head(wire)
        /\ UNCHANGED <<inflow, updates>>
    BY <1>9 DEF OnEnd, Reads
  <2>2. Size(Head(wire)) \in Nat
    BY <2>1, ReadsHead, FrameSizes
  <2>3. InProcess = 0 /\ InProcess' = Size(Head(wire))
    BY <2>1 DEF InProcess, Size
  <2> QED BY <2>1, <2>2, <2>3, <1>r
<1>10. CASE OnData
  <2>1. /\ Reads("DATA") /\ loop = "read" /\ loop' \in {"deliver", "once"} /\ cur' = Head(wire)
        /\ inflow' = AfterCheckAndPay(inflow, Head(wire).n + Head(wire).pad) /\ UNCHANGED updates
    BY <1>10 DEF OnData, Reads
  <2>2. Size(Head(wire)) \in Nat
    BY <2>1, ReadsHead, FrameSizes
  <2>3. InProcess = 0 /\ InProcess' = Size(Head(wire))
    BY <2>1 DEF InProcess, Size
  <2>4. inflow'.queued = inflow.queued
    BY <2>1 DEF AfterCheckAndPay, Typed
  <2> QED BY <2>1, <2>2, <2>3, <2>4, <1>r
<1>11. CASE Deliver
  <2> DEFINE inc == Increment(inflow, cur.pad)
  <2>1. /\ loop = "deliver" /\ cur \in DataFrames
        /\ inflow' = IF cur.pad > 0 THEN AfterRefund(inflow, cur.pad) ELSE inflow
        /\ \/ loop' = "read" /\ (cur.stream \in over \/ cur.n = 0)
           \/ loop' = "write" /\ cur' = cur
        /\ UNCHANGED <<wire, peerWindow, updates>>
    BY <1>11 DEF Deliver, Typed, serverVars
  <2>2. /\ inc \in Nat /\ AfterRefund(inflow, cur.pad).queued = inflow.queued + cur.pad - inc
    BY <2>1, <1>c, RefundMoves
  <2> HIDE DEF inc
  <2>3. InProcess = cur.n + cur.pad /\ cur.n \in Nat /\ cur.pad \in Nat
        /\ (loop' = "read" => InProcess' = 0) /\ (loop' = "write" => InProcess' = cur.n)
    BY <2>1, <1>c DEF InProcess
  <2>4. PICK e \in Nat : (e = 0 \/ e = inc) /\ inflow'.queued = inflow.queued + cur.pad - e
    <3>1. CASE cur.pad > 0
      BY <3>1, <2>1, <2>2
    <3>2. CASE ~(cur.pad > 0)
      <4>1. inflow'.queued = inflow.queued + cur.pad - 0
        BY <3>2, <2>1, <2>3, <1>z
      <4> QED BY <4>1
    <3> QED BY <3>1, <3>2
  <2>5. PICK m \in Nat : (m = 0 \/ (m = cur.n /\ cur.stream \in over)) /\ InProcess' = cur.n - m
    <3>1. CASE loop' = "write"
      <4>1. InProcess' = cur.n - 0
        BY <3>1, <2>3
      <4> QED BY <4>1
    <3>2. CASE loop' = "read"
      <4>1. InProcess' = cur.n - cur.n
        BY <3>2, <2>1, <2>3
      <4> QED BY <4>1, <3>2, <2>1, <2>3
    <3> QED BY <3>1, <3>2, <2>1
  <2>6. Tokens' = Tokens - e - m
    BY <2>1, <2>3, <2>4, <2>5, <1>w, <1>z DEF Tokens
  <2>7. Tokens' <= Tokens /\ (Tokens' < Tokens => e > 0 \/ m > 0)
    BY <2>6, <1>s
  <2> QED BY <2>1, <2>4, <2>5, <2>7 DEF KeepsTokens, inc
<1>12. ASSUME NEW n \in Nat, n <= cur.n, loop = "write", RefundsAndTells(n)
       PROVE  Tokens' = Tokens - (cur.n - n) /\ cur.n \in Nat
  <2>1. /\ cur \in DataFrames /\ loop' = "read"
        /\ inflow' = AfterRefund(inflow, n) /\ updates' = updates + Increment(inflow, n)
        /\ UNCHANGED <<wire, peerWindow>>
    BY <1>12 DEF RefundsAndTells, Typed, serverVars
  <2>2. /\ Increment(inflow, n) \in Nat
        /\ inflow'.queued = inflow.queued + n - Increment(inflow, n)
    BY <2>1, RefundMoves
  <2>3. InProcess = cur.n /\ InProcess' = 0 /\ cur.n \in Nat
    BY <2>1, <1>12, <1>c DEF InProcess
  <2> QED BY <2>1, <2>2, <2>3, <1>w, <1>z DEF Tokens
<1>13. CASE WriteReturns
  <2>1. loop = "write" /\ cur \in DataFrames /\ RefundsAndTells(cur.n)
    BY <1>13 DEF WriteReturns, Typed
  <2>2. cur.n \in Nat /\ cur.n <= cur.n
    BY <2>1, <1>c
  <2>3. Tokens' = Tokens - (cur.n - cur.n)
    BY <2>1, <2>2, <1>12
  <2>4. Tokens' = Tokens
    BY <2>2, <2>3, <1>s
  <2> QED BY <2>4, <1>e
<1>14. CASE WriteFails
  <2> DEFINE n == pipe[cur.stream].held
  <2>1. /\ loop = "write" /\ cur.stream \in Streams /\ n \in Nat \ {0} /\ RefundsAndTells(n)
    BY <1>14, FailsMoves DEF WriteFails
  <2>2. n <= cur.n
    BY <2>1 DEF HeldInv
  <2>3. Tokens' = Tokens - (cur.n - n) /\ cur.n \in Nat
    BY <2>1, <2>2, <1>12
  <2> HIDE DEF n
  <2>4. Tokens' <= Tokens /\ (Tokens' < Tokens => n \in 1..(cur.n - 1))
    BY <2>1, <2>2, <2>3, <1>s
  <2> QED BY <2>1, <2>4 DEF KeepsTokens, n
<1>15. CASE OnPingAck
  <2>1. /\ Reads("PING_ACK") /\ loop = "read" /\ loop' \in {"ack", "read"}
        /\ UNCHANGED <<inflow, updates>>
    BY <1>15 DEF OnPingAck, Reads
  <2>2. Size(Head(wire)) = 0
    BY <2>1, ReadsHead DEF Size
  <2>3. InProcess = 0 /\ InProcess' = 0
    BY <2>1 DEF InProcess
  <2> QED BY <2>1, <2>2, <2>3, <1>r
<1>16. ASSUME UNCHANGED <<wire, peerWindow, inflow, updates>>,
              UNCHANGED <<loop, cur>> \/ (loop = "ack" /\ loop' = "read")
       PROVE  KeepsTokens
  <2>1. InProcess' = InProcess
    BY <1>16 DEF InProcess, Size
  <2> QED BY <2>1, <1>16, <1>k
<1>17. ASSUME NEW s \in Streams, Using(s) PROVE KeepsTokens
  <2>1. UNCHANGED <<loop, cur, wire, peerWindow, inflow, updates>>
    BY <1>17 DEF Using, ReadBody, ReadEOF, CloseReader, Reset, Piped, serverVars
  <2> QED BY <2>1, <1>16
<1>18. ASSUME NEW p \in Pings, Pinging(p) PROVE KeepsTokens
  <2>1. UNCHANGED <<wire, peerWindow, inflow, updates>>
    BY <1>18 DEF Pinging, PingStarts, TimesOut, PingReturns, Delete, Close, WritePing, PingGoes, serverVars
  <2>2. UNCHANGED <<loop, cur>> \/ (loop = "ack" /\ loop' = "read")
    BY <1>18 DEF Pinging, PingStarts, TimesOut, PingReturns, Delete, Close, WritePing
  <2> QED BY <2>1, <2>2, <1>16
<1>19. CASE UNCHANGED vars
  BY <1>19, <1>16 DEF vars, serverVars
<1> QED BY <1>1, <1>3, <1>4, <1>5, <1>6, <1>7, <1>8, <1>9, <1>10, <1>11, <1>13, <1>14, <1>15,
           <1>17, <1>18, <1>19 DEF Next, FromServer, LoopStep

-----------------------------------------------------------------------------
ConnectionInv == ReasonInv /\ PingInv /\ Typed /\ HeldInv /\ BytesInv /\ EndsInv /\ WindowInv

LEMMA ConnectionInit == Init => ConnectionInv
<1> SUFFICES ASSUME Init PROVE ConnectionInv
  OBVIOUS
<1> USE DEF Init
<1>1. ReasonInv /\ PingInv
  BY DEF ReasonInv, ReasonKnown, PingInv
<1>2. /\ {MaxBytes, MaxFlight, SelfWindow, Half} \subseteq Nat /\ PeerWindow \in Nat
      /\ PeerWindow <= SelfWindow /\ InflowMinRefresh \in Nat \ {0}
  BY FlowAssumption, ConnectionAssumption
<1>3. /\ wire \in Seq(Frames) /\ Len(wire) = 0 /\ DOMAIN wire = {}
  OBVIOUS
<1>4. Typed
  <2>1. cur.kind # "DATA" /\ loop \notin {"deliver", "write"}
    BY DEF Frame
  <2>2. inflow \in [remaining : Nat, queued : 0..(InflowMinRefresh - 1)]
    BY <1>2
  <2>3. /\ sent \in [Streams -> 0..MaxBytes] /\ pipe \in Pipes
        /\ got \in [Streams -> [n : 0..MaxBytes, eof : BOOLEAN]]
    BY <1>2 DEF Pipes
  <2>4. peerWindow \in Int /\ updates \in Nat /\ Len(wire) <= MaxFlight
    BY <1>2, <1>3
  <2>5. {ended, over} \subseteq SUBSET Streams /\ {done, closing, overdrawn} \subseteq BOOLEAN
    OBVIOUS
  <2> HIDE DEF Init
  <2>6. loop = "handshake" /\ reason = "nil"
    BY DEF Init
  <2> QED BY <2>1, <2>2, <2>3, <2>4, <2>5, <2>6, <1>3 DEF Typed
<1>5. HeldInv
  BY DEF HeldInv
<1>6. OnWire = 0 /\ \A s \in Streams : Bytes(s) = 0
  <2>1. ASSUME NEW s \in Streams PROVE Bytes(s) = 0
    BY <1>3, NoBytes
  <2>2. OnWire = 0
    <3> DEFINE f == [i \in DOMAIN wire |-> Size(wire[i])]
    <3>1. DOMAIN f = {} /\ IsFiniteSet({})
      BY <1>3, FS_EmptySet
    <3>2. OnWire = SumFunctionOnSet(f, DOMAIN f)
      BY DEF OnWire, SumFunction
    <3> HIDE DEF f
    <3> QED BY <3>1, <3>2, SumZero
  <2> QED BY <2>1, <2>2
<1>7. BytesInv
  BY <1>6 DEF BytesInv, InCur
<1>8. EndsInv
  BY <1>3 DEF EndsInv
<1>9. WindowInv
  <2>1. Overdraws /\ ~Accused
    BY <1>2 DEF Overdraws, Accused
  <2>2. Spare(0)
    <3>1. Held = SelfWindow /\ Promised = PeerWindow
      BY <1>2, <1>6 DEF Held, Promised, InProcess
    <3> QED BY <1>2, <3>1 DEF Spare
  <2>3. 0 \in 0..Half
    BY <1>2
  <2> QED BY <2>1, <2>2, <2>3 DEF WindowInv
<1> QED BY <1>1, <1>4, <1>5, <1>7, <1>8, <1>9 DEF ConnectionInv

LEMMA ConnectionStep == ConnectionInv /\ [Next]_vars => ConnectionInv'
BY ReasonStep, PingStep, TypedStep, HeldStep, BytesStep, EndsStep, WindowStep DEF ConnectionInv

LEMMA ConnectionInvariant == Spec => []ConnectionInv
BY ConnectionInit, ConnectionStep, PTL DEF Spec

-----------------------------------------------------------------------------
(* Whoever finds done closed finds a reason: whatever ends the connection, *)
(* and however often, doneReason is written before the channel is closed.  *)
THEOREM ConnectionReasonKnown == Spec => []ReasonKnown
<1>1. Init => ReasonInv
  BY DEF Init, ReasonInv, ReasonKnown
<1>2. ReasonInv => ReasonKnown
  BY DEF ReasonInv
<1> QED BY <1>1, <1>2, ReasonStep, PTL DEF Spec

(* An acknowledgement is never sent to a channel its Ping has closed: the  *)
(* handler holds muPing from its look at the table to its send.            *)
THEOREM ConnectionNoWriteAfterClose == Spec => []NoWriteAfterClose
<1>1. Init => PingInv
  BY DEF Init, PingInv
<1>2. PingInv => NoWriteAfterClose
  BY DEF PingInv, NoWriteAfterClose
<1>3. Init => ReasonInv
  BY DEF Init, ReasonInv, ReasonKnown
<1> QED BY <1>1, <1>2, <1>3, ReasonStep, PingStep, PTL DEF Spec

(* Every variable keeps its type; in particular the window that inflow      *)
(* grants never leaves the values of a uint32: a frame that it did not cover*)
(* adds its size at most once.                                              *)
THEOREM ConnectionTypeOK == Spec => []TypeOK
<1>1. ConnectionInv => TypeOK
  <2> SUFFICES ASSUME ConnectionInv PROVE TypeOK
    OBVIOUS
  <2>1. Typed /\ PingInv /\ WindowInv
    BY DEF ConnectionInv
  <2>2. PICK x \in 0..Half : Spare(x)
    BY <2>1 DEF WindowInv
  <2>3. inflow.remaining \in Uint
    <3>1. /\ inflow.remaining \in Nat /\ inflow.queued \in Nat /\ Half \in Nat
          /\ SelfWindow \in Nat /\ SelfWindow <= Half - 1
      BY <2>1, FlowAssumption, ConnectionAssumption DEF Typed
    <3>2. InProcess \in Nat
      <4>1. cur \in DataFrames => cur.n \in Nat /\ Size(cur) \in Nat
        BY ConnectionAssumption DEF DataFrames, Size
      <4> QED BY <2>1, <4>1 DEF InProcess, Typed, Size
    <3>3. inflow.remaining + inflow.queued + InProcess <= SelfWindow + x
      BY <2>2 DEF Spare, Held
    <3> QED BY <2>2, <3>1, <3>2, <3>3 DEF Uint
  <2>4. inflow \in [remaining : Uint, queued : 0..(InflowMinRefresh - 1)]
    BY <2>1, <2>3 DEF Typed
  <2> QED BY <2>1, <2>4 DEF TypeOK, Typed, PingInv, Pipes
<1> QED BY <1>1, ConnectionInvariant, PTL

(* A server that keeps to its window is not accused of overdrawing it:      *)
(* inflow covers what it may send, knows it may, and has sent.              *)
THEOREM ConnectionNoFalseAccusation == Spec => []NoFalseAccusation
<1>1. ConnectionInv => NoFalseAccusation
  <2> SUFFICES ASSUME ConnectionInv, ~overdrawn
               PROVE  reason # "flow" /\ peerWindow + OnWire + updates <= inflow.remaining
    BY DEF NoFalseAccusation
  <2>1. Typed /\ WindowInv
    BY DEF ConnectionInv
  <2>2. PICK x \in 0..Half : Spare(x)
    BY <2>1 DEF WindowInv
  <2>3. x = 0
    BY <2>2, FlowAssumption DEF Spare
  <2>4. peerWindow + OnWire + updates + x <= inflow.remaining
    BY <2>2 DEF Spare, Promised
  <2>5. peerWindow + OnWire + updates \in Int
    BY <2>1, WireNat DEF Typed
  <2> QED BY <2>1, <2>3, <2>4, <2>5 DEF WindowInv, Accused
<1> QED BY <1>1, ConnectionInvariant, PTL

(* No step makes up a token of the window, and a token is lost only where   *)
(* the code drops it.                                                       *)
THEOREM ConnectionTokensKept == Spec => TokensKept
<1>1. ConnectionInv /\ [Next]_vars => KeepsTokens
  BY TokensStep DEF ConnectionInv
<1>2. ConnectionInv /\ [Next]_vars =>
        [/\ Tokens' <= Tokens
         /\ Tokens' < Tokens =>
              \/ loop = "deliver" /\ (cur.stream \in over \/ Increment(inflow, cur.pad) > 0)
              \/ loop = "write" /\ pipe[cur.stream].held \in 1..(cur.n - 1)]_vars
  BY <1>1 DEF KeepsTokens
<1> QED BY <1>2, ConnectionInvariant, PTL DEF Spec, TokensKept

(* A reader sees the end of a body only when the server has ended it and    *)
(* every byte it sent was read.                                             *)
THEOREM ConnectionNoFalseEOF == Spec => []NoFalseEOF
<1>1. ConnectionInv => NoFalseEOF
  BY DEF ConnectionInv, BytesInv, NoFalseEOF
<1> QED BY <1>1, ConnectionInvariant, PTL
=============================================================================
