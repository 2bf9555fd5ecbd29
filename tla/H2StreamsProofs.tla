-------------------------- MODULE H2StreamsProofs --------------------------
(***************************************************************************)
(* Proofs about H2Streams, for every set of requests and every limit the   *)
(* peer may set, however often it sets one.                                *)
(***************************************************************************)
EXTENDS H2Streams, SequenceTheorems, FiniteSetTheorems, TLAPS

(* Where a request has no stream ID yet.                                   *)
Early == {"start", "lock", "check", "parked", "newStream"}

(* Who holds which lock: muActive from the test of the limit to the place  *)
(* in the map, muNewStream from the ID to the HEADERS, muPeer for reading  *)
(* in between and while the HEADERS are encoded. The read loop has muPeer  *)
(* for writing only while nobody reads.                                    *)
LocksInv ==
  /\ \A r \in Requests : muActive = r <=> pc[r] \in {"check", "newStream"}
  /\ muActive = ReadLoop <=> loop = "stuck"
  /\ \A r \in Requests :
       muNewStream = r <=> streamID[r] # 0 /\ writer[r] \in {"none", "encode", "write"}
  /\ \A r \in Requests : r \in readers <=> pc[r] = "newStream" \/ writer[r] = "write"
  /\ loop = "havePeer" => readers = {}

(* Which requests have an ID, and that a test of the limit stays true.     *)
PlacesInv ==
  /\ \A r \in Requests :
       /\ pc[r] \in Early => streamID[r] = 0
       /\ pc[r] \notin Early \cup {"out"} => streamID[r] # 0
       /\ streamID[r] = 0 => writer[r] = "none" /\ r \notin activeStreams \cup done
       /\ pc[r] = "window" <=> streamID[r] # 0 /\ writer[r] = "none"
       /\ pc[r] = "newStream" => Cardinality(activeStreams) < maxStreams

(* condActive's queue holds each parked caller once.                       *)
QueueInv ==
  /\ \A r \in Requests : pc[r] = "parked" <=> \E i \in 1..Len(waiters) : waiters[i] = r
  /\ \A i, j \in 1..Len(waiters) : i # j => waiters[i] # waiters[j]

(* Who ends a stream: a caller or the read loop, never both.               *)
EndsInv ==
  /\ loop \in {"offer", "offerEnd", "reset", "close", "release", "signal", "stuck"}
       => cur \in Requests
  /\ \A r \in Requests :
       /\ cur = r => streamID[r] # 0
       /\ pc[r] \in {"close", "release", "signal"} => r \in reset
       /\ pc[r] = "release" => r \in done
       /\ loop = "release" /\ cur = r => r \in done /\ pc[r] # "release"

(* The IDs written are older than the one on its way.                      *)
WireInv ==
  /\ lastStreamID >= -1
  /\ \A r \in Requests : muNewStream = r => streamID[r] = lastStreamID
  /\ \A i \in 1..Len(wire) :
       /\ wire[i] <= lastStreamID
       /\ muNewStream # NoOne => wire[i] < lastStreamID
  /\ \A i, j \in 1..Len(wire) : i < j => wire[i] < wire[j]

(* TypeOK, with its sets one by one.                                       *)
Typed ==
  /\ activeStreams \subseteq Requests /\ done \subseteq Requests
  /\ reset \subseteq Requests /\ readers \subseteq Requests
  /\ lastStreamID \in Int /\ streamID \in [Requests -> Nat]
  /\ pc \in [Requests -> Callers] /\ writer \in [Requests -> Writers]
  /\ muActive \in Requests \cup {NoOne, ReadLoop} /\ muNewStream \in Requests \cup {NoOne}
  /\ waiters \in Seq(Requests)
  /\ loop \in LoopStates /\ cur \in Requests \cup {NoOne}
  /\ setting \in [limit : Limits, window : BOOLEAN] /\ maxStreams \in Limits
  /\ wire \in Seq(Nat)
  /\ server \in [Requests -> {"idle", "open", "body", "closed"}]
  /\ settings \in 0..MaxSettings /\ goneAway \in BOOLEAN

(* The inductive invariant.                                                *)
StreamsInv ==
  /\ Typed /\ LocksInv /\ PlacesInv /\ QueueInv /\ EndsInv /\ SlotsAccounted /\ WireInv

-----------------------------------------------------------------------------
(* A step that parks nobody and wakes nobody keeps the queue in order.     *)
LEMMA QueueKept ==
  ASSUME QueueInv, UNCHANGED waiters,
         \A d \in Requests : pc'[d] = "parked" <=> pc[d] = "parked"
  PROVE  QueueInv'
  BY DEF QueueInv

(* Requests are finitely many, so the places taken can be counted.         *)
LEMMA PlacesCount ==
  ASSUME Typed
  PROVE  IsFiniteSet(activeStreams) /\ Cardinality(activeStreams) \in Nat /\ maxStreams \in Nat
  BY StreamsAssumption, FS_Subset, FS_CardinalityType DEF Typed

-----------------------------------------------------------------------------
(* Each operation preserves the invariant. Those of a caller that already  *)
(* has its place: WriteRequest's select, ReadHeaders and Reset.            *)
LEMMA CallerGoesInv ==
  ASSUME StreamsInv, NEW r \in Requests,
         \/ Written(r) \/ GiveUp(r) \/ SawDone(r) \/ ResetLocal(r) \/ CloseLocal(r)
         \/ \E usable \in BOOLEAN : GetHeaders(r, usable)
  PROVE  StreamsInv'
  <1> DEFINE Later == {"wait", "headers", "reset", "close", "release", "out"}
  <1> USE StreamsAssumption DEF StreamsInv
  <1>0. PICK state \in Later :
          /\ pc' = [pc EXCEPT ![r] = state] /\ pc[r] \in Later \ {"release", "out"}
          /\ UNCHANGED <<streamVars, lockVars, peerVars, writer, wire, maxStreams, setting>>
    BY DEF Written, GiveUp, SawDone, ResetLocal, CloseLocal, GetHeaders, Goes, loopVars
  <1>l. \/ loop' = loop /\ cur' = cur
        \/ loop = "offerEnd" /\ loop' = "close" /\ cur' = cur
        \/ loop = "offer" /\ loop' = "read" /\ cur' = NoOne
    <2>1. CASE \E usable \in BOOLEAN : GetHeaders(r, usable)
      BY <2>1 DEF GetHeaders
    <2>2. CASE Written(r) \/ GiveUp(r) \/ SawDone(r) \/ ResetLocal(r) \/ CloseLocal(r)
      BY <2>2 DEF Written, GiveUp, SawDone, ResetLocal, CloseLocal, loopVars
    <2> QED BY <2>1, <2>2
  <1>e. /\ done' = done \/ done' = done \cup {r}
        /\ reset' = reset \/ reset' = reset \cup {r}
    BY DEF Written, GiveUp, SawDone, ResetLocal, CloseLocal, GetHeaders, endVars
  <1> USE DEF streamVars, endVars, lockVars, loopVars, peerVars
  <1>1. Typed'
    BY <1>0, <1>l, <1>e DEF Typed, Callers, LoopStates
  <1>2. LocksInv'
    BY <1>0, <1>l DEF Typed, LocksInv, Later
  <1>3. PlacesInv'
    BY <1>0, <1>e DEF Typed, PlacesInv, Early, Later
  <1>4. QueueInv'
    BY <1>0, QueueKept DEF Typed, Later
  <1>5. EndsInv'
    BY DEF Typed, EndsInv, Written, GiveUp, SawDone, ResetLocal, CloseLocal, GetHeaders, Goes
  <1>6. SlotsAccounted'
    BY DEF Typed, SlotsAccounted, Releasing, EndsInv, PlacesInv, Early,
       Written, GiveUp, SawDone, ResetLocal, CloseLocal, GetHeaders, Goes
  <1>7. WireInv'
    BY <1>0 DEF WireInv
  <1> QED BY <1>1, <1>2, <1>3, <1>4, <1>5, <1>6, <1>7

(* Stream and muActive.Lock.                                               *)
LEMMA StartInv ==
  ASSUME StreamsInv, NEW r \in Requests, Stream(r) \/ LockActive(r)
  PROVE  StreamsInv'
  <1> USE StreamsAssumption DEF StreamsInv, Stream, LockActive,
             streamVars, endVars, lockVars, loopVars, peerVars
  <1>1. Typed'
    BY DEF Typed, Callers
  <1>2. LocksInv'
    BY DEF Typed, LocksInv
  <1>3. PlacesInv'
    BY DEF Typed, PlacesInv, Early
  <1>4. QueueInv'
    BY QueueKept DEF Typed
  <1>5. EndsInv'
    BY DEF Typed, EndsInv
  <1>6. SlotsAccounted'
    BY DEF Typed, SlotsAccounted, Releasing
  <1>7. WireInv'
    BY DEF WireInv
  <1> QED BY <1>1, <1>2, <1>3, <1>4, <1>5, <1>6, <1>7

(* The test of the limit: the caller parks, or keeps both of its locks.    *)
LEMMA CheckLimitInv ==
  ASSUME StreamsInv, NEW r \in Requests, CheckLimit(r)
  PROVE  StreamsInv'
  <1> USE StreamsAssumption DEF StreamsInv, CheckLimit, CanReadSettings,
             streamVars, endVars, lockVars, loopVars, peerVars
  <1>a. CASE Cardinality(activeStreams) >= maxStreams
    <2>0. /\ muActive' = NoOne /\ waiters' = Append(waiters, r) /\ pc[r] = "check"
          /\ pc' = [pc EXCEPT ![r] = "parked"] /\ readers' = readers
      BY <1>a
    <2>1. /\ Len(waiters) \in Nat /\ Append(waiters, r) \in Seq(Requests)
          /\ Len(Append(waiters, r)) = Len(waiters) + 1
          /\ \A i \in 1..Len(waiters) : Append(waiters, r)[i] = waiters[i]
          /\ Append(waiters, r)[Len(waiters) + 1] = r
      BY DEF Typed
    <2>2. Typed'
      BY <2>0, <2>1 DEF Typed, Callers
    <2>3. LocksInv'
      BY <2>0 DEF Typed, LocksInv
    <2>4. PlacesInv'
      BY <2>0 DEF Typed, PlacesInv, Early
    <2>5. QueueInv'
      <3>1. \A i \in 1..Len(waiters) : waiters[i] # r
        BY <2>0 DEF QueueInv
      <3>2. \A d \in Requests : pc'[d] = "parked" <=> d = r \/ pc[d] = "parked"
        BY <2>0 DEF Typed
      <3>3. \A d \in Requests :
              (\E i \in 1..Len(waiters') : waiters'[i] = d)
                <=> d = r \/ \E i \in 1..Len(waiters) : waiters[i] = d
        BY <2>0, <2>1
      <3>4. (\A i, j \in 1..Len(waiters) : i # j => waiters[i] # waiters[j])'
        BY <2>0, <2>1, <3>1 DEF QueueInv
      <3> QED BY <3>2, <3>3, <3>4 DEF QueueInv
    <2>6. EndsInv'
      BY <2>0 DEF Typed, EndsInv
    <2>7. SlotsAccounted'
      BY <2>0 DEF Typed, SlotsAccounted, Releasing
    <2> QED BY <2>2, <2>3, <2>4, <2>5, <2>6, <2>7 DEF WireInv
  <1>b. CASE ~(Cardinality(activeStreams) >= maxStreams)
    <2>0. /\ readers' = readers \cup {r} /\ pc' = [pc EXCEPT ![r] = "newStream"]
          /\ pc[r] = "check" /\ UNCHANGED <<muActive, waiters>>
      BY <1>b
    <2>1. Cardinality(activeStreams) < maxStreams
      BY <1>b, PlacesCount
    <2>2. Typed'
      BY <2>0 DEF Typed, Callers
    <2>3. LocksInv'
      BY <2>0 DEF Typed, LocksInv
    <2>4. PlacesInv'
      BY <2>0, <2>1 DEF Typed, PlacesInv, Early
    <2>5. QueueInv'
      BY <2>0, QueueKept DEF Typed
    <2>6. EndsInv'
      BY <2>0 DEF Typed, EndsInv
    <2>7. SlotsAccounted'
      BY <2>0 DEF Typed, SlotsAccounted, Releasing
    <2> QED BY <2>2, <2>3, <2>4, <2>5, <2>6, <2>7 DEF WireInv
  <1> QED BY <1>a, <1>b

(* The ID and the place, under three locks.                                *)
LEMMA AssignIDInv ==
  ASSUME StreamsInv, NEW r \in Requests, AssignID(r)
  PROVE  StreamsInv'
  <1> USE StreamsAssumption DEF StreamsInv
  <1>0. /\ pc[r] = "newStream" /\ muNewStream = NoOne /\ muNewStream' = r
        /\ lastStreamID' = lastStreamID + 2
        /\ streamID' = [streamID EXCEPT ![r] = lastStreamID + 2]
        /\ activeStreams' = activeStreams \cup {r}
        /\ muActive' = NoOne /\ readers' = readers \ {r}
        /\ pc' = [pc EXCEPT ![r] = "window"]
        /\ UNCHANGED <<done, reset, waiters, loop, cur, setting, maxStreams, server,
                       settings, goneAway, writer, wire>>
    BY DEF AssignID, TakesPlace, endVars, loopVars, peerVars
  <1>1. lastStreamID + 2 \in Nat /\ lastStreamID + 2 # 0
    BY DEF Typed, WireInv
  <1>2. /\ muActive = r /\ \A d \in Requests \ {r} : pc[d] \notin {"check", "newStream"}
        /\ streamID[r] = 0 /\ writer[r] = "none" /\ r \notin done /\ loop # "stuck"
    BY <1>0 DEF LocksInv, PlacesInv, Early
  <1>3. Typed'
    BY <1>0, <1>1 DEF Typed, Callers
  <1>4. LocksInv'
    BY <1>0, <1>1, <1>2 DEF Typed, LocksInv
  <1>5. PlacesInv'
    BY <1>0, <1>1, <1>2 DEF Typed, PlacesInv, Early
  <1>6. QueueInv'
    BY <1>0, QueueKept DEF Typed
  <1>7. EndsInv'
    BY <1>0, <1>1 DEF Typed, EndsInv
  <1>8. SlotsAccounted'
    <2>1. \A d \in Requests : Releasing(d)' <=> Releasing(d)
      BY <1>0 DEF Typed, Releasing
    <2> QED BY <1>0, <1>1, <1>2, <2>1 DEF Typed, SlotsAccounted
  <1>9. WireInv'
    BY <1>0 DEF Typed, WireInv
  <1> QED BY <1>3, <1>4, <1>5, <1>6, <1>7, <1>8, <1>9

(* The stream's windows are set and its writer starts; EncodeHeaders.      *)
LEMMA EncodesInv ==
  ASSUME StreamsInv, NEW r \in Requests, StartWriter(r) \/ EncodeHeaders(r)
  PROVE  StreamsInv'
  <1> USE StreamsAssumption DEF StreamsInv
  <1>a. CASE StartWriter(r)
    <2> USE <1>a DEF StartWriter, streamVars, endVars, lockVars, loopVars, peerVars
    <2>1. Typed'
      BY DEF Typed, Callers, Writers
    <2>2. LocksInv'
      BY DEF Typed, LocksInv, PlacesInv
    <2>3. PlacesInv'
      BY DEF Typed, PlacesInv, Early
    <2>4. QueueInv'
      BY QueueKept DEF Typed
    <2>5. EndsInv'
      BY DEF Typed, EndsInv
    <2>6. SlotsAccounted'
      BY DEF Typed, SlotsAccounted, Releasing
    <2> QED BY <2>1, <2>2, <2>3, <2>4, <2>5, <2>6 DEF WireInv
  <1>b. CASE EncodeHeaders(r)
    <2> USE <1>b DEF EncodeHeaders, CanReadSettings, streamVars, endVars, loopVars, peerVars
    <2>1. Typed'
      BY DEF Typed, Writers
    <2>2. LocksInv'
      BY DEF Typed, LocksInv, PlacesInv
    <2>3. PlacesInv'
      BY DEF Typed, PlacesInv, Early
    <2>4. QueueInv'
      BY QueueKept DEF Typed
    <2>5. EndsInv'
      BY DEF Typed, EndsInv
    <2>6. SlotsAccounted'
      BY DEF Typed, SlotsAccounted, Releasing
    <2> QED BY <2>1, <2>2, <2>3, <2>4, <2>5, <2>6 DEF WireInv
  <1> QED BY <1>a, <1>b

(* The HEADERS go out, or fail, and muNewStream is free.                   *)
LEMMA WriteHeadersInv ==
  ASSUME StreamsInv, NEW r \in Requests, NEW ok \in BOOLEAN, WriteHeaders(r, ok)
  PROVE  StreamsInv'
  <1> USE StreamsAssumption DEF StreamsInv, WriteHeaders,
             streamVars, endVars, lockVars, loopVars, peerVars
  <1>0. streamID[r] # 0 /\ muNewStream = r /\ pc[r] # "newStream"
    BY DEF LocksInv, PlacesInv, Early
  <1>w. /\ Append(wire, streamID[r]) \in Seq(Nat) /\ Len(wire) \in Nat
        /\ Len(Append(wire, streamID[r])) = Len(wire) + 1
        /\ \A i \in 1..Len(wire) : Append(wire, streamID[r])[i] = wire[i] /\ wire[i] \in Nat
        /\ Append(wire, streamID[r])[Len(wire) + 1] = streamID[r]
    BY DEF Typed
  <1>1. Typed'
    BY <1>w DEF Typed, Writers
  <1>2. LocksInv'
    BY <1>0 DEF Typed, LocksInv
  <1>3. PlacesInv'
    BY <1>0 DEF Typed, PlacesInv, Early
  <1>4. QueueInv'
    BY QueueKept
  <1>5. EndsInv'
    BY DEF EndsInv
  <1>6. SlotsAccounted'
    BY DEF SlotsAccounted, Releasing
  <1>7. WireInv'
    <2>1. streamID[r] = lastStreamID /\ muNewStream' = NoOne
      BY <1>0 DEF WireInv
    <2>2. CASE ok
      <3>1. wire' = Append(wire, streamID[r]) /\ lastStreamID' = lastStreamID
        BY <2>2
      <3>2. \A i \in 1..Len(wire) : wire[i] < lastStreamID /\ wire[i] \in Int
        BY <1>0, <1>w DEF WireInv, Typed
      <3>3. \A i \in 1..Len(wire') : wire'[i] <= lastStreamID'
        <4> TAKE i \in 1..Len(wire')
        <4>1. i \in 1..Len(wire) \/ i = Len(wire) + 1
          BY <1>w, <3>1
        <4> QED BY <1>w, <2>1, <3>1, <3>2, <4>1 DEF Typed
      <3>4. \A i, j \in 1..Len(wire') : i < j => wire'[i] < wire'[j]
        <4> TAKE i, j \in 1..Len(wire')
        <4>1. i \in 1..Len(wire) \/ i = Len(wire) + 1
          BY <1>w, <3>1
        <4>2. j \in 1..Len(wire) \/ j = Len(wire) + 1
          BY <1>w, <3>1
        <4>3. CASE j = Len(wire) + 1
          BY <1>w, <2>1, <3>1, <3>2, <4>1, <4>3
        <4>4. CASE i \in 1..Len(wire) /\ j \in 1..Len(wire)
          BY <1>w, <3>1, <4>4 DEF WireInv
        <4> QED BY <1>w, <4>1, <4>2, <4>3, <4>4
      <3> QED BY <2>1, <3>1, <3>3, <3>4, StreamsAssumption DEF WireInv
    <2>3. CASE ~ok
      BY <1>0, <2>1, <2>3 DEF Typed, WireInv
    <2> QED BY <2>2, <2>3
  <1> QED BY <1>1, <1>2, <1>3, <1>4, <1>5, <1>6, <1>7

(* ReleaseStreamID, by the caller or by the read loop.                     *)
LEMMA ReleaseInv ==
  ASSUME StreamsInv, NEW r \in Requests, CallerReleases(r) \/ (LoopReleases /\ cur = r)
  PROVE  StreamsInv'
  <1> USE StreamsAssumption DEF StreamsInv
  <1>0. /\ muActive = NoOne /\ activeStreams' = activeStreams \ {r}
        /\ UNCHANGED <<lastStreamID, streamID, done, reset, muActive, muNewStream, readers,
                       waiters, cur, setting, maxStreams, server, settings, goneAway, writer,
                       wire>>
    BY DEF CallerReleases, LoopReleases, Delete, LoopGoes, streamVars, endVars, lockVars,
       loopVars, peerVars
  <1>1. \/ /\ pc[r] = "release" /\ pc' = [pc EXCEPT ![r] = "signal"] /\ UNCHANGED loop
        \/ /\ loop = "release" /\ cur = r /\ loop' = "signal" /\ UNCHANGED pc
    BY DEF CallerReleases, LoopReleases, LoopGoes, loopVars
  <1>2. Typed'
    <2>1. pc' \in [Requests -> Callers] /\ loop' \in LoopStates
      BY ZenonT(60), <1>1 DEF Typed, Callers, LoopStates
    <2> QED BY <1>0, <2>1 DEF Typed
  <1>3. LocksInv'
    BY <1>0, <1>1 DEF Typed, LocksInv
  <1>4. PlacesInv'
    <2>1. \A d \in Requests : pc'[d] # "newStream"
      BY <1>0, <1>3 DEF LocksInv
    <2> QED BY <1>0, <1>1, <2>1 DEF Typed, PlacesInv, Early
  <1>5. QueueInv'
    BY <1>0, <1>1, QueueKept DEF Typed
  <1>6. EndsInv'
    BY <1>0, <1>1 DEF Typed, EndsInv
  <1>7. SlotsAccounted'
    <2>1. loop # "stuck"
      BY <1>0 DEF LocksInv
    <2>2. r \in done /\ ~Releasing(r)'
      BY <1>0, <1>1, <2>1 DEF Typed, EndsInv, Releasing
    <2>3. \A d \in Requests \ {r} : Releasing(d)' <=> Releasing(d)
      BY <1>0, <1>1, <2>1 DEF Typed, Releasing
    <2> QED BY <1>0, <2>2, <2>3 DEF SlotsAccounted
  <1>8. WireInv'
    BY <1>0 DEF WireInv
  <1> QED BY <1>2, <1>3, <1>4, <1>5, <1>6, <1>7, <1>8

(* condActive.Signal wakes the caller parked first. The others stay in the *)
(* queue, in order.                                                        *)
LEMMA SignalWakes ==
  ASSUME StreamsInv, NEW callers \in [Requests -> Callers], Signal(callers),
         \A d \in Requests : callers[d] = "parked" <=> pc[d] = "parked"
  PROVE  /\ QueueInv' /\ waiters' \in Seq(Requests)
         /\ waiters = <<>> => pc' = callers
         /\ waiters # <<>> =>
              \E w \in Requests : pc[w] = "parked" /\ pc' = [callers EXCEPT ![w] = "lock"]
  <1> USE DEF StreamsInv
  <1>1. CASE waiters = <<>>
    BY <1>1 DEF Signal, QueueInv, Typed
  <1>2. CASE waiters # <<>>
    <2>1. /\ Head(waiters) = waiters[1] /\ Head(waiters) \in Requests
          /\ Len(waiters) \in Nat /\ Len(waiters) >= 1
          /\ Tail(waiters) \in Seq(Requests) /\ Len(Tail(waiters)) = Len(waiters) - 1
          /\ \A i \in 1..Len(Tail(waiters)) :
               i + 1 \in 1..Len(waiters) /\ Tail(waiters)[i] = waiters[i+1]
      BY <1>2 DEF Typed
    <2>2. PICK w \in Requests : w = waiters[1]
      BY <2>1
    <2>3. pc[w] = "parked" /\ 1 \in 1..Len(waiters)
      BY <2>1, <2>2 DEF QueueInv
    <2>4. pc' = [callers EXCEPT ![w] = "lock"] /\ waiters' = Tail(waiters)
      BY <1>2, <2>1, <2>2 DEF Signal
    <2>5. \A d \in Requests : pc'[d] = "parked" <=> d # w /\ pc[d] = "parked"
      BY <2>4
    <2>6. \A i \in 1..Len(Tail(waiters)) : Tail(waiters)[i] # w
      <3>1. \A i \in 1..Len(Tail(waiters)) : i + 1 # 1
        BY <2>1
      <3> QED BY <2>1, <2>2, <2>3, <3>1 DEF QueueInv
    <2>7. ASSUME NEW d \in Requests, d # w, NEW i \in 1..Len(waiters), waiters[i] = d
          PROVE  \E k \in 1..Len(Tail(waiters)) : Tail(waiters)[k] = d
      <3>1. i # 1
        BY <2>2, <2>7
      <3>2. i - 1 \in 1..Len(Tail(waiters)) /\ Tail(waiters)[i - 1] = waiters[i]
        BY <2>1, <3>1
      <3> QED BY <2>7, <3>2
    <2>8. \A d \in Requests :
            (d # w /\ pc[d] = "parked") <=> \E i \in 1..Len(Tail(waiters)) : Tail(waiters)[i] = d
      BY <2>1, <2>6, <2>7 DEF QueueInv
    <2>9. \A i, j \in 1..Len(Tail(waiters)) : i # j => Tail(waiters)[i] # Tail(waiters)[j]
      BY <2>1 DEF QueueInv
    <2> QED BY <1>2, <2>1, <2>3, <2>4, <2>5, <2>8, <2>9 DEF QueueInv
  <1> QED BY <1>1, <1>2

(* Signal, by the caller or by the read loop.                              *)
LEMMA SignalInv ==
  ASSUME StreamsInv, LoopSignals \/ \E r \in Requests : CallerSignals(r)
  PROVE  StreamsInv'
  <1> USE StreamsAssumption DEF StreamsInv
  <1>1. PICK callers \in [Requests -> Callers] :
          /\ Signal(callers)
          /\ callers = pc \/ \E r \in Requests : pc[r] = "signal" /\ callers = [pc EXCEPT ![r] = "out"]
    <2>1. CASE LoopSignals
      BY <2>1 DEF LoopSignals, Typed
    <2>2. ASSUME NEW r \in Requests, CallerSignals(r)
          PROVE  /\ [pc EXCEPT ![r] = "out"] \in [Requests -> Callers]
                 /\ Signal([pc EXCEPT ![r] = "out"]) /\ pc[r] = "signal"
      BY <2>2 DEF CallerSignals, Typed, Callers
    <2> QED BY <2>1, <2>2
  <1>2. /\ UNCHANGED <<activeStreams, lastStreamID, streamID, done, reset, muActive,
                       muNewStream, readers, setting, maxStreams, server, settings, goneAway,
                       writer, wire>>
        /\ UNCHANGED <<loop, cur>> \/ (loop = "signal" /\ loop' = "read" /\ cur' = NoOne)
    BY DEF LoopSignals, CallerSignals, LoopGoes, Signal, streamVars, endVars, lockVars,
       loopVars, peerVars
  <1>3. \A d \in Requests : callers[d] = "parked" <=> pc[d] = "parked"
    BY <1>1 DEF Typed
  <1>4. /\ QueueInv' /\ waiters' \in Seq(Requests)
        /\ pc' = callers
           \/ \E w \in Requests : pc[w] = "parked" /\ pc' = [callers EXCEPT ![w] = "lock"]
    BY <1>1, <1>3, SignalWakes
  <1>5. \A d \in Requests :
          /\ pc'[d] \in Callers
          /\ \/ pc'[d] = pc[d]
             \/ pc[d] = "signal" /\ pc'[d] = "out"
             \/ pc[d] = "parked" /\ pc'[d] = "lock"
    <2>1. \A d \in Requests : pc[d] \in Callers
      BY DEF Typed
    <2> QED BY <1>1, <1>4, <2>1 DEF Callers
  <1>6. pc' \in [Requests -> Callers]
    BY <1>1, <1>4 DEF Callers
  <1>7. Typed'
    BY <1>2, <1>4, <1>6 DEF Typed, LoopStates
  <1>8. LocksInv'
    BY <1>2, <1>5 DEF LocksInv
  <1>9. PlacesInv'
    BY <1>2, <1>5 DEF PlacesInv, Early
  <1>10. EndsInv'
    BY <1>2, <1>5 DEF EndsInv
  <1>11. SlotsAccounted'
    <2>1. \A d \in Requests : Releasing(d)' <=> Releasing(d)
      BY <1>2, <1>5 DEF Releasing
    <2> QED BY <1>2, <2>1 DEF SlotsAccounted
  <1>12. WireInv'
    BY <1>2 DEF WireInv
  <1> QED BY <1>4, <1>7, <1>8, <1>9, <1>10, <1>11, <1>12

(* The read loop's frames, resets and closes.                              *)
LEMMA LoopGoesInv ==
  ASSUME StreamsInv,
         \/ \E r \in Requests : \E frame \in Sends[server[r]] : OnFrame(r, frame)
         \/ LoopResets \/ LoopCloses
  PROVE  StreamsInv'
  <1> USE StreamsAssumption DEF StreamsInv
  <1>f. UNCHANGED <<activeStreams, lastStreamID, streamID, muActive, muNewStream, readers,
                    waiters, setting, maxStreams, settings, goneAway, pc, writer, wire>>
    BY DEF OnFrame, LoopResets, LoopCloses, LoopGoes, streamVars, lockVars, peerVars
  <1>a. ASSUME NEW r \in Requests, NEW frame \in Sends[server[r]], OnFrame(r, frame)
        PROVE  /\ loop = "read" /\ UNCHANGED <<done, reset>>
               /\ server' \in [Requests -> {"idle", "open", "body", "closed"}]
               /\ \/ UNCHANGED <<loop, cur>>
                  \/ /\ cur' = r /\ loop' \in {"offer", "offerEnd", "close", "reset"}
                     /\ streamID[r] # 0
    <2>1. frame \in {"HEADERS", "HEADERS_END", "DATA_END", "RST_STREAM", "RST_NO_ERROR"}
      <3>1. server[r] \in {"idle", "open", "body", "closed"}
        BY DEF Typed
      <3> QED BY <1>a, <3>1 DEF Sends
    <2>2. frame # "RST_NO_ERROR"
            => Handler[frame] \in {"offer", "offerEnd", "close", "reset"}
      BY <2>1 DEF Handler
    <2>3. server' = [server EXCEPT ![r] = IF frame = "HEADERS" THEN "body" ELSE "closed"]
      BY <1>a DEF OnFrame
    <2> QED BY <1>a, <2>2, <2>3 DEF OnFrame, endVars, Typed, PlacesInv
  <1>1. /\ server' \in [Requests -> {"idle", "open", "body", "closed"}]
        /\ loop \in {"read", "reset", "close"} /\ loop' \in LoopStates \ {"wantPeer", "havePeer", "stuck"}
        /\ cur' \in Requests \cup {NoOne}
        /\ loop' # "read" => cur' \in Requests
        /\ \A r \in Requests : cur' = r => streamID[r] # 0
        /\ reset \subseteq reset' /\ reset' \subseteq Requests
        /\ \/ done' = done /\ loop' # "release"
           \/ /\ loop = "close" /\ cur \in done /\ done' = done /\ loop' = "read"
           \/ /\ loop = "close" /\ cur \in Requests \ done /\ done' = done \cup {cur}
              /\ loop' = "release" /\ cur' = cur
    <2>1. CASE LoopResets
      BY <2>1 DEF LoopResets, LoopGoes, peerVars, LoopStates, Typed, EndsInv
    <2>2. CASE LoopCloses
      BY <2>2 DEF LoopCloses, LoopGoes, peerVars, LoopStates, Typed, EndsInv
    <2>3. CASE \E r \in Requests : \E frame \in Sends[server[r]] : OnFrame(r, frame)
      BY <1>a, <2>3 DEF Typed, LoopStates, EndsInv
    <2> QED BY <2>1, <2>2, <2>3
  <1>2. Typed'
    BY <1>f, <1>1 DEF Typed
  <1>3. LocksInv'
    BY <1>f, <1>1 DEF LocksInv, LoopStates
  <1>4. PlacesInv'
    BY <1>f, <1>1 DEF PlacesInv, EndsInv
  <1>5. QueueInv'
    BY <1>f, QueueKept
  <1>6. EndsInv'
    BY <1>f, <1>1 DEF EndsInv
  <1>7. SlotsAccounted'
    BY <1>f, <1>1 DEF SlotsAccounted, Releasing, EndsInv
  <1>8. WireInv'
    BY <1>f DEF WireInv
  <1> QED BY <1>2, <1>3, <1>4, <1>5, <1>6, <1>7, <1>8

(* SETTINGS. Nobody reads the settings while the loop has muPeer, so the   *)
(* limit changes under no test.                                            *)
LEMMA SettingsInv ==
  ASSUME StreamsInv,
         \/ \E limit \in Limits, window \in BOOLEAN : OnSettings(limit, window)
         \/ LockPeer \/ UpdateSettings
  PROVE  StreamsInv'
  <1> USE StreamsAssumption DEF StreamsInv
  <1>0. /\ UNCHANGED <<activeStreams, lastStreamID, streamID, done, reset, muActive, muNewStream,
                       readers, waiters, cur, server, goneAway, pc, writer, wire>>
        /\ settings' \in 0..MaxSettings /\ setting' \in [limit : Limits, window : BOOLEAN]
    BY DEF OnSettings, LockPeer, UpdateSettings, streamVars, endVars, lockVars, peerVars, Typed
  <1>1. /\ loop \in {"read", "wantPeer", "havePeer"} /\ loop' \in {"read", "wantPeer", "havePeer"}
        /\ loop' = "havePeer" => readers = {}
        /\ maxStreams' \in Limits
        /\ maxStreams' = maxStreams \/ readers = {}
    BY DEF OnSettings, LockPeer, UpdateSettings, LocksInv, Typed
  <1>2. Typed'
    BY <1>0, <1>1 DEF Typed, LoopStates
  <1>3. LocksInv'
    BY <1>0, <1>1 DEF LocksInv
  <1>4. PlacesInv'
    BY <1>0, <1>1 DEF PlacesInv, LocksInv
  <1>5. QueueInv'
    BY <1>0, QueueKept
  <1>6. EndsInv'
    BY <1>0, <1>1 DEF EndsInv
  <1>7. SlotsAccounted'
    BY <1>0, <1>1 DEF SlotsAccounted, Releasing
  <1>8. WireInv'
    BY <1>0 DEF WireInv
  <1> QED BY <1>2, <1>3, <1>4, <1>5, <1>6, <1>7, <1>8

(* GOAWAY. The loop ends one stream and keeps muActive: nobody deletes the *)
(* stream, and nobody else takes a place.                                  *)
LEMMA GoesAwayInv ==
  ASSUME StreamsInv, NEW last \in Nat, OnGoAway(last)
  PROVE  StreamsInv'
  <1> USE StreamsAssumption DEF StreamsInv
  <1>0. /\ UNCHANGED <<activeStreams, lastStreamID, streamID, muNewStream, readers, waiters,
                       setting, maxStreams, server, settings, pc, writer, wire>>
        /\ loop = "read" /\ muActive = NoOne /\ goneAway' = TRUE
    BY DEF OnGoAway, streamVars
  <1>a. CASE UNCHANGED <<endVars, muActive, loop, cur>>
    <2> USE <1>0, <1>a DEF endVars
    <2>1. Typed' /\ LocksInv' /\ PlacesInv' /\ EndsInv' /\ SlotsAccounted' /\ WireInv'
      BY DEF Typed, LocksInv, PlacesInv, EndsInv, SlotsAccounted, Releasing, WireInv
    <2> QED BY <2>1, QueueKept
  <1>b. ASSUME NEW r \in activeStreams, cur' = r, reset' = reset \cup {r}, loop' = "stuck",
               muActive' = ReadLoop, done' = IF r \in reset THEN done ELSE done \cup {r}
        PROVE  StreamsInv'
    <2>1. r \in Requests /\ streamID[r] # 0
      BY DEF Typed, PlacesInv
    <2>2. r \in done => pc[r] = "release"
      BY <1>0, <2>1 DEF SlotsAccounted, Releasing
    <2>3. \A d \in Requests : pc[d] \notin {"check", "newStream"}
      BY <1>0 DEF LocksInv
    <2>4. Typed'
      BY <1>0, <1>b, <2>1 DEF Typed, LoopStates
    <2>5. LocksInv'
      BY <1>0, <1>b, <2>3 DEF LocksInv
    <2>6. PlacesInv'
      BY <1>0, <1>b, <2>1 DEF PlacesInv
    <2>7. QueueInv'
      BY <1>0, QueueKept
    <2>8. EndsInv'
      BY <1>0, <1>b, <2>1 DEF EndsInv
    <2>9. SlotsAccounted'
      <3>1. ASSUME NEW d \in Requests, d # r
            PROVE  (Releasing(d)' <=> Releasing(d)) /\ (d \in done' <=> d \in done)
        BY <1>0, <1>b, <3>1 DEF Releasing
      <3>2. Releasing(r)'
        BY <1>b DEF Releasing
      <3> QED BY <1>0, <2>1, <3>1, <3>2 DEF SlotsAccounted
    <2>10. WireInv'
      BY <1>0 DEF WireInv
    <2> QED BY <2>4, <2>5, <2>6, <2>7, <2>8, <2>9, <2>10
  <1> QED BY <1>0, <1>a, <1>b DEF OnGoAway

-----------------------------------------------------------------------------
(* No step of the connection breaks the invariant.                         *)
LEMMA StreamsNext == ASSUME StreamsInv, [Next]_vars PROVE StreamsInv'
  <1>1. CASE UNCHANGED vars
    <2> USE <1>1 DEF StreamsInv, vars, streamVars, endVars, lockVars, loopVars, peerVars
    <2>1. Typed' /\ LocksInv' /\ PlacesInv' /\ QueueInv'
      BY DEF Typed, LocksInv, PlacesInv, QueueInv
    <2>2. EndsInv' /\ SlotsAccounted' /\ WireInv'
      BY DEF EndsInv, SlotsAccounted, Releasing, WireInv
    <2> QED BY <2>1, <2>2
  <1>2. ASSUME NEW r \in Requests, Assigning(r) \/ Writing(r)
        PROVE  StreamsInv'
    BY <1>2, StartInv, CheckLimitInv, AssignIDInv, EncodesInv, WriteHeadersInv
       DEF Assigning, Writing
  <1>3. ASSUME NEW r \in Requests, Calling(r) \/ GiveUp(r)
        PROVE  StreamsInv'
    BY <1>3, CallerGoesInv, ReleaseInv, SignalInv DEF Calling
  <1>4. CASE LoopStep
    <2>1. loop = "release" => cur \in Requests
      BY DEF StreamsInv, EndsInv
    <2>2. LoopReleases => loop = "release"
      BY DEF LoopReleases
    <2> QED BY <1>4, <2>1, <2>2, LoopGoesInv, ReleaseInv, SignalInv, SettingsInv DEF LoopStep
  <1>5. CASE FromServer
    <2>1. \A r \in Requests : streamID[r] \in Nat
      BY DEF StreamsInv, Typed
    <2> QED BY <1>5, <2>1, LoopGoesInv, SettingsInv, GoesAwayInv DEF FromServer
  <1> QED BY <1>1, <1>2, <1>3, <1>4, <1>5 DEF Next

(* It holds before the first.                                              *)
LEMMA StreamsInit == Init => StreamsInv
  <1> USE StreamsAssumption DEF Init
  <1>0. <<>> \in Seq(Requests) /\ <<>> \in Seq(Nat) /\ -1 \in Int
    OBVIOUS
  <1>1. Init => Typed
    <2> SUFFICES ASSUME Init PROVE Typed
      OBVIOUS
    <2>1. /\ pc \in [Requests -> Callers] /\ writer \in [Requests -> Writers]
          /\ streamID \in [Requests -> Nat] /\ loop \in LoopStates
          /\ server \in [Requests -> {"idle", "open", "body", "closed"}]
      BY DEF Callers, Writers, LoopStates
    <2>2. setting \in [limit : Limits, window : BOOLEAN] /\ settings \in 0..MaxSettings
      OBVIOUS
    <2> QED BY <1>0, <2>1, <2>2 DEF Typed
  <1>2. Init => LocksInv /\ PlacesInv /\ QueueInv
    BY DEF LocksInv, PlacesInv, QueueInv, Early
  <1>3. Init => EndsInv /\ SlotsAccounted /\ WireInv
    BY DEF EndsInv, SlotsAccounted, Releasing, WireInv
  <1> QED BY <1>1, <1>2, <1>3 DEF StreamsInv

(* The locks, the places, the queue and the ends of every connection are   *)
(* in order in every state.                                                *)
THEOREM StreamsSafe == Spec => []StreamsInv
  BY StreamsInit, StreamsNext, PTL DEF Spec

(* Every variable holds values of its kind, whatever the limits the peer   *)
(* sets and however many requests there are.                               *)
THEOREM StreamsTypeOK == Spec => []TypeOK
  <1>1. StreamsInv => TypeOK
    BY DEF StreamsInv, Typed, TypeOK
  <1> QED BY <1>1, StreamsSafe, PTL

(* HEADERS go out in the order of their stream IDs.                        *)
THEOREM StreamsIdsIncrease == Spec => []IdsIncreaseOnWire
  <1>1. StreamsInv => IdsIncreaseOnWire
    <2>1. wire \in Seq(Nat) => DOMAIN wire = 1..Len(wire)
      OBVIOUS
    <2> QED BY <2>1 DEF StreamsInv, WireInv, IdsIncreaseOnWire, Typed
  <1> QED BY <1>1, StreamsSafe, PTL

(* A stream has a place exactly from its ID to its release.                *)
THEOREM StreamsSlotsAccounted == Spec => []SlotsAccounted
  <1>1. StreamsInv => SlotsAccounted
    BY DEF StreamsInv
  <1> QED BY <1>1, StreamsSafe, PTL

-----------------------------------------------------------------------------
(* The limit and the signals are about steps, and need the places counted. *)
LEMMA TakesOnePlace ==
  ASSUME StreamsInv, NEW r \in Requests, AssignID(r)
  PROVE  /\ Cardinality(activeStreams') = Cardinality(activeStreams) + 1
         /\ Cardinality(activeStreams) < maxStreams /\ maxStreams' = maxStreams
  <1>1. /\ r \notin activeStreams /\ Cardinality(activeStreams) < maxStreams
        /\ activeStreams' = activeStreams \cup {r} /\ maxStreams' = maxStreams
    BY DEF AssignID, TakesPlace, loopVars, StreamsInv, PlacesInv, Early
  <1> QED BY <1>1, PlacesCount, FS_AddElement DEF StreamsInv

(* No other step takes a place.                                            *)
LEMMA OnlyAssignTakes ==
  ASSUME [Next]_vars, \A r \in Requests : ~AssignID(r)
  PROVE  activeStreams' \subseteq activeStreams
  <1> USE DEF streamVars
  <1>1. CASE UNCHANGED vars
    BY <1>1 DEF vars
  <1>2. ASSUME NEW r \in Requests, Assigning(r) \/ Writing(r)
        PROVE  activeStreams' \subseteq activeStreams
    BY <1>2 DEF Assigning, Writing, Stream, LockActive, CheckLimit, StartWriter,
       EncodeHeaders, WriteHeaders
  <1>3. ASSUME NEW r \in Requests, Calling(r) \/ GiveUp(r)
        PROVE  activeStreams' \subseteq activeStreams
    BY <1>3 DEF Calling, Written, GiveUp, SawDone, GetHeaders, ResetLocal, CloseLocal, Goes,
       CallerReleases, CallerSignals, Delete, Signal
  <1>4. CASE LoopStep
    BY <1>4 DEF LoopStep, LoopResets, LoopCloses, LoopReleases, LoopSignals, LockPeer,
       UpdateSettings, Delete, Signal
  <1>5. CASE FromServer
    BY <1>5 DEF FromServer, OnFrame, OnSettings, OnGoAway
  <1> QED BY <1>1, <1>2, <1>3, <1>4, <1>5 DEF Next

(* No request takes a place past the limit in force when it takes it.      *)
THEOREM StreamsWithinLimit == Spec => StreamLimit
  <1>1. ASSUME StreamsInv, [Next]_vars, activeStreams' \ activeStreams # {}
        PROVE  Cardinality(activeStreams') <= maxStreams'
    <2>1. PICK r \in Requests : AssignID(r)
      BY <1>1, OnlyAssignTakes
    <2>2. Cardinality(activeStreams) \in Nat /\ maxStreams \in Nat
      BY <1>1, PlacesCount DEF StreamsInv
    <2> QED BY <1>1, <2>1, <2>2, TakesOnePlace
  <1> QED BY <1>1, StreamsSafe, PTL DEF Spec, StreamLimit

-----------------------------------------------------------------------------
(* Who is coming is counted like the places.                               *)
LEMMA ComingCount ==
  IsFiniteSet(Coming) /\ Cardinality(Coming) \in Nat
  <1>1. IsFiniteSet(Requests \cup {ReadLoop}) /\ Coming \subseteq Requests \cup {ReadLoop}
    BY StreamsAssumption, FS_AddElement DEF Coming
  <1> QED BY <1>1, FS_Subset, FS_CardinalityType

(* Most steps neither move the queue or the places, nor send anybody home. *)
LEMMA KeepsComing ==
  ASSUME StreamsInv, [Next]_vars,
         \A r \in Requests : ~CheckLimit(r) /\ ~AssignID(r) /\ ~CallerReleases(r) /\ ~CallerSignals(r),
         ~LoopReleases, ~LoopSignals
  PROVE  /\ UNCHANGED <<waiters, activeStreams>>
         /\ Coming \subseteq Coming'
  <1> USE DEF streamVars, lockVars, loopVars
  <1>1. CASE UNCHANGED vars
    BY <1>1 DEF vars, Coming
  <1>2. ASSUME NEW r \in Requests, Assigning(r) \/ Writing(r)
        PROVE  UNCHANGED <<waiters, activeStreams>> /\ Coming \subseteq Coming'
    BY <1>2 DEF Assigning, Writing, Stream, LockActive, StartWriter,
       EncodeHeaders, WriteHeaders, Coming, StreamsInv, Typed
  <1>3. ASSUME NEW r \in Requests, Calling(r) \/ GiveUp(r)
        PROVE  UNCHANGED <<waiters, activeStreams>> /\ Coming \subseteq Coming'
    BY <1>3 DEF Calling, Written, GiveUp, SawDone, GetHeaders, ResetLocal, CloseLocal, Goes,
       Coming, StreamsInv, Typed
  <1>4. CASE LoopStep
    BY <1>4 DEF LoopStep, LoopResets, LoopCloses, LockPeer, UpdateSettings, LoopGoes, Coming
  <1>5. CASE FromServer
    BY <1>5 DEF FromServer, OnFrame, OnSettings, OnGoAway, Coming
  <1> QED BY <1>1, <1>2, <1>3, <1>4, <1>5 DEF Next

(* A place that is given up is a signal on its way.                        *)
LEMMA PlaceBecomesSignal ==
  ASSUME StreamsInv, NEW r \in Requests, CallerReleases(r) \/ (LoopReleases /\ cur = r)
  PROVE  /\ UNCHANGED waiters
         /\ Cardinality(activeStreams) + Cardinality(Coming)
              <= Cardinality(activeStreams') + Cardinality(Coming')
  <1>1. PICK who \in {r, ReadLoop} :
          /\ who \notin Coming /\ Coming' = Coming \cup {who}
          /\ activeStreams' = activeStreams \ {r} /\ UNCHANGED waiters
    <2>1. CASE CallerReleases(r)
      BY <2>1, StreamsAssumption
         DEF CallerReleases, Delete, loopVars, lockVars, Coming, StreamsInv, Typed
    <2>2. CASE LoopReleases /\ cur = r
      BY <2>2, StreamsAssumption DEF LoopReleases, LoopGoes, Delete, lockVars, Coming
    <2> QED BY <2>1, <2>2
  <1>2. Cardinality(Coming') = Cardinality(Coming) + 1
    BY <1>1, ComingCount, FS_AddElement
  <1>3. Cardinality(activeStreams') >= Cardinality(activeStreams) - 1
    <2>1. IsFiniteSet(activeStreams) /\ Cardinality(activeStreams) \in Nat
      BY PlacesCount DEF StreamsInv
    <2>2. Cardinality(activeStreams \ {r})
            = IF r \in activeStreams THEN Cardinality(activeStreams) - 1
              ELSE Cardinality(activeStreams)
      BY <2>1, FS_RemoveElement
    <2> QED BY <1>1, <2>1, <2>2
  <1>4. IsFiniteSet(activeStreams') /\ Cardinality(activeStreams') \in Nat
    BY <1>1, PlacesCount, FS_Subset, FS_CardinalityType DEF StreamsInv
  <1> QED BY <1>1, <1>2, <1>3, <1>4, PlacesCount, ComingCount DEF StreamsInv

(* A signal that meets a waiter is a waiter on its way.                    *)
LEMMA SignalPassedOn ==
  ASSUME StreamsInv, LoopSignals \/ \E r \in Requests : CallerSignals(r)
  PROVE  /\ UNCHANGED activeStreams
         /\ waiters = <<>> => waiters' = <<>>
         /\ waiters # <<>> => Cardinality(Coming') = Cardinality(Coming)
  <1>0. UNCHANGED activeStreams /\ (waiters = <<>> => waiters' = <<>>)
    BY DEF LoopSignals, CallerSignals, Signal, streamVars
  <1>1. ASSUME waiters # <<>>
        PROVE  \E who \in Coming : \E w \in Requests \ Coming :
                 Coming' = (Coming \ {who}) \cup {w}
    <2>1. CASE LoopSignals
      <3>1. pc \in [Requests -> Callers] /\ Signal(pc) /\ loop = "signal" /\ loop' = "read"
        BY <2>1 DEF LoopSignals, LoopGoes, StreamsInv, Typed
      <3>2. PICK w \in Requests : pc[w] = "parked" /\ pc' = [pc EXCEPT ![w] = "lock"]
        BY <1>1, <3>1, SignalWakes
      <3>3. ReadLoop \in Coming /\ w \notin Coming
        BY <3>1, <3>2, StreamsAssumption DEF Coming
      <3>4. Coming' = (Coming \ {ReadLoop}) \cup {w}
        BY <3>1, <3>2, StreamsAssumption DEF Coming
      <3> QED BY <3>3, <3>4
    <2>2. ASSUME NEW r \in Requests, CallerSignals(r)
          PROVE  \E who \in Coming : \E w \in Requests \ Coming :
                   Coming' = (Coming \ {who}) \cup {w}
      <3> DEFINE callers == [pc EXCEPT ![r] = "out"]
      <3>1. /\ callers \in [Requests -> Callers] /\ Signal(callers) /\ pc[r] = "signal"
            /\ loop' = loop
            /\ \A d \in Requests : callers[d] = "parked" <=> pc[d] = "parked"
        BY <2>2 DEF CallerSignals, loopVars, StreamsInv, Typed, Callers
      <3> HIDE DEF callers
      <3>2. PICK w \in Requests : pc[w] = "parked" /\ pc' = [callers EXCEPT ![w] = "lock"]
        BY <1>1, <3>1, SignalWakes
      <3>3. r \in Coming /\ w \notin Coming
        BY <3>1, <3>2, StreamsAssumption DEF Coming
      <3>4. Coming' = (Coming \ {r}) \cup {w}
        BY <3>1, <3>2, <3>3, StreamsAssumption DEF Coming, callers, StreamsInv, Typed
      <3> QED BY <3>3, <3>4
    <2> QED BY <2>1, <2>2
  <1>2. ASSUME waiters # <<>>
        PROVE  Cardinality(Coming') = Cardinality(Coming)
    <2>1. PICK who \in Coming : \E w \in Requests \ Coming :
            Coming' = (Coming \ {who}) \cup {w}
      BY <1>1, <1>2
    <2>2. PICK w \in Requests \ Coming : Coming' = (Coming \ {who}) \cup {w}
      BY <2>1
    <2>3. IsFiniteSet(Coming \ {who}) /\ Cardinality(Coming \ {who}) = Cardinality(Coming) - 1
      BY ComingCount, FS_RemoveElement
    <2>4. Cardinality((Coming \ {who}) \cup {w}) = Cardinality(Coming \ {who}) + 1
      BY <2>3, FS_AddElement
    <2> QED BY <2>2, <2>3, <2>4, ComingCount
  <1> QED BY <1>0, <1>2

(* A caller that takes its place is not coming any more.                   *)
LEMMA PlaceTaken ==
  ASSUME StreamsInv, NEW r \in Requests, AssignID(r)
  PROVE  /\ UNCHANGED waiters
         /\ Cardinality(activeStreams') + Cardinality(Coming')
              = Cardinality(activeStreams) + Cardinality(Coming)
  <1>1. /\ r \in Coming /\ Coming' = Coming \ {r} /\ UNCHANGED waiters
    BY StreamsAssumption DEF AssignID, TakesPlace, Coming, loopVars, StreamsInv, Typed
  <1>2. Cardinality(Coming') = Cardinality(Coming) - 1
    BY <1>1, ComingCount, FS_RemoveElement
  <1> QED BY <1>1, <1>2, TakesOnePlace, PlacesCount, ComingCount DEF StreamsInv

(* The test of the limit parks nobody while there is a place.              *)
LEMMA ParksWhenFull ==
  ASSUME StreamsInv, NEW r \in Requests, CheckLimit(r)
  PROVE  \/ ~Starved'
         \/ UNCHANGED <<waiters, activeStreams, Coming>>
  <1> USE DEF CheckLimit, streamVars, loopVars
  <1>1. CASE Cardinality(activeStreams) >= maxStreams
    <2>1. IsFiniteSet(Coming') /\ Cardinality(Coming') \in Nat
      <3>1. IsFiniteSet(Requests \cup {ReadLoop}) /\ Coming' \subseteq Requests \cup {ReadLoop}
        BY StreamsAssumption, FS_AddElement DEF Coming
      <3> QED BY <3>1, FS_Subset, FS_CardinalityType
    <2>2. activeStreams' = activeStreams /\ maxStreams' = maxStreams
      OBVIOUS
    <2> HIDE DEF CheckLimit
    <2> QED BY <1>1, <2>1, <2>2, PlacesCount DEF Starved, StreamsInv
  <1>2. CASE ~(Cardinality(activeStreams) >= maxStreams)
    BY <1>2 DEF Coming, StreamsInv, Typed
  <1> QED BY <1>1, <1>2

(* While a caller is parked, every place is taken or somebody is on the    *)
(* way who will take it, test again or signal; only the SETTINGS handler,  *)
(* which does not signal, makes it otherwise.                              *)
THEOREM StreamsNoLostSignal == Spec => NoLostSignal
  <1>1. ASSUME StreamsInv, [Next]_vars, StreamsInv', Starved', ~(maxStreams' > maxStreams)
        PROVE  Starved
    <2> DEFINE taken == Cardinality(activeStreams) + Cardinality(Coming)
    <2>1. /\ Cardinality(activeStreams) \in Nat /\ Cardinality(activeStreams') \in Nat
          /\ maxStreams \in Nat /\ maxStreams' \in Nat
          /\ Cardinality(Coming) \in Nat /\ Cardinality(Coming') \in Nat
          /\ IsFiniteSet(Coming')
      <3>1. IsFiniteSet(Requests \cup {ReadLoop}) /\ Coming' \subseteq Requests \cup {ReadLoop}
        BY StreamsAssumption, FS_AddElement DEF Coming
      <3>2. activeStreams' \subseteq Requests /\ maxStreams' \in Limits
        BY <1>1 DEF StreamsInv, Typed
      <3> QED BY <1>1, <3>1, <3>2, FS_Subset, FS_CardinalityType, PlacesCount, ComingCount,
                 StreamsAssumption DEF StreamsInv
    <2>2. waiters # <<>> /\ taken <= taken'
      <3>1. CASE \E r \in Requests : CheckLimit(r)
        BY <1>1, <2>1, <3>1, ParksWhenFull DEF Starved
      <3>2. CASE \E r \in Requests : AssignID(r)
        BY <1>1, <2>1, <3>2, PlaceTaken DEF Starved
      <3>3. CASE LoopSignals \/ \E r \in Requests : CallerSignals(r)
        BY <1>1, <2>1, <3>3, SignalPassedOn DEF Starved
      <3>4. CASE LoopReleases \/ \E r \in Requests : CallerReleases(r)
        <4>1. LoopReleases => cur \in Requests
          BY <1>1 DEF LoopReleases, StreamsInv, EndsInv
        <4> QED BY <1>1, <2>1, <3>4, <4>1, PlaceBecomesSignal DEF Starved
      <3>5. CASE /\ ~LoopReleases /\ ~LoopSignals
                 /\ \A r \in Requests : /\ ~CheckLimit(r) /\ ~AssignID(r)
                                        /\ ~CallerReleases(r) /\ ~CallerSignals(r)
        <4>1. UNCHANGED <<waiters, activeStreams>> /\ Coming \subseteq Coming'
          BY <1>1, <3>5, KeepsComing
        <4>2. Cardinality(Coming) <= Cardinality(Coming')
          BY <2>1, <4>1, FS_Subset
        <4> QED BY <1>1, <2>1, <4>1, <4>2 DEF Starved
      <3> QED BY <3>1, <3>2, <3>3, <3>4, <3>5
    <2> QED BY <1>1, <2>1, <2>2 DEF Starved
  <1> QED BY <1>1, StreamsSafe, PTL DEF Spec, NoLostSignal
=============================================================================
