----------------------------- MODULE H2Streams -----------------------------
(***************************************************************************)
(* Streams of one HTTP/2 connection (internal/transport/h2c.go,            *)
(* internal/transport/h2c/conn.go, stream.go): how requests get their      *)
(* stream IDs and their places in activeStreams, and how responses,        *)
(* resets, contexts, SETTINGS and GOAWAY end them.                         *)
(*                                                                         *)
(* The goroutines are one caller per request (H2C.RoundTrip), the writer   *)
(* that WriteRequest starts for it, and the read loop of the connection    *)
(* (Controller.consumer), which runs every frame handler. They meet at the *)
(* mutexes muActive, muNewStream and muPeer (a sync.RWMutex: a writer that *)
(* waits keeps new readers out), at the condition condActive and at the    *)
(* rstOnce and doneOnce of each stream. A request stands for its Stream    *)
(* object, its body is H2Send's, and its header block is one frame. A      *)
(* context may end at any time: GiveUp is the select that sees it. The     *)
(* caller and the writer assign one variable, err, without a lock: a caller*)
(* that gives up as its writer succeeds may find nil there and go on, as   *)
(* Written does.                                                           *)
(***************************************************************************)
EXTENDS Integers, Sequences, FiniteSets

CONSTANTS Requests,     \* the requests made on the connection
          NoOne,        \* holder of a free mutex
          ReadLoop,     \* the read loop, as a holder
          Limits,       \* the MAX_CONCURRENT_STREAMS the peer may set
          MaxSettings   \* bound: SETTINGS frames the peer sends

ASSUME StreamsAssumption ==
  /\ IsFiniteSet(Requests)
  /\ NoOne \notin Requests \cup {ReadLoop}
  /\ ReadLoop \notin Requests
  /\ Limits \subseteq Nat
  /\ MaxSettings \in Nat

VARIABLES activeStreams,  \* the requests registered in the map
          lastStreamID,   \* the counter
          streamID,       \* Stream.streamID, 0 before it has one
          done,           \* streams whose done channel is closed
          reset,          \* streams whose rstOnce has been entered
          pc,             \* where each caller stands
          writer,         \* where each request's writer goroutine stands
          muActive,       \* who holds conn.muActive
          muNewStream,    \* who holds conn.muNewStream
          readers,        \* requests that hold muPeer for reading
          waiters,        \* callers parked in condActive.Wait, in order
          loop,           \* where the read loop stands
          cur,            \* the stream it works for
          setting,        \* the SETTINGS frame it works for
          maxStreams,     \* peerSettings.v[MAX_CONCURRENT_STREAMS]
          wire,           \* the IDs of the HEADERS frames we have written
          server,         \* the server's side of each stream
          settings,       \* SETTINGS frames received
          goneAway        \* a GOAWAY has been received: controller.done

streamVars == <<activeStreams, lastStreamID, streamID>>
endVars == <<done, reset>>
lockVars == <<muActive, muNewStream, readers, waiters>>
loopVars == <<loop, cur, setting, maxStreams>>
peerVars == <<server, settings, goneAway>>
vars == <<streamVars, endVars, lockVars, loopVars, peerVars, pc, writer, wire>>

Callers == {"start", "lock", "check", "parked", "newStream", "window", "wait",
            "headers", "reset", "close", "release", "signal", "out"}
Writers == {"none", "encode", "write", "done", "failed"}
LoopStates == {"read", "offer", "offerEnd", "reset", "close", "release", "signal",
               "wantPeer", "havePeer", "stuck"}

(* muPeer.RLock does not block.                                            *)
CanReadSettings == loop \notin {"wantPeer", "havePeer"}

Init ==
  /\ activeStreams = {} /\ lastStreamID = -1
  /\ streamID = [r \in Requests |-> 0]
  /\ done = {} /\ reset = {}
  /\ pc = [r \in Requests |-> "start"]
  /\ writer = [r \in Requests |-> "none"]
  /\ muActive = NoOne /\ muNewStream = NoOne /\ readers = {} /\ waiters = <<>>
  /\ loop = "read" /\ cur = NoOne
  /\ maxStreams \in Limits
  /\ setting = [limit |-> maxStreams, window |-> FALSE]
  /\ wire = <<>>
  /\ server = [r \in Requests |-> "idle"]
  /\ settings = 0 /\ goneAway = FALSE

-----------------------------------------------------------------------------
(* Connection.Stream and AssignStreamID.                                   *)

(* Stream refuses once the connection is done.                             *)
Stream(r) ==
  /\ pc[r] = "start"
  /\ pc' = [pc EXCEPT ![r] = IF goneAway THEN "out" ELSE "lock"]
  /\ UNCHANGED <<streamVars, endVars, lockVars, loopVars, peerVars, writer, wire>>

(* muActive.Lock, at first or when Wait returns.                           *)
LockActive(r) ==
  /\ pc[r] = "lock" /\ muActive = NoOne
  /\ muActive' = r
  /\ pc' = [pc EXCEPT ![r] = "check"]
  /\ UNCHANGED <<streamVars, endVars, muNewStream, readers, waiters, loopVars, peerVars,
                 writer, wire>>

(* Faulty: the settings are let go before the place is taken.              *)
CheckLimitReleases(r) ==
  /\ pc[r] = "check"
  /\ CanReadSettings
  /\ IF Cardinality(activeStreams) >= maxStreams
     THEN /\ muActive' = NoOne
          /\ waiters' = Append(waiters, r)
          /\ pc' = [pc EXCEPT ![r] = "parked"]
     ELSE /\ pc' = [pc EXCEPT ![r] = "newStream"]
          /\ UNCHANGED <<muActive, waiters>>
  /\ UNCHANGED <<streamVars, endVars, muNewStream, readers, loopVars, peerVars, writer, wire>>

(* The loop's test. Wait releases muActive and parks the caller; one that  *)
(* goes on keeps its read lock on the settings.                            *)
CheckLimit(r) ==
  /\ pc[r] = "check"
  /\ CanReadSettings
  /\ IF Cardinality(activeStreams) >= maxStreams
     THEN /\ muActive' = NoOne
          /\ waiters' = Append(waiters, r)
          /\ pc' = [pc EXCEPT ![r] = "parked"]
          /\ UNCHANGED readers
     ELSE /\ readers' = readers \cup {r}
          /\ pc' = [pc EXCEPT ![r] = "newStream"]
          /\ UNCHANGED <<muActive, waiters>>
  /\ UNCHANGED <<streamVars, endVars, muNewStream, loopVars, peerVars, writer, wire>>

TakesPlace(r, id) ==
  /\ lastStreamID' = lastStreamID + 2
  /\ streamID' = [streamID EXCEPT ![r] = id]
  /\ activeStreams' = activeStreams \cup {r}
  /\ muActive' = NoOne
  /\ readers' = readers \ {r}
  /\ pc' = [pc EXCEPT ![r] = "window"]
  /\ UNCHANGED <<endVars, waiters, loopVars, peerVars, writer, wire>>

(* Faulty: without muNewStream.                                            *)
AssignIDUnlocked(r) ==
  /\ pc[r] = "newStream"
  /\ UNCHANGED muNewStream
  /\ TakesPlace(r, lastStreamID + 2)

(* Faulty: the counter's value before the addition.                        *)
AssignIDOld(r) ==
  /\ pc[r] = "newStream"
  /\ muNewStream = NoOne /\ muNewStream' = r
  /\ TakesPlace(r, lastStreamID)

(* muNewStream.Lock, held until the HEADERS are written.                   *)
AssignID(r) ==
  /\ pc[r] = "newStream"
  /\ muNewStream = NoOne /\ muNewStream' = r
  /\ TakesPlace(r, lastStreamID + 2)

(* The stream's windows are set from the settings; WriteRequest goes on.   *)
StartWriter(r) ==
  /\ pc[r] = "window"
  /\ CanReadSettings
  /\ pc' = [pc EXCEPT ![r] = "wait"]
  /\ writer' = [writer EXCEPT ![r] = "encode"]
  /\ UNCHANGED <<streamVars, endVars, lockVars, loopVars, peerVars, wire>>

-----------------------------------------------------------------------------
(* The writer goroutine: EncodeHeaders and WriteHeaders.                   *)

(* The first of EncodeHeaders' read locks, held while it takes the others. *)
EncodeHeaders(r) ==
  /\ writer[r] = "encode"
  /\ CanReadSettings
  /\ readers' = readers \cup {r}
  /\ writer' = [writer EXCEPT ![r] = "write"]
  /\ UNCHANGED <<streamVars, endVars, muActive, muNewStream, waiters, loopVars, peerVars,
                 pc, wire>>

(* The others, then the frame, and muNewStream.Unlock. It fails when the   *)
(* context is done, the list too large or the frame cannot be written; only*)
(* a writer that succeeds goes on.                                         *)
WriteHeaders(r, ok) ==
  /\ writer[r] = "write"
  /\ CanReadSettings
  /\ writer' = [writer EXCEPT ![r] = IF ok THEN "done" ELSE "failed"]
  /\ wire' = IF ok THEN Append(wire, streamID[r]) ELSE wire
  /\ server' = [server EXCEPT ![r] = IF ok THEN "open" ELSE @]
  /\ muNewStream' = NoOne
  /\ readers' = readers \ {r}
  /\ UNCHANGED <<streamVars, endVars, muActive, waiters, loopVars, settings, goneAway, pc>>

-----------------------------------------------------------------------------
(* The caller: WriteRequest's select, ReadHeaders, Reset.                  *)

Goes(r, state) ==
  /\ pc' = [pc EXCEPT ![r] = state]
  /\ UNCHANGED <<streamVars, lockVars, peerVars, writer, wire>>

Written(r) ==
  /\ pc[r] = "wait" /\ writer[r] = "done"
  /\ Goes(r, "headers") /\ UNCHANGED <<endVars, loopVars>>

(* The branch <-ctx.Done() of either select.                               *)
GiveUp(r) ==
  /\ pc[r] \in {"wait", "headers"}
  /\ Goes(r, "reset") /\ UNCHANGED <<endVars, loopVars>>

(* The branch <-s.done.                                                    *)
SawDone(r) ==
  /\ pc[r] = "headers" /\ r \in done
  /\ Goes(r, "out") /\ UNCHANGED <<endVars, loopVars>>

(* The branch <-s.chanHeaders meets the read loop's send; the caller resets*)
(* the stream if it cannot use a field.                                    *)
GetHeaders(r, usable) ==
  /\ pc[r] = "headers"
  /\ loop \in {"offer", "offerEnd"} /\ cur = r
  /\ Goes(r, IF usable THEN "out" ELSE "reset")
  /\ loop' = IF loop = "offerEnd" THEN "close" ELSE "read"
  /\ cur' = IF loop = "offerEnd" THEN cur ELSE NoOne
  /\ UNCHANGED <<endVars, setting, maxStreams>>

(* The read loop is inside the rstOnce or the doneOnce of r, through steps.*)
LoopInside(r, steps) == cur = r /\ loop \in steps

(* Reset(code, false): rstOnce, behind the read loop if that is in it;     *)
(* RST_STREAM.                                                             *)
ResetLocal(r) ==
  /\ pc[r] = "reset"
  /\ r \in reset => ~LoopInside(r, {"close", "release", "signal", "stuck"})
  /\ reset' = reset \cup {r}
  /\ Goes(r, "close") /\ UNCHANGED <<done, loopVars>>

(* Faulty: a stream whose HEADERS never went out is not released.          *)
CloseLocalUnsent(r) ==
  /\ pc[r] = "close"
  /\ r \in done => ~LoopInside(r, {"release", "signal", "stuck"})
  /\ done' = done \cup {r}
  /\ Goes(r, IF r \in done \/ writer[r] # "done" THEN "out" ELSE "release")
  /\ UNCHANGED <<reset, loopVars>>

(* CloseWithError: doneOnce, likewise.                                     *)
CloseLocal(r) ==
  /\ pc[r] = "close"
  /\ r \in done => ~LoopInside(r, {"release", "signal", "stuck"})
  /\ done' = done \cup {r}
  /\ Goes(r, IF r \in done THEN "out" ELSE "release") /\ UNCHANGED <<reset, loopVars>>

(* ReleaseStreamID: delete under muActive, then Signal.                    *)
Delete(r) ==
  /\ muActive = NoOne
  /\ activeStreams' = activeStreams \ {r}
  /\ UNCHANGED <<lastStreamID, streamID, endVars, lockVars, peerVars, writer, wire>>

(* Faulty: signals only if the map is still full.                          *)
SignalWhenFull(callers) ==
  LET wakes == waiters # <<>> /\ Cardinality(activeStreams) >= maxStreams IN
  /\ pc' = IF wakes THEN [callers EXCEPT ![Head(waiters)] = "lock"] ELSE callers
  /\ waiters' = IF wakes THEN Tail(waiters) ELSE waiters
  /\ UNCHANGED <<streamVars, endVars, muActive, muNewStream, readers, peerVars, writer, wire>>

Signal(callers) ==
  /\ pc' = IF waiters = <<>> THEN callers ELSE [callers EXCEPT ![Head(waiters)] = "lock"]
  /\ waiters' = IF waiters = <<>> THEN waiters ELSE Tail(waiters)
  /\ UNCHANGED <<streamVars, endVars, muActive, muNewStream, readers, peerVars, writer, wire>>

CallerReleases(r) ==
  /\ pc[r] = "release"
  /\ Delete(r)
  /\ pc' = [pc EXCEPT ![r] = "signal"]
  /\ UNCHANGED loopVars

CallerSignals(r) ==
  /\ pc[r] = "signal"
  /\ Signal([pc EXCEPT ![r] = "out"])
  /\ UNCHANGED loopVars

-----------------------------------------------------------------------------
(* The read loop. The server may send what its side of a stream allows; it *)
(* need not have seen our resets.                                          *)

Sends == [idle   |-> {},
          open   |-> {"HEADERS", "HEADERS_END", "RST_STREAM", "RST_NO_ERROR"},
          body   |-> {"DATA_END", "RST_STREAM", "RST_NO_ERROR"},
          closed |-> {}]

Handler == [HEADERS |-> "offer", HEADERS_END |-> "offerEnd", DATA_END |-> "close",
            RST_STREAM |-> "reset"]

(* withStream: no frame reaches a stream that is not valid any more, but an*)
(* RST_STREAM goes back. A reset without an error is not looked at.        *)
OnFrame(r, frame) ==
  /\ loop = "read" /\ muActive = NoOne
  /\ frame \in Sends[server[r]]
  /\ server' = [server EXCEPT ![r] = IF frame = "HEADERS" THEN "body" ELSE "closed"]
  /\ IF frame # "RST_NO_ERROR" /\ r \in activeStreams \ done
     THEN loop' = Handler[frame] /\ cur' = r
     ELSE UNCHANGED <<loop, cur>>
  /\ UNCHANGED <<streamVars, endVars, lockVars, setting, maxStreams, settings, goneAway,
                 pc, writer, wire>>

LoopGoes(state, stream) ==
  /\ loop' = state /\ cur' = stream
  /\ UNCHANGED <<setting, maxStreams>>

(* Reset(code, true): rstOnce, behind the caller if that is in it.         *)
LoopResets ==
  /\ loop = "reset"
  /\ IF cur \in reset
     THEN pc[cur] \notin {"close", "release", "signal"} /\ LoopGoes("read", NoOne)
     ELSE LoopGoes("close", cur)
  /\ reset' = reset \cup {cur}
  /\ UNCHANGED <<streamVars, done, lockVars, peerVars, pc, writer, wire>>

(* Close: doneOnce, likewise.                                              *)
LoopCloses ==
  /\ loop = "close"
  /\ IF cur \in done
     THEN pc[cur] \notin {"release", "signal"} /\ LoopGoes("read", NoOne)
     ELSE LoopGoes("release", cur)
  /\ done' = done \cup {cur}
  /\ UNCHANGED <<streamVars, reset, lockVars, peerVars, pc, writer, wire>>

LoopReleases ==
  /\ loop = "release"
  /\ Delete(cur)
  /\ LoopGoes("signal", cur)
  /\ UNCHANGED pc

LoopSignals ==
  /\ loop = "signal"
  /\ Signal(pc)
  /\ LoopGoes("read", NoOne)

(* SETTINGS: UpdatePeerSettings takes muPeer for writing. The callback for *)
(* INITIAL_WINDOW_SIZE takes muActive; then the ACK, then muPeer.Unlock.   *)
OnSettings(limit, window) ==
  /\ loop = "read" /\ settings < MaxSettings
  /\ settings' = settings + 1
  /\ loop' = "wantPeer"
  /\ setting' = [limit |-> limit, window |-> window]
  /\ UNCHANGED <<streamVars, endVars, lockVars, cur, maxStreams, server, goneAway, pc,
                 writer, wire>>

LockPeer ==
  /\ loop = "wantPeer" /\ readers = {}
  /\ loop' = "havePeer"
  /\ UNCHANGED <<streamVars, endVars, lockVars, cur, setting, maxStreams, peerVars, pc,
                 writer, wire>>

UpdateSettings ==
  /\ loop = "havePeer"
  /\ setting.window => muActive = NoOne
  /\ maxStreams' = setting.limit
  /\ loop' = "read"
  /\ UNCHANGED <<streamVars, endVars, lockVars, cur, setting, peerVars, pc, writer, wire>>

(* GOAWAY: the handler holds muActive while it resets the streams above    *)
(* last, and the first of them locks muActive again in ReleaseStreamID, or *)
(* waits in rstOnce for a caller that does.                                *)
OnGoAway(last) ==
  /\ loop = "read" /\ muActive = NoOne
  /\ ~goneAway /\ goneAway' = TRUE
  /\ LET above == {r \in activeStreams : streamID[r] > last} IN
     IF above = {} THEN UNCHANGED <<endVars, muActive, loop, cur>>
     ELSE /\ \E r \in above :
               /\ cur' = r /\ reset' = reset \cup {r}
               /\ done' = IF r \in reset THEN done ELSE done \cup {r}
          /\ muActive' = ReadLoop
          /\ loop' = "stuck"
  /\ UNCHANGED <<streamVars, muNewStream, readers, waiters, setting, maxStreams, server,
                 settings, pc, writer, wire>>

-----------------------------------------------------------------------------
Assigning(r) == Stream(r) \/ LockActive(r) \/ CheckLimit(r) \/ AssignID(r) \/ StartWriter(r)
Writing(r) == EncodeHeaders(r) \/ \E ok \in BOOLEAN : WriteHeaders(r, ok)
Calling(r) ==
  \/ Written(r) \/ SawDone(r) \/ \E usable \in BOOLEAN : GetHeaders(r, usable)
  \/ ResetLocal(r) \/ CloseLocal(r) \/ CallerReleases(r) \/ CallerSignals(r)
LoopStep ==
  LoopResets \/ LoopCloses \/ LoopReleases \/ LoopSignals \/ LockPeer \/ UpdateSettings
FromServer ==
  \/ \E r \in Requests : \E frame \in Sends[server[r]] : OnFrame(r, frame)
  \/ \E limit \in Limits, window \in BOOLEAN : OnSettings(limit, window)
  \/ \E r \in Requests : OnGoAway(streamID[r])

Next ==
  \/ \E r \in Requests : Assigning(r) \/ Writing(r) \/ Calling(r) \/ GiveUp(r)
  \/ LoopStep \/ FromServer

Spec == Init /\ [][Next]_vars

(* The scheduler runs every goroutine that can run. Nothing makes a context*)
(* end or a server speak.                                                  *)
FairSpec ==
  /\ Spec
  /\ WF_vars(LoopStep)
  /\ \A r \in Requests :
       WF_vars(Assigning(r)) /\ WF_vars(Writing(r)) /\ WF_vars(Calling(r))

-----------------------------------------------------------------------------
(* Every variable holds values of its kind.                                *)
TypeOK ==
  /\ {activeStreams, done, reset, readers} \subseteq SUBSET Requests
  /\ lastStreamID \in Int /\ streamID \in [Requests -> Nat]
  /\ pc \in [Requests -> Callers] /\ writer \in [Requests -> Writers]
  /\ muActive \in Requests \cup {NoOne, ReadLoop} /\ muNewStream \in Requests \cup {NoOne}
  /\ waiters \in Seq(Requests)
  /\ loop \in LoopStates /\ cur \in Requests \cup {NoOne}
  /\ setting \in [limit : Limits, window : BOOLEAN] /\ maxStreams \in Limits
  /\ wire \in Seq(Nat)
  /\ server \in [Requests -> {"idle", "open", "body", "closed"}]
  /\ settings \in 0..MaxSettings /\ goneAway \in BOOLEAN

(* Stream IDs go out in increasing order, although requests are concurrent *)
(* and each has a goroutine write its HEADERS: muNewStream is held from the*)
(* assignment to the write.                                                *)
IdsIncreaseOnWire == \A i, j \in DOMAIN wire : i < j => wire[i] < wire[j]

(* No request takes a place past the limit that is in force when it takes  *)
(* it, although the peer may change the limit at any time and places are   *)
(* tested before they are taken.                                           *)
StreamLimit ==
  [][activeStreams' \ activeStreams # {} => Cardinality(activeStreams') <= maxStreams']_vars

Releasing(r) ==
  \/ pc[r] = "release"
  \/ loop \in {"release", "stuck"} /\ cur = r

(* A stream has its place in activeStreams from the moment it has an ID    *)
(* until it is done and released, however it ends and whoever ends it: no  *)
(* place is lost to a stream that is over, none taken from one that is not.*)
SlotsAccounted ==
  \A r \in Requests :
    r \in activeStreams <=> streamID[r] # 0 /\ (r \in done => Releasing(r))

Coming == {r \in Requests : pc[r] \in {"lock", "check", "newStream", "signal"}}
          \cup (IF loop = "signal" THEN {ReadLoop} ELSE {})

Starved ==
  /\ waiters # <<>>
  /\ Cardinality(activeStreams) + Cardinality(Coming) < maxStreams

(* No signal of condActive is lost: while a caller is parked, every place  *)
(* is taken, or somebody is on the way who will take it, test again or     *)
(* signal. Only a peer that raises the limit can leave a caller parked with*)
(* room to spare: the SETTINGS handler does not signal.                    *)
NoLostSignal == [][Starved' => Starved \/ maxStreams' > maxStreams]_vars

(* Settings the peer sends come into force: the handler gets muPeer and    *)
(* muActive, acknowledges, and lets the others read them.                  *)
SettingsApplied == loop = "wantPeer" ~> loop = "read"
=============================================================================
