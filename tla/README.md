# A verification project for go-http

`frankli0324/go-http` is an HTTP client for Go: HTTP/1.1 over pooled connections, and an
HTTP/2 transport that is written but not yet reachable from the dialer
(`src/internal/dialer/dial.go:92`). This directory holds TLA+ models of its concurrent core,
the TLC configurations that check them, and TLAPS proofs of what they check.

## The system

    Client.CtxDo -> Prepare -> CoreDialer.Dial -> PoolGroup -> Pool.Connect -> dial, Conn.Setup
                 -> Session.Do  -> write loop -> read loop -> response, body -> Release
    H2C.RoundTrip -> AssignStreamID, writer goroutine, read loop (Controller.consumer)

| component | state | operations | what is hard | what makes it correct |
|---|---|---|---|---|
| `netpool.Pool` (`pool.go`, `connection.go`) | two channels, `IsClosed` of each connection | Connect, Release, Close | select after a stale poll, hand-over to a parked goroutine, close in three steps, failing dials | exclusive lease, the limit, exact accounts, no lost wake-up |
| `netpool.PoolGroup` | map of pools under a RWMutex | Connect | creation raced by two callers | one pool for a key |
| `http1.Conn`, `http1.Session` (`http1.go`) | `wloop`, `rloop`, `needClose`, `remaining`, `doneCh` | Do, Setup's two loops, Read, Close | hand-over between loops, errors on each side, cancelled contexts, reuse | own response, clean reuse, each call returns |
| response framing (`readHeader`, `ReadRaw`, `chunked.Reader`) | bufio, `remaining`, chunk size and count | readResponse, Read, Close | which rule delimits a body, buffers cut at any place | bodies whole, next head found |
| `h2c` streams (`conn.go`, `stream.go`, `h2c.go`) | `activeStreams`, `lastStreamID`, three mutexes, a condition, two Once per stream | AssignStreamID, WriteHeaders, Reset, frame handlers | lock order, limit against SETTINGS, four ways to end a stream | IDs in order, the limit, places and signals accounted for, SETTINGS applied |
| `h2c` flow control (`flow.go`, `takeOutflow`, `WriteRequestBody`, OnData) | windows of connection and streams | Pay, Refund | negative windows, waits that nothing ends, refunds dropped | windows conserved, nobody sends past them |
| `h2c/controller` | settings, `done`, `closing`, ping futures | Handshake, consumer, GoAway, Ping | late PING ACK, several ends at once, dead connection that stays valid | whoever sees `done` finds the reason, no ACK goes to a channel that is closed |
| dialer, proxy, DNS, TLS | configuration, the key of a connection | Dial, DialContextOverProxy, Merge | connections made for one request and used by others | a request reaches whom it is for |
| requests (`internal/http`), chunked writer | none shared | Prepare, updateBody, Write | three lengths of one body | a request ends where its header says |
| nettools, helpers, public API | | | | |

`PROJECT.json` lists every component with its status, every definition with the lines it
models, and forty hazards with the properties that cover them or the reason none does.

## Modules

| module | models | extends |
|---|---|---|
| `ConnLease` | what a pool promises: connections open or not, each leased to at most one client | |
| `NetPool` | `pool.go`, `connection.go` | |
| `NetPoolProofs` | theorems about `NetPool` | `NetPool`, TLAPS |
| `Http1` | `http1.go` sessions and loops, `client.go`, a server | `NetPool` |
| `Http1Proofs` | theorems about `Http1` | `Http1`, `NetPoolProofs` |
| `ResponseStream` | `readHeader`, `readResponse`, `Read`, `ReadRaw`, `chunked/reader.go` | |
| `ResponseStreamProofs` | theorems about `ResponseStream` | `ResponseStream`, TLAPS |
| `H2Streams` | `h2c.go`, `h2c/conn.go`, `h2c/stream.go`, the settings locks and the GOAWAY handler of `h2c/controller` | |
| `H2StreamsProofs` | theorems about `H2Streams` | `H2Streams`, TLAPS |
| `H2Flow` | `h2c/flow.go`: the arithmetic of windows, with the width of its words | |
| `H2Send` | request bodies: `WriteRequestBody`, `takeOutflow`, SETTINGS and WINDOW_UPDATE of `h2c/conn.go` | `H2Flow` |
| `H2Connection` | `h2c/controller`: handshake, consumer, end of a connection, Ping; the DATA handler of `h2c/conn.go` and response bodies | `H2Flow` |
| `H2FlowProofs` | the arithmetic of windows, and sums over finite sets | `H2Flow`, TLAPS |
| `H2SendProofs`, `H2ConnectionProofs` | theorems about `H2Send` and `H2Connection` | those, `H2FlowProofs` |
| `RequestFraming` | `internal/http/prepared.go` and what `http1.go` announces of a request | |
| `Client` | `client.go`, `dial.go`, `proxy.go`, `dns.go`, `group.go`, `writeRequest`, `chunked/writer.go` | `RequestFraming`, instances of `ConnLease` |
| `ClientProofs` | theorems about `Client` | `Client`, TLAPS |
| `MC...` | the instances TLC checks: menus of responses, symmetry | |

Definitions introduced by a comment "Faulty:" are not part of any specification. They are
plausible mistakes in the definition that follows; replacing it by one of them must break
the property named in `PROJECT.json`, which shows that the property can fail.

### NetPool

A Go channel operation is one step. `connTicket` is `len(p.connTicket)`, `idleTicket` the
queue of idle connections, `waitq` the goroutines the runtime has parked in the second
select of `tryGetConn`, in order. Sends and receives that meet a parked goroutine serve it
directly, as the runtime does: `HandOver` for `idleTicket <- c`, `DrainTicket` for
`<-connTicket`. `pc` is where each caller stands; `own` the connection its call works on.
`Received` is the test after a receive; whether a connection has expired is left open, as
time is not modelled. `DialFail` and `SetupFail` keep the ticket as the code does; `lost`
counts those of failed dials, `"orphan"` connections those of failed set-ups. A connection
goes through `"none"`, `"dialed"`, `"open"`, `"closed"` and back to `"none"`: a value is
reused after its ticket came back. Every client calls `Release` once for what it connected;
`http1.Session` guarantees that by clearing `Sess`, and `Http1` checks it (`LeaseHeld`). A pool without a limit (`MaxConn = 0`) has no ticket to wait for.

### Http1

Adds to each client of the pool its session (`job`: where it is between `Do`, the write
loop, the read loop and the user) and to each connection its two loops and its server side.
`LoopStep` are the steps of the goroutines `Setup` starts: the write loop receives a session
and writes (`HandToWriter`, `WriteRequest`), fails (`WriteError`: releases, answers, ends) or
hands over (`PassToReader`); the read loop reads a head (`ReadResponse`) or fails
(`ReadError`: releases, answers, goes on). `Cancelled` is the `ctx.Done` branch of `Do`, which
drops the session with its lease. `CloseBody` is `Session.Close`: release, close if
`needClose`, and no reading of what is left. Bodies are counted in pieces; a head or a piece
carries the request it answers, so that a response out of place can be recognised. The
server is the environment: it answers in order, says `Connection: close` or not, sends what
is no head, sends a 1xx response, closes, and loses the tail of what it sent.

### ResponseStream

One connection, one response after the other. The wire is a sequence of tokens (a head, a
unit of data, a chunk-size line, an end of line, a trailer), of which a prefix is in the
`bufio.Reader`; every read may leave any amount there. `TransferEncoding`, `ContentLength`
and `NeedClose` are the rules of `readHeader` in the order in which they override one
another; the version keeps the code's base-16 arithmetic. `ReadRaw` and `ReadChunked` take a
buffer of any size up to `MaxRead`. `BodyTokens` and `UntilClose` say what a conforming
server sends (RFC 9112, 6.3 and 7.1); they are independent of the client's rules. `Cut` loses the
tail of a response. `GiveUp` appends a response that nobody asked for (a 408) and closes; the
next request (`NextRequest`) may still be written before the client notices.

Three things that a server may send are errors to `chunkedReader` (`Untaken`): a trailer field
(`reader.go:89`), a chunk extension, since every byte of a size line must be a hexadecimal digit
(`reader.go:45`), and a size line of sixteen digits or more (`reader.go:51`). The last two are one
here, an `odd` size line. The line is taken and `Read` fails; `Session.Close` (`http1.go:100`) does
not know and gives the connection back with the rest of the body unread. The next exchange on it
finds no head, fails and closes the connection. `NoSpuriousError` says that `Read` fails at these
three and at nothing else, `Aligned` that a kept connection goes on with a head unless `Read` has
failed, and then with none, so that what is left over is not taken for a response. Data that
reads like a head is not modelled: a body that is refused and contains one is outside of this.

`Framed` says for which responses the code finds the boundary, whatever the others are: a declared
length is the length of the body, unless something else ends the body; and a response with transfer
codings has a body, and a version for which `readHeader` keeps the coding. It joins the two digits of the
version to base 16 and compares with 11, so that HTTP/1.0 (16) keeps it as well as 1.1 (17), against
what `http1.go:377` is there for. The second half excludes the `head_body` run. Every
response of the `response_stream` run is `Framed`, which TLC evaluates (`MCMenuIsFramed`).

### H2Streams

One caller, one writer goroutine and one place per request, the read loop, and the locks
between them. `muActive` and `muNewStream` have a holder; `muPeer` has a set of readers, and
`CanReadSettings` is false while a writer holds it or waits for it, as for `sync.RWMutex`.
`waiters` is the queue of `condActive`. `sync.Once` keeps a second caller waiting until the
first is through, which may be a wait for `muActive`: `ResetLocal`, `CloseLocal`, `LoopResets`
and `LoopCloses` wait for one another (`LoopInside`). Releasing a place and signalling are two
steps, since the code signals after `muActive.Unlock`. `wire` holds the IDs of the HEADERS
frames in the order in which they were written; a header block is one frame, and bodies are
left to `H2Send` and `H2Connection`. A context may end at any time (`GiveUp`, or a writer that fails). The server
sends what its side of a stream allows and need not have seen our resets. GOAWAY with a
stream above its last ID deadlocks the read loop (`"stuck"`), as in the code.

### H2Flow

The operators of `flow.go`. A word has `2 * Half` values; `Signed`, `Unsigned` and `Wrap` are
Go's conversions and its overflow, so that the checks of `Pay` and `Refund` are the code's and
not those of unbounded numbers. `Paid`/`AfterPay`, `CanRefund`/`Refunded` and
`Increment`/`AfterRefund` are the result and the new state of one call each.

### H2Send

The streams of one connection that have request bodies, from `AssignStreamID` on. A writer
goes `registered` (in `activeStreams`, conn.go:218), `write` (its window opened, conn.go:222),
`body`, then `fill`, `take` and `data` around the loop of `WriteRequestBody`: read into the
chunk, `takeOutflow`, write a frame. `readers` are the writers that hold `muPeer` for reading,
which `WriteRequestBody` does until it returns. `flowWaiters` are parked in `condOutflow.Wait`.
The read loop applies SETTINGS in three steps (`OnSettings` waits for `muPeer`, `LockPeer` has
it, `UpdateSettings` runs the callback, the ACK and the unlock) and WINDOW_UPDATE in one, or in
two if the stream is to be reset (with `condOutflow.L` held). How a stream ends is
`H2Streams`' matter and one step here (`CloseWithError`), which may also come before HEADERS. The wait
for `muNewStream` is part of `Register`; what it can deadlock with is in `H2Streams`. `allowed` and `connAllowed` are the
windows as the server counts them, updated by the frames themselves and not by the code.

### H2Connection

The read loop from `Handshake` on, with the frames it works for one at a time. Writing the preface
or our SETTINGS may fail before that (`PrefaceFails`), which ends the connection with `done` open.
A `"REFUSED"` frame is a SETTINGS frame or a WINDOW_UPDATE of the connection that the code answers
with a GOAWAY of its own (`conn.go:104-113`, `131-134`). `doneOnce` is
two steps, `SetReason` and `CloseDone`, since others may look between them. `OnData` pays for a
frame, `Deliver` refunds its padding and finds the stream, and the read loop then stands in
`PipeWriter.Write` (`"write"`, `pipe[s].held` bytes left) until the reader has taken everything
or an end is closed. `inflow` is what the code counts, `peerWindow` what the server does;
increments travel in `updates`. A server keeps to its window or overdraws it once
(`overdrawn`). `ping` and `pingFut` are the calls of `Ping` and the table of their channels: the
handler of an ACK holds `muPing` for reading while it sends (`loop = "ack"`).

### Client and RequestFraming

`Client` is the way of a request: `Prepare` refuses some, `Lookup` and `Create` are the two
critical sections of `PoolGroup.Connect`, `Lease` and `Open` what a pool does (the actions of
`ConnLease`, which `NetPool` is proved to implement), `Dial`, `Connect` and `HandshakeTLS` the
dial function, `WriteHeader`, `WriteBody` and `EndBody` the body of `writeRequest`. `conn` records
what is at the other end of a connection, which the program cannot see again once it is in
the pool; `server` what the server waits for, by the header it has got. The name an address
resolves to stands for the address; CONNECT is one step, as nobody else has the connection. The host
that `Prepare` tests is the Host header's, if there is one (`HeaderHost`); the connection goes to the
URL's. `Over` lays one table of hosts over another: `Merge` puts the dialer's on top, as `dns.go:36-38`
does, and `Peer`, by which `RightPeer` measures where a request has got, the proxy's, as the comment
at `proxy.go:21` asks for. Where the two differ for a host (`Disputed`) `RightPeer` says that it is
the dialer's, and so names the disagreement. It also excepts TLS where `http` and `https`
meet on one port of a host (`BothSchemes`). Configurations that are nil, with which the
program panics (`proxy.go:69`, `proxy.go:77`, `dns.go:28`), are left out.
`PoolOf(k)` is the lease of one key: its connections whatever pool object they are in.

## Runs

| run | instance | shows |
|---|---|---|
| `netpool` | 3 clients, 3 connections, limit 2, 1 idle slot, all failures | `TypeOK`, `ExclusiveUse`, `IdleIsOpen`, `ConnLimit`, `TicketsAccounted`, `NoLostWakeup`, and `LeaseSpec`: the pool implements `ConnLease` |
| `http1_exchanges` | 2 clients, 2 connections, 1 idle slot, bodies of 0 or 1 piece, contexts cancelled, server closing | `OwnResponse`, `CleanReuse` |
| `http1_returns` | 2 clients on 1 connection, under fairness | `LoopsServe`, `LeaseHeld`, and `CtxDoReturns` |
| `http1_interim` | as above with 1xx responses, nothing failing | `OwnResponse` is violated |
| `response_stream` | nineteen kinds of response in any sequence, three of them with an odd size line and one with a trailer, a 408 sent unasked, data of up to 4 units, buffers up to 4 | `Aligned`, `Complete`, `NoSpuriousError`, `NeverOverreads` |
| `head_body` | HEAD answered with `Transfer-Encoding: chunked` | `NoBodyByStatus` is violated |
| `h2_streams` | 3 requests, a limit of 1 or 2 that may change once, one GOAWAY | `IdsIncreaseOnWire`, `SlotsAccounted`, `StreamLimit`, `NoLostSignal` |
| `h2_settings` | 2 requests, one SETTINGS, under fairness | `SettingsApplied` is violated |
| `h2_send` | 2 requests, bodies of up to 2 bytes, frames of up to 3, windows of 2, then 0 or 3, two increments of 3, words of 16 values | `ConnWindowExact`, `ParkedIsDry`, `EndsComplete`, `CountedWithinWindow`, `StreamWindowKept`, `AckFirst` |
| `h2_window` | 1 request, a window of 1 raised to 2 | `DataWithinWindow` is violated |
| `h2_connection` | 1 stream of up to 4 bytes in frames of 0 or 2 with or without padding, 1 ping, 2 frames on their way | `ReasonKnown`, `NoWriteAfterClose`, `NoFalseAccusation`, `NoFalseEOF`, `TokensKept` |
| `client_requests` | 2 callers, 2 connections, 1 per host, 15 requests to two hosts, one of which is in both resolver tables | `RightPeer`, `RequestAligned`, `LeasePerKey` |

Bounds. In the pool, the races are between a goroutine that parks, one that hands over and
one that closes: three clients over a limit of two with one idle slot let a caller park
behind two, meet a full buffer and a failed dial at once; the proofs cover every other size.
For the exchanges, two clients are the shortest sequence of owners of a connection, and
`reqno` tells a client's consecutive requests apart, so that an answer that survives a reuse
is seen. Chunks of up to three units and buffers of up to four include a buffer smaller
than, equal to and larger than a chunk, and a chunk cut anywhere. In `h2_streams`, three
requests for one or two places let one park while two hold places, the limit be lowered
under the number of active streams, and be raised while one is parked; requests are
interchangeable, so TLC uses symmetry there (no liveness is checked in that run).

In `h2_send`, two writers share one window smaller than their two bodies; the first SETTINGS
may make a window negative under a writer that has sent, empty one under a parked writer, or
raise one between a stream's registration and its first window; an increment of 3 refills a
window, and two overflow the word, so that the reset is reached. `Reserve` and `Low` are 2 and
1 for the code's 1024 and 512: buffers of 1 and 3 bytes are on either side, and declared
lengths of 1 meet bodies of 0, 1 and 2. In `h2_connection` one stream suffices, since the read
loop serves one frame at a time and streams meet only in `inflow`; two frames on their way let
a frame be overtaken by a reset, a ping be acknowledged twice and DATA follow a GOAWAY. The
refresh of 3 is not a multiple of a frame, so that refunds are queued, and our window (4) is
larger than the server's (3), as 4 MiB is than 65535. In `client_requests` callers outnumber
the connections of a host, so that one is used by both, after any request and for any other of
its key: ports given or left to the scheme, over a proxy or not, bodies shorter and longer than
declared, claimed or announced. Host `a` is in both tables with different entries, `b` in the
proxy's; one key of `b` has requests of both schemes, another of `a` only one.

Deadlock
is not checked where the program really stops: all tickets lost, the nil reader, the locks
of h2c. In `netpool` and `http1_exchanges` that is the loss of tickets in `DialFail`,
`SetupFail` and `Cancelled`. In `h2_send` it is a parked writer whose read lock stops the read
loop, or whose window nobody refills; in `h2_connection` the end of the connection; in
`client_requests` a server that waits for a body nobody sends.

Fairness. `FairHttpSpec` has weak fairness for the goroutines of the pool and of both loops
(the Go scheduler runs what can run), for a user who reads and closes a body once it has
one, and for a server that answers what it received; it does not force a server to close or
a client to call. Without the assumption about servers `CtxDoReturns` is false, since the
code does not watch the context after the hand-over. `FairSpec` of `H2Streams` has weak
fairness for the goroutines only: no context ends and no server speaks by force.

## Disagreements between code and comments

* `http1_interim`: `http1.go:389` ends a 1xx response with an empty body and hands it to the
  user; the final response then answers the next request. The comment at `http1.go:294` says
  the response is processed according to the RFC.
* `head_body`: `http1.go:414` gives a HEAD, 1xx, 204 or 304 response with a
  Transfer-Encoding a body again, against the comment at `http1.go:385-388`.
* `h2_settings`: the handler of SETTINGS (`conn.go:90-101`) and `AssignStreamID`
  (`conn.go:208-209`) take `muPeer` and `muActive` in opposite orders, so that the settings
  the comment at `conn.go:104` speaks of are never read again.
* `h2_window`: SETTINGS that arrive between conn.go:218 and conn.go:222 add `new - old` to a
  window that is not open yet, and conn.go:222 then adds `new`: the stream has `2 * new - old`
  and sends past what the server grants, against the comment at `flow.go:71-74`. Lowered
  windows are too small by as much. `StreamWindowKept` shows that no other step does this.
* `Merge` (`dns.go:36-38`), which no run states as a violation: the dialer's hosts win over the
  proxy's, against the comment at `proxy.go:21`, "overrides the resolver config for dialer for
  proxy". `RightPeer` excepts exactly the hosts for which the two differ; for host `a` of the
  `client_requests` run the proxy is asked for `a1`, which the comment would have be `a2`.

The models also show, without a comment or test that says otherwise:

* HTTP/1: a ticket is lost when a dial or a set-up fails, and a connection when a context ends
  before the hand-over; a body closed unread leaves its tail to the next client
  (`EarlyClose`); a body that the end of the connection delimits has no reader, so that
  `Session.Read` (`http1.go:70`) calls through nil (`ReadNil`, phase `"panic"`); a declared
  Content-Length without a body is sent as it is, and the server waits; a chunked body with a trailer, a chunk
  extension or a long size line is refused, and its connection kept with the rest unread.
* Dialer: `dialKey` has no scheme, so that `http://b:443` and `https://b` share connections
  and one of them is on the wrong side of TLS: `RightPeer` excepts exactly those, so that
  nothing checked covers them.
* HTTP/2: GOAWAY deadlocks the read loop; a caller that gave up blocks the read loop at
  `chanHeaders`; a raised limit wakes nobody. A writer parked for window holds `muPeer`, so that
  the next SETTINGS stops the read loop which would bring the window (`loop = "wantPeer"` with
  `readers` not empty). A buffer of exactly `Reserve` bytes is never filled (`ReadThreshold` 0). A
  ping that times out and an ACK that has arrived wait for each other (`loop = "ack"`, ping at
  `"delete"`). Tokens of the connection's window are lost in the three cases `TokensKept` names. A
  read error ends the read loop with `done` open, so that `Valid` still says nil.

## Proofs

Every theorem holds for every value of the constants that satisfies the assumptions of the
component's module; they are named `...Assumption` there, and say that sets are finite, sizes
are naturals, and what the code's own constants give:

| assumption | says | why the code justifies it |
|---|---|---|
| `PoolAssumption` (`NetPool`) | limits are naturals, clients and connections are finite sets | `make(chan ..., n)` |
| `SessionAssumption` (`Http1`) | bodies are finite | |
| `ClientAssumption`, `PoolAssumption` (`Client`) | a host has room for a connection; a body has a natural number of bytes; what is declared or claimed is any integer | a limit of 0 is no limit; `int64` fields of a request |
| `StreamsAssumption` (`H2Streams`) | limits are naturals, the read loop is no request | `uint32` |
| `FlowAssumption` (`H2Flow`) | a word has `2 * Half` values, a refresh is worth a token | `int32`, `uint32`, `inflowMinRefresh` |
| `SendAssumption` (`H2Send`) | windows and increments fit in 31 bits | the frame format |
| `MenuAssumption` (`ResponseStream`) | a length is a natural or absent, chunks are not empty but for the last, chunked is applied once; which size lines are odd is free | what `readHeader` parses; RFC 9112, 6.1 and 7.1 |
| `ConnectionAssumption` (`H2Connection`) | our window is less than `Half`, the server's no larger than ours, a frame no larger than `Half` | `settings.go:64` (4 MiB), `settings.go:71` (16 MiB) |

| module | theorem | states |
|---|---|---|
| `NetPoolProofs` | `PoolTypeOK`, `PoolExclusiveUse`, `PoolIdleIsOpen`, `PoolNoLostWakeup`, `PoolTicketsAccounted`, `PoolConnLimit` | the invariants of the `netpool` run |
| | `PoolImplementsLease` | the pool implements `ConnLease` |
| `Http1Proofs` | `Http1TypeOK`, `Http1LeaseHeld`, `Http1LoopsServe` | the invariants of the two HTTP/1 runs |
| | `Http1OwnResponse`, `Http1CleanReuse` | the same, if `~Interim` and `~EarlyClose` |
| | `HttpImplementsLease` | `PoolImplementsLease` carried over to the composed system, whose steps on the pool are the pool's and `Cancelled`; a corollary that no run repeats |
| `ResponseStreamProofs` | `StreamTypeOK` | the type invariant of the `response_stream` run |
| | `StreamAligned`, `StreamComplete`, `StreamNoSpuriousError`, `StreamNeverOverreads` | its other invariants, if every response is `Framed` |
| `ClientProofs` | `ClientRightPeer`, `ClientRequestAligned` | the invariants of the `client_requests` run |
| | `ClientLeasePerKey`, `ClientImplementsLease` | the steps for one key, and the behaviours, are those of one lease |
| `H2StreamsProofs` | `StreamsTypeOK`, `StreamsIdsIncrease`, `StreamsSlotsAccounted`, `StreamsWithinLimit`, `StreamsNoLostSignal` | the properties of the `h2_streams` run |
| `H2FlowProofs` | `RefundDetectsOverflow`, `RefundConserves` | `outflow.Refund` refuses exactly the sums that do not fit; `inflow.Refund` loses no token |
| `H2SendProofs` | `SendTypeOK`, `SendConnWindowExact`, `SendParkedIsDry`, `SendEndsComplete`, `SendCountedWithinWindow`, `SendStreamWindowKept`, `SendAckFirst` | the properties of the `h2_send` run |
| `H2ConnectionProofs` | `ConnectionTypeOK`, `ConnectionReasonKnown`, `ConnectionNoWriteAfterClose`, `ConnectionNoFalseAccusation`, `ConnectionNoFalseEOF`, `ConnectionTokensKept` | the properties of the `h2_connection` run |

Few of these properties are inductive alone. Each module defines the conjuncts of an inductive
invariant; each conjunct has a lemma that says every step preserves it, with one step of the
proof per action.

**The pool.** `HandsInv` is the conjunction of `TypeOK`, `ExclusiveUse`, `OwnByPc` (what `own` and
`live` are at each place of a call: who has no connection, whose is dialled, open or closed, and
that every idle connection is open) and `QueueInv` (`waitq` holds exactly the parked goroutines,
each once, and is empty unless the pool is full and nothing is idle). `ExclusiveUse` needs
`OwnByPc`, since a hand-over is safe only because a parked goroutine owns nothing;
`NoLostWakeup` needs that a parked goroutine stands once in the queue. `TicketsAccounted` is
inductive relative to `HandsInv`, by the cardinality of `Dialling` and `Ticketed` before and after
each action; `PoolConnLimit` follows from it, as open connections are ticketed. For the
refinement, each action maps to `Open`, `Lease`, `GiveBack`, `Shut` or a stutter; by `HandsInv` the
lessees of a connection are at most one client (`LesseeOnly`).

**Exchanges.** `Http1` extends the pool, so that its steps preserve `HandsInv` by the lemmas of
`NetPoolProofs`. `SessionInv` adds `LoopsInv`: where the two loops of a connection stand, given
where the session of its lessee stands, and that both wait while nobody uses it. That a hand-over
meets a waiting loop is what makes every error path give the lease back once. `WireInv` says what
is between client and server in each state of a session: nothing before it writes, its request or
its answer until the head is read, as many pieces as `remaining` after that. It is inductive only
without interim responses and with bodies read to their end: the `http1_interim` run and the
hazard at `http1.go:100` are what happens otherwise, which is why `Http1OwnResponse` and
`Http1CleanReuse` have these hypotheses.

**Responses.** What `StreamInv` says: the wire holds what was sent after position `p` of a body `s`
and the response nobody asked for that may follow it (`OnWire`), all of it unless the server
died; and the reader knows where `p` is (`ReaderAt`): `remaining` is what `s` has after `p`, or
`size` and `count` say how far into a chunk it is, with its end of line and the next size line
where they are due (`InChunk`); `got` is the data before `p`. A step moves `p` by the tokens it takes
from the wire (`RawTakes`, `ChunkedTakes`), for any buffer and any packets. Where the next token is
`Untaken`, the step is an error and the invariant says where `p` stands, and that no head is next (`Lost`). What makes a body one
that a reader can walk through is `WellChunked`, proved of every sequence of chunks: `FlattenSeq`
is a recursive function, for which `JoinsExist` and `FlattenIn` do the induction over a set of
numbers. `FramedBody` ties the rules of `readHeader` to the body that follows the head.

**The client.** `ClientInv` has five parts: types, `PoolsInv` (a key has one pool for good, and
the callers of a key hold that pool), `OwnersInv` (a connection has at most one caller, who holds
the pool it belongs to), `PeerInv` (what is at the other end of a connection, from dial over
CONNECT to TLS, agrees with every request of its key) and `FramingInv` (what the server waits for
is what the caller has still to write). Two callers that race to create a pool are the case that
needs `PoolsInv`: the second finds the first one's under the write lock.

**Streams.** `LocksInv` says who holds each of the three locks, `PlacesInv` which requests have an
ID and that the test of the limit stays true until the place is taken, `QueueInv` who is parked,
`EndsInv` who ends a stream (a caller or the read loop,
never both), `WireInv` that the IDs written are older than the one on its way. `NoLostSignal` needs the
measure |`activeStreams`| + |`Coming`|: a caller that has been signalled, or was not parked yet, stands
for the place it will take.

**Sums.** The library defines a sum over a set by a fold, and its induction theorems take an
operator as a parameter. `H2FlowProofs` therefore proves induction for sets of naturals and of
finite sets (`InductionOnNat`, `InductionOnSet`: a set that holds what the next element needs holds
all; by a least counterexample) and from it that the fold exists, is unique, and changes by one
element's share when that element changes (`SumMoves`), is appended or taken (`SumAppended`,
`SumTail`). The sums over writers in `H2Send` and over frames in `H2Connection` rest on these.

**Bodies sent.** `H2FlowProofs` shows what the arithmetic with its wrap-around computes: `Pay` and
`Refund` are exact subtraction and addition wherever the sum fits. `TakeExact` follows for the two
payments and the refund of `takeOutflow`. `StreamWindowKept` then needs `FloorInv`: SETTINGS push a
window no further below zero than `initial - (Half - 1)`, so that their difference never
underflows, which the code would drop as it drops an overflow; and `TakenInv`: a writer outside
`"data"` and `"broken"` holds no tokens. `ConnWindowExact` and `RoomInv` (the window of the
connection, and that of a stream while its writer holds tokens, is not below zero) give `CountedWithinWindow`. `AckFirst` needs `LocksInv`: a writer of a body holds
`muPeer`, and nobody does while SETTINGS are applied. `ParkedIsDry` is inductive with `TypeOK`.
`EndsComplete` rests on `WriteData` being the only step to `"done"`, which no step leaves.

**Bodies received.** `ReasonInv` and `PingInv` serve the end of the connection and pings.
`BytesInv` places every byte of a stream whose pipe is open: read, in the pipe, in the frame at
hand or on the wire; `HeldInv` that only the frame being written is in a pipe; `EndsInv` that no
frame of a stream follows the one that ends it. With them a pipe closed with io.EOF has had every
byte. `WindowInv` bounds `inflow` from both sides: by what the server may still send, and by
our window. A frame that `inflow` does not cover is delivered and refunded all the same, so that
the window grows by its size `x`; `Overdraws` and `Spare` say that this can happen once only,
since a server that has overdrawn has sent no DATA after that frame and is `x` below its window.
That makes `inflow` a uint32 for good (`ConnectionTypeOK`), and with `x = 0` no server that keeps to
its window is accused. The frame-size part of `ConnectionAssumption` is needed for the former.

Only model-checked: `CtxDoReturns` and `SettingsApplied`, since liveness and ENABLED are out of the
prover's reach; and the four properties that fail. `PoolConnLimit` and its
kin speak about `NetPool` by itself.

## Not modelled

The bytes of requests, header fields and lines (parsing appears as its outcome); time (idle
expiry and timeouts are choices); TLS as more than done or failed, DNS lookups, address
families, proxy authentication; the framer (a written frame is atomic, as under `muWrite`); the
contents of our own SETTINGS and of the HPACK table; the inflow of a stream, which the code
sets and never uses; the data races on `err` of `WriteRequest` (its two outcomes are modelled)
and on the map in `Merge` (it ends the program or changes nothing); the nil header map of
`http1.go:120`; nettools, which nothing calls; the public aliases.

## Plan

1. Done: `ConnLease`, `NetPool` with its proofs, `Http1`, `ResponseStream`, `H2Streams`, `H2Flow`,
   `H2Send`, `H2Connection`, `RequestFraming`, `Client`.
2. Done: proofs of all of these but `RequestFraming`, which has no behaviour of its own.
