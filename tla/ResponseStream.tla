--------------------------- MODULE ResponseStream ---------------------------
(***************************************************************************)
(* How a kept HTTP/1.1 connection is cut into responses: readHeader,       *)
(* readResponse and Session.Read of internal/transport/http1/http1.go and  *)
(* the reader of internal/transport/chunked/reader.go.                     *)
(*                                                                         *)
(* What the server has sent and nobody has read is a sequence of tokens: a *)
(* response head, a unit of data, a chunk-size line, an end of line, a     *)
(* trailer field. The first buffered tokens of it are in the bufio.Reader, *)
(* the others in the socket. Exchanges follow one another on a connection  *)
(* as long as readHeader lets it live; the user reads each body to the end *)
(* of what Read gives it. Data that reads like a head is not modelled, and *)
(* a trailer field of which some bytes are read is still one token.        *)
(***************************************************************************)
EXTENDS Integers, Sequences, FiniteSets, FiniteSetsExt, SequencesExt

CONSTANTS Menu,      \* the responses the server may give
          Unasked,   \* and those it may give to no request, to close (408)
          MaxRead,   \* the longest buffer given to Read, in units
          MayCut     \* the server may close in the middle of a response

(* A response: the method it answers, its status, its version as in        *)
(* HTTP/X.Y, its Content-Length (-1: none; lengthOK: the values parse and  *)
(* agree), its transfer codings, whether either side said Connection:      *)
(* close, the sizes of its chunks if the last coding is chunked, the units *)
(* of data it carries otherwise, whether trailers end it, and which of its *)
(* chunk-size lines, counted with the last one, are odd: correct, but with *)
(* a chunk extension or of sixteen digits or more.                         *)
ASSUME MenuAssumption ==
  /\ MaxRead \in Nat \ {0}
  /\ MayCut \in BOOLEAN
  /\ \A r \in Menu \cup Unasked :
       /\ r.status \in {"1xx", "204", "2xx", "304", "other"}
       /\ r.length \in Nat \cup {-1} /\ r.extent \in Nat
       /\ {r.lengthOK, r.close, r.trailer} \subseteq BOOLEAN
       /\ r.coding \in Seq({"chunked", "gzip"}) /\ r.chunks \in Seq(Nat \ {0})
       /\ r.odd \subseteq Nat
       /\ \A i, j \in DOMAIN r.coding :
            r.coding[i] = "chunked" /\ r.coding[j] = "chunked" => i = j

VARIABLES wire,      \* the tokens nobody has read
          buffered,  \* how many of them the bufio.Reader holds
          open,      \* the server has not closed
          cut,       \* the server closed in the middle of a response
          phase,     \* "idle", "head", "body", "closed" or "panic"
          cur,       \* the response being read: <<>> or <<r>>
          remaining, \* Session.remaining
          reader,    \* what Read reads from: "raw", "chunked", or "nil"
          size,      \* chunkedReader.currentChunkSize
          count,     \* chunkedReader.currentCount
          got,       \* units of data the user has read
          end        \* how the body ended for the user: "eof", "error"

streamVars == <<wire, buffered, open, cut, phase, cur, remaining, reader,
                size, count, got, end>>
sessionVars == <<remaining, reader, size, count, got, end>>

Resp == cur[1]

-----------------------------------------------------------------------------
(* The server: what follows a head on the wire (RFC 9112, 6.3).            *)

NoBodyStatus(r) == r.method = "HEAD" \/ r.status \in {"1xx", "204", "304"}
Tunnel(r) == r.method = "CONNECT" /\ r.status \in {"2xx", "204"}
IsChunked(r) == r.coding # <<>> /\ Last(r.coding) = "chunked"

HeadToken(r) == [t |-> "head", r |-> r]
Data(n) == [i \in 1..n |-> [t |-> "data"]]
EndOfLine == <<[t |-> "crlf"]>>
SizeToken(n, odd) == [t |-> "size", k |-> n, odd |-> odd]
Chunk(n, odd) == <<SizeToken(n, odd)>> \o Data(n) \o EndOfLine

BodyTokens(r) ==
  IF NoBodyStatus(r) THEN <<>>
  ELSE IF IsChunked(r) /\ ~Tunnel(r)
       THEN FlattenSeq([i \in DOMAIN r.chunks |-> Chunk(r.chunks[i], i \in r.odd)])
            \o <<SizeToken(0, Len(r.chunks) + 1 \in r.odd)>>
            \o (IF r.trailer THEN <<[t |-> "trailer"]>> ELSE <<>>) \o EndOfLine
       ELSE Data(r.extent)

(* What no chunkedReader takes, though a server may send it: a trailer, a  *)
(* size line with a byte that is not a hexadecimal digit, or a long one.   *)
Untaken(token) == token.t = "trailer" \/ (token.t = "size" /\ token.odd)

(* How many of the first p tokens of a body are data, and how many are.    *)
DataWithin(tokens, p) == Cardinality({i \in 1..p : tokens[i].t = "data"})
Units(r) == DataWithin(BodyTokens(r), Len(BodyTokens(r)))

(* Whether only the end of the connection tells where the body ends.       *)
UntilClose(r) ==
  /\ ~NoBodyStatus(r)
  /\ Tunnel(r) \/ (r.coding # <<>> /\ ~IsChunked(r)) \/ (r.coding = <<>> /\ r.length = -1)

-----------------------------------------------------------------------------
(* The client: what readHeader makes of a head.                            *)

(* The two digits of the version, as readHeader joins them.                *)
HttpVer(r) == 16 * r.version[1] + r.version[2]

TransferEncoding(r) ==
  IF Tunnel(r) \/ HttpVer(r) < 11 THEN <<>> ELSE r.coding

(* Faulty: a Content-Length overrides the Transfer-Encoding.               *)
ContentLengthFirst(r) ==
  IF NoBodyStatus(r) THEN 0 ELSE r.length

(* Faulty: the status of the response and its method are not considered.   *)
ContentLengthAnyStatus(r) ==
  IF TransferEncoding(r) # <<>> \/ Tunnel(r) THEN -1 ELSE r.length

ContentLength(r) ==
  IF TransferEncoding(r) # <<>> \/ Tunnel(r) THEN -1
  ELSE IF NoBodyStatus(r) THEN 0 ELSE r.length

NeedClose(r) ==
  \/ r.close
  \/ TransferEncoding(r) # <<>> /\ Last(TransferEncoding(r)) # "chunked"
  \/ TransferEncoding(r) = <<>> /\ ContentLength(r) = -1

(* readHeader or readResponse returns an error: a bad length, a coding     *)
(* that has no decoder.                                                    *)
Refused(r) == ~r.lengthOK \/ "gzip" \in ToSet(TransferEncoding(r))

(* The length of the body on the wire is the one declared, and a server    *)
(* that declares a coding sends a body, of a version whose coding          *)
(* readHeader honours: 1.0 is one of them, it counts as 16.                *)
Framed(r) ==
  /\ r.coding = <<>> /\ r.length # -1 => UntilClose(r) \/ NoBodyStatus(r) \/ r.extent = r.length
  /\ r.coding # <<>> => ~(HttpVer(r) < 11) /\ ~NoBodyStatus(r)

-----------------------------------------------------------------------------
Fresh ==
  /\ wire' = <<>> /\ buffered' = 0 /\ open' = TRUE /\ cut' = FALSE
  /\ phase' = "idle" /\ cur' = <<>>
  /\ remaining' = 0 /\ reader' = "nil" /\ size' = -1 /\ count' = 0
  /\ got' = 0 /\ end' = "none"

Init ==
  /\ wire = <<>> /\ buffered = 0 /\ open = TRUE /\ cut = FALSE
  /\ phase = "idle" /\ cur = <<>>
  /\ remaining = 0 /\ reader = "nil" /\ size = -1 /\ count = 0
  /\ got = 0 /\ end = "none"

(* The server answers the next request on the connection.                  *)
Serve(r) ==
  /\ phase = "idle" /\ open
  /\ wire' = wire \o <<HeadToken(r)>> \o BodyTokens(r)
  /\ open' = ~(r.close \/ UntilClose(r))
  /\ cur' = <<r>>
  /\ phase' = "head"
  /\ UNCHANGED <<buffered, cut, sessionVars>>

(* It gives a connection up while the client still reads: a response that  *)
(* nobody asked for follows the one that is due.                           *)
GiveUp(r) ==
  /\ phase \in {"head", "body"} /\ open
  /\ wire' = wire \o <<HeadToken(r)>> \o BodyTokens(r)
  /\ open' = FALSE
  /\ UNCHANGED <<buffered, cut, phase, cur, sessionVars>>

(* It dies before the client has read all it sent, whose tail is lost.     *)
Cut ==
  /\ MayCut
  /\ phase \in {"head", "body"} /\ wire # <<>>
  /\ \E k \in buffered..Len(wire) - 1 : wire' = SubSeq(wire, 1, k)
  /\ open' = FALSE /\ cut' = TRUE
  /\ UNCHANGED <<buffered, phase, cur, sessionVars>>

(* Reading through bufio may fill its buffer from the socket.              *)
FillsFrom(taken) == Max({0, buffered - taken})

(* readHeader and readResponse. A head that is missing, broken or refused  *)
(* ends the connection.                                                    *)
ReadResponse ==
  /\ phase = "head"
  /\ wire = <<>> => ~open
  /\ IF wire # <<>> /\ Head(wire).t = "head" /\ ~Refused(Head(wire).r)
     THEN LET r == Head(wire).r IN
          /\ phase' = "body"
          /\ cur' = <<r>>
          /\ remaining' = ContentLength(r)
          /\ reader' = IF TransferEncoding(r) # <<>> THEN "chunked"
                       ELSE IF ContentLength(r) > 0 THEN "raw" ELSE "nil"
          /\ wire' = Tail(wire)
          /\ buffered' \in FillsFrom(1)..Len(wire')
     ELSE /\ phase' = "closed"
          /\ UNCHANGED <<wire, buffered, cur, remaining, reader>>
  /\ size' = -1 /\ count' = 0 /\ got' = 0 /\ end' = "none"
  /\ UNCHANGED <<open, cut>>

-----------------------------------------------------------------------------
(* Session.Read with a buffer of b units.                                  *)

Reading == phase = "body" /\ end = "none"

(* Faulty: the buffer is not shortened to what remains.                    *)
ClipNothing(b) == b

(* No call reads more than what remains of a Content-Length.               *)
Clip(b) == IF remaining > 0 THEN Min({b, remaining}) ELSE b

Took(n) ==
  /\ got' = got + n
  /\ remaining' = IF remaining > 0 THEN remaining - n ELSE remaining

ReadEnd ==
  /\ Reading /\ remaining = 0
  /\ end' = "eof"
  /\ UNCHANGED <<wire, buffered, open, cut, phase, cur, remaining, reader, size, count, got>>

(* The call through the nil reader that readResponse left.                 *)
ReadNil ==
  /\ Reading /\ remaining # 0 /\ reader = "nil"
  /\ phase' = "panic"
  /\ UNCHANGED <<wire, buffered, open, cut, cur, sessionVars>>

(* ReadRaw: first what bufio holds, then, unless the buffer is nearly      *)
(* full, what the socket has. Whatever comes counts as data.               *)
ReadRaw(b) ==
  /\ Reading /\ remaining # 0 /\ reader = "raw"
  /\ LET fromBufio == Min({buffered, Clip(b)})
         socket == Len(wire) - buffered
     IN \/ \* enough in bufio, or the rest of the buffer is too small
           /\ fromBufio > 0
           /\ wire' = SubSeq(wire, fromBufio + 1, Len(wire))
           /\ buffered' = buffered - fromBufio
           /\ Took(fromBufio)
           /\ UNCHANGED end
        \/ \* all of bufio, then a read from the socket
           /\ buffered < Clip(b)
           /\ \E k \in 1..Min({socket, Clip(b) - buffered}) :
                /\ wire' = SubSeq(wire, buffered + k + 1, Len(wire))
                /\ buffered' = 0
                /\ Took(buffered + k)
           /\ UNCHANGED end
        \/ \* the socket is at its end: Read returns io.EOF
           /\ buffered < Clip(b)
           /\ socket = 0 /\ ~open
           /\ wire' = <<>> /\ buffered' = 0
           /\ Took(buffered)
           /\ end' = "eof"
  /\ UNCHANGED <<open, cut, phase, cur, reader, size, count>>

(* chunkedReader.Read: a chunk-size line if a chunk begins, then data,     *)
(* then, if that was the last of the chunk, the end of line; after the     *)
(* chunk of size zero that is the end of the body. readChunkHeader takes a *)
(* line of up to fifteen hexadecimal digits and refuses any other.         *)
NeedsSize == size = -1
SizeLine == wire # <<>> /\ Head(wire).t = "size" /\ ~Head(wire).odd
SizeNow == IF NeedsSize THEN Head(wire).k ELSE size
AfterSize == IF NeedsSize THEN Tail(wire) ELSE wire

(* Faulty: the count is not reset at the end of a chunk.                   *)
ReadChunkedNoReset(b) ==
  /\ Reading /\ reader = "chunked"
  /\ NeedsSize => SizeLine
  /\ \E k \in 0..Min({Clip(b), SizeNow - count, Len(AfterSize)}) :
       LET rest == SubSeq(AfterSize, k + 1, Len(AfterSize)) IN
       /\ SizeNow # 0 => k > 0
       /\ Took(k)
       /\ count' = count + k
       /\ \/ /\ count + k < SizeNow
             /\ size' = SizeNow /\ wire' = rest
             /\ UNCHANGED end
          \/ /\ count + k = SizeNow
             /\ rest # <<>> /\ Head(rest).t = "crlf"
             /\ wire' = Tail(rest)
             /\ size' = -1
             /\ UNCHANGED end
          \/ /\ count + k = SizeNow
             /\ rest # <<>> /\ Head(rest).t # "crlf"
             /\ wire' = rest
             /\ size' = SizeNow /\ end' = "error"
  /\ buffered' \in FillsFrom(Len(wire) - Len(wire'))..Len(wire')
  /\ UNCHANGED <<open, cut, phase, cur, reader>>

(* Faulty: the end of line after the last chunk stays unread.              *)
ReadChunkedLastLine(b) ==
  /\ Reading /\ reader = "chunked"
  /\ NeedsSize /\ SizeLine /\ SizeNow = 0
  /\ wire' = AfterSize /\ size' = 0 /\ count' = 0 /\ end' = "eof"
  /\ buffered' \in FillsFrom(1)..Len(wire')
  /\ UNCHANGED <<open, cut, phase, cur, remaining, reader, got>>

ReadChunked(b) ==
  /\ Reading /\ reader = "chunked"
  /\ NeedsSize => SizeLine
  /\ \E k \in 0..Min({Clip(b), SizeNow - count, Len(AfterSize)}) :
       LET rest == SubSeq(AfterSize, k + 1, Len(AfterSize)) IN
       /\ SizeNow # 0 => k > 0
       /\ Took(k)
       /\ \/ \* the chunk goes on
             /\ count + k < SizeNow
             /\ count' = count + k /\ size' = SizeNow
             /\ wire' = rest
             /\ UNCHANGED end
          \/ \* the chunk ends
             /\ count + k = SizeNow
             /\ rest # <<>> /\ Head(rest).t = "crlf"
             /\ wire' = Tail(rest)
             /\ count' = 0
             /\ size' = IF SizeNow = 0 THEN 0 ELSE -1
             /\ end' = IF SizeNow = 0 THEN "eof" ELSE end
          \/ \* no end of line where one is due: two bytes of what is there
             \* are taken, the rest of it stays
             /\ count + k = SizeNow
             /\ IF rest = <<>> THEN ~open ELSE Head(rest).t # "crlf"
             /\ wire' = rest
             /\ count' = count + k /\ size' = SizeNow
             /\ end' = "error"
  /\ buffered' \in FillsFrom(Len(wire) - Len(wire'))..Len(wire')
  /\ UNCHANGED <<open, cut, phase, cur, reader>>

(* A chunk-size line is due and there is none, or one that is refused and  *)
(* is taken all the same; or the server is gone.                           *)
ReadBroken ==
  /\ Reading /\ reader = "chunked"
  /\ \/ NeedsSize /\ wire = <<>> /\ ~open
     \/ NeedsSize /\ wire # <<>> /\ ~SizeLine
     \/ (NeedsSize => SizeLine) /\ SizeNow > 0 /\ AfterSize = <<>> /\ ~open
  /\ wire' = IF wire = <<>> THEN wire ELSE Tail(wire)
  /\ buffered' \in FillsFrom(1)..Len(wire')
  /\ end' = "error"
  /\ UNCHANGED <<open, cut, phase, cur, remaining, reader, size, count, got>>

(* Session.Close: the pool keeps the connection unless needClose.          *)
CloseBody ==
  /\ phase = "body" /\ end # "none"
  /\ phase' = IF NeedClose(Resp) THEN "closed" ELSE "idle"
  /\ UNCHANGED <<wire, buffered, open, cut, cur, sessionVars>>

(* The next request is written to a connection the server has given up; its*)
(* last response is there to be read.                                      *)
NextRequest ==
  /\ phase = "idle" /\ ~open /\ wire # <<>>
  /\ phase' = "head"
  /\ UNCHANGED <<wire, buffered, open, cut, cur, sessionVars>>

(* The pool dials again: the connection is closed, or writing the next     *)
(* request finds it dead.                                                  *)
Redial ==
  /\ phase = "closed" \/ (phase = "idle" /\ ~open)
  /\ Fresh

Next ==
  \/ \E r \in Menu : Serve(r)
  \/ \E r \in Unasked : GiveUp(r)
  \/ NextRequest \/ Cut \/ ReadResponse \/ ReadEnd \/ ReadNil
  \/ \E b \in 1..MaxRead : ReadRaw(b) \/ ReadChunked(b)
  \/ ReadBroken \/ CloseBody \/ Redial

Spec == Init /\ [][Next]_streamVars

-----------------------------------------------------------------------------
(* Every variable holds values of its kind; a chunk is never overrun.      *)
TypeOK ==
  /\ buffered \in 0..Len(wire)
  /\ {open, cut} \subseteq BOOLEAN
  /\ phase \in {"idle", "head", "body", "closed", "panic"}
  /\ remaining \in Nat \cup {-1} /\ reader \in {"nil", "raw", "chunked"}
  /\ size \in Nat \cup {-1} /\ count \in Nat
  /\ size # -1 => count <= size
  /\ got \in Nat /\ end \in {"none", "eof", "error"}

(* readHeader and Read find the boundary between responses: on a           *)
(* connection that the pool keeps, a head comes next when the last body was*)
(* read to its end. Session.Close keeps it after an error of Read too      *)
(* (needClose is not told): then no head comes next, so that no leftover is*)
(* taken for the next response, and that exchange fails and closes it.     *)
Aligned ==
  phase = "idle" /\ wire # <<>> => (Head(wire).t = "head" <=> end # "error")

(* The user who is told io.EOF has read the whole body and nothing else,   *)
(* whatever the sizes of chunks, buffers and packets.                      *)
Complete == phase = "body" /\ end = "eof" /\ ~cut => got = Units(Resp)

(* Read fails when the server dies, and at two things a conforming server  *)
(* may send and chunkedReader refuses, a trailer and an odd size line: then*)
(* only there, with all the data before it handed over. Nothing else fails.*)
NoSpuriousError ==
  phase = "body" /\ end = "error" =>
    \/ cut
    \/ \E i \in DOMAIN BodyTokens(Resp) :
         /\ Untaken(BodyTokens(Resp)[i])
         /\ got = DataWithin(BodyTokens(Resp), i - 1)

(* Read never waits for bytes that the server does not owe.                *)
NeverOverreads ==
  Reading /\ remaining # 0 /\ reader # "nil" => wire # <<>> \/ ~open

(* A response to HEAD and a 1xx, 204 or 304 ends with its header fields:   *)
(* nothing after them is read as its body.                                 *)
NoBodyByStatus == phase = "body" /\ NoBodyStatus(Resp) => remaining = 0
=============================================================================
