--------------------------- MODULE RequestFraming ---------------------------
(***************************************************************************)
(* What of a request decides where it ends on the wire: Request.Prepare    *)
(* and updateBody (internal/http/prepared.go), writeHeader and             *)
(* expectContentLength (internal/transport/http1/http1.go).                *)
(*                                                                         *)
(* A request is a record: scheme, host and port of its URL (port may be    *)
(* ""), the values of its Host header (<<>> if there is none; the header   *)
(* goes on the wire and no further: the connection is the one of the URL), *)
(* the proxy it is to go through, the Content-Length its headers           *)
(* declare (NoLength if none; any other integer parses), and its body: kind*)
(* is "none", "bytes" (a string, a []byte, a buffer or a reader of one),   *)
(* "sized" (a reader with a Size method, which says claimed), "reader" or  *)
(* "other"; bytes is what it gives if it does not fail. A Transfer-Encoding*)
(* of the user's own is left out.                                          *)
(***************************************************************************)
EXTENDS Integers, Sequences

NoLength == -1

(* updateBody: the ContentLength of the prepared request.                  *)
ContentLength(req) ==
  CASE req.kind = "bytes" -> req.bytes
    [] req.kind = "sized" -> req.claimed
    [] OTHER -> req.declared

(* The host Prepare looks at: the Host header's first value, if any.       *)
HeaderHost(req) == IF req.hostHeader = <<>> THEN req.host ELSE Head(req.hostHeader)

(* Prepare does not refuse the request.                                    *)
Prepares(req) ==
  /\ HeaderHost(req) # ""
  /\ req.kind # "other"
  /\ req.declared # NoLength => ContentLength(req) = req.declared

HasBody(req) == req.kind # "none"
Chunked(req) == HasBody(req) /\ ContentLength(req) = NoLength

(* What the header says the server should wait for. Without a length it is *)
(* nothing, and a length of zero says the same where one is expected.      *)
Framing(req) ==
  [chunked |-> Chunked(req), need |-> IF ContentLength(req) > 0 THEN ContentLength(req) ELSE 0]
=============================================================================
