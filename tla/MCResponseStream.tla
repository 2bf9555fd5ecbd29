-------------------------- MODULE MCResponseStream --------------------------
(* Menus of responses for TLC.                                             *)
EXTENDS ResponseStream

R(method, status, length, coding, chunks, extent) ==
  [method |-> method, status |-> status, version |-> <<1, 1>>, length |-> length,
   lengthOK |-> TRUE, coding |-> coding, close |-> FALSE, chunks |-> chunks,
   extent |-> extent, trailer |-> FALSE, odd |-> {}]

Plain == R("GET", "2xx", 3, <<>>, <<>>, 3)
Chunks(s) == R("GET", "other", -1, <<"chunked">>, s, 0)

(* Bodies by length, by chunks and until the connection closes, statuses   *)
(* and methods without one, and a tunnel; a length beside a coding, a bad  *)
(* length, a coding without a decoder; and the chunked bodies that         *)
(* chunkedReader refuses: with a trailer, with an odd size line first, in  *)
(* the middle and last.                                                    *)
MCMenu == {
  Plain,
  R("GET", "2xx", 0, <<>>, <<>>, 0),
  [Plain EXCEPT !.close = TRUE],
  [Plain EXCEPT !.lengthOK = FALSE],
  [R("GET", "2xx", 2, <<>>, <<>>, 2) EXCEPT !.version = <<1, 0>>],
  Chunks(<<>>), Chunks(<<2>>), Chunks(<<1, 3>>),
  [Chunks(<<2>>) EXCEPT !.trailer = TRUE],
  [Chunks(<<1>>) EXCEPT !.odd = {1}], [Chunks(<<1, 1>>) EXCEPT !.odd = {2, 3}],
  [Chunks(<<2>>) EXCEPT !.odd = {2}],
  [Chunks(<<2>>) EXCEPT !.length = 1],
  R("GET", "2xx", -1, <<"gzip", "chunked">>, <<1>>, 0),
  R("HEAD", "2xx", 3, <<>>, <<>>, 0),
  R("GET", "304", 3, <<>>, <<>>, 0),
  R("GET", "204", -1, <<>>, <<>>, 0),
  R("GET", "2xx", -1, <<>>, <<>>, 2),
  R("CONNECT", "2xx", -1, <<"chunked">>, <<>>, 1) }

(* A 408 by which a server gives the connection up.                        *)
MCUnasked == {[R("GET", "other", 1, <<>>, <<>>, 1) EXCEPT !.close = TRUE]}

(* What the theorems about ResponseStream take for granted of a menu.      *)
ASSUME MCMenuIsFramed == \A r \in MCMenu \cup MCUnasked : Framed(r)

(* A HEAD response with the Transfer-Encoding its GET would have.          *)
MCMenuHead == {Plain, R("HEAD", "2xx", -1, <<"chunked">>, <<>>, 0)}
=============================================================================
