------------------------------ MODULE MCClient ------------------------------
(* Client for TLC: requests to two hosts, directly and over a proxy, with  *)
(* every relation between a body and the length it is said to have. Of the *)
(* hosts, a is in both resolver tables and disputed, b in the proxy's.     *)
(* Callers are interchangeable, and so are connections.                    *)
EXTENDS Client, TLC

Request(scheme, host, port, proxy, declared, kind, claimed, bytes) ==
  [scheme |-> scheme, host |-> host, port |-> port, proxy |-> proxy,
   hostHeader |-> <<>>, declared |-> declared, kind |-> kind, claimed |-> claimed, bytes |-> bytes]

Gets == {Request("http", "a", "", "proxy", -1, "none", 0, 0),
         Request("https", "b", "", "proxy", -1, "none", 0, 0),
         Request("http", "b", "443", "proxy", -1, "none", 0, 0)}

Upload(declared, kind, claimed, bytes) ==
  Request("http", "a", "", "none", declared, kind, claimed, bytes)

Uploads == {Upload(1, "none", 0, 0), Upload(-1, "bytes", 0, 2), Upload(1, "bytes", 0, 2),
            Upload(-1, "sized", 1, 0), Upload(-1, "sized", 1, 2),
            Upload(-1, "reader", 0, 2), Upload(2, "reader", 0, 1),
            Upload(-2, "reader", 0, 1), Upload(-1, "other", 0, 1)}

(* A Host header of its own, without which, or with an empty one, a request*)
(* may be refused.                                                         *)
Nameless == Request("https", "", "", "none", -1, "none", 0, 0)
Headed == {Nameless, [Nameless EXCEPT !.hostHeader = <<"b">>],
           [Upload(-1, "none", 0, 0) EXCEPT !.hostHeader = <<"">>]}

MCRequests == Gets \cup Uploads \cup Headed
Symmetry == Permutations(Callers) \cup Permutations(Conns)

MCStaticHosts == [a |-> "a1"]
MCProxyHosts == [a |-> "a2", b |-> "b2"]
=============================================================================
