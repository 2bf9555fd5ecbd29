------------------------------- MODULE Client -------------------------------
(***************************************************************************)
(* A client's requests on their way out: Client.CtxDo (internal/client.go),*)
(* CoreDialer.Dial (internal/dialer/dial.go) with the pools of PoolGroup   *)
(* (utils/netpool/group.go), DialContextOverProxy (proxy.go) with its name *)
(* resolution (dns.go), and writeRequest (internal/transport/http1/        *)
(* http1.go) with the chunked writer (internal/transport/chunked/          *)
(* writer.go).                                                             *)
(*                                                                         *)
(* A pool leases its connections as ConnLease says, which NetPool          *)
(* implements. The dial function runs inside it. A server reads requests   *)
(* one after another and answers those it has whole; Http1 says what can   *)
(* happen after that, here the connection is given back. The two resolver  *)
(* configurations are given; a name that is in neither resolves to itself. *)
(* Left out are the nil configurations with which the program panics: no   *)
(* ProxyConfig (proxy.go:69), neither ResolveConfig (proxy.go:77), or only *)
(* the dialer's missing (dns.go:28).                                       *)
(***************************************************************************)
EXTENDS RequestFraming, FiniteSets

CONSTANTS Callers,         \* goroutines that call CtxDo
          Conns,           \* connections they may dial
          NoConn, NoPool, NoRequest,
          NoProxy,         \* GetProxy says none
          Requests,        \* the requests they make
          MaxConns,        \* maxConnsPerHost
          MaxBytes,        \* bound: bytes a reader gives
          ResolveLocally,  \* ProxyConfig.ResolveLocally
          StaticHosts,     \* ResolveConfig.StaticHosts
          ProxyHosts       \* ProxyConfig.ResolveConfig.StaticHosts

ASSUME ClientAssumption ==
  /\ IsFiniteSet(Callers) /\ IsFiniteSet(Conns)
  /\ NoConn \notin Conns
  /\ \A r \in Requests : r.bytes \in Nat /\ {r.declared, r.claimed} \subseteq Int
  /\ MaxConns \in Nat \ {0} /\ MaxBytes \in Nat
  /\ ResolveLocally \in BOOLEAN

VARIABLES pc,      \* where each caller, or the write loop for it, stands
          req,     \* its request
          pools,   \* the pool of each key: the key and the caller that made it
          pool,    \* the pool a caller has got
          own,     \* its connection
          conn,    \* each connection: its pool and what is at its other end
          written, \* bytes of the body that are written
          server   \* what the server of a connection waits for, and what it
                   \* has got beyond that

poolVars == <<pools, pool>>
wireVars == <<written, server>>
vars == <<pc, req, poolVars, own, conn, wireVars>>

schemes == [http |-> "80", https |-> "443"]

Port(r) == IF r.port = "" THEN schemes[r.scheme] ELSE r.port

(* Faulty: one key for requests over a proxy and straight ones.            *)
KeyOfHost(r) == <<r.host, Port(r), NoProxy>>

(* dialKey                                                                 *)
Key(r) == <<r.host, Port(r), r.proxy>>
Keys == {Key(r) : r \in Requests}

(* A pool is known by its key and by the caller that made it.              *)
Pools == [key : Keys, by : Callers]

ASSUME PoolAssumption == NoPool \notin Pools

(* The name a host is dialed by, after StaticHosts of a configuration.     *)
Resolve(hosts, host) == IF host \in DOMAIN hosts THEN hosts[host] ELSE host

(* The entries of two tables, with those of the first where they differ.   *)
Over(top, hosts) ==
  [h \in DOMAIN top \cup DOMAIN hosts |-> IF h \in DOMAIN top THEN top[h] ELSE hosts[h]]

Merge(proxyHosts, hosts) == Over(hosts, proxyHosts)

Closed == [pool |-> NoPool, via |-> NoProxy, peer |-> "", port |-> "", secure |-> FALSE]
Waiting == [chunked |-> FALSE, need |-> 0, spare |-> 0]

Init ==
  /\ pc = [c \in Callers |-> "start"]
  /\ req = [c \in Callers |-> NoRequest]
  /\ pools = [k \in Keys |-> NoPool]
  /\ pool = [c \in Callers |-> NoPool]
  /\ own = [c \in Callers |-> NoConn]
  /\ conn = [n \in Conns |-> Closed]
  /\ written = [c \in Callers |-> 0]
  /\ server = [n \in Conns |-> Waiting]

Goes(c, state) == pc' = [pc EXCEPT ![c] = state]

-----------------------------------------------------------------------------
(* CtxDo and PoolGroup.Connect.                                            *)

Prepare(c, r) ==
  /\ pc[c] = "start" /\ Prepares(r)
  /\ req' = [req EXCEPT ![c] = r]
  /\ Goes(c, "lookup")
  /\ UNCHANGED <<own, poolVars, conn, wireVars>>

(* Under RLock.                                                            *)
Lookup(c) ==
  /\ pc[c] = "lookup"
  /\ pool' = [pool EXCEPT ![c] = pools[Key(req[c])]]
  /\ Goes(c, IF pools[Key(req[c])] = NoPool THEN "create" ELSE "get")
  /\ UNCHANGED <<req, own, pools, conn, wireVars>>

CreatesPool(c, p) ==
  /\ pc[c] = "create"
  /\ pools' = [pools EXCEPT ![Key(req[c])] = p]
  /\ pool' = [pool EXCEPT ![c] = p]
  /\ Goes(c, "get")
  /\ UNCHANGED <<req, own, conn, wireVars>>

(* Faulty: does not look again.                                            *)
CreateAnyway(c) == CreatesPool(c, [key |-> Key(req[c]), by |-> c])

(* Under Lock, after another look.                                         *)
Create(c) ==
  CreatesPool(c, IF pools[Key(req[c])] = NoPool
                 THEN [key |-> Key(req[c]), by |-> c] ELSE pools[Key(req[c])])

(* Pool.Connect: a connection nobody uses, or room for another.            *)
Lease(c, n) ==
  /\ pc[c] = "get"
  /\ conn[n].pool = pool[c] /\ \A d \in Callers : own[d] # n
  /\ own' = [own EXCEPT ![c] = n]
  /\ Goes(c, "write")
  /\ UNCHANGED <<req, poolVars, conn, wireVars>>

Open(c, n) ==
  /\ pc[c] = "get"
  /\ conn[n] = Closed
  /\ Cardinality({m \in Conns : conn[m].pool = pool[c]}) < MaxConns
  /\ conn' = [conn EXCEPT ![n].pool = pool[c]]
  /\ own' = [own EXCEPT ![c] = n]
  /\ Goes(c, "dial")
  /\ UNCHANGED <<req, poolVars, wireVars>>

-----------------------------------------------------------------------------
(* The dial function.                                                      *)

Dialing(c) == UNCHANGED <<req, poolVars, own, wireVars>>

(* dialRaw, to the host or, in DialContextOverProxy, to the proxy.         *)
Dial(c) ==
  /\ pc[c] = "dial"
  /\ LET r == req[c] IN
     IF r.proxy = NoProxy
     THEN /\ conn' = [conn EXCEPT ![own[c]].peer = Resolve(StaticHosts, r.host),
                                  ![own[c]].port = Port(r)]
          /\ Goes(c, IF r.scheme = "https" THEN "tls" ELSE "write")
     ELSE /\ conn' = [conn EXCEPT ![own[c]].peer = r.proxy]
          /\ Goes(c, "connect")
  /\ Dialing(c)

(* Where CONNECT asks the proxy to go.                                     *)
Target(r) ==
  IF ResolveLocally THEN Resolve(Merge(ProxyHosts, StaticHosts), r.host) ELSE r.host

(* The proxy answers 200: it is now the host who is at the other end.      *)
Connect(c) ==
  /\ pc[c] = "connect"
  /\ conn' = [conn EXCEPT ![own[c]].via = req[c].proxy, ![own[c]].peer = Target(req[c]),
                          ![own[c]].port = Port(req[c])]
  /\ Goes(c, IF req[c].scheme = "https" THEN "tls" ELSE "write")
  /\ Dialing(c)

HandshakeTLS(c) ==
  /\ pc[c] = "tls"
  /\ conn' = [conn EXCEPT ![own[c]].secure = TRUE]
  /\ Goes(c, "write")
  /\ Dialing(c)

(* The connection is over, and the caller with it.                         *)
Drop(c) ==
  /\ conn' = [conn EXCEPT ![own[c]] = Closed]
  /\ server' = [server EXCEPT ![own[c]] = Waiting]
  /\ own' = [own EXCEPT ![c] = NoConn]
  /\ pool' = [pool EXCEPT ![c] = NoPool]
  /\ written' = [written EXCEPT ![c] = 0]
  /\ req' = [req EXCEPT ![c] = NoRequest]
  /\ Goes(c, "start")
  /\ UNCHANGED pools

(* A dial, a lookup, CONNECT or a handshake fails.                         *)
DialFails(c) == pc[c] \in {"dial", "connect", "tls"} /\ Drop(c)

-----------------------------------------------------------------------------
(* writeRequest. Writing what the framing does not announce leaves bytes   *)
(* the server takes for another request.                                   *)

WriteHeader(c) ==
  /\ pc[c] = "write"
  /\ server' = [server EXCEPT ![own[c]].chunked = Framing(req[c]).chunked,
                              ![own[c]].need = Framing(req[c]).need]
  /\ Goes(c, IF HasBody(req[c]) THEN "body" ELSE "answer")
  /\ UNCHANGED <<req, poolVars, own, conn, written>>

(* io.Copy, straight or as a chunk.                                        *)
WriteBody(c, l) ==
  /\ pc[c] = "body" /\ written[c] + l <= req[c].bytes
  /\ written' = [written EXCEPT ![c] = @ + l]
  /\ LET s == server[own[c]] IN
     server' = IF s.chunked THEN server
               ELSE IF l <= s.need THEN [server EXCEPT ![own[c]].need = @ - l]
               ELSE [server EXCEPT ![own[c]].need = 0, ![own[c]].spare = @ + l - s.need]
  /\ UNCHANGED <<pc, req, poolVars, own, conn>>

Complete(c) ==
  /\ server' = [server EXCEPT ![own[c]].chunked = FALSE]
  /\ Goes(c, "answer")
  /\ UNCHANGED <<req, poolVars, own, conn, written>>

(* Faulty: the length of what was copied is not looked at.                 *)
EndBodyAny(c) ==
  /\ pc[c] = "body" /\ written[c] = req[c].bytes
  /\ Complete(c)

(* The last chunk, or the comparison with ContentLength.                   *)
EndBody(c) ==
  /\ pc[c] = "body" /\ written[c] = req[c].bytes
  /\ IF Chunked(req[c]) \/ written[c] = ContentLength(req[c]) THEN Complete(c) ELSE Drop(c)

(* The reader fails, or a write.                                           *)
WriteFails(c) == pc[c] \in {"write", "body"} /\ Drop(c)

-----------------------------------------------------------------------------
(* The server answers a request it has whole, and the connection is given  *)
(* back; or it closes.                                                     *)
Answer(c) ==
  /\ pc[c] = "answer"
  /\ ~server[own[c]].chunked /\ server[own[c]].need = 0
  /\ own' = [own EXCEPT ![c] = NoConn]
  /\ pool' = [pool EXCEPT ![c] = NoPool]
  /\ written' = [written EXCEPT ![c] = 0]
  /\ req' = [req EXCEPT ![c] = NoRequest]
  /\ Goes(c, "start")
  /\ UNCHANGED <<pools, conn, server>>

ServerCloses(c) == pc[c] = "answer" /\ Drop(c)

-----------------------------------------------------------------------------
Step(c) ==
  \/ (\E r \in Requests : Prepare(c, r)) \/ Lookup(c) \/ Create(c)
  \/ \E n \in Conns : Lease(c, n) \/ Open(c, n)
  \/ Dial(c) \/ Connect(c) \/ HandshakeTLS(c) \/ DialFails(c)
  \/ WriteHeader(c) \/ (\E l \in 1..MaxBytes : WriteBody(c, l)) \/ EndBody(c) \/ WriteFails(c)
  \/ Answer(c) \/ ServerCloses(c)

Next == \E c \in Callers : Step(c)

Spec == Init /\ [][Next]_vars

-----------------------------------------------------------------------------
PoolOf(k) ==
  INSTANCE ConnLease WITH Clients <- Callers, Limit <- MaxConns,
    open <- {n \in Conns : conn[n].pool # NoPool /\ conn[n].pool.key = k},
    lessees <- [n \in Conns |-> {c \in Callers : own[c] = n /\ conn[n].pool.key = k}]

(* All the connections of one key are leased as those of one pool: callers *)
(* that race to create the pool of a key do not get pools of their own, so *)
(* that maxConnsPerHost is a bound for the host.                           *)
LeasePerKey == [][\A k \in DOMAIN pools : [PoolOf(k)!Next]_(PoolOf(k)!leaseVars)]_vars

(* The host at the other end, for r and after the tables that apply to it. *)
(* Of two entries over a proxy, the proxy's is to be used: ResolveConfig   *)
(* "overrides the resolver config for dialer for proxy" (proxy.go:21).     *)
Peer(r) ==
  IF r.proxy = NoProxy THEN Resolve(StaticHosts, r.host)
  ELSE IF ResolveLocally THEN Resolve(Over(ProxyHosts, StaticHosts), r.host)
  ELSE r.host

(* Two different entries over a proxy. Merge uses the dialer's, against    *)
(* that comment.                                                           *)
Disputed(r) ==
  /\ r.proxy # NoProxy /\ ResolveLocally
  /\ r.host \in DOMAIN StaticHosts \cap DOMAIN ProxyHosts
  /\ StaticHosts[r.host] # ProxyHosts[r.host]

(* Requests of both schemes go to the same port of a host: by default to   *)
(* one, by name to the other. They share a pool, as keys have no scheme.   *)
BothSchemes(r) ==
  \E q \in Requests : /\ q.host = r.host /\ Port(q) = Port(r) /\ q.proxy = r.proxy
                     /\ q.scheme # r.scheme

(* A request is written to whom it is for, through the proxy it is for and *)
(* under TLS if it asks for it, on a new connection or on one that another *)
(* caller's request has opened. The code breaks it in two cases, which are *)
(* excepted: a host with a disputed entry is the one the dialer's table    *)
(* names, and TLS is not told where both schemes meet.                     *)
RightPeer ==
  \A c \in Callers : pc[c] \in {"write", "body", "answer"} =>
    LET r == req[c]
        n == conn[own[c]] IN
    /\ n.peer = IF Disputed(r) THEN StaticHosts[r.host] ELSE Peer(r)
    /\ n.port = Port(r) /\ n.via = r.proxy
    /\ n.secure = (r.scheme = "https") \/ BothSchemes(r)

(* A connection that is given back is one whose server has got the end of  *)
(* its last request and nothing beyond it, whatever the length its headers *)
(* declare, its Size method claims, or its reader gives.                   *)
RequestAligned ==
  \A n \in Conns : conn[n].pool # NoPool /\ (\A c \in Callers : own[c] # n) =>
    server[n] = Waiting
=============================================================================
