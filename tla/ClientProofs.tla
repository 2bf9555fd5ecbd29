---------------------------- MODULE ClientProofs ----------------------------
(***************************************************************************)
(* Proofs about Client, for all callers, connections, requests and         *)
(* resolver configurations.                                                *)
(***************************************************************************)
EXTENDS Client, FiniteSetTheorems, TLAPS

Dialled == {"dial", "connect", "tls"}
Working == {"write", "body", "answer"}

(* Who is at the other end of a connection dialled for r.                  *)
Reached(r) == IF r.proxy = NoProxy THEN Resolve(StaticHosts, r.host) ELSE Target(r)

Ports == {""} \cup {Port(r) : r \in Requests}
Proxies == {NoProxy} \cup {r.proxy : r \in Requests}
Peers == {""} \cup {r.proxy : r \in Requests} \cup {Reached(r) : r \in Requests}

(* Every variable holds values of its kind.                                *)
ClientTypes ==
  /\ pc \in [Callers -> {"start", "lookup", "create", "get"} \cup Dialled \cup Working]
  /\ req \in [Callers -> Requests \cup {NoRequest}]
  /\ pools \in [Keys -> Pools \cup {NoPool}] /\ pool \in [Callers -> Pools \cup {NoPool}]
  /\ own \in [Callers -> Conns \cup {NoConn}]
  /\ conn \in [Conns -> [pool : Pools \cup {NoPool}, via : Proxies, peer : Peers,
                         port : Ports, secure : BOOLEAN]]
  /\ written \in [Callers -> Nat]
  /\ server \in [Conns -> [chunked : BOOLEAN, need : Nat, spare : Nat]]

(* A key has one pool for good, and a connection the pool of its callers.  *)
PoolsInv ==
  /\ \A k \in Keys : pools[k] # NoPool => pools[k].key = k
  /\ \A n \in Conns : conn[n].pool # NoPool => pools[conn[n].pool.key] = conn[n].pool
  /\ \A c \in Callers :
       /\ pc[c] # "start" => req[c] \in Requests
       /\ pc[c] \in {"get"} \cup Dialled \cup Working
            => pool[c] # NoPool /\ pool[c] = pools[Key(req[c])]

(* Who has a connection has it alone.                                      *)
OwnersInv ==
  /\ \A c \in Callers :
       /\ own[c] # NoConn <=> pc[c] \in Dialled \cup Working
       /\ own[c] # NoConn => conn[own[c]].pool = pool[c]
  /\ \A c, d \in Callers : own[c] = own[d] /\ own[c] # NoConn => c = d

(* n is the connection dialled for r, but for TLS.                         *)
LeadsTo(n, r) == n.peer = Reached(r) /\ n.port = Port(r) /\ n.via = r.proxy

(* What is at the other end of a connection, while it is dialled and once  *)
(* it has been: whoever it was dialled for had the key of its pool.        *)
PeerInv ==
  /\ \A c \in Callers : pc[c] \in Dialled =>
       /\ ~conn[own[c]].secure
       /\ pc[c] = "dial" => conn[own[c]].via = NoProxy
       /\ pc[c] = "connect" => req[c].proxy # NoProxy
       /\ pc[c] = "tls" => LeadsTo(conn[own[c]], req[c]) /\ req[c].scheme = "https"
  /\ \A n \in Conns :
       conn[n].pool # NoPool /\ (\A c \in Callers : own[c] = n => pc[c] \in Working) =>
         \E q \in Requests : /\ Key(q) = conn[n].pool.key /\ LeadsTo(conn[n], q)
                             /\ conn[n].secure = (q.scheme = "https")

(* Of the body that r announces, a server waits for what is not written;   *)
(* what is written beyond it is spare.                                     *)
Owes(s, r, count) ==
  IF Chunked(r) THEN s.chunked /\ s.need = 0 /\ s.spare = 0
  ELSE /\ ~s.chunked
       /\ s.need = IF count <= Framing(r).need THEN Framing(r).need - count ELSE 0
       /\ s.spare = IF count <= Framing(r).need THEN 0 ELSE count - Framing(r).need

(* What a server waits for, before, in and after a request.                *)
FramingInv ==
  /\ \A n \in Conns : (\A c \in Callers : own[c] # n) => server[n] = Waiting
  /\ \A c \in Callers :
       /\ pc[c] \notin {"body", "answer"} => written[c] = 0
       /\ pc[c] \in Dialled \cup {"write"} => server[own[c]] = Waiting
       /\ pc[c] = "body" => Owes(server[own[c]], req[c], written[c])
       /\ pc[c] = "answer" => ~server[own[c]].chunked /\ server[own[c]].spare = 0

(* The inductive invariant.                                                *)
ClientInv == ClientTypes /\ PoolsInv /\ OwnersInv /\ PeerInv /\ FramingInv

-----------------------------------------------------------------------------
(* Requests with one key go to one peer, the same way.                     *)
LEMMA KeyParts ==
  ASSUME NEW r \in Requests, NEW q \in Requests, Key(r) = Key(q)
  PROVE  Reached(r) = Reached(q) /\ Port(r) = Port(q) /\ r.proxy = q.proxy
  BY DEF Key, Reached, Target

(* A length is an integer, and what a header announces is a number.        *)
LEMMA FramingType ==
  ASSUME NEW r \in Requests
  PROVE  /\ ContentLength(r) \in Int /\ r.bytes \in Nat
         /\ Framing(r).chunked = Chunked(r) /\ Chunked(r) \in BOOLEAN
         /\ Framing(r).need = IF ContentLength(r) > 0 THEN ContentLength(r) ELSE 0
         /\ Framing(r).need \in Nat
  BY ClientAssumption DEF ContentLength, Framing, Chunked, HasBody

(* A connection that somebody has is one of the pool of its request's key. *)
LEMMA OwnConn ==
  ASSUME ClientInv, NEW c \in Callers, pc[c] \in Dialled \cup Working
  PROVE  /\ own[c] \in Conns /\ own[c] # NoConn /\ req[c] \in Requests
         /\ conn[own[c]].pool = pools[Key(req[c])] /\ conn[own[c]].pool # NoPool
         /\ conn[own[c]].pool = pool[c] /\ pool[c].key = Key(req[c])
         /\ \A d \in Callers \ {c} : own[d] # own[c]
  <1> USE DEF ClientInv
  <1>1. pc[c] # "start"
    BY DEF Dialled, Working
  <1>2. req[c] \in Requests /\ Key(req[c]) \in Keys
    BY <1>1 DEF PoolsInv, Keys
  <1>3. pool[c] # NoPool /\ pool[c] = pools[Key(req[c])] /\ pool[c].key = Key(req[c])
    BY <1>2 DEF PoolsInv
  <1>4. own[c] # NoConn /\ own[c] \in Conns /\ conn[own[c]].pool = pool[c]
    BY DEF OwnersInv, ClientTypes
  <1>5. \A d \in Callers \ {c} : own[d] # own[c]
    BY <1>4 DEF OwnersInv
  <1> QED BY <1>2, <1>3, <1>4, <1>5

-----------------------------------------------------------------------------
(* Each operation preserves the invariant. CtxDo and PoolGroup.Connect.    *)
LEMMA PrepareInv ==
  ASSUME ClientInv, NEW c \in Callers, NEW r \in Requests, Prepare(c, r)
  PROVE  ClientInv'
  <1> USE ClientAssumption DEF ClientInv, Prepare, Goes, poolVars, wireVars, Dialled, Working
  <1>1. ClientTypes'
    BY DEF ClientTypes
  <1>2. PoolsInv' /\ OwnersInv'
    BY DEF ClientTypes, PoolsInv, OwnersInv
  <1>3. PeerInv'
    BY DEF ClientTypes, OwnersInv, PeerInv
  <1>4. FramingInv'
    BY DEF ClientTypes, FramingInv
  <1> QED BY <1>1, <1>2, <1>3, <1>4

LEMMA LookupInv ==
  ASSUME ClientInv, NEW c \in Callers, Lookup(c)
  PROVE  ClientInv'
  <1> USE ClientAssumption DEF ClientInv, Lookup, Goes, wireVars, Dialled, Working
  <1>0. req[c] \in Requests /\ Key(req[c]) \in Keys
    BY DEF PoolsInv, Keys
  <1>1. ClientTypes'
    BY <1>0 DEF ClientTypes
  <1>2. PoolsInv' /\ OwnersInv'
    BY <1>0 DEF ClientTypes, PoolsInv, OwnersInv
  <1>3. PeerInv'
    BY DEF ClientTypes, OwnersInv, PeerInv
  <1>4. FramingInv'
    BY DEF ClientTypes, FramingInv
  <1> QED BY <1>1, <1>2, <1>3, <1>4

(* A pool that is there stays.                                             *)
LEMMA CreateInv ==
  ASSUME ClientInv, NEW c \in Callers, Create(c)
  PROVE  ClientInv'
  <1> USE ClientAssumption DEF ClientInv
  <1>0. /\ pc[c] = "create" /\ req[c] \in Requests /\ Key(req[c]) \in Keys
        /\ UNCHANGED <<req, own, conn, written, server>>
        /\ pc' = [pc EXCEPT ![c] = "get"]
    BY DEF Create, CreatesPool, Goes, PoolsInv, Keys, wireVars
  <1>1. PICK p \in Pools :
          /\ pools' = [pools EXCEPT ![Key(req[c])] = p] /\ pool' = [pool EXCEPT ![c] = p]
          /\ pools[Key(req[c])] # NoPool => p = pools[Key(req[c])]
          /\ p.key = Key(req[c]) /\ p # NoPool
    <2>1. [key |-> Key(req[c]), by |-> c] \in Pools
      BY <1>0 DEF Pools
    <2>2. pools[Key(req[c])] \in Pools \cup {NoPool}
      BY <1>0 DEF ClientTypes
    <2> QED BY <1>0, <2>1, <2>2, PoolAssumption DEF Create, CreatesPool, PoolsInv
  <1>2. ClientTypes'
    BY <1>0, <1>1 DEF ClientTypes
  <1>3. PoolsInv'
    <2>1. ASSUME NEW k \in Keys, k # Key(req[c]) PROVE pools'[k] = pools[k]
      BY <1>1, <2>1 DEF ClientTypes
    <2>2. pools'[Key(req[c])] = p
      BY <1>0, <1>1 DEF ClientTypes
    <2>3. \A k \in Keys : pools[k] # NoPool => pools'[k] = pools[k]
      BY <1>1, <2>1, <2>2
    <2>4. \A k \in Keys : pools'[k] # NoPool => pools'[k].key = k
      BY <1>0, <1>1, <2>1, <2>2 DEF PoolsInv
    <2>5. \A n \in Conns : conn[n].pool # NoPool => conn[n].pool.key \in Keys
      BY DEF ClientTypes, Pools
    <2>6. \A n \in Conns :
            conn'[n].pool # NoPool => pools'[conn'[n].pool.key] = conn'[n].pool
      BY <1>0, <2>3, <2>5 DEF PoolsInv
    <2>7. ASSUME NEW d \in Callers
          PROVE  /\ pc'[d] # "start" => req'[d] \in Requests
                 /\ pc'[d] \in {"get"} \cup Dialled \cup Working
                      => pool'[d] # NoPool /\ pool'[d] = pools'[Key(req'[d])]
      <3>1. CASE d = c
        BY <1>0, <1>1, <2>2, <3>1 DEF ClientTypes, Dialled, Working
      <3>2. CASE d # c
        <4>1. pc'[d] = pc[d] /\ pool'[d] = pool[d] /\ req'[d] = req[d]
          BY <1>0, <1>1, <3>2 DEF ClientTypes
        <4>2. pc[d] \in {"get"} \cup Dialled \cup Working => Key(req[d]) \in Keys
          BY DEF PoolsInv, Dialled, Working, Keys
        <4> QED BY <2>3, <4>1, <4>2 DEF PoolsInv
      <3> QED BY <3>1, <3>2
    <2> QED BY <2>4, <2>6, <2>7 DEF PoolsInv
  <1>4. OwnersInv'
    BY <1>0, <1>1 DEF ClientTypes, OwnersInv, Dialled, Working
  <1>5. PeerInv'
    BY <1>0 DEF ClientTypes, OwnersInv, PeerInv, Dialled, Working
  <1>6. FramingInv'
    BY <1>0 DEF ClientTypes, FramingInv, Dialled
  <1> QED BY <1>2, <1>3, <1>4, <1>5, <1>6

(* Pool.Connect.                                                           *)
LEMMA LeaseInv ==
  ASSUME ClientInv, NEW c \in Callers, NEW n \in Conns, Lease(c, n)
  PROVE  ClientInv'
  <1> USE ClientAssumption DEF ClientInv
  <1>0. /\ pc[c] = "get" /\ own[c] = NoConn /\ pool[c] # NoPool /\ conn[n].pool = pool[c]
        /\ \A d \in Callers : own[d] # n
        /\ own' = [own EXCEPT ![c] = n] /\ pc' = [pc EXCEPT ![c] = "write"]
        /\ UNCHANGED <<req, pools, pool, conn, written, server>>
    BY DEF Lease, Goes, poolVars, wireVars, PoolsInv, OwnersInv, Dialled, Working
  <1>1. ClientTypes'
    BY <1>0 DEF ClientTypes, Working
  <1>2. PoolsInv'
    BY <1>0 DEF ClientTypes, PoolsInv
  <1>3. OwnersInv'
    BY <1>0 DEF ClientTypes, OwnersInv, Dialled, Working
  <1>4. PeerInv'
    BY SMTT(60), <1>0 DEF ClientTypes, OwnersInv, PeerInv, Dialled, Working
  <1>5. FramingInv'
    BY <1>0 DEF ClientTypes, OwnersInv, FramingInv, Dialled, Working
  <1> QED BY <1>1, <1>2, <1>3, <1>4, <1>5

LEMMA OpenInv ==
  ASSUME ClientInv, NEW c \in Callers, NEW n \in Conns, Open(c, n)
  PROVE  ClientInv'
  <1> USE ClientAssumption DEF ClientInv
  <1>0. /\ pc[c] = "get" /\ own[c] = NoConn /\ pool[c] # NoPool /\ conn[n] = Closed
        /\ conn' = [conn EXCEPT ![n] = [Closed EXCEPT !.pool = pool[c]]]
        /\ own' = [own EXCEPT ![c] = n] /\ pc' = [pc EXCEPT ![c] = "dial"]
        /\ UNCHANGED <<req, pools, pool, written, server>>
    BY DEF Open, Goes, poolVars, wireVars, PoolsInv, OwnersInv, Dialled, Working
  <1>1. /\ pool[c] \in Pools /\ conn[n].pool = NoPool /\ pool[c] = pools[Key(req[c])]
        /\ Key(req[c]) \in Keys /\ pool[c].key = Key(req[c])
        /\ \A d \in Callers : own[d] # n
    <2>1. conn[n].pool = NoPool
      <3>1. Closed.pool = NoPool
        BY DEF Closed
      <3> QED BY <1>0, <3>1
    <2>2. pool[c] \in Pools /\ pool[c] = pools[Key(req[c])] /\ req[c] \in Requests
      BY <1>0 DEF ClientTypes, PoolsInv
    <2>3. ASSUME NEW d \in Callers, own[d] = n PROVE FALSE
      BY <2>1, <2>3 DEF OwnersInv, PoolsInv
    <2> QED BY <1>0, <2>1, <2>2, <2>3 DEF Keys, PoolsInv
  <1>2. /\ conn'[n].pool = pool[c] /\ conn'[n].via = NoProxy /\ ~conn'[n].secure
        /\ conn'[n] \in [pool : Pools \cup {NoPool}, via : Proxies, peer : Peers,
                         port : Ports, secure : BOOLEAN]
        /\ \A m \in Conns \ {n} : conn'[m] = conn[m]
    BY <1>0, <1>1 DEF ClientTypes, Closed, Proxies, Peers, Ports
  <1>3. ClientTypes'
    BY <1>0, <1>2 DEF ClientTypes, Dialled
  <1>4. PoolsInv'
    BY <1>0, <1>1, <1>2 DEF ClientTypes, PoolsInv
  <1>5. OwnersInv'
    BY <1>0, <1>1, <1>2 DEF ClientTypes, OwnersInv, Dialled, Working
  <1>6. PeerInv'
    BY <1>0, <1>1, <1>2 DEF ClientTypes, OwnersInv, PeerInv, Dialled, Working
  <1>7. FramingInv'
    BY <1>0, <1>1 DEF ClientTypes, OwnersInv, FramingInv, Dialled, Working
  <1> QED BY <1>3, <1>4, <1>5, <1>6, <1>7

(* A step of the dial function changes only the caller's own connection.   *)
LEMMA DialsOwn ==
  ASSUME ClientInv, NEW c \in Callers, pc[c] \in Dialled,
         NEW state \in Dialled \cup {"write"}, pc' = [pc EXCEPT ![c] = state],
         NEW far \in [pool : Pools \cup {NoPool}, via : Proxies, peer : Peers,
                      port : Ports, secure : BOOLEAN],
         conn' = [conn EXCEPT ![own[c]] = far], far.pool = conn[own[c]].pool,
         UNCHANGED <<req, pools, pool, own, written, server>>,
         state \in Dialled => ~far.secure,
         state # "dial",
         state = "connect" => req[c].proxy # NoProxy,
         state = "tls" => LeadsTo(far, req[c]) /\ req[c].scheme = "https",
         state = "write" => LeadsTo(far, req[c]) /\ far.secure = (req[c].scheme = "https")
  PROVE  ClientInv'
  <1> USE ClientAssumption DEF ClientInv
  <1>0. /\ own[c] \in Conns /\ req[c] \in Requests /\ pool[c].key = Key(req[c])
        /\ conn[own[c]].pool = pool[c]
        /\ \A d \in Callers \ {c} : own[d] # own[c]
    BY OwnConn
  <1>1. /\ pc'[c] = state /\ \A d \in Callers \ {c} : pc'[d] = pc[d]
        /\ conn'[own[c]] = far /\ \A m \in Conns \ {own[c]} : conn'[m] = conn[m]
    BY <1>0 DEF ClientTypes
  <1>2. ClientTypes'
    BY DEF ClientTypes, Dialled, Working
  <1>3. PoolsInv'
    BY <1>0, <1>1 DEF PoolsInv, Dialled, Working
  <1>4. OwnersInv'
    BY <1>0, <1>1 DEF ClientTypes, OwnersInv, Dialled, Working
  <1>5. PeerInv'
    <2>1. ASSUME NEW d \in Callers, pc'[d] \in Dialled
          PROVE  /\ ~conn'[own'[d]].secure
                 /\ pc'[d] = "dial" => conn'[own'[d]].via = NoProxy
                 /\ pc'[d] = "connect" => req'[d].proxy # NoProxy
                 /\ pc'[d] = "tls" => LeadsTo(conn'[own'[d]], req'[d]) /\ req'[d].scheme = "https"
      <3>1. CASE d = c
        BY <1>1, <2>1, <3>1
      <3>2. CASE d # c
        <4>1. own[d] \in Conns /\ own[d] # own[c] /\ pc[d] \in Dialled /\ pc'[d] = pc[d]
          BY <1>0, <1>1, <2>1, <3>2, OwnConn
        <4>2. conn'[own'[d]] = conn[own[d]]
          BY <1>1, <4>1
        <4> QED BY <4>1, <4>2 DEF PeerInv
      <3> QED BY <3>1, <3>2
    <2>2. ASSUME NEW m \in Conns, conn'[m].pool # NoPool,
                 \A d \in Callers : own'[d] = m => pc'[d] \in Working
          PROVE  \E q \in Requests : /\ Key(q) = conn'[m].pool.key /\ LeadsTo(conn'[m], q)
                                     /\ conn'[m].secure = (q.scheme = "https")
      <3>1. CASE m = own[c]
        <4>1. state = "write"
          BY <1>1, <2>2, <3>1 DEF Dialled, Working
        <4> QED BY <1>0, <1>1, <3>1, <4>1
      <3>2. CASE m # own[c]
        <4>1. conn'[m] = conn[m] /\ \A d \in Callers : own[d] = m => pc[d] \in Working
          BY <1>1, <2>2, <3>2
        <4> QED BY <2>2, <4>1 DEF PeerInv
      <3> QED BY <3>1, <3>2
    <2> QED BY <2>1, <2>2 DEF PeerInv, LeadsTo
  <1>6. FramingInv'
    BY <1>1 DEF FramingInv, Dialled
  <1> QED BY <1>2, <1>3, <1>4, <1>5, <1>6

(* The dial function: what is at the other end, behind the proxy and under *)
(* TLS, is what the request asks for.                                      *)
LEMMA DialInv ==
  ASSUME ClientInv, NEW c \in Callers, Dial(c) \/ Connect(c) \/ HandshakeTLS(c)
  PROVE  ClientInv'
  <1> DEFINE n == conn[own[c]]
             r == req[c]
  <1>0. /\ pc[c] \in Dialled /\ own[c] \in Conns /\ r \in Requests
        /\ n \in [pool : Pools \cup {NoPool}, via : Proxies, peer : Peers,
                  port : Ports, secure : BOOLEAN]
        /\ UNCHANGED <<req, pools, pool, own, written, server>>
        /\ ~n.secure
    <2>1. pc[c] \in Dialled
      BY DEF Dial, Connect, HandshakeTLS, Dialled
    <2>2. own[c] \in Conns /\ r \in Requests
      BY <2>1, OwnConn
    <2> QED BY <2>1, <2>2 DEF ClientInv, ClientTypes, PeerInv, Dial, Connect, HandshakeTLS,
                              Dialing, poolVars, wireVars
  <1>1. CASE Dial(c) /\ r.proxy = NoProxy
    <2> DEFINE far == [n EXCEPT !.peer = Reached(r), !.port = Port(r)]
               state == IF r.scheme = "https" THEN "tls" ELSE "write"
    <2>1. /\ conn' = [conn EXCEPT ![own[c]] = far] /\ n.via = NoProxy
          /\ pc' = [pc EXCEPT ![c] = state]
      BY <1>0, <1>1 DEF Dial, Goes, Reached, ClientInv, ClientTypes, PeerInv, Dialled
    <2>2. /\ far \in [pool : Pools \cup {NoPool}, via : Proxies, peer : Peers,
                      port : Ports, secure : BOOLEAN]
          /\ far.pool = n.pool /\ far.peer = Reached(r) /\ far.port = Port(r)
          /\ far.via = n.via /\ far.secure = n.secure
      BY <1>0 DEF Peers, Ports
    <2>3. /\ state \in Dialled \cup {"write"} /\ state # "dial"
          /\ state \in Dialled => ~far.secure
          /\ state = "connect" => r.proxy # NoProxy
          /\ state = "tls" => LeadsTo(far, r) /\ r.scheme = "https"
          /\ state = "write" => LeadsTo(far, r) /\ far.secure = (r.scheme = "https")
      BY <1>0, <1>1, <2>1, <2>2 DEF LeadsTo, Dialled
    <2> HIDE DEF far, state
    <2> QED BY <1>0, <2>1, <2>2, <2>3, DialsOwn
  <1>2. CASE Dial(c) /\ r.proxy # NoProxy
    <2> DEFINE far == [n EXCEPT !.peer = r.proxy]
               state == "connect"
    <2>1. conn' = [conn EXCEPT ![own[c]] = far] /\ pc' = [pc EXCEPT ![c] = state]
      BY <1>0, <1>2 DEF Dial, Goes, ClientInv, ClientTypes
    <2>2. /\ far \in [pool : Pools \cup {NoPool}, via : Proxies, peer : Peers,
                      port : Ports, secure : BOOLEAN]
          /\ far.pool = n.pool /\ far.secure = n.secure
      BY <1>0 DEF Peers
    <2>3. /\ state \in Dialled \cup {"write"} /\ state # "dial"
          /\ state \in Dialled => ~far.secure
          /\ state = "connect" => r.proxy # NoProxy
          /\ state = "tls" => LeadsTo(far, r) /\ r.scheme = "https"
          /\ state = "write" => LeadsTo(far, r) /\ far.secure = (r.scheme = "https")
      BY <1>0, <1>2, <2>2 DEF LeadsTo, Dialled
    <2> HIDE DEF far, state
    <2> QED BY <1>0, <2>1, <2>2, <2>3, DialsOwn
  <1>3. CASE Connect(c)
    <2> DEFINE far == [n EXCEPT !.via = r.proxy, !.peer = Target(r), !.port = Port(r)]
               state == IF r.scheme = "https" THEN "tls" ELSE "write"
    <2>1. /\ conn' = [conn EXCEPT ![own[c]] = far] /\ r.proxy # NoProxy
          /\ pc' = [pc EXCEPT ![c] = state]
      BY <1>0, <1>3 DEF Connect, Goes, ClientInv, ClientTypes, PeerInv, Dialled
    <2>2. /\ far \in [pool : Pools \cup {NoPool}, via : Proxies, peer : Peers,
                      port : Ports, secure : BOOLEAN]
          /\ far.pool = n.pool /\ far.peer = Reached(r) /\ far.port = Port(r)
          /\ far.via = r.proxy /\ far.secure = n.secure
      BY <1>0, <2>1 DEF Peers, Ports, Proxies, Reached
    <2>3. /\ state \in Dialled \cup {"write"} /\ state # "dial"
          /\ state \in Dialled => ~far.secure
          /\ state = "connect" => r.proxy # NoProxy
          /\ state = "tls" => LeadsTo(far, r) /\ r.scheme = "https"
          /\ state = "write" => LeadsTo(far, r) /\ far.secure = (r.scheme = "https")
      BY <1>0, <2>1, <2>2 DEF LeadsTo, Dialled
    <2> HIDE DEF far, state
    <2> QED BY <1>0, <2>1, <2>2, <2>3, DialsOwn
  <1>4. CASE HandshakeTLS(c)
    <2> DEFINE far == [n EXCEPT !.secure = TRUE]
               state == "write"
    <2>1. /\ conn' = [conn EXCEPT ![own[c]] = far] /\ LeadsTo(n, r) /\ r.scheme = "https"
          /\ pc' = [pc EXCEPT ![c] = state]
      BY <1>0, <1>4 DEF HandshakeTLS, Goes, ClientInv, ClientTypes, PeerInv, Dialled
    <2>2. /\ far \in [pool : Pools \cup {NoPool}, via : Proxies, peer : Peers,
                      port : Ports, secure : BOOLEAN]
          /\ far.pool = n.pool /\ far.peer = n.peer /\ far.port = n.port /\ far.via = n.via
          /\ far.secure
      BY <1>0
    <2>3. /\ state \in Dialled \cup {"write"} /\ state # "dial"
          /\ state \in Dialled => ~far.secure
          /\ state = "connect" => r.proxy # NoProxy
          /\ state = "tls" => LeadsTo(far, r) /\ r.scheme = "https"
          /\ state = "write" => LeadsTo(far, r) /\ far.secure = (r.scheme = "https")
      BY <1>0, <2>1, <2>2 DEF LeadsTo, Dialled
    <2> HIDE DEF far, state
    <2> QED BY <1>0, <2>1, <2>2, <2>3, DialsOwn
  <1> QED BY <1>1, <1>2, <1>3, <1>4

(* A connection that is dropped takes everything with it.                  *)
LEMMA DropInv ==
  ASSUME ClientInv, NEW c \in Callers, pc[c] \in Dialled \cup Working, Drop(c)
  PROVE  ClientInv'
  <1> USE ClientAssumption DEF ClientInv
  <1>0. /\ own[c] \in Conns /\ \A d \in Callers \ {c} : own[d] # own[c]
        /\ pc' = [pc EXCEPT ![c] = "start"] /\ own' = [own EXCEPT ![c] = NoConn]
        /\ conn' = [conn EXCEPT ![own[c]] = Closed]
        /\ server' = [server EXCEPT ![own[c]] = Waiting]
        /\ pool' = [pool EXCEPT ![c] = NoPool] /\ written' = [written EXCEPT ![c] = 0]
        /\ req' = [req EXCEPT ![c] = NoRequest] /\ UNCHANGED pools
    BY OwnConn DEF Drop, Goes
  <1>1. /\ Closed.pool = NoPool /\ Waiting \in [chunked : BOOLEAN, need : Nat, spare : Nat]
        /\ Closed \in [pool : Pools \cup {NoPool}, via : Proxies, peer : Peers,
                       port : Ports, secure : BOOLEAN]
    BY DEF Closed, Waiting, Proxies, Peers, Ports
  <1>2. ClientTypes'
    BY <1>0, <1>1 DEF ClientTypes
  <1>3. /\ \A d \in Callers \ {c} : /\ pc'[d] = pc[d] /\ own'[d] = own[d] /\ own'[d] # own[c]
                                    /\ pool'[d] = pool[d] /\ req'[d] = req[d]
                                    /\ written'[d] = written[d]
        /\ \A m \in Conns \ {own[c]} : conn'[m] = conn[m] /\ server'[m] = server[m]
        /\ pc'[c] = "start" /\ own'[c] = NoConn /\ written'[c] = 0
        /\ conn'[own[c]].pool = NoPool /\ server'[own[c]] = Waiting
    BY <1>0, <1>1 DEF ClientTypes
  <1>4. PoolsInv'
    BY <1>0, <1>3 DEF PoolsInv, Dialled, Working
  <1>5. OwnersInv'
    BY <1>0, <1>3 DEF ClientTypes, OwnersInv, Dialled, Working
  <1>6. PeerInv'
    <2>1. \A d \in Callers : pc'[d] \in Dialled =>
            /\ d # c /\ own[d] \in Conns /\ own[d] # own[c]
      BY <1>0, <1>3, OwnConn DEF Dialled
    <2>2. \A m \in Conns \ {own[c]} : \A d \in Callers : own[d] = m => own'[d] = m /\ d # c
      BY <1>3
    <2> QED BY <1>3, <2>1, <2>2 DEF PeerInv, LeadsTo
  <1>7. FramingInv'
    <2>1. \A d \in Callers \ {c} : pc[d] \in Dialled \cup Working => own[d] \in Conns
      BY OwnConn
    <2> QED BY <1>0, <1>3, <2>1 DEF FramingInv, Dialled, Working
  <1> QED BY <1>2, <1>4, <1>5, <1>6, <1>7

(* writeRequest: the header, the body and its end. Only the caller's own   *)
(* place, its count and its server change.                                 *)
LEMMA WritesOwn ==
  ASSUME ClientInv, NEW c \in Callers, pc[c] \in Working,
         NEW state \in Working, pc' = [pc EXCEPT ![c] = state],
         NEW count \in Nat, written' = [written EXCEPT ![c] = count],
         NEW s \in [chunked : BOOLEAN, need : Nat, spare : Nat],
         server' = [server EXCEPT ![own[c]] = s],
         UNCHANGED <<req, pools, pool, own, conn>>,
         state = "write" => count = 0 /\ s = Waiting,
         state = "body" => Owes(s, req[c], count),
         state = "answer" => ~s.chunked /\ s.spare = 0
  PROVE  ClientInv'
  <1> USE ClientAssumption DEF ClientInv
  <1>0. own[c] \in Conns /\ \A d \in Callers \ {c} : own[d] # own[c]
    BY OwnConn
  <1>1. /\ \A d \in Callers \ {c} : pc'[d] = pc[d] /\ written'[d] = written[d]
        /\ \A m \in Conns \ {own[c]} : server'[m] = server[m]
        /\ pc'[c] = state /\ written'[c] = count /\ server'[own[c]] = s
    BY <1>0 DEF ClientTypes
  <1>2. ClientTypes'
    BY DEF ClientTypes
  <1>3. \A d \in Callers : /\ pc'[d] \in Working <=> pc[d] \in Working
                           /\ pc'[d] # "start" <=> pc[d] # "start"
                           /\ pc'[d] \in Dialled => pc'[d] = pc[d]
                           /\ pc'[d] \in {"get"} \cup Dialled \cup Working
                                <=> pc[d] \in {"get"} \cup Dialled \cup Working
                           /\ pc'[d] \in Dialled \cup Working <=> pc[d] \in Dialled \cup Working
    BY <1>1 DEF Working, Dialled
  <1>4. PoolsInv'
    BY <1>3 DEF PoolsInv
  <1>5. OwnersInv'
    BY <1>3 DEF OwnersInv
  <1>6. PeerInv'
    BY <1>3 DEF PeerInv, LeadsTo
  <1>7. FramingInv'
    <2>1. \A m \in Conns : (\A d \in Callers : own'[d] # m) => server'[m] = Waiting
      BY <1>0, <1>1 DEF FramingInv
    <2>2. ASSUME NEW d \in Callers
          PROVE  /\ pc'[d] \notin {"body", "answer"} => written'[d] = 0
                 /\ pc'[d] \in Dialled \cup {"write"} => server'[own'[d]] = Waiting
                 /\ pc'[d] = "body" => Owes(server'[own'[d]], req'[d], written'[d])
                 /\ pc'[d] = "answer" => ~server'[own'[d]].chunked /\ server'[own'[d]].spare = 0
      <3>1. CASE d = c
        BY <1>1, <3>1 DEF Working, Dialled
      <3>2. CASE d # c
        <4>1. pc'[d] = pc[d] /\ written'[d] = written[d]
          BY <1>1, <3>2
        <4>2. pc[d] \in Dialled \cup Working => server'[own[d]] = server[own[d]]
          BY <1>0, <1>1, <3>2, OwnConn
        <4> QED BY <4>1, <4>2 DEF FramingInv, Working, Dialled
      <3> QED BY <3>1, <3>2
    <2> QED BY <2>1, <2>2 DEF FramingInv, Owes
  <1> QED BY <1>2, <1>4, <1>5, <1>6, <1>7

LEMMA WriteInv ==
  ASSUME ClientInv, NEW c \in Callers,
         WriteHeader(c) \/ (\E l \in 1..MaxBytes : WriteBody(c, l)) \/ EndBody(c)
  PROVE  ClientInv'
  <1> DEFINE r == req[c]
             old == server[own[c]]
  <1>0. pc[c] \in Working /\ own[c] \in Conns /\ r \in Requests
    <2>1. pc[c] \in Working
      BY DEF WriteHeader, WriteBody, EndBody, Working
    <2> QED BY <2>1, OwnConn
  <1>1. /\ old \in [chunked : BOOLEAN, need : Nat, spare : Nat] /\ written[c] \in Nat
        /\ written = [written EXCEPT ![c] = written[c]] /\ pc = [pc EXCEPT ![c] = pc[c]]
        /\ server = [server EXCEPT ![own[c]] = old]
    BY <1>0 DEF ClientInv, ClientTypes
  <1>2. /\ ContentLength(r) \in Int /\ r.bytes \in Nat
        /\ Framing(r).chunked = Chunked(r) /\ Chunked(r) \in BOOLEAN
        /\ Framing(r).need = IF ContentLength(r) > 0 THEN ContentLength(r) ELSE 0
        /\ Framing(r).need \in Nat
        /\ Chunked(r) => ContentLength(r) = -1 /\ HasBody(r)
    BY <1>0, FramingType DEF Chunked, NoLength
  <1>a. CASE WriteHeader(c)
    <2> DEFINE s == [old EXCEPT !.chunked = Framing(r).chunked, !.need = Framing(r).need]
               state == IF HasBody(r) THEN "body" ELSE "answer"
    <2>1. /\ server' = [server EXCEPT ![own[c]] = s] /\ pc' = [pc EXCEPT ![c] = state]
          /\ UNCHANGED <<req, pools, pool, own, conn, written>>
          /\ old = Waiting /\ written[c] = 0
      BY <1>0, <1>a DEF WriteHeader, Goes, poolVars, ClientInv, ClientTypes, FramingInv, Dialled
    <2>2. /\ s \in [chunked : BOOLEAN, need : Nat, spare : Nat] /\ state \in Working
          /\ s.chunked = Chunked(r) /\ s.need = Framing(r).need /\ s.spare = 0
      <3>1. old.spare = 0
        BY <2>1 DEF Waiting
      <3>2. s.chunked = Framing(r).chunked /\ s.need = Framing(r).need /\ s.spare = old.spare
        BY <1>1
      <3>3. s \in [chunked : BOOLEAN, need : Nat, spare : Nat]
        BY <1>1, <1>2
      <3>4. state \in Working
        BY DEF Working
      <3> QED BY <1>2, <3>1, <3>2, <3>3, <3>4
    <2>3. state = "body" => Owes(s, r, written[c])
      BY <1>2, <2>1, <2>2 DEF Owes
    <2>4. state = "answer" => ~s.chunked /\ s.spare = 0
      BY <1>2, <2>2
    <2>5. state # "write"
      OBVIOUS
    <2> HIDE DEF s, state
    <2> QED BY <1>0, <1>1, <2>1, <2>2, <2>3, <2>4, <2>5, WritesOwn
  <1>b. ASSUME NEW l \in 1..MaxBytes, WriteBody(c, l)
        PROVE  ClientInv'
    <2> DEFINE s == IF old.chunked THEN old
                    ELSE IF l <= old.need THEN [old EXCEPT !.need = @ - l]
                    ELSE [old EXCEPT !.need = 0, !.spare = @ + l - old.need]
               count == written[c] + l
    <2>1. /\ server' = [server EXCEPT ![own[c]] = s] /\ written' = [written EXCEPT ![c] = count]
          /\ pc[c] = "body" /\ pc' = pc /\ UNCHANGED <<req, pools, pool, own, conn>>
          /\ Owes(old, r, written[c])
      BY <1>0, <1>1, <1>b DEF WriteBody, poolVars, ClientInv, ClientTypes, FramingInv
    <2>2. l \in Nat /\ count \in Nat
      BY <1>1, ClientAssumption
    <2>3. s \in [chunked : BOOLEAN, need : Nat, spare : Nat] /\ Owes(s, r, count)
      <3>1. CASE Chunked(r)
        BY <1>1, <2>1, <3>1 DEF Owes
      <3>2. CASE ~Chunked(r) /\ l <= old.need
        <4>1. /\ s \in [chunked : BOOLEAN, need : Nat, spare : Nat]
              /\ ~s.chunked /\ s.need = old.need - l /\ s.spare = old.spare
          BY <1>1, <2>1, <2>2, <3>2 DEF Owes
        <4> QED BY <1>1, <1>2, <2>1, <2>2, <3>2, <4>1 DEF Owes
      <3>3. CASE ~Chunked(r) /\ ~(l <= old.need)
        <4>1. /\ s \in [chunked : BOOLEAN, need : Nat, spare : Nat]
              /\ ~s.chunked /\ s.need = 0 /\ s.spare = old.spare + l - old.need
          <5>1. s = [old EXCEPT !.need = 0, !.spare = old.spare + l - old.need]
            BY <1>1, <2>1, <3>3 DEF Owes
          <5>2. ~old.chunked /\ old.spare + l - old.need \in Nat
            BY <1>1, <2>1, <2>2, <3>3 DEF Owes
          <5> HIDE DEF s
          <5> QED BY <1>1, <5>1, <5>2
        <4> QED BY <1>1, <1>2, <2>1, <2>2, <3>3, <4>1 DEF Owes
      <3> QED BY <3>1, <3>2, <3>3
    <2> HIDE DEF s, count
    <2> QED BY <1>0, <1>1, <2>1, <2>2, <2>3, WritesOwn
  <1>c. CASE EndBody(c)
    <2>1. CASE Chunked(r) \/ written[c] = ContentLength(r)
      <3> DEFINE s == [old EXCEPT !.chunked = FALSE]
                 state == "answer"
      <3>1. /\ server' = [server EXCEPT ![own[c]] = s] /\ pc' = [pc EXCEPT ![c] = state]
            /\ UNCHANGED <<req, pools, pool, own, conn, written>>
            /\ Owes(old, r, written[c])
        BY <1>0, <1>c, <2>1 DEF EndBody, Complete, Goes, poolVars, ClientInv, ClientTypes, FramingInv
      <3>2. s \in [chunked : BOOLEAN, need : Nat, spare : Nat] /\ ~s.chunked /\ s.spare = 0
        <4>1. old.spare = 0
          BY <1>1, <1>2, <2>1, <3>1 DEF Owes
        <4> QED BY <1>1, <4>1
      <3>3. state \in Working /\ state # "write" /\ state # "body"
        BY DEF Working
      <3> HIDE DEF s, state
      <3> QED BY <1>0, <1>1, <3>1, <3>2, <3>3, WritesOwn
    <2>2. CASE ~(Chunked(r) \/ written[c] = ContentLength(r))
      BY <1>0, <1>c, <2>2, DropInv DEF EndBody
    <2> QED BY <2>1, <2>2
  <1> QED BY <1>a, <1>b, <1>c

(* The server has got the request and nothing else.                        *)
LEMMA AnswerInv ==
  ASSUME ClientInv, NEW c \in Callers, Answer(c)
  PROVE  ClientInv'
  <1> USE ClientAssumption DEF ClientInv
  <1>0. /\ pc[c] = "answer" /\ pc' = [pc EXCEPT ![c] = "start"]
        /\ own' = [own EXCEPT ![c] = NoConn] /\ pool' = [pool EXCEPT ![c] = NoPool]
        /\ written' = [written EXCEPT ![c] = 0] /\ req' = [req EXCEPT ![c] = NoRequest]
        /\ UNCHANGED <<pools, conn, server>>
        /\ ~server[own[c]].chunked /\ server[own[c]].need = 0 /\ server[own[c]].spare = 0
    BY DEF Answer, Goes, FramingInv
  <1>1. own[c] \in Conns /\ \A d \in Callers \ {c} : own[d] # own[c]
    BY <1>0, OwnConn DEF Working
  <1>2. server[own[c]] = Waiting
    BY <1>0, <1>1 DEF ClientTypes, Waiting
  <1>3. ClientTypes'
    BY <1>0 DEF ClientTypes
  <1>4. /\ \A d \in Callers \ {c} : /\ pc'[d] = pc[d] /\ own'[d] = own[d]
                                    /\ pool'[d] = pool[d] /\ req'[d] = req[d]
                                    /\ written'[d] = written[d]
        /\ pc'[c] = "start" /\ own'[c] = NoConn /\ written'[c] = 0
    BY <1>0 DEF ClientTypes
  <1>5. PoolsInv'
    BY <1>0, <1>4 DEF PoolsInv, Dialled, Working
  <1>6. OwnersInv'
    BY <1>0, <1>4 DEF OwnersInv, Dialled, Working
  <1>7. PeerInv'
    <2>1. \A d \in Callers : pc'[d] \in Dialled => d # c
      BY <1>4 DEF Dialled
    <2>2. ASSUME NEW m \in Conns, \A d \in Callers : own'[d] = m => pc'[d] \in Working
          PROVE  \A d \in Callers : own[d] = m => pc[d] \in Working
      BY <1>0, <1>4, <2>2 DEF Working
    <2> QED BY <1>0, <1>4, <2>1, <2>2 DEF PeerInv, LeadsTo
  <1>8. FramingInv'
    BY <1>0, <1>1, <1>2, <1>4 DEF FramingInv, Dialled
  <1> QED BY <1>3, <1>5, <1>6, <1>7, <1>8

-----------------------------------------------------------------------------
(* No step breaks the invariant.                                           *)
LEMMA ClientNext == ASSUME ClientInv, [Next]_vars PROVE ClientInv'
  <1>1. CASE UNCHANGED vars
    <2> USE <1>1 DEF ClientInv, vars, poolVars, wireVars
    <2>1. ClientTypes' /\ PoolsInv' /\ OwnersInv'
      BY DEF ClientTypes, PoolsInv, OwnersInv
    <2>2. PeerInv' /\ FramingInv'
      BY DEF PeerInv, LeadsTo, FramingInv, Owes
    <2> QED BY <2>1, <2>2
  <1>2. ASSUME NEW c \in Callers, Step(c) PROVE ClientInv'
    <2>1. DialFails(c) \/ WriteFails(c) \/ ServerCloses(c)
            => Drop(c) /\ pc[c] \in Dialled \cup Working
      BY DEF DialFails, WriteFails, ServerCloses, Dialled, Working
    <2> QED BY <1>2, <2>1, PrepareInv, LookupInv, CreateInv, LeaseInv, OpenInv, DialInv, DropInv,
               WriteInv, AnswerInv DEF Step
  <1> QED BY <1>1, <1>2 DEF Next

(* It holds before the first.                                              *)
LEMMA ClientInit == Init => ClientInv
  <1> SUFFICES ASSUME Init PROVE ClientInv
    OBVIOUS
  <1> USE ClientAssumption DEF Init
  <1>1. /\ Closed.pool = NoPool /\ Waiting \in [chunked : BOOLEAN, need : Nat, spare : Nat]
        /\ Closed \in [pool : Pools \cup {NoPool}, via : Proxies, peer : Peers,
                       port : Ports, secure : BOOLEAN]
    BY DEF Closed, Waiting, Proxies, Peers, Ports
  <1>2. ClientTypes
    BY <1>1 DEF ClientTypes
  <1>3. PoolsInv /\ OwnersInv
    BY <1>1 DEF PoolsInv, OwnersInv, Dialled, Working
  <1>4. PeerInv /\ FramingInv
    BY <1>1 DEF PeerInv, FramingInv, Dialled
  <1> QED BY <1>2, <1>3, <1>4 DEF ClientInv

(* Pools, owners, peers and framing of every client are in order in every  *)
(* state.                                                                  *)
THEOREM ClientSafe == Spec => []ClientInv
  BY ClientInit, ClientNext, PTL DEF Spec

(* Merge gives the dialer's entry for a disputed host, and for any other   *)
(* the one that applies.                                                   *)
LEMMA ReachedPeer ==
  ASSUME NEW r
  PROVE  Reached(r) = IF Disputed(r) THEN StaticHosts[r.host] ELSE Peer(r)
  <1>3. CASE r.proxy = NoProxy \/ ~ResolveLocally
    BY <1>3 DEF Reached, Peer, Target, Disputed
  <1>4. CASE r.proxy # NoProxy /\ ResolveLocally
    <2>1. /\ Reached(r) = Resolve(Over(StaticHosts, ProxyHosts), r.host)
          /\ Peer(r) = Resolve(Over(ProxyHosts, StaticHosts), r.host)
      BY <1>4 DEF Reached, Peer, Target, Merge
    <2> QED BY <1>4, <2>1 DEF Resolve, Over, Disputed
  <1> QED BY <1>3, <1>4

(* A request is written to whom it is for, through the proxy it is for and *)
(* under TLS if it asks for it, for any requests and tables of hosts; but  *)
(* for the two cases in which the code breaks it: a disputed entry over a  *)
(* proxy, and requests of both schemes to one port.                        *)
THEOREM ClientRightPeer == Spec => []RightPeer
  <1>1. ASSUME ClientInv PROVE RightPeer
    <2> SUFFICES ASSUME NEW c \in Callers, pc[c] \in Working
                 PROVE  /\ LeadsTo(conn[own[c]], req[c])
                        /\ \/ conn[own[c]].secure = (req[c].scheme = "https")
                           \/ BothSchemes(req[c])
      BY ReachedPeer DEF RightPeer, LeadsTo, Working
    <2>1. /\ own[c] \in Conns /\ req[c] \in Requests /\ conn[own[c]].pool # NoPool
          /\ conn[own[c]].pool.key = Key(req[c])
          /\ \A d \in Callers : own[d] = own[c] => pc[d] \in Working
      BY <1>1, OwnConn
    <2>2. PICK q \in Requests : /\ Key(q) = Key(req[c]) /\ LeadsTo(conn[own[c]], q)
                                /\ conn[own[c]].secure = (q.scheme = "https")
      BY <1>1, <2>1 DEF ClientInv, PeerInv
    <2>3. q.host = req[c].host /\ Port(q) = Port(req[c]) /\ q.proxy = req[c].proxy
      BY <2>2 DEF Key
    <2> QED BY <2>1, <2>2, <2>3, KeyParts DEF LeadsTo, BothSchemes
  <1> QED BY <1>1, ClientSafe, PTL

(* A connection that is given back is one whose server has got the end of  *)
(* its last request and nothing beyond it, whatever lengths the requests   *)
(* declare, claim and have.                                                *)
THEOREM ClientRequestAligned == Spec => []RequestAligned
  <1>1. ClientInv => RequestAligned
    BY DEF ClientInv, FramingInv, RequestAligned
  <1> QED BY <1>1, ClientSafe, PTL

-----------------------------------------------------------------------------
(* The connections of one key, and who has each.                           *)
OpenOf(k) == {n \in Conns : conn[n].pool # NoPool /\ conn[n].pool.key = k}
LesseesOf(k) == [n \in Conns |-> {c \in Callers : own[c] = n /\ conn[n].pool.key = k}]

(* Those who have a connection have it alone, also for the lease.          *)
LEMMA LeasedAlone ==
  ASSUME ClientInv, NEW k \in Keys, NEW c \in Callers, pc[c] \in Dialled \cup Working
  PROVE  /\ own[c] \in Conns /\ conn[own[c]].pool = pool[c]
         /\ pool[c].key = k => own[c] \in OpenOf(k) /\ LesseesOf(k)[own[c]] = {c}
         /\ pool[c].key # k => own[c] \notin OpenOf(k) /\ LesseesOf(k)[own[c]] = {}
  <1>1. /\ own[c] \in Conns /\ conn[own[c]].pool = pool[c] /\ conn[own[c]].pool # NoPool
        /\ \A d \in Callers \ {c} : own[d] # own[c]
    BY OwnConn
  <1> QED BY <1>1 DEF OpenOf, LesseesOf

(* Who has none leases none.                                               *)
LEMMA LeasesNone ==
  ASSUME NEW k \in Keys, NEW c \in Callers, own[c] = NoConn
  PROVE  PoolOf(k)!HasNone(c)
  BY ClientAssumption DEF PoolOf!HasNone, LesseesOf

(* A step that moves no connection is none of the lease.                   *)
LEMMA LeaseStays ==
  ASSUME NEW k \in Keys, own' = own, \A n \in Conns : conn'[n].pool = conn[n].pool
  PROVE  UNCHANGED <<OpenOf(k), LesseesOf(k)>>
  BY DEF OpenOf, LesseesOf

(* A connection that changes hands: Lease, Open, Answer and Drop, each     *)
(* about one connection n.                                                 *)
LEMMA LeaseMoves ==
  ASSUME NEW k \in Keys, NEW n \in Conns, NEW c \in Callers, NEW place \in Conns \cup {NoConn},
         own \in [Callers -> Conns \cup {NoConn}], own' = [own EXCEPT ![c] = place],
         own[c] \in {n, NoConn}, place \in {n, NoConn},
         \A m \in Conns \ {n} : conn'[m] = conn[m]
  PROVE  /\ OpenOf(k)' = (OpenOf(k) \ {n})
                           \cup (IF conn'[n].pool # NoPool /\ conn'[n].pool.key = k
                                 THEN {n} ELSE {})
         /\ LesseesOf(k)' = [LesseesOf(k) EXCEPT
                ![n] = {d \in Callers : own'[d] = n /\ conn'[n].pool.key = k}]
  <1> DEFINE who == {d \in Callers : own'[d] = n /\ conn'[n].pool.key = k}
  <1>1. ASSUME NEW m \in Conns, m # n
        PROVE  {d \in Callers : own'[d] = m /\ conn'[m].pool.key = k}
                 = {d \in Callers : own[d] = m /\ conn[m].pool.key = k}
    <2>1. conn'[m] = conn[m] /\ m # NoConn
      BY <1>1, ClientAssumption
    <2>2. \A d \in Callers : own'[d] = m <=> own[d] = m
      BY <1>1, <2>1
    <2> QED BY <2>1, <2>2
  <1>2. \A m \in Conns : LesseesOf(k)'[m] = IF m = n THEN who ELSE LesseesOf(k)[m]
    BY <1>1 DEF LesseesOf
  <1>3. LesseesOf(k)' = [LesseesOf(k) EXCEPT ![n] = who]
    <2> HIDE DEF who
    <2>1. /\ LesseesOf(k) = [m \in Conns |-> LesseesOf(k)[m]]
          /\ LesseesOf(k)' = [m \in Conns |-> LesseesOf(k)'[m]]
      BY DEF LesseesOf
    <2>2. LesseesOf(k)' = [m \in Conns |-> IF m = n THEN who ELSE LesseesOf(k)[m]]
      BY <1>2, <2>1
    <2> QED BY <2>1, <2>2
  <1>4. OpenOf(k)' = (OpenOf(k) \ {n})
                       \cup (IF conn'[n].pool # NoPool /\ conn'[n].pool.key = k
                             THEN {n} ELSE {})
    BY DEF OpenOf
  <1> QED BY <1>3, <1>4

(* One that leaves everybody where they are.                               *)
LEMMA LeaseSame ==
  ASSUME NEW k \in Keys, NEW n \in Conns,
         LesseesOf(k)' = [LesseesOf(k) EXCEPT ![n] = LesseesOf(k)[n]]
  PROVE  UNCHANGED LesseesOf(k)
  <1>1. LesseesOf(k) = [m \in Conns |-> LesseesOf(k)[m]]
    BY DEF LesseesOf
  <1> HIDE DEF LesseesOf
  <1> QED BY <1>1

LEMMA LeaseLeases ==
  ASSUME ClientInv, NEW k \in Keys, NEW c \in Callers, NEW n \in Conns, Lease(c, n)
  PROVE  PoolOf(k)!Next \/ UNCHANGED <<OpenOf(k), LesseesOf(k)>>
  <1>0. /\ own[c] = NoConn /\ conn[n].pool = pool[c] /\ pool[c] # NoPool
        /\ \A d \in Callers : own[d] # n
        /\ own' = [own EXCEPT ![c] = n] /\ conn' = conn
        /\ own \in [Callers -> Conns \cup {NoConn}]
    BY DEF Lease, ClientInv, ClientTypes, PoolsInv, OwnersInv, Dialled, Working
  <1>1. /\ OpenOf(k)' = OpenOf(k)
        /\ LesseesOf(k)' = [LesseesOf(k) EXCEPT
               ![n] = {d \in Callers : own'[d] = n /\ conn[n].pool.key = k}]
        /\ LesseesOf(k)[n] = {}
    <2>1. UNCHANGED OpenOf(k) /\ LesseesOf(k)[n] = {}
      BY <1>0 DEF OpenOf, LesseesOf
    <2>2. own[c] \in {n, NoConn} /\ n \in Conns \cup {NoConn} /\ n \in {n, NoConn}
      BY <1>0
    <2>3. LesseesOf(k)' = [LesseesOf(k) EXCEPT
              ![n] = {d \in Callers : own'[d] = n /\ conn'[n].pool.key = k}]
      BY <1>0, <2>2, LeaseMoves
    <2> QED BY <1>0, <2>1, <2>3
  <1>2. {d \in Callers : own'[d] = n} = {c}
    BY <1>0
  <1>3. CASE pool[c].key = k
    <2>1. LesseesOf(k)' = [LesseesOf(k) EXCEPT ![n] = {c}] /\ n \in OpenOf(k)
      BY <1>0, <1>1, <1>2, <1>3 DEF OpenOf
    <2>2. PoolOf(k)!Lease(c, n)
      BY <1>0, <1>1, <2>1, LeasesNone DEF PoolOf!Lease, OpenOf, LesseesOf
    <2> QED BY <2>2 DEF PoolOf!Next
  <1>4. CASE pool[c].key # k
    <2>1. {d \in Callers : own'[d] = n /\ conn[n].pool.key = k} = LesseesOf(k)[n]
      BY <1>0, <1>1, <1>4
    <2> QED BY <1>1, <2>1, LeaseSame
  <1> QED BY <1>3, <1>4

(* One more connection, while there is room for it.                        *)
LEMMA OpenStep ==
  ASSUME NEW k \in Keys, NEW c \in Callers, NEW n \in Conns,
         n \notin OpenOf(k), Cardinality(OpenOf(k)) < MaxConns, PoolOf(k)!HasNone(c),
         OpenOf(k)' = OpenOf(k) \cup {n},
         LesseesOf(k)' = [LesseesOf(k) EXCEPT ![n] = {c}]
  PROVE  PoolOf(k)!Open(c, n)
  <1>1. PoolOf(k)!Cardinality(OpenOf(k)) = Cardinality(OpenOf(k))
    BY DEF PoolOf!Cardinality, Cardinality
  <1> QED BY <1>1 DEF PoolOf!Open, OpenOf, LesseesOf

LEMMA OpenLeases ==
  ASSUME ClientInv, NEW k \in Keys, NEW c \in Callers, NEW n \in Conns, Open(c, n)
  PROVE  PoolOf(k)!Next \/ UNCHANGED <<OpenOf(k), LesseesOf(k)>>
  <1>0. /\ own[c] = NoConn /\ pool[c] # NoPool /\ pool[c] = pools[Key(req[c])]
        /\ pool[c].key = Key(req[c]) /\ conn[n] = Closed
        /\ Cardinality({m \in Conns : conn[m].pool = pool[c]}) < MaxConns
        /\ conn' = [conn EXCEPT ![n].pool = pool[c]]
        /\ own' = [own EXCEPT ![c] = n]
        /\ own \in [Callers -> Conns \cup {NoConn}]
    <2>1. pc[c] = "get" /\ own \in [Callers -> Conns \cup {NoConn}]
      BY DEF Open, ClientInv, ClientTypes
    <2>2. own[c] = NoConn
      BY <2>1 DEF ClientInv, OwnersInv, Dialled, Working
    <2>3. req[c] \in Requests /\ pool[c] # NoPool /\ pool[c] = pools[Key(req[c])]
      BY <2>1 DEF ClientInv, PoolsInv
    <2>4. pool[c].key = Key(req[c])
      BY <2>3 DEF ClientInv, PoolsInv, Keys
    <2> QED BY <2>1, <2>2, <2>3, <2>4 DEF Open
  <1>1. /\ conn[n].pool = NoPool /\ conn'[n].pool = pool[c]
        /\ \A m \in Conns \ {n} : conn'[m] = conn[m]
        /\ \A d \in Callers : own[d] # n
    <2>1. Closed.pool = NoPool
      BY DEF Closed
    <2>2. conn[n].pool = NoPool
      BY <1>0, <2>1
    <2>3. ASSUME NEW d \in Callers, own[d] = n PROVE FALSE
      BY <2>2, <2>3, ClientAssumption DEF ClientInv, OwnersInv, PoolsInv
    <2> QED BY <1>0, <2>2, <2>3 DEF ClientInv, ClientTypes
  <1>2. /\ OpenOf(k)' = (OpenOf(k) \ {n}) \cup (IF pool[c].key = k THEN {n} ELSE {})
        /\ LesseesOf(k)' = [LesseesOf(k) EXCEPT
               ![n] = {d \in Callers : own'[d] = n /\ pool[c].key = k}]
        /\ LesseesOf(k)[n] = {} /\ n \notin OpenOf(k)
    <2>1. LesseesOf(k)[n] = {} /\ n \notin OpenOf(k)
      BY <1>1 DEF OpenOf, LesseesOf
    <2>2. own[c] \in {n, NoConn} /\ n \in Conns \cup {NoConn} /\ n \in {n, NoConn}
      BY <1>0
    <2>3. /\ OpenOf(k)' = (OpenOf(k) \ {n})
                            \cup (IF conn'[n].pool # NoPool /\ conn'[n].pool.key = k
                                  THEN {n} ELSE {})
          /\ LesseesOf(k)' = [LesseesOf(k) EXCEPT
                 ![n] = {d \in Callers : own'[d] = n /\ conn'[n].pool.key = k}]
      BY <1>0, <1>1, <2>2, LeaseMoves
    <2> QED BY <1>0, <1>1, <2>1, <2>3
  <1>3. {d \in Callers : own'[d] = n} = {c}
    BY <1>0, <1>1
  <1>4. CASE pool[c].key = k
    <2>1. /\ LesseesOf(k)' = [LesseesOf(k) EXCEPT ![n] = {c}]
          /\ OpenOf(k)' = OpenOf(k) \cup {n}
      BY <1>2, <1>3, <1>4
    <2>2. {m \in Conns : conn[m].pool = pool[c]} = OpenOf(k)
      BY <1>0, <1>4 DEF OpenOf, ClientInv, PoolsInv
    <2>3. PoolOf(k)!Open(c, n)
      BY <1>0, <1>2, <2>1, <2>2, LeasesNone, OpenStep
    <2> QED BY <2>3 DEF PoolOf!Next
  <1>5. CASE pool[c].key # k
    <2>1. {d \in Callers : own'[d] = n /\ pool[c].key = k} = LesseesOf(k)[n]
      BY <1>2, <1>5
    <2> QED BY <1>2, <1>5, <2>1, LeaseSame
  <1> QED BY <1>4, <1>5

(* Answer gives a connection back, Drop shuts it.                          *)
LEMMA EndLeases ==
  ASSUME ClientInv, NEW k \in Keys, NEW c \in Callers, pc[c] \in Dialled \cup Working,
         Answer(c) \/ Drop(c)
  PROVE  PoolOf(k)!Next \/ UNCHANGED <<OpenOf(k), LesseesOf(k)>>
  <1>n. PICK n \in Conns : n = own[c]
    BY OwnConn
  <1>0. /\ conn[n].pool = pool[c] /\ pool[c] # NoPool
        /\ \A d \in Callers \ {c} : own[d] # n
        /\ pool[c].key = k => n \in OpenOf(k) /\ LesseesOf(k)[n] = {c}
        /\ pool[c].key # k => n \notin OpenOf(k) /\ LesseesOf(k)[n] = {}
    BY <1>n, OwnConn, LeasedAlone
  <1>1. /\ own' = [own EXCEPT ![c] = NoConn] /\ own \in [Callers -> Conns \cup {NoConn}]
        /\ conn' = conn \/ (conn'[n].pool = NoPool /\ \A m \in Conns \ {n} : conn'[m] = conn[m])
    <2>1. Closed.pool = NoPool
      BY DEF Closed
    <2> QED BY <1>n, <2>1 DEF Answer, Drop, ClientInv, ClientTypes
  <1>2. {d \in Callers : own'[d] = n /\ conn'[n].pool.key = k} = {}
    BY <1>0, <1>1, ClientAssumption
  <1>3. /\ OpenOf(k)' = (OpenOf(k) \ {n}) \cup (IF conn'[n].pool # NoPool /\ conn'[n].pool.key = k
                                              THEN {n} ELSE {})
        /\ LesseesOf(k)' = [LesseesOf(k) EXCEPT ![n] = {}]
    <2>1. own[c] \in {n, NoConn} /\ NoConn \in Conns \cup {NoConn} /\ NoConn \in {n, NoConn}
      BY <1>n
    <2>2. \A m \in Conns \ {n} : conn'[m] = conn[m]
      BY <1>1
    <2>3. /\ OpenOf(k)' = (OpenOf(k) \ {n})
                            \cup (IF conn'[n].pool # NoPool /\ conn'[n].pool.key = k
                                  THEN {n} ELSE {})
          /\ LesseesOf(k)' = [LesseesOf(k) EXCEPT
                 ![n] = {d \in Callers : own'[d] = n /\ conn'[n].pool.key = k}]
      BY <1>0, <1>1, <2>1, <2>2, LeaseMoves
    <2> QED BY <1>2, <2>3
  <1>4. CASE pool[c].key # k
    <2>1. LesseesOf(k)' = [LesseesOf(k) EXCEPT ![n] = LesseesOf(k)[n]]
      BY <1>0, <1>3, <1>4
    <2>2. OpenOf(k)' = OpenOf(k)
      BY <1>0, <1>1, <1>3, <1>4
    <2> QED BY <2>1, <2>2, LeaseSame
  <1>5. CASE pool[c].key = k /\ conn' = conn
    <2>1. PoolOf(k)!GiveBack(c, n)
      BY <1>0, <1>3, <1>5 DEF PoolOf!GiveBack, OpenOf, LesseesOf
    <2> QED BY <1>0, <2>1 DEF PoolOf!Next
  <1>6. CASE pool[c].key = k /\ conn'[n].pool = NoPool
    <2>1. PoolOf(k)!Shut(c, n)
      BY <1>0, <1>3, <1>6 DEF PoolOf!Shut, OpenOf, LesseesOf
    <2> QED BY <1>0, <2>1 DEF PoolOf!Next
  <1> QED BY <1>1, <1>4, <1>5, <1>6

(* Every step is one of the lease of each key, or none.                    *)
LEMMA NextLeases ==
  ASSUME ClientInv, [Next]_vars, NEW k \in Keys
  PROVE  PoolOf(k)!Next \/ UNCHANGED <<OpenOf(k), LesseesOf(k)>>
  <1>1. CASE UNCHANGED vars
    BY <1>1, LeaseStays DEF vars
  <1>2. ASSUME NEW c \in Callers, Step(c)
        PROVE  PoolOf(k)!Next \/ UNCHANGED <<OpenOf(k), LesseesOf(k)>>
    <2>1. CASE (\E r \in Requests : Prepare(c, r)) \/ Lookup(c) \/ Create(c) \/ WriteHeader(c)
               \/ (\E l \in 1..MaxBytes : WriteBody(c, l)) \/ (EndBody(c) /\ ~Drop(c))
      <3>1. own' = own /\ conn' = conn
        BY <2>1 DEF Prepare, Lookup, Create, CreatesPool, WriteHeader, WriteBody, EndBody, Complete
      <3> QED BY <3>1, LeaseStays
    <2>2. CASE Dial(c) \/ Connect(c) \/ HandshakeTLS(c)
      <3>1. own' = own /\ \A n \in Conns : conn'[n].pool = conn[n].pool
        BY <2>2 DEF Dial, Connect, HandshakeTLS, Dialing, ClientInv, ClientTypes
      <3> QED BY <3>1, LeaseStays
    <2>3. CASE \E n \in Conns : Lease(c, n) \/ Open(c, n)
      BY <2>3, LeaseLeases, OpenLeases
    <2>4. CASE \/ DialFails(c) \/ WriteFails(c) \/ ServerCloses(c) \/ Answer(c)
               \/ (EndBody(c) /\ Drop(c))
      <3>1. pc[c] \in Dialled \cup Working /\ (Answer(c) \/ Drop(c))
        BY <2>4 DEF DialFails, WriteFails, ServerCloses, Answer, EndBody, Dialled, Working
      <3> QED BY <3>1, EndLeases
    <2> QED BY <1>2, <2>1, <2>2, <2>3, <2>4 DEF Step
  <1> QED BY <1>1, <1>2 DEF Next

(* The connections of one host, port and proxy are leased as those of one  *)
(* pool of MaxConns, although each caller that misses makes a pool.        *)
THEOREM ClientLeasePerKey == Spec => LeasePerKey
  <1>1. ASSUME ClientInv, [Next]_vars
        PROVE  \A k \in DOMAIN pools : [PoolOf(k)!Next]_(PoolOf(k)!leaseVars)
    <2>1. DOMAIN pools = Keys
      BY <1>1 DEF ClientInv, ClientTypes
    <2> QED BY <1>1, <2>1, NextLeases DEF PoolOf!leaseVars, OpenOf, LesseesOf
  <1> QED BY <1>1, ClientSafe, PTL DEF Spec, LeasePerKey

(* In full: from the first state on, the connections of each key are those *)
(* of a pool that leases as ConnLease says, with MaxConns as its limit.    *)
THEOREM ClientImplementsLease == ASSUME NEW k \in Keys PROVE Spec => PoolOf(k)!Spec
  <1>1. Init => PoolOf(k)!Init
    <2> SUFFICES ASSUME Init PROVE PoolOf(k)!Init
      OBVIOUS
    <2>1. Closed.pool = NoPool
      BY DEF Closed
    <2> QED BY <2>1, ClientAssumption DEF Init, PoolOf!Init
  <1>2. ASSUME ClientInv, [Next]_vars
        PROVE  [PoolOf(k)!Next]_(PoolOf(k)!leaseVars)
    BY <1>2, NextLeases DEF PoolOf!leaseVars, OpenOf, LesseesOf
  <1> QED BY <1>1, <1>2, ClientSafe, PTL DEF Spec, PoolOf!Spec
=============================================================================
