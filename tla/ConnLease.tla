----------------------------- MODULE ConnLease -----------------------------
(***************************************************************************)
(* What a connection pool of utils/netpool promises its callers, without   *)
(* channels, goroutines or program counters: a connection is open or it is *)
(* not, an open one is leased to at most one client, a client leases at    *)
(* most one connection, and no more than Limit connections are open at a   *)
(* time (0 is "no limit", as for NewPool's maxConn).                       *)
(***************************************************************************)
EXTENDS Integers, FiniteSets

CONSTANTS Clients,  \* the goroutines that call Pool.Connect
          Conns,    \* the connections they may dial
          Limit     \* NewPool's maxConn

VARIABLES open,     \* the connections that are open
          lessees   \* the clients that use each connection

leaseVars == <<open, lessees>>

Init ==
  /\ open = {}
  /\ lessees = [n \in Conns |-> {}]

HasNone(c) == \A n \in Conns : c \notin lessees[n]

(* A client opens a connection of its own.                                 *)
Open(c, n) ==
  /\ n \notin open
  /\ Limit # 0 => Cardinality(open) < Limit
  /\ HasNone(c)
  /\ open' = open \cup {n}
  /\ lessees' = [lessees EXCEPT ![n] = {c}]

(* It gives the connection back open, to the pool or straight to a client  *)
(* that waits.                                                             *)
GiveBack(c, n) ==
  /\ lessees[n] = {c}
  /\ \/ lessees' = [lessees EXCEPT ![n] = {}]
     \/ \E d \in Clients : HasNone(d) /\ lessees' = [lessees EXCEPT ![n] = {d}]
  /\ UNCHANGED open

(* A client leases a connection that is open and that nobody uses.         *)
Lease(c, n) ==
  /\ n \in open
  /\ lessees[n] = {}
  /\ HasNone(c)
  /\ lessees' = [lessees EXCEPT ![n] = {c}]
  /\ UNCHANGED open

(* Only the lessee closes a connection.                                    *)
Shut(c, n) ==
  /\ n \in open
  /\ lessees[n] = {c}
  /\ open' = open \ {n}
  /\ lessees' = [lessees EXCEPT ![n] = {}]

Next ==
  \E c \in Clients, n \in Conns :
    Open(c, n) \/ GiveBack(c, n) \/ Lease(c, n) \/ Shut(c, n)

Spec == Init /\ [][Next]_leaseVars
=============================================================================
