------------------------------ MODULE NetPool ------------------------------
(***************************************************************************)
(* One connection pool of utils/netpool (pool.go, connection.go).          *)
(*                                                                         *)
(* A pool is two Go channels. connTicket counts the connections that exist *)
(* or are being dialled: a send takes a ticket, a receive gives it back.   *)
(* idleTicket holds the idle connections. A goroutine that finds neither   *)
(* an idle connection nor room for a ticket blocks in the select of        *)
(* tryGetConn; the Go runtime parks such goroutines in arrival order and   *)
(* hands a value sent to idleTicket, or the room made in connTicket,       *)
(* straight to the first of them. waitq is that queue.                     *)
(*                                                                         *)
(* Each client is a goroutine that calls Connect, uses the session it gets *)
(* and calls Release once; every step below is one channel operation or    *)
(* one call that may block.                                                *)
(***************************************************************************)
EXTENDS Integers, Sequences, FiniteSets

CONSTANTS Clients,        \* goroutines that call Connect
          Conns,          \* the connections dial can return
          NoConn,         \* "no connection", and "no client"
          MaxConn,        \* cap(connTicket); 0 is a nil channel, no limit
          MaxIdle,        \* cap(idleTicket)
          IdleExpiry,     \* maxIdleDuration # 0
          DialMayFail,    \* dial(ctx) may return an error
          SetupMayFail    \* Conn.Setup may return an error

ASSUME PoolAssumption ==
  /\ IsFiniteSet(Clients)
  /\ IsFiniteSet(Conns)
  /\ NoConn \notin Conns \cup Clients
  /\ MaxConn \in Nat
  /\ MaxIdle \in Nat
  /\ {IdleExpiry, DialMayFail, SetupMayFail} \subseteq BOOLEAN

VARIABLES connTicket,   \* tickets taken: len(p.connTicket)
          idleTicket,   \* the idle connections, oldest first
          waitq,        \* goroutines parked in the select, oldest first
          live,         \* what has become of each connection
          own,          \* the connection a client's call works on
          pc,           \* where each client stands
          lost          \* tickets taken for dials that failed

poolVars == <<connTicket, idleTicket, waitq, live, own, pc, lost>>

(* "none": not dialled, or closed and its ticket given back. "dialed":     *)
(* dial returned it, Setup has not. "open": in use or idle. "closed":      *)
(* Close has run up to the receive from connTicket. "orphan": Setup failed *)
(* and Connect dropped it.                                                 *)
LiveStates == {"none", "dialed", "open", "closed", "orphan"}

PcStates == {"out", "try", "select", "parked", "got", "evict", "evictDrain",
             "dial", "setup", "use", "retire", "retireDrain"}

Limited == MaxConn # 0

Dialling == {c \in Clients : pc[c] = "dial"}
Ticketed == {n \in Conns : live[n] # "none"}
OpenConns == {n \in Conns : live[n] \in {"dialed", "open", "orphan"}}

(* state.Available                                                         *)
Available(n) == live[n] # "closed"

Init ==
  /\ connTicket = 0
  /\ idleTicket = <<>>
  /\ waitq = <<>>
  /\ live = [n \in Conns |-> "none"]
  /\ own = [c \in Clients |-> NoConn]
  /\ pc = [c \in Clients |-> "out"]
  /\ lost = 0

-----------------------------------------------------------------------------
(* Pool.Connect and tryGetConn.                                            *)

Connect(c) ==
  /\ pc[c] = "out"
  /\ pc' = [pc EXCEPT ![c] = "try"]
  /\ UNCHANGED <<connTicket, idleTicket, waitq, live, own, lost>>

TakeIdle(c) ==
  /\ idleTicket # <<>>
  /\ own' = [own EXCEPT ![c] = Head(idleTicket)]
  /\ idleTicket' = Tail(idleTicket)
  /\ pc' = [pc EXCEPT ![c] = "got"]
  /\ UNCHANGED <<connTicket, waitq, live, lost>>

(* The select with a default: an idle connection if there is one, else on  *)
(* to the ticket, which a pool without limit does not need.                *)
PollIdle(c) ==
  /\ pc[c] = "try"
  /\ \/ TakeIdle(c)
     \/ /\ idleTicket = <<>>
        /\ pc' = [pc EXCEPT ![c] = IF Limited THEN "select" ELSE "dial"]
        /\ UNCHANGED <<connTicket, idleTicket, waitq, live, own, lost>>

(* Faulty: one ticket too many.                                            *)
TakeTicketOver(c) ==
  /\ pc[c] = "select"
  /\ connTicket <= MaxConn
  /\ connTicket' = connTicket + 1
  /\ pc' = [pc EXCEPT ![c] = "dial"]
  /\ UNCHANGED <<idleTicket, waitq, live, own, lost>>

(* The second select, without a default. What was idle or full at PollIdle *)
(* may have changed since.                                                 *)
TakeTicket(c) ==
  /\ pc[c] = "select"
  /\ connTicket < MaxConn
  /\ connTicket' = connTicket + 1
  /\ pc' = [pc EXCEPT ![c] = "dial"]
  /\ UNCHANGED <<idleTicket, waitq, live, own, lost>>

SelectIdle(c) == pc[c] = "select" /\ TakeIdle(c)

Park(c) ==
  /\ pc[c] = "select"
  /\ idleTicket = <<>>
  /\ connTicket = MaxConn
  /\ waitq' = Append(waitq, c)
  /\ pc' = [pc EXCEPT ![c] = "parked"]
  /\ UNCHANGED <<connTicket, idleTicket, live, own, lost>>

(* What tryGetConn does with a connection it received: close it if it has  *)
(* been idle too long, return it if it is open, else look again. Time is   *)
(* not modelled: with IdleExpiry any idle connection may have expired.     *)
Received(c) ==
  /\ pc[c] = "got"
  /\ \/ /\ IdleExpiry
        /\ pc' = [pc EXCEPT ![c] = "evict"]
        /\ UNCHANGED own
     \/ /\ Available(own[c])
        /\ pc' = [pc EXCEPT ![c] = "use"]
        /\ UNCHANGED own
     \/ /\ ~Available(own[c])
        /\ pc' = [pc EXCEPT ![c] = "try"]
        /\ own' = [own EXCEPT ![c] = NoConn]
  /\ UNCHANGED <<connTicket, idleTicket, waitq, live, lost>>

DialOK(c, n) ==
  /\ pc[c] = "dial"
  /\ live[n] = "none"
  /\ live' = [live EXCEPT ![n] = "dialed"]
  /\ own' = [own EXCEPT ![c] = n]
  /\ pc' = [pc EXCEPT ![c] = "setup"]
  /\ UNCHANGED <<connTicket, idleTicket, waitq, lost>>

(* Connect returns the error and keeps the ticket.                         *)
DialFail(c) ==
  /\ DialMayFail
  /\ pc[c] = "dial"
  /\ pc' = [pc EXCEPT ![c] = "out"]
  /\ lost' = IF Limited THEN lost + 1 ELSE lost
  /\ UNCHANGED <<connTicket, idleTicket, waitq, live, own>>

SetupOK(c) ==
  /\ pc[c] = "setup"
  /\ live' = [live EXCEPT ![own[c]] = "open"]
  /\ pc' = [pc EXCEPT ![c] = "use"]
  /\ UNCHANGED <<connTicket, idleTicket, waitq, own, lost>>

(* Connect returns the error; nobody closes the connection it dialled.     *)
SetupFail(c) ==
  /\ SetupMayFail
  /\ pc[c] = "setup"
  /\ live' = [live EXCEPT ![own[c]] = "orphan"]
  /\ own' = [own EXCEPT ![c] = NoConn]
  /\ pc' = [pc EXCEPT ![c] = "out"]
  /\ UNCHANGED <<connTicket, idleTicket, waitq, lost>>

-----------------------------------------------------------------------------
(* state.Release and state.Close.                                          *)

(* idleTicket <- c with a receiver parked: the first one gets it.          *)
HandOver(c) ==
  /\ waitq # <<>>
  /\ own' = [own EXCEPT ![Head(waitq)] = own[c], ![c] = NoConn]
  /\ pc' = [pc EXCEPT ![Head(waitq)] = "got", ![c] = "out"]
  /\ waitq' = Tail(waitq)
  /\ UNCHANGED idleTicket

(* Faulty: one place too many in the buffer.                               *)
BufferOverfull(c) ==
  /\ waitq = <<>>
  /\ Len(idleTicket) <= MaxIdle
  /\ idleTicket' = Append(idleTicket, own[c])
  /\ own' = [own EXCEPT ![c] = NoConn]
  /\ pc' = [pc EXCEPT ![c] = "out"]
  /\ UNCHANGED waitq

(* Faulty: the connection goes to the buffer though a receiver waits.      *)
BufferPastWaiters(c) ==
  /\ Len(idleTicket) < MaxIdle
  /\ idleTicket' = Append(idleTicket, own[c])
  /\ own' = [own EXCEPT ![c] = NoConn]
  /\ pc' = [pc EXCEPT ![c] = "out"]
  /\ UNCHANGED waitq

(* Faulty: the caller goes on using what it released.                      *)
BufferInUse(c) ==
  /\ waitq = <<>>
  /\ Len(idleTicket) < MaxIdle
  /\ idleTicket' = Append(idleTicket, own[c])
  /\ UNCHANGED <<own, pc, waitq>>

(* idleTicket <- c with room in the buffer.                                *)
Buffer(c) ==
  /\ waitq = <<>>
  /\ Len(idleTicket) < MaxIdle
  /\ idleTicket' = Append(idleTicket, own[c])
  /\ own' = [own EXCEPT ![c] = NoConn]
  /\ pc' = [pc EXCEPT ![c] = "out"]
  /\ UNCHANGED waitq

(* The default branch: no receiver and no room, so close the connection.   *)
NoRoom(c) ==
  /\ waitq = <<>>
  /\ Len(idleTicket) >= MaxIdle
  /\ pc' = [pc EXCEPT ![c] = "retire"]
  /\ UNCHANGED <<own, idleTicket, waitq>>

(* Release(false). On a connection already closed it is an error.          *)
ReleaseKeep(c) ==
  /\ pc[c] = "use"
  /\ IF Available(own[c])
     THEN HandOver(c) \/ Buffer(c) \/ NoRoom(c)
     ELSE /\ pc' = [pc EXCEPT ![c] = "out"]
          /\ own' = [own EXCEPT ![c] = NoConn]
          /\ UNCHANGED <<idleTicket, waitq>>
  /\ UNCHANGED <<connTicket, live, lost>>

(* Release(true).                                                          *)
ReleaseClose(c) ==
  /\ pc[c] = "use"
  /\ IF Available(own[c])
     THEN /\ pc' = [pc EXCEPT ![c] = "retire"]
          /\ UNCHANGED own
     ELSE /\ pc' = [pc EXCEPT ![c] = "out"]
          /\ own' = [own EXCEPT ![c] = NoConn]
  /\ UNCHANGED <<connTicket, idleTicket, waitq, live, lost>>

(* Faulty: tryGetConn returns the connection it has just closed.           *)
CloseConnReturns(c) ==
  /\ pc[c] \in {"evict", "retire"}
  /\ live' = [live EXCEPT ![own[c]] = "closed"]
  /\ pc' = [pc EXCEPT ![c] = IF @ = "evict" THEN "use" ELSE "retireDrain"]
  /\ UNCHANGED <<connTicket, idleTicket, waitq, own, lost>>

(* conn.Close and the store to IsClosed.                                   *)
CloseConn(c) ==
  /\ pc[c] \in {"evict", "retire"}
  /\ live' = [live EXCEPT ![own[c]] = "closed"]
  /\ pc' = [pc EXCEPT ![c] = IF @ = "evict" THEN "evictDrain" ELSE "retireDrain"]
  /\ UNCHANGED <<connTicket, idleTicket, waitq, own, lost>>

(* Where the caller of Close goes on: tryGetConn loops, Release returns.   *)
AfterClose(c) == IF pc[c] = "evictDrain" THEN "try" ELSE "out"

(* Faulty: nothing is received from connTicket.                            *)
DrainTicketForgets(c) ==
  /\ pc[c] \in {"evictDrain", "retireDrain"}
  /\ live' = [live EXCEPT ![own[c]] = "none"]
  /\ own' = [own EXCEPT ![c] = NoConn]
  /\ pc' = [pc EXCEPT ![c] = AfterClose(c)]
  /\ UNCHANGED <<connTicket, idleTicket, waitq, lost>>

(* The receive from connTicket that ends Close: if a goroutine is parked   *)
(* the room goes to the first one, which may now dial.                     *)
DrainTicket(c) ==
  /\ pc[c] \in {"evictDrain", "retireDrain"}
  /\ Limited => connTicket > 0
  /\ live' = [live EXCEPT ![own[c]] = "none"]
  /\ own' = [own EXCEPT ![c] = NoConn]
  /\ IF waitq # <<>>
     THEN /\ pc' = [pc EXCEPT ![Head(waitq)] = "dial", ![c] = AfterClose(c)]
          /\ waitq' = Tail(waitq)
          /\ UNCHANGED connTicket
     ELSE /\ pc' = [pc EXCEPT ![c] = AfterClose(c)]
          /\ connTicket' = IF Limited THEN connTicket - 1 ELSE connTicket
          /\ UNCHANGED waitq
  /\ UNCHANGED <<idleTicket, lost>>

-----------------------------------------------------------------------------
(* The steps of a call to Connect, and those of Release.                   *)
ConnectStep(c) ==
  \/ PollIdle(c) \/ TakeTicket(c) \/ SelectIdle(c) \/ Park(c) \/ Received(c)
  \/ (\E n \in Conns : DialOK(c, n)) \/ DialFail(c)
  \/ SetupOK(c) \/ SetupFail(c)

CloseStep(c) == CloseConn(c) \/ DrainTicket(c)

Release(c) == ReleaseKeep(c) \/ ReleaseClose(c)

Next == \E c \in Clients :
          Connect(c) \/ ConnectStep(c) \/ Release(c) \/ CloseStep(c)

Spec == Init /\ [][Next]_poolVars

-----------------------------------------------------------------------------
(* Every variable holds values of its kind, and no channel holds more than *)
(* its capacity.                                                           *)
TypeOK ==
  /\ connTicket \in 0..MaxConn
  /\ idleTicket \in Seq(Conns)
  /\ Len(idleTicket) <= MaxIdle
  /\ waitq \in Seq(Clients)
  /\ live \in [Conns -> LiveStates]
  /\ own \in [Clients -> Conns \cup {NoConn}]
  /\ pc \in [Clients -> PcStates]
  /\ lost \in Nat

(* Release and tryGetConn never put a connection into two hands: no two    *)
(* clients work on the same connection, none works on one that is idle,    *)
(* and none is queued as idle twice.                                       *)
ExclusiveUse ==
  /\ \A c, d \in Clients : c # d /\ own[c] # NoConn => own[c] # own[d]
  /\ \A c \in Clients : \A i \in 1..Len(idleTicket) : idleTicket[i] # own[c]
  /\ \A i, j \in 1..Len(idleTicket) : i # j => idleTicket[i] # idleTicket[j]

(* Close runs on connections only when nobody can still meet them: what is *)
(* idle is open, so tryGetConn never skips one and Release never answers   *)
(* "called Release on closed connection".                                  *)
IdleIsOpen ==
  /\ \A i \in 1..Len(idleTicket) : live[idleTicket[i]] = "open"
  /\ \A c \in Clients : pc[c] \in {"got", "use"} => live[own[c]] = "open"

(* The limit of NewPool: connections open, plus dials under way, never     *)
(* exceed maxConn, whatever fails.                                         *)
ConnLimit ==
  Limited => Cardinality(OpenConns) + Cardinality(Dialling) <= MaxConn

(* connTicket counts exactly the dials under way, the connections not yet  *)
(* fully closed and the dials that failed. So the receive in Close never   *)
(* blocks, and the only tickets that never come back are those of failed   *)
(* dials and failed set-ups.                                               *)
TicketsAccounted ==
  Limited => connTicket = Cardinality(Dialling) + Cardinality(Ticketed) + lost

(* No wake-up is lost: a goroutine waits in the select only while the pool *)
(* is at its limit and nothing is idle.                                    *)
NoLostWakeup ==
  /\ waitq # <<>> => idleTicket = <<>> /\ connTicket = MaxConn
  /\ \A c \in Clients : pc[c] = "parked" <=> \E i \in 1..Len(waitq) : waitq[i] = c

(* The pool implements the lease of ConnLease.                             *)
Lessees(n) == {c \in Clients : own[c] = n /\ n \in OpenConns}

Leases == INSTANCE ConnLease WITH
            Limit <- MaxConn, open <- OpenConns, lessees <- [n \in Conns |-> Lessees(n)]

LeaseSpec == Leases!Spec
=============================================================================
