---------------------------- MODULE Http1Proofs ----------------------------
(***************************************************************************)
(* Proofs about Http1, for every set of clients and connections, every     *)
(* limit of the pool and every length of a body.                           *)
(***************************************************************************)
EXTENDS Http1, NetPoolProofs

(* A connection nobody works on yet: idle, or on its way out of tryGetConn. *)
Free(n) ==
  \/ \E i \in 1..Len(idleTicket) : idleTicket[i] = n
  \/ \E c \in Clients : pc[c] = "got" /\ own[c] = n

LoopsAt(n, w, r) == wloop[n] = w /\ rloop[n] = r

(* Where the loops of a connection stand while somebody may still use it.  *)
LoopsInv ==
  /\ \A n \in Conns : Free(n) => LoopsAt(n, "idle", "idle")
  /\ \A c \in Clients : pc[c] = "use" =>
       /\ job[c] \in {"idle", "body"} => LoopsAt(own[c], "idle", "idle")
       /\ job[c] \in {"write", "toread"} => LoopsAt(own[c], "busy", "idle")
       /\ job[c] = "read" => LoopsAt(own[c], "idle", "busy")

Clean(n) == sent[n] = <<>> /\ inbox[n] = <<>>

(* From the request's last byte to the response's head: the server owes    *)
(* the answer, or has sent it and nothing else.                            *)
Answering(c) ==
  /\ \A i \in 1..Len(sent[own[c]]) : i = 1 /\ sent[own[c]][i] = Request(c)
  /\ sent[own[c]] # <<>> => inbox[own[c]] = <<>>
  /\ \A i \in 1..Len(inbox[own[c]]) : inbox[own[c]][i].of = Request(c)
  /\ inbox[own[c]] # <<>> /\ inbox[own[c]][1].part = "head"
       => Len(inbox[own[c]]) - 1 <= inbox[own[c]][1].len

(* The rest of the body, and no more than the rest of it.                  *)
Answered(c) ==
  /\ sent[own[c]] = <<>>
  /\ \A i \in 1..Len(inbox[own[c]]) : inbox[own[c]][i].of = Request(c)
  /\ Len(inbox[own[c]]) <= remaining[c]
  /\ resp[c] \subseteq {Request(c)}

(* What is on the wire of every connection somebody may still use. One     *)
(* whose call was cancelled may hold anything: nobody meets it again.      *)
WireInv ==
  /\ \A n \in Conns : live[n] \in {"none", "dialed", "closed"} \/ Free(n) => Clean(n)
  /\ \A c \in Clients : pc[c] = "use" =>
       /\ job[c] \in {"idle", "write"} => Clean(own[c])
       /\ job[c] \in {"toread", "read"} => Answering(c)
       /\ job[c] = "body" => Answered(c)

-----------------------------------------------------------------------------
(* The steps of the exchanges, as steps of the pool.                       *)

(* All but one of them are steps of NetPool, or leave the pool as it is.   *)
LEMMA HttpPoolSteps ==
  ASSUME [HttpNext]_httpVars
  PROVE  [Next]_poolVars \/ \E c \in Clients : Cancelled(c)
  <1>1. CASE UNCHANGED httpVars
    BY <1>1 DEF httpVars
  <1>2. ASSUME NEW c \in Clients, PoolStep(c) PROVE [Next]_poolVars
    BY <1>2 DEF PoolStep, PoolOnly, Setup, CloseTransport, Next, ConnectStep, CloseStep
  <1>3. ASSUME NEW c \in Clients, LoopStep(c) \/ UserStep(c) PROVE [Next]_poolVars
    BY <1>3 DEF LoopStep, UserStep, HandToWriter, WriteRequest, WriteError, PassToReader,
       ReadResponse, ReadError, ReadBody, CloseBody, Next, Release
  <1>4. ASSUME NEW n \in Conns,
               Answer(n) \/ AnswerMalformed(n) \/ AnswerInterim(n) \/ PeerCloses(n)
        PROVE  [Next]_poolVars
    BY <1>4 DEF Answer, AnswerMalformed, AnswerInterim, PeerCloses
  <1> QED BY <1>1, <1>2, <1>3, <1>4 DEF HttpNext

(* A cancelled call drops its connection, which stays open.                *)
LEMMA CancelledHands ==
  ASSUME HandsInv, NEW c \in Clients, Cancelled(c) PROVE HandsInv'
  <1> USE DEF HandsInv, Cancelled
  <1>1. TypeOK'
    BY DEF TypeOK, PcStates
  <1>2. ExclusiveUse'
    BY PoolAssumption DEF TypeOK, ExclusiveUse
  <1>3. OwnByPc'
    BY DEF TypeOK, OwnByPc, Owning
  <1>4. QueueInv'
    BY DEF TypeOK, QueueInv, NoLostWakeup
  <1> QED BY <1>1, <1>2, <1>3, <1>4

LEMMA CancelledTickets ==
  ASSUME HandsInv, TicketsAccounted, NEW c \in Clients, Cancelled(c)
  PROVE  TicketsAccounted'
  <1>1. Dialling' = Dialling
    BY DEF Cancelled, Dialling, HandsInv, TypeOK
  <1>2. Ticketed' = Ticketed /\ UNCHANGED <<connTicket, lost>>
    BY DEF Cancelled, Ticketed
  <1> QED BY <1>1, <1>2, TicketsKept

(* To the lease, dropping a connection is giving it back open.             *)
LEMMA CancelledRefines ==
  ASSUME HandsInv, HandsInv', NEW c \in Clients, Cancelled(c)
  PROVE  Leases!Next
  <1>1. /\ pc[c] = "use" /\ live[own[c]] = "open" /\ own[c] \in Conns /\ UNCHANGED live
    BY DEF Cancelled, HandsInv, TypeOK, OwnByPc, Owning
  <1>2. PICK n \in Conns : n = own[c]
    BY <1>1
  <1>3. n \in OpenConns /\ OpenConns' = OpenConns
    BY <1>1, <1>2 DEF OpenConns
  <1>4. own'[c] = NoConn /\ \A e \in Clients \ {c} : own'[e] = own[e]
    BY DEF Cancelled, HandsInv, TypeOK
  <1>5. NoConn # c /\ NoConn \notin Clients
    BY PoolAssumption
  <1>6. Leases!GiveBack(c, n)
    BY <1>2, <1>3, <1>4, <1>5, PassedOn
  <1> QED BY <1>6 DEF Leases!Next

LEMMA HttpHandsNext ==
  ASSUME HandsInv, [HttpNext]_httpVars PROVE HandsInv'
  BY HttpPoolSteps, NextHands, CancelledHands

LEMMA SpecHttpHands == HttpSpec => [](HandsInv /\ TicketsAccounted)
  <1>1. HttpInit => HandsInv /\ TicketsAccounted
    BY InitHands, InitTickets DEF HttpInit
  <1>2. HandsInv /\ TicketsAccounted /\ [HttpNext]_httpVars
          => HandsInv' /\ TicketsAccounted'
    BY HttpPoolSteps, HttpHandsNext, NextTickets, CancelledTickets
  <1> QED BY <1>1, <1>2, PTL DEF HttpSpec

(* HTTP/1.1 uses the pool as the lease allows, with cancelled calls, dead  *)
(* servers and both of its goroutines: it never has a connection in two    *)
(* hands, closes none it does not hold and keeps to maxConn.               *)
THEOREM HttpImplementsLease == HttpSpec => LeaseSpec
  <1>1. HttpInit => Leases!Init
    BY InitLeases DEF HttpInit
  <1>2. HandsInv /\ HandsInv' /\ TicketsAccounted /\ [HttpNext]_httpVars
          => [Leases!Next]_(Leases!leaseVars)
    BY HttpPoolSteps, NextRefines, CancelledRefines
  <1> QED BY SpecHttpHands, <1>1, <1>2, PTL DEF HttpSpec, LeaseSpec, Leases!Spec

-----------------------------------------------------------------------------
(* What the pool's steps do to the connections somebody may still use.     *)

(* The connection a call works on is neither free nor another's.           *)
LEMMA OwnerAlone ==
  ASSUME HandsInv, NEW c \in Clients, pc[c] \in Owning \ {"got"}
  PROVE  /\ own[c] \in Conns
         /\ ~Free(own[c])
         /\ \A d \in Clients \ {c} : own[d] # own[c]
  BY DEF HandsInv, TypeOK, OwnByPc, ExclusiveUse, Free, Owning

LEMMA TakeIdleMoves ==
  ASSUME HandsInv, NEW c \in Clients, pc[c] \in {"try", "select"}, TakeIdle(c)
  PROVE  /\ \A n \in Conns : Free(n)' => Free(n)
         /\ \A d \in Clients : pc'[d] = "use" => pc[d] = "use" /\ own'[d] = own[d]
         /\ \A d \in Clients : pc[d] = "use" => pc'[d] = "use"
         /\ UNCHANGED live
  <1>0. /\ Head(idleTicket) = idleTicket[1] /\ 1 \in 1..Len(idleTicket)
        /\ \A i \in 1..Len(Tail(idleTicket)) :
             i + 1 \in 1..Len(idleTicket) /\ Tail(idleTicket)[i] = idleTicket[i+1]
    BY HeadTailFacts DEF HandsInv, TypeOK, TakeIdle
  <1>1. /\ pc' = [pc EXCEPT ![c] = "got"]
        /\ own' = [own EXCEPT ![c] = idleTicket[1]]
        /\ idleTicket' = Tail(idleTicket)
        /\ UNCHANGED live
    BY <1>0 DEF TakeIdle
  <1>2. ASSUME NEW n \in Conns, Free(n)' PROVE Free(n)
    <2>1. CASE \E i \in 1..Len(idleTicket') : idleTicket'[i] = n
      BY <1>0, <1>1, <2>1 DEF Free
    <2>2. CASE \E d \in Clients : pc'[d] = "got" /\ own'[d] = n
      BY <1>0, <1>1, <2>2 DEF Free, HandsInv, TypeOK
    <2> QED BY <1>2, <2>1, <2>2 DEF Free
  <1> QED BY <1>1, <1>2 DEF HandsInv, TypeOK

(* A step of Connect, or the end of Close, frees no connection that is in  *)
(* use: it takes from what is free.                                        *)
OnlyTakes ==
  /\ \A n \in Conns : Free(n)' => Free(n)
  /\ \A d \in Clients :
       pc'[d] = "use" => own'[d] = own[d] /\ (pc[d] = "use" \/ Free(own[d]))
  /\ \A d \in Clients : pc[d] = "use" => pc'[d] = "use"
  /\ \A n \in Conns : live'[n] \in {"none", "dialed", "closed"}
       => live[n] \in {"none", "dialed", "closed"}

LEMMA PoolOnlyMoves ==
  ASSUME HandsInv, NEW c \in Clients, PoolOnly(c)
  PROVE  OnlyTakes
  <1> USE DEF HandsInv
  <1>1. CASE TakeIdle(c) /\ pc[c] \in {"try", "select"}
    BY <1>1, TakeIdleMoves DEF OnlyTakes
  <1>2. CASE \/ Connect(c) \/ (PollIdle(c) /\ ~TakeIdle(c)) \/ TakeTicket(c) \/ Park(c)
             \/ DialFail(c)
    <2>1. /\ UNCHANGED <<idleTicket, live, own>>
          /\ pc[c] \in PcStates \ {"got", "use"}
          /\ \E q \in PcStates \ {"got", "use"} : pc' = [pc EXCEPT ![c] = q]
      BY <1>2 DEF Connect, PollIdle, TakeTicket, Park, DialFail, PcStates
    <2> QED BY <2>1 DEF OnlyTakes, Free, TypeOK
  <1>3. CASE Received(c)
    <2>1. live[own[c]] = "open" /\ own[c] \in Conns /\ pc[c] = "got"
      BY <1>3 DEF Received, TypeOK, OwnByPc, Owning
    <2>2. /\ UNCHANGED <<idleTicket, live, own>>
          /\ pc' = [pc EXCEPT ![c] = "evict"] \/ pc' = [pc EXCEPT ![c] = "use"]
      BY <1>3, <2>1 DEF Received, Available
    <2> QED BY <2>1, <2>2 DEF OnlyTakes, Free, TypeOK
  <1>4. CASE \E n \in Conns : DialOK(c, n)
    BY <1>4 DEF DialOK, OnlyTakes, Free, TypeOK
  <1>5. CASE DrainTicket(c)
    <2>1. /\ live[own[c]] = "closed" /\ own[c] \in Conns
          /\ AfterClose(c) \in {"try", "out"}
          /\ own' = [own EXCEPT ![c] = NoConn]
          /\ live' = [live EXCEPT ![own[c]] = "none"]
          /\ pc[c] \in {"evictDrain", "retireDrain"}
          /\ UNCHANGED idleTicket
      BY <1>5 DEF DrainTicket, TypeOK, OwnByPc, Owning, AfterClose
    <2>2. CASE waitq # <<>>
      <3>1. Head(waitq) \in Clients /\ pc[Head(waitq)] = "parked"
        BY <2>2, QueueTail
      <3>2. pc' = [pc EXCEPT ![Head(waitq)] = "dial", ![c] = AfterClose(c)]
        BY <1>5, <2>2 DEF DrainTicket
      <3> QED BY <2>1, <3>1, <3>2 DEF OnlyTakes, Free, TypeOK
    <2>3. CASE waitq = <<>>
      <3>1. pc' = [pc EXCEPT ![c] = AfterClose(c)]
        BY <1>5, <2>3 DEF DrainTicket
      <3> QED BY <2>1, <3>1 DEF OnlyTakes, Free, TypeOK
    <2> QED BY <2>2, <2>3
  <1>6. \/ Connect(c) \/ PollIdle(c) \/ TakeTicket(c) \/ SelectIdle(c) \/ Park(c)
        \/ Received(c) \/ (\E n \in Conns : DialOK(c, n)) \/ DialFail(c) \/ DrainTicket(c)
    BY DEF PoolOnly
  <1>7. /\ PollIdle(c) => pc[c] = "try"
        /\ SelectIdle(c) => pc[c] = "select" /\ TakeIdle(c)
    BY DEF PollIdle, SelectIdle
  <1> QED BY <1>1, <1>2, <1>3, <1>4, <1>5, <1>6, <1>7

(* Release(false) frees the connection of its caller and no other.         *)
LEMMA ReleaseKeepMoves ==
  ASSUME HandsInv, NEW c \in Clients, ReleaseKeep(c)
  PROVE  /\ \A n \in Conns : Free(n)' => Free(n) \/ n = own[c]
         /\ pc[c] = "use" /\ pc'[c] # "use"
         /\ \A d \in Clients \ {c} :
              (pc'[d] = "use" <=> pc[d] = "use") /\ (pc[d] = "use" => own'[d] = own[d])
         /\ UNCHANGED live
  <1> USE DEF HandsInv
  <1>0. pc[c] = "use" /\ own[c] \in Conns /\ live[own[c]] = "open" /\ UNCHANGED live
    BY DEF ReleaseKeep, TypeOK, OwnByPc, Owning
  <1>1. CASE HandOver(c)
    <2>1. Head(waitq) \in Clients /\ pc[Head(waitq)] = "parked"
      BY <1>1, QueueTail DEF HandOver
    <2>2. PICK w \in Clients : w = Head(waitq)
      BY <2>1
    <2>3. /\ pc' = [pc EXCEPT ![w] = "got", ![c] = "out"]
          /\ own' = [own EXCEPT ![w] = own[c], ![c] = NoConn]
          /\ pc[w] = "parked"
          /\ UNCHANGED idleTicket
      BY <1>1, <2>1, <2>2 DEF HandOver
    <2> QED BY <1>0, <2>3 DEF Free, TypeOK
  <1>2. CASE Buffer(c)
    <2>1. /\ Len(Append(idleTicket, own[c])) = Len(idleTicket) + 1
          /\ Len(idleTicket) \in Nat
          /\ \A i \in 1..Len(idleTicket) : Append(idleTicket, own[c])[i] = idleTicket[i]
          /\ Append(idleTicket, own[c])[Len(idleTicket) + 1] = own[c]
      BY <1>0, AppendFacts DEF TypeOK
    <2>2. /\ pc' = [pc EXCEPT ![c] = "out"]
          /\ own' = [own EXCEPT ![c] = NoConn]
          /\ idleTicket' = Append(idleTicket, own[c])
      BY <1>2 DEF Buffer
    <2>3. ASSUME NEW i \in 1..Len(idleTicket'), idleTicket'[i] # own[c]
          PROVE  i \in 1..Len(idleTicket) /\ idleTicket'[i] = idleTicket[i]
      BY <2>1, <2>2, <2>3
    <2>4. \A n \in Conns : Free(n)' => Free(n) \/ n = own[c]
      BY <1>0, <2>2, <2>3 DEF Free, TypeOK
    <2> QED BY <1>0, <2>2, <2>4 DEF TypeOK
  <1>3. CASE NoRoom(c)
    BY <1>0, <1>3 DEF NoRoom, Free, TypeOK
  <1> QED BY <1>0, <1>1, <1>2, <1>3 DEF ReleaseKeep, Available

(* Release(true) frees nothing.                                            *)
LEMMA ReleaseCloseMoves ==
  ASSUME HandsInv, NEW c \in Clients, ReleaseClose(c)
  PROVE  /\ \A n \in Conns : Free(n)' => Free(n)
         /\ pc[c] = "use" /\ pc'[c] # "use"
         /\ \A d \in Clients \ {c} :
              (pc'[d] = "use" <=> pc[d] = "use") /\ (pc[d] = "use" => own'[d] = own[d])
         /\ UNCHANGED live
  <1>1. /\ pc[c] = "use" /\ pc' = [pc EXCEPT ![c] = "retire"]
        /\ UNCHANGED <<own, live, idleTicket>>
    BY DEF ReleaseClose, HandsInv, OwnByPc, Available
  <1> QED BY <1>1 DEF HandsInv, TypeOK, Free

-----------------------------------------------------------------------------
(* Types of the exchanges.                                                 *)

LEMMA SessionEndsType ==
  ASSUME HttpTypeOK, NEW c \in Clients, SessionEnds(c)
  PROVE  /\ job' \in [Clients -> Jobs] /\ remaining' \in [Clients -> 0..MaxBody]
         /\ needClose' \in [Clients -> BOOLEAN] /\ resp' \in [Clients -> SUBSET Requests]
  BY SessionAssumption DEF HttpTypeOK, SessionEnds, Jobs

(* The head is read with a Head and the rest with a Tail of the inbox.     *)
LEMMA InboxFacts ==
  ASSUME HttpTypeOK, NEW n \in Conns
  PROVE  /\ sent[n] \in Seq(Requests) /\ inbox[n] \in Seq(Heads \cup Pieces)
         /\ Len(sent[n]) \in Nat /\ Len(inbox[n]) \in Nat
         /\ inbox[n] # <<>> =>
              /\ Len(inbox[n]) >= 1
              /\ Head(inbox[n]) = inbox[n][1] /\ Head(inbox[n]) \in Heads \cup Pieces
              /\ Tail(inbox[n]) \in Seq(Heads \cup Pieces)
              /\ Len(Tail(inbox[n])) = Len(inbox[n]) - 1
              /\ \A i \in 1..Len(Tail(inbox[n])) :
                   i + 1 \in 1..Len(inbox[n]) /\ Tail(inbox[n])[i] = inbox[n][i+1]
         /\ sent[n] # <<>> =>
              /\ Len(sent[n]) >= 1
              /\ Head(sent[n]) = sent[n][1] /\ Head(sent[n]) \in Requests
              /\ Tail(sent[n]) \in Seq(Requests) /\ Len(Tail(sent[n])) = Len(sent[n]) - 1
  <1>1. sent[n] \in Seq(Requests) /\ inbox[n] \in Seq(Heads \cup Pieces)
    BY DEF HttpTypeOK
  <1>2. Len(sent[n]) \in Nat /\ Len(inbox[n]) \in Nat
    BY <1>1
  <1> HIDE DEF Requests, Heads, Pieces
  <1> QED BY <1>1, <1>2, HeadTailFacts

LEMMA HeadFields ==
  ASSUME NEW h \in Heads \cup Pieces
  PROVE  /\ h.of \in Requests
         /\ h.part = "head" => h.len \in 0..MaxBody /\ h.close \in BOOLEAN
  BY DEF Heads, Pieces

(* A response as the server sends it, after what it sent before.           *)
LEMMA AnswerFacts ==
  ASSUME NEW S, NEW s \in Seq(S), NEW head \in S, NEW piece \in S, NEW k \in Nat
  PROVE  /\ Append(s, head) \o [i \in 1..k |-> piece] \in Seq(S)
         /\ s = <<>> =>
              /\ Len(Append(s, head) \o [i \in 1..k |-> piece]) = k + 1
              /\ (Append(s, head) \o [i \in 1..k |-> piece])[1] = head
              /\ \A i \in 2..(k + 1) : (Append(s, head) \o [j \in 1..k |-> piece])[i] = piece
  <1>1. Append(s, head) \in Seq(S) /\ Len(Append(s, head)) = Len(s) + 1
    BY AppendFacts
  <1>2. [i \in 1..k |-> piece] \in Seq(S) /\ Len([i \in 1..k |-> piece]) = k
    OBVIOUS
  <1>3. Append(s, head) \o [i \in 1..k |-> piece] \in Seq(S)
    BY <1>1, <1>2
  <1>4. CASE s = <<>>
    <2>1. Append(s, head) = <<head>> /\ Len(<<head>>) = 1
      BY <1>4
    <2>2. <<head>> \in Seq(S)
      OBVIOUS
    <2> DEFINE p == [i \in 1..k |-> piece]
    <2>3. p \in Seq(S) /\ Len(p) = k /\ \A i \in 1..k : p[i] = piece
      BY <1>2
    <2> HIDE DEF p
    <2>4. Len(<<head>> \o p) = k + 1 /\ (<<head>> \o p)[1] = head
      BY <2>1, <2>2, <2>3
    <2>5. \A i \in 2..(k + 1) : (<<head>> \o p)[i] = piece
      <3> SUFFICES ASSUME NEW i \in 2..(k + 1) PROVE (<<head>> \o p)[i] = piece
        OBVIOUS
      <3>1. i \in 1..(Len(<<head>>) + Len(p)) /\ i > Len(<<head>>)
        BY <2>1, <2>3
      <3>2. (<<head>> \o p)[i] = p[i - Len(<<head>>)]
        BY <2>2, <2>3, <3>1
      <3>3. i - 1 \in 1..k
        OBVIOUS
      <3> QED BY <2>1, <2>3, <3>2, <3>3
    <2> QED BY <1>3, <2>1, <2>4, <2>5 DEF p
  <1> QED BY <1>3, <1>4

LEMMA RequestType ==
  ASSUME HttpTypeOK, NEW c \in Clients PROVE Request(c) \in Requests
  BY DEF HttpTypeOK, Request, Requests

LEMMA LoopTypes ==
  ASSUME HandsInv, HttpTypeOK, LeaseHeld, NEW c \in Clients,
         LoopStep(c) \/ UserStep(c) \/ Cancelled(c)
  PROVE  HttpTypeOK'
  <1>0. job[c] # "idle" => own[c] \in Conns
    BY OwnerAlone DEF LeaseHeld, Owning
  <1>1. CASE HandToWriter(c)
    <2>1. reqno' \in [Clients -> {0, 1}]
      <3>1. reqno[c] \in {0, 1} /\ 1 - reqno[c] \in {0, 1}
        BY DEF HttpTypeOK
      <3> QED BY <1>1, <3>1 DEF HandToWriter, HttpTypeOK
    <2>2. job' \in [Clients -> Jobs] /\ wloop' \in [Conns -> {"off", "idle", "busy"}]
      BY <1>1 DEF HandToWriter, HttpTypeOK, Jobs
    <2> QED BY <1>1, <2>1, <2>2 DEF HandToWriter, wireVars, HttpTypeOK
  <1>2. CASE WriteRequest(c)
    <2>1. \A n \in Conns : Append(sent[n], Request(c)) \in Seq(Requests)
      BY RequestType, InboxFacts, AppendFacts
    <2> QED BY <1>2, <2>1 DEF WriteRequest, loopVars, HttpTypeOK, Jobs
  <1>3. CASE WriteError(c)
    BY <1>3, SessionEndsType DEF WriteError, wireVars, HttpTypeOK
  <1>4. CASE PassToReader(c)
    BY <1>4 DEF PassToReader, wireVars, HttpTypeOK, Jobs
  <1>5. CASE ReadError(c)
    BY <1>5, SessionEndsType DEF ReadError, wireVars, HttpTypeOK
  <1>6. CASE CloseBody(c)
    BY <1>6, SessionEndsType DEF CloseBody, loopVars, wireVars, HttpTypeOK
  <1>7. CASE Cancelled(c)
    BY <1>7 DEF Cancelled, sessVars, loopVars, wireVars, HttpTypeOK
  <1>8. CASE ReadResponse(c)
    <2>1. own[c] \in Conns
      BY <1>0, <1>8 DEF ReadResponse
    <2>2. /\ Head(inbox[own[c]]) \in Heads \cup Pieces
          /\ Tail(inbox[own[c]]) \in Seq(Heads \cup Pieces)
      BY <1>8, <2>1, InboxFacts DEF ReadResponse, Conn
    <2>3. /\ Head(inbox[own[c]]).of \in Requests
          /\ Head(inbox[own[c]]).len \in 0..MaxBody
          /\ Head(inbox[own[c]]).close \in BOOLEAN
      BY <1>8, <2>2, HeadFields DEF ReadResponse, Conn
    <2> QED BY <1>8, <2>1, <2>2, <2>3 DEF ReadResponse, Conn, HttpTypeOK, Jobs
  <1>9. CASE ReadBody(c)
    <2>1. own[c] \in Conns
      BY <1>0, <1>9 DEF ReadBody
    <2>2. /\ Head(inbox[own[c]]) \in Heads \cup Pieces
          /\ Tail(inbox[own[c]]) \in Seq(Heads \cup Pieces)
      BY <1>9, <2>1, InboxFacts DEF ReadBody, Conn
    <2>3. Head(inbox[own[c]]).of \in Requests
      BY <2>2, HeadFields
    <2> QED BY <1>9, <2>1, <2>2, <2>3, SessionAssumption
              DEF ReadBody, Conn, loopVars, HttpTypeOK, Jobs
  <1> QED BY <1>1, <1>2, <1>3, <1>4, <1>5, <1>6, <1>7, <1>8, <1>9 DEF LoopStep, UserStep


LEMMA ServerTypes ==
  ASSUME HttpTypeOK, NEW n \in Conns,
         Answer(n) \/ AnswerMalformed(n) \/ AnswerInterim(n) \/ PeerCloses(n)
  PROVE  HttpTypeOK'
  <1>0. /\ sent[n] # <<>> => Head(sent[n]) \in Requests /\ Tail(sent[n]) \in Seq(Requests)
        /\ inbox[n] \in Seq(Heads \cup Pieces)
    BY InboxFacts
  <1>1. \A r \in Requests : [of |-> r, part |-> "piece"] \in Heads \cup Pieces
    BY DEF Pieces
  <1>h. \A r \in Requests, k \in 0..MaxBody, close \in BOOLEAN :
          [of |-> r, part |-> "head", len |-> k, close |-> close] \in Heads \cup Pieces
    BY DEF Heads
  <1>2. CASE Answer(n)
    <2>1. PICK k \in 0..MaxBody, close \in BOOLEAN :
            /\ inbox' = [inbox EXCEPT ![n] =
                 Append(@, [of |-> Head(sent[n]), part |-> "head", len |-> k, close |-> close])
                   \o [i \in 1..k |-> [of |-> Head(sent[n]), part |-> "piece"]]]
            /\ peer' = IF close THEN [peer EXCEPT ![n] = "gone"] ELSE peer
      BY <1>2 DEF Answer
    <2>2. k \in Nat
      BY SessionAssumption
    <2> HIDE DEF Heads, Pieces
    <2>3. Append(inbox[n], [of |-> Head(sent[n]), part |-> "head", len |-> k, close |-> close])
            \o [i \in 1..k |-> [of |-> Head(sent[n]), part |-> "piece"]] \in Seq(Heads \cup Pieces)
      <3>1. [of |-> Head(sent[n]), part |-> "head", len |-> k, close |-> close]
              \in Heads \cup Pieces
        BY <1>0, <1>h, <1>2 DEF Answer
      <3>2. [of |-> Head(sent[n]), part |-> "piece"] \in Heads \cup Pieces
        BY <1>0, <1>1, <1>2 DEF Answer
      <3> DEFINE head  == [of |-> Head(sent[n]), part |-> "head", len |-> k, close |-> close]
                 piece == [of |-> Head(sent[n]), part |-> "piece"]
                 S == Heads \cup Pieces
      <3>3. head \in S /\ piece \in S /\ inbox[n] \in Seq(S)
        BY <1>0, <3>1, <3>2
      <3>4. ASSUME NEW T, NEW t \in Seq(T), NEW h \in T, NEW p \in T
            PROVE  Append(t, h) \o [i \in 1..k |-> p] \in Seq(T)
        BY <2>2, <3>4, AnswerFacts
      <3> HIDE DEF head, piece, S
      <3>5. Append(inbox[n], head) \o [i \in 1..k |-> piece] \in Seq(S)
        BY <3>3, <3>4
      <3> QED BY <3>5 DEF head, piece, S
    <2>4. inbox' \in [Conns -> Seq(Heads \cup Pieces)]
      BY <2>1, <2>3 DEF HttpTypeOK
    <2>5. sent' \in [Conns -> Seq(Requests)] /\ peer' \in [Conns -> {"up", "gone"}]
      BY <1>0, <1>2, <2>1 DEF Answer, HttpTypeOK
    <2> QED BY <1>2, <2>4, <2>5 DEF Answer, sessVars, loopVars, HttpTypeOK
  <1>3. CASE AnswerMalformed(n)
    <2>1. Append(inbox[n], [of |-> Head(sent[n]), part |-> "piece"]) \in Seq(Heads \cup Pieces)
      BY <1>0, <1>1, <1>3, AppendFacts DEF AnswerMalformed
    <2> QED BY <1>0, <1>3, <2>1 DEF AnswerMalformed, sessVars, loopVars, HttpTypeOK
  <1>4. CASE AnswerInterim(n)
    <2>1. sent[n] # <<>>
      BY <1>4 DEF AnswerInterim
    <2>2. <<[of |-> Head(sent[n]), part |-> "head", len |-> 0, close |-> FALSE]>>
            \in Seq(Heads \cup Pieces)
      <3>1. [of |-> Head(sent[n]), part |-> "head", len |-> 0, close |-> FALSE] \in Heads
        BY <1>0, <2>1, SessionAssumption DEF Heads
      <3> HIDE DEF Heads
      <3> QED BY <3>1
    <2> QED BY <1>4, <2>2 DEF AnswerInterim, sessVars, loopVars, HttpTypeOK
  <1>5. CASE PeerCloses(n)
    <2>1. PICK k \in 0..Len(inbox[n]) : inbox' = [inbox EXCEPT ![n] = SubSeq(@, 1, k)]
      BY <1>5 DEF PeerCloses
    <2>2. SubSeq(inbox[n], 1, k) \in Seq(Heads \cup Pieces)
      BY <1>0
    <2>3. <<>> \in Seq(Requests)
      OBVIOUS
    <2> QED BY <1>5, <2>1, <2>2, <2>3 DEF PeerCloses, sessVars, loopVars, HttpTypeOK
  <1> QED BY <1>2, <1>3, <1>4, <1>5

LEMMA HttpTypesNext ==
  ASSUME HandsInv, HttpTypeOK, LeaseHeld, [HttpNext]_httpVars PROVE HttpTypeOK'
  <1>1. CASE UNCHANGED httpVars
    BY <1>1 DEF httpVars, sessVars, loopVars, wireVars, HttpTypeOK
  <1>2. ASSUME NEW c \in Clients, PoolStep(c) PROVE HttpTypeOK'
    <2>1. CASE PoolOnly(c)
      BY <2>1 DEF PoolOnly, sessVars, loopVars, wireVars, HttpTypeOK
    <2>2. CASE Setup(c)
      BY <2>2 DEF Setup, sessVars, HttpTypeOK
    <2>3. CASE CloseTransport(c)
      <3>1. <<>> \in Seq(Requests) /\ <<>> \in Seq(Heads \cup Pieces)
        OBVIOUS
      <3> QED BY <2>3, <3>1 DEF CloseTransport, sessVars, loopVars, HttpTypeOK
    <2> QED BY <1>2, <2>1, <2>2, <2>3 DEF PoolStep
  <1> QED BY <1>1, <1>2, LoopTypes, ServerTypes DEF HttpNext

-----------------------------------------------------------------------------
(* A session has its lease, and a connection has its loops.                *)

LEMMA HttpLeaseNext ==
  ASSUME HandsInv, HttpTypeOK, LeaseHeld, [HttpNext]_httpVars PROVE LeaseHeld'
  <1>1. CASE UNCHANGED httpVars
    BY <1>1 DEF httpVars, poolVars, sessVars, LeaseHeld
  <1>2. ASSUME NEW c \in Clients, PoolStep(c) PROVE LeaseHeld'
    <2>1. CASE PoolOnly(c)
      <3>1. UNCHANGED job /\ OnlyTakes
        BY <2>1, PoolOnlyMoves DEF PoolOnly, sessVars
      <3> QED BY <3>1 DEF OnlyTakes, LeaseHeld
    <2>2. CASE Setup(c)
      BY <2>2 DEF Setup, SetupOK, sessVars, LeaseHeld, HandsInv, TypeOK
    <2>3. CASE CloseTransport(c)
      BY <2>3 DEF CloseTransport, CloseConn, sessVars, LeaseHeld, HandsInv, TypeOK
    <2> QED BY <1>2, <2>1, <2>2, <2>3 DEF PoolStep
  <1>3. ASSUME NEW c \in Clients, LoopStep(c) \/ UserStep(c) \/ Cancelled(c)
        PROVE  LeaseHeld'
    <2>1. CASE HandToWriter(c) \/ Cancelled(c)
      BY <2>1 DEF HandToWriter, Cancelled, poolVars, sessVars, LeaseHeld, HttpTypeOK,
         HandsInv, TypeOK
    <2>2. CASE WriteRequest(c) \/ PassToReader(c) \/ ReadResponse(c) \/ ReadBody(c)
      BY <2>2 DEF WriteRequest, PassToReader, ReadResponse, ReadBody, poolVars, LeaseHeld,
         HttpTypeOK
    <2>3. CASE WriteError(c) \/ ReadError(c) \/ CloseBody(c)
      <3>1. /\ ReleaseKeep(c) \/ ReleaseClose(c)
            /\ job' = [job EXCEPT ![c] = "idle"]
        BY <2>3 DEF WriteError, ReadError, CloseBody, SessionEnds
      <3>2. \A d \in Clients \ {c} : pc[d] = "use" => pc'[d] = "use"
        BY <3>1, ReleaseKeepMoves, ReleaseCloseMoves
      <3> QED BY <3>1, <3>2 DEF LeaseHeld, HttpTypeOK
    <2> QED BY <1>3, <2>1, <2>2, <2>3 DEF LoopStep, UserStep
  <1>4. ASSUME NEW n \in Conns,
               Answer(n) \/ AnswerMalformed(n) \/ AnswerInterim(n) \/ PeerCloses(n)
        PROVE  LeaseHeld'
    BY <1>4 DEF Answer, AnswerMalformed, AnswerInterim, PeerCloses, poolVars, sessVars,
       LeaseHeld
  <1> QED BY <1>1, <1>2, <1>3, <1>4 DEF HttpNext

(* A step that leaves the pool as it is frees no connection.               *)
LEMMA PoolSame ==
  ASSUME UNCHANGED poolVars PROVE \A n \in Conns : Free(n)' <=> Free(n)
  BY DEF poolVars, Free

LEMMA LoopsPool ==
  ASSUME HandsInv, HttpTypeOK, LeaseHeld, LoopsInv, NEW c \in Clients,
         PoolStep(c) \/ Cancelled(c)
  PROVE  LoopsInv'
  <1>0. \A n : n \in Conns => wloop[n] \in {"off", "idle", "busy"}
    BY DEF HttpTypeOK
  <1>1. CASE PoolOnly(c)
    <2>1. UNCHANGED <<job, wloop, rloop>> /\ OnlyTakes
      BY <1>1, PoolOnlyMoves DEF PoolOnly, sessVars, loopVars
    <2>2. \A d \in Clients : pc[d] # "use" => job[d] = "idle"
      BY DEF LeaseHeld
    <2>3. \A d \in Clients : pc'[d] = "use" => own[d] \in Conns
      <3> SUFFICES ASSUME NEW d \in Clients, pc'[d] = "use" PROVE own[d] \in Conns
        OBVIOUS
      <3>1. pc[d] = "use" \/ Free(own[d])
        BY <2>1 DEF OnlyTakes
      <3> QED BY <3>1 DEF Free, HandsInv, TypeOK, OwnByPc, Owning
    <2>4. ASSUME NEW d \in Clients, pc'[d] = "use", pc[d] # "use"
          PROVE  job'[d] = "idle" /\ own'[d] = own[d] /\ LoopsAt(own[d], "idle", "idle")
      BY <2>1, <2>2, <2>3, <2>4 DEF OnlyTakes, LoopsInv
    <2>5. ASSUME NEW d \in Clients, pc'[d] = "use", pc[d] = "use"
          PROVE  own'[d] = own[d]
      BY <2>1, <2>5 DEF OnlyTakes
    <2> QED BY <2>1, <2>4, <2>5 DEF LoopsInv, LoopsAt, OnlyTakes
  <1>2. CASE Setup(c)
    <2>1. /\ own[c] \in Conns /\ ~Free(own[c])
          /\ \A d \in Clients \ {c} : own[d] # own[c]
          /\ job[c] = "idle"
      BY <1>2, OwnerAlone DEF Setup, SetupOK, LeaseHeld, Owning
    <2>2. /\ pc' = [pc EXCEPT ![c] = "use"] /\ pc[c] = "setup"
          /\ UNCHANGED <<own, idleTicket, job>>
          /\ wloop' = [wloop EXCEPT ![own[c]] = "idle"]
          /\ rloop' = [rloop EXCEPT ![own[c]] = "idle"]
      BY <1>2 DEF Setup, SetupOK, sessVars
    <2>3. \A n \in Conns : Free(n)' => Free(n)
      BY <2>2 DEF Free, HandsInv, TypeOK
    <2> QED BY <2>1, <2>2, <2>3 DEF LoopsInv, LoopsAt, HttpTypeOK, HandsInv, TypeOK
  <1>3. CASE CloseTransport(c) \/ Cancelled(c)
    <2>1. /\ \E q \in PcStates \ {"got", "use"} : pc' = [pc EXCEPT ![c] = q]
          /\ own' = own \/ own' = [own EXCEPT ![c] = NoConn]
          /\ UNCHANGED <<idleTicket, job, wloop, rloop>>
      BY <1>3 DEF CloseTransport, CloseConn, Cancelled, sessVars, loopVars, PcStates
    <2>2. \A n \in Conns : Free(n)' => Free(n)
      BY <2>1 DEF Free, HandsInv, TypeOK
    <2> QED BY <2>1, <2>2 DEF LoopsInv, LoopsAt, HandsInv, TypeOK
  <1> QED BY <1>1, <1>2, <1>3 DEF PoolStep


LEMMA LoopsExchange ==
  ASSUME HandsInv, HttpTypeOK, LeaseHeld, LoopsInv, NEW c \in Clients,
         LoopStep(c) \/ UserStep(c)
  PROVE  LoopsInv'
  <1>0. /\ pc[c] = "use" /\ own[c] \in Conns /\ ~Free(own[c])
        /\ \A d \in Clients \ {c} : own[d] # own[c]
    <2>1. pc[c] = "use"
      BY DEF LoopStep, UserStep, HandToWriter, WriteRequest, WriteError, PassToReader,
         ReadResponse, ReadError, ReadBody, CloseBody, LeaseHeld
    <2> QED BY <2>1, OwnerAlone DEF Owning
  <1>1. CASE HandToWriter(c)
    <2>1. /\ job' = [job EXCEPT ![c] = "write"] /\ job[c] = "idle"
          /\ wloop' = [wloop EXCEPT ![own[c]] = "busy"]
          /\ UNCHANGED <<poolVars, rloop>>
      BY <1>1 DEF HandToWriter, Conn
    <2>2. \A n \in Conns : Free(n)' <=> Free(n)
      BY <2>1, PoolSame
    <2> QED BY <1>0, <2>1, <2>2 DEF poolVars, LoopsInv, LoopsAt, HttpTypeOK
  <1>2. CASE WriteRequest(c)
    <2>1. /\ job' = [job EXCEPT ![c] = "toread"] /\ job[c] = "write"
          /\ UNCHANGED <<poolVars, wloop, rloop>>
      BY <1>2 DEF WriteRequest, loopVars
    <2>2. \A n \in Conns : Free(n)' <=> Free(n)
      BY <2>1, PoolSame
    <2> QED BY <1>0, <2>1, <2>2 DEF poolVars, LoopsInv, LoopsAt, HttpTypeOK
  <1>3. CASE PassToReader(c)
    <2>1. /\ job' = [job EXCEPT ![c] = "read"] /\ job[c] = "toread"
          /\ wloop' = [wloop EXCEPT ![own[c]] = "idle"]
          /\ rloop' = [rloop EXCEPT ![own[c]] = "busy"]
          /\ UNCHANGED poolVars
      BY <1>3 DEF PassToReader, Conn
    <2>2. \A n \in Conns : Free(n)' <=> Free(n)
      BY <2>1, PoolSame
    <2> QED BY <1>0, <2>1, <2>2 DEF poolVars, LoopsInv, LoopsAt, HttpTypeOK
  <1>4. CASE ReadResponse(c)
    <2>1. /\ job' = [job EXCEPT ![c] = "body"] /\ job[c] = "read"
          /\ rloop' = [rloop EXCEPT ![own[c]] = "idle"]
          /\ UNCHANGED <<poolVars, wloop>>
      BY <1>4 DEF ReadResponse, Conn
    <2>2. \A n \in Conns : Free(n)' <=> Free(n)
      BY <2>1, PoolSame
    <2> QED BY <1>0, <2>1, <2>2 DEF poolVars, LoopsInv, LoopsAt, HttpTypeOK
  <1>5. CASE ReadBody(c)
    <2>1. UNCHANGED <<poolVars, job, wloop, rloop>>
      BY <1>5 DEF ReadBody, loopVars
    <2>2. \A n \in Conns : Free(n)' <=> Free(n)
      BY <2>1, PoolSame
    <2> QED BY <2>1, <2>2 DEF poolVars, LoopsInv, LoopsAt
  <1>6. CASE WriteError(c) \/ ReadError(c)
    <2>1. /\ ReleaseClose(c) /\ job' = [job EXCEPT ![c] = "idle"]
          /\ \A n \in Conns \ {own[c]} : wloop'[n] = wloop[n] /\ rloop'[n] = rloop[n]
      BY <1>6 DEF WriteError, ReadError, SessionEnds, Conn, HttpTypeOK
    <2>2. /\ \A n \in Conns : Free(n)' => Free(n)
          /\ pc'[c] # "use"
          /\ \A d \in Clients \ {c} :
               (pc'[d] = "use" <=> pc[d] = "use") /\ (pc[d] = "use" => own'[d] = own[d])
      BY <2>1, ReleaseCloseMoves
    <2>3. \A n \in Conns : Free(n)' => LoopsAt(n, "idle", "idle")'
      BY <1>0, <2>1, <2>2 DEF LoopsInv, LoopsAt
    <2>4. ASSUME NEW d \in Clients, pc'[d] = "use"
          PROVE  /\ own'[d] = own[d] /\ job'[d] = job[d] /\ pc[d] = "use"
                 /\ wloop'[own[d]] = wloop[own[d]] /\ rloop'[own[d]] = rloop[own[d]]
      <3>1. d # c /\ pc[d] = "use"
        BY <2>2, <2>4
      <3>2. own[d] \in Conns \ {own[c]}
        BY <1>0, <3>1, OwnerAlone DEF Owning
      <3> QED BY <2>1, <2>2, <3>1, <3>2 DEF HttpTypeOK
    <2> QED BY <2>3, <2>4 DEF LoopsInv, LoopsAt
  <1>7. CASE CloseBody(c)
    <2>1. /\ ReleaseKeep(c) \/ ReleaseClose(c)
          /\ job' = [job EXCEPT ![c] = "idle"] /\ job[c] = "body"
          /\ UNCHANGED <<wloop, rloop>>
      BY <1>7 DEF CloseBody, SessionEnds, loopVars
    <2>2. /\ \A n \in Conns : Free(n)' => Free(n) \/ n = own[c]
          /\ pc'[c] # "use"
          /\ \A d \in Clients \ {c} :
               (pc'[d] = "use" <=> pc[d] = "use") /\ (pc[d] = "use" => own'[d] = own[d])
      BY <2>1, ReleaseKeepMoves, ReleaseCloseMoves
    <2>3. LoopsAt(own[c], "idle", "idle")
      BY <1>0, <2>1 DEF LoopsInv
    <2>4. \A n \in Conns : Free(n)' => LoopsAt(n, "idle", "idle")'
      BY <2>1, <2>2, <2>3 DEF LoopsInv, LoopsAt
    <2>5. \A d \in Clients : pc'[d] = "use" =>
            own'[d] = own[d] /\ job'[d] = job[d] /\ pc[d] = "use"
      BY <2>1, <2>2 DEF HttpTypeOK
    <2> QED BY <2>1, <2>4, <2>5 DEF LoopsInv, LoopsAt
  <1> QED BY <1>1, <1>2, <1>3, <1>4, <1>5, <1>6, <1>7 DEF LoopStep, UserStep

LEMMA HttpLoopsNext ==
  ASSUME HandsInv, HttpTypeOK, LeaseHeld, LoopsInv, [HttpNext]_httpVars
  PROVE  LoopsInv'
  <1>1. CASE UNCHANGED <<poolVars, job, wloop, rloop>>
    <2>1. \A n \in Conns : Free(n)' <=> Free(n)
      BY <1>1, PoolSame
    <2> QED BY <1>1, <2>1 DEF poolVars, LoopsInv, LoopsAt
  <1>2. ASSUME NEW n \in Conns,
               Answer(n) \/ AnswerMalformed(n) \/ AnswerInterim(n) \/ PeerCloses(n)
        PROVE  UNCHANGED <<poolVars, job, wloop, rloop>>
    BY <1>2 DEF Answer, AnswerMalformed, AnswerInterim, PeerCloses, sessVars, loopVars
  <1>3. UNCHANGED httpVars => UNCHANGED <<poolVars, job, wloop, rloop>>
    BY DEF httpVars, sessVars, loopVars
  <1> QED BY <1>1, <1>2, <1>3, LoopsPool, LoopsExchange DEF HttpNext

SessionInv == HandsInv /\ HttpTypeOK /\ LeaseHeld /\ LoopsInv

LEMMA InitSession == HttpInit => SessionInv
  <1> SUFFICES ASSUME HttpInit PROVE SessionInv
    OBVIOUS
  <1>1. HandsInv
    BY InitHands DEF HttpInit
  <1>2. HttpTypeOK
    BY SessionAssumption DEF HttpInit, HttpTypeOK, Jobs
  <1>3. LeaseHeld
    BY DEF HttpInit, LeaseHeld
  <1>4. LoopsInv
    BY DEF HttpInit, Init, LoopsInv, Free
  <1> QED BY <1>1, <1>2, <1>3, <1>4 DEF SessionInv

LEMMA SpecSession == HttpSpec => []SessionInv
  <1>1. SessionInv /\ [HttpNext]_httpVars => SessionInv'
    BY HttpHandsNext, HttpTypesNext, HttpLeaseNext, HttpLoopsNext DEF SessionInv
  <1> QED BY InitSession, <1>1, PTL DEF HttpSpec

(* Type correctness of the exchanges, whatever the server sends.           *)
THEOREM Http1TypeOK == HttpSpec => []HttpTypeOK
  <1>1. SessionInv => HttpTypeOK
    BY DEF SessionInv
  <1> QED BY SpecSession, <1>1, PTL

(* Neither the loops nor the pool release a session behind its back, and   *)
(* no error path releases it twice.                                        *)
THEOREM Http1LeaseHeld == HttpSpec => []LeaseHeld
  <1>1. SessionInv => LeaseHeld
    BY DEF SessionInv
  <1> QED BY SpecSession, <1>1, PTL

(* Whoever leaves Pool.Connect with a connection finds both of its loops   *)
(* waiting: no loop that has ended is met again, none serves two sessions. *)
THEOREM Http1LoopsServe == HttpSpec => []LoopsServe
  <1>1. SessionInv => LoopsServe
    BY DEF SessionInv, LoopsInv, LoopsAt, LoopsServe
  <1> QED BY SpecSession, <1>1, PTL

-----------------------------------------------------------------------------
(* What is on the wire. A step is harmless to a session that keeps its     *)
(* connection, and to what that connection carries.                        *)

Untouched(d) ==
  /\ own'[d] = own[d] /\ job'[d] = job[d] /\ pc[d] = "use"
  /\ reqno'[d] = reqno[d] /\ remaining'[d] = remaining[d] /\ resp'[d] = resp[d]
  /\ sent'[own[d]] = sent[own[d]] /\ inbox'[own[d]] = inbox[own[d]]

SessionWire(c) ==
  /\ job[c] \in {"idle", "write"} => Clean(own[c])
  /\ job[c] \in {"toread", "read"} => Answering(c)
  /\ job[c] = "body" => Answered(c)

Unused(n) == live[n] \in {"none", "dialed", "closed"} \/ Free(n)

LEMMA UntouchedWire ==
  ASSUME WireInv, NEW d \in Clients, Untouched(d)
  PROVE  SessionWire(d)'
  <1> USE DEF Untouched
  <1>1. SessionWire(d)
    BY DEF WireInv, SessionWire
  <1>2. Clean(own[d]) => Clean(own[d])'
    BY DEF Clean
  <1>3. Request(d)' = Request(d)
    BY DEF Request
  <1>4. Answering(d) => Answering(d)'
    BY <1>3 DEF Answering
  <1>5. Answered(d) => Answered(d)'
    BY <1>3 DEF Answered
  <1> QED BY <1>1, <1>2, <1>4, <1>5 DEF SessionWire

(* Enough to show of a step: what it does to the connections without a     *)
(* user, and to the sessions it touches.                                   *)
LEMMA WireStep ==
  ASSUME WireInv,
         \A n \in Conns : Unused(n)' => Clean(n)',
         \A d \in Clients : pc'[d] = "use" => Untouched(d) \/ SessionWire(d)'
  PROVE  WireInv'
  <1>1. \A d \in Clients : pc'[d] = "use" => SessionWire(d)'
    BY UntouchedWire
  <1> QED BY <1>1 DEF WireInv, SessionWire, Unused

LEMMA WirePool ==
  ASSUME SessionInv, WireInv, NEW c \in Clients, PoolStep(c) \/ Cancelled(c)
  PROVE  WireInv'
  <1> USE DEF SessionInv
  <1>1. CASE PoolOnly(c)
    <2>1. UNCHANGED <<sessVars, wireVars>> /\ OnlyTakes
      BY <1>1, PoolOnlyMoves DEF PoolOnly
    <2>2. \A n \in Conns : Unused(n)' => Clean(n)'
      BY <2>1 DEF OnlyTakes, Unused, WireInv, Clean, wireVars
    <2>3. ASSUME NEW d \in Clients, pc'[d] = "use"
          PROVE  Untouched(d) \/ SessionWire(d)'
      <3>1. own'[d] = own[d] /\ (pc[d] = "use" \/ Free(own[d]))
        BY <2>1, <2>3 DEF OnlyTakes
      <3>2. CASE pc[d] = "use"
        BY <2>1, <3>1, <3>2 DEF Untouched, sessVars, wireVars
      <3>3. CASE pc[d] # "use" /\ Free(own[d])
        <4>1. own[d] \in Conns
          BY <3>3 DEF Free, HandsInv, TypeOK, OwnByPc, Owning
        <4>2. Clean(own[d]) /\ job[d] = "idle"
          BY <3>3, <4>1 DEF WireInv, LeaseHeld
        <4> QED BY <2>1, <3>1, <4>2 DEF SessionWire, Clean, sessVars, wireVars
      <3> QED BY <3>1, <3>2, <3>3
    <2> QED BY <2>2, <2>3, WireStep
  <1>2. CASE Setup(c)
    <2>1. /\ own[c] \in Conns /\ live[own[c]] = "dialed" /\ job[c] = "idle"
      BY <1>2, OwnerAlone DEF Setup, SetupOK, LeaseHeld, HandsInv, OwnByPc, Owning
    <2>2. /\ pc' = [pc EXCEPT ![c] = "use"] /\ live' = [live EXCEPT ![own[c]] = "open"]
          /\ UNCHANGED <<own, idleTicket, sessVars, sent, inbox>> /\ pc[c] = "setup"
      BY <1>2 DEF Setup, SetupOK
    <2>3. \A n \in Conns : Unused(n)' => Unused(n)
      BY <2>1, <2>2 DEF Unused, Free, HandsInv, TypeOK
    <2>4. \A n \in Conns : Unused(n)' => Clean(n)'
      BY <2>2, <2>3 DEF WireInv, Unused, Clean
    <2>5. ASSUME NEW d \in Clients, pc'[d] = "use"
          PROVE  Untouched(d) \/ SessionWire(d)'
      <3>1. CASE d = c
        BY <2>1, <2>2, <3>1 DEF SessionWire, WireInv, Clean, sessVars
      <3>2. CASE d # c
        BY <2>2, <2>5, <3>2 DEF Untouched, sessVars
      <3> QED BY <3>1, <3>2
    <2> QED BY <2>4, <2>5, WireStep
  <1>3. CASE CloseTransport(c)
    <2>1. /\ own[c] \in Conns /\ ~Free(own[c])
          /\ \A d \in Clients \ {c} : own[d] # own[c]
      BY <1>3, OwnerAlone DEF CloseTransport, CloseConn, Owning
    <2>2. /\ pc'[c] # "use" /\ \A d \in Clients \ {c} : pc'[d] = pc[d]
          /\ pc[c] \in {"evict", "retire"} /\ pc'[c] # "got"
          /\ \A n \in Conns \ {own[c]} :
               live'[n] = live[n] /\ sent'[n] = sent[n] /\ inbox'[n] = inbox[n]
          /\ sent'[own[c]] = <<>> /\ inbox'[own[c]] = <<>>
          /\ UNCHANGED <<own, idleTicket, sessVars>>
      BY <1>3, <2>1 DEF CloseTransport, CloseConn, HttpTypeOK, HandsInv, TypeOK
    <2>3. \A n \in Conns : Unused(n)' => Clean(n)'
      <3>1. \A n \in Conns : Free(n)' => Free(n)
        BY <2>2 DEF Free
      <3> QED BY <2>2, <3>1 DEF WireInv, Unused, Clean
    <2>4. ASSUME NEW d \in Clients, pc'[d] = "use" PROVE Untouched(d)
      <3>1. d # c /\ pc[d] = "use"
        BY <2>2, <2>4
      <3>2. own[d] \in Conns \ {own[c]}
        BY <2>1, <3>1, OwnerAlone DEF Owning
      <3> QED BY <2>2, <3>1, <3>2 DEF Untouched, sessVars
    <2> QED BY <2>3, <2>4, WireStep
  <1>4. CASE Cancelled(c)
    <2>1. /\ pc'[c] = "out" /\ \A d \in Clients \ {c} : pc'[d] = pc[d] /\ own'[d] = own[d]
          /\ UNCHANGED <<live, idleTicket, sessVars, wireVars>>
      BY <1>4 DEF Cancelled, HandsInv, TypeOK
    <2>2. \A n \in Conns : Unused(n)' => Unused(n)
      BY <2>1 DEF Unused, Free
    <2>3. \A n \in Conns : Unused(n)' => Clean(n)'
      BY <2>1, <2>2 DEF WireInv, Unused, Clean, wireVars
    <2>4. ASSUME NEW d \in Clients, pc'[d] = "use" PROVE Untouched(d)
      BY <2>1, <2>4 DEF Untouched, sessVars, wireVars
    <2> QED BY <2>3, <2>4, WireStep
  <1> QED BY <1>1, <1>2, <1>3, <1>4 DEF PoolStep


LEMMA WireExchange ==
  ASSUME SessionInv, WireInv, ~EarlyClose, NEW c \in Clients, LoopStep(c) \/ UserStep(c)
  PROVE  WireInv'
  <1> USE DEF SessionInv
  <1>0. /\ pc[c] = "use" /\ own[c] \in Conns /\ ~Free(own[c])
        /\ \A d \in Clients \ {c} : own[d] # own[c]
    <2>1. pc[c] = "use"
      BY DEF LoopStep, UserStep, HandToWriter, WriteRequest, WriteError, PassToReader,
         ReadResponse, ReadError, ReadBody, CloseBody, LeaseHeld
    <2> QED BY <2>1, OwnerAlone DEF Owning
  <1>w. SessionWire(c) /\ \A n \in Conns : Unused(n) => Clean(n)
    BY <1>0 DEF WireInv, SessionWire, Unused
  <1>s. /\ sent[own[c]] \in Seq(Requests) /\ Len(inbox[own[c]]) \in Nat
        /\ live[own[c]] = "open" /\ ~Unused(own[c])
    BY <1>0, InboxFacts DEF Unused, HandsInv, OwnByPc
  <1>u. ASSUME UNCHANGED poolVars,
               \A d \in Clients \ {c} : job'[d] = job[d] /\ reqno'[d] = reqno[d]
                                        /\ remaining'[d] = remaining[d] /\ resp'[d] = resp[d],
               \A n \in Conns \ {own[c]} : sent'[n] = sent[n] /\ inbox'[n] = inbox[n],
               SessionWire(c)'
        PROVE  WireInv'
    <2>1. \A n \in Conns : Unused(n)' <=> Unused(n)
      BY <1>u, PoolSame DEF poolVars, Unused
    <2>2. \A n \in Conns : Unused(n)' => Clean(n)'
      BY <1>u, <1>w, <1>s, <2>1 DEF Clean
    <2>3. ASSUME NEW d \in Clients, pc'[d] = "use"
          PROVE  Untouched(d) \/ SessionWire(d)'
      <3>1. CASE d = c
        BY <1>u, <3>1
      <3>2. CASE d # c
        <4>1. own[d] \in Conns \ {own[c]} /\ pc[d] = "use"
          BY <1>0, <1>u, <2>3, <3>2, OwnerAlone DEF poolVars, Owning
        <4> QED BY <1>u, <3>2, <4>1 DEF poolVars, Untouched
      <3> QED BY <3>1, <3>2
    <2> QED BY <2>2, <2>3, WireStep
  <1>1. CASE HandToWriter(c)
    <2>1. /\ job' = [job EXCEPT ![c] = "write"] /\ job[c] = "idle"
          /\ reqno' = [reqno EXCEPT ![c] = 1 - @]
          /\ UNCHANGED <<poolVars, remaining, resp, sent, inbox>>
      BY <1>1 DEF HandToWriter, wireVars
    <2>2. SessionWire(c)'
      BY <1>w, <2>1 DEF SessionWire, Clean, HttpTypeOK, poolVars
    <2> QED BY <1>u, <2>1, <2>2 DEF HttpTypeOK
  <1>2. CASE WriteRequest(c)
    <2>1. /\ job' = [job EXCEPT ![c] = "toread"] /\ job[c] = "write"
          /\ \A n \in Conns \ {own[c]} : sent'[n] = sent[n]
          /\ sent'[own[c]] \in {sent[own[c]], Append(sent[own[c]], Request(c))}
          /\ UNCHANGED <<poolVars, remaining, reqno, resp, inbox>>
      BY <1>0, <1>2 DEF WriteRequest, Conn, HttpTypeOK
    <2>2. sent[own[c]] = <<>> /\ inbox[own[c]] = <<>>
      BY <1>w, <2>1 DEF SessionWire, Clean
    <2>3. \A i \in 1..Len(sent'[own[c]]) : i = 1 /\ sent'[own[c]][i] = Request(c)
      BY <2>1, <2>2
    <2>4. own' = own /\ Request(c)' = Request(c) /\ job'[c] = "toread"
      BY <2>1 DEF poolVars, Request, HttpTypeOK
    <2>5. SessionWire(c)'
      BY <2>1, <2>2, <2>3, <2>4 DEF SessionWire, Answering
    <2> QED BY <1>u, <2>1, <2>5 DEF HttpTypeOK
  <1>3. CASE PassToReader(c)
    <2>1. /\ job' = [job EXCEPT ![c] = "read"] /\ job[c] = "toread"
          /\ UNCHANGED <<poolVars, remaining, reqno, resp, sent, inbox>>
      BY <1>3 DEF PassToReader, wireVars
    <2>2. Answering(c)'
      BY <1>w, <2>1 DEF SessionWire, Answering, Request, poolVars
    <2>3. SessionWire(c)'
      BY <2>1, <2>2 DEF SessionWire, HttpTypeOK
    <2> QED BY <1>u, <2>1, <2>3 DEF HttpTypeOK
  <1>4. CASE ReadResponse(c)
    <2> DEFINE n == own[c]
    <2>1. /\ job' = [job EXCEPT ![c] = "body"] /\ job[c] = "read"
          /\ inbox[n] # <<>> /\ Head(inbox[n]).part = "head"
          /\ remaining' = [remaining EXCEPT ![c] = Head(inbox[n]).len]
          /\ resp' = [resp EXCEPT ![c] = {Head(inbox[n]).of}]
          /\ inbox' = [inbox EXCEPT ![n] = Tail(@)]
          /\ UNCHANGED <<poolVars, reqno, sent>>
      BY <1>4 DEF ReadResponse, Conn
    <2>2. Answering(c)
      BY <1>w, <2>1 DEF SessionWire
    <2>3. /\ Head(inbox[n]) = inbox[n][1] /\ Len(inbox[n]) >= 1
          /\ Len(Tail(inbox[n])) = Len(inbox[n]) - 1
          /\ \A i \in 1..Len(Tail(inbox[n])) :
               i + 1 \in 1..Len(inbox[n]) /\ Tail(inbox[n])[i] = inbox[n][i+1]
      BY <1>0, <2>1, InboxFacts
    <2>4. /\ sent[n] = <<>> /\ Head(inbox[n]).of = Request(c)
          /\ \A i \in 1..Len(Tail(inbox[n])) : Tail(inbox[n])[i].of = Request(c)
          /\ Len(Tail(inbox[n])) <= Head(inbox[n]).len
      BY <1>s, <2>1, <2>2, <2>3 DEF Answering
    <2>5. /\ own'[c] = n /\ Request(c)' = Request(c) /\ job'[c] = "body"
          /\ inbox'[n] = Tail(inbox[n]) /\ sent'[n] = sent[n]
          /\ remaining'[c] = Head(inbox[n]).len /\ resp'[c] = {Head(inbox[n]).of}
      BY <1>0, <2>1 DEF poolVars, Request, HttpTypeOK
    <2>6. SessionWire(c)'
      BY <2>4, <2>5 DEF SessionWire, Answered
    <2> QED BY <1>u, <2>1, <2>6 DEF HttpTypeOK
  <1>5. CASE ReadBody(c)
    <2> DEFINE n == own[c]
    <2>1. /\ job[c] = "body" /\ remaining[c] > 0 /\ inbox[n] # <<>>
          /\ remaining' = [remaining EXCEPT ![c] = @ - 1]
          /\ resp' = [resp EXCEPT ![c] = @ \cup {Head(inbox[n]).of}]
          /\ inbox' = [inbox EXCEPT ![n] = Tail(@)]
          /\ UNCHANGED <<poolVars, job, reqno, sent>>
      BY <1>5 DEF ReadBody, Conn
    <2>2. Answered(c)
      BY <1>w, <2>1 DEF SessionWire
    <2>3. /\ Head(inbox[n]) = inbox[n][1] /\ Len(inbox[n]) >= 1
          /\ Len(Tail(inbox[n])) = Len(inbox[n]) - 1
          /\ \A i \in 1..Len(Tail(inbox[n])) :
               i + 1 \in 1..Len(inbox[n]) /\ Tail(inbox[n])[i] = inbox[n][i+1]
      BY <1>0, <2>1, InboxFacts
    <2>4. /\ sent[n] = <<>> /\ Head(inbox[n]).of = Request(c)
          /\ \A i \in 1..Len(Tail(inbox[n])) : Tail(inbox[n])[i].of = Request(c)
          /\ Len(Tail(inbox[n])) <= remaining[c] - 1
          /\ resp[c] \subseteq {Request(c)}
      BY <1>s, <2>1, <2>2, <2>3 DEF Answered, HttpTypeOK
    <2>5. /\ own'[c] = n /\ Request(c)' = Request(c) /\ job'[c] = "body"
          /\ inbox'[n] = Tail(inbox[n]) /\ sent'[n] = sent[n]
          /\ remaining'[c] = remaining[c] - 1
          /\ resp'[c] = resp[c] \cup {Head(inbox[n]).of}
      BY <1>0, <2>1 DEF poolVars, Request, HttpTypeOK
    <2>6. SessionWire(c)'
      BY <2>4, <2>5 DEF SessionWire, Answered
    <2> QED BY <1>u, <2>1, <2>6 DEF HttpTypeOK
  <1>6. CASE WriteError(c) \/ ReadError(c) \/ CloseBody(c)
    <2>1. /\ ReleaseKeep(c) \/ ReleaseClose(c)
          /\ SessionEnds(c)
          /\ UNCHANGED <<reqno, sent, inbox>>
      BY <1>6 DEF WriteError, ReadError, CloseBody, wireVars
    <2>2. ReleaseClose(c) \/ Clean(own[c])
      <3> SUFFICES ASSUME ~ReleaseClose(c) PROVE Clean(own[c])
        OBVIOUS
      <3>1. job[c] = "body" /\ (remaining[c] = 0 \/ inbox[own[c]] = <<>>)
        BY <1>6 DEF WriteError, ReadError, CloseBody, BodyEnded, Conn
      <3>2. Answered(c)
        BY <1>w, <3>1 DEF SessionWire
      <3>3. inbox[own[c]] = <<>>
        BY <1>0, <1>s, <3>1, <3>2, InboxFacts DEF Answered
      <3> QED BY <3>2, <3>3 DEF Answered, Clean
    <2>3. /\ \A n \in Conns : Free(n)' => Free(n) \/ (n = own[c] /\ Clean(n))
          /\ pc'[c] # "use"
          /\ \A d \in Clients \ {c} :
               (pc'[d] = "use" <=> pc[d] = "use") /\ (pc[d] = "use" => own'[d] = own[d])
          /\ UNCHANGED live
      <3>1. CASE ReleaseClose(c)
        BY <3>1, ReleaseCloseMoves
      <3>2. CASE ReleaseKeep(c) /\ Clean(own[c])
        BY <3>2, ReleaseKeepMoves
      <3> QED BY <2>1, <2>2, <3>1, <3>2
    <2>4. \A n \in Conns : Unused(n)' => Clean(n)
      BY <1>w, <2>3 DEF Unused
    <2>5. \A n \in Conns : Unused(n)' => Clean(n)'
      BY <2>1, <2>4 DEF Clean
    <2>6. ASSUME NEW d \in Clients, pc'[d] = "use" PROVE Untouched(d)
      BY <2>1, <2>3, <2>6 DEF Untouched, SessionEnds, HttpTypeOK
    <2> QED BY <2>5, <2>6, WireStep
  <1> QED BY <1>1, <1>2, <1>3, <1>4, <1>5, <1>6 DEF LoopStep, UserStep


(* Answer sends a head and then as many pieces as the head announces.      *)
LEMMA AnswerArrives ==
  ASSUME NEW r, NEW k \in Nat, NEW close
  PROVE  LET head  == [of |-> r, part |-> "head", len |-> k, close |-> close]
             piece == [of |-> r, part |-> "piece"]
             s     == Append(<<>>, head) \o [i \in 1..k |-> piece]
         IN  /\ Len(s) = k + 1
             /\ s[1] = head
             /\ \A i \in 1..Len(s) : s[i].of = r
  <1> DEFINE head  == [of |-> r, part |-> "head", len |-> k, close |-> close]
             piece == [of |-> r, part |-> "piece"]
             S     == {head, piece}
             s     == Append(<<>>, head) \o [i \in 1..k |-> piece]
  <1>1. head.of = r /\ piece.of = r
    OBVIOUS
  <1>2. head \in S /\ piece \in S
    OBVIOUS
  <1> HIDE DEF head, piece, S
  <1>3. <<>> \in Seq(S)
    OBVIOUS
  <1>4. Len(s) = k + 1 /\ s[1] = head /\ \A i \in 2..(k + 1) : s[i] = piece
    BY <1>2, <1>3, AnswerFacts
  <1> HIDE DEF s
  <1>5. \A i \in 1..Len(s) : s[i].of = r
    <2> SUFFICES ASSUME NEW i \in 1..Len(s) PROVE s[i].of = r
      OBVIOUS
    <2>1. i = 1 \/ i \in 2..(k + 1)
      BY <1>4
    <2> QED BY <1>1, <1>4, <2>1
  <1> QED BY <1>4, <1>5 DEF head, piece, s

LEMMA WireServer ==
  ASSUME SessionInv, WireInv, ~Interim, NEW n \in Conns,
         Answer(n) \/ AnswerMalformed(n) \/ AnswerInterim(n) \/ PeerCloses(n)
  PROVE  WireInv'
  <1> USE DEF SessionInv
  <1>0. /\ UNCHANGED <<poolVars, sessVars>>
        /\ \A m \in Conns \ {n} : sent'[m] = sent[m] /\ inbox'[m] = inbox[m]
    BY DEF Answer, AnswerMalformed, AnswerInterim, PeerCloses, HttpTypeOK
  <1>t. /\ sent[n] \in Seq(Requests) /\ Len(sent[n]) \in Nat
        /\ inbox[n] \in Seq(Heads \cup Pieces) /\ Len(inbox[n]) \in Nat
    BY InboxFacts
  <1>u. ASSUME Clean(n) => Clean(n)',
               \A c \in Clients : pc[c] = "use" /\ own[c] = n /\ SessionWire(c) => SessionWire(c)'
        PROVE  WireInv'
    <2>1. \A m \in Conns : Unused(m)' <=> Unused(m)
      BY <1>0, PoolSame DEF poolVars, Unused
    <2>2. \A m \in Conns : Unused(m)' => Clean(m)'
      <3> SUFFICES ASSUME NEW m \in Conns, Unused(m) PROVE Clean(m)'
        BY <2>1
      <3>1. Clean(m)
        BY DEF WireInv, Unused
      <3>2. CASE m = n
        BY <1>u, <3>1, <3>2
      <3>3. CASE m # n
        BY <1>0, <3>1, <3>3 DEF Clean
      <3> QED BY <3>2, <3>3
    <2>3. ASSUME NEW d \in Clients, pc'[d] = "use"
          PROVE  Untouched(d) \/ SessionWire(d)'
      <3>1. pc[d] = "use" /\ own[d] \in Conns /\ SessionWire(d)
        BY <1>0, <2>3, OwnerAlone DEF poolVars, Owning, WireInv, SessionWire
      <3>2. CASE own[d] = n
        BY <1>u, <3>1, <3>2
      <3>3. CASE own[d] # n
        BY <1>0, <3>1, <3>3 DEF poolVars, sessVars, Untouched
      <3> QED BY <3>2, <3>3
    <2> QED BY <2>2, <2>3, WireStep
  <1>a. ASSUME sent[n] # <<>>,
               sent'[n] = Tail(sent[n]),
               NEW k \in Nat,
               inbox[n] = <<>> => /\ Len(inbox'[n]) = k + 1
                                  /\ inbox'[n][1].part = "head" => inbox'[n][1].len = k
                                  /\ \A i \in 1..Len(inbox'[n]) : inbox'[n][i].of = sent[n][1]
        PROVE  WireInv'
    <2>1. ~Clean(n)
      BY <1>a DEF Clean
    <2>2. ASSUME NEW c \in Clients, pc[c] = "use", own[c] = n, SessionWire(c)
          PROVE  SessionWire(c)'
      <3>1. job[c] \in {"toread", "read"} /\ Answering(c)
        BY <1>a, <2>2, <2>1 DEF SessionWire, Answered, HttpTypeOK, Jobs
      <3>2. Len(sent[n]) = 1 /\ sent[n][1] = Request(c) /\ inbox[n] = <<>>
        <4>1. 1 \in 1..Len(sent[n]) /\ Len(sent[n]) \in 1..Len(sent[n])
          BY <1>a, <1>t
        <4> QED BY <1>a, <1>t, <2>2, <3>1, <4>1 DEF Answering
      <3>3. sent'[n] = <<>>
        <4>1. Tail(sent[n]) \in Seq(Requests) /\ Len(Tail(sent[n])) = 0
          BY <1>a, <3>2, InboxFacts
        <4> HIDE DEF Requests
        <4>2. \A S : \A t \in Seq(S) : Len(t) = 0 => t = <<>>
          OBVIOUS
        <4> QED BY <1>a, <4>1, <4>2
      <3>4. /\ own'[c] = n /\ job'[c] = job[c] /\ Request(c)' = Request(c)
        BY <1>0, <2>2 DEF poolVars, sessVars, Request
      <3>5. Answering(c)'
        BY <1>a, <3>2, <3>3, <3>4 DEF Answering
      <3> QED BY <3>1, <3>4, <3>5 DEF SessionWire
    <2> QED BY <1>u, <2>1, <2>2
  <1>1. CASE Answer(n)
    <2>1. PICK k \in 0..MaxBody, close \in BOOLEAN :
            inbox' = [inbox EXCEPT ![n] =
              Append(@, [of |-> Head(sent[n]), part |-> "head", len |-> k, close |-> close])
                \o [i \in 1..k |-> [of |-> Head(sent[n]), part |-> "piece"]]]
      BY <1>1 DEF Answer
    <2>2. k \in Nat /\ sent[n] # <<>> /\ sent'[n] = Tail(sent[n]) /\ Head(sent[n]) = sent[n][1]
      BY <1>1, <1>t, SessionAssumption DEF Answer, HttpTypeOK
    <2>3. inbox[n] = <<>> =>
            inbox'[n] = Append(<<>>, [of |-> sent[n][1], part |-> "head", len |-> k,
                                      close |-> close])
                          \o [i \in 1..k |-> [of |-> sent[n][1], part |-> "piece"]]
      BY <2>1, <2>2 DEF HttpTypeOK
    <2>4. inbox[n] = <<>> => /\ Len(inbox'[n]) = k + 1
                             /\ inbox'[n][1].part = "head" => inbox'[n][1].len = k
                             /\ \A i \in 1..Len(inbox'[n]) : inbox'[n][i].of = sent[n][1]
      BY <2>2, <2>3, AnswerArrives
    <2> QED BY <1>a, <2>2, <2>4
  <1>2. CASE AnswerMalformed(n)
    <2>1. sent[n] # <<>> /\ sent'[n] = Tail(sent[n]) /\ Head(sent[n]) = sent[n][1]
      BY <1>2, <1>t DEF AnswerMalformed, HttpTypeOK
    <2>2. inbox[n] = <<>> => inbox'[n] = <<[of |-> sent[n][1], part |-> "piece"]>>
      BY <1>2, <2>1 DEF AnswerMalformed, HttpTypeOK
    <2>3. inbox[n] = <<>> => /\ Len(inbox'[n]) = 0 + 1
                             /\ inbox'[n][1].part = "head" => inbox'[n][1].len = 0
                             /\ \A i \in 1..Len(inbox'[n]) : inbox'[n][i].of = sent[n][1]
      <3> DEFINE piece == [of |-> sent[n][1], part |-> "piece"]
      <3>1. piece.of = sent[n][1] /\ piece.part = "piece"
        OBVIOUS
      <3>2. inbox[n] = <<>> => inbox'[n] = <<piece>>
        BY <2>2
      <3> HIDE DEF piece
      <3>3. Len(<<piece>>) = 1 /\ <<piece>>[1] = piece
        OBVIOUS
      <3>4. piece.part # "head"
        BY <3>1
      <3>5. \A i \in 1..Len(<<piece>>) : <<piece>>[i] = piece
        OBVIOUS
      <3>6. CASE inbox[n] = <<>>
        BY <3>1, <3>2, <3>3, <3>4, <3>5, <3>6
      <3> QED BY <3>6
    <2> QED BY <1>a, <2>1, <2>3
  <1>3. CASE PeerCloses(n)
    <2>1. PICK k \in 0..Len(inbox[n]) : inbox' = [inbox EXCEPT ![n] = SubSeq(@, 1, k)]
      BY <1>3 DEF PeerCloses
    <2>2. /\ sent'[n] = <<>> /\ Len(inbox'[n]) = k /\ k \in Nat /\ k <= Len(inbox[n])
          /\ \A i \in 1..k : i \in 1..Len(inbox[n]) /\ inbox'[n][i] = inbox[n][i]
          /\ inbox'[n] \in Seq(Heads \cup Pieces)
      BY <1>3, <1>t, <2>1 DEF PeerCloses, HttpTypeOK
    <2>3. inbox[n] = <<>> => inbox'[n] = <<>>
      BY <1>t, <2>2
    <2>4. inbox'[n] # <<>> => k >= 1 /\ inbox[n] # <<>> /\ inbox'[n][1] = inbox[n][1]
      <3> SUFFICES ASSUME inbox'[n] # <<>> PROVE k >= 1
        BY <2>2, <2>3
      <3>1. k # 0
        BY <2>2
      <3> QED BY <2>2, <3>1
    <2>5. Clean(n) => Clean(n)'
      BY <2>2, <2>3 DEF Clean
    <2>6. ASSUME NEW c \in Clients, pc[c] = "use", own[c] = n, SessionWire(c)
          PROVE  SessionWire(c)'
      <3>1. /\ own'[c] = n /\ job'[c] = job[c] /\ Request(c)' = Request(c)
            /\ remaining'[c] = remaining[c] /\ resp'[c] = resp[c]
        BY <1>0, <2>6 DEF poolVars, sessVars, Request
      <3>2. Answering(c) => Answering(c)'
        <4> SUFFICES ASSUME Answering(c) PROVE Answering(c)'
          OBVIOUS
        <4>1. \A i \in 1..Len(inbox'[n]) : inbox'[n][i].of = Request(c)
          BY <2>2, <2>6 DEF Answering
        <4>2. inbox'[n] # <<>> /\ inbox'[n][1].part = "head" /\ inbox'[n][1].len \in Int
                => Len(inbox'[n]) - 1 <= inbox'[n][1].len
          BY <1>t, <2>2, <2>4, <2>6 DEF Answering
        <4>3. inbox'[n] # <<>> /\ inbox'[n][1].part = "head" => inbox'[n][1].len \in Int
          <5> SUFFICES ASSUME inbox'[n] # <<>>, inbox'[n][1].part = "head"
                       PROVE  inbox'[n][1].len \in Int
            OBVIOUS
          <5>1. inbox[n][1] \in Heads \cup Pieces
            BY <1>t, <2>4
          <5> QED BY <2>4, <5>1, HeadFields, SessionAssumption
        <4> QED BY <2>2, <3>1, <4>1, <4>2, <4>3 DEF Answering
      <3>3. Answered(c) => Answered(c)'
        <4>1. remaining[c] \in Int
          BY SessionAssumption DEF HttpTypeOK
        <4>2. Answered(c) => \A i \in 1..Len(inbox'[n]) : inbox'[n][i].of = Request(c)
          BY <2>2, <2>6 DEF Answered
        <4>3. Answered(c) => Len(inbox'[n]) <= remaining[c]
          BY <1>t, <2>2, <2>6, <4>1 DEF Answered
        <4> QED BY <2>2, <2>6, <3>1, <4>2, <4>3 DEF Answered
      <3> QED BY <2>5, <2>6, <3>1, <3>2, <3>3 DEF SessionWire
    <2> QED BY <1>u, <2>5, <2>6
  <1> QED BY <1>1, <1>2, <1>3 DEF AnswerInterim

LEMMA SpecWire ==
  ASSUME ~Interim, ~EarlyClose PROVE HttpSpec => []WireInv
  <1>1. HttpInit => WireInv
    BY DEF HttpInit, Init, WireInv, Free, Clean
  <1>2. SessionInv /\ WireInv /\ [HttpNext]_httpVars => WireInv'
    <2> SUFFICES ASSUME SessionInv, WireInv, [HttpNext]_httpVars PROVE WireInv'
      OBVIOUS
    <2>1. CASE UNCHANGED httpVars
      <3>1. \A n \in Conns : Free(n)' <=> Free(n)
        BY <2>1, PoolSame DEF httpVars
      <3>2. \A n \in Conns : Unused(n)' => Clean(n)'
        BY <2>1, <3>1 DEF httpVars, poolVars, wireVars, Unused, WireInv, Clean
      <3>3. \A d \in Clients : pc'[d] = "use" => Untouched(d)
        BY <2>1 DEF httpVars, poolVars, sessVars, wireVars, Untouched
      <3> QED BY <3>2, <3>3, WireStep
    <2> QED BY <2>1, WirePool, WireExchange, WireServer DEF HttpNext
  <1> QED BY SpecSession, <1>1, <1>2, PTL DEF HttpSpec

(* With no 1xx response from the server, and a user who reads a body to    *)
(* its end or its failure before closing it, a response is the answer to   *)
(* its own request, over every reuse of the connection.                    *)
THEOREM Http1OwnResponse ==
  ASSUME ~Interim, ~EarlyClose PROVE HttpSpec => []OwnResponse
  <1>1. SessionInv /\ WireInv => OwnResponse
    BY DEF SessionInv, LeaseHeld, WireInv, Answered, OwnResponse
  <1> QED BY SpecSession, SpecWire, <1>1, PTL

(* Under the same two conditions a connection changes hands with nothing   *)
(* owed on it and nothing unread.                                          *)
THEOREM Http1CleanReuse ==
  ASSUME ~Interim, ~EarlyClose PROVE HttpSpec => []CleanReuse
  <1>1. SessionInv /\ WireInv => CleanReuse
    <2> SUFFICES ASSUME SessionInv, WireInv, NEW n \in Conns,
                        \/ \E i \in 1..Len(idleTicket) : idleTicket[i] = n
                        \/ \E c \in Clients : own[c] = n /\ pc[c] \in {"got", "use"}
                                              /\ job[c] = "idle"
                 PROVE  sent[n] = <<>> /\ inbox[n] = <<>>
      BY DEF CleanReuse
    <2> QED BY DEF WireInv, Free, Clean
  <1> QED BY SpecSession, SpecWire, <1>1, PTL
=============================================================================
