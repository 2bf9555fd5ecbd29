--------------------------- MODULE NetPoolProofs ---------------------------
(***************************************************************************)
(* Proofs about NetPool, for every set of clients and connections and      *)
(* every limit.                                                            *)
(***************************************************************************)
EXTENDS NetPool, SequenceTheorems, FiniteSetTheorems, TLAPS

(* Where a client has a connection, and in which state that connection is. *)
Owning == {"got", "evict", "evictDrain", "setup", "use", "retire", "retireDrain"}

OwnByPc ==
  /\ \A c \in Clients : own[c] # NoConn <=> pc[c] \in Owning
  /\ \A c \in Clients :
       /\ pc[c] = "setup" => live[own[c]] = "dialed"
       /\ pc[c] \in {"got", "use", "evict", "retire"} => live[own[c]] = "open"
       /\ pc[c] \in {"evictDrain", "retireDrain"} => live[own[c]] = "closed"
  /\ \A i \in 1..Len(idleTicket) : live[idleTicket[i]] = "open"

(* waitq holds each parked goroutine once; only a limited pool parks any.  *)
QueueInv ==
  /\ NoLostWakeup
  /\ \A i, j \in 1..Len(waitq) : i # j => waitq[i] # waitq[j]
  /\ \A c \in Clients : pc[c] \in {"select", "parked"} => Limited

(* The part of the invariant that is not about counting.                   *)
HandsInv == TypeOK /\ ExclusiveUse /\ OwnByPc /\ QueueInv

-----------------------------------------------------------------------------
(* Head and Tail of a non-empty channel buffer.                            *)
LEMMA HeadTailFacts ==
  ASSUME NEW S, NEW s \in Seq(S), s # <<>>
  PROVE  /\ Len(s) \in Nat /\ Len(s) >= 1
         /\ Head(s) = s[1] /\ Head(s) \in S
         /\ Tail(s) \in Seq(S) /\ Len(Tail(s)) = Len(s) - 1
         /\ \A i \in 1..Len(Tail(s)) : i + 1 \in 1..Len(s) /\ Tail(s)[i] = s[i+1]
         /\ \A i \in 1..Len(s) : s[i] \in S
  OBVIOUS

(* Appending to a channel buffer.                                          *)
LEMMA AppendFacts ==
  ASSUME NEW S, NEW s \in Seq(S), NEW x \in S
  PROVE  /\ Len(s) \in Nat
         /\ Append(s, x) \in Seq(S) /\ Len(Append(s, x)) = Len(s) + 1
         /\ \A i \in 1..Len(s) : s[i] \in S /\ Append(s, x)[i] = s[i]
         /\ Append(s, x)[Len(s) + 1] = x
         /\ Append(s, x) # <<>>
  OBVIOUS

LEMMA InitHands == Init => HandsInv
  BY PoolAssumption DEF Init, HandsInv, TypeOK, ExclusiveUse, OwnByPc, QueueInv,
     NoLostWakeup, Owning, PcStates, LiveStates, Limited

-----------------------------------------------------------------------------
(* Each operation of pool.go and connection.go preserves HandsInv.         *)

LEMMA ConnectHands ==
  ASSUME HandsInv, NEW c \in Clients, Connect(c) PROVE HandsInv'
  <1> USE DEF HandsInv, Connect
  <1>1. TypeOK'
    BY DEF TypeOK, PcStates
  <1>2. ExclusiveUse'
    BY DEF ExclusiveUse
  <1>3. OwnByPc'
    BY DEF TypeOK, OwnByPc, Owning
  <1>4. QueueInv'
    BY DEF TypeOK, QueueInv, NoLostWakeup
  <1> QED BY <1>1, <1>2, <1>3, <1>4

LEMMA TakeIdleHands ==
  ASSUME HandsInv, NEW c \in Clients, pc[c] \in {"try", "select"}, TakeIdle(c)
  PROVE HandsInv'
  <1> USE DEF HandsInv, TakeIdle
  <1>h. /\ Head(idleTicket) = idleTicket[1] /\ Head(idleTicket) \in Conns
        /\ Len(idleTicket) \in Nat /\ Len(idleTicket) >= 1
        /\ Tail(idleTicket) \in Seq(Conns)
        /\ Len(Tail(idleTicket)) = Len(idleTicket) - 1
        /\ \A i \in 1..Len(Tail(idleTicket)) :
             i + 1 \in 1..Len(idleTicket) /\ Tail(idleTicket)[i] = idleTicket[i+1]
    BY HeadTailFacts DEF TypeOK
  <1>n. Head(idleTicket) # NoConn
    BY <1>h, PoolAssumption
  <1>o. own[c] = NoConn
    BY DEF OwnByPc, Owning
  <1>1. TypeOK'
    BY <1>h, PoolAssumption DEF TypeOK, PcStates
  <1>2. ExclusiveUse'
    BY <1>h, <1>n DEF TypeOK, ExclusiveUse
  <1>3. OwnByPc'
    BY <1>h, <1>n, <1>o DEF TypeOK, OwnByPc, Owning
  <1>4. QueueInv'
    BY <1>h DEF TypeOK, QueueInv, NoLostWakeup
  <1> QED BY <1>1, <1>2, <1>3, <1>4

LEMMA PollIdleHands ==
  ASSUME HandsInv, NEW c \in Clients, PollIdle(c) PROVE HandsInv'
  <1>1. CASE TakeIdle(c)
    BY <1>1, TakeIdleHands DEF PollIdle
  <1>2. CASE /\ idleTicket = <<>>
             /\ pc' = [pc EXCEPT ![c] = IF Limited THEN "select" ELSE "dial"]
             /\ UNCHANGED <<connTicket, idleTicket, waitq, live, own, lost>>
    <2> USE <1>2 DEF HandsInv, PollIdle
    <2>1. TypeOK'
      BY DEF TypeOK, PcStates
    <2>2. ExclusiveUse'
      BY DEF ExclusiveUse
    <2>3. OwnByPc'
      BY DEF TypeOK, OwnByPc, Owning
    <2>4. QueueInv'
      BY DEF TypeOK, QueueInv, NoLostWakeup
    <2> QED BY <2>1, <2>2, <2>3, <2>4
  <1> QED BY <1>1, <1>2 DEF PollIdle

LEMMA TakeTicketHands ==
  ASSUME HandsInv, NEW c \in Clients, TakeTicket(c) PROVE HandsInv'
  <1> USE DEF HandsInv, TakeTicket
  <1>1. TypeOK'
    BY PoolAssumption DEF TypeOK, PcStates
  <1>2. ExclusiveUse'
    BY DEF ExclusiveUse
  <1>3. OwnByPc'
    BY DEF TypeOK, OwnByPc, Owning
  <1>4. QueueInv'
    BY PoolAssumption DEF TypeOK, QueueInv, NoLostWakeup
  <1> QED BY <1>1, <1>2, <1>3, <1>4

LEMMA ParkHands ==
  ASSUME HandsInv, NEW c \in Clients, Park(c) PROVE HandsInv'
  <1> USE DEF HandsInv, Park
  <1>h. /\ Len(waitq) \in Nat
        /\ Append(waitq, c) \in Seq(Clients)
        /\ Len(Append(waitq, c)) = Len(waitq) + 1
        /\ \A i \in 1..Len(waitq) : waitq[i] \in Clients /\ Append(waitq, c)[i] = waitq[i]
        /\ Append(waitq, c)[Len(waitq) + 1] = c
    BY AppendFacts DEF TypeOK
  <1>1. TypeOK'
    BY <1>h DEF TypeOK, PcStates
  <1>2. ExclusiveUse'
    BY DEF ExclusiveUse
  <1>3. OwnByPc'
    BY DEF TypeOK, OwnByPc, Owning
  <1>4. QueueInv'
    <2>1. \A i \in 1..Len(waitq) : waitq[i] # c
      BY DEF QueueInv, NoLostWakeup
    <2>2. NoLostWakeup'
      BY <1>h, <2>1 DEF TypeOK, QueueInv, NoLostWakeup
    <2>3. (\A i, j \in 1..Len(waitq) : i # j => waitq[i] # waitq[j])'
      BY <1>h, <2>1 DEF QueueInv
    <2>4. (\A d \in Clients : pc[d] \in {"select", "parked"} => Limited)'
      BY DEF TypeOK, QueueInv, Limited
    <2> QED BY <2>2, <2>3, <2>4 DEF QueueInv
  <1> QED BY <1>1, <1>2, <1>3, <1>4

LEMMA ReceivedHands ==
  ASSUME HandsInv, NEW c \in Clients, Received(c) PROVE HandsInv'
  <1> USE DEF HandsInv
  <1>0. live[own[c]] = "open"
    BY DEF OwnByPc, Received
  <1>s. /\ pc[c] = "got"
        /\ pc' = [pc EXCEPT ![c] = "evict"] \/ pc' = [pc EXCEPT ![c] = "use"]
        /\ UNCHANGED <<connTicket, idleTicket, waitq, live, own, lost>>
    BY <1>0 DEF Received, Available
  <1>1. TypeOK'
    BY <1>s DEF TypeOK, PcStates
  <1>2. ExclusiveUse'
    BY <1>s DEF ExclusiveUse
  <1>3. OwnByPc'
    BY <1>s DEF TypeOK, OwnByPc, Owning
  <1>4. QueueInv'
    BY <1>s DEF TypeOK, QueueInv, NoLostWakeup
  <1> QED BY <1>1, <1>2, <1>3, <1>4

LEMMA DialOKHands ==
  ASSUME HandsInv, NEW c \in Clients, NEW n \in Conns, DialOK(c, n) PROVE HandsInv'
  <1> USE DEF HandsInv, DialOK
  <1>0. n # NoConn
    BY PoolAssumption
  <1>n. /\ \A d \in Clients : own[d] # n
        /\ \A i \in 1..Len(idleTicket) : idleTicket[i] # n
    BY <1>0 DEF OwnByPc, Owning
  <1>1. TypeOK'
    BY DEF TypeOK, PcStates, LiveStates
  <1>2. ExclusiveUse'
    BY <1>n DEF TypeOK, ExclusiveUse
  <1>3. OwnByPc'
    BY <1>0, <1>n DEF TypeOK, OwnByPc, Owning
  <1>4. QueueInv'
    BY DEF TypeOK, QueueInv, NoLostWakeup
  <1> QED BY <1>1, <1>2, <1>3, <1>4

LEMMA DialFailHands ==
  ASSUME HandsInv, NEW c \in Clients, DialFail(c) PROVE HandsInv'
  <1> USE DEF HandsInv, DialFail
  <1>1. TypeOK'
    BY DEF TypeOK, PcStates
  <1>2. ExclusiveUse'
    BY DEF ExclusiveUse
  <1>3. OwnByPc'
    BY DEF TypeOK, OwnByPc, Owning
  <1>4. QueueInv'
    BY DEF TypeOK, QueueInv, NoLostWakeup
  <1> QED BY <1>1, <1>2, <1>3, <1>4

(* Setup, whether it succeeds or not, concerns a connection nobody else    *)
(* has.                                                                    *)
LEMMA SetupHands ==
  ASSUME HandsInv, NEW c \in Clients, SetupOK(c) \/ SetupFail(c) PROVE HandsInv'
  <1> USE DEF HandsInv, SetupOK, SetupFail
  <1>n. /\ pc[c] = "setup" /\ own[c] \in Conns
        /\ \A d \in Clients \ {c} : own[d] # own[c]
        /\ \A i \in 1..Len(idleTicket) : idleTicket[i] # own[c]
    BY DEF TypeOK, OwnByPc, Owning, ExclusiveUse
  <1>i. \A i \in 1..Len(idleTicket) : idleTicket[i] \in Conns /\ idleTicket[i] # NoConn
    BY PoolAssumption DEF TypeOK
  <1>s. UNCHANGED idleTicket /\ (own' = own \/ own' = [own EXCEPT ![c] = NoConn])
    OBVIOUS
  <1>1. TypeOK'
    BY DEF TypeOK, PcStates, LiveStates
  <1>2. ExclusiveUse'
    BY <1>n, <1>i, <1>s DEF TypeOK, ExclusiveUse
  <1>3. OwnByPc'
    BY <1>n DEF TypeOK, OwnByPc, Owning
  <1>4. QueueInv'
    BY DEF TypeOK, QueueInv, NoLostWakeup
  <1> QED BY <1>1, <1>2, <1>3, <1>4

(* The queue without its head still lists every other parked goroutine.    *)
LEMMA QueueTail ==
  ASSUME HandsInv, waitq # <<>>
  PROVE  /\ Head(waitq) \in Clients /\ pc[Head(waitq)] = "parked"
         /\ Tail(waitq) \in Seq(Clients)
         /\ \A i, j \in 1..Len(Tail(waitq)) : i # j => Tail(waitq)[i] # Tail(waitq)[j]
         /\ \A d \in Clients :
              (d # Head(waitq) /\ pc[d] = "parked")
                <=> \E i \in 1..Len(Tail(waitq)) : Tail(waitq)[i] = d
  <1> USE DEF HandsInv
  <1>h. /\ Head(waitq) = waitq[1] /\ Head(waitq) \in Clients
        /\ Len(waitq) \in Nat /\ Len(waitq) >= 1
        /\ Tail(waitq) \in Seq(Clients)
        /\ Len(Tail(waitq)) = Len(waitq) - 1
        /\ \A i \in 1..Len(Tail(waitq)) :
             i + 1 \in 1..Len(waitq) /\ Tail(waitq)[i] = waitq[i+1]
    BY HeadTailFacts DEF TypeOK
  <1> DEFINE w == Head(waitq)
  <1>1. pc[w] = "parked"
    BY <1>h DEF QueueInv, NoLostWakeup
  <1>2. \A i \in 1..Len(Tail(waitq)) : Tail(waitq)[i] # w
    <2>1. \A i \in 1..Len(Tail(waitq)) : i + 1 # 1
      BY <1>h
    <2> QED BY <1>h, <2>1 DEF QueueInv
  <1>3. ASSUME NEW d \in Clients, d # w, NEW i \in 1..Len(waitq), waitq[i] = d
        PROVE  \E k \in 1..Len(Tail(waitq)) : Tail(waitq)[k] = d
    <2>1. i # 1
      BY <1>h, <1>3
    <2>2. i - 1 \in 1..Len(Tail(waitq)) /\ Tail(waitq)[i - 1] = waitq[i]
      BY <1>h, <2>1
    <2> QED BY <1>3, <2>2
  <1>4. \A d \in Clients :
          (d # w /\ pc[d] = "parked") <=> \E i \in 1..Len(Tail(waitq)) : Tail(waitq)[i] = d
    BY <1>h, <1>2, <1>3 DEF QueueInv, NoLostWakeup
  <1>5. \A i, j \in 1..Len(Tail(waitq)) : i # j => Tail(waitq)[i] # Tail(waitq)[j]
    BY <1>h DEF QueueInv
  <1> QED BY <1>h, <1>1, <1>4, <1>5

(* Release(false) gives the connection to the goroutine parked first, to   *)
(* the buffer, or, with neither a receiver nor room, on to Close.          *)
LEMMA ReleaseKeepHands ==
  ASSUME HandsInv, NEW c \in Clients, ReleaseKeep(c) PROVE HandsInv'
  <1> USE DEF HandsInv
  <1>0. /\ pc[c] = "use" /\ own[c] \in Conns /\ own[c] # NoConn
        /\ live[own[c]] = "open"
        /\ \A d \in Clients \ {c} : own[d] # own[c]
        /\ \A i \in 1..Len(idleTicket) : idleTicket[i] # own[c]
        /\ UNCHANGED <<connTicket, live, lost>>
    BY DEF ReleaseKeep, TypeOK, OwnByPc, Owning, ExclusiveUse
  <1>s. HandOver(c) \/ Buffer(c) \/ NoRoom(c)
    BY <1>0 DEF ReleaseKeep, Available
  <1>1. CASE HandOver(c)
    <2> DEFINE w == Head(waitq)
    <2>w. w \in Clients /\ pc[w] = "parked" /\ w # c /\ own[w] = NoConn
      BY <1>0, <1>1, QueueTail DEF HandOver, OwnByPc, Owning
    <2>t. /\ Tail(waitq) \in Seq(Clients)
          /\ \A i, j \in 1..Len(Tail(waitq)) : i # j => Tail(waitq)[i] # Tail(waitq)[j]
          /\ \A d \in Clients :
               (d # w /\ pc[d] = "parked")
                 <=> \E i \in 1..Len(Tail(waitq)) : Tail(waitq)[i] = d
      BY <1>1, QueueTail DEF HandOver
    <2>s. /\ own' = [own EXCEPT ![w] = own[c], ![c] = NoConn]
          /\ pc' = [pc EXCEPT ![w] = "got", ![c] = "out"]
          /\ waitq' = Tail(waitq)
          /\ waitq # <<>>
          /\ UNCHANGED idleTicket
      BY <1>1 DEF HandOver
    <2> HIDE DEF w
    <2>1. TypeOK'
      BY <1>0, <2>s, <2>w, <2>t DEF TypeOK, PcStates
    <2>2. ExclusiveUse'
      <3>1. /\ own'[w] = own[c] /\ own'[c] = NoConn
            /\ \A d \in Clients \ {w, c} : own'[d] = own[d]
        BY <2>w, <2>s DEF TypeOK
      <3>2. idleTicket' = idleTicket /\ Len(idleTicket) = 0
        BY <2>s DEF QueueInv, NoLostWakeup
      <3>3. (\A d, e \in Clients : d # e /\ own[d] # NoConn => own[d] # own[e])'
        BY <1>0, <2>w, <3>1 DEF ExclusiveUse
      <3> QED BY <3>2, <3>3, SMT DEF ExclusiveUse
    <2>3. OwnByPc'
      <3>1. /\ pc'[w] = "got" /\ own'[w] = own[c]
            /\ pc'[c] = "out" /\ own'[c] = NoConn
            /\ \A d \in Clients \ {w, c} : pc'[d] = pc[d] /\ own'[d] = own[d]
        BY <2>w, <2>s DEF TypeOK
      <3>2. live' = live /\ idleTicket' = idleTicket
        BY <1>0, <2>s
      <3>3. (\A d \in Clients : own[d] # NoConn <=> pc[d] \in Owning)'
        BY <1>0, <2>w, <3>1 DEF OwnByPc, Owning
      <3>4. (\A d \in Clients :
               /\ pc[d] = "setup" => live[own[d]] = "dialed"
               /\ pc[d] \in {"got", "use", "evict", "retire"} => live[own[d]] = "open"
               /\ pc[d] \in {"evictDrain", "retireDrain"} => live[own[d]] = "closed")'
        <4> SUFFICES ASSUME NEW d \in Clients
                     PROVE  /\ pc'[d] = "setup" => live[own'[d]] = "dialed"
                            /\ pc'[d] \in {"got", "use", "evict", "retire"}
                               => live[own'[d]] = "open"
                            /\ pc'[d] \in {"evictDrain", "retireDrain"}
                               => live[own'[d]] = "closed"
          BY <3>2
        <4>1. CASE d \in {w, c}
          BY <1>0, <3>1, <4>1
        <4>2. CASE d \notin {w, c}
          BY <3>1, <4>2 DEF OwnByPc
        <4> QED BY <4>1, <4>2
      <3>5. (\A i \in 1..Len(idleTicket) : live[idleTicket[i]] = "open")'
        BY <3>2 DEF OwnByPc
      <3> QED BY <3>3, <3>4, <3>5 DEF OwnByPc
    <2>4. NoLostWakeup'
      <3>1. \A d \in Clients : pc'[d] = "parked" <=> d # w /\ pc[d] = "parked"
        BY <1>0, <2>w, <2>s DEF TypeOK
      <3> QED BY ZenonT(60), <1>0, <2>s, <2>t, <3>1 DEF QueueInv, NoLostWakeup
    <2>5. QueueInv'
      BY <2>w, <2>s, <2>t, <2>4 DEF TypeOK, QueueInv, Limited
    <2> QED BY <2>1, <2>2, <2>3, <2>5
  <1>2. CASE Buffer(c)
    <2> USE <1>2 DEF Buffer
    <2>h. /\ Len(idleTicket) \in Nat
          /\ Append(idleTicket, own[c]) \in Seq(Conns)
          /\ Len(Append(idleTicket, own[c])) = Len(idleTicket) + 1
          /\ \A i \in 1..Len(idleTicket) :
               idleTicket[i] \in Conns /\ Append(idleTicket, own[c])[i] = idleTicket[i]
          /\ Append(idleTicket, own[c])[Len(idleTicket) + 1] = own[c]
      BY <1>0, AppendFacts DEF TypeOK
    <2>1. TypeOK'
      BY <1>0, <2>h, PoolAssumption DEF TypeOK, PcStates
    <2>2. ExclusiveUse'
      BY <1>0, <2>h, PoolAssumption DEF TypeOK, ExclusiveUse
    <2>3. OwnByPc'
      BY <1>0, <2>h DEF TypeOK, OwnByPc, Owning
    <2>4. QueueInv'
      BY <1>0 DEF TypeOK, QueueInv, NoLostWakeup, Limited
    <2> QED BY <2>1, <2>2, <2>3, <2>4
  <1>3. CASE NoRoom(c)
    <2> USE <1>0, <1>3 DEF NoRoom
    <2>1. TypeOK'
      BY DEF TypeOK, PcStates
    <2>2. ExclusiveUse'
      BY DEF ExclusiveUse
    <2>3. OwnByPc'
      BY DEF TypeOK, OwnByPc, Owning
    <2>4. QueueInv'
      BY DEF TypeOK, QueueInv, NoLostWakeup, Limited
    <2> QED BY <2>1, <2>2, <2>3, <2>4
  <1> QED BY <1>s, <1>1, <1>2, <1>3

LEMMA ReleaseCloseHands ==
  ASSUME HandsInv, NEW c \in Clients, ReleaseClose(c) PROVE HandsInv'
  <1> USE DEF HandsInv
  <1>0. live[own[c]] = "open"
    BY DEF ReleaseClose, OwnByPc
  <1>s. /\ pc[c] = "use"
        /\ pc' = [pc EXCEPT ![c] = "retire"]
        /\ UNCHANGED <<connTicket, idleTicket, waitq, live, own, lost>>
    BY <1>0 DEF ReleaseClose, Available
  <1>1. TypeOK'
    BY <1>s DEF TypeOK, PcStates
  <1>2. ExclusiveUse'
    BY <1>s DEF ExclusiveUse
  <1>3. OwnByPc'
    BY <1>s, <1>0 DEF TypeOK, OwnByPc, Owning
  <1>4. QueueInv'
    BY <1>s DEF TypeOK, QueueInv, NoLostWakeup
  <1> QED BY <1>1, <1>2, <1>3, <1>4

(* conn.Close runs on the closer's own connection, which is not idle.      *)
LEMMA CloseConnHands ==
  ASSUME HandsInv, NEW c \in Clients, CloseConn(c) PROVE HandsInv'
  <1> USE DEF HandsInv, CloseConn
  <1>n. /\ own[c] \in Conns
        /\ \A d \in Clients \ {c} : own[d] # own[c]
        /\ \A i \in 1..Len(idleTicket) : idleTicket[i] # own[c]
    BY DEF TypeOK, OwnByPc, Owning, ExclusiveUse
  <1>1. TypeOK'
    BY <1>n DEF TypeOK, PcStates, LiveStates
  <1>2. ExclusiveUse'
    BY DEF ExclusiveUse
  <1>3. OwnByPc'
    BY <1>n DEF TypeOK, OwnByPc, Owning
  <1>4. QueueInv'
    BY DEF TypeOK, QueueInv, NoLostWakeup
  <1> QED BY <1>1, <1>2, <1>3, <1>4

(* The receive that ends Close lets the goroutine parked first dial.       *)
LEMMA DrainTicketHands ==
  ASSUME HandsInv, NEW c \in Clients, DrainTicket(c) PROVE HandsInv'
  <1> USE DEF HandsInv
  <1>0. /\ pc[c] \in {"evictDrain", "retireDrain"} /\ own[c] \in Conns
        /\ \A d \in Clients \ {c} : own[d] # own[c]
        /\ \A i \in 1..Len(idleTicket) : idleTicket[i] # own[c]
        /\ own' = [own EXCEPT ![c] = NoConn]
        /\ live' = [live EXCEPT ![own[c]] = "none"]
        /\ UNCHANGED <<idleTicket, lost>>
        /\ Limited => connTicket > 0
        /\ AfterClose(c) \in {"try", "out"}
    BY DEF DrainTicket, TypeOK, OwnByPc, Owning, ExclusiveUse, AfterClose
  <1>e. ExclusiveUse'
    BY <1>0, PoolAssumption DEF TypeOK, ExclusiveUse
  <1>1. CASE waitq # <<>>
    <2> DEFINE w == Head(waitq)
    <2>s. /\ pc' = [pc EXCEPT ![w] = "dial", ![c] = AfterClose(c)]
          /\ waitq' = Tail(waitq)
          /\ UNCHANGED connTicket
      BY <1>1 DEF DrainTicket
    <2>w. w \in Clients /\ pc[w] = "parked" /\ w # c /\ own[w] = NoConn
      BY <1>0, <1>1, QueueTail DEF OwnByPc, Owning
    <2>t. /\ Tail(waitq) \in Seq(Clients)
          /\ \A i, j \in 1..Len(Tail(waitq)) : i # j => Tail(waitq)[i] # Tail(waitq)[j]
          /\ \A d \in Clients :
               (d # w /\ pc[d] = "parked")
                 <=> \E i \in 1..Len(Tail(waitq)) : Tail(waitq)[i] = d
      BY <1>1, QueueTail
    <2> HIDE DEF w
    <2>1. TypeOK'
      BY <1>0, <2>s, <2>w, <2>t DEF TypeOK, PcStates, LiveStates
    <2>2. OwnByPc'
      BY SMTT(60), <1>0, <2>s, <2>w DEF TypeOK, OwnByPc, Owning
    <2>3. NoLostWakeup'
      <3>1. \A d \in Clients : pc'[d] = "parked" <=> d # w /\ pc[d] = "parked"
        BY <1>0, <2>s, <2>w DEF TypeOK
      <3> QED BY <1>0, <1>1, <2>s, <2>t, <3>1 DEF QueueInv, NoLostWakeup
    <2>4. QueueInv'
      BY <1>0, <2>s, <2>w, <2>t, <2>3 DEF TypeOK, QueueInv, Limited
    <2> QED BY <1>e, <2>1, <2>2, <2>4
  <1>2. CASE waitq = <<>>
    <2>s. /\ pc' = [pc EXCEPT ![c] = AfterClose(c)]
          /\ connTicket' = IF Limited THEN connTicket - 1 ELSE connTicket
          /\ UNCHANGED waitq
      BY <1>2 DEF DrainTicket
    <2>1. TypeOK'
      BY <1>0, <2>s, PoolAssumption DEF TypeOK, PcStates, LiveStates
    <2>2. OwnByPc'
      BY <1>0, <2>s DEF TypeOK, OwnByPc, Owning
    <2>3. QueueInv'
      BY <1>0, <1>2, <2>s DEF TypeOK, QueueInv, NoLostWakeup, Limited
    <2> QED BY <1>e, <2>1, <2>2, <2>3
  <1> QED BY <1>1, <1>2

LEMMA NextHands ==
  ASSUME HandsInv, [Next]_poolVars PROVE HandsInv'
  <1>1. CASE UNCHANGED poolVars
    BY <1>1 DEF poolVars, HandsInv, TypeOK, ExclusiveUse, OwnByPc, QueueInv,
       NoLostWakeup, Limited
  <1>2. ASSUME NEW c \in Clients,
               Connect(c) \/ ConnectStep(c) \/ Release(c) \/ CloseStep(c)
        PROVE  HandsInv'
    <2>1. CASE Connect(c)
      BY <2>1, ConnectHands
    <2>2. CASE ConnectStep(c)
      BY <2>2, PollIdleHands, TakeTicketHands, TakeIdleHands, ParkHands, ReceivedHands,
         DialOKHands, DialFailHands, SetupHands DEF ConnectStep, SelectIdle
    <2>3. CASE Release(c)
      BY <2>3, ReleaseKeepHands, ReleaseCloseHands DEF Release
    <2>4. CASE CloseStep(c)
      BY <2>4, CloseConnHands, DrainTicketHands DEF CloseStep
    <2> QED BY <1>2, <2>1, <2>2, <2>3, <2>4
  <1> QED BY <1>1, <1>2 DEF Next

LEMMA SpecHands == Spec => []HandsInv
  <1>1. HandsInv /\ [Next]_poolVars => HandsInv'
    BY NextHands
  <1> QED BY InitHands, <1>1, PTL DEF Spec

-----------------------------------------------------------------------------
(* Type correctness of the pool: no channel ever holds more than its       *)
(* capacity, whatever the limits and the number of goroutines.             *)
THEOREM PoolTypeOK == Spec => []TypeOK
  <1>1. HandsInv => TypeOK
    BY DEF HandsInv
  <1> QED BY SpecHands, <1>1, PTL

(* Connect and Release never put a connection into two hands.              *)
THEOREM PoolExclusiveUse == Spec => []ExclusiveUse
  <1>1. HandsInv => ExclusiveUse
    BY DEF HandsInv
  <1> QED BY SpecHands, <1>1, PTL

(* Close never leaves a closed connection where a goroutine may meet it.   *)
THEOREM PoolIdleIsOpen == Spec => []IdleIsOpen
  <1>1. HandsInv => IdleIsOpen
    BY DEF HandsInv, OwnByPc, IdleIsOpen
  <1> QED BY SpecHands, <1>1, PTL

(* A goroutine stays parked only while the pool is at its limit and        *)
(* nothing is idle.                                                        *)
THEOREM PoolNoLostWakeup == Spec => []NoLostWakeup
  <1>1. HandsInv => NoLostWakeup
    BY DEF HandsInv, QueueInv
  <1> QED BY SpecHands, <1>1, PTL

-----------------------------------------------------------------------------
(* Counting tickets.                                                       *)

LEMMA FiniteCounts ==
  ASSUME HandsInv
  PROVE  /\ IsFiniteSet(Dialling) /\ Cardinality(Dialling) \in Nat
         /\ IsFiniteSet(Ticketed) /\ Cardinality(Ticketed) \in Nat
  <1>1. IsFiniteSet(Dialling)
    BY PoolAssumption, FS_Subset DEF Dialling
  <1>2. IsFiniteSet(Ticketed)
    BY PoolAssumption, FS_Subset DEF Ticketed
  <1> QED BY <1>1, <1>2, FS_CardinalityType

LEMMA AddOne ==
  ASSUME NEW S, IsFiniteSet(S), NEW x, x \notin S
  PROVE  Cardinality(S \cup {x}) = Cardinality(S) + 1
  BY FS_AddElement

LEMMA RemoveOne ==
  ASSUME NEW S, IsFiniteSet(S), NEW x, x \in S
  PROVE  Cardinality(S \ {x}) = Cardinality(S) - 1
  BY FS_RemoveElement

(* Only TakeTicket, DialOK, DialFail and DrainTicket change what the       *)
(* tickets stand for.                                                      *)
LEMMA TicketsKept ==
  ASSUME HandsInv, TicketsAccounted, UNCHANGED <<connTicket, lost>>,
         Dialling' = Dialling, Ticketed' = Ticketed
  PROVE  TicketsAccounted'
  BY DEF TicketsAccounted, Limited

LEMMA ConnectTickets ==
  ASSUME HandsInv, TicketsAccounted, NEW c \in Clients,
         Connect(c) \/ ConnectStep(c)
  PROVE  TicketsAccounted'
  <1> USE DEF HandsInv
  <1>1. CASE Connect(c) \/ SelectIdle(c) \/ Park(c) \/ Received(c)
    <2>1. Dialling' = Dialling
      BY <1>1 DEF Connect, SelectIdle, TakeIdle, Park, Received, Dialling, TypeOK
    <2>2. Ticketed' = Ticketed /\ UNCHANGED <<connTicket, lost>>
      BY <1>1 DEF Connect, SelectIdle, TakeIdle, Park, Received, Ticketed
    <2> QED BY <2>1, <2>2, TicketsKept
  <1>2. CASE PollIdle(c)
    <2>1. CASE TakeIdle(c)
      <3>1. Dialling' = Dialling
        BY <1>2, <2>1 DEF PollIdle, TakeIdle, Dialling, TypeOK
      <3>2. Ticketed' = Ticketed /\ UNCHANGED <<connTicket, lost>>
        BY <2>1 DEF TakeIdle, Ticketed
      <3> QED BY <3>1, <3>2, TicketsKept
    <2>2. CASE ~TakeIdle(c) /\ Limited
      <3>1. Dialling' = Dialling
        BY <1>2, <2>2 DEF PollIdle, Dialling, TypeOK
      <3>2. Ticketed' = Ticketed /\ UNCHANGED <<connTicket, lost>>
        BY <1>2, <2>2 DEF PollIdle, Ticketed
      <3> QED BY <3>1, <3>2, TicketsKept
    <2>3. CASE ~Limited
      BY <2>3 DEF TicketsAccounted, Limited
    <2> QED BY <2>1, <2>2, <2>3
  <1>3. CASE TakeTicket(c)
    <2>1. Dialling' = Dialling \cup {c} /\ c \notin Dialling
      BY <1>3 DEF TakeTicket, Dialling, TypeOK
    <2>2. Ticketed' = Ticketed /\ connTicket' = connTicket + 1 /\ UNCHANGED lost
      BY <1>3 DEF TakeTicket, Ticketed
    <2> QED BY <2>1, <2>2, FiniteCounts, AddOne DEF TicketsAccounted, Limited, TypeOK
  <1>4. ASSUME NEW n \in Conns, DialOK(c, n)
        PROVE  TicketsAccounted'
    <2>1. Dialling' = Dialling \ {c} /\ c \in Dialling
      BY <1>4 DEF DialOK, Dialling, TypeOK
    <2>2. Ticketed' = Ticketed \cup {n} /\ n \notin Ticketed
      BY <1>4 DEF DialOK, Ticketed, TypeOK
    <2>3. UNCHANGED <<connTicket, lost>>
      BY <1>4 DEF DialOK
    <2>4. /\ Cardinality(Dialling') = Cardinality(Dialling) - 1
          /\ Cardinality(Ticketed') = Cardinality(Ticketed) + 1
      BY <2>1, <2>2, FiniteCounts, AddOne, RemoveOne
    <2> QED BY <2>3, <2>4, FiniteCounts DEF TicketsAccounted, Limited, TypeOK
  <1>5. CASE DialFail(c)
    <2>1. Dialling' = Dialling \ {c} /\ c \in Dialling
      BY <1>5 DEF DialFail, Dialling, TypeOK
    <2>2. Ticketed' = Ticketed /\ UNCHANGED connTicket /\ (Limited => lost' = lost + 1)
      BY <1>5 DEF DialFail, Ticketed
    <2> QED BY SMTT(60), <2>1, <2>2, FiniteCounts, RemoveOne DEF TicketsAccounted, Limited, TypeOK
  <1>6. CASE SetupOK(c) \/ SetupFail(c)
    <2>1. Dialling' = Dialling
      BY <1>6 DEF SetupOK, SetupFail, Dialling, TypeOK
    <2>2. live[own[c]] = "dialed" /\ own[c] \in Conns
      BY <1>6 DEF SetupOK, SetupFail, TypeOK, OwnByPc, Owning
    <2>3. Ticketed' = Ticketed
      BY <1>6, <2>2 DEF SetupOK, SetupFail, Ticketed, TypeOK
    <2> QED BY <1>6, <2>1, <2>3, TicketsKept DEF SetupOK, SetupFail
  <1> QED BY <1>1, <1>2, <1>3, <1>4, <1>5, <1>6 DEF ConnectStep

LEMMA ReleaseTickets ==
  ASSUME HandsInv, TicketsAccounted, NEW c \in Clients, Release(c)
  PROVE  TicketsAccounted'
  <1> USE DEF HandsInv
  <1>1. UNCHANGED <<connTicket, lost, live>>
    BY DEF Release, ReleaseKeep, ReleaseClose
  <1>2. Ticketed' = Ticketed
    BY <1>1 DEF Ticketed
  <1>3. CASE HandOver(c) /\ pc[c] = "use"
    <2>1. Head(waitq) \in Clients /\ pc[Head(waitq)] = "parked"
      BY <1>3, QueueTail DEF HandOver
    <2>2. Dialling' = Dialling
      BY <1>3, <2>1 DEF HandOver, Dialling, TypeOK
    <2> QED BY <1>1, <1>2, <2>2, TicketsKept
  <1>4. CASE ~HandOver(c)
    <2>1. Dialling' = Dialling
      BY <1>4 DEF Release, ReleaseKeep, ReleaseClose, Buffer, NoRoom, Dialling, TypeOK
    <2> QED BY <1>1, <1>2, <2>1, TicketsKept
  <1>5. pc[c] = "use"
    BY DEF Release, ReleaseKeep, ReleaseClose
  <1> QED BY <1>3, <1>4, <1>5

LEMMA CloseTickets ==
  ASSUME HandsInv, TicketsAccounted, NEW c \in Clients, CloseStep(c)
  PROVE  TicketsAccounted'
  <1> USE DEF HandsInv
  <1>1. CASE CloseConn(c)
    <2>1. live[own[c]] = "open" /\ own[c] \in Conns
      BY <1>1 DEF CloseConn, TypeOK, OwnByPc, Owning
    <2>2. Dialling' = Dialling
      BY <1>1 DEF CloseConn, Dialling, TypeOK
    <2>3. Ticketed' = Ticketed
      BY <1>1, <2>1 DEF CloseConn, Ticketed, TypeOK
    <2> QED BY <1>1, <2>2, <2>3, TicketsKept DEF CloseConn
  <1>2. CASE DrainTicket(c)
    <2>0. /\ live[own[c]] = "closed" /\ own[c] \in Conns
          /\ AfterClose(c) \in {"try", "out"}
      BY <1>2 DEF DrainTicket, TypeOK, OwnByPc, Owning, AfterClose
    <2>1. Ticketed' = Ticketed \ {own[c]} /\ own[c] \in Ticketed /\ UNCHANGED lost
      BY <1>2, <2>0 DEF DrainTicket, Ticketed, TypeOK
    <2>2. CASE waitq # <<>>
      <3>1. Head(waitq) \in Clients /\ pc[Head(waitq)] = "parked"
        BY <2>2, QueueTail
      <3>2. /\ Dialling' = Dialling \cup {Head(waitq)} /\ Head(waitq) \notin Dialling
            /\ UNCHANGED connTicket
        BY <1>2, <2>0, <2>2, <3>1 DEF DrainTicket, Dialling, TypeOK
      <3>3. /\ Cardinality(Dialling') = Cardinality(Dialling) + 1
            /\ Cardinality(Ticketed') = Cardinality(Ticketed) - 1
        BY <2>1, <3>2, FiniteCounts, AddOne, RemoveOne
      <3> QED BY <2>1, <3>2, <3>3, FiniteCounts DEF TicketsAccounted, Limited, TypeOK
    <2>3. CASE waitq = <<>>
      <3>1. Dialling' = Dialling /\ (Limited => connTicket' = connTicket - 1)
        BY <1>2, <2>0, <2>3 DEF DrainTicket, Dialling, TypeOK
      <3> QED BY <2>1, <3>1, FiniteCounts, RemoveOne DEF TicketsAccounted, Limited, TypeOK
    <2> QED BY <2>2, <2>3
  <1> QED BY <1>1, <1>2 DEF CloseStep

LEMMA InitTickets ==
  ASSUME Init PROVE TicketsAccounted
  <1>1. Dialling = {} /\ Ticketed = {}
    BY DEF Init, Dialling, Ticketed
  <1> QED BY <1>1, FS_EmptySet DEF Init, TicketsAccounted

LEMMA NextTickets ==
  ASSUME HandsInv, TicketsAccounted, [Next]_poolVars PROVE TicketsAccounted'
  <1>1. CASE UNCHANGED poolVars
    BY <1>1, TicketsKept DEF poolVars, Dialling, Ticketed
  <1>2. ASSUME NEW c \in Clients,
               Connect(c) \/ ConnectStep(c) \/ Release(c) \/ CloseStep(c)
        PROVE  TicketsAccounted'
    BY <1>2, ConnectTickets, ReleaseTickets, CloseTickets
  <1> QED BY <1>1, <1>2 DEF Next

(* connTicket is the number of dials under way, of connections not yet     *)
(* closed and of dials that failed: so Close never blocks on its receive,  *)
(* and nothing but a failure loses a ticket.                               *)
THEOREM PoolTicketsAccounted == Spec => []TicketsAccounted
  <1>1. Init => TicketsAccounted
    BY InitTickets
  <1>2. HandsInv /\ TicketsAccounted /\ [Next]_poolVars => TicketsAccounted'
    BY NextTickets
  <1> QED BY SpecHands, <1>1, <1>2, PTL DEF Spec

(* The limit given to NewPool holds at every moment, and whatever fails.   *)
THEOREM PoolConnLimit == Spec => []ConnLimit
  <1>1. HandsInv /\ TicketsAccounted => ConnLimit
    <2> SUFFICES ASSUME HandsInv, TicketsAccounted, Limited
                 PROVE  Cardinality(OpenConns) + Cardinality(Dialling) <= MaxConn
      BY DEF ConnLimit
    <2>1. OpenConns \subseteq Ticketed
      BY DEF OpenConns, Ticketed
    <2>2. Cardinality(OpenConns) \in Nat /\ Cardinality(OpenConns) <= Cardinality(Ticketed)
      BY <2>1, FiniteCounts, FS_Subset, FS_CardinalityType
    <2> QED BY <2>2, FiniteCounts, PoolAssumption DEF TicketsAccounted, HandsInv, TypeOK
  <1> QED BY SpecHands, PoolTicketsAccounted, <1>1, PTL

-----------------------------------------------------------------------------
(* The pool implements the lease.                                          *)

(* The client a connection in use belongs to is its only lessee.           *)
LesseeOnly ==
  \A n \in OpenConns : \A c \in Clients : own[c] = n => Lessees(n) = {c}

LEMMA LesseeFacts == HandsInv => LesseeOnly
  BY PoolAssumption DEF LesseeOnly, Lessees, OpenConns, HandsInv, ExclusiveUse

LEMMA LesseeFactsNext == HandsInv' => LesseeOnly'
  BY LesseeFacts, PTL

(* A step that leaves who has n, and whether n is open, as they are.       *)
LEMMA LesseeSame ==
  ASSUME NEW n \in Conns,
         \A d \in Clients : (own'[d] = n /\ n \in OpenConns') <=> (own[d] = n /\ n \in OpenConns)
  PROVE  Lessees(n)' = Lessees(n)
  BY DEF Lessees

LEMMA LesseeSameAll ==
  ASSUME OpenConns' = OpenConns,
         \A d \in Clients : own'[d] = own[d] \/ (own[d] \notin OpenConns /\ own'[d] \notin OpenConns)
  PROVE  UNCHANGED <<OpenConns, [n \in Conns |-> Lessees(n)]>>
  <1>1. \A n \in Conns : Lessees(n)' = Lessees(n)
    BY LesseeSame
  <1> QED BY <1>1

(* The client a step leaves with connection n is its lessee.               *)
LEMMA LesseeNext ==
  ASSUME HandsInv', NEW n \in Conns, NEW c \in Clients, own'[c] = n, n \in OpenConns'
  PROVE  Lessees(n)' = {c}
  BY LesseeFactsNext DEF LesseeOnly

(* A connection that a step leaves with nobody has no lessee.              *)
LEMMA LesseeGone ==
  ASSUME NEW n \in Conns, n \in OpenConns' => \A d \in Clients : own'[d] # n
  PROVE  Lessees(n)' = {}
  BY DEF Lessees

LEMMA NoneLeased ==
  ASSUME NEW c \in Clients, own[c] \notin OpenConns
  PROVE  Leases!HasNone(c)
  BY DEF Lessees, Leases!HasNone

(* A client with an idle connection taken from the buffer leases it.       *)
LEMMA TakeIdleLeases ==
  ASSUME HandsInv, HandsInv', NEW c \in Clients, own[c] = NoConn, TakeIdle(c)
  PROVE  \E n \in Conns : Leases!Lease(c, n)
  <1>0. /\ Head(idleTicket) = idleTicket[1] /\ Head(idleTicket) \in Conns
        /\ 1 \in 1..Len(idleTicket)
    BY HeadTailFacts DEF HandsInv, TypeOK, TakeIdle
  <1>n. PICK n \in Conns : n = Head(idleTicket)
    BY <1>0
  <1>h. n = idleTicket[1] /\ 1 \in 1..Len(idleTicket)
    BY <1>0, <1>n
  <1>1. /\ live[n] = "open" /\ UNCHANGED live
        /\ n \in OpenConns /\ OpenConns' = OpenConns
    BY <1>h DEF HandsInv, OwnByPc, TakeIdle, OpenConns
  <1>2. own'[c] = n /\ \A d \in Clients \ {c} : own'[d] = own[d]
    BY <1>n DEF TakeIdle, HandsInv, TypeOK
  <1>3. \A d \in Clients : own[d] # n
    BY <1>h DEF HandsInv, ExclusiveUse
  <1>4. Lessees(n) = {}
    BY <1>3 DEF Lessees
  <1>5. Lessees(n)' = {c}
    BY <1>h, <1>1, <1>2, LesseeNext
  <1>6. \A k \in Conns \ {n} : Lessees(k)' = Lessees(k)
    <2> SUFFICES ASSUME NEW k \in Conns \ {n} PROVE Lessees(k)' = Lessees(k)
      OBVIOUS
    <2>1. k # NoConn
      BY PoolAssumption
    <2> QED BY <1>1, <1>2, <2>1, LesseeSame
  <1>7. [k \in Conns |-> Lessees(k)]' = [[k \in Conns |-> Lessees(k)] EXCEPT ![n] = {c}]
    BY <1>h, <1>5, <1>6
  <1>8. own[c] \notin OpenConns
    BY PoolAssumption DEF OpenConns
  <1> QED BY <1>h, <1>1, <1>4, <1>7, <1>8, NoneLeased DEF Leases!Lease

(* Giving back: own[c] = n passes from c to d, or to nobody.               *)
LEMMA PassedOn ==
  ASSUME HandsInv, HandsInv', NEW c \in Clients, NEW n \in Conns, own[c] = n,
         n \in OpenConns, OpenConns' = OpenConns, own'[c] = NoConn,
         NEW d \in Clients \cup {NoConn}, d # c,
         d \in Clients => own[d] = NoConn /\ own'[d] = n,
         \A e \in Clients \ {c, d} : own'[e] = own[e]
  PROVE  Leases!GiveBack(c, n)
  <1>1. Lessees(n) = {c}
    BY LesseeFacts DEF LesseeOnly
  <1>2. Lessees(n)' = IF d \in Clients THEN {d} ELSE {}
    <2>1. CASE d \in Clients
      BY <2>1, LesseeNext
    <2>2. CASE d \notin Clients
      <3>1. \A e \in Clients : own'[e] # n
        BY <2>2, PoolAssumption DEF HandsInv, ExclusiveUse
      <3> QED BY <2>2, <3>1, LesseeGone
    <2> QED BY <2>1, <2>2
  <1>3. \A k \in Conns \ {n} : Lessees(k)' = Lessees(k)
    <2> SUFFICES ASSUME NEW k \in Conns \ {n} PROVE Lessees(k)' = Lessees(k)
      OBVIOUS
    <2>1. k # NoConn
      BY PoolAssumption
    <2>2. \A e \in Clients : own'[e] = k <=> own[e] = k
      BY <2>1
    <2> QED BY <2>2, LesseeSame
  <1>4. [k \in Conns |-> Lessees(k)]'
          = [[k \in Conns |-> Lessees(k)] EXCEPT ![n] = IF d \in Clients THEN {d} ELSE {}]
    BY <1>2, <1>3
  <1>5. d \in Clients => Leases!HasNone(d)
    <2>1. d \in Clients => own[d] \notin OpenConns
      BY PoolAssumption DEF OpenConns
    <2> QED BY <2>1, NoneLeased
  <1> QED BY <1>1, <1>4, <1>5 DEF Leases!GiveBack

LEMMA DialOpens ==
  ASSUME HandsInv, TicketsAccounted, HandsInv', NEW c \in Clients, NEW n \in Conns,
         DialOK(c, n)
  PROVE  Leases!Open(c, n)
  <1>1. n \notin OpenConns /\ OpenConns' = OpenConns \cup {n}
    BY DEF DialOK, OpenConns, HandsInv, TypeOK
  <1>2. own[c] = NoConn /\ own'[c] = n /\ \A d \in Clients \ {c} : own'[d] = own[d]
    BY DEF DialOK, HandsInv, TypeOK, OwnByPc, Owning
  <1>3. MaxConn # 0 => Cardinality(OpenConns) < MaxConn
    <2> SUFFICES ASSUME Limited PROVE Cardinality(OpenConns) < MaxConn
      BY DEF Limited
    <2>1. OpenConns \subseteq Ticketed
      BY DEF OpenConns, Ticketed
    <2>2. Cardinality(OpenConns) \in Nat /\ Cardinality(OpenConns) <= Cardinality(Ticketed)
      BY <2>1, FiniteCounts, FS_Subset, FS_CardinalityType
    <2>3. c \in Dialling
      BY DEF DialOK, Dialling
    <2>4. Cardinality(Dialling) >= 1
      <3>1. Cardinality(Dialling \ {c}) = Cardinality(Dialling) - 1
        BY <2>3, FiniteCounts, RemoveOne
      <3>2. Cardinality(Dialling \ {c}) \in Nat
        BY FiniteCounts, FS_RemoveElement, FS_CardinalityType
      <3> QED BY <3>1, <3>2, FiniteCounts
    <2> QED BY SMTT(60), <2>2, <2>4, FiniteCounts, PoolAssumption
            DEF TicketsAccounted, HandsInv, TypeOK
  <1>4. Lessees(n)' = {c}
    BY <1>1, <1>2, LesseeNext
  <1>5. \A k \in Conns \ {n} : Lessees(k)' = Lessees(k)
    <2> SUFFICES ASSUME NEW k \in Conns \ {n} PROVE Lessees(k)' = Lessees(k)
      OBVIOUS
    <2>1. k # NoConn
      BY PoolAssumption
    <2> QED BY <1>1, <1>2, <2>1, LesseeSame
  <1>6. [k \in Conns |-> Lessees(k)]' = [[k \in Conns |-> Lessees(k)] EXCEPT ![n] = {c}]
    BY <1>4, <1>5
  <1>7. Leases!HasNone(c)
    BY <1>2, NoneLeased, PoolAssumption DEF OpenConns
  <1>8. Leases!Cardinality(OpenConns) = Cardinality(OpenConns)
    BY DEF Leases!Cardinality, Cardinality
  <1> QED BY <1>1, <1>3, <1>6, <1>7, <1>8 DEF Leases!Open

LEMMA CloseShuts ==
  ASSUME HandsInv, HandsInv', NEW c \in Clients, CloseConn(c)
  PROVE  \E n \in Conns : Leases!Shut(c, n)
  <1>1. own[c] \in Conns
    BY DEF CloseConn, HandsInv, TypeOK, OwnByPc, Owning
  <1>2. PICK n \in Conns : n = own[c]
    BY <1>1
  <1>3. /\ live[n] = "open" /\ UNCHANGED own
        /\ live' = [live EXCEPT ![n] = "closed"]
    BY <1>2 DEF CloseConn, HandsInv, OwnByPc
  <1>4. n \in OpenConns /\ OpenConns' = OpenConns \ {n}
    BY <1>3 DEF OpenConns, HandsInv, TypeOK
  <1>5. Lessees(n) = {c}
    BY <1>2, <1>4, LesseeFacts DEF LesseeOnly
  <1>6. Lessees(n)' = {}
    BY <1>4, LesseeGone
  <1>7. \A k \in Conns \ {n} : Lessees(k)' = Lessees(k)
    <2> SUFFICES ASSUME NEW k \in Conns \ {n} PROVE Lessees(k)' = Lessees(k)
      OBVIOUS
    <2> QED BY <1>3, <1>4, LesseeSame
  <1>8. [k \in Conns |-> Lessees(k)]' = [[k \in Conns |-> Lessees(k)] EXCEPT ![n] = {}]
    BY <1>6, <1>7
  <1> QED BY <1>4, <1>5, <1>8 DEF Leases!Shut

(* Every other step leaves the leases as they are.                         *)
LEMMA ConnectRefines ==
  ASSUME HandsInv, TicketsAccounted, HandsInv', NEW c \in Clients,
         Connect(c) \/ ConnectStep(c)
  PROVE  Leases!Next \/ UNCHANGED <<OpenConns, [n \in Conns |-> Lessees(n)]>>
  <1>1. CASE TakeIdle(c) /\ pc[c] \in {"try", "select"}
    <2>1. own[c] = NoConn
      BY <1>1 DEF HandsInv, OwnByPc, Owning
    <2> QED BY <1>1, <2>1, TakeIdleLeases DEF Leases!Next
  <1>2. CASE \E n \in Conns : DialOK(c, n)
    BY <1>2, DialOpens DEF Leases!Next
  <1>3. CASE SetupFail(c)
    <2>1. own[c] \in Conns
      BY <1>3 DEF SetupFail, HandsInv, TypeOK, OwnByPc, Owning
    <2>2. PICK n \in Conns : n = own[c]
      BY <2>1
    <2>3. live[n] = "dialed" /\ n \in OpenConns /\ OpenConns' = OpenConns
      BY <1>3, <2>2 DEF SetupFail, HandsInv, TypeOK, OwnByPc, OpenConns
    <2>4. own'[c] = NoConn /\ \A e \in Clients \ {c} : own'[e] = own[e]
      BY <1>3 DEF SetupFail, HandsInv, TypeOK
    <2>5. NoConn # c /\ NoConn \notin Clients
      BY PoolAssumption
    <2>6. Leases!GiveBack(c, n)
      BY <2>2, <2>3, <2>4, <2>5, PassedOn
    <2> QED BY <2>6 DEF Leases!Next
  <1>4. CASE SetupOK(c)
    <2>1. live[own[c]] = "dialed" /\ UNCHANGED own
      BY <1>4 DEF SetupOK, HandsInv, OwnByPc
    <2>2. OpenConns' = OpenConns
      BY <1>4, <2>1 DEF SetupOK, HandsInv, TypeOK, OpenConns
    <2> QED BY <2>1, <2>2, LesseeSameAll
  <1>5. CASE \/ Connect(c) \/ TakeTicket(c) \/ Park(c) \/ Received(c) \/ DialFail(c)
             \/ PollIdle(c) /\ ~TakeIdle(c)
    <2>1. UNCHANGED <<own, live>>
      <3>1. CASE Received(c)
        BY <3>1 DEF Received, HandsInv, OwnByPc, Available
      <3> QED BY <1>5, <3>1 DEF Connect, TakeTicket, Park, DialFail, PollIdle
    <2>2. OpenConns' = OpenConns
      BY <2>1 DEF OpenConns
    <2> QED BY <2>1, <2>2, LesseeSameAll
  <1> QED BY <1>1, <1>2, <1>3, <1>4, <1>5 DEF ConnectStep, SelectIdle, PollIdle

LEMMA ReleaseRefines ==
  ASSUME HandsInv, HandsInv', NEW c \in Clients, Release(c)
  PROVE  Leases!Next \/ UNCHANGED <<OpenConns, [n \in Conns |-> Lessees(n)]>>
  <1>1. /\ pc[c] = "use" /\ live[own[c]] = "open" /\ own[c] \in Conns /\ UNCHANGED live
    BY DEF Release, ReleaseKeep, ReleaseClose, HandsInv, TypeOK, OwnByPc, Owning
  <1>2. PICK n \in Conns : n = own[c]
    BY <1>1
  <1>3. n \in OpenConns /\ OpenConns' = OpenConns
    BY <1>1, <1>2 DEF OpenConns
  <1>4. CASE HandOver(c)
    <2>1. /\ Head(waitq) \in Clients /\ Head(waitq) # c /\ own[Head(waitq)] = NoConn
      BY <1>1, <1>4, QueueTail DEF HandOver, HandsInv, OwnByPc, Owning
    <2>2. PICK d \in Clients : d = Head(waitq)
      BY <2>1
    <2>3. /\ own'[c] = NoConn /\ own'[d] = n
          /\ \A e \in Clients \ {c, d} : own'[e] = own[e]
      BY <1>2, <1>4, <2>1, <2>2 DEF HandOver, HandsInv, TypeOK
    <2>4. Leases!GiveBack(c, n)
      BY <1>2, <1>3, <2>1, <2>2, <2>3, PassedOn
    <2> QED BY <2>4 DEF Leases!Next
  <1>5. CASE Buffer(c)
    <2>1. own'[c] = NoConn /\ \A e \in Clients \ {c} : own'[e] = own[e]
      BY <1>5 DEF Buffer, HandsInv, TypeOK
    <2>2. NoConn # c /\ NoConn \notin Clients
      BY PoolAssumption
    <2>3. Leases!GiveBack(c, n)
      BY <1>2, <1>3, <2>1, <2>2, PassedOn
    <2> QED BY <2>3 DEF Leases!Next
  <1>6. CASE NoRoom(c) \/ ReleaseClose(c)
    <2>1. UNCHANGED own
      BY <1>1, <1>6 DEF NoRoom, ReleaseClose, Available
    <2> QED BY <1>3, <2>1, LesseeSameAll
  <1> QED BY <1>1, <1>4, <1>5, <1>6 DEF Release, ReleaseKeep, Available

LEMMA CloseRefines ==
  ASSUME HandsInv, HandsInv', NEW c \in Clients, CloseStep(c)
  PROVE  Leases!Next \/ UNCHANGED <<OpenConns, [n \in Conns |-> Lessees(n)]>>
  <1>1. CASE CloseConn(c)
    BY <1>1, CloseShuts DEF Leases!Next
  <1>2. CASE DrainTicket(c)
    <2>1. live[own[c]] = "closed" /\ own[c] \in Conns
      BY <1>2 DEF DrainTicket, HandsInv, TypeOK, OwnByPc, Owning
    <2>2. own[c] \notin OpenConns /\ OpenConns' = OpenConns
      BY <1>2, <2>1 DEF DrainTicket, HandsInv, TypeOK, OpenConns
    <2>3. own'[c] = NoConn /\ \A d \in Clients \ {c} : own'[d] = own[d]
      BY <1>2 DEF DrainTicket, HandsInv, TypeOK
    <2>4. NoConn \notin OpenConns
      BY PoolAssumption DEF OpenConns
    <2> QED BY <2>2, <2>3, <2>4, LesseeSameAll
  <1> QED BY <1>1, <1>2 DEF CloseStep

LEMMA InitLeases ==
  ASSUME Init PROVE Leases!Init
  <1>1. OpenConns = {}
    BY DEF Init, OpenConns
  <1>2. \A n \in Conns : Lessees(n) = {}
    BY <1>1 DEF Lessees
  <1> QED BY <1>1, <1>2 DEF Leases!Init

LEMMA NextRefines ==
  ASSUME HandsInv, HandsInv', TicketsAccounted, [Next]_poolVars
  PROVE  [Leases!Next]_(Leases!leaseVars)
  <1> SUFFICES Leases!Next \/ UNCHANGED <<OpenConns, [n \in Conns |-> Lessees(n)]>>
    BY DEF Leases!leaseVars
  <1>1. CASE UNCHANGED poolVars
    <2>1. OpenConns' = OpenConns /\ UNCHANGED own
      BY <1>1 DEF poolVars, OpenConns
    <2> QED BY <2>1, LesseeSameAll
  <1>2. ASSUME NEW c \in Clients,
               Connect(c) \/ ConnectStep(c) \/ Release(c) \/ CloseStep(c)
        PROVE  Leases!Next \/ UNCHANGED <<OpenConns, [n \in Conns |-> Lessees(n)]>>
    BY <1>2, ConnectRefines, ReleaseRefines, CloseRefines
  <1> QED BY <1>1, <1>2 DEF Next

(* The pool, with its channels and its goroutines at any point of Connect, *)
(* Release or Close, does only what the lease of ConnLease allows.         *)
THEOREM PoolImplementsLease == Spec => LeaseSpec
  <1>1. Init => Leases!Init
    BY InitLeases
  <1>2. HandsInv /\ HandsInv' /\ TicketsAccounted /\ [Next]_poolVars
          => [Leases!Next]_(Leases!leaseVars)
    BY NextRefines
  <1> QED BY SpecHands, PoolTicketsAccounted, <1>1, <1>2, PTL
          DEF Spec, LeaseSpec, Leases!Spec
=============================================================================
