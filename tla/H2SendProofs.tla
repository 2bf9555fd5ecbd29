---------------------------- MODULE H2SendProofs ----------------------------
(***************************************************************************)
(* What H2Send says of request bodies, for any requests, windows and       *)
(* bounds.                                                                 *)
(***************************************************************************)
EXTENDS H2Send, H2FlowProofs

LEMMA WindowsFit ==
  /\ FirstWindow \in 0..(Half - 1) /\ Windows \subseteq 0..(Half - 1)
  /\ Increments \subseteq Uint /\ Increments \subseteq Int32
  /\ \A inc \in Increments : Signed(inc) = inc
BY SendAssumption, FlowAssumption DEF Uint, Int32, Signed

LEMMA BufferSize ==
  ASSUME declared \in [Requests -> Declared], NEW r \in Requests
  PROVE  BufSz(r) \in Nat /\ MaxFrame \in Nat
BY SendAssumption DEF BufSz

(* A writer that takes tokens gets at most what its chunk holds, leaves    *)
(* neither window below zero, and takes the same from both.                *)
LEMMA TakeExact ==
  ASSUME TypeOK, NEW r \in Requests, Take(r)
  PROVE  /\ body'[r].taken \in 0..body[r].current
         /\ outflow'[r] = outflow[r] - body'[r].taken /\ outflow'[r] \in 0..(Half - 1)
         /\ connOutflow' = connOutflow - body'[r].taken /\ connOutflow' \in 0..(Half - 1)
         /\ body' = [body EXCEPT ![r].taken = body'[r].taken]
         /\ outflow' = [outflow EXCEPT ![r] = outflow'[r]]
<1> DEFINE take1 == Paid(outflow[r], body[r].current)
           take2 == Paid(connOutflow, take1)
<1>1. outflow[r] \in Int32 /\ connOutflow \in Int32 /\ body[r].current \in Nat
      /\ Available(outflow[r]) /\ Available(connOutflow)
  BY DEF TypeOK, Take
<1>2. /\ take1 \in 0..body[r].current /\ take1 <= outflow[r]
      /\ AfterPay(outflow[r], take1) = outflow[r] - take1
  <2>1. take1 \in 0..body[r].current /\ take1 <= outflow[r]
    BY <1>1, PayExact
  <2>2. AfterPay(outflow[r], take1) = outflow[r] - Paid(outflow[r], take1)
        /\ Paid(outflow[r], take1) = take1
    BY <1>1, <2>1, PayExact
  <2> QED BY <2>1, <2>2
<1>3. /\ take2 \in 0..take1 /\ take2 <= connOutflow
      /\ AfterPay(connOutflow, take2) = connOutflow - take2
  <2>1. take2 \in 0..take1 /\ take2 <= connOutflow
    BY <1>1, <1>2, PayExact
  <2>2. AfterPay(connOutflow, take2) = connOutflow - Paid(connOutflow, take2)
        /\ Paid(connOutflow, take2) = take2
    BY <1>1, <1>2, <2>1, PayExact
  <2> QED BY <2>1, <2>2
<1>4. Refunded(AfterPay(outflow[r], take1), take1 - take2) = outflow[r] - take2
  <2> DEFINE n == outflow[r] - take1
             back == take1 - take2
  <2>1. n \in Int32 /\ back \in Uint /\ Signed(back) = back /\ n + Signed(back) \in Int32
    BY <1>1, <1>2, <1>3, FlowAssumption DEF Int32, Uint, Signed
  <2>2. Refunded(n, back) = n + Signed(back)
    BY <2>1, RefundExact
  <2> QED BY <1>1, <1>2, <1>3, <2>1, <2>2 DEF Int32
<1>5. /\ outflow' = [outflow EXCEPT ![r] = outflow[r] - take2]
      /\ connOutflow' = connOutflow - take2
      /\ body' = [body EXCEPT ![r].taken = take2]
  <2>1. Takes(r, Refunded(AfterPay(outflow[r], take1), take1 - take2),
              AfterPay(connOutflow, take2), take2)
    BY DEF Take
  <2> QED BY <2>1, <1>3, <1>4 DEF Takes
<1>6. outflow[r] - take2 \in 0..(Half - 1) /\ connOutflow - take2 \in 0..(Half - 1)
  BY <1>1, <1>2, <1>3, FlowAssumption DEF Int32
<1> QED BY <1>2, <1>3, <1>5, <1>6 DEF TypeOK

(* What WriteData does to its writer: the bytes sent leave the chunk.      *)
LEMMA WriteExact ==
  ASSUME TypeOK, NEW r \in Requests, WriteData(r)
  PROVE  /\ body' \in [Requests -> [read : 0..MaxBody, current : Nat, sawEOF : BOOLEAN, taken : Nat]]
         /\ body'[r].current = body[r].current - body[r].taken /\ body'[r].taken = 0
         /\ body'[r].read = body[r].read /\ body'[r].sawEOF = body[r].sawEOF
         /\ \A q \in Requests : q # r => body'[q] = body[q]
<1> DEFINE left == body[r].current - body[r].taken
           b == [body EXCEPT ![r].current = left]
<1> USE DEF TypeOK
<1>1. body' = [b EXCEPT ![r].taken = 0]
  BY DEF WriteData
<1>2. left \in Nat
  OBVIOUS
<1>3. /\ b \in [Requests -> [read : 0..MaxBody, current : Nat, sawEOF : BOOLEAN, taken : Nat]]
      /\ b[r].current = left /\ b[r].read = body[r].read /\ b[r].sawEOF = body[r].sawEOF
      /\ \A q \in Requests : q # r => b[q] = body[q]
  BY <1>2
<1> HIDE DEF b
<1>4. /\ body' \in [Requests -> [read : 0..MaxBody, current : Nat, sawEOF : BOOLEAN, taken : Nat]]
      /\ body'[r].current = b[r].current /\ body'[r].taken = 0
      /\ body'[r].read = b[r].read /\ body'[r].sawEOF = b[r].sawEOF
      /\ \A q \in Requests : q # r => body'[q] = b[q]
  BY <1>1, <1>3
<1> QED BY <1>3, <1>4

(* What Fill does: the bytes read are in the chunk.                        *)
LEMMA FillExact ==
  ASSUME TypeOK, NEW r \in Requests, NEW l \in 0..MaxBody, NEW eof \in BOOLEAN, Fill(r, l, eof)
  PROVE  \A q \in Requests : body'[q].taken = body[q].taken
                            /\ body'[q].read - body'[q].current = body[q].read - body[q].current
<1>1. MaxBody \in Nat
  BY SendAssumption
<1> QED BY SMTT(60), <1>1 DEF Fill, TypeOK

-----------------------------------------------------------------------------
(* Type correctness.                                                       *)

LEMMA TypeInit == Init => TypeOK
<1> SUFFICES ASSUME Init PROVE TypeOK
  OBVIOUS
<1>1. \A r \in Requests : BufSz(r) \in Nat
  BY BufferSize DEF Init
<1>2. MaxBody \in Nat /\ MaxSettings \in Nat /\ MaxUpdates \in Nat /\ 0 \in Int32
  BY SendAssumption, FlowAssumption DEF Int32
<1>3. FirstWindow \in Int32 /\ FirstWindow \in Int
  BY WindowsFit, FlowAssumption DEF Int32
<1>4. /\ body \in [Requests -> [read : 0..MaxBody, current : Nat, sawEOF : BOOLEAN, taken : Nat]]
      /\ \A r \in Requests : body[r].taken <= body[r].current /\ body[r].current <= BufSz(r)
  BY <1>1, <1>2 DEF Init
<1>5. /\ writer \in [Requests -> Writers] /\ flowWaiters \subseteq {r \in Requests : writer[r] = "take"}
      /\ {over, readers, cur} \subseteq SUBSET Requests
      /\ loop \in {"read", "wantPeer", "havePeer", "reset"} /\ declared \in [Requests -> Declared]
  BY DEF Init, Writers
<1>6. /\ outflow \in [Requests -> Int32] /\ connOutflow \in Int32
      /\ initial \in Windows \cup {FirstWindow} /\ allowed \in [Requests -> Int] /\ connAllowed \in Int
      /\ settings \in 0..MaxSettings /\ updates \in 0..MaxUpdates
  BY <1>2, <1>3 DEF Init
<1> QED BY <1>4, <1>5, <1>6 DEF TypeOK

LEMMA TypeStep == TypeOK /\ [Next]_vars => TypeOK'
<1> SUFFICES ASSUME TypeOK, [Next]_vars PROVE TypeOK'
  OBVIOUS
<1> USE DEF TypeOK
<1>0. \A r \in Requests : BufSz(r) \in Nat
  BY BufferSize
<1>1. ASSUME NEW r \in Requests, Register(r) PROVE TypeOK'
  BY <1>1 DEF Register, SetsWriter, Writers, BufSz, windowVars, serverVars, bodyVars, loopVars
<1>2. ASSUME NEW r \in Requests, OpenWindow(r) PROVE TypeOK'
  <2>1. initial \in Uint
    BY WindowsFit, FlowAssumption DEF Uint
  <2>2. Refunded(outflow[r], initial) \in Int32
    BY <2>1, RefundExact
  <2> QED BY <1>2, <2>2 DEF OpenWindow, SetsWriter, Writers, BufSz, serverVars, bodyVars, loopVars
<1>3. ASSUME NEW r \in Requests, NEW ok \in BOOLEAN, WriteHeaders(r, ok) PROVE TypeOK'
  BY <1>3 DEF WriteHeaders, SetsWriter, Writers, BufSz, windowVars, serverVars, bodyVars, loopVars
<1>4. ASSUME NEW r \in Requests, CloseWithError(r) PROVE TypeOK'
  BY <1>4 DEF CloseWithError, BufSz, windowVars, serverVars, bodyVars, loopVars
<1>5. ASSUME NEW r \in Requests, StartBody(r) PROVE TypeOK'
  BY <1>5 DEF StartBody, SetsWriter, Writers, BodyStep, BufSz, serverVars, loopVars
<1>6. ASSUME NEW r \in Requests, FindsError(r) PROVE TypeOK'
  BY <1>6 DEF FindsError, SetsWriter, Writers, BodyStep, BufSz, serverVars, loopVars
<1>7. ASSUME NEW r \in Requests, Cancelled(r) PROVE TypeOK'
  BY <1>7 DEF Cancelled, Returns, SetsWriter, Writers, BodyStep, BufSz, serverVars, loopVars
<1>8. ASSUME NEW r \in Requests, NEW l \in 0..MaxBody, NEW eof \in BOOLEAN, Fill(r, l, eof)
      PROVE  TypeOK'
  <2>1. /\ body' \in [Requests -> [read : 0..MaxBody, current : Nat, sawEOF : BOOLEAN, taken : Nat]]
        /\ \A q \in Requests : body'[q].taken <= body'[q].current /\ body'[q].current <= BufSz(q)
    BY <1>8, <1>0, SendAssumption DEF Fill
  <2>2. \A q \in Requests : BufSz(q)' = BufSz(q)
    BY SMTT(60), <1>8 DEF Fill, BodyStep, BufSz
  <2>3. writer' \in [Requests -> Writers] /\ readers' \subseteq Requests
        /\ flowWaiters' \subseteq {q \in Requests : writer'[q] = "take"}
    BY <1>8 DEF Fill, SetsWriter, Writers, BodyStep
  <2>4. /\ UNCHANGED <<over, declared>>
        /\ UNCHANGED <<outflow, connOutflow, initial>>
        /\ UNCHANGED <<allowed, connAllowed>> /\ UNCHANGED <<loop, cur, settings, updates>>
    BY <1>8 DEF Fill, BodyStep, serverVars, loopVars
  <2> QED BY <2>1, <2>2, <2>3, <2>4
<1>9. ASSUME NEW r \in Requests, Park(r) PROVE TypeOK'
  BY <1>9 DEF Park, BodyStep, BufSz, serverVars, loopVars
<1>10. ASSUME NEW r \in Requests, Take(r) PROVE TypeOK'
  <2>1. /\ body' \in [Requests -> [read : 0..MaxBody, current : Nat, sawEOF : BOOLEAN, taken : Nat]]
        /\ \A q \in Requests : body'[q].taken <= body'[q].current /\ body'[q].current <= BufSz(q)
    <3>1. PICK t \in 0..body[r].current : body' = [body EXCEPT ![r].taken = t]
      BY <1>10, TakeExact
    <3>2. t \in Nat /\ t <= body[r].current
      BY <3>1
    <3> QED BY <3>1, <3>2, <1>0
  <2>2. outflow' \in [Requests -> Int32] /\ connOutflow' \in Int32
    BY <1>10, TakeExact, FlowAssumption DEF Int32
  <2>3. \A q \in Requests : BufSz(q)' = BufSz(q)
    BY <1>10 DEF Take, Takes, BodyStep, BufSz
  <2> QED BY <1>10, <2>1, <2>2, <2>3 DEF Take, Takes, SetsWriter, Writers, BodyStep, serverVars, loopVars
<1>11. ASSUME NEW r \in Requests, WriteData(r) PROVE TypeOK'
  <2>1. /\ body' \in [Requests -> [read : 0..MaxBody, current : Nat, sawEOF : BOOLEAN, taken : Nat]]
        /\ \A q \in Requests : body'[q].taken <= body'[q].current /\ body'[q].current <= BufSz(q)
    BY <1>11, <1>0, WriteExact
  <2>2. \A q \in Requests : BufSz(q)' = BufSz(q)
    BY <1>11 DEF WriteData, BodyStep, BufSz
  <2>3. writer' \in [Requests -> Writers] /\ readers' \subseteq Requests
        /\ \A q \in Requests \ {r} : writer'[q] = writer[q]
    BY <1>11 DEF WriteData, Returns, SetsWriter, Writers
  <2>4. allowed' \in [Requests -> Int] /\ connAllowed' \in Int
    BY <1>11 DEF WriteData
  <2> QED BY <1>11, <2>1, <2>2, <2>3, <2>4 DEF WriteData, BodyStep, loopVars
<1>12. ASSUME NEW r \in Requests, WriteDataFails(r) PROVE TypeOK'
  BY <1>12 DEF WriteDataFails, Returns, SetsWriter, Writers, BodyStep, BufSz, serverVars, loopVars
<1>13. CASE OnSettings
  BY <1>13, SendAssumption DEF OnSettings, BufSz, streamVars, windowVars, serverVars, bodyVars
<1>14. CASE LockPeer
  BY <1>14 DEF LockPeer, BufSz, streamVars, windowVars, serverVars, bodyVars
<1>15. ASSUME NEW window \in Windows, UpdateSettings(window) PROVE TypeOK'
  <2>1. initial \in 0..(Half - 1) /\ window \in 0..(Half - 1)
    BY WindowsFit
  <2>2. \A r \in Requests : Refunded(outflow[r], Delta(initial, window)) \in Int32
    BY <2>1, DeltaExact, RefundExact
  <2>3. outflow' \in [Requests -> Int32] /\ allowed' \in [Requests -> Int]
    BY <1>15, <2>1, <2>2, FlowAssumption DEF UpdateSettings
  <2> QED BY <1>15, <2>3 DEF UpdateSettings, BufSz, streamVars, bodyVars
<1>16. ASSUME NEW inc \in Increments, OnConnUpdate(inc) PROVE TypeOK'
  <2>1. Refunded(connOutflow, inc) \in Int32 /\ inc \in Int
    BY WindowsFit, RefundExact DEF Int32
  <2> QED BY <1>16, <2>1, SendAssumption
          DEF OnConnUpdate, GetsUpdate, Wakes, BufSz, streamVars, bodyVars
<1>17. ASSUME NEW inc \in Increments, NEW r \in Requests, OnStreamUpdate(r, inc) PROVE TypeOK'
  <2>1. Refunded(outflow[r], inc) \in Int32 /\ inc \in Int
    BY WindowsFit, RefundExact DEF Int32
  <2> QED BY <1>17, <2>1, SendAssumption
          DEF OnStreamUpdate, GetsUpdate, Wakes, BufSz, streamVars, bodyVars
<1>18. CASE LoopResets
  BY <1>18 DEF LoopResets, Wakes, BufSz, serverVars, bodyVars
<1>19. CASE UNCHANGED vars
  BY <1>19 DEF vars, streamVars, windowVars, serverVars, bodyVars, loopVars, BufSz
<1> QED BY <1>1, <1>2, <1>3, <1>4, <1>5, <1>6, <1>7, <1>8, <1>9, <1>10, <1>11, <1>12, <1>13,
           <1>14, <1>15, <1>16, <1>17, <1>18, <1>19 DEF Next, Uploading

-----------------------------------------------------------------------------
(* Who holds muPeer, and where tokens are.                                 *)

(* A writer of a body holds the settings, and nobody does while SETTINGS   *)
(* are applied.                                                            *)
LocksInv ==
  /\ \A r \in Requests : writer[r] \in {"fill", "take", "data"} => r \in readers
  /\ loop = "havePeer" => readers = {}

(* Only a writer about to write, or one that could not, has tokens.        *)
TakenInv == \A r \in Requests : writer[r] \notin {"data", "broken"} => body[r].taken = 0

(* How far below zero SETTINGS can push a window: lowering the initial     *)
(* window takes away no more than raising it can give back.                *)
FloorInv ==
  \A r \in Requests :
    /\ writer[r] = "none" => outflow[r] = 0
    /\ Live(r) => outflow[r] >= initial - (Half - 1)

LEMMA LocksStep == TypeOK /\ LocksInv /\ [Next]_vars => LocksInv'
<1> SUFFICES ASSUME TypeOK, LocksInv, [Next]_vars PROVE LocksInv'
  OBVIOUS
<1> USE DEF LocksInv, SetsWriter
<1>t. writer \in [Requests -> Writers] /\ readers \subseteq Requests
  BY DEF TypeOK
<1>1. ASSUME NEW r \in Requests, Register(r) PROVE LocksInv'
  BY <1>1, <1>t DEF Register, loopVars
<1>2. ASSUME NEW r \in Requests, OpenWindow(r) PROVE LocksInv'
  BY <1>2, <1>t DEF OpenWindow, loopVars
<1>3. ASSUME NEW r \in Requests, NEW ok \in BOOLEAN, WriteHeaders(r, ok) PROVE LocksInv'
  BY <1>3, <1>t DEF WriteHeaders, loopVars
<1>4. ASSUME NEW r \in Requests, CloseWithError(r) PROVE LocksInv'
  BY <1>4 DEF CloseWithError, loopVars
<1>5. ASSUME NEW r \in Requests, StartBody(r) PROVE LocksInv'
  BY <1>5, <1>t DEF StartBody, CanReadSettings, BodyStep, loopVars
<1>6. ASSUME NEW r \in Requests, FindsError(r) PROVE LocksInv'
  BY <1>6, <1>t DEF FindsError, BodyStep, loopVars
<1>7. ASSUME NEW r \in Requests, Cancelled(r) PROVE LocksInv'
  BY <1>7, <1>t DEF Cancelled, Returns, BodyStep, loopVars
<1>8. ASSUME NEW r \in Requests, NEW l \in 0..MaxBody, NEW eof \in BOOLEAN, Fill(r, l, eof)
      PROVE  LocksInv'
  BY <1>8, <1>t DEF Fill, BodyStep, loopVars
<1>9. ASSUME NEW r \in Requests, Park(r) PROVE LocksInv'
  BY <1>9 DEF Park, BodyStep, loopVars
<1>10. ASSUME NEW r \in Requests, Take(r) PROVE LocksInv'
  BY <1>10, <1>t DEF Take, Takes, BodyStep, loopVars
<1>11. ASSUME NEW r \in Requests, WriteData(r) PROVE LocksInv'
  <2>1. \/ Returns(r, "broken") \/ Returns(r, "done")
        \/ SetsWriter(r, "fill") /\ UNCHANGED readers
    BY <1>11 DEF WriteData
  <2>2. r \in readers /\ UNCHANGED loop
    BY <1>11 DEF WriteData, BodyStep, loopVars
  <2> QED BY <2>1, <2>2, <1>t DEF Returns
<1>12. ASSUME NEW r \in Requests, WriteDataFails(r) PROVE LocksInv'
  BY <1>12, <1>t DEF WriteDataFails, Returns, BodyStep, loopVars
<1>13. CASE OnSettings
  BY <1>13 DEF OnSettings, streamVars
<1>14. CASE LockPeer
  BY <1>14 DEF LockPeer, streamVars
<1>15. ASSUME NEW window \in Windows, UpdateSettings(window) PROVE LocksInv'
  BY <1>15 DEF UpdateSettings, streamVars
<1>16. ASSUME NEW inc \in Increments, OnConnUpdate(inc) PROVE LocksInv'
  BY <1>16 DEF OnConnUpdate, GetsUpdate, streamVars
<1>17. ASSUME NEW inc \in Increments, NEW r \in Requests, OnStreamUpdate(r, inc) PROVE LocksInv'
  BY <1>17 DEF OnStreamUpdate, GetsUpdate, streamVars
<1>18. CASE LoopResets
  BY <1>18 DEF LoopResets
<1>19. CASE UNCHANGED vars
  BY <1>19 DEF vars, streamVars, loopVars
<1> QED BY <1>1, <1>2, <1>3, <1>4, <1>5, <1>6, <1>7, <1>8, <1>9, <1>10, <1>11, <1>12, <1>13,
           <1>14, <1>15, <1>16, <1>17, <1>18, <1>19 DEF Next, Uploading

LEMMA TakenStep == TypeOK /\ TakenInv /\ [Next]_vars => TakenInv'
<1> SUFFICES ASSUME TypeOK, TakenInv, [Next]_vars PROVE TakenInv'
  OBVIOUS
<1> USE DEF TakenInv, SetsWriter
<1>t. writer \in [Requests -> Writers]
      /\ body \in [Requests -> [read : 0..MaxBody, current : Nat, sawEOF : BOOLEAN, taken : Nat]]
  BY DEF TypeOK
<1>1. ASSUME NEW r \in Requests, Register(r) PROVE TakenInv'
  BY <1>1, <1>t DEF Register, bodyVars
<1>2. ASSUME NEW r \in Requests, OpenWindow(r) PROVE TakenInv'
  BY <1>2, <1>t DEF OpenWindow, bodyVars
<1>3. ASSUME NEW r \in Requests, NEW ok \in BOOLEAN, WriteHeaders(r, ok) PROVE TakenInv'
  BY <1>3, <1>t DEF WriteHeaders, bodyVars
<1>4. ASSUME NEW r \in Requests, CloseWithError(r) PROVE TakenInv'
  BY <1>4 DEF CloseWithError, bodyVars
<1>5. ASSUME NEW r \in Requests, StartBody(r) PROVE TakenInv'
  BY <1>5, <1>t DEF StartBody
<1>6. ASSUME NEW r \in Requests, FindsError(r) PROVE TakenInv'
  BY <1>6, <1>t DEF FindsError
<1>7. ASSUME NEW r \in Requests, Cancelled(r) PROVE TakenInv'
  BY <1>7, <1>t DEF Cancelled, Returns
<1>8. ASSUME NEW r \in Requests, NEW l \in 0..MaxBody, NEW eof \in BOOLEAN, Fill(r, l, eof)
      PROVE  TakenInv'
  <2>1. \A q \in Requests : body'[q].taken = body[q].taken
    BY <1>8, FillExact
  <2> QED BY <1>8, <1>t, <2>1 DEF Fill
<1>9. ASSUME NEW r \in Requests, Park(r) PROVE TakenInv'
  BY <1>9 DEF Park
<1>10. ASSUME NEW r \in Requests, Take(r) PROVE TakenInv'
  BY <1>10, <1>t DEF Take, Takes
<1>11. ASSUME NEW r \in Requests, WriteData(r) PROVE TakenInv'
  <2>1. body'[r].taken = 0 /\ \A q \in Requests : q # r => body'[q] = body[q]
    BY <1>11, WriteExact
  <2>2. \A q \in Requests : q # r => writer'[q] = writer[q]
    BY <1>11, <1>t DEF WriteData, Returns
  <2> QED BY <2>1, <2>2
<1>12. ASSUME NEW r \in Requests, WriteDataFails(r) PROVE TakenInv'
  BY <1>12, <1>t DEF WriteDataFails, Returns
<1>13. CASE OnSettings
  BY <1>13 DEF OnSettings, streamVars, bodyVars
<1>14. CASE LockPeer
  BY <1>14 DEF LockPeer, streamVars, bodyVars
<1>15. ASSUME NEW window \in Windows, UpdateSettings(window) PROVE TakenInv'
  BY <1>15 DEF UpdateSettings, streamVars, bodyVars
<1>16. ASSUME NEW inc \in Increments, OnConnUpdate(inc) PROVE TakenInv'
  BY <1>16 DEF OnConnUpdate, GetsUpdate, streamVars, bodyVars
<1>17. ASSUME NEW inc \in Increments, NEW r \in Requests, OnStreamUpdate(r, inc) PROVE TakenInv'
  BY <1>17 DEF OnStreamUpdate, GetsUpdate, streamVars, bodyVars
<1>18. CASE LoopResets
  BY <1>18 DEF LoopResets, bodyVars
<1>19. CASE UNCHANGED vars
  BY <1>19 DEF vars, streamVars, bodyVars
<1> QED BY <1>1, <1>2, <1>3, <1>4, <1>5, <1>6, <1>7, <1>8, <1>9, <1>10, <1>11, <1>12, <1>13,
           <1>14, <1>15, <1>16, <1>17, <1>18, <1>19 DEF Next, Uploading

(* What SETTINGS do to a window above the floor: it moves by the difference*)
(* of the initial windows, or it would overflow and stays.                 *)
LEMMA SettingsExact ==
  ASSUME NEW n \in Int32, NEW old \in 0..(Half - 1), NEW new \in 0..(Half - 1),
         n >= old - (Half - 1)
  PROVE  /\ Refunded(n, Delta(old, new)) >= new - (Half - 1)
         /\ n + new - old < Half => Refunded(n, Delta(old, new)) = n + new - old
<1> DEFINE d == Delta(old, new)
<1>1. d \in Uint /\ Signed(d) = new - old
  BY DeltaExact
<1>2. /\ n + Signed(d) \in Int32 => Refunded(n, d) = n + Signed(d)
      /\ n + Signed(d) \notin Int32 => Refunded(n, d) = n
  BY <1>1, RefundExact
<1>3. n + Signed(d) >= -Half
  BY <1>1, FlowAssumption DEF Int32
<1>4. CASE n + Signed(d) \in Int32
  BY <1>1, <1>2, <1>4, FlowAssumption DEF Int32
<1>5. CASE n + Signed(d) \notin Int32
  BY <1>1, <1>2, <1>3, <1>5, FlowAssumption DEF Int32
<1> QED BY <1>4, <1>5

LEMMA FloorStep == TypeOK /\ FloorInv /\ [Next]_vars => FloorInv'
<1> SUFFICES ASSUME TypeOK, FloorInv, [Next]_vars PROVE FloorInv'
  OBVIOUS
<1> USE DEF FloorInv, SetsWriter, Live
<1>t. /\ writer \in [Requests -> Writers] /\ outflow \in [Requests -> Int32]
      /\ initial \in 0..(Half - 1) /\ Half \in Nat \ {0}
  BY WindowsFit, FlowAssumption DEF TypeOK
<1>1. ASSUME NEW r \in Requests, Register(r) PROVE FloorInv'
  BY <1>1, <1>t DEF Register, windowVars, Int32
<1>2. ASSUME NEW r \in Requests, OpenWindow(r) PROVE FloorInv'
  <2>1. initial \in Uint /\ Signed(initial) = initial
    BY <1>t DEF Uint, Signed
  <2>2. Refunded(outflow[r], initial) >= outflow[r]
    BY <2>1, <1>t, RefundExact DEF Int32
  <2>3. Refunded(outflow[r], initial) \in Int32
    BY <2>1, <1>t, RefundExact
  <2> QED BY <1>2, <1>t, <2>2, <2>3 DEF OpenWindow, Int32
<1>3. ASSUME NEW r \in Requests, NEW ok \in BOOLEAN, WriteHeaders(r, ok) PROVE FloorInv'
  BY <1>3, <1>t DEF WriteHeaders, windowVars
<1>4. ASSUME NEW r \in Requests, CloseWithError(r) PROVE FloorInv'
  BY <1>4 DEF CloseWithError, windowVars
<1>5. ASSUME NEW r \in Requests, StartBody(r) PROVE FloorInv'
  BY <1>5, <1>t DEF StartBody, BodyStep
<1>6. ASSUME NEW r \in Requests, FindsError(r) PROVE FloorInv'
  BY <1>6, <1>t DEF FindsError, BodyStep
<1>7. ASSUME NEW r \in Requests, Cancelled(r) PROVE FloorInv'
  BY <1>7, <1>t DEF Cancelled, Returns, BodyStep
<1>8. ASSUME NEW r \in Requests, NEW l \in 0..MaxBody, NEW eof \in BOOLEAN, Fill(r, l, eof)
      PROVE  FloorInv'
  BY <1>8, <1>t DEF Fill, BodyStep
<1>9. ASSUME NEW r \in Requests, Park(r) PROVE FloorInv'
  BY <1>9 DEF Park, BodyStep
<1>10. ASSUME NEW r \in Requests, Take(r) PROVE FloorInv'
  <2>1. outflow'[r] \in 0..(Half - 1) /\ \A q \in Requests : q # r => outflow'[q] = outflow[q]
    BY <1>10, <1>t, TakeExact
  <2>2. writer' = [writer EXCEPT ![r] = "data"] /\ writer[r] = "take" /\ UNCHANGED <<over, initial>>
    BY <1>10 DEF Take, Takes, BodyStep
  <2> QED BY <2>1, <2>2, <1>t
<1>11. ASSUME NEW r \in Requests, WriteData(r) PROVE FloorInv'
  BY <1>11, <1>t DEF WriteData, Returns, BodyStep
<1>12. ASSUME NEW r \in Requests, WriteDataFails(r) PROVE FloorInv'
  BY <1>12, <1>t DEF WriteDataFails, Returns, BodyStep
<1>13. CASE OnSettings
  BY <1>13 DEF OnSettings, streamVars, windowVars
<1>14. CASE LockPeer
  BY <1>14 DEF LockPeer, streamVars, windowVars
<1>15. ASSUME NEW window \in Windows, UpdateSettings(window) PROVE FloorInv'
  <2>1. window \in 0..(Half - 1) /\ initial' = window /\ UNCHANGED <<writer, over>>
    BY <1>15, WindowsFit DEF UpdateSettings, streamVars
  <2>2. ASSUME NEW r \in Requests, Live(r) PROVE outflow'[r] >= window - (Half - 1)
    <3>1. outflow'[r] = Refunded(outflow[r], Delta(initial, window))
      BY <1>15, <2>2 DEF UpdateSettings
    <3>2. outflow[r] \in Int32 /\ outflow[r] >= initial - (Half - 1)
      BY <1>t, <2>2
    <3> QED BY <2>1, <3>1, <3>2, <1>t, SettingsExact
  <2>3. ASSUME NEW r \in Requests, ~Live(r) PROVE outflow'[r] = outflow[r]
    BY <1>15, <2>3 DEF UpdateSettings
  <2> QED BY <2>1, <2>2, <2>3
<1>16. ASSUME NEW inc \in Increments, OnConnUpdate(inc) PROVE FloorInv'
  BY <1>16 DEF OnConnUpdate, GetsUpdate, streamVars
<1>17. ASSUME NEW inc \in Increments, NEW r \in Requests, OnStreamUpdate(r, inc) PROVE FloorInv'
  <2>1. inc \in Uint /\ Signed(inc) = inc /\ inc \in Nat
    BY WindowsFit DEF Uint
  <2>2. Refunded(outflow[r], inc) \in Int32 /\ Refunded(outflow[r], inc) >= outflow[r]
    BY <2>1, <1>t, RefundExact DEF Int32
  <2>3. outflow' = outflow \/ outflow' = [outflow EXCEPT ![r] = Refunded(outflow[r], inc)]
    BY <1>17 DEF OnStreamUpdate
  <2>4. UNCHANGED <<writer, over, initial>> /\ writer[r] # "none"
    BY <1>17 DEF OnStreamUpdate, GetsUpdate, streamVars
  <2> QED BY <2>2, <2>3, <2>4, <1>t DEF Int32
<1>18. CASE LoopResets
  BY <1>18 DEF LoopResets
<1>19. CASE UNCHANGED vars
  BY <1>19 DEF vars, streamVars, windowVars
<1> QED BY <1>1, <1>2, <1>3, <1>4, <1>5, <1>6, <1>7, <1>8, <1>9, <1>10, <1>11, <1>12, <1>13,
           <1>14, <1>15, <1>16, <1>17, <1>18, <1>19 DEF Next, Uploading

-----------------------------------------------------------------------------
(* Wake-ups, the ends of bodies, and the windows as the server counts them.*)

LEMMA DryStep == TypeOK /\ ParkedIsDry /\ [Next]_vars => ParkedIsDry'
<1> SUFFICES ASSUME TypeOK, ParkedIsDry, [Next]_vars PROVE ParkedIsDry'
  OBVIOUS
<1> USE DEF ParkedIsDry
<1>t. /\ outflow \in [Requests -> Int32]
      /\ flowWaiters \subseteq {r \in Requests : writer[r] = "take"}
  BY DEF TypeOK
<1>1. ASSUME NEW r \in Requests, Register(r) PROVE ParkedIsDry'
  BY <1>1 DEF Register, windowVars
<1>2. ASSUME NEW r \in Requests, OpenWindow(r) PROVE ParkedIsDry'
  <2>1. r \notin flowWaiters
    BY <1>2, <1>t DEF OpenWindow
  <2> QED BY <1>2, <1>t, <2>1 DEF OpenWindow
<1>3. ASSUME NEW r \in Requests, NEW ok \in BOOLEAN, WriteHeaders(r, ok) PROVE ParkedIsDry'
  BY <1>3 DEF WriteHeaders, windowVars
<1>4. ASSUME NEW r \in Requests, CloseWithError(r) PROVE ParkedIsDry'
  BY <1>4 DEF CloseWithError, windowVars
<1>5. ASSUME NEW r \in Requests, StartBody(r) PROVE ParkedIsDry'
  BY <1>5 DEF StartBody
<1>6. ASSUME NEW r \in Requests, FindsError(r) PROVE ParkedIsDry'
  BY <1>6 DEF FindsError
<1>7. ASSUME NEW r \in Requests, Cancelled(r) PROVE ParkedIsDry'
  BY <1>7 DEF Cancelled
<1>8. ASSUME NEW r \in Requests, NEW l \in 0..MaxBody, NEW eof \in BOOLEAN, Fill(r, l, eof)
      PROVE  ParkedIsDry'
  BY <1>8 DEF Fill
<1>9. ASSUME NEW r \in Requests, Park(r) PROVE ParkedIsDry'
  BY <1>9 DEF Park
<1>10. ASSUME NEW r \in Requests, Take(r) PROVE ParkedIsDry'
  <2>1. \A q \in flowWaiters : q \in Requests /\ q # r /\ ~Available(outflow[q])
    BY <1>10, <1>t DEF Take
  <2>2. \A q \in Requests : q # r => outflow'[q] = outflow[q]
    BY <1>10, <1>t, TakeExact
  <2> QED BY <1>10, <2>1, <2>2 DEF Take, Takes
<1>11. ASSUME NEW r \in Requests, WriteData(r) PROVE ParkedIsDry'
  BY <1>11 DEF WriteData
<1>12. ASSUME NEW r \in Requests, WriteDataFails(r) PROVE ParkedIsDry'
  BY <1>12 DEF WriteDataFails
<1>13. CASE OnSettings
  BY <1>13 DEF OnSettings, windowVars
<1>14. CASE LockPeer
  BY <1>14 DEF LockPeer, windowVars
<1>15. ASSUME NEW window \in Windows, UpdateSettings(window) PROVE ParkedIsDry'
  BY <1>15 DEF UpdateSettings
<1>16. ASSUME NEW inc \in Increments, OnConnUpdate(inc) PROVE ParkedIsDry'
  BY <1>16 DEF OnConnUpdate, Wakes
<1>17. ASSUME NEW inc \in Increments, NEW r \in Requests, OnStreamUpdate(r, inc) PROVE ParkedIsDry'
  <2>1. flowWaiters' = {} \/ UNCHANGED <<flowWaiters, outflow, connOutflow>>
    BY <1>17 DEF OnStreamUpdate, Wakes
  <2> QED BY <2>1
<1>18. CASE LoopResets
  BY <1>18 DEF LoopResets, Wakes
<1>19. CASE UNCHANGED vars
  BY <1>19 DEF vars, windowVars
<1> QED BY <1>1, <1>2, <1>3, <1>4, <1>5, <1>6, <1>7, <1>8, <1>9, <1>10, <1>11, <1>12, <1>13,
           <1>14, <1>15, <1>16, <1>17, <1>18, <1>19 DEF Next, Uploading

(* A step touches the writer and the body of at most one request, and none *)
(* of a request that is done.                                              *)
LEMMA DoneStays ==
  ASSUME TypeOK, [Next]_vars, NEW q \in Requests, writer[q] = "done"
  PROVE  writer'[q] = "done" /\ body'[q] = body[q] /\ declared' = declared
<1> USE DEF SetsWriter
<1>t. writer \in [Requests -> Writers]
      /\ body \in [Requests -> [read : 0..MaxBody, current : Nat, sawEOF : BOOLEAN, taken : Nat]]
  BY DEF TypeOK
<1> DEFINE Goal == writer'[q] = "done" /\ body'[q] = body[q] /\ declared' = declared
<1>1. ASSUME NEW r \in Requests,
             Register(r) \/ OpenWindow(r) \/ CloseWithError(r)
             \/ \E ok \in BOOLEAN : WriteHeaders(r, ok)
      PROVE  Goal
  BY <1>1, <1>t DEF Register, OpenWindow, CloseWithError, WriteHeaders, bodyVars
<1>2. ASSUME NEW r \in Requests, StartBody(r) \/ FindsError(r) \/ Cancelled(r) PROVE Goal
  BY <1>2, <1>t DEF StartBody, FindsError, Cancelled, Returns, BodyStep
<1>3. ASSUME NEW r \in Requests, NEW l \in 0..MaxBody, NEW eof \in BOOLEAN, Fill(r, l, eof)
      PROVE  Goal
  BY <1>3, <1>t DEF Fill, BodyStep
<1>4. ASSUME NEW r \in Requests, Park(r) PROVE Goal
  BY <1>4, <1>t DEF Park, BodyStep
<1>5. ASSUME NEW r \in Requests, Take(r) PROVE Goal
  BY <1>5, <1>t DEF Take, Takes, BodyStep
<1>6. ASSUME NEW r \in Requests, WriteData(r) PROVE Goal
  <2>1. r # q /\ writer'[q] = writer[q]
    BY <1>6, <1>t DEF WriteData, Returns
  <2>2. body'[q] = body[q]
    BY <1>6, <2>1, WriteExact
  <2> QED BY <1>6, <2>1, <2>2 DEF WriteData, BodyStep
<1>7. ASSUME NEW r \in Requests, WriteDataFails(r) PROVE Goal
  BY <1>7, <1>t DEF WriteDataFails, Returns, BodyStep
<1>8. CASE OnSettings \/ LockPeer \/ LoopResets \/ UNCHANGED vars
  BY <1>8 DEF OnSettings, LockPeer, LoopResets, vars, streamVars, bodyVars
<1>9. ASSUME NEW window \in Windows, UpdateSettings(window) PROVE Goal
  BY <1>9 DEF UpdateSettings, streamVars, bodyVars
<1>10. ASSUME NEW inc \in Increments,
              OnConnUpdate(inc) \/ \E r \in Requests : OnStreamUpdate(r, inc)
       PROVE  Goal
  BY <1>10 DEF OnConnUpdate, OnStreamUpdate, GetsUpdate, streamVars, bodyVars
<1> QED BY <1>1, <1>2, <1>3, <1>4, <1>5, <1>6, <1>7, <1>8, <1>9, <1>10 DEF Next, Uploading

(* Only WriteData calls a body written, and only one that has gone out.    *)
LEMMA DoneOnlyByWriteData ==
  ASSUME TypeOK, [Next]_vars, NEW q \in Requests, writer[q] # "done", writer'[q] = "done"
  PROVE  WriteData(q) /\ Ends(q) /\ ~TooLong(q) /\ ~TooShort(q)
<1> USE DEF SetsWriter
<1>t. writer \in [Requests -> Writers]
  BY DEF TypeOK
<1>1. ASSUME NEW r \in Requests,
             Register(r) \/ OpenWindow(r) \/ CloseWithError(r)
             \/ \E ok \in BOOLEAN : WriteHeaders(r, ok)
      PROVE  FALSE
  BY <1>1, <1>t DEF Register, OpenWindow, CloseWithError, WriteHeaders
<1>2. ASSUME NEW r \in Requests, StartBody(r) \/ FindsError(r) \/ Cancelled(r) PROVE FALSE
  BY <1>2, <1>t DEF StartBody, FindsError, Cancelled, Returns
<1>3. ASSUME NEW r \in Requests, NEW l \in 0..MaxBody, NEW eof \in BOOLEAN, Fill(r, l, eof)
      PROVE  FALSE
  BY <1>3, <1>t DEF Fill
<1>4. ASSUME NEW r \in Requests, Park(r) \/ WriteDataFails(r) PROVE FALSE
  BY <1>4, <1>t DEF Park, WriteDataFails, Returns
<1>5. ASSUME NEW r \in Requests, Take(r) PROVE FALSE
  BY <1>5, <1>t DEF Take, Takes
<1>6. ASSUME NEW r \in Requests, WriteData(r)
      PROVE  WriteData(q) /\ Ends(q) /\ ~TooLong(q) /\ ~TooShort(q)
  <2>1. r = q
    BY <1>6, <1>t DEF WriteData, Returns
  <2>2. ~(TooLong(q) \/ (Ends(q) /\ TooShort(q)))
    BY <1>6, <1>t, <2>1 DEF WriteData, Returns
  <2>3. Ends(q)
    BY <1>6, <1>t, <2>1, <2>2 DEF WriteData
  <2> QED BY <1>6, <2>1, <2>2, <2>3
<1>7. CASE OnSettings \/ LockPeer \/ LoopResets \/ UNCHANGED vars
  BY <1>7 DEF OnSettings, LockPeer, LoopResets, vars, streamVars
<1>8. ASSUME NEW window \in Windows, UpdateSettings(window) PROVE FALSE
  BY <1>8 DEF UpdateSettings, streamVars
<1>9. ASSUME NEW inc \in Increments,
             OnConnUpdate(inc) \/ \E r \in Requests : OnStreamUpdate(r, inc)
      PROVE  FALSE
  BY <1>9 DEF OnConnUpdate, OnStreamUpdate, GetsUpdate, streamVars
<1> QED BY <1>1, <1>2, <1>3, <1>4, <1>5, <1>6, <1>7, <1>8, <1>9 DEF Next, Uploading

LEMMA EndsStep == TypeOK /\ EndsComplete /\ [Next]_vars => EndsComplete'
<1> SUFFICES ASSUME TypeOK, EndsComplete, [Next]_vars, NEW q \in Requests, writer'[q] = "done"
             PROVE  body'[q].sawEOF /\ body'[q].current = 0 /\ ~TooLong(q)' /\ ~TooShort(q)'
  BY DEF EndsComplete
<1>1. CASE writer[q] = "done"
  <2>1. body'[q] = body[q] /\ declared' = declared
    BY <1>1, DoneStays
  <2> QED BY <1>1, <2>1 DEF EndsComplete, TooLong, TooShort
<1>2. CASE writer[q] # "done"
  <2>1. WriteData(q) /\ Ends(q) /\ ~TooLong(q) /\ ~TooShort(q)
    BY <1>2, DoneOnlyByWriteData
  <2>2. /\ body'[q].current = body[q].current - body[q].taken
        /\ body'[q].read = body[q].read /\ body'[q].sawEOF = body[q].sawEOF
    BY <2>1, WriteExact
  <2>3. declared' = declared
    BY <2>1 DEF WriteData, BodyStep
  <2>4. body[q].taken \in Nat
    BY DEF TypeOK
  <2> QED BY <2>1, <2>2, <2>3, <2>4 DEF Ends, TooLong, TooShort
<1> QED BY <1>1, <1>2

(* Every window and the server's count of it move together.                *)
LEMMA DriftStep == TypeOK /\ TakenInv /\ FloorInv /\ [Next]_vars =>
  \A r \in Requests :
    /\ Live(r) /\ Live(r)' /\ writer[r] # "registered"
    /\ outflow[r] + initial' - initial < Half
    => Drift(r)' = Drift(r)
<1> SUFFICES ASSUME TypeOK, TakenInv, FloorInv, [Next]_vars, NEW q \in Requests,
                    Live(q), Live(q)', writer[q] # "registered",
                    outflow[q] + initial' - initial < Half
             PROVE  Drift(q)' = Drift(q)
  OBVIOUS
<1> USE DEF Drift
<1>t. /\ outflow \in [Requests -> Int32] /\ allowed \in [Requests -> Int]
      /\ body \in [Requests -> [read : 0..MaxBody, current : Nat, sawEOF : BOOLEAN, taken : Nat]]
      /\ initial \in 0..(Half - 1)
  BY WindowsFit DEF TypeOK
<1>1. ASSUME NEW r \in Requests,
             Register(r) \/ CloseWithError(r) \/ \E ok \in BOOLEAN : WriteHeaders(r, ok)
      PROVE  Drift(q)' = Drift(q)
  BY <1>1 DEF Register, CloseWithError, WriteHeaders, windowVars, serverVars, bodyVars
<1>2. ASSUME NEW r \in Requests, OpenWindow(r) PROVE Drift(q)' = Drift(q)
  BY <1>2, <1>t DEF OpenWindow, serverVars, bodyVars
<1>3. ASSUME NEW r \in Requests,
             StartBody(r) \/ FindsError(r) \/ Cancelled(r) \/ Park(r) \/ WriteDataFails(r)
      PROVE  Drift(q)' = Drift(q)
  BY <1>3 DEF StartBody, FindsError, Cancelled, Park, WriteDataFails, serverVars
<1>4. ASSUME NEW r \in Requests, NEW l \in 0..MaxBody, NEW eof \in BOOLEAN, Fill(r, l, eof)
      PROVE  Drift(q)' = Drift(q)
  <2>1. body'[q].taken = body[q].taken
    BY <1>4, FillExact
  <2> QED BY <1>4, <2>1 DEF Fill, serverVars
<1>5. ASSUME NEW r \in Requests, Take(r) PROVE Drift(q)' = Drift(q)
  <2>1. /\ body' = [body EXCEPT ![r].taken = body'[r].taken] /\ body'[r].taken \in 0..body[r].current
        /\ outflow' = [outflow EXCEPT ![r] = outflow'[r]]
        /\ outflow'[r] = outflow[r] - body'[r].taken
    BY <1>5, TakeExact
  <2>2. allowed' = allowed
    BY <1>5 DEF Take, Takes, serverVars
  <2>3. body[r].taken = 0
    BY <1>5 DEF Take, TakenInv
  <2>4. CASE q = r
    BY <2>1, <2>2, <2>3, <2>4, <1>t DEF Int32
  <2>5. CASE q # r
    <3>1. body'[q] = body[q] /\ outflow'[q] = outflow[q]
      BY <2>1, <2>5, <1>t
    <3> QED BY <3>1, <2>2
  <2> QED BY <2>4, <2>5
<1>6. ASSUME NEW r \in Requests, WriteData(r) PROVE Drift(q)' = Drift(q)
  <2>1. outflow' = outflow /\ allowed' = [allowed EXCEPT ![r] = @ - body[r].taken]
    BY <1>6 DEF WriteData
  <2>2. body'[r].taken = 0 /\ (q # r => body'[q] = body[q])
    BY <1>6, WriteExact
  <2>3. body[r].taken \in Nat
    BY <1>t
  <2> QED BY <2>1, <2>2, <2>3, <1>t DEF Int32
<1>7. CASE OnSettings \/ LockPeer \/ LoopResets \/ UNCHANGED vars
  BY <1>7 DEF OnSettings, LockPeer, LoopResets, vars, windowVars, serverVars, bodyVars
<1>8. ASSUME NEW window \in Windows, UpdateSettings(window) PROVE Drift(q)' = Drift(q)
  <2>1. /\ window \in 0..(Half - 1) /\ initial' = window /\ body' = body
        /\ outflow'[q] = Refunded(outflow[q], Delta(initial, window))
        /\ allowed'[q] = allowed[q] + window - initial
    BY <1>8, WindowsFit DEF UpdateSettings, bodyVars
  <2>2. outflow[q] >= initial - (Half - 1)
    BY DEF FloorInv
  <2>3. outflow'[q] = outflow[q] + window - initial
    BY <2>1, <2>2, <1>t, SettingsExact
  <2> QED BY <2>1, <2>3, <1>t DEF Int32
<1>9. ASSUME NEW inc \in Increments, OnConnUpdate(inc) PROVE Drift(q)' = Drift(q)
  BY <1>9 DEF OnConnUpdate, GetsUpdate, bodyVars
<1>10. ASSUME NEW inc \in Increments, NEW r \in Requests, OnStreamUpdate(r, inc)
       PROVE  Drift(q)' = Drift(q)
  <2>1. inc \in Uint /\ Signed(inc) = inc /\ inc \in Int
    BY WindowsFit DEF Uint
  <2>2. CanRefund(outflow[r], inc) => Refunded(outflow[r], inc) = outflow[r] + inc
    BY <2>1, <1>t, RefundDetectsOverflow, RefundExact
  <2>3. body' = body
    BY <1>10 DEF OnStreamUpdate, GetsUpdate, bodyVars
  <2>4. \/ UNCHANGED <<outflow, allowed>>
        \/ /\ CanRefund(outflow[r], inc)
           /\ allowed' = [allowed EXCEPT ![r] = @ + inc]
           /\ outflow' = [outflow EXCEPT ![r] = Refunded(@, inc)]
    BY <1>10 DEF OnStreamUpdate
  <2> QED BY <2>1, <2>2, <2>3, <2>4, <1>t DEF Int32
<1> QED BY <1>1, <1>2, <1>3, <1>4, <1>5, <1>6, <1>7, <1>8, <1>9, <1>10 DEF Next, Uploading

(* While SETTINGS are applied, writers can neither send nor begin to.      *)
LEMMA AckFirstStep == TypeOK /\ LocksInv /\ [Next]_vars =>
  (loop = "havePeer" => \A r \in Requests :
     Sent(r)' = Sent(r) /\ (writer[r] = "write" => writer'[r] # "body"))
<1> SUFFICES ASSUME TypeOK, LocksInv, [Next]_vars, loop = "havePeer", NEW q \in Requests
             PROVE  Sent(q)' = Sent(q) /\ (writer[q] = "write" => writer'[q] # "body")
  OBVIOUS
<1> USE DEF Sent, SetsWriter
<1>t. writer \in [Requests -> Writers]
      /\ body \in [Requests -> [read : 0..MaxBody, current : Nat, sawEOF : BOOLEAN, taken : Nat]]
  BY DEF TypeOK
<1>b. \A r \in Requests : writer[r] \notin {"fill", "take", "data"}
  BY DEF LocksInv
<1> DEFINE Goal == Sent(q)' = Sent(q) /\ (writer[q] = "write" => writer'[q] # "body")
<1>1. ASSUME NEW r \in Requests,
             Register(r) \/ OpenWindow(r) \/ StartBody(r) \/ \E ok \in BOOLEAN : WriteHeaders(r, ok)
      PROVE  FALSE
  BY <1>1 DEF Register, OpenWindow, StartBody, WriteHeaders, CanReadSettings
<1>2. ASSUME NEW r \in Requests,
             \/ \E l \in 0..MaxBody, eof \in BOOLEAN : Fill(r, l, eof)
             \/ Cancelled(r) \/ Park(r) \/ Take(r) \/ WriteData(r) \/ WriteDataFails(r)
      PROVE  FALSE
  BY <1>2, <1>b DEF Fill, Cancelled, Park, Take, WriteData, WriteDataFails
<1>3. ASSUME NEW r \in Requests, FindsError(r) PROVE Goal
  BY <1>3, <1>t DEF FindsError
<1>4. ASSUME NEW r \in Requests, CloseWithError(r) PROVE Goal
  BY <1>4 DEF CloseWithError, bodyVars
<1>5. CASE OnSettings \/ LockPeer \/ LoopResets \/ UNCHANGED vars
  BY <1>5 DEF OnSettings, LockPeer, LoopResets, vars, streamVars, bodyVars
<1>6. ASSUME NEW window \in Windows, UpdateSettings(window) PROVE Goal
  BY <1>6 DEF UpdateSettings, streamVars, bodyVars
<1>7. ASSUME NEW inc \in Increments,
             OnConnUpdate(inc) \/ \E r \in Requests : OnStreamUpdate(r, inc)
      PROVE  Goal
  BY <1>7 DEF OnConnUpdate, OnStreamUpdate, GetsUpdate, streamVars, bodyVars
<1> QED BY <1>1, <1>2, <1>3, <1>4, <1>5, <1>6, <1>7 DEF Next, Uploading

-----------------------------------------------------------------------------
(* The connection's window, and what every frame finds in the windows.     *)

(* The tokens of one writer change, and the sum by as much.                *)
LEMMA TakenMoves ==
  ASSUME TypeOK, TypeOK', NEW r \in Requests,
         \A q \in Requests : q # r => body'[q].taken = body[q].taken
  PROVE  SumFunction(Taken)' = SumFunction(Taken) - body[r].taken + body'[r].taken
<1>1. \A q \in Requests : body[q].taken \in Nat /\ body'[q].taken \in Nat
  BY DEF TypeOK
<1>2. /\ Taken \in [Requests -> Nat] /\ Taken' \in [Requests -> Nat]
      /\ \A q \in Requests : Taken[q] = body[q].taken /\ Taken'[q] = body'[q].taken
  BY <1>1 DEF Taken
<1>3. IsFiniteSet(Requests)
  BY SendAssumption
<1>4. SumFunctionOnSet(Taken', Requests)
        = SumFunctionOnSet(Taken, Requests) - Taken[r] + Taken'[r]
  BY <1>1, <1>2, <1>3, SumMoves
<1> QED BY <1>2, <1>4 DEF SumFunction

(* Neither the tokens of a connection nor the part of one writer in them   *)
(* are below zero.                                                         *)
LEMMA TakenWithin ==
  ASSUME TypeOK, NEW r \in Requests
  PROVE  SumFunction(Taken) \in Nat /\ body[r].taken \in 0..SumFunction(Taken)
<1>1. \A q \in Requests : body[q].taken \in Nat
  BY DEF TypeOK
<1>2. /\ DOMAIN Taken = Requests
      /\ \A q \in Requests : Taken[q] = body[q].taken /\ Taken[q] \in Nat
  BY <1>1 DEF Taken
<1>3. IsFiniteSet(Requests) /\ IsFiniteSet(Requests \ {r})
  BY SendAssumption, FS_Subset
<1>4. SumFunctionOnSet(Taken, Requests \ {r}) \in Nat
  BY <1>2, <1>3, SumNat
<1>5. SumFunctionOnSet(Taken, Requests) = Taken[r] + SumFunctionOnSet(Taken, Requests \ {r})
  BY <1>2, <1>3, SumRemove
<1> QED BY <1>1, <1>2, <1>4, <1>5 DEF SumFunction

(* The connection's window is never below zero, and nor is that of a stream*)
(* whose writer has tokens: SETTINGS have to wait for it.                  *)
RoomInv ==
  /\ connOutflow >= 0
  /\ \A r \in Requests : writer[r] = "data" => outflow[r] >= 0

LEMMA ExactStep == TypeOK /\ TypeOK' /\ TakenInv /\ ConnWindowExact /\ [Next]_vars => ConnWindowExact'
<1> SUFFICES ASSUME TypeOK, TypeOK', TakenInv, ConnWindowExact, [Next]_vars PROVE ConnWindowExact'
  OBVIOUS
<1> USE DEF ConnWindowExact
<1>0. connOutflow \in Int /\ connAllowed \in Int
  BY DEF TypeOK, Int32
<1>s. ASSUME NEW r \in Requests PROVE SumFunction(Taken) \in Nat
  BY <1>s, TakenWithin
<1>k. ASSUME UNCHANGED <<connOutflow, connAllowed>>,
             \A q \in Requests : body'[q].taken = body[q].taken
      PROVE  ConnWindowExact'
  <2>1. Taken' = Taken
    BY <1>k DEF Taken
  <2> QED BY <1>k, <2>1
<1>1. ASSUME NEW r \in Requests,
             Register(r) \/ OpenWindow(r) \/ CloseWithError(r)
             \/ \E ok \in BOOLEAN : WriteHeaders(r, ok)
      PROVE  ConnWindowExact'
  BY <1>1, <1>k DEF Register, OpenWindow, CloseWithError, WriteHeaders, windowVars, serverVars, bodyVars
<1>2. ASSUME NEW r \in Requests,
             StartBody(r) \/ FindsError(r) \/ Cancelled(r) \/ Park(r) \/ WriteDataFails(r)
      PROVE  ConnWindowExact'
  BY <1>2, <1>k DEF StartBody, FindsError, Cancelled, Park, WriteDataFails, serverVars
<1>3. ASSUME NEW r \in Requests, NEW l \in 0..MaxBody, NEW eof \in BOOLEAN, Fill(r, l, eof)
      PROVE  ConnWindowExact'
  <2>1. \A q \in Requests : body'[q].taken = body[q].taken
    BY <1>3, FillExact
  <2> QED BY <1>3, <1>k, <2>1 DEF Fill, serverVars
<1>4. ASSUME NEW r \in Requests, Take(r) PROVE ConnWindowExact'
  <2>1. connOutflow' = connOutflow - body'[r].taken /\ connAllowed' = connAllowed
    BY <1>4, TakeExact DEF Take, Takes, serverVars
  <2>2. \A q \in Requests : q # r => body'[q].taken = body[q].taken
    <3>1. body' = [body EXCEPT ![r].taken = body'[r].taken]
      BY <1>4, TakeExact
    <3> QED BY <3>1 DEF TypeOK
  <2>3. body[r].taken = 0 /\ body'[r].taken \in Nat
    BY <1>4 DEF Take, TakenInv, TypeOK
  <2>4. SumFunction(Taken)' = SumFunction(Taken) - body[r].taken + body'[r].taken
    BY <2>2, TakenMoves
  <2> QED BY <1>0, <1>s, <2>1, <2>3, <2>4
<1>5. ASSUME NEW r \in Requests, WriteData(r) PROVE ConnWindowExact'
  <2>1. connOutflow' = connOutflow /\ connAllowed' = connAllowed - body[r].taken
    BY <1>5 DEF WriteData
  <2>2. body'[r].taken = 0 /\ \A q \in Requests : q # r => body'[q].taken = body[q].taken
    BY <1>5, WriteExact
  <2>3. body[r].taken \in Nat
    BY DEF TypeOK
  <2>4. SumFunction(Taken)' = SumFunction(Taken) - body[r].taken + body'[r].taken
    BY <2>2, TakenMoves
  <2> QED BY <1>0, <1>s, <2>1, <2>2, <2>3, <2>4
<1>6. CASE OnSettings \/ LockPeer \/ LoopResets \/ UNCHANGED vars
  BY <1>6, <1>k DEF OnSettings, LockPeer, LoopResets, vars, windowVars, serverVars, bodyVars
<1>7. ASSUME NEW window \in Windows, UpdateSettings(window) PROVE ConnWindowExact'
  BY <1>7, <1>k DEF UpdateSettings, bodyVars
<1>8. ASSUME NEW inc \in Increments, OnConnUpdate(inc) PROVE ConnWindowExact'
  <2>1. inc \in Uint /\ Signed(inc) = inc /\ inc \in Int
    BY WindowsFit DEF Uint
  <2>2. connOutflow' = connOutflow + inc /\ connAllowed' = connAllowed + inc
    BY <1>8, <2>1, RefundDetectsOverflow, RefundExact DEF OnConnUpdate, TypeOK
  <2>3. Taken' = Taken
    BY <1>8 DEF OnConnUpdate, GetsUpdate, bodyVars, Taken
  <2>4. CASE Requests # {}
    BY <1>0, <1>s, <2>1, <2>2, <2>3, <2>4
  <2>5. CASE Requests = {}
    <3>1. SumFunction(Taken) = 0
      BY <2>5, FS_EmptySet, SumFirst DEF SumFunction, Taken
    <3> QED BY <1>0, <2>1, <2>2, <2>3, <3>1
  <2> QED BY <2>4, <2>5
<1>9. ASSUME NEW inc \in Increments, NEW r \in Requests, OnStreamUpdate(r, inc) PROVE ConnWindowExact'
  BY <1>9, <1>k DEF OnStreamUpdate, GetsUpdate, bodyVars
<1> QED BY <1>1, <1>2, <1>3, <1>4, <1>5, <1>6, <1>7, <1>8, <1>9 DEF Next, Uploading

LEMMA RoomStep == TypeOK /\ LocksInv /\ RoomInv /\ [Next]_vars => RoomInv'
<1> SUFFICES ASSUME TypeOK, LocksInv, RoomInv, [Next]_vars PROVE RoomInv'
  OBVIOUS
<1> USE DEF RoomInv, SetsWriter
<1>t. /\ writer \in [Requests -> Writers] /\ outflow \in [Requests -> Int32]
      /\ connOutflow \in Int32
  BY DEF TypeOK
<1>1. ASSUME NEW r \in Requests,
             Register(r) \/ CloseWithError(r) \/ \E ok \in BOOLEAN : WriteHeaders(r, ok)
      PROVE  RoomInv'
  BY <1>1, <1>t DEF Register, CloseWithError, WriteHeaders, windowVars
<1>2. ASSUME NEW r \in Requests, OpenWindow(r) PROVE RoomInv'
  BY <1>2, <1>t DEF OpenWindow
<1>3. ASSUME NEW r \in Requests,
             StartBody(r) \/ FindsError(r) \/ Cancelled(r) \/ Park(r) \/ WriteDataFails(r)
      PROVE  RoomInv'
  BY <1>3, <1>t DEF StartBody, FindsError, Cancelled, Park, WriteDataFails, Returns
<1>4. ASSUME NEW r \in Requests, NEW l \in 0..MaxBody, NEW eof \in BOOLEAN, Fill(r, l, eof)
      PROVE  RoomInv'
  BY <1>4, <1>t DEF Fill
<1>5. ASSUME NEW r \in Requests, Take(r) PROVE RoomInv'
  <2>1. outflow'[r] >= 0 /\ connOutflow' >= 0
    BY <1>5, TakeExact
  <2>2. \A q \in Requests : q # r => outflow'[q] = outflow[q] /\ writer'[q] = writer[q]
    BY <1>5, <1>t DEF Take, Takes
  <2> QED BY <2>1, <2>2
<1>6. ASSUME NEW r \in Requests, WriteData(r) PROVE RoomInv'
  <2>1. \A q \in Requests : writer'[q] = "data" => writer[q] = "data"
    BY <1>6, <1>t DEF WriteData, Returns
  <2> QED BY <1>6, <2>1 DEF WriteData
<1>7. CASE OnSettings \/ LockPeer \/ LoopResets \/ UNCHANGED vars
  BY <1>7 DEF OnSettings, LockPeer, LoopResets, vars, streamVars, windowVars
<1>8. ASSUME NEW window \in Windows, UpdateSettings(window) PROVE RoomInv'
  BY <1>8 DEF UpdateSettings, LocksInv, streamVars
<1>9. ASSUME NEW inc \in Increments, OnConnUpdate(inc) PROVE RoomInv'
  <2>1. inc \in Uint /\ Signed(inc) = inc /\ inc \in Nat
    BY WindowsFit DEF Uint
  <2>2. connOutflow' = connOutflow + inc
    BY <1>9, <1>t, <2>1, RefundDetectsOverflow, RefundExact DEF OnConnUpdate
  <2> QED BY <1>9, <1>t, <2>1, <2>2 DEF OnConnUpdate, GetsUpdate, streamVars, Int32
<1>10. ASSUME NEW inc \in Increments, NEW r \in Requests, OnStreamUpdate(r, inc) PROVE RoomInv'
  <2>1. inc \in Uint /\ Signed(inc) = inc /\ inc \in Nat
    BY WindowsFit DEF Uint
  <2>2. CanRefund(outflow[r], inc) => Refunded(outflow[r], inc) = outflow[r] + inc
    BY <2>1, <1>t, RefundDetectsOverflow, RefundExact
  <2>3. UNCHANGED <<writer, connOutflow>>
    BY <1>10 DEF OnStreamUpdate, GetsUpdate, streamVars
  <2>4. \/ outflow' = outflow
        \/ /\ CanRefund(outflow[r], inc)
           /\ outflow' = [outflow EXCEPT ![r] = Refunded(@, inc)]
    BY <1>10 DEF OnStreamUpdate
  <2> QED BY <2>1, <2>2, <2>3, <2>4, <1>t DEF Int32
<1> QED BY <1>1, <1>2, <1>3, <1>4, <1>5, <1>6, <1>7, <1>8, <1>9, <1>10 DEF Next, Uploading

(* Only WriteData sends.                                                   *)
LEMMA SendsOnlyByWriteData ==
  ASSUME TypeOK, [Next]_vars, NEW q \in Requests, Sent(q)' > Sent(q)
  PROVE  WriteData(q)
<1> USE DEF Sent
<1>t. /\ body \in [Requests -> [read : 0..MaxBody, current : Nat, sawEOF : BOOLEAN, taken : Nat]]
      /\ Sent(q) \in Int
  BY DEF TypeOK
<1>k. body'[q] # body[q]
  BY <1>t
<1>1. ASSUME NEW r \in Requests,
             \/ Register(r) \/ OpenWindow(r) \/ CloseWithError(r)
             \/ \E ok \in BOOLEAN : WriteHeaders(r, ok)
             \/ StartBody(r) \/ FindsError(r) \/ Cancelled(r) \/ Park(r) \/ WriteDataFails(r)
      PROVE  FALSE
  BY <1>1, <1>k DEF Register, OpenWindow, CloseWithError, WriteHeaders, bodyVars,
     StartBody, FindsError, Cancelled, Park, WriteDataFails
<1>2. ASSUME NEW r \in Requests, NEW l \in 0..MaxBody, NEW eof \in BOOLEAN, Fill(r, l, eof)
      PROVE  FALSE
  <2>1. Sent(q)' = Sent(q)
    BY <1>2, FillExact
  <2> QED BY <1>t, <2>1
<1>3. ASSUME NEW r \in Requests, Take(r) PROVE FALSE
  <2>1. body' = [body EXCEPT ![r].taken = body'[r].taken]
    BY <1>3, TakeExact
  <2>2. body'[q].read = body[q].read /\ body'[q].current = body[q].current
    BY <2>1, <1>t
  <2> QED BY <1>t, <2>2
<1>4. ASSUME NEW r \in Requests, WriteData(r) PROVE WriteData(q)
  <2>1. r = q
    BY <1>4, <1>k, WriteExact
  <2> QED BY <1>4, <2>1
<1>5. CASE OnSettings \/ LockPeer \/ LoopResets \/ UNCHANGED vars
  BY <1>5, <1>k DEF OnSettings, LockPeer, LoopResets, vars, bodyVars
<1>6. ASSUME NEW window \in Windows, UpdateSettings(window) PROVE FALSE
  BY <1>6, <1>k DEF UpdateSettings, bodyVars
<1>7. ASSUME NEW inc \in Increments,
             OnConnUpdate(inc) \/ \E r \in Requests : OnStreamUpdate(r, inc)
      PROVE  FALSE
  BY <1>7, <1>k DEF OnConnUpdate, OnStreamUpdate, GetsUpdate, bodyVars
<1> QED BY <1>1, <1>2, <1>3, <1>4, <1>5, <1>6, <1>7 DEF Next, Uploading

LEMMA CountedStep == TypeOK /\ RoomInv /\ ConnWindowExact /\ [Next]_vars =>
  \A r \in Requests : Sent(r)' > Sent(r) /\ Drift(r) >= 0 => SendsWithin(r)
<1> SUFFICES ASSUME TypeOK, RoomInv, ConnWindowExact, [Next]_vars, NEW r \in Requests,
                    Sent(r)' > Sent(r), Drift(r) >= 0
             PROVE  connAllowed' >= 0 /\ allowed'[r] >= 0
  BY DEF SendsWithin
<1>1. WriteData(r)
  BY SendsOnlyByWriteData
<1>2. /\ connAllowed \in Int /\ connOutflow \in Int /\ allowed \in [Requests -> Int]
      /\ outflow[r] \in Int /\ body[r].taken \in Nat
  BY DEF TypeOK, Int32
<1>3. connAllowed' = connAllowed - body[r].taken /\ allowed'[r] = allowed[r] - body[r].taken
  BY <1>1, <1>2 DEF WriteData
<1>4. connOutflow >= 0 /\ outflow[r] >= 0
  BY <1>1 DEF RoomInv, WriteData
<1>5. connAllowed' >= 0
  <2>1. SumFunction(Taken) \in Nat /\ body[r].taken \in 0..SumFunction(Taken)
    BY TakenWithin
  <2> QED BY <1>2, <1>3, <1>4, <2>1 DEF ConnWindowExact
<1>6. allowed'[r] >= 0
  BY <1>2, <1>3, <1>4 DEF Drift
<1> QED BY <1>5, <1>6

-----------------------------------------------------------------------------
(* The theorems.                                                           *)

(* Every variable keeps to its type; in particular a body fits the buffer  *)
(* that WriteRequestBody made for it, tokens taken are backed by bytes, and*)
(* no window leaves the int32 it is kept in.                               *)
THEOREM SendTypeOK == Spec => []TypeOK
<1> QED BY TypeInit, TypeStep, PTL DEF Spec

(* A writer is parked in condOutflow.Wait only while one of its windows is *)
(* empty: every change that fills a window comes with a Broadcast.         *)
THEOREM SendParkedIsDry == Spec => []ParkedIsDry
<1>1. Init => ParkedIsDry
  BY DEF Init, ParkedIsDry
<1> QED BY <1>1, DryStep, SendTypeOK, PTL DEF Spec

(* WriteRequest returns without an error only for a body that was read to  *)
(* its end, went out whole and is as long as the request said.             *)
THEOREM SendEndsComplete == Spec => []EndsComplete
<1>1. Init => EndsComplete
  BY DEF Init, EndsComplete
<1> QED BY <1>1, EndsStep, SendTypeOK, PTL DEF Spec

(* No step makes a stream's window and the server's count of it diverge,   *)
(* from the first window on.                                               *)
THEOREM SendStreamWindowKept == Spec => StreamWindowKept
<1>1. Init => TakenInv
  BY DEF Init, TakenInv
<1>2. Init => FloorInv
  BY DEF Init, FloorInv, Live
<1> QED BY <1>1, <1>2, TakenStep, FloorStep, DriftStep, SendTypeOK, PTL
        DEF Spec, StreamWindowKept

(* No DATA and no HEADERS of a stream between the SETTINGS being applied   *)
(* and their ACK.                                                          *)
THEOREM SendAckFirst == Spec => AckFirst
<1>1. Init => LocksInv
  BY DEF Init, LocksInv
<1> QED BY <1>1, LocksStep, AckFirstStep, SendTypeOK, PTL DEF Spec, AckFirst

(* Writers that share the connection's window lose none of it and make none*)
(* up, whatever becomes of them.                                           *)
THEOREM SendConnWindowExact == Spec => []ConnWindowExact
<1>1. Init => TakenInv
  BY DEF Init, TakenInv
<1>2. Init => ConnWindowExact
  <2> SUFFICES ASSUME Init PROVE ConnWindowExact
    OBVIOUS
  <2>1. DOMAIN Taken = Requests /\ \A r \in Requests : Taken[r] = 0
    BY DEF Init, Taken
  <2>2. SumFunctionOnSet(Taken, Requests) = 0
    BY <2>1, SumZero, SendAssumption
  <2>3. FirstWindow \in Int
    BY WindowsFit
  <2> QED BY <2>1, <2>2, <2>3 DEF Init, ConnWindowExact, SumFunction
<1> QED BY <1>1, <1>2, TakenStep, ExactStep, SendTypeOK, PTL DEF Spec

(* Every DATA frame fits into the connection's window as the server counts *)
(* it, and into the stream's, if its first window was not set too large.   *)
THEOREM SendCountedWithinWindow == Spec => CountedWithinWindow
<1>1. Init => LocksInv
  BY DEF Init, LocksInv
<1>2. Init => RoomInv
  BY WindowsFit DEF Init, RoomInv
<1> QED BY <1>1, <1>2, LocksStep, RoomStep, CountedStep, SendTypeOK, SendConnWindowExact, PTL
        DEF Spec, CountedWithinWindow
=============================================================================
