------------------------------- MODULE H2Flow -------------------------------
(***************************************************************************)
(* Flow control windows of HTTP/2 (internal/transport/h2c/flow.go). An     *)
(* outflow is an int32, what we may still send; an inflow is a pair of     *)
(* uint32, what the peer may still send and what it is to be told of. A    *)
(* word has 2 * Half values, Half being 2^31 in the program.               *)
(***************************************************************************)
EXTENDS Integers

CONSTANTS Half,            \* half the values of a word
          InflowMinRefresh \* tokens worth a WINDOW_UPDATE

ASSUME FlowAssumption == Half \in Nat \ {0} /\ InflowMinRefresh \in Nat \ {0}

Uint == 0..(2 * Half - 1)
Int32 == (-Half)..(Half - 1)

(* Faulty: the sum in a wider integer.                                     *)
WideSum(n) == n

(* Go's conversions between the two, and the value an int32 sum of two     *)
(* int32 has.                                                              *)
Signed(u) == IF u < Half THEN u ELSE u - 2 * Half
Unsigned(n) == IF n < 0 THEN n + 2 * Half ELSE n
Wrap(n) == IF n >= Half THEN n - 2 * Half ELSE IF n < -Half THEN n + 2 * Half ELSE n

Available(n) == n > 0

(* What Pay(sz) gives, and what it leaves.                                 *)
Paid(n, sz) == IF Unsigned(n) < sz THEN Unsigned(n) ELSE sz
AfterPay(n, sz) == Wrap(n - Signed(Paid(n, sz)))

(* outflow.Refund: its test, and what it leaves.                           *)
CanRefund(n, sz) == (Wrap(n + Signed(sz)) > Signed(sz)) <=> (n > 0)
Refunded(n, sz) == IF CanRefund(n, sz) THEN Wrap(n + Signed(sz)) ELSE n

(* new - old, of two uint32.                                               *)
Delta(old, new) == IF new < old THEN new - old + 2 * Half ELSE new - old

(* inflow.CheckAndPay: its test, and what it leaves.                       *)
CanPay(in, sz) == in.remaining >= sz

(* Faulty: pays in any case.                                               *)
AfterPayUnchecked(in, sz) == [in EXCEPT !.remaining = @ - sz]

AfterCheckAndPay(in, sz) == IF CanPay(in, sz) THEN [in EXCEPT !.remaining = @ - sz] ELSE in

(* inflow.Refund: the increment to announce, and what it leaves.           *)
Increment(in, sz) == IF in.queued + sz >= InflowMinRefresh THEN in.queued + sz ELSE 0

(* Faulty: what is announced is not taken in.                              *)
AfterRefundKept(in, sz) ==
  [in EXCEPT !.queued = IF Increment(in, sz) > 0 THEN 0 ELSE @ + sz]

AfterRefund(in, sz) ==
  LET inc == Increment(in, sz) IN
  [remaining |-> in.remaining + inc, queued |-> in.queued + sz - inc]
=============================================================================
