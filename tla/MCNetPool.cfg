\* Three goroutines, a limit of two, one idle slot: every failure, expiry and
\* hand-over. Once all tickets are lost to failed dials the pool really stops.
SPECIFICATION Spec
CONSTANTS
  Clients = {c1, c2, c3}
  Conns = {n1, n2, n3}
  NoConn = NoConn
  MaxConn = 2
  MaxIdle = 1
  IdleExpiry = TRUE
  DialMayFail = TRUE
  SetupMayFail = TRUE
INVARIANTS TypeOK ExclusiveUse IdleIsOpen ConnLimit TicketsAccounted NoLostWakeup
PROPERTIES LeaseSpec
CHECK_DEADLOCK FALSE
