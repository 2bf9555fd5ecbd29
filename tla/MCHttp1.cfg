\* Two clients, two connections: cancelled contexts, failing dials and request
\* bodies, a server that closes at any time. Users read a body to its end or to
\* its failure. Once every ticket is lost the pool really stops.
SPECIFICATION HttpSpec
CONSTANTS
  Clients = {c1, c2}
  Conns = {n1, n2}
  NoConn = NoConn
  MaxConn = 2
  MaxIdle = 1
  IdleExpiry = TRUE
  DialMayFail = TRUE
  SetupMayFail = FALSE
  MaxBody = 1
  MayCancel = TRUE
  BodyMayFail = TRUE
  PeerMayClose = TRUE
  Interim = FALSE
  EarlyClose = FALSE
INVARIANTS HttpTypeOK OwnResponse CleanReuse
CHECK_DEADLOCK FALSE
