\* The server may send a 1xx response before the final one.
SPECIFICATION HttpSpec
CONSTANTS
  Clients = {c1, c2}
  Conns = {n1}
  NoConn = NoConn
  MaxConn = 1
  MaxIdle = 1
  IdleExpiry = FALSE
  DialMayFail = FALSE
  SetupMayFail = FALSE
  MaxBody = 1
  MayCancel = FALSE
  BodyMayFail = FALSE
  PeerMayClose = FALSE
  Interim = TRUE
  EarlyClose = FALSE
INVARIANTS OwnResponse
