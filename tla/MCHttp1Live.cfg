\* One connection for two clients, so that each waits for the other's exchange;
\* interim responses, users who close a body unread, a server that closes.
SPECIFICATION FairHttpSpec
CONSTANTS
  Clients = {c1, c2}
  Conns = {n1}
  NoConn = NoConn
  MaxConn = 1
  MaxIdle = 1
  IdleExpiry = FALSE
  DialMayFail = FALSE
  SetupMayFail = FALSE
  MaxBody = 1
  MayCancel = FALSE
  BodyMayFail = TRUE
  PeerMayClose = TRUE
  Interim = TRUE
  EarlyClose = TRUE
INVARIANTS LoopsServe LeaseHeld
PROPERTIES CtxDoReturns
