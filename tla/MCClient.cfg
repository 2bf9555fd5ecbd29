SPECIFICATION Spec
CONSTANTS
  Callers = {c1, c2}
  Conns = {n1, n2}
  NoConn = NoConn
  NoPool = NoPool
  NoRequest = NoRequest
  NoProxy = "none"
  Requests <- MCRequests
  MaxConns = 1
  MaxBytes = 2
  ResolveLocally = TRUE
  StaticHosts <- MCStaticHosts
  ProxyHosts <- MCProxyHosts
SYMMETRY Symmetry
INVARIANTS RightPeer RequestAligned
PROPERTIES LeasePerKey
CHECK_DEADLOCK FALSE
