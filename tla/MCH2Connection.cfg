SPECIFICATION Spec
CONSTANTS
  Streams = {s1}
  Pings = {p1}
  Half = 8
  InflowMinRefresh = 3
  SelfWindow = 4
  PeerWindow = 3
  Lengths = {0, 2}
  Pads = {0, 1}
  MaxBytes = 4
  MaxFlight = 2
INVARIANTS TypeOK ReasonKnown NoWriteAfterClose NoFalseAccusation NoFalseEOF
PROPERTIES TokensKept
CHECK_DEADLOCK FALSE
