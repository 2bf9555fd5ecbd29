SPECIFICATION Spec
CONSTANTS
  Requests = {r1, r2}
  MaxSettings = 1
  Half = 8
  InflowMinRefresh = 2
  MaxFrame = 3
  Reserve = 2
  Low = 1
  Declared <- MCDeclared
  MaxBody = 2
  FirstWindow = 2
  Windows = {0, 3}
  Increments = {3}
  MaxUpdates = 2
SYMMETRY Symmetry
INVARIANTS TypeOK ConnWindowExact ParkedIsDry EndsComplete
PROPERTIES CountedWithinWindow StreamWindowKept AckFirst
CHECK_DEADLOCK FALSE
