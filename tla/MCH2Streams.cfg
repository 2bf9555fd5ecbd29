\* Three requests compete for one or two places; each context may end, each
\* stream may be answered or reset; a SETTINGS and a GOAWAY come at any time. The
\* program can deadlock on its own locks.
SPECIFICATION Spec
CONSTANTS
  Requests = {r1, r2, r3}
  NoOne = NoOne
  ReadLoop = ReadLoop
  Limits = {1, 2}
  MaxSettings = 1
SYMMETRY Symmetry
INVARIANTS TypeOK IdsIncreaseOnWire SlotsAccounted
PROPERTIES StreamLimit NoLostSignal
CHECK_DEADLOCK FALSE
