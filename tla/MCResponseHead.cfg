\* A HEAD response with Transfer-Encoding: chunked.
SPECIFICATION Spec
CONSTANTS
  Menu <- MCMenuHead
  Unasked = {}
  MaxRead = 2
  MayCut = FALSE
INVARIANTS NoBodyByStatus
