\* Any sequence of responses on a connection, any chunking, read in any sizes.
\* The program really stops at the nil reader.
SPECIFICATION Spec
CONSTANTS
  Menu <- MCMenu
  Unasked <- MCUnasked
  MaxRead = 4
  MayCut = TRUE
INVARIANTS TypeOK Aligned Complete NoSpuriousError NeverOverreads
CHECK_DEADLOCK FALSE
