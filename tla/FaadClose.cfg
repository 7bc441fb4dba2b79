\* The decoder refuses the stream: init closes the handle and keeps it.
SPECIFICATION Spec
CONSTANTS
  FrameSize = 2
  OutSize = 2
  SameRate = TRUE
  Ents = 5
  Avail = 5
  Samples = 7
  MaxPos = 12
  Bad = {2}
  Soft = {3}
  MaxLost = 8
  U32 = 128
  U64 = 256
INVARIANTS
  ClosedOnce
CHECK_DEADLOCK FALSE
