\* A file of five frames, the third of which cannot be decoded.
SPECIFICATION Spec
CONSTANTS
  FrameSize = 2
  OutSize = 2
  SameRate = TRUE
  Ents = 5
  Avail = 5
  Samples = 7
  MaxPos = 12
  Bad = {2}
  Soft = {3}
  MaxLost = 8
  U32 = 128
  U64 = 256
INVARIANTS
  TypeOK
  Bookkeeping
  InPlace
  CleanOverlap
  EndsAtEnd
  NothingHeld
  IInv
CHECK_DEADLOCK FALSE
