\* The subsong is initialized again after it has been played.
SPECIFICATION SfaadSpec
CONSTANTS
  FrameSize = 2
  OutSize = 2
  SameRate = TRUE
  Ents = 7
  Avail = 6
  Samples = 11
  MaxPos = 11
  Bad = {}
  Soft = {}
  MaxLost = 12
  U32 = 128
  U64 = 256
  Lengths <- MCLengths
  TicksPerSample = 2
  BufSize = 3
  MaxSeeks = 3
INVARIANTS
  PlaysFromStart
CHECK_DEADLOCK FALSE
