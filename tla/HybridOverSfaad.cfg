\* The additional file ends before the main one; two frames cannot be decoded and one
\* has an error.
SPECIFICATION HFairSpec
CONSTANTS
  FrameSize = 2
  OutSize = 2
  SameRate = TRUE
  Ents = 9
  Avail = 9
  Samples = 16
  MaxPos = 16
  Bad = {3, 7}
  Soft = {4}
  MaxLost = 16
  U32 = 128
  U64 = 256
  Lengths <- MCLengths
  TicksPerSample = 1
  BufSize = 3
  MaxSeeks = 3
  AddLen = 7
  MaxChunk = 4
INVARIANTS
  SkewExplained
  EndIsFinal
PROPERTIES
  IsHybrid
  HPlaysOut
CHECK_DEADLOCK FALSE
