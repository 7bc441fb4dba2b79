\* Implicit SBR: the decoder doubles the rate and returns two frames of the time line
\* for one; as in the code the buffer is a multiple of what it returns.
SPECIFICATION SfaadSpec
CONSTANTS
  FrameSize = 2
  OutSize = 4
  SameRate = FALSE
  Ents = 9
  Avail = 9
  Samples = 15
  MaxPos = 15
  Bad = {}
  Soft = {}
  MaxLost = 16
  U32 = 128
  U64 = 256
  Lengths <- MCAlbum
  TicksPerSample = 2
  BufSize = 8
  MaxSeeks = 3
INVARIANTS
  RoomSuffices
CHECK_DEADLOCK FALSE
