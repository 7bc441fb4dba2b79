\* One frame that cannot be decoded, one decoded with an error, and the last frame of
\* the table is cut off the file.
SPECIFICATION FairSfaadSpec
CONSTANTS
  FrameSize = 2
  OutSize = 2
  SameRate = TRUE
  Ents = 9
  Avail = 8
  Samples = 15
  MaxPos = 15
  Bad = {6}
  Soft = {7}
  MaxLost = 16
  U32 = 128
  U64 = 256
  Lengths <- MCAlbum
  TicksPerSample = 2
  BufSize = 3
  MaxSeeks = 4
INVARIANTS
  ChunkFits
  EofExplained
PROPERTIES
  IsSampleStream
  SubsongsJoin
  PlaysOut
CHECK_DEADLOCK FALSE
