\* Chunks of one to three samples; the additional file ends in the last subsong.
SPECIFICATION FairSpec
CONSTANTS
  Subsongs <- MCSubsongs
  MainLen = 8
  MainBlind = 2
  AddLen = 6
  MaxEnd = 8
  MaxChunk = 3
  MaxSeeks = 3
INVARIANTS
  TypeOK
  SkewIsLeftover
  MixAligned
  InOrder
  EndsWithShorter
  IInv
PROPERTIES
  PlaysOut
CHECK_DEADLOCK FALSE
