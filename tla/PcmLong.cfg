\* float with 5 bits of mantissa and words of 7, double with 8 and words of 12.
SPECIFICATION Spec
CONSTANTS
  Grid = 8
  FMant = 5
  FWord = 7
  FShift = 3
  DMant = 8
  DWord = 12
  DShift = 6
  Half = 6
  Byte = 2
  Narrow = {2, 4}
  Wide = 6
INVARIANT LongToFloatNearest
CHECK_DEADLOCK FALSE
