\* Whole and truncated files; frame offsets are computed modulo 64.
SPECIFICATION FairSpec
CONSTANTS
  Files <- MCIds
  Atoms <- MCAtoms
  End <- MCEnd
  IntMax = 100000
  U32 = 64
INVARIANTS
  TypeOK
  ScriptInStep
  OnAtoms
  TableSound
  Released
  OpensFirstSound
PROPERTIES
  Terminates
CHECK_DEADLOCK FALSE
