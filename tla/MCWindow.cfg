SPECIFICATION Spec
CONSTANTS
  NearModes = 4
  SameModes = 3
  Buckets = 2
  Small = 4
  MIN_RUN = 6
  MAX_MATCH_SPLIT = 18
  SmallSlots = 8
  LargeSlots = 32
  CkMod = 61
  Far <- MCFar
  Inputs <- MCInputs
  Matchers <- MCMatchers
  IoptSizes = {0, 5}
  WinSize = 32
  BlkSize = 8
  MaxBlocks = 3
  SprevSize = 8
  IoptElts = 4
INVARIANTS DecodesToTheText BufferIsOrdered SlotsAreCounted InstructionsTell Rolling
