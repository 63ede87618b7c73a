SPECIFICATION Spec
CONSTANTS
  NearModes = 4
  SameModes = 3
  Buckets = 2
  Small = 4
  MIN_RUN = 6
  MAX_MATCH_SPLIT = 18
  SmallSlots = 8
  LargeSlots = 32
  CkMod = 61
  Far <- MCFar
  Inputs <- FarInputs
  Matchers <- MCMatchers
  IoptSizes = {0, 4}
  WinSize = 12
  BlkSize = 8
  MaxBlocks = 2
  SprevSize = 8
  IoptElts = 4
INVARIANT TooFarBackInEncoderOnly
