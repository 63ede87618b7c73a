CONSTANTS
  Engines = {"encoder", "decoder"}
  MaxBlocks = 3
  BlkSize = 2
  Lengths = {1, 4, 7, 10}
  MaxBlkno = 6
  MaxFailures = 2
  NoValue = NoValue
SPECIFICATION Spec
INVARIANTS PositionFollowsCache CachedBlocksAreRight AnswerIsTheBlock CurrentBlockIsCurrent KnownLengthIsRight
