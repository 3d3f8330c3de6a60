SPECIFICATION Spec
CONSTANTS
  Blocks <- GapBlocks
  NoBlock = "none"
  Number <- GapNumber
  Parent <- GapParent
  StartNum = 1
  BatchSize = 5
  MaxReorg = 2
  NodeFinality = 2
  ForceFinality = 2
  IgnoreCursor = FALSE
  MayShutdown = FALSE
  FirstHeads <- GapHead
  Loaders = {1}
  MaxMoves = 1
  MaxFailures = 0
  MaxRestarts = 0
INVARIANTS NeverBelowLib
CHECK_DEADLOCK FALSE
