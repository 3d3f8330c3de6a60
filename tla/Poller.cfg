SPECIFICATION FairSpec
CONSTANTS
  Blocks <- TreeBlocks
  NoBlock = "none"
  Number <- TreeNumber
  Parent <- TreeParent
  StartNum = 0
  BatchSize = 2
  MaxReorg = 3
  NodeFinality = 3
  ForceFinality = 3
  IgnoreCursor = FALSE
  MayShutdown = TRUE
  FirstHeads <- StartHeads
  Loaders = {1}
  MaxMoves = 1
  MaxFailures = 1
  MaxRestarts = 1
INVARIANTS PrintedOnce
PROPERTIES ParentFirst FollowsHead ShutdownCompletes
CHECK_DEADLOCK FALSE
