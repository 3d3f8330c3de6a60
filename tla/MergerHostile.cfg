SPECIFICATION Spec
CONSTANTS
  BundleSize = 2
  FirstStreamable = 0
  StopBlock = 0
  PruningDistance = 2
  WalkAttempts = 2
  Chains <- AllChains
  ForkChoices <- SomeForks
  FinalityDepth = 1
  Reorder = 1
  MayShutdown = TRUE
  MaxFailures = 2
  MaxRestarts = 1
  MaxExternal = 1
INVARIANTS TypeOK BundleComplete NothingBelowBase
CHECK_DEADLOCK FALSE
