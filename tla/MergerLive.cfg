SPECIFICATION FairSpec
CONSTANTS
  BundleSize = 2
  FirstStreamable = 1
  StopBlock = 0
  PruningDistance = 2
  WalkAttempts = 2
  Chains <- LateChains
  ForkChoices <- NoForks
  FinalityDepth = 1
  Reorder = 0
  MayShutdown = FALSE
  MaxFailures = 0
  MaxRestarts = 2
  MaxExternal = 0
INVARIANTS NoPanic
PROPERTIES ChainGetsMerged
CHECK_DEADLOCK FALSE
