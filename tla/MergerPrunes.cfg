SPECIFICATION Spec
CONSTANTS
  BundleSize = 2
  FirstStreamable = 0
  StopBlock = 0
  PruningDistance = 2
  WalkAttempts = 2
  Chains <- DenseChain
  ForkChoices <- NoForks
  FinalityDepth = 1
  Reorder = 0
  MayShutdown = FALSE
  MaxFailures = 1
  MaxRestarts = 0
  MaxExternal = 0
INVARIANTS PrunedIsMerged
CHECK_DEADLOCK FALSE
