SPECIFICATION FairSpec
CONSTANTS
  BundleSize = 2
  FirstStreamable = 0
  StopBlock = 4
  PruningDistance = 2
  WalkAttempts = 2
  Chains <- RegularChains
  ForkChoices <- SomeForks
  FinalityDepth = 1
  Reorder = 1
  MayShutdown = TRUE
  MaxFailures = 0
  MaxRestarts = 1
  MaxExternal = 0
INVARIANTS BaseIsMerged StopMeansMerged ForkedStoreOnlyForks
PROPERTIES ArchiveSpec ShutdownCompletes
CHECK_DEADLOCK FALSE
