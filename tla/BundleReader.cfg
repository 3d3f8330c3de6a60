SPECIFICATION FairSpec
CONSTANTS
  Files <- ThreeFiles
  AnyFile = "f1"
  CorruptSets <- MaybeCorrupt
  Attempts = 3
  NoBundle = nothing
  MaxFailures = 3
INVARIANTS StoredPrefix ShortOnlyAfterError
PROPERTY CallEnds
CHECK_DEADLOCK FALSE
