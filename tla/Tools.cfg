SPECIFICATION Spec
CONSTANTS
  BundleSize = 2
  FirstStreamable = 0
  Radix = 2
  Width = 4
  SegmentSize = 4
  BucketSize = 1
  WireSize = 1
  QueueSize = 2
  MaxTroubles = 2
  Chain <- MCChain
  Feed <- MCFeed
  Scenarios <- MCScenarios
INVARIANTS TypeOK FilesInOrder ChecksAreRight WritesAreComplete PrintedInOrder
PROPERTY CommandEnds
CHECK_DEADLOCK FALSE
