SPECIFICATION FairSpec
CONSTANTS
  c1 = c1
  c2 = c2
  Callers <- TwoCallers
  Boot = boot
  Names <- SomeNames
  QueueSize = 3
  BackupKind = "offline"
  MayShutdown = TRUE
  MaxTicks = 1
  MaxProcs = 2
  MaxFailures = 1
INVARIANTS OneProcess BackupOffline
PROPERTIES Answered ExitNoticed ShutdownCompletes
CHECK_DEADLOCK FALSE
