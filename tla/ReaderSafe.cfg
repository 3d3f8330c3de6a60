SPECIFICATION Spec
CONSTANTS
  MaxBlock = 3
  FirstStreamable = 1
  StartBlock = 2
  Stops = {0, 2}
  Sources <- BothSources
  StdoutCap = 1
  LinesCap = 1
  BlocksCap = 1
  MaxLaunches = 2
  MayShutdown = TRUE
  MaxFailures = 1
  MaxRestarts = 0
INVARIANTS TypeOK NoSendOnClosed NoHole CleanStopLosesOneLine
CHECK_DEADLOCK FALSE
