SPECIFICATION FairSpec
CONSTANTS
  MaxBlock = 1
  FirstStreamable = 1
  StartBlock = 1
  Stops = {0}
  Sources <- OnlyProcess
  StdoutCap = 1
  LinesCap = 1
  BlocksCap = 1
  MaxLaunches = 2
  MayShutdown = TRUE
  MaxFailures = 1
  MaxRestarts = 1
PROPERTIES FileIsUploaded 
CHECK_DEADLOCK FALSE
