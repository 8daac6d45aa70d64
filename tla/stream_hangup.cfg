SPECIFICATION FairSpec
CONSTANTS
  Programs <- OnlyDataStep
  MaxExecs = 1
  PipeCap = 4
  StdinCap = 8
  ReadSize = 4
  MaxTimeouts = 2
  MaxEmptyReads = 1
  Echoes = {TRUE}
  SasMayDie = TRUE
  MaxSignals = 0
CHECK_DEADLOCK FALSE
PROPERTY WaitEnds
