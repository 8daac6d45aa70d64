SPECIFICATION Spec
CONSTANTS
  Programs <- OnlyReport
  MaxExecs = 1
  PipeCap = 4
  StdinCap = 8
  ReadSize = 2
  MaxTimeouts = 2
  MaxEmptyReads = 1
  Echoes = {TRUE}
  SasMayDie = FALSE
  MaxSignals = 0
CHECK_DEADLOCK FALSE
INVARIANT HtmlComplete
