SPECIFICATION FairSpec
CONSTANTS
  Programs <- AllPrograms
  MaxExecs = 2
  PipeCap = 3
  StdinCap = 3
  ReadSize = 2
  MaxTimeouts = 2
  MaxEmptyReads = 1
  Echoes = {TRUE, FALSE}
  SasMayDie = TRUE
  MaxSignals = 1
CHECK_DEADLOCK FALSE
INVARIANTS
  TypeOK
  StreamsInOrder
  CleanRunExact
  MarkerMeansFinished
  ListingRemoved
PROPERTIES
  ExecuteReturns
  ImplementsSession
