SPECIFICATION AnswerSpec
CONSTANTS
  Pids = {p1, p2, p3}
  NoPid = NoPid
  MaxExecs = 3
  MaxFds = 12
  Faults <- AllFaults
  MaxSignals = 2
CHECK_DEADLOCK FALSE
INVARIANTS
  InterpreterTypeOK
  NoLostInterrupt
  HandlesValid
  MarkerMeansIdle
PROPERTIES
  CallComesBack
  RequestAnswered
