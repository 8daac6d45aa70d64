SPECIFICATION InterpreterSpec
CONSTANTS
  Pids = {p1, p2, p3, p4}
  NoPid = NoPid
  MaxExecs = 3
  MaxFds = 6
  Faults = {"group"}
  MaxSignals = 2
SYMMETRY PidSymmetry
CHECK_DEADLOCK FALSE
INVARIANT RestartSurvived
