SPECIFICATION InterpreterSpec
CONSTANTS
  Pids = {p1, p2, p3, p4}
  NoPid = NoPid
  MaxExecs = 4
  MaxFds = 12
  Faults = {"exit", "group", "full"}
  MaxSignals = 2
CHECK_DEADLOCK FALSE
INVARIANTS
  RestartsBounded
  SingleSas
  DescriptorBalance
PROPERTIES
  CleanShutdown
  StateLossReported
  KernelServes
