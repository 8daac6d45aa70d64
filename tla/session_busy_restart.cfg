SPECIFICATION LazySasSpec
CONSTANTS
  Pids = {p1, p2}
  NoPid = NoPid
  MaxExecs = 1
  MaxFds = 6
  Faults <- NoFaults
CHECK_DEADLOCK FALSE
PROPERTY RestartCompletes
