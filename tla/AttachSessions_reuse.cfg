CONSTANTS
  MaxSess = 2
  Pids = {1}
  MaxFd = 3
  MaxOut = 1
SPECIFICATION SessionsSpec
INVARIANTS WritesReachTheirFile
CHECK_DEADLOCK FALSE
