CONSTANTS
  Pids = {1}
  Attached = {}
  MaxHalves = 4
  MaxPipes = 1
  MaxFd = 1
SPECIFICATION ContainersSpec
INVARIANT LastLineDelivered
CHECK_DEADLOCK FALSE
