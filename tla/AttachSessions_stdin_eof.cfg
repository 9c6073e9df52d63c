\* One session and one container: the session's StdinEof and the record.
CONSTANTS
  MaxSess = 1
  Pids = {1}
  MaxFd = 2
  MaxOut = 1
SPECIFICATION StdinSpec
INVARIANT InputIsOwn
CHECK_DEADLOCK FALSE
