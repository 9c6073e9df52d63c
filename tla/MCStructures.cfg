\* In the runtime any user code may panic.  In the arena, callbacks re-arm only
\* ops without caller buffers, as the daemon's do.  Lines from empty to one byte
\* too long for the log ring.  Of the two containers the second, run attached, has
\* no output of its own: it is there to be followed on the one descriptor a
\* follower of the first has left.
CONSTANTS
  MaxId = 5
  PanicIn = {"boot", "cancel_cb", "op_cb"}
  Classes <- ModelClasses
  Lens = {0, 1, 2, 3}
  MaxOps = 4
  BufferedInCallback = FALSE
  Cap = 5
  LineLens = {0, 1, 2, 4, 5}
  MaxLines = 6
  Pids = {1, 2}
  Attached = {2}
  MaxFd = 1
  MaxHalves = 4
  MaxPipes = 2
SPECIFICATION SumSpec
INVARIANTS
  SlabInv
  PendingInv
  OpConserved
  CancelledIffDone
  LocalOnce
  NoLeak
  QuiescentEnd
  RunsTileArena
  BuffersComeBack
  ReadsNewestLines
  PushFindsRoom
  DrainsCounted
  LogIsComplete
  FollowedInOrder
  HeldWhileRunning
PROPERTY ImplementsContract
