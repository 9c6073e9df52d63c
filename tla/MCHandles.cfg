\* Two sessions on one container, without stdin frames.  In the runtime any user
\* code may panic.  Pools of two slots per slab, the ring's tail wrapping every
\* fourth entry, and two runtimes one after the other; the half of a split view
\* is not grown.
CONSTANTS
  MaxSess = 2
  Pids = {1}
  MaxFd = 3
  MaxOut = 1
  MaxId = 5
  PanicIn = {"boot", "cancel_cb", "op_cb"}
  FixedCount = 2
  RingCount = 2
  TailMod = 4
  SlotSize = 2
  ViewId = {v1, v2}
  MaxGen = 3
  MaxReads = 2
  GrowsHalves = FALSE
SYMMETRY ViewSymmetry
SPECIFICATION SumSpec
INVARIANTS
  ExitFrameLast
  DataFramesWhole
  MioHoldsEveryOp
  MioCancelRunsDone
  BorrowsMatchViews
  ExclusiveDisjoint
  SlotsAccounted
