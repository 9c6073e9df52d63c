\* Two submission entries, so that refusals happen; two containers, built-in
\* init or not, and a daemon that may die.
CONSTANTS
  MaxId = 5
  PanicIn = {"op_cb"}
  RingEntries = 2
  MaxCont = 2
  Status <- ModelStatus
SPECIFICATION SumSpec
INVARIANTS
  OneRequestPerOp
  CancelHitsItsTarget
  CancelledWereStopped
  WriteEndsHeldLater
  NoInitKilledEarly
PROPERTIES
  LoopEnds
  ContainersDieWithDaemon
  CommandEndsContainer
