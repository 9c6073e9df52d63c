\* Two slots per slab, used by a program that casts slices.
CONSTANTS
  FixedCount = 2
  RingCount = 2
  TailMod = 4
  SlotSize = 2
  ViewId = {v1, v2}
  MaxGen = 3
  MaxReads = 2
  GrowsHalves = FALSE
SPECIFICATION CastSpec
INVARIANT ExclusiveDisjoint
CHECK_DEADLOCK FALSE
