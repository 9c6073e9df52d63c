\* Two ops and two cancels are enough for a cancel slot to change hands.
CONSTANTS
  MaxId = 4
  PanicIn = {}
  RingEntries = 4
SPECIFICATION UringSpec
INVARIANT WonCancelRunsDone
