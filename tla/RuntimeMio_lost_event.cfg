\* Two ops are enough for an event to be dropped.
CONSTANTS
  MaxId = 3
  PanicIn = {}
SPECIFICATION FairMioSpec
PROPERTY MioDriveStops
