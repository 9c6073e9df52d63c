\* Two data frames, the header of the first in pieces.
CONSTANTS
  Payloads <- ModelPayloads
  MaxFrames = 2
  Outputs <- ModelOutputs
  ExitCodes = {137}
  MaxIn = 1
  MaxWinch = 1
SPECIFICATION Spec
INVARIANT ShortHeadersResume
CHECK_DEADLOCK FALSE
