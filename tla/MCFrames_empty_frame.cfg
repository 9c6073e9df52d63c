\* One frame is enough, the client's StdinEof.
CONSTANTS
  Payloads <- ModelPayloads
  MaxFrames = 1
  Outputs <- ModelOutputs
  ExitCodes = {137}
  MaxIn = 1
  MaxWinch = 1
SPECIFICATION FairSpec
PROPERTY EmptyFrameHandedOn
CHECK_DEADLOCK FALSE
