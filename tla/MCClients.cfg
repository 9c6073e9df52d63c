\* Both readers of an attach stream; the three loops on a queue that holds just
\* them; one session with stdin frames; one container with a follower.
CONSTANTS
  Payloads <- ModelPayloads
  MaxFrames = 2
  Outputs <- ModelOutputs
  ExitCodes = {137}
  MaxIn = 1
  MaxWinch = 1
  Clients = {c1, c2}
  Entries = 3
  MaxKids = 2
  MaxFd = 2
  MaxOut = 1
  MaxHalves = 2
SPECIFICATION SumSpec
INVARIANTS
  FramesInOrder
  OutputBeforeStatus
PROPERTIES
  EveryFrameHandedOn
  ExitCodePropagated
  EveryoneServed
  SessionEnds
  ContainerRemoved
CHECK_DEADLOCK FALSE
