CONSTANTS
  Hosts <- MCCancels
  MaxChunk = 4
  StrbufferLen = 4
SPECIFICATION Spec
INVARIANT CancelLeavesNothing
CHECK_DEADLOCK FALSE
