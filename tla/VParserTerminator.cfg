CONSTANTS
  Hosts <- MCTerminators
  MaxChunk = 4
  StrbufferLen = 4
SPECIFICATION Spec
INVARIANT TerminatorEndsString
CHECK_DEADLOCK FALSE
