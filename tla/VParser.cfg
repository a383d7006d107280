CONSTANTS
  Hosts <- MCHosts
  MaxChunk = 3
  StrbufferLen = 3
SPECIFICATION Spec
INVARIANTS TypeOK ChunkingInvisible OpenSequenceKept
PROPERTY PushReturns
CHECK_DEADLOCK FALSE
