CONSTANTS
  MaxWords = 5
  MaxRun = 4
  BufferSize = 5
SPECIFICATION Spec
INVARIANTS TypeOK DecodedAsSent NameIsSeen FontAsNamed ReadersDestroyed
CHECK_DEADLOCK FALSE
