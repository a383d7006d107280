CONSTANTS
  Chars <- MCChars
  Rows = 2
  Cols = 2
  MaxPerCell = 2
  CombineSize = 2
  MaxSent = 5
SPECIFICATION Spec
INVARIANTS TypeOK ShownAsSent UnfinishedKept
CONSTRAINT Ahead
CHECK_DEADLOCK FALSE
