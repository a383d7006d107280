\* A ring of two lines under a history of three, on terminals of one and of
\* three rows, under a mouse at the pixels of three columns, in two rows and
\* at two heights of one: the ring wraps, a drag reaches from the screen over
\* all that is kept, a short one from cell to cell is a click, and the text
\* of five rows does not fit.
SPECIFICATION SelSpec
CONSTANTS
  Size = 2
  Lines <- MCLines
  Blank <- MCBlank
  NoLine <- MCNoLine
  Heights = {1, 3}
  Widths = {1, 4}
  MaxHistory = 3
  MaxOffset = 2
  Xs = {3, 12, 20}
  Ys = {5, 14, 37}
  CellWidth = 8
  CellHeight = 16
  TextRoom = 20
INVARIANTS TypeOK GetInBounds RingHoldsHistory MarkedIsCopied WordIsCopied
PROPERTIES ScrollSavesRows ImplementsLog
CONSTRAINT Followed
