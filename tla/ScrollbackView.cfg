\* A ring of three lines, against the documented order of the rows above the
\* screen.
SPECIFICATION Spec
CONSTANTS
  Size = 3
  Lines = {blank, text}
  Blank = blank
  NoLine = none
  Heights = {1, 3}
  Widths = {1, 2}
  MaxHistory = 5
  MaxOffset = 1
INVARIANT RowsAboveScreenAreTheBuffer
