CONSTANTS
  Sizes <- MCSizes
  Margins <- MCMargins
  Widths = {1}
  Counts = {1}
  Places = {1}
SPECIFICATION Spec
INVARIANT OriginBoundsWithoutMargins
