CONSTANTS
  Sizes <- MCSizes
  Margins <- MCMargins
  Widths <- MCWidths
  Counts = {1, 3}
  Places = {0, 2, 4}
SPECIFICATION Spec
INVARIANTS TypeOK CursorOnScreen OriginBoundsCursor ScrollsOnScreen PhantomAtMargin
CONSTRAINT NoCause
