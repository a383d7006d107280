\* Two heights of a terminal, a row of which is cut off by the smaller one, and
\* two colours.
SPECIFICATION Spec
CONSTANTS
  Heights = {1, 3}
  Colours = {1, 2}
INVARIANTS TypeOK PrimaryKept PensAgree ColourFollowsBold ModeTellsBuffer
PROPERTY VisitLeavesNoTrace
