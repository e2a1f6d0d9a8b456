\* One window that is handled, two beside it, two groups, every command
SPECIFICATION GSpec
CONSTANTS
  w1 = w1
  w2 = w2
  w3 = w3
  Windows = {w1, w2, w3}
  Handled = {w1}
  View <- MCView
  Gap <- MCGap
  BWidth = 1
  SnapDist = 1
  Openings <- MCOpenings
  Ignored = {}
  Starts <- MCStarts
  NGroups = 2
  Amounts <- MCAmounts
  Points <- MCPoints
  Sessions <- MCSessions
  NoRect = NoRect
INVARIANTS
  PagerSeesState
  NormalIsKept
  BorderIsAsked
PROPERTIES
  StickyReturns
  TilesShare
