SPECIFICATION FairSpec
CONSTANTS
  e1 = e1
  e2 = e2
  e3 = e3
  a1 = a1
  old = old
  new = new
  None = None
  Event = {e1, e2, e3}
  Pass = {a1}
  NumProj = 2
  Build = {old, new}
  Version <- MCVersion
  Adapters <- MCAdapters
  PageSize = 2
  MaxPages = 2
  MaxLog = 3
  MaxReplace = 1
  SameStart = FALSE
  EmptyStart = FALSE
  MaxFaults = 2
  MaxBlind = 0
INVARIANT RowsMatchCursor
INVARIANT ReplacementFound
PROPERTY CursorDropsWithRows
PROPERTY EventuallyCaughtUp
