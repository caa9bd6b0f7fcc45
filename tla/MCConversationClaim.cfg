SPECIFICATION FairSpec
CONSTANTS
  r1 = r1
  r2 = r2
  a = a
  b = b
  c = c
  d = d
  p1 = p1
  None = None
  Req = {r1, r2}
  Id = {1, 2, 3, 4, 5, 6, 7}
  Proc = {p1}
  Conv = {a, b, c}
  Fresh = {c}
  DirOf <- MCDirOf
  OldConv <- MCFell
  MaxMishaps = 1
INVARIANT OneAssistant
INVARIANT LiveRowsStand
INVARIANT NoRowWithoutPane
PROPERTY CallsReturn
CHECK_DEADLOCK FALSE
