SPECIFICATION FairSpec
CONSTANTS
  p1 = p1
  p2 = p2
  p3 = p3
  s1 = s1
  s2 = s2
  None = None
  Proc = {p1, p2, p3}
  Calls = 1
  MaxCrashes = 1
  MaxLate = 1
  Session = {s1, s2}
  Asks <- MCAsks
INVARIANT Exclusive
INVARIANT NoLostUpdate
PROPERTY AcquireReturns
CHECK_DEADLOCK FALSE
