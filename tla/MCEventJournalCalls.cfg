SPECIFICATION FairSpec
CONSTANTS
  p1 = p1
  p2 = p2
  s1 = s1
  s2 = s2
  a = a
  b = b
  bad = bad
  u = u
  v = v
  None = None
  Proc = {p1}
  Slot = {s1, s2}
  Event = {a, b, bad}
  Invalid = {bad}
  Str = {u, v}
  Offered <- MCOffered
  MaxBatch = 1
  RecoveryAttempts = 2
  MaxOffers = 3
  MaxCrashes = 1
INVARIANT Accounted
INVARIANT RowsScheduled
PROPERTY AppendReturns
CHECK_DEADLOCK FALSE
