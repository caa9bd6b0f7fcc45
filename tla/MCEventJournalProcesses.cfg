SPECIFICATION Spec
CONSTANTS
  p1 = p1
  p2 = p2
  s1 = s1
  s2 = s2
  a = a
  b = b
  bad = bad
  u = u
  v = v
  None = None
  Proc = {p1, p2}
  Slot = {s1}
  Event = {a, b, bad}
  Invalid = {bad}
  Str = {u, v}
  Offered <- MCValid
  MaxBatch = 2
  RecoveryAttempts = 2
  MaxOffers = 2
  MaxCrashes = 1
SYMMETRY MCSymmetry
INVARIANT ReadsWhatWasWritten
INVARIANT WrittenIsStored
PROPERTY AppendOnlyLog
CHECK_DEADLOCK FALSE
