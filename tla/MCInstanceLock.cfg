SPECIFICATION FairSpec
CONSTANTS
  p1 = p1
  p2 = p2
  p3 = p3
  n1 = n1
  n2 = n2
  n3 = n3
  None = None
  Start = {p1, p2, p3}
  Pid = {n1, n2, n3}
  Service = {p3}
  HasTicks = TRUE
  MaxStops = 1
  MaxCrashes = 1
  MaxDegraded = 1
INVARIANT OneServer
INVARIANT ServerIsVisible
PROPERTY ServerRuns
CHECK_DEADLOCK FALSE
