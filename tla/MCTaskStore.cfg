SPECIFICATION Spec
CONSTANTS
  p1 = p1
  p2 = p2
  home = home
  carried = carried
  created = created
  group = group
  member = member
  other = other
  None = None
  Proc = {p1, p2}
  Calls = 8
  MaxCrashes = 1
  MaxLate = 1
  Task = {home, carried, created, other}
  Home = home
  Legacy = {carried}
  Title <- MCTitle
  Subtask = {group, member}
  Group = group
  MaxHandlers = 3
SYMMETRY MCSymmetry
INVARIANT OneClaimant
INVARIANT OneTaskPerTitle
PROPERTY Atomic
CHECK_DEADLOCK FALSE
