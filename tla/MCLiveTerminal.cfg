SPECIFICATION Spec
CONSTANTS
  r1 = r1
  r2 = r2
  s1 = s1
  s2 = s2
  c1 = c1
  p1 = p1
  p2 = p2
  Reader = {r1, r2}
  Read = {s1, s2}
  Conn = {c1}
  Prompt = {p1, p2}
  MaxSent = 2
  MaxMishaps = 2
  MaxThrows = 1
  MaxArrivals = 3
INVARIANT PromptsAreWhole
INVARIANT AnswersInOrder
INVARIANT NothingLostSilently
INVARIANT ServedExactly
PROPERTY EventuallyCurrent
PROPERTY EveryWriteEnds
CHECK_DEADLOCK FALSE
