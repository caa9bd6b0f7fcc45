SPECIFICATION FairSpec
CONSTANTS
  s = s
  t = t
  None = None
  NoCache = NoCache
  Session <- MCSession
  RuleSets <- MCRuleSets
  MaxVersion = 2
  MaxBatch = 1
  MaxStreak = 1
  MaxEvents = 3
INVARIANTS
  SentIsHeld
  DeniedIsNamed
  MemoIsHeld
PROPERTIES
  EventuallyShared
  EventuallyGone
CHECK_DEADLOCK FALSE
