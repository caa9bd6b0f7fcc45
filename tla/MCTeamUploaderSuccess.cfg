SPECIFICATION Spec
CONSTANTS
  s = s
  t = t
  None = None
  NoCache = NoCache
  Session <- MCSession
  RuleSets <- MCRuleSets
  MaxVersion = 2
  MaxBatch = 1
  MaxStreak = 1
  MaxEvents = 2
INVARIANT
  SuccessMeansGone
CHECK_DEADLOCK FALSE
