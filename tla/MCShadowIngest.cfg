SPECIFICATION FairSpec
CONSTANTS
  t1 = t1
  t2 = t2
  None = None
  Lists <- MCLists
  Source = {t1, t2}
  MaxFile = 2
  Concurrency = 2
  Settle = 1
  SettleMargin = 2
  Live = {t1}
  MaxLines = 2
  MaxTime = 2
  MaxFaults = 1
  MaxLag = 1
  LiveSwap = FALSE
  PowerLoss = FALSE
INVARIANT NewestListRan
INVARIANT CursorBehindJournal
INVARIANT SkippedIsComplete
INVARIANT StampsDescribeTheFile
PROPERTY EventuallyComplete
