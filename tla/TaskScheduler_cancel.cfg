SPECIFICATION MCSpec
CONSTANTS
  TaskIds = {t1, t2}
  Recs = {r1}
  MaxRetries = 1
  RetryDelay = 1
  StaleAfter = 1
  MaxTimeout = 1
  Delays = {1}
  Period = 2
  MaxCrashes = 0
  None = None
  t1 = t1
  t2 = t2
  r1 = r1
INVARIANT CancelledLeavesNoChild
