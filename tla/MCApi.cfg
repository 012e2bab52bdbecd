SPECIFICATION ApiSpec
CONSTANTS
  TaskIds = {t1, t2}
  Recs = {r1}
  MaxRetries = 1
  RetryDelay = 1
  StaleAfter = 1
  MaxTimeout = 1
  Delays = {1}
  Period = 2
  MaxCrashes = 1
  None = None
  t1 = t1
  t2 = t2
  r1 = r1
  h1 = h1
  h2 = h2
  Hosts = {h1, h2}
  Bots = {b1}
  OtherBots = 1
  Reqs = {q1, q2}
  PeersOf <- EachOther
  FailureThreshold = 2
  ResetTimeout = 1
  HalfOpenMax = 1
  MaxHistory = 1
  Limits = {1}
  MaxCost = 1
  MaxAdmin = 1
  MaxTalks = 2
  MaxHostCrashes = 1
  Absent = Absent
SYMMETRY Ids
INVARIANTS
  TypeOK
  PendingIsArmed
  ActiveIsArmed
  RunsOnce
  OneOccurrence
  HostsAreSound
PROPERTIES
  NeverEarly
