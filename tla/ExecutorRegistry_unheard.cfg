SPECIFICATION MCSpec
CONSTANTS
  Chats = {c1}
  Callers = {p1}
  MaxExecutors = 4
  MaxConcurrent = 1
  SelfStops = TRUE
  NoChat = NoChat
  c1 = c1
  p1 = p1
INVARIANTS
  PooledIsHeard
CHECK_DEADLOCK FALSE
