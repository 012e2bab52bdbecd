SPECIFICATION WaitsSpec
CONSTANTS
  Chats = {c1, c2}
  Callers = {p1, p2}
  MaxExecutors = 3
  MaxConcurrent = 1
  SelfStops = TRUE
  NoChat = NoChat
  None = None
  q1 = q1
  c1 = c1
  c2 = c2
  p1 = p1
  p2 = p2
  h1 = h1
  h2 = h2
  b1 = b1
  r1 = r1
  r2 = r2
  m1 = m1
  a1 = a1
  Spontaneous = Spontaneous
  Continuation = Continuation
  Answer = Answer
INVARIANTS
  PoolIsSoundUnlessOverlapped
PROPERTIES
  EveryWaitEndsUnlessRetried
CHECK_DEADLOCK FALSE
