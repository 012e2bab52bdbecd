SPECIFICATION Spec
CONSTANTS
  Texts = {m1, m2, m3}
  Media = {}
  ApiTasks = {}
  MaxQueueSize = 2
  StaleSessions = FALSE
  Teardowns = FALSE
  Continuations = FALSE
  SendsFail = TRUE
  Continuation = Continuation
  None = None
  m1 = m1
  m2 = m2
  m3 = m3
INVARIANTS
  QueueIsServed
CHECK_DEADLOCK FALSE
