SPECIFICATION Spec
CONSTANTS
  Texts = {m1, m2}
  Media = {f1}
  ApiTasks = {}
  MaxQueueSize = 1
  StaleSessions = TRUE
  Teardowns = TRUE
  Continuations = TRUE
  SendsFail = TRUE
  Continuation = Continuation
  None = None
  m1 = m1
  m2 = m2
  f1 = f1
SYMMETRY TextSymmetry
INVARIANTS
  TypeOK
  RunningIsAlive
  QueueIsSound
  LiveTurnIsStoppable
  NoMediaLost
PROPERTIES
  ImplementsLifecycle
CHECK_DEADLOCK FALSE
