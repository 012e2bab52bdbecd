SPECIFICATION MCSpec
CONSTANTS
  MaxTurns = 3
  WireBound = 2
  MaxRestartAttempts = 1
  Questions = {q1}
  MaxAskingTurns = 1
  SdkInitiates = FALSE
  Spontaneous = Spontaneous
  Continuation = Continuation
  Answer = Answer
  NoOwner = NoOwner
  None = None
  Chats = {c1, c2}
  Engines = {"claude", "kimi"}
  MaxConversations = 2
  MaxEvents = 2
  Tasks = {1, 2}
  Mixes <- TaskMixes
  Files = {f1}
  Retries = 1
  MaxUpdates = 1
  NoTask = None
  c1 = c1
  c2 = c2
  f1 = f1
SYMMETRY Symmetry
INVARIANTS
  TypeOK
  OneTurnInFlight
  IdleExecutorHasTimer
  AbortLeavesNoStragglers
  ResolverWhileWaiting
  TurnIsolation
  TurnIsToldRightUnlessMixed
  TurnsContinueTheirOwnUnlessTakenUp
  TaskLeavesItsResultUnlessSharedOrThrown
PROPERTIES
  ClosedIsFinal
CHECK_DEADLOCK FALSE
