SPECIFICATION FairSpec
CONSTANTS
  MaxTurns = 1
  WireBound = 1
  MaxRestartAttempts = 1
  Questions = {}
  SdkInitiates = TRUE
  Spontaneous = Spontaneous
  Continuation = Continuation
  Answer = Answer
  NoOwner = NoOwner
PROPERTIES
  TurnEnds
CHECK_DEADLOCK FALSE
