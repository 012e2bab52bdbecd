SPECIFICATION Spec
CONSTANTS
  None = None
  c1 = c1
  Chats = {c1}
  ConfigTokens <- MCConfigTokens
  Messages <- MCMessages
  Answers <- MCAnswers
  MaxSent = 2
  MaxTokens = 2
  MaxTools = 1
  MaxFaults = 1
INVARIANTS
  AskedIsShown
CHECK_DEADLOCK FALSE
