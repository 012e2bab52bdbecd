SPECIFICATION MCSpec
CONSTANTS
  q1 = q1
  q2 = q2
  Questions = {q1, q2}
  Subs <- OneAndTwo
  Kinds = {"cont"}
  MaxNoise = 2
  MaxTexts = 3
  NoQuestion = NoQuestion
INVARIANTS
  NoneWaitsUnseen
CHECK_DEADLOCK FALSE
