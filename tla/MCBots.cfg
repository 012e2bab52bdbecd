SPECIFICATION BotsSpec
CONSTANTS
  None = None
  Absent = Absent
  Nothing = Nothing
  q1 = q1
  q2 = q2
  Questions = {q1, q2}
  Subs <- OneAndTwo
  Kinds = {"chat", "api", "cont"}
  MaxNoise = 1
  MaxTexts = 3
  NoQuestion = NoQuestion
  MaxEdits = 2
  MaxCalls = 3
  MaxSkillFaults = 1
  Users = {u1, u2}
  Bodies <- FeishuBodies
  TgBodies <- TelegramBodies
  Sizes = {2, 3}
  MaxSent = 3
  MaxIntakeFaults = 1
  Folders = {root, f1}
  Docs = {d1, d2}
  Root = root
  Names = {n1}
  Titles = {t1}
  Versions = {v1, v2}
  Visibilities = {"shared"}
  MaxWrites = 3
  Slots = {s1}
  Pages = {1, 2, 3}
  Many = 1
  ListLimit = 1
  MaxRequests = 1
  MaxSyncFaults = 1
  c1 = c1
  u1 = u1
  u2 = u2
  root = root
  f1 = f1
  d1 = d1
  d2 = d2
  n1 = n1
  t1 = t1
  v1 = v1
  v2 = v2
  s1 = s1
SYMMETRY Symmetry
CONSTRAINT Bounds
INVARIANTS
  AnswersAreSound
  NothingIsLostUnlessRestarted
  IntakeIsSoundUnlessUnsure
  HubHoldsOneEditionUnlessEdited
  CardTellsUnlessLost
  WikiFollowsUnlessDisturbed
  PageTellsTheDocumentUnlessTroubled
PROPERTIES
  NoEarlyTimeout
  MentionCarriesTheMediaUnlessOvertakenOrBare
CHECK_DEADLOCK FALSE
