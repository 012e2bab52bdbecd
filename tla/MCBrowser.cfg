SPECIFICATION BrowserSpec
CONSTANTS
  None = None
  Folders = {root, f1}
  Docs = {d1, d2}
  Root = root
  Names = {n1}
  Titles = {t1}
  Versions = {v1}
  Visibilities = {"shared", "private"}
  MaxWrites = 3
  MaxClicks = 4
  MaxConns = 3
  MaxSends = 2
  MaxEvents = 2
  OldEntries = {4}
  Null = Null
  MaxTyped = 2
  MaxUnderWay = 2
  MaxDocEvents = 4
  MaxPresses = 2
  MaxFaults = 1
  MaxAsks = 3
  MaxCalls = 2
  MaxReqs = 2
  MaxSessions = 3
  MaxRtcFaults = 1
SYMMETRY Symmetry
CONSTRAINT Bounds
INVARIANTS
  ChatIsSoundUnlessExcused
  ButtonIsSoundUnlessCrossed
  MicOnlyWhileListeningUnlessRaced
  CallIsSoundUnlessCrossed
  MemoryIsSound
  PagesAreTrueUnlessDisturbed
CHECK_DEADLOCK FALSE
