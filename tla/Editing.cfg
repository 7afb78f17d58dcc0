SPECIFICATION EditingSpec
CONSTANTS
  c1 = c1
  c2 = c2
  e1 = e1
  e2 = e2
  e3 = e3
  Clients = {c1, c2}
  Edits = {e1, e2, e3}
  Words = {e1, e2, e3}
  None = None
  Allowed = {"api", "save", "lifecycle", "overlap", "hangup", "lateSeed"}
  MaxRooms = 2
  MaxClock = 3
  MaxUpdates = 4
  MaxFailures = 1
  Manners <- SomeManners
  Tabs = {"t1", "t2"}
  UserOf <- OneUser
  EditorTabs = {"t2"}
  Paths = {"a", "b"}
  MaxSockets = 3
  Hangups = {FALSE}
  d1 = d1
  d2 = d2
  a1 = a1
  k1 = k1
  q1 = q1
  q2 = q2
  Docs = {d1, d2}
  Assets = {a1}
  Comments = {k1}
  Requests = {q1, q2}
  MaxIndexOps = 5
  IndexModes <- Drivers
SYMMETRY Interchangeable
CHECK_DEADLOCK FALSE
INVARIANTS
  EditorInv
  PresenceInv
  IndexInv
PROPERTIES
  SeededAutosavesKeepEdits
  OthersAreKept
