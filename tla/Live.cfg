SPECIFICATION LiveSpec
CONSTANTS
  Paths = {"a", "b"}
  MaxWrites = 2
  MaxRefreshes = 2
  MaxBreaks = 1
  Habits <- SomeHabits
  i1 = i1
  i2 = i2
  l1 = l1
  l2 = l2
  Processes = {i1, i2}
  Listeners = {l1, l2}
  MaxEmits = 3
  MaxArrivals = 2
  Limit = 2
  StoredEvents = {1, 3}
  c1 = c1
  c2 = c2
  e1 = e1
  e2 = e2
  e3 = e3
  Clients = {c1, c2}
  Edits = {e1, e2, e3}
  None = None
  Allowed = {}
  MaxRooms = 3
  MaxClock = 3
  PanelNames = {"comments","history","templates","bell","picker","assets","automation","appearance","policy","pages","audit","trash","import","apiKeys","passkeys","users","groups","subscriptions","deliveries","redirects","rules","git","purges","stats","totp","account","share","profile"}
  MaxTypings = 2
  MaxGiven = 2
  MaxSubmits = 2
  Bad <- SomeBad
CHECK_DEADLOCK FALSE
INVARIANTS
  TabInv
  RoomInv
PROPERTIES
  ReadersStreamComesBack
  AwaitedEventsArrive
  EditsAreSaved
