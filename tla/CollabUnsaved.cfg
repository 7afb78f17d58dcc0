SPECIFICATION Spec
CONSTANTS
  Clients = {c1}
  Edits = {e1, e2}
  None = None
  Allowed = {"save"}
  MaxRooms = 1
  MaxClock = 4
CHECK_DEADLOCK FALSE
PROPERTY EditsAreSaved
