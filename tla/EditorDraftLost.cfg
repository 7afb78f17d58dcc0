SPECIFICATION EditorSpec
CONSTANTS
  Words = {e1, e2}
  MaxUpdates = 3
  MaxFailures = 0
  Manners = {{"turning"}}
CHECK_DEADLOCK FALSE
INVARIANT TypedTextIsNeverLost
