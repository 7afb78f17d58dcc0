SPECIFICATION OutboxSpec
CONSTANTS
  Pages = {g1}
  NoDocument = NoDocument
  OutboxModes = {{"fail", "restore"}}
  MaxWrites = 4
  BatchSize = 2
  MaxAttempts = 2
  MaxStops = 1
CHECK_DEADLOCK FALSE
INVARIANT StalePagesHaveWork
