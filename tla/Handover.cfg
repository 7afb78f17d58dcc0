SPECIFICATION HandoverSpec
CONSTANTS
  n1 = n1
  n2 = n2
  Instances = {n1, n2}
  None = None
  NoDocument = NoDocument
  Modes <- Orderly
  MaxEvents = 2
  MaxSubscribes = 2
  MaxFailures = 1
  PollLimit = 1
  MaxStored = 1
  g1 = g1
  Pages = {g1}
  OutboxModes <- Survivable
  MaxWrites = 3
  BatchSize = 2
  MaxAttempts = 2
  MaxStops = 1
CHECK_DEADLOCK FALSE
INVARIANTS
  DeliveryInv
  OutboxInv
PROPERTIES
  EventsArrive
  IndexCatchesUp
