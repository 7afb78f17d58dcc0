SPECIFICATION AfterWriteSpec
CONSTANTS
  p1 = p1
  p2 = p2
  GitPaths = {p1, p2}
  Garbled = Garbled
  GitModes <- MirrorModes
  MaxGitEdits = 3
  MaxGitFailures = 1
  MaxRestarts = 1
  s1 = s1
  s2 = s2
  k1 = k1
  k2 = k2
  Subscriptions = {s1, s2}
  Calls = {k1, k2}
  EventTypes = {1}
  MaxAttempts = 2
  DueLimit = 2
  MaxDeliveries = 2
  MaxChanges = 1
  HookModes <- DeliveryModes
  b1 = b1
  b2 = b2
  f1 = f1
  f2 = f2
  v1 = v1
  Labels = {b1, b2}
  Folders = {f1, f2}
  Events = {v1}
  NoValue = NoValue
  MaxRules = 2
  MaxRuleChanges = 1
CHECK_DEADLOCK FALSE
INVARIANTS
  GitInv
  HookInv
  RulesAreAppliedAsFound
PROPERTIES
  MirrorsConverge
  DeliveriesEnd
