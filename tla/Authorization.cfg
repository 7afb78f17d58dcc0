SPECIFICATION AuthSpec
CONSTANTS
  r1 = r1
  r2 = r2
  e1 = e1
  e2 = e2
  l1 = l1
  l2 = l2
  l3 = l3
  l4 = l4
  Readers = {r1, r2}
  Editors = {e1, e2}
  Loads = {l1, l2, l3, l4}
  None = None
  Failed = Failed
  MaxChanges = 2
  u1 = u1
  u2 = u2
  u3 = u3
  q1 = q1
  q2 = q2
  Users = {u1, u2, u3}
  Requests = {q1, q2}
  Attempts = {q1, q2}
  NoUser = NoUser
  MaxRequests = 3
  AccountModes <- AccountMix
  k1 = k1
  k2 = k2
  Areas = {"password", "rows", "totp", "passkey", "key"}
  Overlaps = {}
  Databases = {"sqlite", "server"}
  Codes = {k1, k2}
  MaxTime = 3
  MaxRows = 3
  Principals <- SomePrincipals
  AskedActions = {"page:read", "page:write", "page:move"}
  PagePaths = {"a/b"}
  NoPath = "none"
  PageRules <- SomePageRules
  PageGrants <- SomeGrants
  Policies <- SomePolicies
  Fits <- SomeFits
  LengthOf <- SomeLengths
CHECK_DEADLOCK FALSE
INVARIANTS
  CachedPolicyIsCurrent
  AccountInv
  VerdictIsThePolicys
  SignInv
PROPERTIES
  ReadsAreFresh
  RequestsAreAnswered
  AnAdminRemains
  RefusalsLast
