SPECIFICATION Spec
CONSTANTS
  r1 = r1
  r2 = r2
  r3 = r3
  r4 = r4
  i1 = i1
  Requests = {r1, r2, r3, r4}
  Identities = {i1}
  IdentityOf <- OneClient
  Limit = 2
  Window = 8
  Milli = 2
  Second = 4
  CleanupBatch = 1
  MaxWait = 2
  MaxClock = 10
SYMMETRY Symmetric
INVARIANTS
  WindowQuota
  RetryAfterHonest
PROPERTIES
  NoEarlyDenial
