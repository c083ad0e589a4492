SPECIFICATION Spec
CONSTANTS
  r1 = r1
  r2 = r2
  r3 = r3
  r4 = r4
  r5 = r5
  i1 = i1
  i2 = i2
  Requests = {r1, r2, r3, r4, r5}
  Identities = {i1}
  IdentityOf <- OneClient
  Limit = 2
  Interval = 3
  Milli = 2
  Second = 4
  CleanupBatch = 1
  MaxWait = 3
  MaxClock = 6
SYMMETRY Symmetric
INVARIANTS
  Conformance
  RetryAfterHonest
PROPERTIES
  NoEarlyRefusal
