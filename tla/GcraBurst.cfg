SPECIFICATION Spec
CONSTANTS
  r1 = r1
  r2 = r2
  r3 = r3
  r4 = r4
  r5 = r5
  i1 = i1
  i2 = i2
  Requests = {r1, r2, r3}
  Identities = {i1, i2}
  IdentityOf <- TwoClients
  Limit = 2
  Interval = 1
  Milli = 1
  Second = 1
  CleanupBatch = 1
  MaxWait = 3
  MaxClock = 2
INVARIANTS
  BurstAdmitted
