SPECIFICATION Spec
CONSTANTS
  Creates = {c1, c2}
  Deletes = {d1}
  Patches = {p1}
  Keys = {k1}
  NoKey = NoKey
  b1 = b1
  b2 = b2
  e1 = e1
  e2 = e2
  Payloads = {b1, b2}
  Emails = {e1, e2}
  EmailOf <- MCEmailOf
  UserIds = {u1, u2}
  NoUser = NoUser
  Preconditions <- AllPreconditions
  TTL = 1
  MaxAttempts = 2
  ClaimAttempts = 1
  CleanupBatch = 1
  MaxClock = 1
  MaxFaults = 1
SYMMETRY Symmetric
INVARIANTS
  LedgerComplete
  AnswersOwnUser
  AnnouncedOnce
  NoLostUpdate
PROPERTIES
  KeyBinding
