CHECK_DEADLOCK FALSE
SPECIFICATION FairSpec
CONSTANTS
  Milli = 2
  Timeout = 13
  AttemptTimeout = 5
  MaxRetries = 2
  BaseDelay = 1
  MaxDelay = 2
  RetryAfters = {0, 3, 50}
  NoHeader = NoHeader
  MaxLate = 1
INVARIANTS
  DeadlineKept
  SentAgainSafely
PROPERTIES
  RetryAfterKept
  Answered
