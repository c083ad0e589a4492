CHECK_DEADLOCK FALSE
SPECIFICATION Spec
CONSTANTS
  Ids = {1, 2, 3, 4, 5}
  Foreign = {2}
  Limit = 2
  Milli = 2
  MaxClock = 3
INVARIANTS
  EachOnce
  NoneSkipped
  PagesTile
