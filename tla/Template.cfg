CHECK_DEADLOCK FALSE
SPECIFICATION Spec
CONSTANTS
  Garbled = Garbled
  Bad = Bad
  Unset = Unset
  SourceText = SourceText
  Origin = "acme/api"
  Source <- MCSource
  Derived <- MCDerived
  AfterReplace <- MCAfterReplace
  Dotted = {"../api"}
  Commands <- MCCommands
  Starts <- MCStarts
  MaxRuns = 3
INVARIANTS
  SuccessComplete
  FailureRestores
  WholeFiles
  DoctorFindsHalf
  DoctorAccepts
