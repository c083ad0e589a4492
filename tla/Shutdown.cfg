CHECK_DEADLOCK FALSE
SPECIFICATION FairSpec
CONSTANTS
  s1 = s1
  s2 = s2
  h1 = h1
  p1 = p1
  p2 = p2
  Signals = {s1, s2}
  NoSignal = NoSignal
  Requests = {h1}
  Probes = {p1, p2}
  Resources = 3
  Database = 3
INVARIANTS
  OneLiveQuery
  RequestsSpared
  ClosedInReverse
  ExitHonest
  NotReadyOnceSignalled
PROPERTIES
  SignalExits
  ProbeAnswered
