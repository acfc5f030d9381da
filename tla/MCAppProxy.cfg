CONSTANTS
  Calls = {c1, c2}
  Roots = {r1, r2}
  Ports = {p1}
  None = None
SPECIFICATION Spec
INVARIANTS
  RecordsElsewhereOnlyAfterMovedStart
  FailedStartLeavesNothing
  ListenersAccountedFor
  StoppedIsSilent
PROPERTIES
  CallsSettle
CHECK_DEADLOCK FALSE
