CONSTANTS
  Requests = {a, b}
  None = None
SPECIFICATION Spec
INVARIANTS
  OverIsRecorded
  RecordTellsTheTruth
PROPERTIES
  KeepsOneExchange
  AllIsRecordedInTime
CHECK_DEADLOCK FALSE
