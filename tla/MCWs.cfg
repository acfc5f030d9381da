CONSTANTS
  Requests = {a, b}
  None = None
SPECIFICATION Spec
INVARIANTS
  EstablishedIsRecorded
PROPERTIES
  SessionsEndOnce
CHECK_DEADLOCK FALSE
