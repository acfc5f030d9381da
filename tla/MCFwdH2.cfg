CONSTANTS
  Requests = {a, b}
  None = None
SPECIFICATION Spec
INVARIANTS
  SuccessIsWhole
PROPERTIES
  KeepsOneExchange
CHECK_DEADLOCK FALSE
