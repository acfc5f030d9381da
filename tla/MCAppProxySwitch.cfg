CONSTANTS
  Calls = {c1}
  Roots = {r1, r2}
  Ports = {p1}
  None = None
SPECIFICATION Spec
SYMMETRY Symmetry
INVARIANT RecordsIntoOpenCollection
CHECK_DEADLOCK FALSE
