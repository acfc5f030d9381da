CONSTANTS
  AppExecs = {a, b}
  CliExecs = {c}
  SignIns = {s}
  Old = Old
  None = None
  Torn = Torn
SPECIFICATION Spec
SYMMETRY Symmetry
INVARIANTS
  CacheStaysRefreshable
  
CHECK_DEADLOCK FALSE
