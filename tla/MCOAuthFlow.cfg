CONSTANTS
  Flows = {f, g}
  Tabs = {t, u}
  None = None
SPECIFICATION Spec
INVARIANTS
  OpenOrClean
PROPERTIES
  SettlesOnce
  FlowsEndWell
CHECK_DEADLOCK FALSE
