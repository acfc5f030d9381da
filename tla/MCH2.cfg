CONSTANTS
  Targets = {old, new}
  SpeaksH2 = {new}
  Streams = {s1, s2, s3}
  Probes = {p1, p2, p3}
  MaxRuns = 2
  None = None
SPECIFICATION Spec
INVARIANTS
  ProbesTellTheTarget
PROPERTIES
  AskersGetOneAnswer
CHECK_DEADLOCK FALSE
