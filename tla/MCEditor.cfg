CONSTANTS
  Parts = {"sandbox", "captures", "frames", "variables", "workflows", "text", "form", "workbench"}
  MaxCalls = 3
  MaxWire = 6
  MAX_VARINT_BYTES = 2
  MAX_DEPTH = 2
  PreviewCap = 4
  HeaderLength = 2
  GRPC_MESSAGE_CAP = 2
  PROXY_BODY_CAP = 3
  MaxByte = 2
  MaxStream = 7
  Names = {"A", "B", "C"}
  Outer = {"A", "B"}
  Levels = 2
  RequestPaths = {p1, p2}
  MaxSteps = 2
  DataFiles <- SomeDataFiles
  WordTokens = 5
  CurlTokens = 4
  McpTokens = 5
  MaxTyped <- TypedBound
  MaxEdits = 2
  Collections = {r1, r2}
  TabPaths = {t1, t2}
  MaxTouches = 1
  MaxLoads = 2
  Nothing = Nothing
SPECIFICATION EditorSpec
SYMMETRY Symmetry
INVARIANTS
  
  CapturesTellNoLies
  SentAsConfigured
  WorkflowTellsTheRun
  
  
  
CHECK_DEADLOCK FALSE
