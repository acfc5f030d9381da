CONSTANTS
  Parts = {"execute", "http", "jar", "streams", "consent", "mock", "shell", "files", "store", "mqtt", "certs", "cli", "environments"}
  Requests = {a, b}
  NoValue = NoValue
  MaxScripts = 1
  MAX_REDIRECTS = 2
  Hosts = {"h"}
  Saves = {v1, v2}
  MaxTime = 1
  StreamKinds = {"ws", "grpc", "mqtt", "mcp", "gql"}
  Calls = {c1, c2}
  NoCall = NoCall
  CommandLines = {l1, l2}
  Url = Url
  Runs = {n1, n2}
  Literals = {"a", "b"}
  MaxSegments = 2
  MockedFiles = 2
  Servers = {s1, s2}
  NoServer = NoServer
  Roots = {r1, r2}
  NoRoot = NoRoot
  Starts = {t1, t2}
  Updates = {u1, u2}
  Handlers = {h1, h2}
  Given = Given
  NoDocument = NoDocument
  RECORDED_CAP = 1
  Found = 1
  MaxLines = 7
  Uncounted = Uncounted
  Sessions = {m1, m2}
  NoSession = NoSession
  CertCalls = {k1, k2}
  NoPem = NoPem
  TornPem = TornPem
  MaxItems = 2
  MaxSteps = 2
  EnvNames = {"dev", "prod"}
  FirstEnv = "dev"
  MaxEnvEdits = 1
  MaxEnvOps = 1
  NoEnvFile = "none"
SPECIFICATION MainSpec
SYMMETRY Symmetry
CONSTRAINT BeforeSlips
INVARIANTS
  ExecutionsKeepApart
  RedirectsKeepTheRequest
  JarIsKept
  
  
  
  
  
  StoreStaysBounded
  CertsStandUp
  CliEndsClean
  EditorShowsItsOwnFile
 
CHECK_DEADLOCK FALSE
