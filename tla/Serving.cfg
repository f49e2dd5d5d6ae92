SPECIFICATION Spec
CONSTANTS
  r1 = r1  r2 = r2  r3 = r3  q1 = q1  q2 = q2  q3 = q3  q4 = q4  q5 = q5
  h1 = h1  h2 = h2  h3 = h3  h4 = h4  s1 = s1  s2 = s2  s3 = s3  k1 = k1  k2 = k2  k3 = k3
  None = None
  Parts = {"mllm", "draft", "simple", "http", "mcp", "rate", "owners", "weights", "warm"}
  MllmReqs = {r1, r2, r3}  WithImages = {r3}  MllmSeqs = 2  BatchCap = 2  MllmTokens = 2
  MllmFaults = {"preprocess", "prefill"}
  DdSeqs = {s1, s2, s3}  DdLen <- MCLen  DdHits <- MCHits  DdBoundary <- MCBoundary
  DdBudget = 2  DdInterval = 2  DdTokens = 3  DdModes <- MCSoundModes
  SimpleReqs = {q1, q2, q3, q4}  RouteOf <- MCRoute  SystemOf <- MCSystem  SpecOn = {q2, q4}
  SimpleLen = 2  SimpleMax = 2  SimpleStop = 1  SimpleCancels = 1
  SimpleFaults = {"prefill", "model"}
  HttpReqs = {h1, h2, h3, h4}  HttpKind <- MCKind  PrevOf <- MCPrev  StoreSize = 1
  PrepareFails = {"plain", "stream"}  HttpFaults = {"engine", "dropped"}
  McpServers = {"files"}  McpCalls = {k1, k2, k3}  ServerOf <- MCServerOf  MaxParallel = 1
  CallsPerWindow = 1  Window = 2  McpClock = 2  AuditSize = 1
  McpFaults = {"connect", "discover"}
  ApiClients = {"client"}  PerMinute = 2  Minute = 2  OpClock = 10
  Engines = {"first", "second", "third"}  ModelOf <- MCModelOf  Forced = FALSE
  WeightNames = {"w", "b"}  WeightVersions = {1}
  WarmPrompts <- MCWarmPrompts  UserTexts <- MCUserTexts  WarmClears = 2
INVARIANTS ServingTypeOK MllmServed  SimpleServed   
CHECK_DEADLOCK FALSE
