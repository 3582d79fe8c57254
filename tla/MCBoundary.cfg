SPECIFICATION MCSpec
CONSTANTS
  ServerOrder <- MCServers
  Names = {n1}
  Definitions <- MCDefinitions
  Nothing = Nothing
  BlockAt = 3
  Signed = TRUE
  Required = TRUE
  Threads = {handler}
  Faults = {"list", "call"}
  Bounds <- MCBounds
  Handlers = {c1, c2}
  NoThread = NoThread
  KeySets <- MCKeySets
  Algorithms = {"EdDSA"}
  Tokens <- MCTokens
  NoToken = NoToken
  NoKid = NoKid
  Audience = api
  RequiredScopes = {}
  Leeway = 0
  CacheTtl = 1
  Down = Down
  Settings <- MCSettings
  Metadata <- MCMetadata
  MaxTime = 1
  MaxRequests = 2
  Callers = {c1, c2}
  MaxCalls = 2
  MaxLines = 2
  MaxNoise = 2
  Emitters = {t1, t2}
  AuditFaults = {"disk", "network", "crash"}
  MaxEvents = 3
  MaxCrashes = 1
  Main = Main
  Children = {p1, p2}
  Backends = {"subprocess", "docker", "deny"}
  a = a
  b = b
  kidA = kidA
  kidB = kidB
  api = api
  left = left
  right = right
  n1 = n1
INVARIANTS
  TypesOK
  OnlyVettedRuns
  ExposedServed
  AnswerMatches
  HandledGenuine
  FileVerifies
  MirrorAccounted
  RunContained
PROPERTY NobodyWaitsForEver
CHECK_DEADLOCK FALSE
