SPECIFICATION Spec
CONSTANTS
  alice = alice
  bob = bob
  session = session
  read = read
  wire = wire
  drop = drop
  mail = mail
  x = x
  xs = xs
  y = y
  dx = dx
  dy = dy
  Threads = {t1, t2}
  Agents = {alice}
  Tools = {read, wire, drop, mail}
  Registered = {read, wire, drop, mail}
  NoAgent = NoAgent
  Args <- MCArgs
  Digests <- MCDigests
  ArgsDigest <- MCArgsDigest
  TokenIds = {k1}
  NoApproval = NoApproval
  Requests <- GateRequests
  ScopeAllows <- InScope
  ArgsAllowed <- WithinGrant
  Base <- MCBase
  Effects <- MCEffects
  BudgetKey <- OwnKey
  Features = {"handler"}
  Faults = {"policy", "handler", "tool"}
  Caps <- TwoCalls
  NoCap = NoCap
  Window = NoWindow
  NoWindow = NoWindow
  Reports = {}
  Ttls <- MCTtls
  NoTtl = NoTtl
  DefaultTtl = 1
  NoToken = NoToken
  Cooldown = 0
  NoTrip = NoTrip
  MaxDenials = 0
  MaxTime = 0
  MaxInvocations = 2
INVARIANTS
  AuditExact
PROPERTY
  ImplementsEnforcement
CHECK_DEADLOCK FALSE
