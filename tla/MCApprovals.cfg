SPECIFICATION Spec
SYMMETRY Symmetric
CONSTANTS
  alice = alice
  bob = bob
  session = session
  read = read
  wire = wire
  drop = drop
  mail = mail
  x = x
  xs = xs
  y = y
  dx = dx
  dy = dy
  Threads = {t1, t2}
  Agents = {alice, bob}
  Tools = {wire}
  Registered = {wire}
  NoAgent = NoAgent
  Args <- MCArgs
  Digests <- MCDigests
  ArgsDigest <- MCArgsDigest
  TokenIds = {k1, k2}
  NoApproval = NoApproval
  Requests <- ApprovalRequests
  ScopeAllows <- InScope
  ArgsAllowed <- WithinGrant
  Base <- MCBase
  Effects <- MCEffects
  BudgetKey <- OwnKey
  Features = {"store"}
  Faults = {}
  Caps <- TwoCalls
  NoCap = NoCap
  Window = NoWindow
  NoWindow = NoWindow
  Reports = {}
  Ttls <- MCTtls
  NoTtl = NoTtl
  DefaultTtl = 1
  NoToken = NoToken
  Cooldown = 0
  NoTrip = NoTrip
  MaxDenials = 0
  MaxTime = 1
  MaxInvocations = 4
INVARIANTS
  TypeOK
  RunsAccounted
PROPERTY
  RetryHonoured
  ImplementsEnforcement
CHECK_DEADLOCK FALSE
