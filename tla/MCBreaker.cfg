SPECIFICATION Spec
SYMMETRY ThreadSymmetry
CONSTANTS
  alice = alice
  bob = bob
  session = session
  read = read
  wire = wire
  drop = drop
  mail = mail
  x = x
  xs = xs
  y = y
  dx = dx
  dy = dy
  Threads = {t1, t2}
  Agents = {alice}
  Tools = {read}
  Registered = {read}
  NoAgent = NoAgent
  Args <- MCArgs
  Digests <- MCDigests
  ArgsDigest <- MCArgsDigest
  TokenIds = {}
  NoApproval = NoApproval
  Requests <- PlainRequests
  ScopeAllows <- InScope
  ArgsAllowed <- WithinGrant
  Base <- MCBase
  Effects <- MCEffects
  BudgetKey <- SessionKey
  Features = {"budget", "breaker", "trip_on_budget", "monitor"}
  Faults = {"sink"}
  Caps <- OneCallCap
  NoCap = NoCap
  Window = NoWindow
  NoWindow = NoWindow
  Reports <- OneToken
  Ttls <- MCTtls
  NoTtl = NoTtl
  DefaultTtl = 1
  NoToken = NoToken
  Cooldown = 1
  NoTrip = NoTrip
  MaxDenials = 1
  MaxTime = 1
  MaxInvocations = 3
INVARIANTS
  SpendBounded
  HaltRespected
PROPERTY
  ImplementsEnforcement
CHECK_DEADLOCK FALSE
CONSTRAINT OneTroubled
