SPECIFICATION Spec
CONSTANTS
  alice = alice
  bob = bob
  session = session
  read = read
  wire = wire
  drop = drop
  mail = mail
  x = x
  xs = xs
  y = y
  dx = dx
  dy = dy
  Threads = {t1, t2}
  Agents = {alice, bob}
  Tools = {read}
  Registered = {read}
  NoAgent = NoAgent
  Args <- MCArgs
  Digests <- MCDigests
  ArgsDigest <- MCArgsDigest
  TokenIds = {}
  NoApproval = NoApproval
  Requests <- PlainRequests
  ScopeAllows <- InScope
  ArgsAllowed <- WithinGrant
  Base <- MCBase
  Effects <- MCEffects
  BudgetKey <- SessionKey
  Features = {"budget", "breaker", "trip_on_budget"}
  Faults = {}
  Caps <- TwoCalls
  NoCap = NoCap
  Window = NoWindow
  NoWindow = NoWindow
  Reports <- OneToken
  Ttls <- MCTtls
  NoTtl = NoTtl
  DefaultTtl = 1
  NoToken = NoToken
  Cooldown = 0
  NoTrip = NoTrip
  MaxDenials = 0
  MaxTime = 0
  MaxInvocations = 3
PROPERTY
  OverspendHaltsAgent
CHECK_DEADLOCK FALSE
