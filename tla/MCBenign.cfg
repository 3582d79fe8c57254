SPECIFICATION Spec
CONSTANTS
  alice = alice
  bob = bob
  session = session
  read = read
  wire = wire
  drop = drop
  mail = mail
  x = x
  xs = xs
  y = y
  dx = dx
  dy = dy
  Threads = {t1, t2}
  Agents = {alice}
  Tools = {read}
  Registered = {read}
  NoAgent = NoAgent
  Args <- MCArgs
  Digests <- MCDigests
  ArgsDigest <- MCArgsDigest
  TokenIds = {}
  NoApproval = NoApproval
  Requests <- PlainRequests
  ScopeAllows <- InScope
  ArgsAllowed <- WithinGrant
  Base <- MCBase
  Effects <- MCEffects
  BudgetKey <- OwnKey
  Features = {"monitor", "breaker"}
  Faults = {}
  Caps <- TwoCalls
  NoCap = NoCap
  Window = NoWindow
  NoWindow = NoWindow
  Reports = {}
  Ttls <- MCTtls
  NoTtl = NoTtl
  DefaultTtl = 1
  NoToken = NoToken
  Cooldown = 0
  NoTrip = NoTrip
  MaxDenials = 2
  MaxTime = 0
  MaxInvocations = 3
INVARIANTS
  BenignNotHalted
CHECK_DEADLOCK FALSE
