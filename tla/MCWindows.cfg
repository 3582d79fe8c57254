SPECIFICATION AllSpec
CONSTANTS
  planner = planner
  worker = worker
  m1 = m1
  Wildcard = Wildcard
  d = d
  f = f
  h = h
  NoCap = NoCap
  Nothing = Nothing
  Threads = {t1, t2}
  HostsOf <- Hosts
  Ids = {m1}
  Agents = {planner, worker}
  Authority <- Authorities
  Requests <- Claimed
  Ttls = {0, 2}
  DefaultTtl = 1
  MaxTime = 3
  MaxAccepted = 2
  MonitoredAgents = {alice}
  Tools = {read, send}
  Decisions = {"allow", "deny"}
  Window = 1
  MaxCalls = 2
  MaxDenials = 2
  MaxSinks = 1
  SinkTools = {read, send}
  Baseline = {send}
  NoBaseline = NoBaseline
  Cooldown = 1
  NoTrip = NoTrip
  MonitorTime = 2
  MaxEvents = 3
  Keys = {alice, bob}
  Caps <- BudgetCaps
  Deltas <- Charges
  BudgetWindow = 1
  NoWindow = Nothing
  BudgetTime = 2
  MaxCharges = 3
INVARIANTS
  TypesOK
  WindowComplete
  SpendExact
  AcceptedOnceAsSent
PROPERTIES
  DetectionExact
  AnomalyHalts
  ChargesStand
CHECK_DEADLOCK FALSE
