SPECIFICATION Spec
CONSTANTS
  Wildcard = Wildcard
  planner = planner
  worker = worker
  d = d
  f = f
  h = h
  HostsOf <- MCHosts
  Threads = {t1, t2}
  Ids = {m1}
  Agents = {planner, worker}
  Authority <- MCAuthority
  Requests <- MCRequests
  Ttls = {0, 2}
  DefaultTtl = 1
  Nothing = Nothing
  MaxTime = 3
  MaxAccepted = 2
INVARIANT SingleUse
CHECK_DEADLOCK FALSE
