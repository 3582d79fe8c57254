SPECIFICATION Spec
SYMMETRY Symmetry
CONSTANTS
  x = x
  xs = xs
  y = y
  dx = dx
  dy = dy
  TokenIds = {k1, k2}
  AgentIds = {alice, bob}
  ToolNames = {wire}
  Args <- MCArgs
  Digests <- MCDigests
  ArgsDigest <- MCArgsDigest
  Ttls <- MCTtls
  NoTtl = NoTtl
  NoToken = NoToken
  DefaultTtl = 1
  MaxTime = 1
  MaxOverwritten = 1
  MaxGrants = 2
INVARIANTS
  TypeOK
  GrantAuthorized
  SpentOnOneCall
PROPERTY
  VerdictFinal
