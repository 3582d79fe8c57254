SPECIFICATION MCSpec
SYMMETRY ThreadSymmetry
CONSTANTS
  t1 = t1
  t2 = t2
  Wildcard = Wildcard
  lead = lead
  sub = sub
  acme = acme
  other = other
  cat = cat
  put = put
  docs = docs
  f = f
  site = site
  g = g
  Anywhere = Anywhere
  No = No
  Nobody = Nobody
  k = k
  page = page
  note = note
  token = token
  alice = alice
  fetch = fetch
  send = send
  web = web
  Key = Key
  Absent = Absent
  Nothing = Nothing
  HostsOf <- MCHosts
  AgentIds = {lead, sub}
  Tenants = {acme, other}
  RoleSets = {{}}
  ExpectedTenant = acme
  Grants <- MCGrants
  Tools = {cat, put}
  ToolSpecs <- MCToolSpecs
  ScopeBodies <- MCScopes
  Calls <- MCCalls
  Ttls = {1, 2}
  NoTtl = NoTtl
  DefaultTtl = 1
  MaxDepth = 1
  NoSig = NoSig
  NoScope = NoScope
  MaxTime = 1
  MaxRoots = 1
  MaxMinted = 3
  MaxAgents = 1
  MaxScopes = 1
  MaxActs = 1
  Names <- HubNames
  Declarations <- HubDeclarations
  Inputs <- HubInputs
  Marks <- HubMarks
  RiskCeiling = 1
  Threads = {t1, t2}
  MaxUses = 3
  MaxSwitches = 1
  Conditions <- MCConditions
  Contents = {page, note, token}
  FlowTools <- MCFlowTools
  Invocations <- MCInvocations
  TrustNames = {"none", "trusted", "untrusted_web"}
  FlowRules <- MCFlowRules
  Detectors = {"prompt_injection"}
  Tags <- MCTags
  Default <- MCDefault
  Modes = {"label", "deny"}
  MinTrust = 2
  Keys = {k}
  MemoryLabels <- MCMemoryLabels
  MaxOps = 3
  EngineRules <- MCEngineRules
  Defaults = {"allow", "require_approval"}
  NewRules <- MCNewRules
  Contexts <- MCContexts
  EngineTime = 2
  MaxEngines = 2
  MaxRules = 3
  MaxCalls = 3
  Customers = {acme, other}
  Credentials = {acme, other, web}
  ApiKeys <- MCApiKeys
  Published <- MCPublished
  Customer = acme
  Credential = acme
  MaxPushes = 2
  MaxFetches = 3
  GuardNames = {"fetch", "browse"}
  GuardDeclarations <- MCGuardDeclarations
  Held <- MCHeld
  Values = {page}
  MaxGuards = 2
  GuardOps = 3
INVARIANTS
  TypesOK
  WithinRoot
  TaintKept
  FlowsFound
  DenyOverrides
  RateBounded
  PoliciesAsPublished
  HubKeepsScope
  GuardsAgree
PROPERTY NoTaintedCall
CHECK_DEADLOCK FALSE
