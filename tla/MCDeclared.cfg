SPECIFICATION Spec
SYMMETRY ThreadSymmetry
CONSTANTS
  Wildcard = Wildcard
  HostsOf <- MCHosts
  api = api
  other = other
  t1 = t1
  t2 = t2
  Names = {"fetch", "browse"}
  Declarations <- MCDeclarations
  Inputs <- MCInputs
  Marks <- MCMarks
  RiskCeiling = 1
  No = No
  Anywhere = Anywhere
  Nothing = Nothing
  Nobody = Nobody
  Threads = {t1, t2}
  MaxUses = 3
  MaxSwitches = 1
INVARIANT WithinDeclared
CHECK_DEADLOCK FALSE
