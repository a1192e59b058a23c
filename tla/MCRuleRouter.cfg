CONSTANTS
  u1 = u1
  u2 = u2
  x = x
  h1 = h1
  h2 = h2
  ga = ga
  gb = gb
  Unbound = Unbound
  Nil = Nil
  Blank = Blank
  NoRule = NoRule
  UIDs <- MCUIDs
  IPs <- MCIPs
  Grants <- MCGrants
  Refs = {r1, r2, r3}
  Requests = {q1}
  Submissions <- MCSubmissions
  MaxList = 0
  Hosts <- MCHosts
  Extends <- MCExtends
  RuleNames = {"r1"}
  Tables <- MCTables
  Policy <- MCPolicy
SYMMETRY Symmetry
SPECIFICATION RouterSpec
INVARIANTS
  DecisionLinearizes
