CONSTANTS
  u1 = u1
  u2 = u2
  a = a
  x = x
  g1 = g1
  g2 = g2
  Unbound = Unbound
  Nil = Nil
  Blank = Blank
  UIDs <- MCUIDs
  IPs <- MCIPs
  Grants <- MCGrants
  Refs = {r1, r2, r3, r4}
  Requests = {q1}
  Submissions <- MCSubmissions
  MaxList = 2
SYMMETRY Symmetry
SPECIFICATION Spec
INVARIANTS
  IndexCoherent
  ExclusiveIPIndexed
PROPERTIES
  GrantStable
  UnbindReverts
  SyncPrunes
  RegistrySpec
