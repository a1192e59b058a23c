SPECIFICATION Spec
CONSTANTS
  Pods = {p, q}
  Nobody = Nobody
  Dead = Dead
  MaxCA = 6
  MaxFaults = 2
  MaxRollouts = 2
INVARIANTS
  SignsWithTrusted
  SocketOwned
  RecoversBeforeKey
PROPERTIES
  ComesUp
CHECK_DEADLOCK FALSE
