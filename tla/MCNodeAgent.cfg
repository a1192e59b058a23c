CONSTANTS
  s1 = s1
  s2 = s2
  s3 = s3
  u1 = u1
  u2 = u2
  x = x
  y = y
  g1 = g1
  UIDs = {u1, u2}
  IPs = {x, y}
  Grants = {g1}
  Unbound = Unbound
  Nil = Nil
  Sandboxes = {s1, s2, s3}
  Uid <- MCUid
  Addr <- MCAddr
  Annotation <- MCAnnotation
  Single = {s3}
  Stoppable = {s1, s2, s3}
  Bindable = {u2}
  Attempts = 2
  Faults <- AllFaults
  MaxFaults = 1
SPECIFICATION Spec
CHECK_DEADLOCK FALSE
INVARIANTS
  FailClosed
  ActiveLive
PROPERTIES
  Recovers
