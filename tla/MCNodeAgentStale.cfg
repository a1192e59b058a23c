CONSTANTS
  s1 = s1
  s2 = s2
  s3 = s3
  u1 = u1
  u2 = u2
  x = x
  y = y
  g1 = g1
  UIDs = {u1, u2}
  IPs = {x, y}
  Grants = {g1}
  Unbound = Unbound
  Nil = Nil
  Sandboxes = {s1, s2, s3}
  Uid <- MCUid
  Addr <- MCAddr
  Annotation <- MCAnnotation
  Single = {}
  Stoppable = {s1}
  Bindable = {}
  Attempts = 3
  Faults = {}
  MaxFaults = 0
SPECIFICATION Spec
CHECK_DEADLOCK FALSE
PROPERTIES
  Pruned
