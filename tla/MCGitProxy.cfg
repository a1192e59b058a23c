CONSTANTS
  c1 = c1
  c2 = c2
  t1 = t1
  t2 = t2
  b1 = b1
  b2 = b2
  g = g
  Clients = {q1, q2}
  Commits = {c1, c2}
  Tags = {g}
  Files = {t1, t2, b1, b2}
  Links <- MCLinks
  Kinds = {"full", "shallow"}
  MaxCached = 2
  MaxRestarts = 1
SPECIFICATION Spec
SYMMETRY Symmetry
CHECK_DEADLOCK FALSE
INVARIANTS
  
  
  CacheSuffices
  
