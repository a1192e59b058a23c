CONSTANTS
  Callers = {a, b}
  Keys = {k}
  Values = {v1, v2}
  NoFile = NoFile
  defaultTTL = 1
  MaxTime = 4
  MaxRemovers = 2
  MaxCrashes = 1
SPECIFICATION DiskSpec
CHECK_DEADLOCK FALSE
INVARIANTS
  HoldsLastPut

  
