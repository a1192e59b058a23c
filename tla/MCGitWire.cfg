CONSTANTS
  Cases <- MCCases
  Known <- MCKnown
  InStore = 0
  StoreSize = 5
  MaxPasses = 2
SPECIFICATION Spec
CHECK_DEADLOCK FALSE
INVARIANTS
  AsksTheSame
  PacketsJoin
  AcceptsWhole
  
PROPERTIES
  Returns
