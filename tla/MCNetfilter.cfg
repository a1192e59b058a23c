CONSTANTS
  MaxFaults = 3
  Settings <- MCSettings
SPECIFICATION PodSpec
INVARIANTS
  ConfiguredCloses
  AllowedNeverRejected
  CleanedRemoves
  
  WorkloadConfined
  StartsFiltered
  ProxyUnhindered
