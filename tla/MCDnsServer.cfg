CONSTANTS
  Queries = {x, y}
  Actions = {"Allow", "Deny"}
  NServers = 2
SPECIFICATION DnsSpec
INVARIANTS
  FailsOver
  FitsClient

  
