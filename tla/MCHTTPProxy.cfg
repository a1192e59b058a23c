CONSTANTS
  slow = slow
  quick = quick
  plain = plain
  Clients = {a, b}
  Rules = {slow, quick, plain}
  URLs = {u}
  TTL <- MCTTL
  NoItem = NoItem
  MaxVersion = 1
  MaxSigned = 2
SPECIFICATION Spec
INVARIANTS
  WithinTTL
  OneCertificate
PROPERTIES
  Converges
