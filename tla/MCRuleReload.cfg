CONSTANTS
  h1 = h1
  h2 = h2
  NFiles = 2
  Hosts = {h1, h2}
  Contents <- MCContents
  Absent = Absent
  Bad = Bad
  NoRule = NoRule
  MaxEdits = 3
SPECIFICATION ReloadSpec
CHECK_DEADLOCK FALSE
PROPERTIES
  AllOrNothing
  ReloadConverges
