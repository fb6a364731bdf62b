SPECIFICATION SoakSpec
CONSTANTS
  a = a  b = b
  Addresses <- MCAddresses
  Probe = {b}
  Target = {0, 3}
  Fast = {TRUE, FALSE}
  Rounds = 2
  MinUnique = 1
  Burst = 1
  MAX_EMPTY = 2
  FINALITY_ATTEMPTS = 1
  BARREN_LIMIT = 2
  NoFile = NoFile
  MaxTime = 5
  MaxSessions = 3
INVARIANT PassMeansNoDifference
CHECK_DEADLOCK FALSE
