\* Every approval can be deleted.
SPECIFICATION FairSpec
CONSTANTS
  users = users
  approvals = approvals
  u1 = u1
  s1 = s1
  s2 = s2
  c1 = c1
  Tables <- TwoTables
  SeedCodes <- SeedsOfTwo
  UserCodes <- ClientsOfTwo
  Deletable = {s1, s2, c1}
  MaxAttempts = 3
  MaxStops = 1
CHECK_DEADLOCK FALSE
PROPERTIES
  ComesBack
