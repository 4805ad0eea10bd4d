\* One seed row per table is never deleted.
SPECIFICATION FairSpec
CONSTANTS
  users = users
  approvals = approvals
  u1 = u1
  s1 = s1
  s2 = s2
  c1 = c1
  Tables <- TwoTables
  SeedCodes <- SeedsOfTwo
  UserCodes <- ClientsOfTwo
  Deletable = {s2, c1}
  MaxAttempts = 3
  MaxStops = 2
CHECK_DEADLOCK FALSE
INVARIANTS
  TypeOK
  ServesSeededTables
PROPERTIES
  DeletedStaysDeleted
  ComesBack
