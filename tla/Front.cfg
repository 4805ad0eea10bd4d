\* The limiter, an obedient client, and the entry.
SPECIFICATION Spec
CONSTANTS
  Keys = {k1, k2, k3}
  Servers = {s1, s2}
  Requests = {r1, r2, r3}
  Limit = 1
  CleanAt = 2
  MaxMinute = 2
  MaxLost = 1
  MaxCrashes = 1
  Second = 4
  Minute = 240
  Delays = {0, 1, 2, 5, 241}
  MaxTime = 600
  Visits = {q1, q2}
  Users = {u1}
  PerSecond = 2
  Environments <- SomeEnvironments
  LoginTime = 1
  MaxClock = 4
  MaxRestarts = 1
  MaxChanges = 1
SYMMETRY Symmetry
CHECK_DEADLOCK FALSE
INVARIANTS
  SharedBudget
  LocalBudget
  RefusalIsEarned
  FewStaleBuckets
  RefusedTwiceAtMost
  NoLongerThanNeeded
  ServedOnARecentRole
  
