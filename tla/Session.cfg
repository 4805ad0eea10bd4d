\* Two tabs of one browser.
SPECIFICATION FairSpec
CONSTANTS
  Tabs = {t1, t2}
  Tokens = {k1, k2, k3, k4}
  MaxWaiting = 2
INVARIANTS
  LoginsAreShared
  NobodyWaitsInVain
PROPERTIES
  NavigationsEnd
