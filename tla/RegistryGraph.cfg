\* A client sends an update right behind a transition, naming the version the
\* transition will store.
SPECIFICATION Spec
CONSTANTS
  Requests = {r1, r2}
  Callers = {"operator"}
  AheadVersions = {2}
SYMMETRY RequestSymmetry
CHECK_DEADLOCK FALSE
PROPERTIES
  StatusFollowsTheGraph
