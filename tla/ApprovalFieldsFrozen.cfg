\* A client sends an update right behind a transition, naming the version the
\* transition will store.
SPECIFICATION Spec
CONSTANTS
  Approvals = {a1}
  Requests = {r1, r2}
  Callers = {"operator"}
  AheadVersions = {2}
SYMMETRY RequestSymmetry
CHECK_DEADLOCK FALSE
PROPERTIES
  FieldsFrozenAfterReviewStarts
