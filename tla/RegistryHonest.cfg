\* Clients name only versions they were shown.
SPECIFICATION Spec
CONSTANTS
  Requests = {r1, r2, r3}
  Callers = {"viewer", "operator", "admin"}
  AheadVersions = {}
SYMMETRY RequestSymmetry
CHECK_DEADLOCK FALSE
INVARIANTS
  TypeOK
  SerialVersions
  AuditsAreTrue
  AnswersTellTheEffect
PROPERTIES
  RefinesLifecycle
