\* Clients name only versions they were shown.
SPECIFICATION Spec
CONSTANTS
  Approvals = {a1}
  Requests = {r1, r2, r3}
  Callers = {"operator", "reviewer", "admin"}
  AheadVersions = {}
SYMMETRY RequestSymmetry
CHECK_DEADLOCK FALSE
INVARIANTS
  TypeOK
  StatusMatchesLatestOpinion
  DecisionsAreReviewed
  AuditsAreTrue
  ReadsAreFresh
PROPERTIES
  ApprovedIsFinal
  RefinesLifecycle
