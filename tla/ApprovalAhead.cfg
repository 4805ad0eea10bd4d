\* Clients may also name versions they were never shown.
SPECIFICATION Spec
CONSTANTS
  Approvals = {a1}
  Requests = {r1, r2, r3}
  Callers = {"operator", "reviewer", "admin"}
  AheadVersions = {2, 3}
SYMMETRY RequestSymmetry
CHECK_DEADLOCK FALSE
INVARIANTS
  SerialVersions
  AnswersTellTheEffect
  NobodyElseDecides
