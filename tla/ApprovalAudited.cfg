\* A server or database failure between the transition and its audit entry.
SPECIFICATION Spec
CONSTANTS
  Approvals = {a1}
  Requests = {r1}
  Callers = {"operator"}
  AheadVersions = {}
CHECK_DEADLOCK FALSE
INVARIANTS
  StatusChangesAreAudited
