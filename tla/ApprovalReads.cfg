\* One reader beside two writers of one approval.
SPECIFICATION ReadsSpec
CONSTANTS
  Approvals = {a1}
  Requests = {r1, r2}
  Callers = {"admin"}
  AheadVersions = {}
  Readers = {q1}
SYMMETRY RequestSymmetry
CHECK_DEADLOCK FALSE
INVARIANTS
  TimelineIsComplete
  StatusIsExplained
