SPECIFICATION Spec
CONSTANTS
  Pid = {p1, p2}
  NoPid = NoPid
  Edit = {e1, e2}
  Deletes = TRUE
  LateFailures = TRUE
  MaxFaults = 3
\* Every proposal may be consumed, and then the gate has nothing left to do.
CHECK_DEADLOCK FALSE
SYMMETRY Symmetry
INVARIANTS MergedAsReviewed LostOnlyInGap
