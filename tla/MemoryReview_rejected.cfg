SPECIFICATION Spec
CONSTANTS
  Pid = {p1}
  NoPid = NoPid
  Edit = {e1}
  Deletes = FALSE
  LateFailures = FALSE
  MaxFaults = 1
CHECK_DEADLOCK FALSE
INVARIANTS RejectedIsOut
