SPECIFICATION RetrySpec
CONSTANTS
  Pid = {p1, p2}
  NoPid = NoPid
  Edit = {e1, e2}
  Deletes = TRUE
  LateFailures = FALSE
  MaxFaults = 3
\* Every proposal may be consumed, and then the gate has nothing left to do.
CHECK_DEADLOCK FALSE
PROPERTIES RefinesLedger Consumed
