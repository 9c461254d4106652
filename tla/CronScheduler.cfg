SPECIFICATION FairSpec
CONSTANTS
  Job = {j1, j2}
  Kinds = {"at", "every"}
  Never = Never
  Period = 1
  MaxTime = 2
  MaxGen = 2
  MaxTriggers = 1
  MaxFaults = 2
INVARIANTS RunsAccounted
PROPERTIES DeletedNotStarted DueRuns
CHECK_DEADLOCK FALSE
