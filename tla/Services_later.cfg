\* Each of them comes to its end: an answer, the last call, a verdict, the horizon.
SPECIFICATION Spec
CONSTANTS
  Id = {"a", "b"}
  NoId = "no id"
  Flaws = {{}}
  Retries = 2
  Status = {302, 400, 401, 413, 429, 500, 529}
  MaxBatch = 2
  MaxAsks = 3
  MaxEdits = 3
  MaxCalls = 2
  MaxCrashes = 1
  MaxPieces = 6
  HourLen = 2
  DayLen = 6
  Week = 2
  Year <- SmallYear
  Expressions <- SmallExpressions
  Malformed = Malformed
  Zones <- SmallZones
  Horizon = 30
  Never = Never
CHECK_DEADLOCK FALSE
INVARIANT NextIsLater
