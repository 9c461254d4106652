SPECIFICATION Spec
CONSTANTS
  a = a
  b = b
  Sig = {a, b}
  Stub <- StubMC
  Bare = {}
  MaxIter = 3
  Reserve = 1
  Repeats = 3
  Budget = 1
  MaxBatch = 2
  MaxCalls = 4
  MaxRuns = 2
  RepeatIds = FALSE
CHECK_DEADLOCK FALSE
INVARIANT ResumeNeverRepeats
