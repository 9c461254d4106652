SPECIFICATION Spec
CONSTANTS
  a = a
  b = b
  Sig = {a, b}
  Stub <- StubMC
  Bare = {}
  MaxIter = 3
  Reserve = 1
  Repeats = 2
  Budget = 1
  MaxBatch = 2
  MaxCalls = 4
  MaxRuns = 2
  RepeatIds = FALSE
\* MaxRuns bounds the submissions: after the last one nothing happens any more.
CHECK_DEADLOCK FALSE
INVARIANTS EffectsAccounted CacheSound HistoryConsistent
  CancelStops AnswersFollowQuestions
PROPERTIES SavedNeverRepeated TurnEnds
