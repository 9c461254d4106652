SPECIFICATION FairSpec
CONSTANTS
  Worker = {w1, w2}
  Closer = Closer
  Profile = {p1, p2}
  Attempt = {a1, a2}
  Free = Free
  MaxCalls = 3
\* The calls are used up and the runner is closed or nobody closes it.
CHECK_DEADLOCK FALSE
INVARIANTS NothingLeft OneTunnel PromiseKept
PROPERTIES EndsWell
