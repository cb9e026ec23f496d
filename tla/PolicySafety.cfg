\* Three calls of one key, two per window; Redis errors and restarts.
SPECIFICATION FairSpec
CONSTANTS
  c1 = c1
  c2 = c2
  c3 = c3
  t = t
  Calls = {c1, c2, c3}
  User <- ThreeUsers
  Tool <- OneTool
  Limit = 2
  FailClosed = TRUE
  Faults <- RedisAndCrash
INVARIANTS
  TypeOK
  WindowBound
  ExceededMeansFull
  EveryCounterExpires
PROPERTIES
  FixedWindow
  FailClosedCounts
  RefusalEndsUnlessCut
\* Finitely many calls are made.
CHECK_DEADLOCK FALSE
