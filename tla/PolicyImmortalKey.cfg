\* A restart may come between INCR and EXPIRE.
SPECIFICATION FairSpec
CONSTANTS
  c1 = c1
  c2 = c2
  c3 = c3
  t = t
  Calls = {c1, c2, c3}
  User <- ThreeUsers
  Tool <- OneTool
  Limit = 2
  FailClosed = TRUE
  Faults <- OnlyCrash
PROPERTY
  RefusalIsTemporary
\* Finitely many calls are made.
CHECK_DEADLOCK FALSE
