\* Four rows in up to three seconds, every list of both stores.
SPECIFICATION Spec
CONSTANTS
  r1 = r1
  r2 = r2
  r3 = r3
  r4 = r4
  NoNumber = NoNumber
  Rows = {r1, r2, r3, r4}
  Setups <- AllLists
  MaxClock = 3
  DefaultLimit = 2
  MaxLimit = 3
  Limits <- SomeLimits
  Offsets <- AnyOffset
SYMMETRY AlikeRows
INVARIANTS
  PagesAreRight
\* The rows end.
CHECK_DEADLOCK FALSE
