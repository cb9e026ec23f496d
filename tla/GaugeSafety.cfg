\* Four submissions, two workers, two slots.
SPECIFICATION Spec
CONSTANTS
  j1 = j1
  j2 = j2
  j3 = j3
  j4 = j4
  w1 = w1
  w2 = w2
  Submissions = {j1, j2, j3, j4}
  Workers = {w1, w2}
  QueueSize = 2
SYMMETRY AlikeActors
INVARIANTS
  GaugeIsRecent
  ActiveIsExact
\* The submissions end.
CHECK_DEADLOCK FALSE
