\* Three submissions, two workers, one slot, a durable store that may fail.
SPECIFICATION Spec
CONSTANTS
  Tasks = {t1, t2, t3}
  Workers = {w1, w2}
  QueueSize = 1
  None = None
  Durable = TRUE
  Faults <- StoreAndCrash
SYMMETRY Symmetry
PROPERTY
  LifecycleSpec
INVARIANTS
  TypeOK
  AtMostOnce
  RefusedNeverRuns
  NoSilentOrphan
  VerdictIsTrue
  AcceptedHasRow
\* The clients make finitely many calls, then the server is idle.
CHECK_DEADLOCK FALSE
