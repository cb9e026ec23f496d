\* Progress of the workers while the durable store fails and the process
\* restarts. No symmetry: this run checks liveness.
SPECIFICATION FairSpec
CONSTANTS
  Tasks = {t1, t2, t3}
  Workers = {w1}
  QueueSize = 1
  None = None
  Durable = TRUE
  Faults <- StoreAndCrash
PROPERTIES
  AcceptedFinishes
\* The clients make finitely many calls, then the server is idle.
CHECK_DEADLOCK FALSE
