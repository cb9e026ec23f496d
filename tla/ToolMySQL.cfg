\* Two calls; MySQL fails and clients go away. No symmetry: checks liveness.
SPECIFICATION FairSpec
CONSTANTS
  Calls = {c1, c2}
  Durable = TRUE
  Faults <- StoreAndDisconnect
INVARIANTS
  TypeOK
  AuditHolds
  DeniedNeverRuns
  TimeoutIsDeadline
PROPERTY
  CallReturns
\* Finitely many calls are made.
CHECK_DEADLOCK FALSE
