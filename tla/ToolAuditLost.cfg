\* A client that goes away before the audit is written.
SPECIFICATION Spec
CONSTANTS
  Calls = {c1, c2}
  Durable = TRUE
  Faults <- OnlyDisconnect
INVARIANT
  EveryCallAudited
\* Finitely many calls are made.
CHECK_DEADLOCK FALSE
