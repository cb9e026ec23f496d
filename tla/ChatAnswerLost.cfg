\* A store error while the answer is stored.
SPECIFICATION Spec
CONSTANTS
  c1 = c1
  c2 = c2
  q = q
  Chats = {c1, c2}
  Question <- OneRetry
  NoSession = NoSession
  Stray = Stray
  Setups <- MySQLAndModel
  Faults <- OnlyStore
INVARIANTS
  AnsweredHasBothMessages
\* Finitely many requests are made.
CHECK_DEADLOCK FALSE
