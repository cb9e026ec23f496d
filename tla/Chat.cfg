\* One question asked at most twice; both stores, both models, all faults.
SPECIFICATION FairSpec
CONSTANTS
  c1 = c1
  c2 = c2
  q = q
  Chats = {c1, c2}
  Question <- OneRetry
  NoSession = NoSession
  Stray = Stray
  Setups <- AllSetups
  Faults <- AllFaults
INVARIANTS
  TypeOK
  TranscriptIsTrue
  RunsAgainOnlyIfAnswerLost
PROPERTIES
  ChatReturns
\* Finitely many requests are made.
CHECK_DEADLOCK FALSE
