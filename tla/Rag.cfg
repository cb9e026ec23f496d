\* Two documents and a search, MySQL or memory, all faults.
SPECIFICATION Spec
CONSTANTS
  d1 = d1
  d2 = d2
  s1 = s1
  text = text
  note = note
  Docs = {d1, d2}
  Searches = {s1}
  Contents = {text, note}
  Setups <- TwoSetups
  Faults <- AllFaults
INVARIANTS
  TypeOK
  ProgressIsOnRecord
  SearchIsTrue
  FailsClean
PROPERTIES
  LifecycleSpec
\* Finitely many requests are made.
CHECK_DEADLOCK FALSE
