---------------------------- MODULE MCAsyncTasks ----------------------------
(* Small instances of AsyncTasks for TLC. *)
EXTENDS AsyncInvariant, TLC

StoreAndCrash == {"store", "crash"}
OnlyStore == {"store"}
OnlyCrash == {"crash"}

\* The tasks are interchangeable, and so are the workers (safety runs only).
Symmetry == Permutations(Tasks) \cup Permutations(Workers)
=============================================================================
