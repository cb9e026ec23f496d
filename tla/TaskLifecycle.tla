--------------------------- MODULE TaskLifecycle ---------------------------
(***************************************************************************)
(* What the gateway promises about the status column of an async task: the *)
(* word a client polls with GET /api/async-tasks/:id.  The row of a task   *)
(* moves forward along the lifecycle below and never leaves a terminal     *)
(* status; nothing skips "running" to reach a success or a timeout.  A     *)
(* store that lives in the process (MemoryStore) loses all rows at once    *)
(* when the process dies.                                                  *)
(***************************************************************************)
CONSTANTS Tasks,      \* the ids of the tasks
          Durable     \* TRUE for MySQLStore, FALSE for MemoryStore

VARIABLE status       \* status[t]: the word in the row of t, or "absent"

Terminal == {"success", "failed", "timeout"}

Status == {"absent", "pending", "running"} \cup Terminal

(* The statuses that may follow s.  "failed" follows "pending" when the    *)
(* queue was full.                                                         *)
Successors(s) ==
  CASE s = "absent"  -> {"pending"}
    [] s = "pending" -> {"running", "failed"}
    [] s = "running" -> Terminal
    [] OTHER         -> {}

Init == status = [t \in Tasks |-> "absent"]

Advance(t) == \E s \in Successors(status[t]) : status' = [status EXCEPT ![t] = s]

Wipe == ~Durable /\ status' = [t \in Tasks |-> "absent"]

Next == Wipe \/ \E t \in Tasks : Advance(t)

Spec == Init /\ [][Next]_status
=============================================================================
