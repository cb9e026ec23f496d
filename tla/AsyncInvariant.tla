--------------------------- MODULE AsyncInvariant ---------------------------
(***************************************************************************)
(* The inductive strengthening of the safety properties of AsyncTasks, in  *)
(* three layers: who holds a task, what its row may say, and whether the   *)
(* verdict is true.  Checked by TLC, proved in AsyncTasks_proofs.          *)
(***************************************************************************)
EXTENDS AsyncTasks

(* The channel holds a task once and workers never share one; held tasks   *)
(* were accepted, and a tool has not started before its worker is past the *)
(* policy check.                                                           *)
Ownership ==
  /\ \A i, j \in 1..Len(queue) : queue[i] = queue[j] => i = j
  /\ \A v, w \in Workers : Working(v) /\ Working(w) /\ job[v] = job[w] => v = w
  /\ \A w \in Workers : Working(w) =>
       job[w] \in Tasks /\ sub[job[w]] = "accepted" /\ ~Queued(job[w])
  /\ \A w \in Workers : pc[w] \in {"load", "mark", "check"} => runs[job[w]] = 0
  /\ \A t \in Tasks : Queued(t) => sub[t] = "accepted" /\ runs[t] = 0
  /\ \A t \in Tasks : sub[t] # "accepted" => runs[t] = 0
  /\ \A t \in Tasks : runs[t] \in {0, 1}

TypedOwnership == TypeOK /\ Ownership

(* What the row says while somebody holds the task, ...                    *)
RowOfHeld ==
  /\ \A t \in Tasks : sub[t] \in {"idle", "creating"} => rows[t] = "absent"
  /\ \A t \in Tasks : sub[t] \in {"offering", "rejecting"} => rows[t] = "pending"
  /\ \A t \in Tasks : Queued(t) => rows[t] = "pending"
  /\ \A w \in Workers : pc[w] \in {"load", "mark"} => rows[job[w]] = "pending"
  /\ \A w \in Workers : pc[w] \in {"check", "tool", "audit", "save"} =>
       rows[job[w]] = "running"

(* ... and what an unacknowledged write can still do to a row: it is the   *)
(* only one for its task, nobody holds the task any more, and the status   *)
(* it carries is a legal successor of the one in the row.                  *)
LostRows ==
  \A x \in lost :
    /\ x.task \in faulted
    /\ x.table = "task" =>
         /\ ~Held(x.task)
         /\ sub[x.task] \in {"accepted", "refused"}
         /\ sub[x.task] = "refused" => x.status \in {"pending", "failed"}
         /\ x.status \in Lifecycle!Successors(rows[x.task])
         /\ \A y \in lost : y.table = "task" /\ y.task = x.task => y = x

RowsInv ==
  /\ RowOfHeld
  /\ LostRows
  /\ lost # {} => Durable
  /\ \A t \in Tasks : sub[t] \in {"refused", "gone"} =>
       rows[t] \in {"absent", "pending", "failed"}
  /\ AcceptedHasRow
  /\ NoSilentOrphan

(* A verdict s about t is true now and stays true when writes land late.   *)
Truth(t, s) ==
  /\ s = "success" => runs[t] = 1 /\ audit[t] = "success"
  /\ s = "timeout" => /\ runs[t] = 1 /\ audit[t] # "success"
                      /\ AuditWrite(t, "success") \notin lost
  /\ s = "failed" /\ t \notin faulted => audit[t] # "success"

Unaudited(t) ==
  audit[t] = "none" /\ \A x \in lost : x.table = "audit" => x.task # t

TruthInv ==
  /\ \A t \in Tasks : Queued(t) \/ sub[t] # "accepted" => Unaudited(t)
  /\ \A w \in Workers : pc[w] \in {"load", "mark", "check", "tool", "audit"} =>
       Unaudited(job[w])
  /\ \A w \in Workers : pc[w] = "tool" => runs[job[w]] = 1
  /\ \A w \in Workers : pc[w] = "audit" /\ verdict[w] # "failed" => runs[job[w]] = 1
  /\ \A w \in Workers : pc[w] = "save" => Truth(job[w], verdict[w])
  /\ \A t \in Tasks : Truth(t, rows[t])
  /\ \A x \in lost : x.table = "task" => Truth(x.task, x.status)
  /\ \A x \in lost : x.table = "audit" => audit[x.task] = "none"
  /\ \A x, y \in lost : x.table = "audit" /\ y.table = "audit" /\ x.task = y.task => x = y

IInv == TypedOwnership /\ RowsInv /\ TruthInv
=============================================================================
