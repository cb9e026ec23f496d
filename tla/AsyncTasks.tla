----------------------------- MODULE AsyncTasks -----------------------------
(***************************************************************************)
(* The asynchronous half of the gateway's executor                         *)
(* (internal/executor/executor.go): SubmitAsync, the bounded channel, the  *)
(* pool of worker goroutines and runAsyncJob, with the async_tasks rows    *)
(* and the audit rows they write.                                          *)
(*                                                                         *)
(* A store call either takes effect and returns nil, or returns an error   *)
(* and leaves an unacknowledged write behind: MySQL may still apply it     *)
(* later, or never.  The process may be killed and restarted at any point; *)
(* the channel, the goroutines and the request handlers are lost, and the  *)
(* rows too when the store is the MemoryStore.                             *)
(***************************************************************************)
EXTENDS Naturals, Sequences

CONSTANTS Tasks,      \* one element per call of SubmitAsync
          Workers,    \* the worker goroutines (ASYNC_WORKERS)
          QueueSize,  \* capacity of the channel (ASYNC_QUEUE_SIZE)
          None,       \* no task
          Durable,    \* TRUE: MySQLStore, FALSE: MemoryStore
          Faults      \* what may go wrong: "store", "crash"

ASSUME QueueSizeAssumption == QueueSize \in Nat
ASSUME NoneAssumption == None \notin Tasks
ASSUME DurableAssumption == Durable \in BOOLEAN
\* The methods of MemoryStore never return an error for these calls.
ASSUME FaultsAssumption ==
  Faults \subseteq {"store", "crash"} /\ ("store" \in Faults => Durable)

VARIABLES
  sub,      \* sub[t]: where the SubmitAsync call of t is
  queue,    \* the buffered channel of jobs
  pc,       \* pc[w]: where worker w is in its loop
  job,      \* job[w]: the task worker w holds
  verdict,  \* verdict[w]: the status runAsyncJob will write for its task
  rows,     \* rows[t]: the status in the async_tasks row of t
  audit,    \* audit[t]: the status in the audit row of the execution of t
  lost,     \* writes that returned an error and may still be applied
  runs,     \* history: how often the tool of t was started
  faulted   \* history: tasks that met a store error or a crash

vars == <<sub, queue, pc, job, verdict, rows, audit, lost, runs, faulted>>
-----------------------------------------------------------------------------
Verdict == {"success", "failed", "timeout"}

RowStatus == {"absent", "pending", "running"} \cup Verdict

AuditStatus == {"none", "success", "failed"}

SubmitState == {"idle", "creating", "offering", "rejecting",
                "accepted", "refused", "gone"}

WorkerState == {"receive", "load", "mark", "check", "tool", "audit", "save"}

Write == [table : {"task"}, task : Tasks, status : RowStatus \ {"absent"}]
         \cup [table : {"audit"}, task : Tasks, status : AuditStatus \ {"none"}]

(* New makes the channel and starts the workers only for positive sizes.   *)
Configured == Workers # {} /\ QueueSize > 0

Queued(t) == \E i \in 1..Len(queue) : queue[i] = t

Submitting(t) == sub[t] \in {"creating", "offering", "rejecting"}

Working(w) == pc[w] # "receive"

(* Some goroutine or the channel still has t in its hands.                 *)
Held(t) == Submitting(t) \/ Queued(t) \/ \E w \in Workers : Working(w) /\ job[w] = t
-----------------------------------------------------------------------------
(* Store calls. *)

TaskWrite(t, s) == [table |-> "task", task |-> t, status |-> s]

AuditWrite(t, s) == [table |-> "audit", task |-> t, status |-> s]

(* CreateAsyncTask or UpdateAsyncTask returns nil.                         *)
PutRow(t, s) ==
  /\ rows' = [rows EXCEPT ![t] = s]
  /\ UNCHANGED <<audit, lost, faulted>>

(* SaveToolAudit returns nil.                                              *)
PutAudit(t, s) ==
  /\ audit' = [audit EXCEPT ![t] = s]
  /\ UNCHANGED <<rows, lost, faulted>>

(* A write of the MySQL store returns an error.                            *)
LoseWrite(x) ==
  /\ "store" \in Faults
  /\ lost' = lost \cup {x}
  /\ faulted' = faulted \cup {x.task}
  /\ UNCHANGED <<rows, audit>>

(* MySQL applies a write whose caller was told it failed.                  *)
Land(x) ==
  /\ x \in lost
  /\ lost' = lost \ {x}
  /\ IF x.table = "task"
     THEN rows' = [rows EXCEPT ![x.task] = x.status] /\ UNCHANGED audit
     ELSE audit' = [audit EXCEPT ![x.task] = x.status] /\ UNCHANGED rows
  /\ UNCHANGED <<sub, queue, pc, job, verdict, runs, faulted>>
-----------------------------------------------------------------------------
Init ==
  /\ sub = [t \in Tasks |-> "idle"]
  /\ queue = <<>>
  /\ pc = [w \in Workers |-> "receive"]
  /\ job = [w \in Workers |-> None]
  /\ verdict = [w \in Workers |-> "failed"]
  /\ rows = [t \in Tasks |-> "absent"]
  /\ audit = [t \in Tasks |-> "none"]
  /\ lost = {}
  /\ runs = [t \in Tasks |-> 0]
  /\ faulted = {}
-----------------------------------------------------------------------------
(* SubmitAsync, run by the request handler. *)

workerVars == <<pc, job, verdict, runs>>

SubmitGoes(t, from, to) == sub[t] = from /\ sub' = [sub EXCEPT ![t] = to]

(* No channel, an unknown tool or a tool that is not async.                *)
Refuse(t) ==
  /\ SubmitGoes(t, "idle", "refused")
  /\ UNCHANGED <<queue, workerVars, rows, audit, lost, faulted>>

(* The checks pass and the task gets its id.                               *)
Submit(t) ==
  /\ Configured
  /\ SubmitGoes(t, "idle", "creating")
  /\ UNCHANGED <<queue, workerVars, rows, audit, lost, faulted>>

(* Mutant: the error of CreateAsyncTask is ignored.                        *)
CreateRowIgnoresError(t) ==
  /\ SubmitGoes(t, "creating", "offering")
  /\ PutRow(t, "pending") \/ LoseWrite(TaskWrite(t, "pending"))
  /\ UNCHANGED <<queue, workerVars>>

(* The row is written before the job is offered; an error is returned.     *)
CreateRow(t) ==
  /\ \/ SubmitGoes(t, "creating", "offering") /\ PutRow(t, "pending")
     \/ SubmitGoes(t, "creating", "refused") /\ LoseWrite(TaskWrite(t, "pending"))
  /\ UNCHANGED <<queue, workerVars>>

(* The select statement: send without blocking, or take the default.       *)
Enqueue(t) ==
  /\ Len(queue) < QueueSize
  /\ SubmitGoes(t, "offering", "accepted")
  /\ queue' = Append(queue, t)
  /\ UNCHANGED <<workerVars, rows, audit, lost, faulted>>

(* Mutant: the job is in the channel although the caller is refused.       *)
QueueFullStillSends(t) ==
  /\ Len(queue) >= QueueSize
  /\ SubmitGoes(t, "offering", "rejecting")
  /\ queue' = Append(queue, t)
  /\ UNCHANGED <<workerVars, rows, audit, lost, faulted>>

QueueFull(t) ==
  /\ Len(queue) >= QueueSize
  /\ SubmitGoes(t, "offering", "rejecting")
  /\ UNCHANGED <<queue, workerVars, rows, audit, lost, faulted>>

(* Mutant: ErrQueueFull is returned without updating the row.              *)
RejectFullForgets(t) ==
  /\ SubmitGoes(t, "rejecting", "refused")
  /\ UNCHANGED <<queue, workerVars, rows, audit, lost, faulted>>

(* Mutant: a status word outside the enumeration.                          *)
RejectFullNewStatus(t) ==
  /\ SubmitGoes(t, "rejecting", "refused")
  /\ PutRow(t, "rejected")
  /\ UNCHANGED <<queue, workerVars>>

(* The caller gets ErrQueueFull or the store's error: no id either way.    *)
RejectFull(t) ==
  /\ SubmitGoes(t, "rejecting", "refused")
  /\ PutRow(t, "failed") \/ LoseWrite(TaskWrite(t, "failed"))
  /\ UNCHANGED <<queue, workerVars>>
-----------------------------------------------------------------------------
(* The worker loop and runAsyncJob. *)

WorkerGoes(w, from, to) == pc[w] = from /\ pc' = [pc EXCEPT ![w] = to]

Receive(w) ==
  /\ queue # <<>>
  /\ WorkerGoes(w, "receive", "load")
  /\ job' = [job EXCEPT ![w] = Head(queue)]
  /\ queue' = Tail(queue)
  /\ UNCHANGED <<sub, verdict, runs, rows, audit, lost, faulted>>

(* Mutant: the worker executes without marking the row "running".          *)
LoadSkipsRunning(w) ==
  /\ WorkerGoes(w, "load", "check")
  /\ rows[job[w]] # "absent"
  /\ UNCHANGED <<sub, queue, job, verdict, runs, rows, audit, lost, faulted>>

(* GetAsyncTask finds the row.                                             *)
Load(w) ==
  /\ WorkerGoes(w, "load", "mark")
  /\ rows[job[w]] # "absent"
  /\ UNCHANGED <<sub, queue, job, verdict, runs, rows, audit, lost, faulted>>

(* Mutant: a store error ends the worker goroutine.                        *)
LoadFailsExits(w) ==
  /\ WorkerGoes(w, "load", "exited")
  /\ "store" \in Faults
  /\ faulted' = faulted \cup {job[w]}
  /\ UNCHANGED <<sub, queue, job, verdict, runs, rows, audit, lost>>

(* It finds no row or fails: the job is dropped without a trace.           *)
LoadFails(w) ==
  /\ WorkerGoes(w, "load", "receive")
  /\ rows[job[w]] = "absent" \/ "store" \in Faults
  /\ faulted' = faulted \cup (IF rows[job[w]] = "absent" THEN {} ELSE {job[w]})
  /\ UNCHANGED <<sub, queue, job, verdict, runs, rows, audit, lost>>

(* UpdateAsyncTask "running"; on an error the job is dropped.              *)
MarkRunning(w) ==
  /\ \/ WorkerGoes(w, "mark", "check") /\ PutRow(job[w], "running")
     \/ WorkerGoes(w, "mark", "receive") /\ LoseWrite(TaskWrite(job[w], "running"))
  /\ UNCHANGED <<sub, queue, job, verdict, runs>>

(* Execute up to the tool: the schema or the policy refuses the input, ... *)
Deny(w) ==
  /\ WorkerGoes(w, "check", "audit")
  /\ verdict' = [verdict EXCEPT ![w] = "failed"]
  /\ UNCHANGED <<sub, queue, job, runs, rows, audit, lost, faulted>>

(* ... or the tool starts.                                                 *)
StartTool(w) ==
  /\ WorkerGoes(w, "check", "tool")
  /\ runs' = [runs EXCEPT ![job[w]] = @ + 1]
  /\ UNCHANGED <<sub, queue, job, verdict, rows, audit, lost, faulted>>

(* It succeeds, fails or panics, or fails after its deadline.              *)
ToolReturns(w) ==
  /\ WorkerGoes(w, "tool", "audit")
  /\ \E v \in Verdict : verdict' = [verdict EXCEPT ![w] = v]
  /\ UNCHANGED <<sub, queue, job, runs, rows, audit, lost, faulted>>

AuditOf(v) == IF v = "success" THEN "success" ELSE "failed"

(* Mutant: the error of SaveToolAudit is dropped.                          *)
SaveAuditIgnoresError(w) ==
  LET a == AuditOf(verdict[w]) IN
  /\ WorkerGoes(w, "audit", "save")
  /\ PutAudit(job[w], a) \/ LoseWrite(AuditWrite(job[w], a))
  /\ UNCHANGED <<sub, queue, job, verdict, runs>>

(* The deferred saveAudit: its error turns a success into a failure.       *)
SaveAudit(w) ==
  LET a == AuditOf(verdict[w]) IN
  /\ WorkerGoes(w, "audit", "save")
  /\ \/ PutAudit(job[w], a) /\ UNCHANGED verdict
     \/ /\ LoseWrite(AuditWrite(job[w], a))
        /\ verdict' = [verdict EXCEPT ![w] = IF @ = "timeout" THEN @ ELSE "failed"]
  /\ UNCHANGED <<sub, queue, job, runs>>

(* Mutant: the job is run again when its result could not be stored.       *)
SaveResultRetries(w) ==
  /\ \/ WorkerGoes(w, "save", "receive") /\ PutRow(job[w], verdict[w])
     \/ WorkerGoes(w, "save", "mark") /\ LoseWrite(TaskWrite(job[w], verdict[w]))
  /\ UNCHANGED <<sub, queue, job, verdict, runs>>

(* The last UpdateAsyncTask; on an error the row stays "running".          *)
SaveResult(w) ==
  /\ WorkerGoes(w, "save", "receive")
  /\ PutRow(job[w], verdict[w]) \/ LoseWrite(TaskWrite(job[w], verdict[w]))
  /\ UNCHANGED <<sub, queue, job, verdict, runs>>
-----------------------------------------------------------------------------
(* The process dies (kill, or shutdown, which drains no worker) and is     *)
(* restarted; main looks at no row of async_tasks.                         *)
Restart ==
  /\ "crash" \in Faults
  /\ sub' = [t \in Tasks |-> IF Submitting(t) THEN "gone" ELSE sub[t]]
  /\ queue' = <<>>
  /\ pc' = [w \in Workers |-> "receive"]
  /\ job' = [w \in Workers |-> None]
  /\ verdict' = [w \in Workers |-> "failed"]
  /\ faulted' = faulted \cup {t \in Tasks : Held(t)}
  /\ rows' = IF Durable THEN rows ELSE [t \in Tasks |-> "absent"]
  /\ audit' = IF Durable THEN audit ELSE [t \in Tasks |-> "none"]
  /\ UNCHANGED <<lost, runs>>

SubmitStep(t) ==
  CreateRow(t) \/ Enqueue(t) \/ QueueFull(t) \/ RejectFull(t)

WorkerStep(w) ==
  \/ Receive(w) \/ Load(w) \/ LoadFails(w) \/ MarkRunning(w) \/ Deny(w)
  \/ StartTool(w) \/ ToolReturns(w) \/ SaveAudit(w) \/ SaveResult(w)

Next ==
  \/ \E t \in Tasks : Refuse(t) \/ Submit(t) \/ SubmitStep(t)
  \/ \E w \in Workers : WorkerStep(w)
  \/ \E x \in lost : Land(x)
  \/ Restart

Spec == Init /\ [][Next]_vars

(* Goroutines that can run do run, and a tool returns at its deadline.     *)
Fairness ==
  /\ \A t \in Tasks : WF_vars(SubmitStep(t))
  /\ \A w \in Workers : WF_vars(WorkerStep(w))

FairSpec == Spec /\ Fairness
-----------------------------------------------------------------------------
(* Properties. *)

TypeOK ==
  /\ sub \in [Tasks -> SubmitState]
  /\ queue \in Seq(Tasks)
  /\ pc \in [Workers -> WorkerState]
  /\ job \in [Workers -> Tasks \cup {None}]
  /\ verdict \in [Workers -> Verdict]
  /\ rows \in [Tasks -> RowStatus]
  /\ audit \in [Tasks -> AuditStatus]
  /\ lost \subseteq Write
  /\ runs \in [Tasks -> Nat]
  /\ faulted \subseteq Tasks

(* A task's tool is started at most once, whatever fails or restarts: the  *)
(* executor has no retry, and a job has one holder at a time.              *)
AtMostOnce == \A t \in Tasks : runs[t] <= 1

(* When SubmitAsync did not return an id (refused, or the process died),   *)
(* the tool never runs, and no row says that it did, even if a write that  *)
(* was reported as failed is applied later.                                *)
RefusedNeverRuns ==
  \A t \in Tasks : sub[t] \in {"refused", "gone"} =>
    runs[t] = 0 /\ rows[t] \in {"absent", "pending", "failed"}

(* A row a client can see as pending or running is in somebody's hands:    *)
(* only a store error or a restart can leave one behind.                   *)
NoSilentOrphan ==
  \A t \in Tasks : rows[t] \in {"pending", "running"} => Held(t) \/ t \in faulted

(* The verdict in the row, the audit row and what ran agree: a success was *)
(* run and audited as one, a timeout was run, and a failure hides a        *)
(* success only if the store failed on the way.                            *)
VerdictIsTrue ==
  \A t \in Tasks :
    /\ rows[t] = "success" => runs[t] = 1 /\ audit[t] = "success"
    /\ rows[t] = "timeout" => runs[t] = 1 /\ audit[t] # "success"
    /\ rows[t] = "failed" /\ t \notin faulted => audit[t] # "success"

(* With a durable store, an id given to a client always has a row, before  *)
(* the worker is done with it, after, and after a restart.                 *)
AcceptedHasRow ==
  Durable => \A t \in Tasks : sub[t] = "accepted" => rows[t] # "absent"

(* Every accepted task that meets no fault gets a verdict, also while      *)
(* other tasks meet store errors or were dropped by their worker.          *)
AcceptedFinishes ==
  \A t \in Tasks : sub[t] = "accepted" ~> rows[t] \in Verdict \/ t \in faulted

(* The rows behave as the abstract lifecycle says: late writes included,   *)
(* no row skips a status or leaves a terminal one.                         *)
Lifecycle == INSTANCE TaskLifecycle WITH status <- rows
LifecycleSpec == Lifecycle!Spec
=============================================================================
