------------------------- MODULE AsyncTasks_proofs -------------------------
(***************************************************************************)
(* Proofs about AsyncTasks, for any set of tasks and workers and any queue *)
(* size: the inductive invariant of AsyncInvariant, layer by layer.        *)
(***************************************************************************)
EXTENDS AsyncInvariant, TLAPS

USE DEF Working
-----------------------------------------------------------------------------
(* The outcomes of a store call, as facts about types.                     *)

LEMMA TaskWriteType ==
  ASSUME NEW t \in Tasks, NEW s \in RowStatus, s # "absent"
  PROVE  TaskWrite(t, s) \in Write
BY DEF TaskWrite, Write

LEMMA AuditWriteType ==
  ASSUME NEW t \in Tasks, NEW s \in {"success", "failed"}
  PROVE  AuditWrite(t, s) \in Write
BY DEF AuditWrite, Write, AuditStatus

StoreTyped ==
  /\ rows \in [Tasks -> RowStatus]
  /\ audit \in [Tasks -> AuditStatus]
  /\ lost \subseteq Write
  /\ faulted \subseteq Tasks

LEMMA StoreTypes ==
  ASSUME TypeOK
  PROVE  /\ \A t \in Tasks, s \in RowStatus : PutRow(t, s) => StoreTyped'
         /\ \A t \in Tasks, s \in AuditStatus : PutAudit(t, s) => StoreTyped'
         /\ \A x \in Write : LoseWrite(x) => StoreTyped'
<1>1. \A x \in Write : x.task \in Tasks
  BY DEF Write
<1> QED
  BY <1>1 DEF TypeOK, PutRow, PutAudit, LoseWrite, StoreTyped

(* The queue: what Append, Head and Tail do to "t is queued".              *)
LEMMA QueueFacts ==
  ASSUME NEW q \in Seq(Tasks), NEW t \in Tasks
  PROVE  /\ Append(q, t) \in Seq(Tasks)
         /\ q # <<>> => Head(q) \in Tasks /\ Tail(q) \in Seq(Tasks)
OBVIOUS
-----------------------------------------------------------------------------
LEMMA InitType == Init => TypeOK
BY DEF Init, TypeOK, SubmitState, WorkerState, Verdict, RowStatus, AuditStatus

LEMMA SubmitType ==
  ASSUME TypeOK, NEW t \in Tasks, Refuse(t) \/ Submit(t) \/ SubmitStep(t)
  PROVE  TypeOK'
<1> USE DEF TypeOK, SubmitGoes, SubmitState, workerVars
<1>1. CASE Refuse(t) BY <1>1 DEF Refuse
<1>2. CASE Submit(t) BY <1>2 DEF Submit
<1>3. CASE CreateRow(t)
  <2>1. "pending" \in RowStatus /\ TaskWrite(t, "pending") \in Write
    BY TaskWriteType DEF RowStatus
  <2> QED BY <1>3, <2>1, StoreTypes DEF StoreTyped, CreateRow
<1>4. CASE Enqueue(t) BY <1>4, QueueFacts DEF Enqueue
<1>5. CASE QueueFull(t) BY <1>5 DEF QueueFull
<1>6. CASE RejectFull(t)
  <2>1. "failed" \in RowStatus /\ TaskWrite(t, "failed") \in Write
    BY TaskWriteType DEF RowStatus, Verdict
  <2> QED BY <1>6, <2>1, StoreTypes DEF StoreTyped, RejectFull
<1> QED BY <1>1, <1>2, <1>3, <1>4, <1>5, <1>6 DEF SubmitStep

LEMMA WorkerType ==
  ASSUME TypeOK, NEW w \in Workers, WorkerStep(w), pc[w] = "receive" \/ job[w] \in Tasks
  PROVE  TypeOK'
<1> USE DEF TypeOK, WorkerGoes, WorkerState
<1> DEFINE t == job[w]
<1>1. CASE Receive(w) BY <1>1, QueueFacts DEF Receive
<1>2. CASE Load(w) BY <1>2 DEF Load
<1>3. CASE LoadFails(w)
  <2>1. t \in Tasks BY <1>3 DEF LoadFails
  <2> QED BY <1>3, <2>1 DEF LoadFails
<1>4. CASE MarkRunning(w)
  <2>1. t \in Tasks BY <1>4 DEF MarkRunning
  <2>2. "running" \in RowStatus /\ TaskWrite(t, "running") \in Write
    BY <2>1, TaskWriteType DEF RowStatus
  <2> QED BY <1>4, <2>1, <2>2, StoreTypes DEF StoreTyped, MarkRunning
<1>5. CASE Deny(w) BY <1>5 DEF Deny, Verdict
<1>6. CASE StartTool(w) BY <1>6 DEF StartTool
<1>7. CASE ToolReturns(w) BY <1>7 DEF ToolReturns
<1>8. CASE SaveAudit(w)
  <2>1. t \in Tasks BY <1>8 DEF SaveAudit
  <2>2. AuditOf(verdict[w]) \in {"success", "failed"} BY DEF AuditOf
  <2>3. AuditOf(verdict[w]) \in AuditStatus /\ AuditWrite(t, AuditOf(verdict[w])) \in Write
    BY <2>1, <2>2, AuditWriteType DEF AuditStatus
  <2> QED BY <1>8, <2>1, <2>3, StoreTypes DEF StoreTyped, SaveAudit, Verdict
<1>9. CASE SaveResult(w)
  <2>1. t \in Tasks BY <1>9 DEF SaveResult
  <2>2. verdict[w] \in RowStatus /\ TaskWrite(t, verdict[w]) \in Write
    BY <2>1, TaskWriteType DEF RowStatus, Verdict
  <2> QED BY <1>9, <2>1, <2>2, StoreTypes DEF StoreTyped, SaveResult
<1> QED
  BY <1>1, <1>2, <1>3, <1>4, <1>5, <1>6, <1>7, <1>8, <1>9 DEF WorkerStep

LEMMA LandType ==
  ASSUME TypeOK, NEW x \in lost, Land(x)
  PROVE  TypeOK'
BY DEF TypeOK, Land, Write

LEMMA RestartType ==
  ASSUME TypeOK, Restart
  PROVE  TypeOK'
<1>1. sub' \in [Tasks -> SubmitState]
  BY DEF TypeOK, Restart, SubmitState
<1>2. rows' \in [Tasks -> RowStatus] /\ audit' \in [Tasks -> AuditStatus]
  BY DEF TypeOK, Restart, RowStatus, AuditStatus
<1> QED
  BY <1>1, <1>2 DEF TypeOK, Restart, WorkerState, Verdict
-----------------------------------------------------------------------------
(* Who holds a task.                                                       *)

LEMMA InitOwnership == Init => Ownership
BY DEF Init, Ownership, Queued

LEMMA SubmitOwnership ==
  ASSUME TypedOwnership, NEW t \in Tasks, Refuse(t) \/ Submit(t) \/ SubmitStep(t)
  PROVE  Ownership'
<1> USE DEF TypedOwnership, TypeOK, SubmitGoes, workerVars
<1>1. CASE Refuse(t) BY <1>1 DEF Refuse, Ownership, Queued
<1>2. CASE Submit(t) BY <1>2 DEF Submit, Ownership, Queued
<1>3. CASE CreateRow(t) BY <1>3 DEF CreateRow, Ownership, Queued
<1>4. CASE Enqueue(t)
  <2>1. ~Queued(t) /\ \A w \in Workers : Working(w) => job[w] # t
    BY <1>4 DEF Enqueue, Ownership
  <2>2. \A u \in Tasks : Queued(u)' => Queued(u) \/ u = t
    BY <1>4 DEF Enqueue, Queued
  <2>3. \A i, j \in 1..Len(queue') : queue'[i] = queue'[j] => i = j
    BY <1>4, <2>1 DEF Enqueue, Queued, Ownership
  <2> QED BY <1>4, <2>1, <2>2, <2>3 DEF Enqueue, Ownership
<1>5. CASE QueueFull(t) BY <1>5 DEF QueueFull, Ownership, Queued
<1>6. CASE RejectFull(t) BY <1>6 DEF RejectFull, Ownership, Queued
<1> QED BY <1>1, <1>2, <1>3, <1>4, <1>5, <1>6 DEF SubmitStep

LEMMA WorkerOwnership ==
  ASSUME TypedOwnership, NEW w \in Workers, WorkerStep(w)
  PROVE  Ownership'
<1> USE DEF TypedOwnership, TypeOK, WorkerGoes
<1>1. CASE Receive(w)
  <2> DEFINE t == Head(queue)
  <2>1. t \in Tasks /\ Queued(t)
    BY <1>1 DEF Receive, Queued
  <2>2. \A u \in Tasks : Queued(u)' => Queued(u) /\ u # t
    BY <1>1 DEF Receive, Queued, Ownership
  <2>3. \A i, j \in 1..Len(queue') : queue'[i] = queue'[j] => i = j
    BY <1>1 DEF Receive, Ownership
  <2> QED BY <1>1, <2>1, <2>2, <2>3 DEF Receive, Ownership
<1>2. CASE Load(w) BY <1>2 DEF Load, Ownership, Queued
<1>3. CASE LoadFails(w) BY <1>3 DEF LoadFails, Ownership, Queued
<1>4. CASE MarkRunning(w)
  <2>1. pc[w] = "mark" /\ pc' \in {[pc EXCEPT ![w] = "check"], [pc EXCEPT ![w] = "receive"]}
    BY <1>4 DEF MarkRunning
  <2>2. UNCHANGED <<sub, queue, job, runs>>
    BY <1>4 DEF MarkRunning
  <2> QED BY <2>1, <2>2 DEF Ownership, Queued
<1>5. CASE Deny(w) BY <1>5 DEF Deny, Ownership, Queued
<1>6. CASE StartTool(w) BY <1>6 DEF StartTool, Ownership, Queued
<1>7. CASE ToolReturns(w) BY <1>7 DEF ToolReturns, Ownership, Queued
<1>8. CASE SaveAudit(w) BY <1>8 DEF SaveAudit, Ownership, Queued
<1>9. CASE SaveResult(w) BY <1>9 DEF SaveResult, Ownership, Queued
<1> QED
  BY <1>1, <1>2, <1>3, <1>4, <1>5, <1>6, <1>7, <1>8, <1>9 DEF WorkerStep

LEMMA RestartOwnership ==
  ASSUME TypedOwnership, Restart
  PROVE  Ownership'
BY DEF TypedOwnership, TypeOK, Ownership, Restart, Submitting, Queued

LEMMA LandOwnership ==
  ASSUME TypedOwnership, NEW x \in lost, Land(x)
  PROVE  Ownership'
BY DEF TypedOwnership, Ownership, Land, Queued

(* Every job a worker holds is a task: what WorkerType needs to know.      *)
LEMMA NextTypedOwnership == TypedOwnership /\ [Next]_vars => TypedOwnership'
<1> SUFFICES ASSUME TypedOwnership, [Next]_vars PROVE TypedOwnership'
  OBVIOUS
<1> USE DEF TypedOwnership
<1>1. ASSUME NEW t \in Tasks, Refuse(t) \/ Submit(t) \/ SubmitStep(t)
      PROVE  TypedOwnership'
  BY <1>1, SubmitType, SubmitOwnership
<1>2. ASSUME NEW w \in Workers, WorkerStep(w)
      PROVE  TypedOwnership'
  <2>1. pc[w] = "receive" \/ job[w] \in Tasks
    BY DEF Ownership
  <2> QED BY <1>2, <2>1, WorkerType, WorkerOwnership
<1>3. ASSUME NEW x \in lost, Land(x)
      PROVE  TypedOwnership'
  BY <1>3, LandType, LandOwnership
<1>4. CASE Restart
  BY <1>4, RestartType, RestartOwnership
<1>5. CASE UNCHANGED vars
  BY <1>5 DEF vars, TypeOK, Ownership, Queued
<1> QED
  BY <1>1, <1>2, <1>3, <1>4, <1>5 DEF Next

(* Every reachable state is well typed, and a task has one holder.         *)
THEOREM OwnershipInvariant == Spec => []TypedOwnership
<1>1. Init => TypedOwnership
  BY InitType, InitOwnership DEF TypedOwnership
<1> QED
  BY <1>1, NextTypedOwnership, PTL DEF Spec

(* The state of the executor stays within its types.                       *)
THEOREM TypeCorrect == Spec => []TypeOK
<1>1. TypedOwnership => TypeOK
  BY DEF TypedOwnership
<1> QED
  BY <1>1, OwnershipInvariant, PTL

(* SubmitAsync, the channel and the workers start a task's tool at most    *)
(* once, for any number of workers, any queue size, and whatever the store *)
(* loses and however often the process restarts.                           *)
THEOREM ToolRunsAtMostOnce == Spec => []AtMostOnce
<1>1. TypedOwnership => AtMostOnce
  <2> SUFFICES ASSUME TypedOwnership, NEW t \in Tasks PROVE runs[t] <= 1
    BY DEF AtMostOnce
  <2>1. runs[t] = 0 \/ runs[t] = 1
    BY DEF TypedOwnership, Ownership
  <2> QED BY <2>1
<1> QED
  BY <1>1, OwnershipInvariant, PTL
-----------------------------------------------------------------------------
(* What the rows say.                                                      *)

LEMMA InitRows == Init => RowsInv
BY DEF Init, RowsInv, RowOfHeld, LostRows, AcceptedHasRow, NoSilentOrphan, Queued

(* How the holders of a task change.                                       *)
LEMMA SubmitHeld ==
  ASSUME TypedOwnership, NEW t \in Tasks, NEW s, sub[t] # "accepted",
         sub' = [sub EXCEPT ![t] = s], UNCHANGED <<queue, pc, job>>
  PROVE  /\ \A u \in Tasks : u # t => (Held(u)' <=> Held(u))
         /\ Held(t)' <=> s \in {"creating", "offering", "rejecting"}
         /\ Held(t) <=> sub[t] \in {"creating", "offering", "rejecting"}
<1>1. \A u : Queued(u)' <=> Queued(u)
  BY DEF Queued
<1>2. ~Queued(t) /\ \A w \in Workers : Working(w) => job[w] # t
  BY DEF TypedOwnership, Ownership
<1> QED
  BY <1>1, <1>2 DEF Held, Submitting, TypedOwnership, TypeOK

LEMMA WorkerKeepsHeld ==
  ASSUME TypedOwnership, NEW w \in Workers, NEW p, pc[w] # "receive", p # "receive",
         pc' = [pc EXCEPT ![w] = p], UNCHANGED <<sub, queue, job>>
  PROVE  \A u \in Tasks : Held(u)' <=> Held(u)
<1>1. \A u : Queued(u)' <=> Queued(u)
  BY DEF Queued
<1>2. \A v \in Workers : Working(v)' <=> Working(v)
  BY DEF TypedOwnership, TypeOK
<1> QED
  BY <1>1, <1>2 DEF Held, Submitting

LEMMA WorkerDropsHeld ==
  ASSUME TypedOwnership, NEW w \in Workers, pc[w] # "receive",
         pc' = [pc EXCEPT ![w] = "receive"], UNCHANGED <<sub, queue, job>>
  PROVE  /\ \A u \in Tasks : Held(u)' <=> Held(u) /\ u # job[w]
         /\ Held(job[w]) /\ job[w] \in Tasks
<1>1. \A u : Queued(u)' <=> Queued(u)
  BY DEF Queued
<1>2. \A v \in Workers : Working(v)' <=> Working(v) /\ v # w
  BY DEF TypedOwnership, TypeOK
<1>3. job[w] \in Tasks /\ sub[job[w]] = "accepted" /\ ~Queued(job[w])
  BY DEF TypedOwnership, Ownership
<1>4. \A v \in Workers : Working(v) /\ job[v] = job[w] => v = w
  BY DEF TypedOwnership, Ownership
<1> QED
  BY <1>1, <1>2, <1>3, <1>4 DEF Held, Submitting

(* A step other than Land and Restart changes the rows of held tasks only, *)
(* and adds a lost row write only for a task it lets go of.                *)
LEMMA RowsStep ==
  ASSUME TypeOK, RowsInv,
         lost \subseteq lost', faulted \subseteq faulted',
         \A u \in Tasks : ~Held(u) => rows'[u] = rows[u],
         \A u \in Tasks : Held(u)' => Held(u) \/ sub[u] = "idle",
         \A u \in Tasks : Held(u) =>
            Held(u)' \/ u \in faulted' \/ rows'[u] \notin {"pending", "running"},
         \A u \in Tasks : sub[u] \in {"accepted", "refused"} => sub'[u] = sub[u],
         \A x \in lost' \ lost :
            /\ x.task \in faulted' /\ Durable
            /\ \A y \in lost' \ lost : y = x
            /\ x.table = "task" =>
                 /\ Held(x.task) /\ ~Held(x.task)'
                 /\ sub'[x.task] \in {"accepted", "refused"}
                 /\ sub'[x.task] = "refused" => x.status \in {"pending", "failed"}
                 /\ x.status \in Lifecycle!Successors(rows'[x.task]),
         RowOfHeld',
         \A u \in Tasks : sub'[u] \in {"refused", "gone"} =>
            rows'[u] \in {"absent", "pending", "failed"},
         AcceptedHasRow'
  PROVE  RowsInv'
<1>1. \A x \in lost : x.task \in Tasks
  BY DEF TypeOK, Write
<1>2. LostRows'
  <2>1. ASSUME NEW x \in lost, x.table = "task"
        PROVE  /\ ~Held(x.task)'
               /\ sub'[x.task] = sub[x.task] /\ rows'[x.task] = rows[x.task]
               /\ \A y \in lost' \ lost : y.table = "task" => y.task # x.task
               /\ sub[x.task] \in {"accepted", "refused"}
               /\ sub[x.task] = "refused" => x.status \in {"pending", "failed"}
               /\ x.status \in Lifecycle!Successors(rows[x.task])
               /\ \A y \in lost : y.table = "task" /\ y.task = x.task => y = x
    BY <1>1, <2>1 DEF RowsInv, LostRows
  <2>2. \A x \in lost : x.task \in faulted'
    BY DEF RowsInv, LostRows
  <2> QED
    BY <2>1, <2>2 DEF LostRows
<1>3. NoSilentOrphan'
  BY DEF RowsInv, NoSilentOrphan
<1>4. lost' # {} => Durable
  BY DEF RowsInv
<1> QED
  BY <1>2, <1>3, <1>4 DEF RowsInv

LEMMA SubmitRows ==
  ASSUME TypedOwnership, RowsInv, NEW t \in Tasks,
         Refuse(t) \/ Submit(t) \/ SubmitStep(t)
  PROVE  RowsInv'
<1> USE DEF TypedOwnership, TypeOK, SubmitGoes, workerVars
<1> DEFINE Frame == /\ lost \subseteq lost' /\ faulted \subseteq faulted'
                    /\ \A u \in Tasks : ~Held(u) => rows'[u] = rows[u]
           HeldOK == /\ \A u \in Tasks : Held(u)' => Held(u) \/ sub[u] = "idle"
                     /\ \A u \in Tasks : Held(u) => \/ Held(u)' \/ u \in faulted'
                                                   \/ rows'[u] \notin {"pending", "running"}
                     /\ \A u \in Tasks : sub[u] \in {"accepted", "refused"} => sub'[u] = sub[u]
           AnswersOK == /\ \A u \in Tasks : sub'[u] \in {"refused", "gone"} =>
                             rows'[u] \in {"absent", "pending", "failed"}
                        /\ AcceptedHasRow'
<1>0. \A u : queue' = queue => (Queued(u)' <=> Queued(u))
  BY DEF Queued
<1>1. CASE Refuse(t)
  <2>1. Frame /\ AnswersOK
    BY <1>1 DEF Refuse, RowsInv, RowOfHeld, AcceptedHasRow
  <2>2. HeldOK
    BY <1>1, SubmitHeld DEF Refuse
  <2>3. RowOfHeld'
    BY <1>1, <1>0 DEF Refuse, RowsInv, RowOfHeld
  <2> QED BY <1>1, <2>1, <2>2, <2>3, RowsStep DEF Refuse
<1>2. CASE Submit(t)
  <2>1. Frame /\ AnswersOK
    BY <1>2 DEF Submit, RowsInv, RowOfHeld, AcceptedHasRow
  <2>2. HeldOK
    BY <1>2, SubmitHeld DEF Submit
  <2>3. RowOfHeld'
    BY <1>2, <1>0 DEF Submit, RowsInv, RowOfHeld
  <2> QED BY <1>2, <2>1, <2>2, <2>3, RowsStep DEF Submit
<1>3. CASE CreateRow(t)
  <2>1. CASE sub' = [sub EXCEPT ![t] = "offering"] /\ PutRow(t, "pending")
    <3>1. Held(t)
      BY <1>3 DEF CreateRow, Held, Submitting
    <3>2. HeldOK
      BY <1>3, <2>1, SubmitHeld DEF CreateRow, PutRow
    <3>3. Frame /\ AnswersOK
      BY <1>3, <2>1, <3>1 DEF CreateRow, PutRow, RowsInv, RowOfHeld, AcceptedHasRow
    <3>4. RowOfHeld'
      BY <1>3, <1>0, <2>1 DEF CreateRow, PutRow, RowsInv, RowOfHeld, Ownership
    <3> QED BY <1>3, <2>1, <3>2, <3>3, <3>4, RowsStep DEF CreateRow, PutRow
  <2>2. CASE sub' = [sub EXCEPT ![t] = "refused"] /\ LoseWrite(TaskWrite(t, "pending"))
    <3>1. Held(t) /\ ~Held(t)' /\ t \in faulted' /\ sub[t] = "creating"
      BY <1>3, <2>2, SubmitHeld DEF CreateRow, LoseWrite, TaskWrite
    <3>2. HeldOK
      BY <1>3, <2>2, <3>1, SubmitHeld DEF CreateRow, LoseWrite
    <3>3. Frame /\ AnswersOK
      BY <1>3, <2>2, <3>1 DEF CreateRow, LoseWrite, RowsInv, RowOfHeld, AcceptedHasRow
    <3>4. RowOfHeld'
      BY <1>3, <1>0, <2>2 DEF CreateRow, LoseWrite, RowsInv, RowOfHeld, Ownership
    <3>5. "pending" \in Lifecycle!Successors(rows'[t])
      BY <2>2, <3>1 DEF LoseWrite, RowsInv, RowOfHeld, Lifecycle!Successors
    <3>6. \A x \in lost' \ lost : x = TaskWrite(t, "pending")
      BY <2>2 DEF LoseWrite
    <3>7. Durable
      BY <2>2, FaultsAssumption DEF LoseWrite
    <3> QED
      BY <1>3, <2>2, <3>1, <3>2, <3>3, <3>4, <3>5, <3>6, <3>7, RowsStep DEF TaskWrite
  <2> QED BY <1>3, <2>1, <2>2 DEF CreateRow
<1>4. CASE Enqueue(t)
  <2>1. \A u \in Tasks : Queued(u)' => Queued(u) \/ u = t
    BY <1>4 DEF Enqueue, Queued
  <2>2. \A u \in Tasks : Queued(u) => Queued(u)'
    BY <1>4 DEF Enqueue, Queued
  <2>3. Queued(t)'
    <3>1. queue'[Len(queue) + 1] = t /\ Len(queue) + 1 \in 1..Len(queue')
      BY <1>4 DEF Enqueue
    <3> QED BY <3>1 DEF Queued
  <2>4. Frame /\ AnswersOK
    BY <1>4 DEF Enqueue, RowsInv, RowOfHeld, AcceptedHasRow
  <2>5. HeldOK
    BY <1>4, <2>1, <2>2, <2>3 DEF Enqueue, Held, Submitting
  <2>6. RowOfHeld'
    BY <1>4, <2>1 DEF Enqueue, RowsInv, RowOfHeld
  <2> QED BY <1>4, <2>4, <2>5, <2>6, RowsStep DEF Enqueue
<1>5. CASE QueueFull(t)
  <2>1. Frame /\ AnswersOK
    BY <1>5 DEF QueueFull, RowsInv, RowOfHeld, AcceptedHasRow
  <2>2. HeldOK
    BY <1>5, SubmitHeld DEF QueueFull
  <2>3. RowOfHeld'
    BY <1>5, <1>0 DEF QueueFull, RowsInv, RowOfHeld
  <2> QED BY <1>5, <2>1, <2>2, <2>3, RowsStep DEF QueueFull
<1>6. CASE RejectFull(t)
  <2>0. sub[t] = "rejecting" /\ sub' = [sub EXCEPT ![t] = "refused"] /\ UNCHANGED <<queue, workerVars>>
    BY <1>6 DEF RejectFull
  <2>1. Held(t) /\ ~Held(t)' /\ rows[t] = "pending"
    <3>1. rows[t] = "pending"
      BY <2>0 DEF RowsInv, RowOfHeld
    <3>2. sub[t] # "accepted" /\ UNCHANGED <<queue, pc, job>>
      BY <2>0
    <3>3. Held(t) /\ ~Held(t)'
      <4>1. sub' = [sub EXCEPT ![t] = "refused"] BY <2>0
      <4>2. (Held(t)' <=> "refused" \in {"creating", "offering", "rejecting"})
            /\ (Held(t) <=> sub[t] \in {"creating", "offering", "rejecting"})
        BY <4>1, <3>2, SubmitHeld
      <4> QED BY <4>2, <2>0
    <3> QED BY <3>1, <3>3
  <2>2. CASE PutRow(t, "failed")
    <3>1. HeldOK
      BY <2>0, <2>1, <2>2, SubmitHeld DEF PutRow
    <3>2. Frame /\ AnswersOK
      BY <2>0, <2>1, <2>2 DEF PutRow, RowsInv, RowOfHeld, AcceptedHasRow
    <3>3. RowOfHeld'
      <4>1. RowOfHeld /\ rows \in [Tasks -> RowStatus] /\ sub \in [Tasks -> SubmitState]
        BY <1>0 DEF RowsInv, TypeOK
      <4>2. \A v \in Tasks \ {t} : rows'[v] = rows[v] /\ sub'[v] = sub[v]
        BY <2>0, <2>2, <4>1 DEF PutRow
      <4>3. sub'[t] = "refused" /\ UNCHANGED <<queue, pc, job>>
        BY <2>0, <4>1
      <4>4. ~Queued(t) /\ (\A w \in Workers : Working(w) => job[w] \in Tasks \ {t})
        BY <1>0, <2>0 DEF Ownership
      <4>5. \A v \in Tasks : Queued(v)' <=> Queued(v)
        BY <4>3 DEF Queued
      <4>6. \A v \in Tasks :
              /\ sub'[v] \in {"idle", "creating"} => rows'[v] = "absent"
              /\ sub'[v] \in {"offering", "rejecting"} => rows'[v] = "pending"
        BY <4>1, <4>2, <4>3 DEF RowOfHeld
      <4>7. \A v \in Tasks : Queued(v)' => rows'[v] = "pending"
        BY <4>1, <4>2, <4>4, <4>5 DEF RowOfHeld
      <4>8. \A w \in Workers :
              /\ pc[w] \in {"load", "mark"} => rows'[job[w]] = "pending"
              /\ pc[w] \in {"check", "tool", "audit", "save"} => rows'[job[w]] = "running"
        BY <4>1, <4>2, <4>4 DEF RowOfHeld, Working
      <4> QED
        BY <4>3, <4>6, <4>7, <4>8 DEF RowOfHeld
    <3> QED BY <2>0, <2>2, <3>1, <3>2, <3>3, RowsStep DEF PutRow
  <2>3. CASE LoseWrite(TaskWrite(t, "failed"))
    <3>1. HeldOK /\ t \in faulted'
      BY <2>0, <2>1, <2>3, SubmitHeld DEF LoseWrite, TaskWrite
    <3>2. Frame /\ AnswersOK
      BY <2>0, <2>1, <2>3 DEF LoseWrite, RowsInv, RowOfHeld, AcceptedHasRow
    <3>3. RowOfHeld'
      BY <1>0, <2>0, <2>3 DEF LoseWrite, RowsInv, RowOfHeld, Ownership
    <3>4. "failed" \in Lifecycle!Successors(rows'[t])
      BY <2>1, <2>3 DEF LoseWrite, Lifecycle!Successors
    <3>5. (\A x \in lost' \ lost : x = TaskWrite(t, "failed")) /\ Durable
      BY <2>3, FaultsAssumption DEF LoseWrite
    <3> QED
      BY <2>0, <2>1, <3>1, <3>2, <3>3, <3>4, <3>5, RowsStep DEF TaskWrite
  <2> QED BY <1>6, <2>2, <2>3 DEF RejectFull
<1> QED BY <1>1, <1>2, <1>3, <1>4, <1>5, <1>6 DEF SubmitStep

(* A worker step that lets go of no task, changes no row and loses no row  *)
(* write.                                                                  *)
LEMMA WorkerMovesOn ==
  ASSUME TypedOwnership, RowsInv, NEW w \in Workers, NEW p \in WorkerState \ {"receive"},
         pc[w] # "receive", pc' = [pc EXCEPT ![w] = p],
         UNCHANGED <<sub, queue, job, rows>>,
         \/ UNCHANGED <<lost, faulted>>
         \/ \E s : LoseWrite(AuditWrite(job[w], s)),
         p \in {"load", "mark"} => rows[job[w]] = "pending",
         p \in {"check", "tool", "audit", "save"} => rows[job[w]] = "running"
  PROVE  RowsInv'
<1>1. \A u \in Tasks : Held(u)' <=> Held(u)
  BY WorkerKeepsHeld
<1>2. \A u : Queued(u)' <=> Queued(u)
  BY DEF Queued
<1>3. RowOfHeld'
  BY <1>2 DEF TypedOwnership, TypeOK, RowsInv, RowOfHeld
<1>4. AcceptedHasRow'
  BY DEF RowsInv, AcceptedHasRow
<1>5. /\ lost \subseteq lost' /\ faulted \subseteq faulted'
      /\ \A x \in lost' \ lost : /\ x.table # "task" /\ x.task \in faulted' /\ Durable
                                 /\ \A y \in lost' \ lost : y = x
  BY FaultsAssumption DEF LoseWrite, AuditWrite
<1>6. \A u \in Tasks : sub[u] \in {"refused", "gone"} =>
        rows[u] \in {"absent", "pending", "failed"}
  BY DEF RowsInv
<1> QED
  BY <1>1, <1>3, <1>4, <1>5, <1>6, RowsStep DEF TypedOwnership

(* A worker step that lets go of the task: the row is written, or the      *)
(* write is lost, or nothing was written and a fault is recorded.          *)
LEMMA WorkerLetsGo ==
  ASSUME TypedOwnership, RowsInv, NEW w \in Workers, NEW s,
         pc[w] # "receive", pc' = [pc EXCEPT ![w] = "receive"],
         UNCHANGED <<sub, queue, job>>,
         \/ PutRow(job[w], s) /\ s \in Verdict
         \/ LoseWrite(TaskWrite(job[w], s)) /\ s \in Lifecycle!Successors(rows[job[w]])
         \/ UNCHANGED <<rows, lost>> /\ faulted' = faulted \cup {job[w]}
  PROVE  RowsInv'
<1> DEFINE t == job[w]
<1>1. /\ \A u \in Tasks : Held(u)' <=> Held(u) /\ u # t
      /\ t \in Tasks /\ Held(t)
  BY WorkerDropsHeld
<1>2. \A u : Queued(u)' <=> Queued(u)
  BY DEF Queued
<1>3. sub[t] = "accepted" /\ ~Queued(t) /\ \A v \in Workers : v # w /\ Working(v) => job[v] # t
  BY DEF TypedOwnership, Ownership
<1>4. \A u \in Tasks : u # t => rows'[u] = rows[u]
  BY <1>1 DEF PutRow, LoseWrite, TypedOwnership, TypeOK
<1>5. RowOfHeld'
  BY <1>2, <1>3, <1>4 DEF TypedOwnership, TypeOK, RowsInv, RowOfHeld, Ownership
<1>6. t \in faulted' \/ rows'[t] \notin {"pending", "running"}
  BY <1>1 DEF PutRow, LoseWrite, TaskWrite, TypedOwnership, TypeOK, Verdict
<1>7. AcceptedHasRow'
  BY <1>1, <1>3, <1>4 DEF RowsInv, AcceptedHasRow, PutRow, LoseWrite, TypedOwnership, TypeOK, Verdict
<1>8. \A u \in Tasks : sub'[u] \in {"refused", "gone"} =>
        rows'[u] \in {"absent", "pending", "failed"}
  BY <1>3, <1>4 DEF RowsInv
<1>9. lost \subseteq lost' /\ faulted \subseteq faulted'
  BY DEF PutRow, LoseWrite
<1>10. \A x \in lost' \ lost :
         /\ x = TaskWrite(t, s) /\ t \in faulted' /\ Durable
         /\ s \in Lifecycle!Successors(rows'[t])
  BY FaultsAssumption DEF PutRow, LoseWrite, TaskWrite
<1>11. \A x \in lost' \ lost : x.task = t /\ x.status = s
  BY <1>10 DEF TaskWrite
<1> HIDE DEF t
<1> QED
  BY <1>1, <1>3, <1>4, <1>5, <1>6, <1>7, <1>8, <1>9, <1>10, <1>11, RowsStep DEF TypedOwnership

LEMMA WorkerRows ==
  ASSUME TypedOwnership, RowsInv, NEW w \in Workers, WorkerStep(w)
  PROVE  RowsInv'
<1> USE DEF WorkerGoes
<1> DEFINE t == job[w]
<1>0. /\ pc[w] \in {"load", "mark"} => rows[t] = "pending"
      /\ pc[w] \in {"check", "tool", "audit", "save"} => rows[t] = "running"
      /\ pc[w] # "receive" => t \in Tasks
      /\ verdict[w] \in Verdict
  BY DEF RowsInv, RowOfHeld, TypedOwnership, TypeOK, Ownership
<1>1. CASE Receive(w)
  <2> DEFINE h == Head(queue)
  <2>1. h \in Tasks /\ Queued(h) /\ rows[h] = "pending"
    <3>1. h \in Tasks /\ h = queue[1] /\ 1 \in 1..Len(queue)
      BY <1>1 DEF Receive, TypedOwnership, TypeOK
    <3>2. Queued(h)
      BY <3>1 DEF Queued
    <3> QED BY <3>1, <3>2 DEF RowsInv, RowOfHeld
  <2>2. \A u \in Tasks : Queued(u)' => Queued(u)
    BY <1>1 DEF Receive, Queued, TypedOwnership, TypeOK
  <2>3. \A u \in Tasks : Queued(u) => Queued(u)' \/ u = h
    <3> SUFFICES ASSUME NEW u \in Tasks, Queued(u), u # h PROVE Queued(u)'
      OBVIOUS
    <3>1. PICK i \in 1..Len(queue) : queue[i] = u
      BY DEF Queued
    <3>2. i # 1 /\ i - 1 \in 1..Len(queue') /\ queue'[i - 1] = u
      BY <1>1, <3>1 DEF Receive, TypedOwnership, TypeOK
    <3> QED BY <3>2 DEF Queued
  <2>4. pc' = [pc EXCEPT ![w] = "load"] /\ job' = [job EXCEPT ![w] = h] /\ pc[w] = "receive"
    BY <1>1 DEF Receive
  <2>5. \A u \in Tasks : Held(u)' <=> Held(u)
    BY <1>1, <2>1, <2>2, <2>3, <2>4 DEF Receive, Held, Submitting, TypedOwnership, TypeOK
  <2>6. RowOfHeld'
    BY <1>1, <2>1, <2>2, <2>4 DEF Receive, RowsInv, RowOfHeld, TypedOwnership, TypeOK
  <2>7. AcceptedHasRow'
    BY <1>1 DEF Receive, RowsInv, AcceptedHasRow
  <2> QED BY <1>1, <2>5, <2>6, <2>7, RowsStep DEF Receive, RowsInv, TypedOwnership
<1>2. CASE Load(w)
  BY <1>0, <1>2, WorkerMovesOn DEF Load, WorkerState
<1>3. CASE LoadFails(w)
  <2>1. rows[t] # "absent" /\ t \in Tasks
    BY <1>0, <1>3 DEF LoadFails
  <2> QED BY <1>3, <2>1, WorkerLetsGo DEF LoadFails
<1>4. CASE MarkRunning(w)
  <2>0. pc[w] = "mark" /\ rows[t] = "pending" /\ t \in Tasks /\ UNCHANGED <<sub, queue, job>>
    BY <1>0, <1>4 DEF MarkRunning
  <2>1. CASE pc' = [pc EXCEPT ![w] = "check"] /\ PutRow(t, "running")
    <3>1. \A u \in Tasks : Held(u)' <=> Held(u)
      BY <2>0, <2>1, WorkerKeepsHeld
    <3>2. \A u : Queued(u)' <=> Queued(u)
      BY <2>0 DEF Queued
    <3>3. Held(t) /\ sub[t] = "accepted" /\ ~Queued(t)
          /\ \A v \in Workers : v # w /\ Working(v) => job[v] # t
      BY <2>0 DEF TypedOwnership, Ownership, Held
    <3>4. \A u \in Tasks : rows'[u] = IF u = t THEN "running" ELSE rows[u]
      BY <2>0, <2>1 DEF PutRow, TypedOwnership, TypeOK
    <3>5. RowOfHeld'
      <4>1. \A v \in Workers : v # w /\ Working(v) => job[v] \in Tasks /\ job[v] # t
        BY <3>3 DEF TypedOwnership, Ownership
      <4>2. \A v \in Workers : pc'[v] = IF v = w THEN "check" ELSE pc[v]
        BY <2>1 DEF TypedOwnership, TypeOK
      <4>3. \A v \in Workers :
              /\ pc'[v] \in {"load", "mark"} => rows'[job'[v]] = "pending"
              /\ pc'[v] \in {"check", "tool", "audit", "save"} => rows'[job'[v]] = "running"
        BY <2>0, <3>4, <4>1, <4>2 DEF RowsInv, RowOfHeld
      <4>4. \A u \in Tasks :
              /\ sub'[u] \in {"idle", "creating"} => rows'[u] = "absent"
              /\ sub'[u] \in {"offering", "rejecting"} => rows'[u] = "pending"
              /\ Queued(u)' => rows'[u] = "pending"
        BY <2>0, <3>2, <3>3, <3>4 DEF RowsInv, RowOfHeld
      <4> QED
        BY <4>3, <4>4 DEF RowOfHeld
    <3>6. AcceptedHasRow' /\ \A u \in Tasks : sub'[u] \in {"refused", "gone"} =>
            rows'[u] \in {"absent", "pending", "failed"}
      BY <2>0, <3>3, <3>4 DEF RowsInv, AcceptedHasRow
    <3> QED
      BY <2>0, <2>1, <3>1, <3>3, <3>4, <3>5, <3>6, RowsStep DEF PutRow, TypedOwnership
  <2>2. CASE pc' = [pc EXCEPT ![w] = "receive"] /\ LoseWrite(TaskWrite(t, "running"))
    <3>1. "running" \in Lifecycle!Successors(rows[t])
      BY <2>0 DEF Lifecycle!Successors
    <3> QED BY <2>0, <2>2, <3>1, WorkerLetsGo
  <2> QED BY <1>4, <2>1, <2>2 DEF MarkRunning
<1>5. CASE Deny(w)
  BY <1>0, <1>5, WorkerMovesOn DEF Deny, WorkerState
<1>6. CASE StartTool(w)
  BY <1>0, <1>6, WorkerMovesOn DEF StartTool, WorkerState
<1>7. CASE ToolReturns(w)
  BY <1>0, <1>7, WorkerMovesOn DEF ToolReturns, WorkerState
<1>8. CASE SaveAudit(w)
  <2>1. /\ pc[w] = "audit" /\ pc' = [pc EXCEPT ![w] = "save"]
        /\ UNCHANGED <<sub, queue, job, rows>>
        /\ \/ UNCHANGED <<lost, faulted>>
           \/ \E s : LoseWrite(AuditWrite(t, s))
    BY <1>8 DEF SaveAudit, PutAudit, LoseWrite
  <2> QED BY <1>0, <2>1, WorkerMovesOn DEF WorkerState
<1>9. CASE SaveResult(w)
  <2>1. verdict[w] \in Lifecycle!Successors(rows[t])
    BY <1>0, <1>9 DEF SaveResult, Lifecycle!Successors, Lifecycle!Terminal, Verdict
  <2> QED BY <1>0, <1>9, <2>1, WorkerLetsGo DEF SaveResult
<1> QED
  BY <1>1, <1>2, <1>3, <1>4, <1>5, <1>6, <1>7, <1>8, <1>9 DEF WorkerStep

LEMMA LandRows ==
  ASSUME TypedOwnership, RowsInv, NEW x \in lost, Land(x)
  PROVE  RowsInv'
<1> DEFINE t == x.task
<1>0. t \in Tasks /\ t \in faulted /\ Durable
  BY DEF TypedOwnership, TypeOK, Write, RowsInv, LostRows
<1>1. \A u : Queued(u)' <=> Queued(u)
  BY DEF Land, Queued
<1>2. \A u \in Tasks : Held(u)' <=> Held(u)
  BY <1>1 DEF Land, Held, Submitting
<1>3. CASE x.table = "task"
  <2>1. /\ ~Held(t) /\ sub[t] \in {"accepted", "refused"}
        /\ sub[t] = "refused" => x.status \in {"pending", "failed"}
        /\ \A y \in lost' : y.table = "task" => y.task # t
        /\ x.status # "absent"
    BY <1>3 DEF RowsInv, LostRows, Land, TypedOwnership, TypeOK, Write
  <2>2. \A u \in Tasks : rows'[u] = IF u = t THEN x.status ELSE rows[u]
    BY <1>0, <1>3 DEF Land, TypedOwnership, TypeOK
  <2>3. RowOfHeld'
    <3>1. \A v \in Workers : Working(v) => job[v] \in Tasks /\ job[v] # t
      BY <2>1 DEF Held, TypedOwnership, Ownership
    <3>2. ~Queued(t)
      BY <2>1 DEF Held
    <3>3. \A v \in Workers :
            /\ pc'[v] \in {"load", "mark"} => rows'[job'[v]] = "pending"
            /\ pc'[v] \in {"check", "tool", "audit", "save"} => rows'[job'[v]] = "running"
      BY <2>2, <3>1 DEF Land, RowsInv, RowOfHeld
    <3>4. \A u \in Tasks :
            /\ sub'[u] \in {"idle", "creating"} => rows'[u] = "absent"
            /\ sub'[u] \in {"offering", "rejecting"} => rows'[u] = "pending"
            /\ Queued(u)' => rows'[u] = "pending"
      BY <1>1, <2>1, <2>2, <3>2 DEF Land, RowsInv, RowOfHeld
    <3> QED BY <3>3, <3>4 DEF RowOfHeld
  <2>4. LostRows'
    <3> SUFFICES ASSUME NEW y \in lost' PROVE
           /\ y.task \in faulted'
           /\ y.table = "task" =>
                /\ ~Held(y.task)' /\ sub'[y.task] \in {"accepted", "refused"}
                /\ sub'[y.task] = "refused" => y.status \in {"pending", "failed"}
                /\ y.status \in Lifecycle!Successors(rows'[y.task])
                /\ \A z \in lost' : z.table = "task" /\ z.task = y.task => z = y
      BY DEF LostRows
    <3>1. y \in lost /\ y.task \in Tasks
      BY DEF Land, TypedOwnership, TypeOK, Write
    <3>2. y.table = "task" => rows'[y.task] = rows[y.task]
      BY <2>1, <2>2, <3>1
    <3> QED
      BY <1>2, <3>1, <3>2 DEF Land, RowsInv, LostRows
  <2>5. AcceptedHasRow' /\ NoSilentOrphan'
    BY <1>0, <1>2, <2>1, <2>2 DEF Land, RowsInv, AcceptedHasRow, NoSilentOrphan
  <2>6. \A u \in Tasks : sub'[u] \in {"refused", "gone"} =>
          rows'[u] \in {"absent", "pending", "failed"}
    BY <2>1, <2>2 DEF Land, RowsInv
  <2> QED
    BY <1>0, <2>3, <2>4, <2>5, <2>6 DEF RowsInv
<1>4. CASE x.table # "task"
  <2>1. UNCHANGED <<sub, pc, job, rows, faulted>> /\ lost' \subseteq lost
    BY <1>4 DEF Land
  <2>2. RowOfHeld' /\ AcceptedHasRow'
    BY <1>1, <2>1 DEF RowsInv, RowOfHeld, AcceptedHasRow
  <2>3. NoSilentOrphan'
    BY <1>2, <2>1 DEF RowsInv, NoSilentOrphan
  <2>4. \A y \in lost : y.task \in Tasks
    BY DEF TypedOwnership, TypeOK, Write
  <2>5. LostRows'
    BY <1>2, <2>1, <2>4 DEF RowsInv, LostRows
  <2> QED
    BY <2>1, <2>2, <2>3, <2>5 DEF RowsInv
<1> QED BY <1>3, <1>4

LEMMA RestartRows ==
  ASSUME TypedOwnership, RowsInv, Restart
  PROVE  RowsInv'
<1>1. \A u \in Tasks : ~Held(u)' /\ ~Queued(u)'
  BY DEF Restart, Held, Submitting, Queued, TypedOwnership, TypeOK
<1>2. \A u \in Tasks : sub'[u] = IF Submitting(u) THEN "gone" ELSE sub[u]
  BY DEF Restart
<1>3. \A u \in Tasks : rows'[u] = IF Durable THEN rows[u] ELSE "absent"
  BY DurableAssumption DEF Restart, TypedOwnership, TypeOK
<1>4. RowOfHeld'
  <2>1. \A v \in Workers : pc'[v] = "receive"
    BY DEF Restart
  <2>2. \A u \in Tasks :
          /\ sub'[u] \in {"idle", "creating"} => rows'[u] = "absent"
          /\ sub'[u] \notin {"offering", "rejecting"}
    BY <1>2, <1>3 DEF Submitting, RowsInv, RowOfHeld
  <2> QED BY <1>1, <2>1, <2>2 DEF RowOfHeld
<1>5. \A y \in lost : y.task \in Tasks
  BY DEF TypedOwnership, TypeOK, Write
<1>6. LostRows'
  <2>1. \A y \in lost : y.table = "task" =>
          sub'[y.task] = sub[y.task] /\ rows'[y.task] = rows[y.task]
    BY <1>2, <1>3, <1>5 DEF RowsInv, LostRows, Submitting
  <2> QED
    BY <1>1, <1>5, <2>1 DEF Restart, RowsInv, LostRows
<1>7. AcceptedHasRow'
  BY <1>2, <1>3 DEF RowsInv, AcceptedHasRow
<1>8. NoSilentOrphan'
  BY <1>3 DEF Restart, RowsInv, NoSilentOrphan
<1>9. \A u \in Tasks : sub'[u] \in {"refused", "gone"} =>
        rows'[u] \in {"absent", "pending", "failed"}
  BY <1>2, <1>3 DEF Submitting, RowsInv, RowOfHeld
<1>10. lost' # {} => Durable
  BY DEF Restart, RowsInv
<1> QED
  BY <1>4, <1>6, <1>7, <1>8, <1>9, <1>10 DEF RowsInv

RowsAndOwners == TypedOwnership /\ RowsInv

LEMMA NextRows == RowsAndOwners /\ [Next]_vars => RowsInv'
<1> SUFFICES ASSUME TypedOwnership, RowsInv, [Next]_vars PROVE RowsInv'
  BY DEF RowsAndOwners
<1>1. ASSUME NEW t \in Tasks, Refuse(t) \/ Submit(t) \/ SubmitStep(t)
      PROVE  RowsInv'
  BY <1>1, SubmitRows
<1>2. ASSUME NEW w \in Workers, WorkerStep(w) PROVE RowsInv'
  BY <1>2, WorkerRows
<1>3. ASSUME NEW x \in lost, Land(x) PROVE RowsInv'
  BY <1>3, LandRows
<1>4. CASE Restart
  BY <1>4, RestartRows
<1>5. CASE UNCHANGED vars
  BY <1>5 DEF vars, RowsInv, RowOfHeld, LostRows, AcceptedHasRow, NoSilentOrphan,
              Held, Submitting, Queued
<1> QED
  BY <1>1, <1>2, <1>3, <1>4, <1>5 DEF Next

(* Who holds a task and what its row says agree in every reachable state.  *)
THEOREM RowsInvariant == Spec => []RowsAndOwners
<1>1. Init => RowsAndOwners
  BY InitType, InitOwnership, InitRows DEF RowsAndOwners, TypedOwnership
<1>2. RowsAndOwners /\ [Next]_vars => RowsAndOwners'
  BY NextTypedOwnership, NextRows DEF RowsAndOwners
<1> QED
  BY <1>1, <1>2, PTL DEF Spec

(* A task whose submission returned no id never runs, and its row never    *)
(* says it did.                                                            *)
THEOREM RefusedTaskNeverRuns == Spec => []RefusedNeverRuns
<1>1. RowsAndOwners => RefusedNeverRuns
  BY DEF RowsAndOwners, TypedOwnership, Ownership, RowsInv, RefusedNeverRuns
<1> QED
  BY <1>1, RowsInvariant, PTL

(* No pending or running row is left behind without a store error or a     *)
(* restart on its way.                                                     *)
THEOREM OrphansHaveACause == Spec => []NoSilentOrphan
<1>1. RowsAndOwners => NoSilentOrphan
  BY DEF RowsAndOwners, RowsInv
<1> QED
  BY <1>1, RowsInvariant, PTL

(* In a durable store every id that was given out has a row.               *)
THEOREM AcceptedTaskHasRow == Spec => []AcceptedHasRow
<1>1. RowsAndOwners => AcceptedHasRow
  BY DEF RowsAndOwners, RowsInv
<1> QED
  BY <1>1, RowsInvariant, PTL

-----------------------------------------------------------------------------
(* The rows implement the abstract lifecycle.                              *)

LEMMA NextLifecycle == RowsAndOwners /\ [Next]_vars => [Lifecycle!Next]_rows
<1> SUFFICES ASSUME TypedOwnership, RowsInv, [Next]_vars PROVE [Lifecycle!Next]_rows
  BY DEF RowsAndOwners
<1>1. \A t \in Tasks : \A s \in Lifecycle!Successors(rows[t]) :
        rows' = [rows EXCEPT ![t] = s] => Lifecycle!Next
  BY DEF Lifecycle!Next, Lifecycle!Advance
<1>2. ASSUME NEW t \in Tasks, Refuse(t) \/ Submit(t) \/ SubmitStep(t)
      PROVE  [Lifecycle!Next]_rows
  <2>1. CASE CreateRow(t)
    <3>1. "pending" \in Lifecycle!Successors(rows[t])
      BY <2>1 DEF CreateRow, SubmitGoes, RowsInv, RowOfHeld, Lifecycle!Successors
    <3> QED BY <1>1, <2>1, <3>1 DEF CreateRow, PutRow, LoseWrite
  <2>2. CASE RejectFull(t)
    <3>1. "failed" \in Lifecycle!Successors(rows[t])
      BY <2>2 DEF RejectFull, SubmitGoes, RowsInv, RowOfHeld, Lifecycle!Successors
    <3> QED BY <1>1, <2>2, <3>1 DEF RejectFull, PutRow, LoseWrite
  <2>3. CASE Refuse(t) \/ Submit(t) \/ Enqueue(t) \/ QueueFull(t)
    BY <2>3 DEF Refuse, Submit, Enqueue, QueueFull
  <2> QED BY <1>2, <2>1, <2>2, <2>3 DEF SubmitStep
<1>3. ASSUME NEW w \in Workers, WorkerStep(w)
      PROVE  [Lifecycle!Next]_rows
  <2>1. pc[w] # "receive" => job[w] \in Tasks
    BY DEF TypedOwnership, Ownership
  <2>2. CASE MarkRunning(w)
    <3>1. job[w] \in Tasks /\ "running" \in Lifecycle!Successors(rows[job[w]])
      BY <2>1, <2>2 DEF MarkRunning, WorkerGoes, RowsInv, RowOfHeld, Lifecycle!Successors
    <3> QED BY <1>1, <2>2, <3>1 DEF MarkRunning, PutRow, LoseWrite
  <2>3. CASE SaveResult(w)
    <3>1. job[w] \in Tasks /\ verdict[w] \in Lifecycle!Successors(rows[job[w]])
      BY <2>1, <2>3 DEF SaveResult, WorkerGoes, RowsInv, RowOfHeld, TypedOwnership, TypeOK,
                        Lifecycle!Successors, Lifecycle!Terminal, Verdict
    <3> QED BY <1>1, <2>3, <3>1 DEF SaveResult, PutRow, LoseWrite
  <2>4. CASE SaveAudit(w)
    BY <2>4 DEF SaveAudit, PutAudit, LoseWrite
  <2>5. CASE \/ Receive(w) \/ Load(w) \/ LoadFails(w) \/ Deny(w) \/ StartTool(w)
             \/ ToolReturns(w)
    BY <2>5 DEF Receive, Load, LoadFails, Deny, StartTool, ToolReturns
  <2> QED BY <1>3, <2>2, <2>3, <2>4, <2>5 DEF WorkerStep
<1>4. ASSUME NEW x \in lost, Land(x)
      PROVE  [Lifecycle!Next]_rows
  <2>1. x.task \in Tasks
    BY DEF TypedOwnership, TypeOK, Write
  <2>2. x.table = "task" => x.status \in Lifecycle!Successors(rows[x.task])
    BY DEF RowsInv, LostRows
  <2> QED BY <1>1, <1>4, <2>1, <2>2 DEF Land
<1>5. CASE Restart
  BY <1>5, DurableAssumption DEF Restart, Lifecycle!Next, Lifecycle!Wipe
<1>6. CASE UNCHANGED vars
  BY <1>6 DEF vars
<1> QED
  BY <1>2, <1>3, <1>4, <1>5, <1>6 DEF Next

(* The status a client polls follows the lifecycle of TaskLifecycle: never *)
(* backwards, never out of a terminal status, also when MySQL applies a    *)
(* write late, and rows vanish only all at once with a MemoryStore.        *)
THEOREM RowsFollowLifecycle == Spec => LifecycleSpec
<1>1. Init => Lifecycle!Init
  BY DEF Init, Lifecycle!Init
<1> QED
  BY <1>1, NextLifecycle, RowsInvariant, PTL DEF Spec, LifecycleSpec, Lifecycle!Spec

-----------------------------------------------------------------------------
(* The verdicts are true.                                                  *)

LEMMA InitTruth == Init => TruthInv
BY DEF Init, TruthInv, Truth, Unaudited, Queued

(* A step that starts no tool and touches no audit row or audit write.     *)
AuditFrame ==
  /\ audit' = audit /\ runs' = runs
  /\ faulted \subseteq faulted' /\ lost \subseteq lost'
  /\ \A x \in lost' \ lost : x.table = "task"

LEMMA TruthStays ==
  ASSUME AuditFrame
  PROVE  /\ \A t, s : Truth(t, s) => Truth(t, s)'
         /\ \A t : Unaudited(t) => Unaudited(t)'
BY DEF AuditFrame, Truth, Unaudited, AuditWrite

TruthOfWorkers ==
  /\ \A w \in Workers : pc[w] \in {"load", "mark", "check", "tool", "audit"} =>
       Unaudited(job[w])
  /\ \A w \in Workers : pc[w] = "tool" => runs[job[w]] = 1
  /\ \A w \in Workers : pc[w] = "audit" /\ verdict[w] # "failed" => runs[job[w]] = 1
  /\ \A w \in Workers : pc[w] = "save" => Truth(job[w], verdict[w])

(* What one worker must show; the others are where they were.              *)
LEMMA OneWorkerMoves ==
  ASSUME TruthInv, AuditFrame, NEW w \in Workers,
         \A v \in Workers : v # w =>
           pc'[v] = pc[v] /\ job'[v] = job[v] /\ verdict'[v] = verdict[v],
         pc'[w] \in {"load", "mark", "check", "tool", "audit"} => Unaudited(job'[w]),
         pc'[w] = "tool" => runs[job'[w]] = 1,
         pc'[w] = "audit" /\ verdict'[w] # "failed" => runs[job'[w]] = 1,
         pc'[w] = "save" => Truth(job'[w], verdict'[w])
  PROVE  TruthOfWorkers'
<1>1. /\ \A t, s : Truth(t, s) => Truth(t, s)'
      /\ \A t : Unaudited(t) => Unaudited(t)'
  BY TruthStays
<1>2. \A v \in Workers :
        /\ pc'[v] \in {"load", "mark", "check", "tool", "audit"} => Unaudited(job'[v])
        /\ pc'[v] = "tool" => runs[job'[v]] = 1
        /\ pc'[v] = "audit" /\ verdict'[v] # "failed" => runs[job'[v]] = 1
        /\ pc'[v] = "save" => Truth(job'[v], verdict'[v])
  BY DEF TruthInv
<1>3. runs' = runs
  BY DEF AuditFrame
<1>4. ASSUME NEW v \in Workers
      PROVE  /\ pc'[v] \in {"load", "mark", "check", "tool", "audit"} => Unaudited(job[v])'
             /\ pc'[v] = "save" => Truth(job[v], verdict[v])'
  <2>1. Unaudited(job'[v]) => Unaudited(job[v])'
    BY DEF AuditFrame, Unaudited
  <2>2. Truth(job'[v], verdict'[v]) => Truth(job[v], verdict[v])'
    BY DEF AuditFrame, Truth, AuditWrite
  <2> QED BY <1>2, <2>1, <2>2
<1> QED
  BY <1>2, <1>3, <1>4 DEF TruthOfWorkers

LEMMA TruthStep ==
  ASSUME TypeOK, TruthInv, AuditFrame, TruthOfWorkers',
         \A u \in Tasks : Queued(u)' \/ sub'[u] # "accepted" => Queued(u) \/ sub[u] # "accepted",
         \A u \in Tasks : rows'[u] = rows[u] \/ Truth(u, rows'[u]),
         \A x \in lost' \ lost : Truth(x.task, x.status)
  PROVE  TruthInv'
<1>1. /\ \A t, s : Truth(t, s) => Truth(t, s)'
      /\ \A t : Unaudited(t) => Unaudited(t)'
  BY TruthStays
<1>2. \A t \in Tasks : Queued(t)' \/ sub'[t] # "accepted" => Unaudited(t)'
  BY <1>1 DEF TruthInv
<1>3. \A t \in Tasks : Truth(t, rows[t])'
  <2>1. \A t \in Tasks : Truth(t, rows'[t])
    BY DEF TruthInv
  <2>2. ASSUME NEW t \in Tasks, Truth(t, rows'[t]) PROVE Truth(t, rows[t])'
    BY <2>2 DEF AuditFrame, Truth, AuditWrite
  <2> QED BY <2>1, <2>2
<1>4. \A x \in lost' : x.table = "task" => Truth(x.task, x.status)'
  BY <1>1 DEF TruthInv
<1>5. \A x \in lost' : x.table = "audit" => x \in lost /\ audit'[x.task] = "none"
  BY DEF TruthInv, AuditFrame
<1>6. \A x, y \in lost' : x.table = "audit" /\ y.table = "audit" /\ x.task = y.task => x = y
  BY <1>5 DEF TruthInv
<1> QED
  BY <1>2, <1>3, <1>4, <1>5, <1>6 DEF TruthInv, TruthOfWorkers

LEMMA SubmitTruth ==
  ASSUME TypedOwnership, TruthInv, NEW t \in Tasks,
         Refuse(t) \/ Submit(t) \/ SubmitStep(t)
  PROVE  TruthInv'
<1> USE DEF SubmitGoes, workerVars
<1>1. AuditFrame
  BY DEF Refuse, Submit, SubmitStep, CreateRow, Enqueue, QueueFull, RejectFull,
         PutRow, LoseWrite, AuditFrame, TaskWrite
<1>2. UNCHANGED <<pc, job, verdict>>
  BY DEF Refuse, Submit, SubmitStep, CreateRow, Enqueue, QueueFull, RejectFull
<1>3. TruthOfWorkers'
  <2>1. TruthOfWorkers
    BY DEF TruthInv, TruthOfWorkers
  <2> QED
    BY <1>1, <1>2, <2>1 DEF TruthOfWorkers, AuditFrame, Truth, Unaudited, AuditWrite
<1>4. \A u \in Tasks : Queued(u)' \/ sub'[u] # "accepted" => Queued(u) \/ sub[u] # "accepted"
  <2>1. CASE Enqueue(t)
    <3>1. \A u \in Tasks : Queued(u)' => Queued(u) \/ u = t
      BY <2>1 DEF Enqueue, Queued, TypedOwnership, TypeOK
    <3> QED BY <2>1, <3>1 DEF Enqueue, TypedOwnership, TypeOK
  <2>2. CASE ~Enqueue(t)
    <3>1. queue' = queue /\ sub[t] # "accepted" /\ \A u \in Tasks : u # t => sub'[u] = sub[u]
      BY <2>2 DEF Refuse, Submit, SubmitStep, CreateRow, QueueFull, RejectFull,
                  TypedOwnership, TypeOK
    <3> QED BY <3>1 DEF Queued
  <2> QED BY <2>1, <2>2
<1>5. Truth(t, "pending") /\ Truth(t, "failed")
  <2>1. sub[t] # "accepted"
    BY DEF Refuse, Submit, SubmitStep, CreateRow, Enqueue, QueueFull, RejectFull
  <2>2. audit[t] = "none"
    BY <2>1 DEF TruthInv, Unaudited
  <2> QED BY <2>2 DEF Truth
<1>6. \A u \in Tasks : rows'[u] = rows[u] \/ (u = t /\ rows'[u] \in {"pending", "failed"})
  BY DEF Refuse, Submit, SubmitStep, CreateRow, Enqueue, QueueFull, RejectFull,
         PutRow, LoseWrite, TypedOwnership, TypeOK
<1>7. \A x \in lost' \ lost : x.task = t /\ x.status \in {"pending", "failed"}
  BY DEF Refuse, Submit, SubmitStep, CreateRow, Enqueue, QueueFull, RejectFull,
         PutRow, LoseWrite, TaskWrite
<1> QED
  BY <1>1, <1>3, <1>4, <1>5, <1>6, <1>7, TruthStep DEF TypedOwnership

LEMMA StartToolTruth ==
  ASSUME TypedOwnership, RowsInv, TruthInv, NEW w \in Workers, StartTool(w)
  PROVE  TruthInv'
<1> DEFINE t == job[w]
<1>1. /\ pc[w] = "check" /\ pc' = [pc EXCEPT ![w] = "tool"]
      /\ UNCHANGED <<sub, queue, job, verdict, rows, audit, lost, faulted>>
  BY DEF StartTool, WorkerGoes
<1>2. t \in Tasks /\ runs[t] = 0 /\ rows[t] = "running"
  BY <1>1 DEF TypedOwnership, Ownership, RowsInv, RowOfHeld
<1>3. \A u \in Tasks : runs'[u] = IF u = t THEN 1 ELSE runs[u]
  BY <1>2 DEF StartTool, TypedOwnership, TypeOK
<1>4. \A v \in Workers : v # w /\ Working(v) => job[v] \in Tasks /\ job[v] # t
  BY <1>1 DEF TypedOwnership, Ownership
<1>5. \A v \in Workers : pc'[v] = IF v = w THEN "tool" ELSE pc[v]
  BY <1>1 DEF TypedOwnership, TypeOK
<1>6. \A u : (Unaudited(u)' <=> Unaudited(u)) /\ (Queued(u)' <=> Queued(u))
  BY <1>1 DEF Unaudited, Queued
<1>7. \A u \in Tasks : \A s : u # t => (Truth(u, s)' <=> Truth(u, s))
  BY <1>1, <1>3 DEF Truth
<1>8. \A x \in lost : x.task \in Tasks /\ (x.table = "task" => x.task # t)
  <2>1. Held(t)
    BY <1>1 DEF Held
  <2> QED BY <2>1 DEF RowsInv, LostRows, TypedOwnership, TypeOK, Write
<1>9. TruthOfWorkers'
  <2>1. \A v \in Workers : pc'[v] \in {"load", "mark", "check", "tool", "audit"} =>
          Unaudited(job[v])'
    BY <1>1, <1>5, <1>6 DEF TruthInv
  <2>2. \A v \in Workers : /\ pc'[v] = "tool" => runs'[job'[v]] = 1
                           /\ pc'[v] = "audit" /\ verdict'[v] # "failed" => runs'[job'[v]] = 1
    BY <1>1, <1>2, <1>3, <1>4, <1>5 DEF TruthInv
  <2>3. ASSUME NEW v \in Workers, pc'[v] = "save" PROVE Truth(job[v], verdict[v])'
    <3>1. pc[v] = "save" /\ job[v] \in Tasks /\ job[v] # t
      BY <1>4, <1>5, <2>3
    <3>2. Truth(job[v], verdict[v])
      BY <3>1 DEF TruthInv
    <3> QED BY <1>1, <1>3, <3>1, <3>2 DEF Truth
  <2> QED BY <2>1, <2>2, <2>3 DEF TruthOfWorkers
<1>10. \A u \in Tasks : Truth(u, rows[u])'
  <2> SUFFICES ASSUME NEW u \in Tasks PROVE Truth(u, rows[u])'
    OBVIOUS
  <2>1. Truth(u, rows[u])
    BY DEF TruthInv
  <2> QED BY <1>1, <1>2, <1>3, <2>1 DEF Truth
<1>11. \A x \in lost' : x.table = "task" => Truth(x.task, x.status)'
  BY <1>1, <1>7, <1>8 DEF TruthInv
<1> QED
  BY <1>1, <1>6, <1>9, <1>10, <1>11 DEF TruthInv, TruthOfWorkers

LEMMA SaveAuditTruth ==
  ASSUME TypedOwnership, RowsInv, TruthInv, NEW w \in Workers, SaveAudit(w)
  PROVE  TruthInv'
<1> DEFINE t == job[w]
           a == AuditOf(verdict[w])
<1>1. /\ pc[w] = "audit" /\ pc' = [pc EXCEPT ![w] = "save"]
      /\ UNCHANGED <<sub, queue, job, runs, rows>>
  BY DEF SaveAudit, WorkerGoes, PutAudit, LoseWrite
<1>2. /\ t \in Tasks /\ sub[t] = "accepted" /\ ~Queued(t) /\ Held(t)
      /\ rows[t] = "running" /\ verdict[w] \in Verdict
  BY <1>1 DEF TypedOwnership, TypeOK, Ownership, RowsInv, RowOfHeld, Held
<1>3. Unaudited(t) /\ (verdict[w] # "failed" => runs[t] = 1)
  BY <1>1 DEF TruthInv
<1>4. \A v \in Workers : v # w /\ Working(v) => job[v] \in Tasks /\ job[v] # t
  BY <1>1 DEF TypedOwnership, Ownership
<1>5. \A v \in Workers : pc'[v] = IF v = w THEN "save" ELSE pc[v]
  BY <1>1 DEF TypedOwnership, TypeOK
<1>6. \A u : Queued(u)' <=> Queued(u)
  BY <1>1 DEF Queued
<1>7. \A x \in lost : x.task \in Tasks /\ (x.table = "task" => x.task # t)
  BY <1>2 DEF RowsInv, LostRows, TypedOwnership, TypeOK, Write
<1>8. a = IF verdict[w] = "success" THEN "success" ELSE "failed"
  BY DEF AuditOf
<1>9. /\ faulted \subseteq faulted'
      /\ \A x \in lost' \ lost : x = AuditWrite(t, a)
      /\ lost \subseteq lost'
      /\ \A u \in Tasks : u # t => audit'[u] = audit[u]
      /\ \A v \in Workers : v # w => verdict'[v] = verdict[v]
  BY <1>2 DEF SaveAudit, PutAudit, LoseWrite, TypedOwnership, TypeOK
<1>10. \A x \in lost' \ lost : x.table = "audit" /\ x.task = t
  BY <1>9 DEF AuditWrite
<1>11. \A u \in Tasks : u # t => (Unaudited(u) => Unaudited(u)')
  BY <1>9, <1>10 DEF Unaudited
<1>12. \A u \in Tasks : \A s : u # t => (Truth(u, s) => Truth(u, s)')
  <2>1. \A u : u # t => (AuditWrite(u, "success") \in lost' => AuditWrite(u, "success") \in lost)
    BY <1>9 DEF AuditWrite
  <2> QED BY <1>1, <1>9, <2>1 DEF Truth
<1>13. Truth(job[w], verdict[w])'
  <2>1. CASE PutAudit(t, a) /\ UNCHANGED verdict
    <3>1. audit'[t] = a /\ lost' = lost
      BY <1>2, <2>1 DEF PutAudit, TypedOwnership, TypeOK
    <3>2. AuditWrite(t, "success") \notin lost
      BY <1>3 DEF Unaudited, AuditWrite
    <3> QED BY <1>1, <1>2, <1>3, <1>8, <2>1, <3>1, <3>2 DEF Truth, Verdict
  <2>2. CASE /\ LoseWrite(AuditWrite(t, a))
             /\ verdict' = [verdict EXCEPT ![w] = IF @ = "timeout" THEN @ ELSE "failed"]
    <3>1. /\ verdict'[w] = IF verdict[w] = "timeout" THEN "timeout" ELSE "failed"
          /\ audit'[t] = "none" /\ t \in faulted'
      BY <1>3, <2>2 DEF LoseWrite, AuditWrite, Unaudited, TypedOwnership, TypeOK
    <3>2. verdict[w] = "timeout" => AuditWrite(t, "success") \notin lost'
      BY <1>3, <1>8, <2>2 DEF LoseWrite, Unaudited, AuditWrite
    <3> QED BY <1>1, <1>3, <3>1, <3>2 DEF Truth
  <2> QED BY <2>1, <2>2 DEF SaveAudit
<1>14. TruthOfWorkers'
  <2>1. ASSUME NEW v \in Workers, v # w, Working(v)
        PROVE  /\ Unaudited(job[v]) => Unaudited(job[v])'
               /\ Truth(job[v], verdict[v]) => Truth(job[v], verdict[v])'
    <3>1. job[v] \in Tasks /\ job[v] # t /\ job'[v] = job[v] /\ verdict'[v] = verdict[v]
      BY <1>1, <1>4, <1>9, <2>1
    <3>2. Unaudited(job[v]) => Unaudited(job[v])'
      BY <1>9, <1>10, <3>1 DEF Unaudited
    <3>3. AuditWrite(job[v], "success") \in lost' => AuditWrite(job[v], "success") \in lost
      BY <1>9, <3>1 DEF AuditWrite
    <3> QED BY <1>1, <1>9, <3>1, <3>2, <3>3 DEF Truth, AuditWrite
  <2>2. \A v \in Workers : pc'[v] \in {"load", "mark", "check", "tool", "audit"} =>
          Unaudited(job[v])'
    BY <1>5, <2>1 DEF TruthInv
  <2>3. \A v \in Workers : /\ pc'[v] = "tool" => runs'[job'[v]] = 1
                           /\ pc'[v] = "audit" /\ verdict'[v] # "failed" => runs'[job'[v]] = 1
    BY <1>1, <1>5, <1>9 DEF TruthInv
  <2>4. \A v \in Workers : pc'[v] = "save" => Truth(job[v], verdict[v])'
    BY <1>5, <1>13, <2>1 DEF TruthInv
  <2> QED BY <2>2, <2>3, <2>4 DEF TruthOfWorkers
<1>15. \A u \in Tasks : Truth(u, rows[u])'
  <2> SUFFICES ASSUME NEW u \in Tasks PROVE Truth(u, rows[u])'
    OBVIOUS
  <2>1. CASE u = t
    BY <1>1, <1>2, <2>1 DEF Truth
  <2>2. CASE u # t
    <3>1. Truth(u, rows[u])
      BY DEF TruthInv
    <3>2. AuditWrite(u, "success") \in lost' => AuditWrite(u, "success") \in lost
      BY <1>9, <2>2 DEF AuditWrite
    <3> QED BY <1>1, <1>9, <2>2, <3>1, <3>2 DEF Truth, AuditWrite
  <2> QED BY <2>1, <2>2
<1>16. \A x \in lost' : x.table = "task" => Truth(x.task, x.status)'
  BY <1>7, <1>10, <1>12 DEF TruthInv
<1>17. \A x \in lost' : x.table = "audit" => audit'[x.task] = "none"
  <2>1. \A x \in lost : x.table = "audit" => x.task # t /\ audit[x.task] = "none"
    BY <1>3 DEF TruthInv, Unaudited
  <2>2. lost' # lost => audit'[t] = "none"
    BY <1>3 DEF SaveAudit, PutAudit, LoseWrite, Unaudited
  <2> QED BY <1>7, <1>9, <1>10, <2>1, <2>2
<1>18. \A x, y \in lost' : x.table = "audit" /\ y.table = "audit" /\ x.task = y.task => x = y
  BY <1>3, <1>9, <1>10 DEF TruthInv, Unaudited
<1>19. \A u \in Tasks : Queued(u)' \/ sub'[u] # "accepted" => Unaudited(u)'
  BY <1>1, <1>2, <1>6, <1>11 DEF TruthInv
<1> QED
  BY <1>14, <1>15, <1>16, <1>17, <1>18, <1>19 DEF TruthInv, TruthOfWorkers

LEMMA WorkerTruth ==
  ASSUME TypedOwnership, RowsInv, TruthInv, NEW w \in Workers, WorkerStep(w)
  PROVE  TruthInv'
<1> USE DEF WorkerGoes
<1> DEFINE t == job[w]
           Others == \A v \in Workers : v # w =>
                       pc'[v] = pc[v] /\ job'[v] = job[v] /\ verdict'[v] = verdict[v]
<1>0. /\ pc[w] # "receive" => t \in Tasks
      /\ verdict[w] \in Verdict
      /\ pc[w] \in {"load", "mark", "check", "tool", "audit"} => Unaudited(t)
      /\ pc[w] = "tool" => runs[t] = 1
      /\ pc[w] = "audit" /\ verdict[w] # "failed" => runs[t] = 1
      /\ pc[w] = "save" => Truth(t, verdict[w])
  BY DEF TypedOwnership, TypeOK, Ownership, TruthInv
<1>1. CASE Receive(w)
  <2> DEFINE h == Head(queue)
  <2>1. h \in Tasks /\ Queued(h)
    <3>1. h \in Tasks /\ h = queue[1] /\ 1 \in 1..Len(queue)
      BY <1>1 DEF Receive, TypedOwnership, TypeOK
    <3> QED BY <3>1 DEF Queued
  <2>2. \A u \in Tasks : Queued(u)' => Queued(u)
    BY <1>1 DEF Receive, Queued, TypedOwnership, TypeOK
  <2>3. AuditFrame /\ UNCHANGED <<sub, rows, lost>>
    BY <1>1 DEF Receive, AuditFrame
  <2>4. Others /\ pc'[w] = "load" /\ job'[w] = h
    BY <1>1 DEF Receive, TypedOwnership, TypeOK
  <2>5. Unaudited(h)
    BY <2>1 DEF TruthInv
  <2>6. TruthOfWorkers'
    BY <2>3, <2>4, <2>5, OneWorkerMoves
  <2> QED BY <2>2, <2>3, <2>6, TruthStep DEF TypedOwnership
<1>2. CASE Load(w) \/ Deny(w) \/ ToolReturns(w)
  <2>1. AuditFrame /\ UNCHANGED <<sub, queue, job, rows, lost>>
    BY <1>2 DEF Load, Deny, ToolReturns, AuditFrame
  <2>2. Others
    BY <1>2 DEF Load, Deny, ToolReturns, TypedOwnership, TypeOK
  <2>3. /\ pc'[w] \in {"load", "mark", "check", "tool", "audit"} => Unaudited(job'[w])
        /\ pc'[w] \notin {"tool", "save"}
        /\ pc'[w] = "audit" /\ verdict'[w] # "failed" => runs[job'[w]] = 1
    BY <1>0, <1>2 DEF Load, Deny, ToolReturns, TypedOwnership, TypeOK
  <2>4. TruthOfWorkers'
    BY <2>1, <2>2, <2>3, OneWorkerMoves
  <2>5. \A u : Queued(u)' <=> Queued(u)
    BY <2>1 DEF Queued
  <2> QED BY <2>1, <2>4, <2>5, TruthStep DEF TypedOwnership
<1>3. CASE LoadFails(w) \/ MarkRunning(w) \/ SaveResult(w)
  <2>1. /\ AuditFrame /\ UNCHANGED <<sub, queue, job, verdict, runs>>
        /\ \A x \in lost' \ lost : x.task = t /\ (x.status = "running" \/ Truth(t, x.status))
    BY <1>0, <1>3 DEF LoadFails, MarkRunning, SaveResult, PutRow, LoseWrite, TaskWrite, AuditFrame
  <2>2. Others
    BY <1>3 DEF LoadFails, MarkRunning, SaveResult, TypedOwnership, TypeOK
  <2>3. pc'[w] \in {"receive", "check"} /\ (pc'[w] = "check" => Unaudited(job'[w]))
    BY <1>0, <1>3 DEF LoadFails, MarkRunning, SaveResult, TypedOwnership, TypeOK
  <2>4. TruthOfWorkers'
    BY <2>1, <2>2, <2>3, OneWorkerMoves
  <2>5. \A u : Queued(u)' <=> Queued(u)
    BY <2>1 DEF Queued
  <2>6. Truth(t, "running")
    BY DEF Truth
  <2>7. \A u \in Tasks : rows'[u] = rows[u] \/ Truth(u, rows'[u])
    BY <1>0, <1>3, <2>6 DEF LoadFails, MarkRunning, SaveResult, PutRow, LoseWrite,
                            TypedOwnership, TypeOK
  <2> QED BY <2>1, <2>4, <2>5, <2>6, <2>7, TruthStep DEF TypedOwnership
<1>4. CASE StartTool(w)
  BY <1>4, StartToolTruth
<1>5. CASE SaveAudit(w)
  BY <1>5, SaveAuditTruth
<1> QED
  BY <1>1, <1>2, <1>3, <1>4, <1>5 DEF WorkerStep

LEMMA LandTruth ==
  ASSUME TypedOwnership, RowsInv, TruthInv, NEW x \in lost, Land(x)
  PROVE  TruthInv'
<1> DEFINE t == x.task
<1>0. /\ t \in Tasks /\ t \in faulted /\ lost' = lost \ {x}
      /\ UNCHANGED <<sub, queue, pc, job, verdict, runs, faulted>>
  BY DEF Land, TypedOwnership, TypeOK, Write, RowsInv, LostRows
<1>1. \A u : Queued(u)' <=> Queued(u)
  BY <1>0 DEF Queued
<1>2. CASE x.table = "task"
  <2>1. audit' = audit /\ \A u \in Tasks : rows'[u] = IF u = t THEN x.status ELSE rows[u]
    BY <1>0, <1>2 DEF Land, TypedOwnership, TypeOK
  <2>2. \A u : Unaudited(u) => Unaudited(u)'
    BY <1>0, <2>1 DEF Unaudited
  <2>3. \A u, s : Truth(u, s) => Truth(u, s)'
    BY <1>0, <2>1 DEF Truth, AuditWrite
  <2>4. \A u \in Tasks : Truth(u, rows[u])'
    <3> SUFFICES ASSUME NEW u \in Tasks PROVE Truth(u, rows[u])'
      OBVIOUS
    <3>1. Truth(u, rows'[u])
      BY <1>2, <2>1 DEF TruthInv
    <3> QED BY <1>0, <2>1, <3>1 DEF Truth, AuditWrite
  <2>5. TruthOfWorkers'
    <3>1. TruthOfWorkers
      BY DEF TruthInv, TruthOfWorkers
    <3> QED BY <1>0, <2>1, <3>1 DEF TruthOfWorkers, Truth, Unaudited, AuditWrite
  <2>6. \A y \in lost' : /\ y.table = "task" => Truth(y.task, y.status)'
                         /\ y.table = "audit" => audit'[y.task] = "none"
    BY <1>0, <2>1, <2>3 DEF TruthInv
  <2>7. \A y, z \in lost' : y.table = "audit" /\ z.table = "audit" /\ y.task = z.task => y = z
    BY <1>0 DEF TruthInv
  <2>8. \A u \in Tasks : Queued(u)' \/ sub'[u] # "accepted" => Unaudited(u)'
    BY <1>0, <1>1, <2>2 DEF TruthInv
  <2> QED
    BY <2>4, <2>5, <2>6, <2>7, <2>8 DEF TruthInv, TruthOfWorkers
<1>3. CASE x.table = "audit"
  <2>1. /\ rows' = rows /\ audit[t] = "none" /\ ~Unaudited(t)
        /\ \A u \in Tasks : u # t => audit'[u] = audit[u]
        /\ audit'[t] = x.status
        /\ \A y \in lost : y.table = "audit" /\ y.task = t => y = x
    BY <1>0, <1>3 DEF Land, TypedOwnership, TypeOK, TruthInv, Unaudited
  <2>2. x.status = "success" => x = AuditWrite(t, "success")
    BY <1>3 DEF TypedOwnership, TypeOK, Write, AuditWrite
  <2>3. \A u \in Tasks : Unaudited(u) => u # t /\ Unaudited(u)'
    BY <1>0, <2>1 DEF Unaudited
  <2>4. \A u \in Tasks, s \in RowStatus : Truth(u, s) => Truth(u, s)'
    <3> SUFFICES ASSUME NEW u \in Tasks, NEW s \in RowStatus, Truth(u, s)
                 PROVE  Truth(u, s)'
      OBVIOUS
    <3>1. CASE u = t
      BY <1>0, <2>1, <2>2, <3>1 DEF Truth
    <3>2. CASE u # t
      BY <1>0, <2>1, <3>2 DEF Truth, AuditWrite
    <3> QED BY <3>1, <3>2
  <2>5. TruthOfWorkers'
    <3>1. \A v \in Workers : Working(v) => job[v] \in Tasks /\ verdict[v] \in RowStatus
      BY DEF TypedOwnership, TypeOK, Ownership, Verdict, RowStatus
    <3>2. \A v \in Workers : Working(v) =>
            /\ Unaudited(job[v]) => Unaudited(job[v])'
            /\ Truth(job[v], verdict[v]) => Truth(job[v], verdict[v])'
      <4> SUFFICES ASSUME NEW v \in Workers, Working(v)
                   PROVE  /\ Unaudited(job[v]) => Unaudited(job[v])'
                          /\ Truth(job[v], verdict[v]) => Truth(job[v], verdict[v])'
        OBVIOUS
      <4>1. Unaudited(job[v]) => Unaudited(job[v])'
        BY <1>0, <2>1, <3>1 DEF Unaudited
      <4>2. CASE job[v] = t
        BY <1>0, <2>1, <2>2, <4>1, <4>2 DEF Truth
      <4>3. CASE job[v] # t
        BY <1>0, <2>1, <3>1, <4>1, <4>3 DEF Truth, AuditWrite
      <4> QED BY <4>2, <4>3
    <3> QED BY <1>0, <3>2 DEF TruthOfWorkers, TruthInv
  <2>6. \A u \in Tasks : Truth(u, rows[u])'
    <3> SUFFICES ASSUME NEW u \in Tasks PROVE Truth(u, rows[u])'
      OBVIOUS
    <3>1. Truth(u, rows[u])
      BY DEF TruthInv
    <3>2. CASE u = t
      BY <1>0, <2>1, <2>2, <3>1, <3>2 DEF Truth
    <3>3. CASE u # t
      BY <1>0, <2>1, <3>1, <3>3 DEF Truth, AuditWrite
    <3> QED BY <3>2, <3>3
  <2>7. \A y \in lost' : y.table = "task" => Truth(y.task, y.status)'
    BY <1>0, <2>4 DEF TruthInv, TypedOwnership, TypeOK, Write
  <2>8. \A y \in lost' : y.table = "audit" => audit'[y.task] = "none"
    BY <1>0, <2>1 DEF TruthInv, TypedOwnership, TypeOK, Write
  <2>9. \A y, z \in lost' : y.table = "audit" /\ z.table = "audit" /\ y.task = z.task => y = z
    BY <1>0 DEF TruthInv
  <2>10. \A u \in Tasks : Queued(u)' \/ sub'[u] # "accepted" => Unaudited(u)'
    BY <1>0, <1>1, <2>3 DEF TruthInv
  <2> QED
    BY <2>5, <2>6, <2>7, <2>8, <2>9, <2>10 DEF TruthInv, TruthOfWorkers
<1> QED
  BY <1>2, <1>3 DEF TypedOwnership, TypeOK, Write

LEMMA RestartTruth ==
  ASSUME TypedOwnership, RowsInv, TruthInv, Restart
  PROVE  TruthInv'
<1>1. /\ UNCHANGED <<lost, runs>> /\ faulted \subseteq faulted'
      /\ \A v \in Workers : pc'[v] = "receive"
      /\ \A u \in Tasks : ~Queued(u)'
      /\ \A u \in Tasks : sub'[u] # "accepted" => sub[u] # "accepted"
  BY DEF Restart, Queued, Submitting
<1>2. TruthOfWorkers'
  BY <1>1 DEF TruthOfWorkers
<1>3. CASE Durable
  <2>1. UNCHANGED <<rows, audit>>
    BY <1>3 DEF Restart
  <2>2. /\ \A u, s : Truth(u, s) => Truth(u, s)'
        /\ \A u : Unaudited(u) => Unaudited(u)'
    BY <1>1, <2>1 DEF Truth, Unaudited
  <2>3. \A u \in Tasks : Truth(u, rows[u])'
    <3> SUFFICES ASSUME NEW u \in Tasks PROVE Truth(u, rows[u])'
      OBVIOUS
    <3>1. Truth(u, rows[u])
      BY DEF TruthInv
    <3> QED BY <1>1, <2>1, <3>1 DEF Truth
  <2> QED BY <1>1, <1>2, <2>1, <2>2, <2>3 DEF TruthInv, TruthOfWorkers
<1>4. CASE ~Durable
  <2>1. lost' = {} /\ \A u \in Tasks : rows'[u] = "absent" /\ audit'[u] = "none"
    BY <1>1, <1>4 DEF Restart, RowsInv
  <2>2. \A u \in Tasks : Truth(u, rows[u])' /\ Unaudited(u)'
    BY <2>1 DEF Truth, Unaudited
  <2> QED BY <1>2, <2>1, <2>2 DEF TruthInv, TruthOfWorkers
<1> QED BY <1>3, <1>4

LEMMA NextTruth == IInv /\ [Next]_vars => TruthInv'
<1> SUFFICES ASSUME TypedOwnership, RowsInv, TruthInv, [Next]_vars PROVE TruthInv'
  BY DEF IInv
<1>1. ASSUME NEW t \in Tasks, Refuse(t) \/ Submit(t) \/ SubmitStep(t)
      PROVE  TruthInv'
  BY <1>1, SubmitTruth
<1>2. ASSUME NEW w \in Workers, WorkerStep(w) PROVE TruthInv'
  BY <1>2, WorkerTruth
<1>3. ASSUME NEW x \in lost, Land(x) PROVE TruthInv'
  BY <1>3, LandTruth
<1>4. CASE Restart
  BY <1>4, RestartTruth
<1>5. CASE UNCHANGED vars
  BY <1>5 DEF vars, TruthInv, Truth, Unaudited, Queued
<1> QED
  BY <1>1, <1>2, <1>3, <1>4, <1>5 DEF Next

(* The whole invariant of AsyncInvariant holds in every reachable state.   *)
THEOREM InvariantHolds == Spec => []IInv
<1>1. Init => IInv
  BY InitType, InitOwnership, InitRows, InitTruth DEF IInv, TypedOwnership
<1>2. IInv /\ [Next]_vars => IInv'
  BY NextTypedOwnership, NextRows, NextTruth DEF IInv, RowsAndOwners
<1> QED
  BY <1>1, <1>2, PTL DEF Spec

(* A verdict a client can read is true: a success ran once and is audited  *)
(* as a success, a timeout ran, and a failure that hides a success has a   *)
(* store error behind it.                                                  *)
THEOREM VerdictsAreTrue == Spec => []VerdictIsTrue
<1>1. IInv => VerdictIsTrue
  <2> SUFFICES ASSUME TruthInv, NEW t \in Tasks
      PROVE  /\ rows[t] = "success" => runs[t] = 1 /\ audit[t] = "success"
             /\ rows[t] = "timeout" => runs[t] = 1 /\ audit[t] # "success"
             /\ rows[t] = "failed" /\ t \notin faulted => audit[t] # "success"
    BY DEF IInv, VerdictIsTrue
  <2> QED BY DEF TruthInv, Truth
<1> QED
  BY <1>1, InvariantHolds, PTL

=============================================================================
