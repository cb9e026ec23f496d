----------------------------- MODULE QueueGauge -----------------------------
(***************************************************************************)
(* The two gauges of the asynchronous executor (internal/executor):        *)
(* a submission that sent its job, and a worker that received one, read    *)
(* the length of the channel and set the queue gauge to it, in two steps   *)
(* and behind no lock.  A worker counts itself active around its job.      *)
(* What a job does is AsyncTasks' subject.                                 *)
(***************************************************************************)
EXTENDS Naturals, FiniteSets

CONSTANTS Submissions, Workers, QueueSize

ASSUME ActorsAssumption ==
  Submissions \cap Workers = {} /\ IsFiniteSet(Submissions) /\ IsFiniteSet(Workers)
ASSUME QueueSizeAssumption == QueueSize \in Nat \ {0}

Actors == Submissions \cup Workers

VARIABLES
  pc,      \* pc[a]: where a submission or a worker is
  read,    \* read[a]: the length it read
  length,  \* the jobs in the channel
  gauge,   \* async_task_queue_size
  active,  \* active_worker_count
  recent   \* history: the lengths since a time when no update was under way

vars == <<pc, read, length, gauge, active, recent>>
-----------------------------------------------------------------------------
Init ==
  /\ pc = [a \in Actors |-> IF a \in Submissions THEN "send" ELSE "receive"]
  /\ read = [a \in Actors |-> 0]
  /\ length = 0
  /\ gauge = 0
  /\ active = 0
  /\ recent = {0}

Goes(a, from, to) == pc[a] = from /\ pc' = [pc EXCEPT ![a] = to]

(* Nobody is between its change of the channel and its Set.                *)
Quiet == \A a \in Actors : pc[a] \notin {"read", "set"}

Changes(n) ==
  /\ length' = n
  /\ recent' = IF Quiet THEN {n} ELSE recent \cup {n}

(* SubmitAsync: the select with its default branch.                        *)
Send(s) ==
  /\ length < QueueSize
  /\ Goes(s, "send", "read")
  /\ Changes(length + 1)
  /\ UNCHANGED <<read, gauge, active>>

Refuse(s) ==
  /\ length = QueueSize
  /\ Goes(s, "send", "done")
  /\ UNCHANGED <<read, length, gauge, active, recent>>

(* Mutant: the length is read before the job is taken out.                 *)
ReceiveReadsFirst(w) ==
  /\ length > 0
  /\ Goes(w, "receive", "set")
  /\ read' = [read EXCEPT ![w] = length]
  /\ Changes(length - 1)
  /\ UNCHANGED <<gauge, active>>

Receive(w) ==
  /\ length > 0
  /\ Goes(w, "receive", "read")
  /\ Changes(length - 1)
  /\ UNCHANGED <<read, gauge, active>>

(* len(e.queue) ...                                                        *)
ReadLength(a) ==
  /\ Goes(a, "read", "set")
  /\ read' = [read EXCEPT ![a] = length]
  /\ UNCHANGED <<length, gauge, active, recent>>

(* ... and Set.                                                            *)
SetGauge(a) ==
  /\ Goes(a, "set", IF a \in Workers THEN "inc" ELSE "done")
  /\ gauge' = read[a]
  /\ UNCHANGED <<read, length, active, recent>>

IncActive(w) ==
  /\ Goes(w, "inc", "run")
  /\ active' = active + 1
  /\ UNCHANGED <<read, length, gauge, recent>>

(* Mutant: a job that is dropped is not counted down.                      *)
RunJobDropped(w) ==
  /\ Goes(w, "run", "receive") \/ Goes(w, "run", "dec")
  /\ UNCHANGED <<read, length, gauge, active, recent>>

RunJob(w) ==
  /\ Goes(w, "run", "dec")
  /\ UNCHANGED <<read, length, gauge, active, recent>>

DecActive(w) ==
  /\ Goes(w, "dec", "receive")
  /\ active' = active - 1
  /\ UNCHANGED <<read, length, gauge, recent>>

SubmitStep(s) == Send(s) \/ Refuse(s) \/ ReadLength(s) \/ SetGauge(s)

WorkerStep(w) ==
  \/ Receive(w) \/ ReadLength(w) \/ SetGauge(w)
  \/ IncActive(w) \/ RunJob(w) \/ DecActive(w)

Next ==
  \/ \E s \in Submissions : SubmitStep(s)
  \/ \E w \in Workers : WorkerStep(w)

Spec == Init /\ [][Next]_vars
-----------------------------------------------------------------------------
(* Properties. *)

TypeOK ==
  /\ pc \in [Actors -> {"send", "receive", "read", "set", "inc", "run", "dec", "done"}]
  /\ read \in [Actors -> 0 .. QueueSize]
  /\ length \in 0 .. QueueSize
  /\ gauge \in 0 .. QueueSize
  /\ active \in 0 .. Cardinality(Workers)
  /\ recent \subseteq 0 .. QueueSize

(* When no update is under way, the queue gauge shows a length that the    *)
(* queue had since the last such time: exactly the present one if the last *)
(* change had no other beside it.                                          *)
GaugeIsRecent == Quiet => gauge \in recent

(* The worker gauge counts the workers that have a job, however many of    *)
(* them come and go at once.                                               *)
ActiveIsExact == active = Cardinality({w \in Workers : pc[w] \in {"run", "dec"}})
=============================================================================
