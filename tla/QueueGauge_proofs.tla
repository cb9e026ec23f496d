-------------------------- MODULE QueueGauge_proofs --------------------------
(* Theorems of QueueGauge, for any submissions, workers and queue size.    *)
EXTENDS QueueGauge, FiniteSetTheorems, TLAPS

(* The workers that have a job.                                            *)
Busy == {w \in Workers : pc[w] \in {"run", "dec"}}

(* The types, but for the worker gauge, whose bound is its meaning's.      *)
Typed ==
  /\ pc \in [Actors -> {"send", "receive", "read", "set", "inc", "run", "dec", "done"}]
  /\ read \in [Actors -> 0 .. QueueSize]
  /\ length \in 0 .. QueueSize
  /\ gauge \in 0 .. QueueSize
  /\ recent \subseteq 0 .. QueueSize

(* A length that somebody is about to set is a recent one, and so is the   *)
(* present length: whoever sets the gauge last sets it to a recent one.    *)
Recent ==
  /\ length \in recent
  /\ \A a \in Actors : pc[a] = "set" => read[a] \in recent
  /\ GaugeIsRecent

(* The initial state.                                                      *)
LEMMA GaugeInit == Init => Typed /\ Recent /\ ActiveIsExact
<1> SUFFICES ASSUME Init PROVE Typed /\ Recent /\ ActiveIsExact
  OBVIOUS
<1>1. 0 \in 0 .. QueueSize
  BY QueueSizeAssumption
<1>2. Typed /\ Recent
  BY <1>1 DEF Init, Typed, Recent, GaugeIsRecent, Actors
<1>3. {w \in Workers : pc[w] \in {"run", "dec"}} = {}
  BY ActorsAssumption DEF Init, Actors
<1> QED BY <1>2, <1>3, FS_EmptySet DEF ActiveIsExact, Init

(* Where a step that moves one actor leaves it, and the others.            *)
LEMMA GoesType ==
  ASSUME Typed, NEW a \in Actors, NEW from,
         NEW to \in {"send", "receive", "read", "set", "inc", "run", "dec", "done"},
         Goes(a, from, to)
  PROVE  /\ pc' \in [Actors -> {"send", "receive", "read", "set", "inc", "run", "dec", "done"}]
         /\ pc[a] = from /\ pc'[a] = to
         /\ \A b \in Actors \ {a} : pc'[b] = pc[b]
BY DEF Typed, Goes

(* Every step keeps the types.                                             *)
LEMMA TypedStep == Typed /\ [Next]_vars => Typed'
<1> SUFFICES ASSUME Typed, [Next]_vars PROVE Typed'
  OBVIOUS
<1> USE QueueSizeAssumption, GoesType DEF Actors, Changes
<1>1. ASSUME NEW s \in Submissions, Send(s) PROVE Typed'
  BY <1>1 DEF Send, Typed
<1>2. ASSUME NEW s \in Submissions, Refuse(s) PROVE Typed'
  BY <1>2 DEF Refuse, Typed
<1>3. ASSUME NEW w \in Workers, Receive(w) PROVE Typed'
  BY <1>3 DEF Receive, Typed
<1>4. ASSUME NEW a \in Actors, ReadLength(a) PROVE Typed'
  BY <1>4 DEF ReadLength, Typed
<1>5. ASSUME NEW a \in Actors, SetGauge(a) PROVE Typed'
  BY <1>5 DEF SetGauge, Typed
<1>6. ASSUME NEW w \in Workers, IncActive(w) \/ RunJob(w) \/ DecActive(w) PROVE Typed'
  BY <1>6 DEF IncActive, RunJob, DecActive, Typed
<1>7. CASE UNCHANGED vars
  BY <1>7 DEF vars, Typed
<1> QED BY <1>1, <1>2, <1>3, <1>4, <1>5, <1>6, <1>7 DEF Next, SubmitStep, WorkerStep

(* Whoever changes the channel goes on to read its length, so that the     *)
(* time without an update under way ends with its step.                    *)
LEMMA ChangeKeepsRecent ==
  ASSUME Typed, Recent, NEW a \in Actors, NEW from, Goes(a, from, "read"),
         NEW n, Changes(n), UNCHANGED <<read, gauge>>
  PROVE  Recent'
<1>1. pc'[a] = "read" /\ \A b \in Actors \ {a} : pc'[b] = pc[b]
  BY GoesType
<1>2. length' \in recent'
  BY DEF Changes
<1>3. ASSUME NEW b \in Actors, pc'[b] = "set" PROVE read'[b] \in recent'
  <2>1. pc[b] = "set"
    BY <1>1, <1>3
  <2>2. ~Quiet /\ read[b] \in recent
    BY <2>1 DEF Quiet, Recent
  <2> QED BY <2>2 DEF Changes
<1>4. ~Quiet'
  BY <1>1 DEF Quiet
<1> QED BY <1>2, <1>3, <1>4 DEF Recent, GaugeIsRecent

(* A step of an actor that has no update under way, before it or after it. *)
LEMMA OtherKeepsRecent ==
  ASSUME Typed, Recent, NEW a \in Actors, NEW from \in {"send", "inc", "run", "dec"},
         NEW to \in {"receive", "run", "dec", "done"}, Goes(a, from, to),
         UNCHANGED <<read, length, gauge, recent>>
  PROVE  Recent'
<1>1. pc[a] = from /\ pc'[a] = to /\ \A b \in Actors \ {a} : pc'[b] = pc[b]
  BY GoesType
<1>2. Quiet' => Quiet
  BY <1>1 DEF Quiet
<1>3. \A b \in Actors : pc'[b] = "set" => pc[b] = "set"
  BY <1>1
<1> QED BY <1>2, <1>3 DEF Recent, GaugeIsRecent

(* Every step keeps Recent.                                                *)
LEMMA RecentStep == Typed /\ Recent /\ [Next]_vars => Recent'
<1> SUFFICES ASSUME Typed, Recent, [Next]_vars PROVE Recent'
  OBVIOUS
<1> USE DEF Actors
<1>1. ASSUME NEW s \in Submissions, Send(s) PROVE Recent'
  BY <1>1, ChangeKeepsRecent DEF Send
<1>2. ASSUME NEW s \in Submissions, Refuse(s) PROVE Recent'
  BY <1>2, OtherKeepsRecent DEF Refuse
<1>3. ASSUME NEW w \in Workers, Receive(w) PROVE Recent'
  BY <1>3, ChangeKeepsRecent DEF Receive
<1>4. ASSUME NEW a \in Actors, ReadLength(a) PROVE Recent'
  <2>1. pc'[a] = "set" /\ \A b \in Actors \ {a} : pc'[b] = pc[b]
    BY <1>4, GoesType DEF ReadLength
  <2>2. ~Quiet'
    BY <2>1 DEF Quiet
  <2>3. \A b \in Actors : pc'[b] = "set" => read'[b] \in recent
    BY <1>4, <2>1 DEF ReadLength, Recent, Typed
  <2> QED BY <1>4, <2>2, <2>3 DEF ReadLength, Recent, GaugeIsRecent
<1>5. ASSUME NEW a \in Actors, SetGauge(a) PROVE Recent'
  <2>1. pc[a] = "set" /\ pc'[a] # "set" /\ \A b \in Actors \ {a} : pc'[b] = pc[b]
    BY <1>5, GoesType DEF SetGauge
  <2>2. gauge' \in recent'
    BY <1>5, <2>1 DEF SetGauge, Recent
  <2> QED BY <1>5, <2>1, <2>2 DEF SetGauge, Recent, GaugeIsRecent
<1>6. ASSUME NEW w \in Workers, IncActive(w) \/ RunJob(w) \/ DecActive(w) PROVE Recent'
  BY <1>6, OtherKeepsRecent DEF IncActive, RunJob, DecActive
<1>7. CASE UNCHANGED vars
  BY <1>7 DEF vars, Recent, GaugeIsRecent, Quiet
<1> QED BY <1>1, <1>2, <1>3, <1>4, <1>5, <1>6, <1>7 DEF Next, SubmitStep, WorkerStep

(* The busy workers are finitely many, and no more than there are.         *)
LEMMA BusyFinite == IsFiniteSet(Busy) /\ Cardinality(Busy) \in 0 .. Cardinality(Workers)
<1>1. Busy \in SUBSET Workers
  BY DEF Busy
<1> QED BY <1>1, ActorsAssumption, FS_Subset, FS_CardinalityType

(* A step that moves an actor neither into its job nor out of it.          *)
LEMMA SameBusy ==
  ASSUME Typed, ActiveIsExact, NEW a \in Actors, NEW from,
         NEW to \in {"send", "receive", "read", "set", "inc", "run", "dec", "done"},
         Goes(a, from, to), from \in {"run", "dec"} <=> to \in {"run", "dec"},
         UNCHANGED active
  PROVE  ActiveIsExact'
<1>1. pc[a] = from /\ pc'[a] = to /\ \A b \in Actors \ {a} : pc'[b] = pc[b]
  BY GoesType
<1>2. {w \in Workers : pc'[w] \in {"run", "dec"}} = {w \in Workers : pc[w] \in {"run", "dec"}}
  BY <1>1 DEF Actors
<1> QED BY <1>2 DEF ActiveIsExact

(* Every step keeps the worker gauge exact.                                *)
LEMMA ActiveStep == Typed /\ ActiveIsExact /\ [Next]_vars => ActiveIsExact'
<1> SUFFICES ASSUME Typed, ActiveIsExact, [Next]_vars PROVE ActiveIsExact'
  OBVIOUS
<1> USE DEF Actors
<1>0. active = Cardinality(Busy)
  BY DEF ActiveIsExact, Busy
<1>1. ASSUME NEW s \in Submissions, Send(s) \/ Refuse(s) PROVE ActiveIsExact'
  BY <1>1, SameBusy DEF Send, Refuse
<1>2. ASSUME NEW w \in Workers, Receive(w) \/ RunJob(w) PROVE ActiveIsExact'
  BY <1>2, SameBusy DEF Receive, RunJob
<1>3. ASSUME NEW a \in Actors, ReadLength(a) \/ SetGauge(a) PROVE ActiveIsExact'
  BY <1>3, SameBusy DEF ReadLength, SetGauge
<1>4. ASSUME NEW w \in Workers, IncActive(w) PROVE ActiveIsExact'
  <2>1. pc[w] = "inc" /\ pc'[w] = "run" /\ \A b \in Actors \ {w} : pc'[b] = pc[b]
    BY <1>4, GoesType DEF IncActive
  <2>2. Busy' = Busy \cup {w} /\ w \notin Busy
    BY <2>1 DEF Busy
  <2>3. Cardinality(Busy') = Cardinality(Busy) + 1
    BY <2>2, BusyFinite, FS_AddElement
  <2> QED BY <1>0, <1>4, <2>3 DEF IncActive, ActiveIsExact, Busy
<1>5. ASSUME NEW w \in Workers, DecActive(w) PROVE ActiveIsExact'
  <2>1. pc[w] = "dec" /\ pc'[w] = "receive" /\ \A b \in Actors \ {w} : pc'[b] = pc[b]
    BY <1>5, GoesType DEF DecActive
  <2>2. Busy' = Busy \ {w} /\ w \in Busy
    BY <2>1 DEF Busy
  <2>3. Cardinality(Busy') = Cardinality(Busy) - 1
    BY <2>2, BusyFinite, FS_RemoveElement
  <2> QED BY <1>0, <1>5, <2>3 DEF DecActive, ActiveIsExact, Busy
<1>6. CASE UNCHANGED vars
  BY <1>6 DEF vars, ActiveIsExact
<1> QED BY <1>1, <1>2, <1>3, <1>4, <1>5, <1>6 DEF Next, SubmitStep, WorkerStep

(* What holds in every reachable state.                                    *)
THEOREM GaugeInvariant == Spec => [](Typed /\ Recent /\ ActiveIsExact)
<1> QED BY GaugeInit, TypedStep, RecentStep, ActiveStep, PTL DEF Spec

(* Both gauges stay within what they count, and the queue within its size. *)
THEOREM GaugeTypeCorrect == Spec => []TypeOK
<1>1. Typed /\ ActiveIsExact => TypeOK
  BY BusyFinite DEF Typed, ActiveIsExact, Busy, TypeOK
<1> QED BY <1>1, GaugeInvariant, PTL

(* With any number of submissions and workers that set the queue gauge     *)
(* behind no lock, it shows a recent length whenever none of them is at it.*)
THEOREM QueueGaugeIsRecent == Spec => []GaugeIsRecent
<1>1. Recent => GaugeIsRecent
  BY DEF Recent
<1> QED BY <1>1, GaugeInvariant, PTL

(* The worker gauge never drifts from the number of busy workers.          *)
THEOREM WorkerGaugeIsExact == Spec => []ActiveIsExact
BY GaugeInvariant, PTL
=============================================================================
