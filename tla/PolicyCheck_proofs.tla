------------------------- MODULE PolicyCheck_proofs -------------------------
(* Theorems of PolicyCheck, for any calls, users, tools, limit and faults. *)
EXTENDS PolicyInvariant, FunctionTheorems, FiniteSetTheorems, TLAPS

(* Every call has its key among the keys.                                  *)
LEMMA KeyOfCall == \A c \in Calls : Key(c) \in Keys
BY DEF Keys

(* The initial state has the type TypeOK.                                  *)
LEMMA TypeInit == Init => TypeOK
<1> SUFFICES ASSUME Init PROVE TypeOK
  OBVIOUS
<1>1. limiter \in BOOLEAN
  BY DEF Init
<1> QED BY <1>1 DEF Init, TypeOK, CallState, Decision

(* Where a call of Decide, PassLimiter, OnRedisError and OnCount ends.     *)
LEMMA DecideType ==
  ASSUME TypeOK, NEW c \in Calls, NEW from, NEW d \in Decision, Decide(c, from, d)
  PROVE  pc' \in [Calls -> CallState] /\ decision' \in [Calls -> Decision]
BY DEF TypeOK, Decide, Goes, CallState

LEMMA PassType ==
  ASSUME TypeOK, NEW c \in Calls, NEW from, PassLimiter(c, from)
  PROVE  pc' \in [Calls -> CallState] /\ decision' \in [Calls -> Decision]
BY DEF TypeOK, PassLimiter, Goes, CallState

LEMMA OnRedisErrorType ==
  ASSUME TypeOK, NEW c \in Calls, NEW from, OnRedisError(c, from)
  PROVE  pc' \in [Calls -> CallState] /\ decision' \in [Calls -> Decision]
BY DecideType, PassType DEF OnRedisError, Decision

LEMMA OnCountType ==
  ASSUME TypeOK, NEW c \in Calls, NEW from, NEW n, OnCount(c, from, n)
  PROVE  pc' \in [Calls -> CallState] /\ decision' \in [Calls -> Decision]
BY DecideType, PassType DEF OnCount, Decision

LEMMA CountCallType ==
  ASSUME TypeOK, NEW c \in Calls, CountCall(c)
  PROVE  count' \in [Keys -> Nat] /\ joined' \in [Calls -> Nat]
BY KeyOfCall DEF TypeOK, CountCall

(* Every step keeps the type.                                              *)
LEMMA TypeStep == TypeOK /\ [Next]_vars => TypeOK'
<1> SUFFICES ASSUME TypeOK, [Next]_vars PROVE TypeOK'
  OBVIOUS
<1>1. ASSUME NEW c \in Calls, DenyStatic(c) PROVE TypeOK'
  <2>1. pc' \in [Calls -> CallState] /\ decision' \in [Calls -> Decision]
    BY <1>1, DecideType DEF DenyStatic, Decision
  <2> QED BY <1>1, <2>1 DEF TypeOK, DenyStatic, redisVars
<1>2. ASSUME NEW c \in Calls, Start(c) PROVE TypeOK'
  BY <1>2 DEF TypeOK, Start, Goes, redisVars, CallState
<1>3. ASSUME NEW c \in Calls, IncrRetried(c) PROVE TypeOK'
  BY <1>3, CountCallType, KeyOfCall DEF TypeOK, IncrRetried
<1>4. ASSUME NEW c \in Calls, Incr(c) PROVE TypeOK'
  <2>1. count[Key(c)] + 1 \in Nat
    BY KeyOfCall DEF TypeOK
  <2>2. pc' \in [Calls -> CallState] /\ decision' \in [Calls -> Decision]
    BY <1>4, OnCountType DEF Incr, TypeOK, Goes, CallState
  <2> QED BY <1>4, <2>1, <2>2, CountCallType DEF TypeOK, Incr
<1>5. ASSUME NEW c \in Calls, IncrFails(c) PROVE TypeOK'
  BY <1>5, CountCallType, OnRedisErrorType, KeyOfCall DEF TypeOK, IncrFails
<1>6. ASSUME NEW c \in Calls, SetExpiry(c) PROVE TypeOK'
  BY <1>6, OnCountType, KeyOfCall DEF TypeOK, SetExpiry
<1>7. ASSUME NEW c \in Calls, ExpiryFails(c) PROVE TypeOK'
  BY <1>7, OnRedisErrorType, KeyOfCall DEF TypeOK, ExpiryFails
<1>8. ASSUME NEW c \in Calls, CheckInput(c) PROVE TypeOK'
  <2>1. pc' \in [Calls -> CallState] /\ decision' \in [Calls -> Decision]
    BY <1>8, DecideType DEF CheckInput, Decision
  <2> QED BY <1>8, <2>1 DEF TypeOK, CheckInput, redisVars
<1>9. ASSUME NEW k \in Keys, WindowEnds(k) PROVE TypeOK'
  BY <1>9 DEF TypeOK, WindowEnds
<1>10. ASSUME Restart PROVE TypeOK'
  <2>1. pc' \in [Calls -> CallState]
    BY <1>10 DEF TypeOK, Restart, CallState
  <2>2. limiter' \in BOOLEAN
    BY <1>10 DEF Restart
  <2>3. tainted' \in SUBSET Keys
    BY <1>10, KeyOfCall DEF TypeOK, Restart
  <2> QED
    BY <1>10, <2>1, <2>2, <2>3 DEF TypeOK, Restart, redisVars
<1>11. ASSUME UNCHANGED vars PROVE TypeOK'
  BY <1>11 DEF TypeOK, vars
<1> QED
  BY <1>1, <1>2, <1>3, <1>4, <1>5, <1>6, <1>7, <1>8, <1>9, <1>10, <1>11
  DEF Next, CheckStep

(* Every variable has its type in every reachable state: no call is ever   *)
(* left without one of the six decisions of Engine.Check.                  *)
THEOREM PolicyTypeCorrect == Spec => []TypeOK
BY TypeInit, TypeStep, PTL DEF Spec
-----------------------------------------------------------------------------
(* What OnRedisError and OnCount do to the state, for every outcome.       *)

(* One call moves from a state, and gets past the limiter only if allowed. *)
Moves(c, from, ok) ==
  /\ pc[c] = from
  /\ \/ pc' = [pc EXCEPT ![c] = "input"] /\ UNCHANGED decision /\ ok
     \/ /\ pc' = [pc EXCEPT ![c] = "done"]
        /\ \E d \in {"exceeded", "unavailable"} :
             decision' = [decision EXCEPT ![c] = d]

LEMMA OnCountMoves ==
  ASSUME TypeOK, NEW c \in Calls, NEW from, NEW n \in Nat, OnCount(c, from, n)
  PROVE  Moves(c, from, n <= Limit)
BY LimitAssumption DEF OnCount, Moves, Decide, PassLimiter, Goes

LEMMA OnRedisErrorMoves ==
  ASSUME NEW c \in Calls, NEW from, OnRedisError(c, from)
  PROVE  Moves(c, from, TRUE)
BY DEF OnRedisError, Moves, Decide, PassLimiter, Goes

(* The inductive invariant holds initially.                                *)
LEMMA PolicyInvInit == Init => PolicyInv
<1> SUFFICES ASSUME Init PROVE PolicyInv
  OBVIOUS
<1> QED
  BY KeyOfCall DEF Init, PolicyInv, Unanswered, CountsLag, CountsDiffer,
     AdmittedInLimit, TtlOfCounter, ExpiryPending, Admitted

(* The inductive invariant is kept by a call that only moves on.           *)
LEMMA MovesKeepInv ==
  ASSUME TypeOK, PolicyInv, NEW c \in Calls, NEW from \in {"expire", "incr"},
         Moves(c, from, seen[c] <= Limit),
         UNCHANGED <<seen, count, window, joined>>,
         ttl' \in {ttl, [ttl EXCEPT ![Key(c)] = TRUE]},
         from = "incr" => ttl' = ttl
  PROVE  PolicyInv'
<1> USE KeyOfCall DEF TypeOK, PolicyInv
<1>1. Unanswered'
  BY DEF Moves, Unanswered
<1>2. CountsLag' /\ CountsDiffer'
  BY DEF CountsLag, CountsDiffer
<1>3. AdmittedInLimit'
  BY DEF Moves, AdmittedInLimit, Admitted
<1>4. TtlOfCounter' /\ ExpiryPending'
  BY DEF Moves, TtlOfCounter, ExpiryPending
<1> QED BY <1>1, <1>2, <1>3, <1>4

(* A count that Redis takes for a call which has no answer yet.            *)
LEMMA CountCallKeepsCounts ==
  ASSUME TypeOK, PolicyInv, NEW c \in Calls, pc[c] = "incr", CountCall(c),
         UNCHANGED <<seen, window>>
  PROVE  CountsLag' /\ CountsDiffer'
<1> USE KeyOfCall DEF TypeOK, PolicyInv
<1>1. seen[c] = 0
  BY DEF Unanswered
<1>2. CountsLag'
  BY <1>1 DEF CountsLag, CountCall
<1>3. CountsDiffer'
  BY <1>1 DEF CountsDiffer, CountCall
<1> QED BY <1>2, <1>3

(* The inductive invariant is kept by an INCR that was answered.           *)
LEMMA IncrKeepsInv ==
  ASSUME TypeOK, PolicyInv, NEW c \in Calls, Incr(c)
  PROVE  PolicyInv'
<1> USE KeyOfCall DEF TypeOK, PolicyInv
<1> DEFINE n == count[Key(c)] + 1
<1>1. /\ pc[c] = "incr"
      /\ n \in Nat
      /\ count' = [count EXCEPT ![Key(c)] = n]
      /\ joined' = [joined EXCEPT ![c] = window[Key(c)]]
      /\ seen' = [seen EXCEPT ![c] = n]
      /\ UNCHANGED <<ttl, window>>
  BY DEF Incr, CountCall, OnCount, Decide, PassLimiter, Goes
<1>2. \/ n = 1 /\ pc' = [pc EXCEPT ![c] = "expire"] /\ UNCHANGED decision
      \/ n # 1 /\ Moves(c, "incr", n <= Limit)
  BY <1>1, OnCountMoves DEF Incr, Goes
<1> HIDE DEF n
<1>3. n = count[Key(c)] + 1
  BY DEF n
<1>4. Unanswered'
  BY <1>1, <1>2 DEF Unanswered, Moves
<1>5. CountsLag'
  BY <1>1, <1>3 DEF CountsLag
<1>6. CountsDiffer'
  BY <1>1, <1>3 DEF CountsDiffer, CountsLag
<1>7. AdmittedInLimit'
  BY <1>1, <1>2 DEF AdmittedInLimit, Admitted, Moves
<1>8. ExpiryPending'
  <2>1. CASE n = 1 /\ pc' = [pc EXCEPT ![c] = "expire"]
    <3>1. \A d \in Calls : Key(d) = Key(c) => pc[d] # "expire"
      BY <2>1, <1>3 DEF ExpiryPending
    <3>2. ~ttl[Key(c)]
      BY <2>1, <1>3 DEF TtlOfCounter
    <3> QED BY <1>1, <1>3, <2>1, <3>1, <3>2 DEF ExpiryPending
  <2>2. CASE n # 1 /\ Moves(c, "incr", n <= Limit)
    BY <1>1, <1>3, <2>2 DEF ExpiryPending, Moves
  <2> QED BY <1>2, <2>1, <2>2
<1>9. TtlOfCounter'
  BY <1>1, <1>3 DEF TtlOfCounter
<1> QED BY <1>4, <1>5, <1>6, <1>7, <1>8, <1>9

(* The inductive invariant is kept by every step.                          *)
LEMMA PolicyInvStep == TypeOK /\ PolicyInv /\ [Next]_vars => PolicyInv'
<1> SUFFICES ASSUME TypeOK, PolicyInv, [Next]_vars PROVE PolicyInv'
  OBVIOUS
<1> USE KeyOfCall DEF TypeOK, PolicyInv
<1>1. ASSUME NEW c \in Calls, DenyStatic(c) PROVE PolicyInv'
  BY <1>1 DEF DenyStatic, Decide, Goes, redisVars, Unanswered, CountsLag, CountsDiffer,
     AdmittedInLimit, Admitted, TtlOfCounter, ExpiryPending
<1>2. ASSUME NEW c \in Calls, Start(c) PROVE PolicyInv'
  BY <1>2 DEF Start, Goes, redisVars, Unanswered, CountsLag, CountsDiffer,
     AdmittedInLimit, Admitted, TtlOfCounter, ExpiryPending
<1>3. ASSUME NEW c \in Calls, IncrRetried(c) PROVE PolicyInv'
  <2>1. CountsLag' /\ CountsDiffer'
    BY <1>3, CountCallKeepsCounts DEF IncrRetried
  <2>2. Unanswered' /\ AdmittedInLimit'
    BY <1>3 DEF IncrRetried, Unanswered, AdmittedInLimit, Admitted
  <2>3. TtlOfCounter' /\ ExpiryPending'
    BY <1>3 DEF IncrRetried, CountCall, TtlOfCounter, ExpiryPending
  <2> QED BY <2>1, <2>2, <2>3
<1>4. ASSUME NEW c \in Calls, Incr(c) PROVE PolicyInv'
  BY <1>4, IncrKeepsInv
<1>5. ASSUME NEW c \in Calls, IncrFails(c) PROVE PolicyInv'
  <2>1. Moves(c, "incr", TRUE) /\ seen[c] = 0
    BY <1>5, OnRedisErrorMoves DEF IncrFails, Moves, Unanswered
  <2>2. CASE CountCall(c)
    <3>1. CountsLag' /\ CountsDiffer'
      BY <1>5, <2>1, <2>2, CountCallKeepsCounts DEF IncrFails, Moves
    <3>2. Unanswered' /\ AdmittedInLimit'
      BY <1>5, <2>1, LimitAssumption DEF IncrFails, Moves, Unanswered, AdmittedInLimit, Admitted
    <3>3. TtlOfCounter' /\ ExpiryPending'
      BY <1>5, <2>1, <2>2 DEF IncrFails, Moves, CountCall, TtlOfCounter, ExpiryPending
    <3> QED BY <3>1, <3>2, <3>3
  <2>3. CASE UNCHANGED <<count, joined>>
    <3>1. Moves(c, "incr", seen[c] <= Limit)
      BY <2>1, LimitAssumption DEF Moves
    <3> QED BY <1>5, <2>3, <3>1, MovesKeepInv DEF IncrFails
  <2> QED BY <1>5, <2>2, <2>3 DEF IncrFails
<1>6. ASSUME NEW c \in Calls, SetExpiry(c) PROVE PolicyInv'
  <2>1. Moves(c, "expire", seen[c] <= Limit)
    BY <1>6, OnCountMoves DEF SetExpiry
  <2> QED BY <1>6, <2>1, MovesKeepInv DEF SetExpiry
<1>7. ASSUME NEW c \in Calls, ExpiryFails(c) PROVE PolicyInv'
  <2>1. Moves(c, "expire", TRUE)
    BY <1>7, OnRedisErrorMoves DEF ExpiryFails
  <2>2. Moves(c, "expire", seen[c] <= Limit)
    BY <2>1, LimitAssumption DEF Moves, ExpiryPending
  <2> QED BY <1>7, <2>2, MovesKeepInv DEF ExpiryFails
<1>8. ASSUME NEW c \in Calls, CheckInput(c) PROVE PolicyInv'
  BY <1>8 DEF CheckInput, Decide, Goes, redisVars, Unanswered, CountsLag, CountsDiffer,
     AdmittedInLimit, Admitted, TtlOfCounter, ExpiryPending
<1>9. ASSUME NEW k \in Keys, WindowEnds(k) PROVE PolicyInv'
  <2>1. CountsLag'
    BY <1>9 DEF WindowEnds, CountsLag
  <2> QED
    BY <1>9, <2>1 DEF WindowEnds, Unanswered, CountsDiffer,
       AdmittedInLimit, Admitted, TtlOfCounter, ExpiryPending
<1>10. ASSUME Restart PROVE PolicyInv'
  BY <1>10 DEF Restart, redisVars, Unanswered, CountsLag, CountsDiffer,
     AdmittedInLimit, Admitted, TtlOfCounter, ExpiryPending
<1>11. ASSUME UNCHANGED vars PROVE PolicyInv'
  BY <1>11 DEF vars, Unanswered, CountsLag, CountsDiffer,
     AdmittedInLimit, Admitted, TtlOfCounter, ExpiryPending
<1> QED
  BY <1>1, <1>2, <1>3, <1>4, <1>5, <1>6, <1>7, <1>8, <1>9, <1>10, <1>11
  DEF Next, CheckStep

(* The inductive invariant holds in every reachable state.                 *)
THEOREM PolicyInvHolds == Spec => []PolicyInv
BY PolicyInvInit, PolicyInvStep, PolicyTypeCorrect, PTL DEF Spec
-----------------------------------------------------------------------------
(* Of the calls counted in one window at most Limit get past the limiter:  *)
(* their counts are different numbers of 1..Limit.                         *)
LEMMA WindowBoundFromInv == TypeOK /\ PolicyInv => WindowBound
<1> SUFFICES ASSUME TypeOK, PolicyInv, NEW k \in Keys, NEW n \in 1..window[k]
             PROVE  Cardinality({c \in CountedIn(k, n) : Admitted(c)}) <= Limit
  BY DEF WindowBound
<1> DEFINE S == {c \in CountedIn(k, n) : Admitted(c)}
           f == [c \in S |-> seen[c]]
<1>1. ASSUME NEW c \in S PROVE f[c] \in 1..Limit
  BY LimitAssumption DEF TypeOK, PolicyInv, AdmittedInLimit, Admitted, CountedIn
<1>2. ASSUME NEW c \in S, NEW d \in S, f[c] = f[d] PROVE c = d
  BY <1>2 DEF TypeOK, PolicyInv, CountsDiffer, Admitted, CountedIn
<1>3. f \in Injection(S, 1..Limit)
  BY <1>1, <1>2 DEF Injection, IsInjective
<1>4. IsFiniteSet(1..Limit) /\ Cardinality(1..Limit) = Limit
  BY FS_Interval, LimitAssumption
<1>5. Cardinality(S) <= Cardinality(1..Limit)
  BY <1>3, <1>4, FS_Injection
<1> QED BY <1>4, <1>5

(* However INCR and EXPIRE of concurrent calls interleave with each other, *)
(* with errors, retries and restarts, a window admits at most Limit of the *)
(* calls it counted.                                                       *)
THEOREM WindowNeverOverfull == Spec => []WindowBound
BY PolicyTypeCorrect, PolicyInvHolds, WindowBoundFromInv, PTL

(* A key without expiry is waiting for its EXPIRE or met a fault: without  *)
(* a fault no user is shut out of a tool for longer than the window.       *)
THEOREM CountersExpire == Spec => []EveryCounterExpires
<1>1. Init => EveryCounterExpires
  BY KeyOfCall DEF Init, EveryCounterExpires
<1>2. TypeOK /\ PolicyInv /\ EveryCounterExpires /\ [Next]_vars => EveryCounterExpires'
  <2> SUFFICES ASSUME TypeOK, PolicyInv, EveryCounterExpires, [Next]_vars,
                      NEW k \in Keys, count'[k] > 0, ~ttl'[k], k \notin tainted'
               PROVE  \E c \in Calls : pc'[c] = "expire" /\ Key(c) = k
    BY DEF EveryCounterExpires
  <2> USE KeyOfCall DEF TypeOK, EveryCounterExpires
  <2>1. ASSUME NEW c \in Calls, Incr(c) PROVE \E x \in Calls : pc'[x] = "expire" /\ Key(x) = k
    <3>1. CASE Key(c) = k /\ count[k] = 0
      BY <2>1, <3>1 DEF Incr, Goes
    <3>2. CASE ~(Key(c) = k /\ count[k] = 0)
      <4>1. PICK x \in Calls : pc[x] = "expire" /\ Key(x) = k
        BY <2>1, <3>2 DEF Incr, CountCall
      <4>2. x # c /\ pc'[x] = pc[x]
        BY <2>1, <4>1 DEF Incr, Goes, OnCount, Decide, PassLimiter
      <4> QED BY <4>1, <4>2
    <3> QED BY <3>1, <3>2
  <2>2. ASSUME NEW c \in Calls, SetExpiry(c) PROVE \E x \in Calls : pc'[x] = "expire" /\ Key(x) = k
    <3>1. Key(c) # k /\ count[k] > 0 /\ ~ttl[k] /\ k \notin tainted
      BY <2>2 DEF SetExpiry
    <3>2. PICK x \in Calls : pc[x] = "expire" /\ Key(x) = k
      BY <3>1
    <3>3. pc'[x] = pc[x]
      BY <2>2, <3>1, <3>2 DEF SetExpiry, Goes, OnCount, Decide, PassLimiter
    <3> QED BY <3>2, <3>3
  <2>3. ASSUME NEW c \in Calls, ExpiryFails(c) PROVE \E x \in Calls : pc'[x] = "expire" /\ Key(x) = k
    <3>1. Key(c) # k /\ count[k] > 0 /\ ~ttl[k] /\ k \notin tainted
      BY <2>3 DEF ExpiryFails
    <3>2. PICK x \in Calls : pc[x] = "expire" /\ Key(x) = k
      BY <3>1
    <3>3. pc'[x] = pc[x]
      BY <2>3, <3>1, <3>2 DEF ExpiryFails, Goes, OnRedisError, Decide, PassLimiter
    <3> QED BY <3>2, <3>3
  <2>4. ASSUME NEW c \in Calls, IncrFails(c) PROVE \E x \in Calls : pc'[x] = "expire" /\ Key(x) = k
    <3>1. Key(c) # k /\ count[k] > 0 /\ ~ttl[k] /\ k \notin tainted
      BY <2>4 DEF IncrFails, CountCall
    <3>2. PICK x \in Calls : pc[x] = "expire" /\ Key(x) = k
      BY <3>1
    <3>3. pc'[x] = pc[x]
      BY <2>4, <3>1, <3>2 DEF IncrFails, Goes, OnRedisError, Decide, PassLimiter
    <3> QED BY <3>2, <3>3
  <2>5. ASSUME NEW c \in Calls, DenyStatic(c) \/ Start(c) \/ IncrRetried(c) \/ CheckInput(c)
        PROVE \E x \in Calls : pc'[x] = "expire" /\ Key(x) = k
    <3>1. count[k] > 0 /\ ~ttl[k] /\ k \notin tainted
      BY <2>5 DEF DenyStatic, Start, IncrRetried, CheckInput, CountCall, redisVars
    <3>2. PICK x \in Calls : pc[x] = "expire" /\ Key(x) = k
      BY <3>1
    <3>3. pc'[x] = pc[x]
      BY <2>5, <3>2 DEF DenyStatic, Start, IncrRetried, CheckInput, Goes, Decide
    <3> QED BY <3>2, <3>3
  <2>6. ASSUME NEW j \in Keys, WindowEnds(j) PROVE \E x \in Calls : pc'[x] = "expire" /\ Key(x) = k
    BY <2>6 DEF WindowEnds
  <2>7. ASSUME Restart PROVE \E x \in Calls : pc'[x] = "expire" /\ Key(x) = k
    <3>1. count[k] > 0 /\ ~ttl[k] /\ k \notin tainted
      BY <2>7 DEF Restart, redisVars
    <3>2. PICK x \in Calls : pc[x] = "expire" /\ Key(x) = k
      BY <3>1
    <3> QED BY <2>7, <3>2 DEF Restart
  <2>8. ASSUME UNCHANGED vars PROVE \E x \in Calls : pc'[x] = "expire" /\ Key(x) = k
    BY <2>8 DEF vars
  <2> QED
    BY <2>1, <2>2, <2>3, <2>4, <2>5, <2>6, <2>7, <2>8 DEF Next, CheckStep
<1> QED BY <1>1, <1>2, PolicyTypeCorrect, PolicyInvHolds, PTL DEF Spec

(* The end of a window is set once, by the call that opened it, and only   *)
(* that end lowers the counter.                                            *)
THEOREM WindowIsFixed == Spec => FixedWindow
<1> DEFINE Fixed(k) ==
      /\ count'[k] < count[k] => ttl[k] /\ window'[k] = window[k] + 1
      /\ ttl[k] => ~\E c \in Calls : Key(c) = k /\ SetExpiry(c)
<1>1. TypeOK /\ PolicyInv /\ [Next]_vars => [\A k \in Keys : Fixed(k)]_vars
  <2> SUFFICES ASSUME TypeOK, PolicyInv, Next, NEW k \in Keys PROVE Fixed(k)
    OBVIOUS
  <2> USE KeyOfCall DEF TypeOK
  <2>1. ttl[k] => ~\E c \in Calls : Key(c) = k /\ SetExpiry(c)
    BY DEF PolicyInv, ExpiryPending, SetExpiry, OnCount, Decide, PassLimiter, Goes
  <2>2. ASSUME NEW c \in Calls, DenyStatic(c) \/ Start(c) \/ IncrRetried(c) \/ CheckStep(c)
        PROVE  count'[k] >= count[k]
    BY <2>2
    DEF DenyStatic, Start, IncrRetried, CheckStep, Incr, IncrFails, SetExpiry,
        ExpiryFails, CheckInput, CountCall, redisVars
  <2>3. ASSUME NEW j \in Keys, WindowEnds(j), count'[k] < count[k]
        PROVE  ttl[k] /\ window'[k] = window[k] + 1
    BY <2>3 DEF WindowEnds
  <2>4. ASSUME Restart PROVE count'[k] = count[k]
    BY <2>4 DEF Restart, redisVars
  <2>5. count'[k] < count[k] => ttl[k] /\ window'[k] = window[k] + 1
    <3> SUFFICES ASSUME count'[k] < count[k] PROVE ttl[k] /\ window'[k] = window[k] + 1
      OBVIOUS
    <3>1. count[k] \in Nat /\ count'[k] \in Nat
      BY TypeStep
    <3>2. ~(count'[k] >= count[k]) /\ count'[k] # count[k]
      BY <3>1
    <3>3. ~(\E c \in Calls : DenyStatic(c) \/ Start(c) \/ IncrRetried(c) \/ CheckStep(c)) /\ ~Restart
      BY <3>2, <2>2, <2>4
    <3> QED BY <3>3, <2>3 DEF Next
  <2> QED BY <2>1, <2>5
<1> QED
  BY <1>1, PolicyTypeCorrect, PolicyInvHolds, PTL DEF Spec, FixedWindow
-----------------------------------------------------------------------------
(* A step that neither counts a call nor refuses one for the rate leaves   *)
(* the accounting alone.                                                   *)
LEMMA EarnedStutter ==
  ASSUME TypeOK, EarnedInv, UNCHANGED <<joined, window>>,
         \A x \in retried : x \in retried',
         \A k \in Keys : count'[k] <= count[k],
         count' \in [Keys -> Nat],
         \A c \in Calls : pc'[c] \in {"idle", "incr"} => pc[c] \in {"idle", "incr"},
         \A c \in Calls : decision'[c] = "exceeded" => decision[c] = "exceeded"
  PROVE  EarnedInv'
<1>1. ASSUME NEW k \in Keys, NEW n PROVE CountedIn(k, n)' = CountedIn(k, n)
  BY DEF CountedIn
<1>2. UncountedYet'
  BY DEF EarnedInv, UncountedYet
<1>3. CountIsEarned'
  <2> SUFFICES ASSUME NEW k \in Keys, ~\E x \in retried' : Key(x) = k
               PROVE  window'[k] > 0 /\ count'[k] <= Cardinality(CountedIn(k, window[k])')
    BY DEF CountIsEarned
  <2>1. window[k] > 0 /\ count[k] <= Cardinality(CountedIn(k, window[k]))
    BY DEF EarnedInv, CountIsEarned
  <2>2. IsFiniteSet(CountedIn(k, window[k]))
    BY CallsAssumption, FS_Subset DEF CountedIn
  <2>3. Cardinality(CountedIn(k, window[k])) \in Nat
    BY <2>2, FS_CardinalityType
  <2>4. CountedIn(k, window[k])' = CountedIn(k, window[k])
    BY DEF CountedIn
  <2> HIDE DEF CountedIn
  <2> QED BY <2>1, <2>3, <2>4 DEF TypeOK
<1>4. ExceededMeansFull'
  <2> SUFFICES ASSUME NEW c \in Calls, decision'[c] = "exceeded"
               PROVE  \/ joined'[c] > 0 /\ Cardinality(CountedIn(Key(c), joined[c])' \ {c}) >= Limit
                      \/ \E x \in retried' : Key(x) = Key(c)
    BY DEF ExceededMeansFull
  <2>1. CountedIn(Key(c), joined[c])' = CountedIn(Key(c), joined[c])
    BY DEF CountedIn
  <2> QED BY <2>1 DEF EarnedInv, ExceededMeansFull
<1> QED BY <1>2, <1>3, <1>4 DEF EarnedInv

(* A step in which Redis counts call c keeps the accounting, if c is       *)
(* refused for the rate only when the counter was full before.             *)
LEMMA EarnedCount ==
  ASSUME TypeOK, EarnedInv, NEW c \in Calls, pc[c] = "incr", CountCall(c),
         UNCHANGED window, retried' \in {retried, retried \cup {c}},
         pc'[c] \in {"idle", "incr"} => c \in retried',
         \A d \in Calls \ {c} : pc'[d] = pc[d] /\ decision'[d] = decision[d],
         decision'[c] = "exceeded" => decision[c] = "exceeded" \/ count[Key(c)] >= Limit
  PROVE  EarnedInv'
<1> USE KeyOfCall DEF TypeOK
<1> DEFINE K == Key(c)
           N == window[K]
           Repeats(k) == \E x \in retried' : Key(x) = k
<1>1. count' = [count EXCEPT ![K] = @ + 1] /\ joined' = [joined EXCEPT ![c] = N]
  BY DEF CountCall
<1>2. ASSUME NEW k \in Keys, NEW n PROVE IsFiniteSet(CountedIn(k, n))
  BY CallsAssumption, FS_Subset DEF CountedIn
<1>3. ASSUME ~Repeats(K)
      PROVE  c \notin retried /\ joined[c] = 0 /\ N > 0 /\ count[K] <= Cardinality(CountedIn(K, N))
  <2>1. c \notin retried
    BY <1>3
  <2>2. joined[c] = 0
    BY <2>1 DEF EarnedInv, UncountedYet
  <2>3. ~\E x \in retried : Key(x) = K
    BY <1>3
  <2> QED BY <2>1, <2>2, <2>3 DEF EarnedInv, CountIsEarned
<1>4. ASSUME ~Repeats(K), NEW n, n # 0
      PROVE  CountedIn(K, n)' = IF n = N THEN CountedIn(K, n) \cup {c} ELSE CountedIn(K, n)
  BY <1>1, <1>3, <1>4 DEF CountedIn
<1>5. ASSUME ~Repeats(K) PROVE c \notin CountedIn(K, N)
  BY <1>3, <1>5 DEF CountedIn
<1>6. ASSUME NEW k \in Keys \ {K}, NEW n PROVE CountedIn(k, n)' = CountedIn(k, n)
  BY <1>1 DEF CountedIn
<1>7. UncountedYet'
  BY <1>1 DEF EarnedInv, UncountedYet
<1>8. CountIsEarned'
  <2> SUFFICES ASSUME NEW k \in Keys, ~Repeats(k)
               PROVE  window'[k] > 0 /\ count'[k] <= Cardinality(CountedIn(k, window[k])')
    BY DEF CountIsEarned
  <2>1. CASE k = K
    <3>1. CountedIn(K, N)' = CountedIn(K, N) \cup {c}
      BY <1>3, <1>4, <2>1
    <3>2. Cardinality(CountedIn(K, N) \cup {c}) = Cardinality(CountedIn(K, N)) + 1
      BY <1>2, <1>5, <2>1, FS_AddElement
    <3>3. Cardinality(CountedIn(K, N)) \in Nat
      BY <1>2, FS_CardinalityType
    <3>4. CountedIn(k, window[k])' = CountedIn(K, N)'
      BY <2>1 DEF CountedIn
    <3> HIDE DEF CountedIn
    <3>5. count'[K] = count[K] + 1 /\ window' = window
      BY <1>1
    <3> QED BY <1>3, <2>1, <3>1, <3>2, <3>3, <3>4, <3>5
  <2>2. CASE k # K
    <3>1. window[k] > 0 /\ count[k] <= Cardinality(CountedIn(k, window[k]))
      BY DEF EarnedInv, CountIsEarned
    <3>2. CountedIn(k, window[k])' = CountedIn(k, window[k])
      BY <2>2, <1>1 DEF CountedIn
    <3> QED BY <1>1, <2>2, <3>1, <3>2
  <2> QED BY <2>1, <2>2
<1>9. ExceededMeansFull'
  <2> SUFFICES ASSUME NEW d \in Calls, decision'[d] = "exceeded", ~Repeats(Key(d))
               PROVE  joined'[d] > 0 /\ Cardinality(CountedIn(Key(d), joined[d])' \ {d}) >= Limit
    BY DEF ExceededMeansFull
  <2>1. CASE decision[d] = "exceeded"
    <3>1. joined[d] > 0 /\ Cardinality(CountedIn(Key(d), joined[d]) \ {d}) >= Limit
      BY <2>1 DEF EarnedInv, ExceededMeansFull
    <3>2. d # c
      BY <1>3, <3>1
    <3>3. joined'[d] = joined[d]
      BY <1>1, <3>2
    <3>4. CountedIn(Key(d), joined[d]) \subseteq CountedIn(Key(d), joined[d])'
      BY <1>1, <1>3, <3>1, <3>3 DEF CountedIn
    <3>5. IsFiniteSet(CountedIn(Key(d), joined[d])')
      BY CallsAssumption, FS_Subset DEF CountedIn
    <3> DEFINE A == CountedIn(Key(d), joined[d]) \ {d}
               B == CountedIn(Key(d), joined[d])' \ {d}
    <3>6. IsFiniteSet(B) /\ A \in SUBSET B
      BY <3>4, <3>5, FS_RemoveElement
    <3> HIDE DEF A, B
    <3>7. Cardinality(A) <= Cardinality(B) /\ Cardinality(A) \in Nat /\ Cardinality(B) \in Nat
      BY <3>6, FS_Subset, FS_CardinalityType
    <3>8. Cardinality(B) >= Limit
      BY <3>1, <3>7, LimitAssumption DEF A
    <3> QED BY <3>1, <3>3, <3>8 DEF B
  <2>2. CASE decision[d] # "exceeded"
    <3>1. d = c /\ count[K] >= Limit
      BY <2>2
    <3>2. CountedIn(K, joined[c])' = CountedIn(K, N) \cup {c}
      BY <1>1, <1>3, <3>1 DEF CountedIn
    <3>3. CountedIn(K, joined[c])' \ {c} = CountedIn(K, N)
      BY <1>5, <3>1, <3>2
    <3>4. Cardinality(CountedIn(K, N)) \in Nat
      BY <1>2, FS_CardinalityType
    <3>5. Cardinality(CountedIn(K, N)) >= Limit /\ joined'[c] > 0
      BY <1>1, <1>3, <3>1, <3>4, LimitAssumption
    <3>6. CountedIn(Key(d), joined[d])' \ {d} = CountedIn(K, N)
      BY <3>1, <3>3
    <3> QED BY <3>1, <3>5, <3>6
  <2> QED BY <2>1, <2>2
<1> QED BY <1>7, <1>8, <1>9 DEF EarnedInv

(* The accounting is kept by every step.                                   *)
LEMMA EarnedStep == TypeOK /\ PolicyInv /\ EarnedInv /\ [Next]_vars => EarnedInv'
<1> SUFFICES ASSUME TypeOK, PolicyInv, EarnedInv, [Next]_vars PROVE EarnedInv'
  OBVIOUS
<1>0. TypeOK'
  BY TypeStep
<1> USE KeyOfCall
<1>1. ASSUME NEW c \in Calls, DenyStatic(c) PROVE EarnedInv'
  BY <1>0, <1>1, EarnedStutter DEF DenyStatic, Decide, Goes, redisVars, TypeOK
<1>2. ASSUME NEW c \in Calls, Start(c) PROVE EarnedInv'
  BY <1>0, <1>2, EarnedStutter DEF Start, Goes, redisVars, TypeOK
<1>3. ASSUME NEW c \in Calls, IncrRetried(c) PROVE EarnedInv'
  BY <1>3, EarnedCount DEF IncrRetried
<1>4. ASSUME NEW c \in Calls, Incr(c) PROVE EarnedInv'
  <2> DEFINE n == count[Key(c)] + 1
  <2>1. /\ pc[c] = "incr"
        /\ n \in Nat
        /\ CountCall(c)
        /\ UNCHANGED <<window, retried>>
    BY <1>4 DEF Incr, OnCount, Decide, PassLimiter, Goes, TypeOK
  <2>2. \/ pc' = [pc EXCEPT ![c] = "expire"] /\ UNCHANGED decision
        \/ Moves(c, "incr", n <= Limit) /\ UNCHANGED decision
        \/ Moves(c, "incr", n <= Limit) /\ n > Limit
    BY <1>4, <2>1, OnCountMoves, LimitAssumption DEF Incr, Goes, Moves, OnCount, PassLimiter
  <2>3. n > Limit => count[Key(c)] >= Limit
    BY LimitAssumption DEF TypeOK
  <2> HIDE DEF n
  <2> QED BY <2>1, <2>2, <2>3, EarnedCount DEF Moves, TypeOK
<1>5. ASSUME NEW c \in Calls, IncrFails(c) PROVE EarnedInv'
  <2>1. \/ pc' = [pc EXCEPT ![c] = "input"] /\ UNCHANGED decision
        \/ pc' = [pc EXCEPT ![c] = "done"] /\ decision' = [decision EXCEPT ![c] = "unavailable"]
    BY <1>5 DEF IncrFails, OnRedisError, Decide, PassLimiter, Goes
  <2>2. pc[c] = "incr" /\ UNCHANGED <<window, retried>>
    BY <1>5 DEF IncrFails, OnRedisError, Decide, PassLimiter, Goes
  <2>3. CASE CountCall(c)
    BY <2>1, <2>2, <2>3, EarnedCount DEF TypeOK
  <2>4. CASE UNCHANGED <<count, joined>>
    BY <1>0, <2>1, <2>2, <2>4, EarnedStutter DEF TypeOK
  <2> QED BY <1>5, <2>3, <2>4 DEF IncrFails
<1>6. ASSUME NEW c \in Calls, SetExpiry(c) PROVE EarnedInv'
  <2>1. seen[c] = 1
    BY <1>6 DEF PolicyInv, ExpiryPending, SetExpiry, OnCount, Decide, PassLimiter, Goes
  <2>2. PassLimiter(c, "expire")
    BY <1>6, <2>1, LimitAssumption DEF SetExpiry, OnCount
  <2> QED BY <1>0, <1>6, <2>2, EarnedStutter DEF SetExpiry, PassLimiter, Goes, TypeOK
<1>7. ASSUME NEW c \in Calls, ExpiryFails(c) PROVE EarnedInv'
  BY <1>0, <1>7, EarnedStutter DEF ExpiryFails, OnRedisError, Decide, PassLimiter, Goes, TypeOK
<1>8. ASSUME NEW c \in Calls, CheckInput(c) PROVE EarnedInv'
  BY <1>0, <1>8, EarnedStutter DEF CheckInput, Decide, Goes, redisVars, TypeOK
<1>9. ASSUME NEW k \in Keys, WindowEnds(k) PROVE EarnedInv'
  <2>1. ASSUME NEW j \in Keys, NEW m PROVE CountedIn(j, m)' = CountedIn(j, m)
    BY <1>9 DEF WindowEnds, CountedIn
  <2>2. UncountedYet'
    BY <1>9 DEF WindowEnds, EarnedInv, UncountedYet
  <2>3. CountIsEarned'
    <3> SUFFICES ASSUME NEW j \in Keys, ~\E x \in retried' : Key(x) = j
                 PROVE  window'[j] > 0 /\ count'[j] <= Cardinality(CountedIn(j, window[j])')
      BY DEF CountIsEarned
    <3>1. window[j] > 0 /\ count[j] <= Cardinality(CountedIn(j, window[j]))
      BY <1>9 DEF EarnedInv, CountIsEarned, WindowEnds
    <3>2. CASE j = k
      <4>1. IsFiniteSet(CountedIn(j, window[j])')
        BY CallsAssumption, FS_Subset DEF CountedIn
      <4>2. Cardinality(CountedIn(j, window[j])') >= 0
        BY <4>1, FS_CardinalityType
      <4>3. count'[j] = 0 /\ window'[j] = window[j] + 1
        BY <1>9, <3>2 DEF WindowEnds, TypeOK
      <4> QED BY <3>1, <4>2, <4>3 DEF TypeOK
    <3>3. CASE j # k
      <4>1. count'[j] = count[j] /\ window'[j] = window[j]
        BY <1>9, <3>3 DEF WindowEnds, TypeOK
      <4>2. CountedIn(j, window[j])' = CountedIn(j, window[j])
        BY <1>9, <4>1 DEF WindowEnds, CountedIn
      <4> QED BY <3>1, <4>1, <4>2
    <3> QED BY <3>2, <3>3
  <2>4. ExceededMeansFull'
    <3> SUFFICES ASSUME NEW d \in Calls, decision'[d] = "exceeded"
                 PROVE  \/ joined'[d] > 0 /\ Cardinality(CountedIn(Key(d), joined[d])' \ {d}) >= Limit
                        \/ \E x \in retried' : Key(x) = Key(d)
      BY DEF ExceededMeansFull
    <3>1. CountedIn(Key(d), joined[d])' = CountedIn(Key(d), joined[d])
      BY <1>9 DEF WindowEnds, CountedIn
    <3> QED BY <1>9, <3>1 DEF EarnedInv, ExceededMeansFull, WindowEnds
  <2> QED BY <2>2, <2>3, <2>4 DEF EarnedInv
<1>10. ASSUME Restart PROVE EarnedInv'
  BY <1>0, <1>10, EarnedStutter DEF Restart, redisVars, TypeOK
<1>11. ASSUME UNCHANGED vars PROVE EarnedInv'
  BY <1>0, <1>11, EarnedStutter DEF vars, TypeOK
<1> QED
  BY <1>1, <1>2, <1>3, <1>4, <1>5, <1>6, <1>7, <1>8, <1>9, <1>10, <1>11
  DEF Next, CheckStep

(* A refusal for the rate is earned: Limit other calls of the key were     *)
(* counted in the same window, or an INCR of the key was sent twice.       *)
THEOREM RefusalIsEarned == Spec => []ExceededMeansFull
<1>1. Init => EarnedInv
  <2> SUFFICES ASSUME Init PROVE EarnedInv
    OBVIOUS
  <2>1. ASSUME NEW k \in Keys, NEW n PROVE Cardinality(CountedIn(k, n)) >= 0
    BY CallsAssumption, FS_Subset, FS_CardinalityType DEF CountedIn
  <2> HIDE DEF CountedIn
  <2>2. CountIsEarned
    BY <2>1 DEF Init, CountIsEarned
  <2> QED BY <2>2 DEF Init, EarnedInv, UncountedYet, ExceededMeansFull
<1>2. EarnedInv => ExceededMeansFull
  BY DEF EarnedInv
<1> QED BY <1>1, <1>2, EarnedStep, PolicyTypeCorrect, PolicyInvHolds, PTL DEF Spec
-----------------------------------------------------------------------------
(* The windows are numbered from one, and a call on its way to EXPIRE was  *)
(* counted in one of them.                                                 *)
CountedBeforeExpiry ==
  /\ \A k \in Keys : window[k] > 0
  /\ \A c \in Calls : pc[c] = "expire" => joined[c] > 0

(* Every step keeps CountedBeforeExpiry.                                   *)
LEMMA CountedStep ==
  TypeOK /\ CountedBeforeExpiry /\ [Next]_vars => CountedBeforeExpiry'
<1> SUFFICES ASSUME TypeOK, CountedBeforeExpiry, [Next]_vars
             PROVE  CountedBeforeExpiry'
  OBVIOUS
<1> USE KeyOfCall DEF Decide, PassLimiter, Goes, redisVars
<1>1. ASSUME NEW c \in Calls, DenyStatic(c) \/ Start(c) \/ CheckInput(c)
      PROVE  CountedBeforeExpiry'
  BY <1>1 DEF DenyStatic, Start, CheckInput, TypeOK, CountedBeforeExpiry
<1>2. ASSUME NEW c \in Calls, IncrRetried(c) PROVE CountedBeforeExpiry'
  BY <1>2 DEF IncrRetried, CountCall, TypeOK, CountedBeforeExpiry
<1>3. ASSUME NEW c \in Calls, Incr(c) PROVE CountedBeforeExpiry'
  <2>1. joined'[c] > 0 /\ \A d \in Calls \ {c} : joined'[d] = joined[d] /\ pc'[d] = pc[d]
    BY <1>3 DEF Incr, OnCount, CountCall, TypeOK, CountedBeforeExpiry
  <2> QED BY <1>3, <2>1 DEF Incr, CountedBeforeExpiry
<1>4. ASSUME NEW c \in Calls, IncrFails(c) PROVE CountedBeforeExpiry'
  <2>1. pc'[c] # "expire" /\ \A d \in Calls \ {c} : pc'[d] = pc[d] /\ joined'[d] = joined[d]
    BY <1>4 DEF IncrFails, OnRedisError, CountCall, TypeOK
  <2> QED BY <1>4, <2>1 DEF IncrFails, CountedBeforeExpiry
<1>5. ASSUME NEW c \in Calls, SetExpiry(c) \/ ExpiryFails(c) PROVE CountedBeforeExpiry'
  BY <1>5 DEF SetExpiry, ExpiryFails, OnCount, OnRedisError, TypeOK, CountedBeforeExpiry
<1>6. ASSUME NEW k \in Keys, WindowEnds(k) PROVE CountedBeforeExpiry'
  BY <1>6 DEF WindowEnds, TypeOK, CountedBeforeExpiry
<1>7. CASE Restart
  BY <1>7 DEF Restart, TypeOK, CountedBeforeExpiry
<1>8. CASE UNCHANGED vars
  BY <1>8 DEF vars, CountedBeforeExpiry
<1> QED
  BY <1>1, <1>2, <1>3, <1>4, <1>5, <1>6, <1>7, <1>8 DEF Next, CheckStep

(* A limiter told to fail closed lets no call pass that Redis did not      *)
(* count, whatever Redis answers or fails to answer.                       *)
THEOREM NoneUncountedPasses == Spec => FailClosedCounts
<1>1. Init => CountedBeforeExpiry
  BY DEF Init, CountedBeforeExpiry
<1>2. ASSUME TypeOK, CountedBeforeExpiry, [Next]_vars, FailClosed, limiter,
             NEW c \in Calls, pc[c] # "input", pc'[c] = "input"
      PROVE  joined'[c] > 0
  <2> USE KeyOfCall DEF Decide, PassLimiter, Goes, redisVars
  <2>1. ASSUME NEW d \in Calls,
               DenyStatic(d) \/ Start(d) \/ CheckInput(d) \/ IncrRetried(d) \/ IncrFails(d) \/ ExpiryFails(d)
        PROVE  FALSE
    BY <1>2, <2>1 DEF DenyStatic, Start, CheckInput, IncrRetried, IncrFails, ExpiryFails,
                      OnRedisError, TypeOK
  <2>2. ASSUME NEW d \in Calls, Incr(d) PROVE joined'[c] > 0
    BY <1>2, <2>2 DEF Incr, OnCount, CountCall, TypeOK, CountedBeforeExpiry
  <2>3. ASSUME NEW d \in Calls, SetExpiry(d) PROVE joined'[c] > 0
    BY <1>2, <2>3 DEF SetExpiry, OnCount, TypeOK, CountedBeforeExpiry
  <2>4. ~(UNCHANGED vars) /\ ~Restart /\ \A k \in Keys : ~WindowEnds(k)
    BY <1>2 DEF vars, Restart, WindowEnds, TypeOK
  <2> QED BY <1>2, <2>1, <2>2, <2>3, <2>4 DEF Next, CheckStep
<1>3. TypeOK /\ CountedBeforeExpiry /\ [Next]_vars =>
        [FailClosed /\ limiter =>
           \A c \in Calls : pc[c] # "input" /\ pc'[c] = "input" => joined'[c] > 0]_vars
  BY <1>2
<1> QED BY <1>1, <1>3, CountedStep, PolicyTypeCorrect, PTL DEF Spec, FailClosedCounts
=============================================================================
