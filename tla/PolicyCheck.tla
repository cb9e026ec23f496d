---------------------------- MODULE PolicyCheck ----------------------------
(***************************************************************************)
(* Engine.Check of internal/policy/policy.go, run by concurrent calls that *)
(* share the counters of a Redis server (internal/repository/redis.go).    *)
(*                                                                         *)
(* The static checks before the rate limit (allowlist, permission) and the *)
(* checks of the input after it (SQL, URL) are pure and may go either way. *)
(* The rate limit is two Redis commands, INCR and, for the first call of a *)
(* window, EXPIRE; other calls, errors and a restart of the gateway may    *)
(* come between the two.  Redis survives a restart of the gateway; whether *)
(* the engine has a limiter at all is decided once, when main pings Redis. *)
(***************************************************************************)
EXTENDS Naturals, FiniteSets

CONSTANTS Calls,       \* the calls of Engine.Check
          User, Tool,  \* User[c], Tool[c]: whose call it is, and of what
          Limit,       \* RATE_LIMIT_PER_MINUTE
          FailClosed,  \* RATE_LIMIT_FAIL_CLOSED
          Faults       \* what may go wrong: "redis", "crash"

ASSUME CallsAssumption == IsFiniteSet(Calls)
\* NewEngine replaces a limit that is not positive by 60.
ASSUME LimitAssumption == Limit \in Nat \ {0}
ASSUME FailClosedAssumption == FailClosed \in BOOLEAN
ASSUME FaultsAssumption == Faults \subseteq {"redis", "crash"}

VARIABLES
  pc,        \* pc[c]: where call c is
  seen,      \* seen[c]: the count INCR returned to c
  decision,  \* decision[c]: what Check decided
  limiter,   \* the engine of this process has a RedisClient
  count,     \* count[k]: the counter in Redis, 0 when the key is absent
  ttl,       \* ttl[k]: the key has a time to live
  window,    \* history: the number of the window of k
  joined,    \* history: the window in which Redis counted c, or 0
  retried,   \* history: calls whose INCR the Redis client sent again
  tainted    \* history: keys whose commands met a fault

vars == <<pc, seen, decision, limiter, count, ttl, window, joined, retried, tainted>>
-----------------------------------------------------------------------------
CallState == {"idle", "incr", "expire", "input", "done", "gone"}

Decision == {"none", "static", "exceeded", "unavailable", "input", "allowed"}

(* A caller without a user id shares the counter of "guest".               *)
RateLimitKey(user, tool) == <<IF user = "" THEN "guest" ELSE user, tool>>

Key(c) == RateLimitKey(User[c], Tool[c])

Keys == {Key(c) : c \in Calls}

Init ==
  /\ pc = [c \in Calls |-> "idle"]
  /\ seen = [c \in Calls |-> 0]
  /\ decision = [c \in Calls |-> "none"]
  /\ limiter \in IF "redis" \in Faults THEN BOOLEAN ELSE {TRUE}
  /\ count = [k \in Keys |-> 0]
  /\ ttl = [k \in Keys |-> FALSE]
  /\ window = [k \in Keys |-> 1]
  /\ joined = [c \in Calls |-> 0]
  /\ retried = {}
  /\ tainted = {}
-----------------------------------------------------------------------------
redisVars == <<count, ttl, window, joined, retried>>

Goes(c, from, to) == pc[c] = from /\ pc' = [pc EXCEPT ![c] = to]

Decide(c, from, d) ==
  Goes(c, from, "done") /\ decision' = [decision EXCEPT ![c] = d]

(* The limiter has no objection: on to checkSQL and checkURL.              *)
PassLimiter(c, from) == Goes(c, from, "input") /\ UNCHANGED decision

(* Mutant: an error of the limiter has no decision of its own.             *)
OnRedisErrorUndecided(c, from) == Decide(c, from, "error")

(* Mutant: an engine told to fail closed lets the call pass.               *)
OnRedisErrorOpen(c, from) == PassLimiter(c, from)

(* checkRateLimit when IncrWithTTL returned an error.                      *)
OnRedisError(c, from) ==
  IF FailClosed THEN Decide(c, from, "unavailable") ELSE PassLimiter(c, from)

(* Mutants: one call too many, one call too few.                           *)
OnCountTooMany(c, from, n) ==
  IF n > Limit + 1 THEN Decide(c, from, "exceeded") ELSE PassLimiter(c, from)

OnCountTooFew(c, from, n) ==
  IF n >= Limit THEN Decide(c, from, "exceeded") ELSE PassLimiter(c, from)

(* checkRateLimit when IncrWithTTL returned n.                             *)
OnCount(c, from, n) ==
  IF n > Limit THEN Decide(c, from, "exceeded") ELSE PassLimiter(c, from)

(* The counter of c's key goes up by one, in its current window.           *)
CountCall(c) ==
  /\ count' = [count EXCEPT ![Key(c)] = @ + 1]
  /\ joined' = [joined EXCEPT ![c] = window[Key(c)]]
-----------------------------------------------------------------------------
(* The tool is not allowed, or not to this user.                           *)
DenyStatic(c) ==
  /\ Decide(c, "idle", "static")
  /\ UNCHANGED <<seen, limiter, redisVars, tainted>>

(* The static checks pass; without a limiter the rate limit is skipped.    *)
Start(c) ==
  /\ Goes(c, "idle", IF limiter THEN "incr" ELSE "input")
  /\ UNCHANGED <<seen, decision, limiter, redisVars, tainted>>

(* Mutant: no call sets the expiry.                                        *)
IncrNoExpiry(c) ==
  LET n == count[Key(c)] + 1 IN
  /\ CountCall(c)
  /\ seen' = [seen EXCEPT ![c] = n]
  /\ OnCount(c, "incr", n)
  /\ UNCHANGED <<limiter, ttl, window, retried, tainted>>

(* Mutant: every call sets the expiry.                                     *)
IncrSlides(c) ==
  /\ CountCall(c)
  /\ seen' = [seen EXCEPT ![c] = count[Key(c)] + 1]
  /\ Goes(c, "incr", "expire")
  /\ UNCHANGED <<decision, limiter, ttl, window, retried, tainted>>

(* INCR answers n; the call that made the key goes on to set its expiry.   *)
Incr(c) ==
  LET n == count[Key(c)] + 1 IN
  /\ CountCall(c)
  /\ seen' = [seen EXCEPT ![c] = n]
  /\ IF n = 1
     THEN Goes(c, "incr", "expire") /\ UNCHANGED decision
     ELSE OnCount(c, "incr", n)
  /\ UNCHANGED <<limiter, ttl, window, retried, tainted>>

(* INCR returns an error within its 250 ms, applied by Redis or not.       *)
IncrFails(c) ==
  /\ "redis" \in Faults
  /\ OnRedisError(c, "incr")
  /\ CountCall(c) \/ UNCHANGED <<count, joined>>
  /\ tainted' = tainted \cup {Key(c)}
  /\ UNCHANGED <<seen, limiter, ttl, window, retried>>

(* Redis applies INCR, its answer is lost with the connection, and the     *)
(* client sends the command again: once per call, which bounds the counter.*)
IncrRetried(c) ==
  /\ "redis" \in Faults
  /\ pc[c] = "incr"
  /\ c \notin retried
  /\ CountCall(c)
  /\ retried' = retried \cup {c}
  /\ tainted' = tainted \cup {Key(c)}
  /\ UNCHANGED <<pc, seen, decision, limiter, ttl, window>>

(* EXPIRE starts the minute.                                               *)
SetExpiry(c) ==
  /\ ttl' = [ttl EXCEPT ![Key(c)] = TRUE]
  /\ OnCount(c, "expire", seen[c])
  /\ UNCHANGED <<seen, limiter, count, window, joined, retried, tainted>>

ExpiryFails(c) ==
  /\ "redis" \in Faults
  /\ OnRedisError(c, "expire")
  /\ ttl' \in {ttl, [ttl EXCEPT ![Key(c)] = TRUE]}
  /\ tainted' = tainted \cup {Key(c)}
  /\ UNCHANGED <<seen, limiter, count, window, joined, retried>>

(* checkSQL and checkURL.                                                  *)
CheckInput(c) ==
  /\ Decide(c, "input", "input") \/ Decide(c, "input", "allowed")
  /\ UNCHANGED <<seen, limiter, redisVars, tainted>>

(* The minute is over: Redis drops the key.                                *)
WindowEnds(k) ==
  /\ ttl[k]
  /\ count' = [count EXCEPT ![k] = 0]
  /\ ttl' = [ttl EXCEPT ![k] = FALSE]
  /\ window' = [window EXCEPT ![k] = @ + 1]
  /\ UNCHANGED <<pc, seen, decision, limiter, joined, retried, tainted>>

(* The gateway dies and boots again; main pings Redis once.                *)
Restart ==
  LET dead == {c \in Calls : pc[c] \in {"incr", "expire", "input"}} IN
  /\ "crash" \in Faults
  /\ pc' = [c \in Calls |-> IF c \in dead THEN "gone" ELSE pc[c]]
  /\ limiter' \in IF "redis" \in Faults THEN BOOLEAN ELSE {TRUE}
  /\ tainted' = tainted \cup {Key(c) : c \in dead}
  /\ UNCHANGED <<seen, decision, redisVars>>

CheckStep(c) ==
  Incr(c) \/ IncrFails(c) \/ SetExpiry(c) \/ ExpiryFails(c) \/ CheckInput(c)

Next ==
  \/ \E c \in Calls : DenyStatic(c) \/ Start(c) \/ IncrRetried(c) \/ CheckStep(c)
  \/ \E k \in Keys : WindowEnds(k)
  \/ Restart

Spec == Init /\ [][Next]_vars

(* A call in progress goes on, and Redis expires keys that may expire.     *)
Fairness ==
  /\ \A c \in Calls : WF_vars(CheckStep(c))
  /\ \A k \in Keys : WF_vars(WindowEnds(k))

FairSpec == Spec /\ Fairness
-----------------------------------------------------------------------------
(* Properties. *)

TypeOK ==
  /\ pc \in [Calls -> CallState]
  /\ seen \in [Calls -> Nat]
  /\ decision \in [Calls -> Decision]
  /\ limiter \in BOOLEAN
  /\ count \in [Keys -> Nat]
  /\ ttl \in [Keys -> BOOLEAN]
  /\ window \in [Keys -> Nat]
  /\ joined \in [Calls -> Nat]
  /\ retried \subseteq Calls
  /\ tainted \subseteq Keys

(* c got past the rate limit on the strength of its count.                 *)
Admitted(c) == seen[c] > 0 /\ (pc[c] = "input" \/ decision[c] \in {"input", "allowed"})

(* The calls that Redis counted for key k in window n.                     *)
CountedIn(k, n) == {c \in Calls : Key(c) = k /\ joined[c] = n}

(* Of the calls counted for a user and a tool in one window, at most Limit *)
(* get past the rate limit, however their commands interleave with each    *)
(* other, with errors and with restarts.                                   *)
WindowBound ==
  \A k \in Keys : \A n \in 1..window[k] :
    Cardinality({c \in CountedIn(k, n) : Admitted(c)}) <= Limit

(* A call is refused for exceeding the rate only if Redis has counted at   *)
(* least Limit other calls for the same key in the same window, or counted *)
(* a call for the key twice.                                               *)
ExceededMeansFull ==
  \A c \in Calls : decision[c] = "exceeded" =>
    \/ joined[c] > 0 /\ Cardinality(CountedIn(Key(c), joined[c]) \ {c}) >= Limit
    \/ \E x \in retried : Key(x) = Key(c)

(* A counter without a time to live has its first call on the way to set   *)
(* one, or a fault came between INCR and EXPIRE.                           *)
EveryCounterExpires ==
  \A k \in Keys : count[k] > 0 /\ ~ttl[k] =>
    k \in tainted \/ \E c \in Calls : pc[c] = "expire" /\ Key(c) = k

(* The window is fixed: a call in a window never postpones its end, and    *)
(* only the end of the window lowers the counter.                          *)
FixedWindow ==
  [][\A k \in Keys :
       /\ count'[k] < count[k] => ttl[k] /\ window'[k] = window[k] + 1
       /\ ttl[k] => ~\E c \in Calls : Key(c) = k /\ SetExpiry(c)]_vars

(* A user who has used up the rate of a tool may use it again later.       *)
RefusalIsTemporary == \A k \in Keys : count[k] >= Limit ~> count[k] < Limit

(* The same where faults happen: a counter stays at the limit for ever     *)
(* only if a fault or a restart met the commands of its key.               *)
RefusalEndsUnlessCut ==
  \A k \in Keys : count[k] >= Limit ~> count[k] < Limit \/ k \in tainted

(* With RATE_LIMIT_FAIL_CLOSED and a limiter, a call leaves the limiter    *)
(* for the checks of its input only once Redis has counted it.             *)
FailClosedCounts ==
  [][FailClosed /\ limiter =>
       \A c \in Calls : pc[c] # "input" /\ pc'[c] = "input" => joined'[c] > 0]_vars
=============================================================================
