-------------------------- MODULE PolicyInvariant --------------------------
(* The inductive invariant behind the properties of PolicyCheck, stated    *)
(* apart from its proof so that TLC checks it first.                       *)
EXTENDS PolicyCheck

(* A call has an answer of INCR only once INCR was answered.               *)
Unanswered == \A c \in Calls : pc[c] \in {"idle", "incr"} => seen[c] = 0

(* A count was taken in some window, never in one still to come, and in    *)
(* the current window the counter has reached it.                          *)
CountsLag ==
  \A c \in Calls :
    /\ joined[c] <= window[Key(c)]
    /\ seen[c] > 0 /\ joined[c] = window[Key(c)] => seen[c] <= count[Key(c)]

(* Two calls never get the same count of the same window.                  *)
CountsDiffer ==
  \A c, d \in Calls :
    /\ c # d
    /\ Key(c) = Key(d)
    /\ joined[c] = joined[d]
    /\ seen[c] > 0
    /\ seen[d] > 0
    => seen[c] # seen[d]

(* A call past the limiter had a count within the limit.                   *)
AdmittedInLimit ==
  \A c \in Calls :
    /\ Admitted(c) => seen[c] <= Limit
    /\ decision[c] \in {"input", "allowed"} => pc[c] = "done"

(* Only a key that exists has a time to live.                              *)
TtlOfCounter == \A k \in Keys : ttl[k] => count[k] > 0

(* The call that made a key is the only one that will set its expiry.      *)
ExpiryPending ==
  \A c \in Calls : pc[c] = "expire" =>
    /\ seen[c] = 1
    /\ ~ttl[Key(c)]
    /\ count[Key(c)] > 0
    /\ \A d \in Calls : pc[d] = "expire" /\ Key(d) = Key(c) => d = c

PolicyInv ==
  /\ Unanswered
  /\ CountsLag
  /\ CountsDiffer
  /\ AdmittedInLimit
  /\ TtlOfCounter
  /\ ExpiryPending

(* A call Redis has counted is past INCR or sent it again.                 *)
UncountedYet ==
  \A c \in Calls : pc[c] \in {"idle", "incr"} /\ c \notin retried => joined[c] = 0

(* Unless some INCR of key k was sent twice, the counter is no more than   *)
(* the number of calls counted in the current window.                      *)
CountIsEarned ==
  \A k \in Keys :
    \/ \E x \in retried : Key(x) = k
    \/ window[k] > 0 /\ count[k] <= Cardinality(CountedIn(k, window[k]))

EarnedInv ==
  /\ UncountedYet
  /\ CountIsEarned
  /\ ExceededMeansFull
=============================================================================
