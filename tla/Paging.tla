------------------------------- MODULE Paging -------------------------------
(***************************************************************************)
(* The paged lists of the repository: ListMessages (oldest first),         *)
(* ListToolCalls and ListPolicyRejects (newest first in MySQL), while rows *)
(* are written.  A client reads page after page: it asks for a limit and   *)
(* an offset, goes on behind the rows it was given, and stops at an empty  *)
(* page.                                                                   *)
(*                                                                         *)
(* A MySQL row carries the second in which time.Now() was read (created_at *)
(* is a DATETIME), before the INSERT; rows of one second come in any order,*)
(* and not in the same one in every query.  The MemoryStore appends behind *)
(* a lock and lists in that order.                                         *)
(***************************************************************************)
EXTENDS Integers, Sequences, FiniteSets

CONSTANTS Rows,          \* the rows written
          Setups,        \* records of durable (MySQLStore or MemoryStore) and
                         \* newestFirst (ORDER BY created_at DESC)
          MaxClock,      \* bound: the last second
          DefaultLimit,  \* 20
          MaxLimit,      \* 100
          Limits,        \* what clients give as limit; NoNumber: nothing or a word
          Offsets,       \* what they give as the first offset, not above 0
          NoNumber

ASSUME SetupsAssumption ==
  Setups \subseteq [durable : BOOLEAN, newestFirst : BOOLEAN]
ASSUME RowsAssumption == IsFiniteSet(Rows)
ASSUME ClockAssumption == MaxClock \in Nat \ {0}
ASSUME LimitAssumption == DefaultLimit \in 1 .. MaxLimit /\ MaxLimit \in Nat
ASSUME InputAssumption ==
  /\ NoNumber \notin Int
  /\ \A n \in Limits : n = NoNumber \/ n \in Int
  /\ \A k \in Offsets : k = NoNumber \/ (k \in Int /\ k <= 0)

VARIABLES
  setup,   \* the store of this process and the list that is read
  clock,   \* the present second
  stamp,   \* stamp[r]: created_at, 0 before the row is stamped
  table,   \* the rows, in the order in which they were committed
  reader,  \* where the client is: "idle", "reading", "done", "refused"
  limit,   \* the limit it asks for
  offset,  \* the offset it asks for next
  got,     \* got[r]: how often it was given row r
  start    \* history: the rows there were when it began

vars == <<setup, clock, stamp, table, reader, limit, offset, got, start>>
-----------------------------------------------------------------------------
Committed == {table[i] : i \in DOMAIN table}

Init ==
  /\ setup \in Setups
  /\ clock = 1
  /\ stamp = [r \in Rows |-> 0]
  /\ table = <<>>
  /\ reader = "idle"
  /\ limit = NoNumber
  /\ offset = NoNumber
  /\ got = [r \in Rows |-> 0]
  /\ start = {}
-----------------------------------------------------------------------------
(* Pages. *)

(* handler.queryInt: strconv.Atoi or the fallback.                         *)
QueryInt(value, fallback) == IF value = NoNumber THEN fallback ELSE value

(* Mutant: a limit is checked from above only.                             *)
NormLimitAbove(n) == IF n > MaxLimit THEN DefaultLimit ELSE n

NormLimit(n) == IF n <= 0 \/ n > MaxLimit THEN DefaultLimit ELSE n

AtMost(a, b) == IF a < b THEN a ELSE b

(* page of the MemoryStore: a negative offset is none.                     *)
MemoryPage(list, n, k) ==
  LET from == IF k < 0 THEN 0 ELSE k
  IN IF from >= Len(list) THEN <<>>
     ELSE SubSeq(list, from + 1, AtMost(from + NormLimit(n), Len(list)))

(* LIMIT normLimit(n) OFFSET k, for an offset that MySQL takes.            *)
SqlPage(list, n, k) ==
  LET kept == {i \in DOMAIN list : k < i /\ i <= k + NormLimit(n)}
  IN [i \in 1 .. Cardinality(kept) |-> list[k + i]]

(* created_at against created_at, by the ORDER BY.                         *)
Before(r, s) == IF setup.newestFirst THEN stamp[r] > stamp[s] ELSE stamp[r] < stamp[s]

Sorted(list) ==
  \A i, j \in DOMAIN list : i < j => ~Before(list[j], list[i])

(* The orders in which a query may list the table.                         *)
Listings ==
  IF ~setup.durable THEN {table}
  ELSE {list \in [DOMAIN table -> Committed] :
          {list[i] : i \in DOMAIN list} = Committed /\ Sorted(list)}

PageOf(list, n, k) == IF setup.durable THEN SqlPage(list, n, k) ELSE MemoryPage(list, n, k)
-----------------------------------------------------------------------------
(* Rows are written. *)

Tick ==
  /\ clock < MaxClock
  /\ clock' = clock + 1
  /\ UNCHANGED <<setup, stamp, table, reader, limit, offset, got, start>>

StoreInMemory(r) ==
  /\ ~setup.durable /\ stamp[r] = 0
  /\ stamp' = [stamp EXCEPT ![r] = clock]
  /\ table' = Append(table, r)
  /\ UNCHANGED <<setup, clock, reader, limit, offset, got, start>>

(* The time is read in the gateway ...                                     *)
Stamp(r) ==
  /\ setup.durable /\ stamp[r] = 0
  /\ stamp' = [stamp EXCEPT ![r] = clock]
  /\ UNCHANGED <<setup, clock, table, reader, limit, offset, got, start>>

(* ... and the row is committed in MySQL.                                  *)
Commit(r) ==
  /\ setup.durable /\ stamp[r] > 0 /\ r \notin Committed
  /\ table' = Append(table, r)
  /\ UNCHANGED <<setup, clock, stamp, reader, limit, offset, got, start>>
-----------------------------------------------------------------------------
(* The client reads. *)

BeginRead ==
  /\ reader = "idle"
  /\ reader' = "reading"
  /\ limit' \in Limits
  /\ offset' \in Offsets
  /\ start' = Committed
  /\ UNCHANGED <<setup, clock, stamp, table, got>>

(* MySQL refuses a negative OFFSET.                                        *)
ReadRefused ==
  /\ reader = "reading"
  /\ setup.durable /\ QueryInt(offset, 0) < 0
  /\ reader' = "refused"
  /\ UNCHANGED <<setup, clock, stamp, table, limit, offset, got, start>>

ReadPage ==
  /\ reader = "reading"
  /\ setup.durable => QueryInt(offset, 0) >= 0
  /\ \E list \in Listings :
       LET from == QueryInt(offset, 0)
           page == PageOf(list, QueryInt(limit, DefaultLimit), from)
           given == {page[i] : i \in DOMAIN page}
       IN /\ got' = [r \in Rows |-> IF r \in given THEN got[r] + 1 ELSE got[r]]
          /\ offset' = (IF from < 0 THEN 0 ELSE from) + Len(page)
          /\ reader' = IF page = <<>> THEN "done" ELSE "reading"
  /\ UNCHANGED <<setup, clock, stamp, table, limit, start>>

Next ==
  \/ Tick
  \/ \E r \in Rows : StoreInMemory(r) \/ Stamp(r) \/ Commit(r)
  \/ BeginRead \/ ReadRefused \/ ReadPage

Spec == Init /\ [][Next]_vars
-----------------------------------------------------------------------------
(* Properties. *)

TypeOK ==
  /\ setup \in Setups
  /\ clock \in 1 .. MaxClock
  /\ stamp \in [Rows -> 0 .. MaxClock]
  /\ table \in Seq(Rows) /\ Len(table) = Cardinality(Committed)
  /\ reader \in {"idle", "reading", "done", "refused"}
  /\ limit \in Limits \cup {NoNumber}
  /\ offset \in Offsets \cup Nat \cup {NoNumber}
  /\ got \in [Rows -> Nat]
  /\ start \subseteq Rows

Tied(r) == setup.durable /\ \E s \in Committed \ {r} : stamp[s] = stamp[r]

(* A client that reads to the end is given every row there was when it     *)
(* began, though rows are written meanwhile; only rows of one second may   *)
(* be passed over, when two queries order them differently.                *)
NothingSkipped ==
  reader = "done" => \A r \in start : got[r] > 0 \/ Tied(r)

(* It is given a row twice only if that row is tied, or if a row that      *)
(* sorts before it was committed while it read: never by the MemoryStore,  *)
(* and never from a transcript unless a commit came late.                  *)
NothingTwice ==
  \A r \in Rows : got[r] > 1 =>
    Tied(r) \/ (setup.durable /\ \E s \in Committed \ start : Before(s, r))

(* For every limit, and every offset that MySQL takes, page and LIMIT with *)
(* OFFSET cut the same rows out of the same list.                          *)
StoresPageAlike ==
  \A n \in Limits : \A k \in 0 .. Cardinality(Rows) :
    LET size == QueryInt(n, DefaultLimit)
    IN MemoryPage(table, size, k) = SqlPage(table, size, k)

(* Whichever store it reads from, a client that pages through a list gets  *)
(* what it holds, once.                                                    *)
PagesAreRight == TypeOK /\ NothingSkipped /\ NothingTwice /\ StoresPageAlike
=============================================================================
