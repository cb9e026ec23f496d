-------------------------- MODULE PagingInvariant --------------------------
(* The inductive invariant of Paging: where a row is in a listing, and what *)
(* that says of the rows that were given.                                  *)
EXTENDS Paging

(* The offset that a read starts from: the MemoryStore takes a negative    *)
(* one for none, and MySQL is not read with one.                           *)
From == IF QueryInt(offset, 0) < 0 THEN 0 ELSE QueryInt(offset, 0)

(* The rows that a query lists before r, and how many they are: the place  *)
(* of a row that is not tied, whichever of the orders the query takes.     *)
Ahead(r) == {s \in Committed : Before(s, r)}
Rank(r) == Cardinality(Ahead(r))

(* A row that sorts before r was committed while the client read.          *)
CameLate(r) == \E s \in Committed \ start : Before(s, r)

(* A row is stamped before it is committed, committed once, given after it *)
(* was committed; what was there when the client began is still there.     *)
RowsAreWritten ==
  /\ \A r \in Committed : stamp[r] > 0
  /\ \A i, j \in DOMAIN table : table[i] = table[j] => i = j
  /\ \A r \in Rows : got[r] > 0 => r \in Committed
  /\ start \subseteq Committed

(* Nothing is given before the client reads.                               *)
ReaderIsIdle == \A r \in Rows : got[r] = 0

(* MemoryStore: the rows up to the offset were given once, the others not. *)
MemoryReader ==
  /\ From <= Len(table)
  /\ \A i \in DOMAIN table : got[table[i]] = IF i <= From THEN 1 ELSE 0

(* MySQL: a row of the start that was not given is still behind the offset,*)
(* and one that was given, with no late row before it, is not.             *)
SqlReader ==
  \A r \in Committed : ~Tied(r) =>
    /\ reader = "reading" /\ r \in start /\ got[r] = 0 => From <= Rank(r)
    /\ got[r] > 0 /\ ~CameLate(r) => Rank(r) < From /\ got[r] = 1

PagingInv ==
  /\ TypeOK
  /\ RowsAreWritten
  /\ reader = "idle" => ReaderIsIdle
  /\ ~setup.durable /\ reader # "idle" => MemoryReader
  /\ setup.durable /\ reader # "idle" => SqlReader
  /\ NothingSkipped
=============================================================================
