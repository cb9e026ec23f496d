--------------------------- MODULE Paging_proofs ---------------------------
(***************************************************************************)
(* Proofs about Paging, for any rows, limits, offsets and seconds: a row   *)
(* that is not tied has one place in every listing, and what was given is  *)
(* what lies before the offset.                                            *)
(***************************************************************************)
EXTENDS PagingInvariant, FunctionTheorems, FiniteSetTheorems, SequenceTheorems, TLAPS

-----------------------------------------------------------------------------
(* Pages. *)

LEMMA LimitFacts ==
  ASSUME NEW n \in Limits \cup {NoNumber}
  PROVE  NormLimit(QueryInt(n, DefaultLimit)) \in Nat \ {0}
BY LimitAssumption, InputAssumption DEF NormLimit, QueryInt

(* The rows that a page of size runs over, from offset k on. *)
PageSize(length, size, k) ==
  IF k >= length THEN 0 ELSE AtMost(size, length - k)

LEMMA SeqOfLength ==
  ASSUME NEW S, NEW size \in Nat, NEW page \in [1 .. size -> S]
  PROVE  page \in Seq(S) /\ Len(page) = size
<1>1. page \in Seq(S)
  BY SeqDef
<1>2. DOMAIN page = 1 .. Len(page) /\ Len(page) \in Nat
  BY <1>1, LenProperties
<1>3. DOMAIN page = 1 .. size
  OBVIOUS
<1> QED
  BY <1>1, <1>2, <1>3

LEMMA NegativeOffset ==
  ASSUME NEW list, NEW n, NEW k \in Int, k < 0
  PROVE  MemoryPage(list, n, k) = MemoryPage(list, n, 0)
BY DEF MemoryPage

(* A page: the rows of the list behind an offset, as many as it may have.  *)
IsPage(page, list, n, from) ==
  LET size == PageSize(Len(list), NormLimit(n), from) IN
  /\ page \in Seq(Rows)
  /\ Len(page) = size
  /\ \A i \in 1 .. size : page[i] = list[from + i]

LEMMA MemoryPageFacts ==
  ASSUME NEW list \in Seq(Rows), NEW n, NormLimit(n) \in Nat \ {0}, NEW from \in Nat
  PROVE  IsPage(MemoryPage(list, n, from), list, n, from)
<1> DEFINE last == AtMost(from + NormLimit(n), Len(list))
           size == PageSize(Len(list), NormLimit(n), from)
<1> SUFFICES /\ MemoryPage(list, n, from) \in Seq(Rows)
             /\ Len(MemoryPage(list, n, from)) = size
             /\ \A i \in 1 .. size : MemoryPage(list, n, from)[i] = list[from + i]
  BY DEF IsPage
<1>0. MemoryPage(list, n, from)
        = IF from >= Len(list) THEN <<>> ELSE SubSeq(list, from + 1, last)
  <2>1. (IF from < 0 THEN 0 ELSE from) = from
    OBVIOUS
  <2> QED
    BY <2>1 DEF MemoryPage
<1>1. from \in Nat /\ Len(list) \in Nat
  OBVIOUS
<1> HIDE DEF last
<1>2. CASE from >= Len(list)
  <2>1. MemoryPage(list, n, from) = <<>> /\ size = 0
    BY <1>0, <1>1, <1>2 DEF PageSize
  <2>2. <<>> \in Seq(Rows) /\ Len(<<>>) = 0
    OBVIOUS
  <2> QED
    BY <2>1, <2>2
<1>3. CASE from < Len(list)
  <2>1. last \in Nat /\ from < last /\ last <= Len(list) /\ size = last - from
    BY <1>1, <1>3 DEF last, AtMost, PageSize
  <2>2. MemoryPage(list, n, from) = SubSeq(list, from + 1, last)
    <3>1. ~(from >= Len(list))
      BY <1>1, <1>3
    <3> QED
      BY <1>0, <3>1
  <2>3. \A i \in from + 1 .. last : list[i] \in Rows
    BY <1>1, <2>1
  <2>4. /\ SubSeq(list, from + 1, last) \in Seq(Rows)
        /\ Len(SubSeq(list, from + 1, last))
             = IF from + 1 <= last THEN last - (from + 1) + 1 ELSE 0
        /\ \A i \in 1 .. last - (from + 1) + 1 :
             SubSeq(list, from + 1, last)[i] = list[(from + 1) + i - 1]
    <3>1. from + 1 \in Int /\ last \in Int
      BY <1>1, <2>1
    <3> QED
      BY <2>3, <3>1, SubSeqProperties
  <2> QED
    BY <1>1, <2>1, <2>2, <2>4
<1> QED
  BY <1>1, <1>2, <1>3

LEMMA SqlPageFacts ==
  ASSUME NEW list \in Seq(Rows), NEW n, NormLimit(n) \in Nat \ {0}, NEW k \in Nat
  PROVE  IsPage(SqlPage(list, n, k), list, n, k)
<1> DEFINE size == PageSize(Len(list), NormLimit(n), k)
           kept == {i \in DOMAIN list : k < i /\ i <= k + NormLimit(n)}
           page == [i \in 1 .. size |-> list[k + i]]
<1>1. Len(list) \in Nat /\ size \in Nat /\ (size > 0 => k + size <= Len(list))
  BY DEF PageSize, AtMost
<1>2. kept = k + 1 .. k + size
  BY <1>1 DEF PageSize, AtMost
<1>3. Cardinality(kept) = size
  <2> DEFINE a == k + 1
             b == k + size
  <2>a. a \in Int /\ b \in Int
    BY <1>1
  <2>b. (IF a > b THEN 0 ELSE b - a + 1) = size
    BY <1>1
  <2>1. Cardinality(a .. b) = size
    <3> HIDE DEF a, b
    <3> QED
      BY <2>a, <2>b, FS_Interval
  <2> QED
    BY <1>1, <1>2, <2>1
<1>4. SqlPage(list, n, k) = page
  BY <1>3 DEF SqlPage
<1>5. page \in [1 .. size -> Rows]
  BY <1>1
<1>6. page \in Seq(Rows) /\ Len(page) = size
  BY <1>1, <1>5, SeqOfLength
<1> QED
  BY <1>4, <1>6 DEF IsPage

LEMMA PagesAlike == TypeOK => StoresPageAlike
<1> SUFFICES ASSUME TypeOK, NEW n \in Limits, NEW k \in 0 .. Cardinality(Rows)
             PROVE  MemoryPage(table, QueryInt(n, DefaultLimit), k)
                    = SqlPage(table, QueryInt(n, DefaultLimit), k)
  BY DEF StoresPageAlike
<1> DEFINE limitOf == QueryInt(n, DefaultLimit)
           size == PageSize(Len(table), NormLimit(limitOf), k)
<1>1. k \in Nat /\ table \in Seq(Rows)
  BY RowsAssumption, FS_CardinalityType DEF TypeOK
<1>2. NormLimit(limitOf) \in Nat \ {0}
  BY LimitFacts
<1> HIDE DEF limitOf
<1>3. /\ MemoryPage(table, limitOf, k) \in Seq(Rows)
      /\ Len(MemoryPage(table, limitOf, k)) = size
      /\ \A i \in 1 .. size : MemoryPage(table, limitOf, k)[i] = table[k + i]
  BY <1>1, <1>2, MemoryPageFacts DEF IsPage
<1>4. /\ SqlPage(table, limitOf, k) \in Seq(Rows)
      /\ Len(SqlPage(table, limitOf, k)) = size
      /\ \A i \in 1 .. size : SqlPage(table, limitOf, k)[i] = table[k + i]
  BY <1>1, <1>2, SqlPageFacts DEF IsPage
<1> HIDE DEF size
<1>5. MemoryPage(table, limitOf, k) = SqlPage(table, limitOf, k)
  BY <1>3, <1>4, SeqEqual
<1> QED
  BY <1>5 DEF limitOf
-----------------------------------------------------------------------------
(* Listings. *)

LEMMA CommittedFacts ==
  ASSUME TypeOK
  PROVE  /\ table \in [1 .. Len(table) -> Committed] /\ Len(table) \in Nat
         /\ DOMAIN table = 1 .. Len(table)
         /\ Committed \subseteq Rows
         /\ IsFiniteSet(Committed)
         /\ Cardinality(1 .. Len(table)) = Cardinality(Committed)
<1>1. table \in [1 .. Len(table) -> Rows] /\ Len(table) \in Nat /\ DOMAIN table = 1 .. Len(table)
  BY LenProperties DEF TypeOK
<1>2. Committed \subseteq Rows
  BY <1>1 DEF Committed
<1>3. IsFiniteSet(Committed)
  BY <1>2, RowsAssumption, FS_Subset
<1>4. Cardinality(1 .. Len(table)) = Len(table)
  <2>1. (IF 1 > Len(table) THEN 0 ELSE Len(table) - 1 + 1) = Len(table)
    BY <1>1
  <2> QED
    BY <1>1, <2>1, FS_Interval
<1> QED
  BY <1>1, <1>2, <1>3, <1>4 DEF Committed, TypeOK

(* A query lists every row once, in the order of the stamps. *)
LEMMA ListingFacts ==
  ASSUME TypeOK, setup.durable, NEW list \in Listings
  PROVE  /\ list \in Seq(Rows) /\ Len(list) = Len(table)
         /\ DOMAIN list = 1 .. Len(table)
         /\ \A i \in 1 .. Len(table) : list[i] \in Committed
         /\ \A r \in Committed : \E i \in 1 .. Len(table) : list[i] = r
         /\ \A i, j \in 1 .. Len(table) : list[i] = list[j] => i = j
         /\ \A i, j \in 1 .. Len(table) : i < j => ~Before(list[j], list[i])
<1> DEFINE N == Len(table)
<1>1. list \in [1 .. N -> Committed] /\ {list[i] : i \in 1 .. N} = Committed /\ Sorted(list)
  <2>1. list \in [DOMAIN table -> Committed] /\ {list[i] : i \in DOMAIN list} = Committed
        /\ Sorted(list)
    BY DEF Listings
  <2> QED
    BY <2>1, CommittedFacts
<1>2. list \in Seq(Rows) /\ Len(list) = N
  <2>1. list \in [1 .. N -> Rows] /\ N \in Nat
    BY <1>1, CommittedFacts
  <2> QED
    BY <2>1, SeqOfLength
<1>3. list \in Surjection(1 .. N, Committed)
  BY <1>1 DEF Surjection
<1>4. list \in Injection(1 .. N, Committed)
  <2>1. IsFiniteSet(1 .. N)
    BY CommittedFacts, FS_Interval
  <2> QED
    BY <1>3, <2>1, CommittedFacts, FS_SurjSameCardinalityImpliesInj
<1>5. \A i, j \in 1 .. N : list[i] = list[j] => i = j
  BY <1>4 DEF Injection, IsInjective
<1>6. \A r \in Committed : \E i \in 1 .. N : list[i] = r
  BY <1>1
<1> QED
  BY <1>1, <1>2, <1>5, <1>6 DEF Sorted

(* Rows that are not tied are before or behind each other. *)
LEMMA UntiedFacts ==
  ASSUME TypeOK, setup.durable, NEW r \in Committed, ~Tied(r),
         NEW s \in Committed, s # r
  PROVE  Before(s, r) <=> ~Before(r, s)
<1>1. stamp[r] \in Nat /\ stamp[s] \in Nat
  BY CommittedFacts, ClockAssumption DEF TypeOK
<1>2. stamp[r] # stamp[s]
  BY DEF Tied
<1> QED
  BY <1>1, <1>2 DEF Before

LEMMA RankFacts ==
  ASSUME TypeOK, NEW r
  PROVE  /\ IsFiniteSet(Ahead(r))
         /\ Rank(r) \in Nat
BY CommittedFacts, FS_Subset, FS_CardinalityType DEF Ahead, Rank

(* The place of a row that is not tied is the same in every listing. *)
LEMMA PlaceIsRank ==
  ASSUME TypeOK, setup.durable, NEW list \in Listings, NEW p \in 1 .. Len(table), ~Tied(list[p])
  PROVE  Rank(list[p]) = p - 1
<1> DEFINE r == list[p]
           front == [i \in 1 .. p - 1 |-> list[i]]
<1>1. Len(table) \in Nat /\ r \in Committed
  BY CommittedFacts, ListingFacts
<1>2. \A i \in 1 .. Len(table) : i < p <=> Before(list[i], r)
  <2> SUFFICES ASSUME NEW i \in 1 .. Len(table)
               PROVE  i < p <=> Before(list[i], r)
    OBVIOUS
  <2>1. CASE i = p
    <3>1. stamp[r] \in Nat
      BY <1>1, CommittedFacts, ClockAssumption DEF TypeOK
    <3> QED
      BY <2>1, <3>1 DEF Before
  <2>2. CASE i < p
    <3>1. list[i] # r /\ list[i] \in Committed /\ ~Before(r, list[i])
      BY <2>2, ListingFacts
    <3> QED
      BY <1>1, <2>2, <3>1, UntiedFacts
  <2>3. CASE p < i
    <3>1. ~Before(list[i], r)
      BY <2>3, ListingFacts
    <3> QED
      BY <2>3, <3>1
  <2> QED
    BY <1>1, <2>1, <2>2, <2>3
<1>3. front \in Bijection(1 .. p - 1, Ahead(r))
  <2>1. \A i \in 1 .. p - 1 : i \in 1 .. Len(table) /\ i < p
    BY <1>1
  <2>2. \A i \in 1 .. p - 1 : list[i] \in Ahead(r)
    BY <1>2, <2>1, ListingFacts DEF Ahead
  <2>3. \A s \in Ahead(r) : \E i \in 1 .. p - 1 : list[i] = s
    <3> SUFFICES ASSUME NEW s \in Ahead(r)
                 PROVE  \E i \in 1 .. p - 1 : list[i] = s
      OBVIOUS
    <3>1. PICK i \in 1 .. Len(table) : list[i] = s
      BY ListingFacts DEF Ahead
    <3>2. i < p
      BY <1>2, <3>1 DEF Ahead
    <3> QED
      BY <1>1, <3>1, <3>2
  <2>4. \A i, j \in 1 .. p - 1 : list[i] = list[j] => i = j
    BY <2>1, ListingFacts
  <2> QED
    BY <2>2, <2>3, <2>4 DEF Bijection, Injection, IsInjective, Surjection
<1>4. IsFiniteSet(1 .. p - 1) /\ Cardinality(1 .. p - 1) = p - 1
  <2>1. p - 1 \in Int /\ (IF 1 > p - 1 THEN 0 ELSE (p - 1) - 1 + 1) = p - 1
    BY <1>1
  <2> QED
    BY <2>1, FS_Interval
<1>5. Cardinality(Ahead(r)) = p - 1
  <2>1. ExistsBijection(1 .. p - 1, Ahead(r))
    BY <1>3 DEF ExistsBijection
  <2> QED
    BY <1>4, <2>1, FS_Bijection
<1> QED
  BY <1>5 DEF Rank
-----------------------------------------------------------------------------
(* A page. *)

LEMMA FromFacts ==
  ASSUME TypeOK
  PROVE  From \in Nat
BY InputAssumption DEF TypeOK, From, QueryInt

(* A read of c rows of a listing from the offset on. *)
Reads(list, c) ==
  /\ c \in Nat
  /\ list \in Seq(Rows) /\ Len(list) = Len(table)
  /\ IF c = 0 THEN From >= Len(table) ELSE From + c <= Len(table)
  /\ offset' = From + c
  /\ got' \in [Rows -> Nat]
  /\ \A r \in Rows :
       got'[r] = IF \E i \in 1 .. c : list[From + i] = r THEN got[r] + 1 ELSE got[r]
  /\ reader' = IF c = 0 THEN "done" ELSE "reading"

LEMMA ReadFacts ==
  ASSUME TypeOK, ReadPage
  PROVE  \E list \in Listings : \E c \in Nat : Reads(list, c)
<1> DEFINE from == QueryInt(offset, 0)
           n == QueryInt(limit, DefaultLimit)
<1>1. PICK list \in Listings :
        LET page == PageOf(list, n, from)
            given == {page[i] : i \in DOMAIN page}
        IN /\ got' = [r \in Rows |-> IF r \in given THEN got[r] + 1 ELSE got[r]]
           /\ offset' = (IF from < 0 THEN 0 ELSE from) + Len(page)
           /\ reader' = IF page = <<>> THEN "done" ELSE "reading"
  BY DEF ReadPage
<1>2. from \in Int /\ (setup.durable => from \in Nat)
  BY InputAssumption DEF TypeOK, QueryInt, ReadPage
<1>3. NormLimit(n) \in Nat \ {0}
  BY LimitFacts DEF TypeOK
<1>4. list \in Seq(Rows) /\ Len(list) = Len(table)
  <2>1. CASE setup.durable
    BY <2>1, ListingFacts
  <2>2. CASE ~setup.durable
    BY <2>2 DEF Listings, TypeOK
  <2> QED
    BY <2>1, <2>2
<1> DEFINE page == PageOf(list, n, from)
           c == PageSize(Len(list), NormLimit(n), From)
<1>5. From \in Nat /\ From = IF from < 0 THEN 0 ELSE from
  BY FromFacts DEF From
<1>6. /\ page \in Seq(Rows)
      /\ Len(page) = c
      /\ \A i \in 1 .. c : page[i] = list[From + i]
  <2> HIDE DEF n
  <2>1. CASE setup.durable
    <3>1. page = SqlPage(list, n, From)
      BY <1>2, <1>5, <2>1 DEF PageOf
    <3>2. IsPage(SqlPage(list, n, From), list, n, From)
      <4>1. list \in Seq(Rows) /\ NormLimit(n) \in Nat \ {0} /\ From \in Nat
        BY <1>3, <1>4, <1>5
      <4> QED
        BY ONLY <4>1, SqlPageFacts
    <3> HIDE DEF page
    <3> QED
      BY <3>1, <3>2 DEF IsPage
  <2>2. CASE ~setup.durable
    <3>1. page = MemoryPage(list, n, From)
      <4>1. page = MemoryPage(list, n, from)
        BY <2>2 DEF PageOf
      <4> HIDE DEF from, page
      <4>2. CASE from < 0
        <5>1. From = 0
          BY <1>5, <4>2
        <5> QED
          BY <1>2, <4>1, <4>2, <5>1, NegativeOffset
      <4>3. CASE ~(from < 0)
        <5>1. From = from
          BY <1>5, <4>3
        <5> QED
          BY <4>1, <5>1
      <4> QED
        BY <4>2, <4>3
    <3>2. IsPage(MemoryPage(list, n, From), list, n, From)
      <4>1. list \in Seq(Rows) /\ NormLimit(n) \in Nat \ {0} /\ From \in Nat
        BY <1>3, <1>4, <1>5
      <4> QED
        BY ONLY <4>1, MemoryPageFacts
    <3> HIDE DEF page
    <3> QED
      BY <3>1, <3>2 DEF IsPage
  <2> QED
    BY <2>1, <2>2
<1>7. c \in Nat /\ IF c = 0 THEN From >= Len(table) ELSE From + c <= Len(table)
  <2>1. Len(table) \in Nat
    BY CommittedFacts
  <2> HIDE DEF n
  <2> QED
    BY <1>3, <1>4, <1>5, <2>1 DEF PageSize, AtMost
<1> HIDE DEF c, page
<1>8. DOMAIN page = 1 .. c
  BY <1>6, LenProperties
<1>9. page = <<>> <=> c = 0
  BY <1>6
<1>10. /\ got' = [r \in Rows |-> IF r \in {page[i] : i \in DOMAIN page} THEN got[r] + 1 ELSE got[r]]
       /\ offset' = (IF from < 0 THEN 0 ELSE from) + Len(page)
       /\ reader' = IF page = <<>> THEN "done" ELSE "reading"
  BY <1>1 DEF page
<1>11. got' \in [Rows -> Nat]
  BY <1>10 DEF TypeOK
<1>12. \A r \in Rows :
         got'[r] = IF \E i \in 1 .. c : list[From + i] = r THEN got[r] + 1 ELSE got[r]
  <2>1. \A r \in Rows : r \in {page[i] : i \in DOMAIN page} <=> \E i \in 1 .. c : list[From + i] = r
    BY <1>6, <1>8
  <2> QED
    BY <1>10, <2>1
<1>13. Reads(list, c)
  BY <1>4, <1>5, <1>6, <1>7, <1>9, <1>10, <1>11, <1>12 DEF Reads
<1> QED
  BY <1>7, <1>13
-----------------------------------------------------------------------------
(* Rows are written. *)

LEMMA InitInv == Init => PagingInv
<1> SUFFICES ASSUME Init PROVE PagingInv
  OBVIOUS
<1>1. Committed = {} /\ table = <<>> /\ Len(table) = 0 /\ table \in Seq(Rows) /\ DOMAIN table = {}
  BY DEF Init, Committed
<1>2. TypeOK
  <2>1. Len(table) = Cardinality(Committed)
    BY <1>1, FS_EmptySet
  <2> QED
    BY <1>1, <2>1, ClockAssumption DEF Init, TypeOK
<1>3. RowsAreWritten
  BY <1>1 DEF RowsAreWritten, Init
<1> QED
  BY <1>2, <1>3 DEF Init, PagingInv, ReaderIsIdle, NothingSkipped

(* A row that is committed comes behind all others of the table. *)
LEMMA AppendFacts ==
  ASSUME TypeOK, RowsAreWritten, NEW r \in Rows, r \notin Committed, table' = Append(table, r)
  PROVE  /\ table' \in Seq(Rows) /\ Len(table') = Cardinality(Committed')
         /\ Committed' = Committed \cup {r}
         /\ Len(table') = Len(table) + 1
         /\ \A i \in 1 .. Len(table) : table'[i] = table[i]
         /\ table'[Len(table) + 1] = r
         /\ \A i, j \in DOMAIN table' : table'[i] = table'[j] => i = j
<1>1. /\ table' \in Seq(Rows)
      /\ Len(table') = Len(table) + 1
      /\ \A i \in 1 .. Len(table) : table'[i] = table[i]
      /\ table'[Len(table) + 1] = r
      /\ DOMAIN table' = 1 .. Len(table) + 1
  <2>1. table \in Seq(Rows)
    BY DEF TypeOK
  <2> QED
    BY <2>1, AppendProperties, LenProperties
<1>2. Len(table) \in Nat /\ DOMAIN table = 1 .. Len(table)
  BY CommittedFacts
<1>3. \A i \in 1 .. Len(table) + 1 : i \in 1 .. Len(table) \/ i = Len(table) + 1
  BY <1>2
<1>4. Committed' = Committed \cup {r}
  <2>1. Committed' = {table'[i] : i \in 1 .. Len(table) + 1}
    BY <1>1 DEF Committed
  <2>2. Committed = {table[i] : i \in 1 .. Len(table)}
    BY <1>2 DEF Committed
  <2>3. Len(table) + 1 \in 1 .. Len(table) + 1 /\ 1 .. Len(table) \subseteq 1 .. Len(table) + 1
    BY <1>2
  <2>4. Committed' \subseteq Committed \cup {r}
    BY <1>1, <1>3, <2>1, <2>2
  <2>5. r \in Committed'
    BY <1>1, <2>1, <2>3
  <2>6. \A i \in 1 .. Len(table) : table[i] \in Committed'
    BY <1>1, <2>1, <2>3
  <2> QED
    BY <2>2, <2>4, <2>5, <2>6
<1>5. Len(table') = Cardinality(Committed')
  <2>1. Cardinality(Committed \cup {r}) = Cardinality(Committed) + 1
    BY CommittedFacts, FS_AddElement
  <2>2. Len(table) = Cardinality(Committed)
    BY DEF TypeOK
  <2> QED
    BY <1>1, <1>4, <2>1, <2>2
<1>6. \A i, j \in DOMAIN table' : table'[i] = table'[j] => i = j
  <2>1. \A i \in 1 .. Len(table) : table'[i] # r
    BY <1>1, <1>2 DEF Committed
  <2>2. \A i, j \in 1 .. Len(table) : table'[i] = table'[j] => i = j
    BY <1>1, <1>2 DEF RowsAreWritten
  <2> QED
    BY <1>1, <1>3, <2>1, <2>2
<1> QED
  BY <1>1, <1>4, <1>5, <1>6

(* While rows are written: a tied row stays tied, and the rows ahead of one*)
(* that is not only become more if one of them came late.                  *)
LEMMA RowsGrow ==
  ASSUME PagingInv, TypeOK', setup.durable,
         UNCHANGED <<setup, reader, offset, got, start>>,
         Committed \subseteq Committed', \A s \in Committed : stamp'[s] = stamp[s]
  PROVE  /\ NothingSkipped'
         /\ reader # "idle" => SqlReader'
<1>1. \A r \in Committed : Tied(r) => Tied(r)'
  BY DEF Tied
<1>2. NothingSkipped'
  BY <1>1 DEF PagingInv, RowsAreWritten, NothingSkipped
<1>3. From' = From /\ From \in Nat
  BY FromFacts DEF From, QueryInt, PagingInv
<1>4. \A r \in Committed : Ahead(r) \subseteq Ahead(r)'
  BY DEF Ahead, Before
<1>5. \A r \in Committed : ~CameLate(r)' => ~CameLate(r) /\ Ahead(r)' = Ahead(r)
  BY DEF CameLate, Ahead, Before, PagingInv, RowsAreWritten
<1>6. ASSUME reader # "idle" PROVE SqlReader'
  <2> SUFFICES ASSUME NEW r \in Committed', ~Tied(r)'
               PROVE  /\ reader = "reading" /\ r \in start /\ got[r] = 0 => From <= Rank(r)'
                      /\ got[r] > 0 /\ ~CameLate(r)' => Rank(r)' < From /\ got[r] = 1
    BY <1>3 DEF SqlReader
  <2>1. r \in start \/ got[r] > 0 => r \in Committed
    <3>1. Committed' \subseteq Rows
      <4>1. \A i \in DOMAIN table' : table'[i] \in Rows
        BY DEF TypeOK
      <4> QED
        BY <4>1 DEF Committed
    <3> QED
      BY <3>1 DEF PagingInv, RowsAreWritten
  <2>2. CASE r \in Committed
    <3>1. SqlReader /\ ~Tied(r)
      BY <1>1, <1>6, <2>2 DEF PagingInv
    <3>2. Rank(r) \in Nat /\ Rank(r)' \in Nat /\ Rank(r) <= Rank(r)'
      <4>1. IsFiniteSet(Ahead(r)')
        <5>1. IsFiniteSet(Committed')
          <6>1. \A i \in DOMAIN table' : table'[i] \in Rows
            BY DEF TypeOK
          <6>2. Committed' \subseteq Rows
            BY <6>1 DEF Committed
          <6> QED
            BY <6>2, RowsAssumption, FS_Subset
        <5>2. Ahead(r)' \subseteq Committed'
          BY DEF Ahead
        <5> QED
          BY <5>1, <5>2, FS_Subset
      <4> QED
        BY <1>4, <2>2, <4>1, FS_Subset, FS_CardinalityType DEF Rank
    <3>3. ~CameLate(r)' => ~CameLate(r) /\ Rank(r)' = Rank(r)
      BY <1>5, <2>2 DEF Rank
    <3> QED
      BY <1>3, <2>2, <3>1, <3>2, <3>3 DEF SqlReader
  <2> QED
    BY <2>1, <2>2 DEF PagingInv, TypeOK
<1> QED
  BY <1>2, <1>6

LEMMA StampsAreNat == TypeOK => stamp \in [Rows -> Nat] /\ clock \in Nat \ {0}
BY ClockAssumption DEF TypeOK

LEMMA TickInv == ASSUME PagingInv, Tick PROVE PagingInv'
<1>1. UNCHANGED <<setup, reader, offset, got, start, table, stamp, limit, Committed>>
  BY DEF Tick, Committed
<1>2. TypeOK'
  <2>1. clock' \in 1 .. MaxClock
    BY ClockAssumption DEF Tick, PagingInv, TypeOK
  <2> QED
    BY <1>1, <2>1 DEF PagingInv, TypeOK
<1>3. RowsAreWritten' /\ ReaderIsIdle' = ReaderIsIdle
  BY <1>1 DEF PagingInv, RowsAreWritten, ReaderIsIdle
<1>4. MemoryReader' = MemoryReader
  BY <1>1 DEF MemoryReader, From, QueryInt
<1>5. SqlReader' = SqlReader
  BY <1>1 DEF SqlReader, Tied, Rank, Ahead, Before, CameLate, From, QueryInt
<1>6. NothingSkipped'
  BY <1>1 DEF NothingSkipped, Tied, PagingInv
<1> QED
  BY <1>1, <1>2, <1>3, <1>4, <1>5, <1>6 DEF PagingInv

LEMMA StampInv == ASSUME PagingInv, NEW r \in Rows, Stamp(r) PROVE PagingInv'
<1>1. /\ setup.durable
      /\ UNCHANGED <<setup, reader, offset, got, start, table, limit, clock, Committed>>
  BY DEF Stamp, Committed
<1>2. stamp' = [stamp EXCEPT ![r] = clock] /\ r \notin Committed
  BY DEF Stamp, PagingInv, RowsAreWritten
<1>3. TypeOK'
  BY <1>1, <1>2 DEF PagingInv, TypeOK
<1>4. \A s \in Committed : stamp'[s] = stamp[s]
  BY <1>2, CommittedFacts DEF PagingInv, TypeOK
<1>5. RowsAreWritten' /\ ReaderIsIdle' = ReaderIsIdle
  BY <1>1, <1>4 DEF PagingInv, RowsAreWritten, ReaderIsIdle
<1>6. NothingSkipped' /\ (reader # "idle" => SqlReader')
  BY <1>1, <1>3, <1>4, RowsGrow
<1> QED
  BY <1>1, <1>3, <1>5, <1>6 DEF PagingInv

LEMMA CommitInv == ASSUME PagingInv, NEW r \in Rows, Commit(r) PROVE PagingInv'
<1>1. UNCHANGED <<setup, reader, offset, got, start, stamp, limit, clock>> /\ setup.durable
      /\ table' = Append(table, r) /\ r \notin Committed /\ stamp[r] > 0
  BY DEF Commit
<1>2. /\ table' \in Seq(Rows) /\ Len(table') = Cardinality(Committed')
      /\ Committed' = Committed \cup {r}
      /\ \A i, j \in DOMAIN table' : table'[i] = table'[j] => i = j
  BY <1>1, AppendFacts DEF PagingInv
<1>3. TypeOK'
  BY <1>1, <1>2 DEF PagingInv, TypeOK
<1>4. RowsAreWritten' /\ ReaderIsIdle' = ReaderIsIdle
  BY <1>1, <1>2 DEF PagingInv, RowsAreWritten, ReaderIsIdle
<1>5. NothingSkipped' /\ (reader # "idle" => SqlReader')
  BY <1>1, <1>2, <1>3, RowsGrow
<1> QED
  BY <1>1, <1>3, <1>4, <1>5 DEF PagingInv

LEMMA StoreInMemoryInv == ASSUME PagingInv, NEW r \in Rows, StoreInMemory(r) PROVE PagingInv'
<1>1. UNCHANGED <<setup, reader, offset, got, start, limit, clock>> /\ ~setup.durable
      /\ table' = Append(table, r) /\ stamp' = [stamp EXCEPT ![r] = clock]
  BY DEF StoreInMemory
<1>2. r \notin Committed
  BY DEF StoreInMemory, PagingInv, RowsAreWritten
<1>3. /\ table' \in Seq(Rows) /\ Len(table') = Cardinality(Committed')
      /\ Committed' = Committed \cup {r}
      /\ Len(table') = Len(table) + 1
      /\ \A i \in 1 .. Len(table) : table'[i] = table[i]
      /\ table'[Len(table) + 1] = r
      /\ \A i, j \in DOMAIN table' : table'[i] = table'[j] => i = j
  BY <1>1, <1>2, AppendFacts DEF PagingInv
<1>4. TypeOK'
  BY <1>1, <1>3 DEF PagingInv, TypeOK
<1>5. \A s \in Committed' : stamp'[s] > 0
  BY <1>1, <1>3, CommittedFacts, StampsAreNat DEF PagingInv, RowsAreWritten
<1>6. RowsAreWritten' /\ ReaderIsIdle' = ReaderIsIdle
  BY <1>1, <1>3, <1>5 DEF PagingInv, RowsAreWritten, ReaderIsIdle
<1>7. ASSUME reader # "idle" PROVE MemoryReader'
  <2>1. MemoryReader /\ From' = From /\ From \in Nat
    BY <1>1, <1>7, FromFacts DEF PagingInv, From, QueryInt
  <2>2. Len(table) \in Nat /\ DOMAIN table = 1 .. Len(table) /\ DOMAIN table' = 1 .. Len(table) + 1
    BY <1>3, CommittedFacts, LenProperties DEF PagingInv
  <2>3. got[r] = 0
    BY <1>2 DEF PagingInv, RowsAreWritten, TypeOK
  <2>4. \A i \in DOMAIN table' : got[table'[i]] = IF i <= From THEN 1 ELSE 0
    <3> SUFFICES ASSUME NEW i \in DOMAIN table'
                 PROVE  got[table'[i]] = IF i <= From THEN 1 ELSE 0
      OBVIOUS
    <3>1. CASE i \in 1 .. Len(table)
      BY <1>3, <2>1, <2>2, <3>1 DEF MemoryReader
    <3>2. CASE i = Len(table) + 1
      BY <1>3, <2>1, <2>2, <2>3, <3>2 DEF MemoryReader
    <3> QED
      BY <2>2, <3>1, <3>2
  <2> QED
    BY <1>1, <1>3, <2>1, <2>2, <2>4 DEF MemoryReader
<1>8. NothingSkipped'
  BY <1>1 DEF PagingInv, NothingSkipped, Tied
<1> QED
  BY <1>1, <1>4, <1>6, <1>7, <1>8 DEF PagingInv
-----------------------------------------------------------------------------
(* The client reads. *)

LEMMA BeginReadInv == ASSUME PagingInv, BeginRead PROVE PagingInv'
<1>1. /\ reader = "idle" /\ reader' = "reading"
      /\ UNCHANGED <<setup, clock, stamp, table, got, Committed>>
      /\ limit' \in Limits /\ offset' \in Offsets /\ start' = Committed
  BY DEF BeginRead, Committed
<1>2. TypeOK'
  BY <1>1, CommittedFacts DEF PagingInv, TypeOK
<1>3. RowsAreWritten'
  BY <1>1 DEF PagingInv, RowsAreWritten
<1>4. \A r \in Rows : got[r] = 0
  BY <1>1 DEF PagingInv, ReaderIsIdle
<1>5. From' = 0
  BY <1>1, InputAssumption DEF From, QueryInt
<1>6. MemoryReader'
  <2>1. \A i \in DOMAIN table : table[i] \in Rows /\ i > 0
    BY CommittedFacts DEF PagingInv
  <2>2. Len(table) \in Nat
    BY CommittedFacts DEF PagingInv
  <2> QED
    BY <1>1, <1>4, <1>5, <2>1, <2>2 DEF MemoryReader
<1>7. SqlReader'
  <2>1. \A r : Rank(r)' = Rank(r) /\ Rank(r) \in Nat
    BY <1>1, RankFacts DEF Rank, Ahead, Before, PagingInv
  <2> QED
    BY <1>1, <1>4, <1>5, <2>1, CommittedFacts DEF SqlReader, PagingInv
<1> QED
  BY <1>1, <1>2, <1>3, <1>6, <1>7 DEF PagingInv, NothingSkipped

LEMMA ReadRefusedInv == ASSUME PagingInv, ReadRefused PROVE PagingInv'
<1>1. UNCHANGED <<setup, clock, stamp, table, limit, offset, got, start, Committed>>
      /\ reader = "reading" /\ reader' = "refused" /\ setup.durable
  BY DEF ReadRefused, Committed
<1>2. TypeOK'
  BY <1>1 DEF PagingInv, TypeOK
<1>3. RowsAreWritten'
  BY <1>1 DEF PagingInv, RowsAreWritten
<1>4. SqlReader'
  BY <1>1 DEF PagingInv, SqlReader, Tied, Rank, Ahead, Before, CameLate, From, QueryInt
<1> QED
  BY <1>1, <1>2, <1>3, <1>4 DEF PagingInv, NothingSkipped

LEMMA ReadPageType ==
  ASSUME PagingInv, ReadPage, NEW list \in Listings, NEW c \in Nat, Reads(list, c)
  PROVE  /\ TypeOK' /\ RowsAreWritten'
         /\ From' = From + c
         /\ UNCHANGED <<setup, clock, stamp, table, limit, start, Committed>>
         /\ reader = "reading"
<1>1. UNCHANGED <<setup, clock, stamp, table, limit, start, Committed>> /\ reader = "reading"
  BY DEF ReadPage, Committed
<1>2. From \in Nat /\ offset' = From + c
  BY FromFacts DEF PagingInv, Reads
<1>3. From' = From + c
  BY <1>2, InputAssumption DEF From, QueryInt
<1>4. TypeOK'
  BY <1>1, <1>2 DEF PagingInv, TypeOK, Reads
<1>5. \A r \in Rows : got'[r] > 0 => r \in Committed
  <2> SUFFICES ASSUME NEW r \in Rows, got'[r] > 0
               PROVE  r \in Committed
    OBVIOUS
  <2>1. CASE \E i \in 1 .. c : list[From + i] = r
    <3>1. PICK i \in 1 .. c : list[From + i] = r
      BY <2>1
    <3>2. From + i \in 1 .. Len(table)
      BY <1>2, CommittedFacts DEF PagingInv, Reads
    <3> QED
      BY <3>1, <3>2, ListingFacts, CommittedFacts DEF Listings, PagingInv
  <2>2. CASE ~\E i \in 1 .. c : list[From + i] = r
    BY <2>2 DEF PagingInv, RowsAreWritten, Reads
  <2> QED
    BY <2>1, <2>2
<1> QED
  BY <1>1, <1>3, <1>4, <1>5 DEF PagingInv, RowsAreWritten

(* MemoryStore: the page is the next piece of the table. *)
LEMMA ReadPageInMemory ==
  ASSUME PagingInv, ReadPage, ~setup.durable, NEW c \in Nat, Reads(table, c)
  PROVE  MemoryReader' /\ NothingSkipped'
<1>1. /\ RowsAreWritten' /\ From' = From + c /\ From \in Nat /\ MemoryReader
      /\ UNCHANGED <<setup, clock, stamp, table, limit, start, Committed>>
  <2>1. table \in Listings
    BY DEF Listings
  <2>2. reader = "reading" /\ From \in Nat
    BY FromFacts DEF ReadPage, PagingInv
  <2> QED
    BY <2>1, <2>2, ReadPageType DEF PagingInv
<1>2. Len(table) \in Nat /\ DOMAIN table = 1 .. Len(table)
      /\ \A i \in 1 .. Len(table) : table[i] \in Rows
  BY CommittedFacts DEF PagingInv
<1>3. \A i \in 1 .. Len(table) :
        got'[table[i]] = IF i <= From + c THEN 1 ELSE 0
  <2> SUFFICES ASSUME NEW i \in 1 .. Len(table)
               PROVE  got'[table[i]] = IF i <= From + c THEN 1 ELSE 0
    OBVIOUS
  <2>1. (\E j \in 1 .. c : table[From + j] = table[i]) <=> From < i /\ i <= From + c
    <3>1. ASSUME NEW j \in 1 .. c, table[From + j] = table[i] PROVE From + j = i
      <4>1. From + j \in 1 .. Len(table)
        BY <1>1, <1>2 DEF Reads
      <4> QED
        BY <1>2, <3>1, <4>1 DEF PagingInv, RowsAreWritten
    <3>2. ASSUME From < i, i <= From + c
          PROVE  \E j \in 1 .. c : table[From + j] = table[i]
      <4>1. i - From \in 1 .. c /\ From + (i - From) = i
        BY <1>1, <1>2, <3>2
      <4> QED
        BY <4>1
    <3>3. \A j \in 1 .. c : From < From + j /\ From + j <= From + c
      BY <1>1
    <3> QED
      BY <3>1, <3>2, <3>3
  <2>2. got[table[i]] = IF i <= From THEN 1 ELSE 0
    BY <1>1, <1>2 DEF MemoryReader
  <2>3. got'[table[i]] = IF From < i /\ i <= From + c THEN got[table[i]] + 1 ELSE got[table[i]]
    BY <1>2, <2>1 DEF Reads
  <2> QED
    BY <1>1, <1>2, <2>2, <2>3
<1>4. From + c <= Len(table)
  BY <1>1, <1>2 DEF Reads, MemoryReader
<1>5. MemoryReader'
  BY <1>1, <1>2, <1>3, <1>4 DEF MemoryReader
<1>6. reader' = "done" => \A r \in Committed : got'[r] > 0
  <2> SUFFICES ASSUME reader' = "done", NEW i \in 1 .. Len(table)
               PROVE  got'[table[i]] > 0
    BY <1>2 DEF Committed
  <2>1. From >= Len(table) /\ c = 0
    BY DEF Reads
  <2> QED
    BY <1>1, <1>2, <1>3, <2>1
<1>7. NothingSkipped'
  BY <1>1, <1>6 DEF NothingSkipped, RowsAreWritten
<1> QED
  BY <1>5, <1>7

(* MySQL: a row that is not tied has one place in every listing, and the  *)
(* page holds it if and only if the place lies in it.                     *)
LEMMA ReadPageOfMySQL ==
  ASSUME PagingInv, ReadPage, setup.durable, NEW list \in Listings, NEW c \in Nat, Reads(list, c)
  PROVE  SqlReader' /\ NothingSkipped'
<1>1. /\ RowsAreWritten' /\ From' = From + c /\ From \in Nat /\ SqlReader /\ reader = "reading"
      /\ UNCHANGED <<setup, clock, stamp, table, limit, start, Committed>>
  <2>1. reader = "reading" /\ From \in Nat
    BY FromFacts DEF ReadPage, PagingInv
  <2> QED
    BY <2>1, ReadPageType DEF PagingInv
<1>2. Len(table) \in Nat /\ Committed \subseteq Rows
  BY CommittedFacts DEF PagingInv
<1>3. \A r \in Committed :
        /\ Tied(r)' <=> Tied(r)
        /\ Rank(r)' = Rank(r) /\ Rank(r) \in Nat
        /\ CameLate(r)' <=> CameLate(r)
  BY <1>1, RankFacts DEF Tied, Rank, Ahead, Before, CameLate, PagingInv
<1>4. ASSUME NEW r \in Committed, ~Tied(r)
      PROVE  /\ got'[r] = IF From <= Rank(r) /\ Rank(r) < From + c THEN got[r] + 1 ELSE got[r]
             /\ Rank(r) < Len(table)
  <2>1. PICK p \in 1 .. Len(table) : list[p] = r
    BY ListingFacts DEF PagingInv
  <2>2. Rank(r) = p - 1
    BY <1>4, <2>1, PlaceIsRank DEF PagingInv
  <2>3. (\E i \in 1 .. c : list[From + i] = r) <=> From < p /\ p <= From + c
    <3>1. ASSUME NEW i \in 1 .. c, list[From + i] = r PROVE From + i = p
      <4>1. From + i \in 1 .. Len(table)
        BY <1>1, <1>2 DEF Reads
      <4> QED
        BY <2>1, <3>1, <4>1, ListingFacts DEF PagingInv
    <3>2. ASSUME From < p, p <= From + c PROVE p - From \in 1 .. c /\ From + (p - From) = p
      BY <1>1, <1>2, <3>2
    <3>3. \A i \in 1 .. c : From < From + i /\ From + i <= From + c
      BY <1>1
    <3>4. ASSUME From < p, p <= From + c PROVE \E i \in 1 .. c : list[From + i] = r
      <4>1. p - From \in 1 .. c /\ list[From + (p - From)] = r
        BY <2>1, <3>2, <3>4
      <4> QED
        BY <4>1
    <3>5. ASSUME \E i \in 1 .. c : list[From + i] = r PROVE From < p /\ p <= From + c
      BY <3>1, <3>3, <3>5
    <3> QED
      BY <3>4, <3>5
  <2>4. got'[r] = IF \E i \in 1 .. c : list[From + i] = r THEN got[r] + 1 ELSE got[r]
    BY <1>2 DEF Reads
  <2>5. (From < p /\ p <= From + c) <=> (From <= Rank(r) /\ Rank(r) < From + c)
    <3> HIDE DEF Reads
    <3>1. From \in Nat /\ c \in Nat /\ p \in Int /\ Rank(r) = p - 1
      BY <1>1, <1>2, <2>1, <2>2
    <3> QED
      BY <3>1
  <2>6. Rank(r) < Len(table)
    BY <1>2, <2>1, <2>2
  <2> QED
    BY <2>3, <2>4, <2>5, <2>6
<1>5. \A r \in Committed : got[r] \in Nat
  BY <1>2 DEF PagingInv, TypeOK
<1>6. SqlReader'
  <2> SUFFICES ASSUME NEW r \in Committed, ~Tied(r)
               PROVE  /\ reader' = "reading" /\ r \in start /\ got'[r] = 0 => From + c <= Rank(r)
                      /\ got'[r] > 0 /\ ~CameLate(r) => Rank(r) < From + c /\ got'[r] = 1
    BY <1>1, <1>3 DEF SqlReader
  <2>1. /\ r \in start /\ got[r] = 0 => From <= Rank(r)
        /\ got[r] > 0 /\ ~CameLate(r) => Rank(r) < From /\ got[r] = 1
    BY <1>1 DEF SqlReader
  <2>2. Rank(r) \in Nat /\ got[r] \in Nat
    BY <1>3, <1>5
  <2>3. got'[r] = IF From <= Rank(r) /\ Rank(r) < From + c THEN got[r] + 1 ELSE got[r]
    BY <1>4
  <2> QED
    BY <1>1, <2>1, <2>2, <2>3
<1>7. NothingSkipped'
  <2> SUFFICES ASSUME reader' = "done", NEW r \in start, ~Tied(r)
               PROVE  got'[r] > 0
    BY <1>1, <1>3 DEF NothingSkipped, PagingInv, RowsAreWritten
  <2>1. From >= Len(table) /\ c = 0
    BY DEF Reads
  <2>2. r \in Committed /\ got[r] \in Nat
    BY <1>5 DEF PagingInv, RowsAreWritten
  <2>3. got[r] = 0 => From <= Rank(r)
    BY <1>1, <2>2 DEF SqlReader
  <2> QED
    BY <1>1, <1>2, <1>3, <1>4, <2>1, <2>2, <2>3
<1> QED
  BY <1>6, <1>7

LEMMA ReadPageInv == ASSUME PagingInv, ReadPage PROVE PagingInv'
<1>1. PICK list \in Listings : \E c \in Nat : Reads(list, c)
  BY ReadFacts DEF PagingInv
<1>2. PICK c \in Nat : Reads(list, c)
  BY <1>1
<1>3. TypeOK' /\ RowsAreWritten' /\ setup' = setup
  BY <1>2, ReadPageType
<1>4. reader' # "idle"
  BY <1>2 DEF Reads
<1>5. CASE setup.durable
  BY <1>2, <1>3, <1>4, <1>5, ReadPageOfMySQL DEF PagingInv
<1>6. CASE ~setup.durable
  <2>1. list = table
    BY <1>6 DEF Listings
  <2> QED
    BY <1>2, <1>3, <1>4, <1>6, <2>1, ReadPageInMemory DEF PagingInv
<1> QED
  BY <1>5, <1>6
-----------------------------------------------------------------------------
LEMMA StepInv == PagingInv /\ [Next]_vars => PagingInv'
<1> SUFFICES ASSUME PagingInv, [Next]_vars PROVE PagingInv'
  OBVIOUS
<1>1. CASE Tick BY <1>1, TickInv
<1>2. ASSUME NEW r \in Rows, StoreInMemory(r) PROVE PagingInv'
  BY <1>2, StoreInMemoryInv
<1>3. ASSUME NEW r \in Rows, Stamp(r) PROVE PagingInv'
  BY <1>3, StampInv
<1>4. ASSUME NEW r \in Rows, Commit(r) PROVE PagingInv'
  BY <1>4, CommitInv
<1>5. CASE BeginRead BY <1>5, BeginReadInv
<1>6. CASE ReadRefused BY <1>6, ReadRefusedInv
<1>7. CASE ReadPage BY <1>7, ReadPageInv
<1>8. CASE UNCHANGED vars
  <2>1. UNCHANGED <<setup, clock, stamp, table, reader, limit, offset, got, start, Committed>>
    BY <1>8 DEF vars, Committed
  <2>2. TypeOK' /\ RowsAreWritten' /\ (reader' = "idle" => ReaderIsIdle')
    BY <2>1 DEF PagingInv, TypeOK, RowsAreWritten, ReaderIsIdle
  <2>3. MemoryReader' = MemoryReader
    BY <2>1 DEF MemoryReader, From, QueryInt
  <2>4. SqlReader' = SqlReader
    BY <2>1 DEF SqlReader, Tied, Rank, Ahead, Before, CameLate, From, QueryInt
  <2>5. NothingSkipped'
    BY <2>1 DEF PagingInv, NothingSkipped, Tied
  <2> QED
    BY <2>1, <2>2, <2>3, <2>4, <2>5 DEF PagingInv
<1> QED
  BY <1>1, <1>2, <1>3, <1>4, <1>5, <1>6, <1>7, <1>8 DEF Next

(* The inductive invariant of the paged lists holds. *)
THEOREM PagingInvHolds == Spec => []PagingInv
BY InitInv, StepInv, PTL DEF Spec

LEMMA InvGivesNothingTwice == PagingInv => NothingTwice
<1> SUFFICES ASSUME PagingInv, NEW r \in Rows, got[r] > 1, ~Tied(r)
             PROVE  setup.durable /\ \E s \in Committed \ start : Before(s, r)
  BY DEF NothingTwice
<1>1. r \in Committed /\ got[r] \in Nat /\ got[r] > 0 /\ got[r] # 1 /\ got[r] # 0
  BY DEF PagingInv, RowsAreWritten, TypeOK
<1>2. reader # "idle"
  BY <1>1 DEF PagingInv, ReaderIsIdle
<1>3. CASE setup.durable
  BY <1>1, <1>2, <1>3 DEF PagingInv, SqlReader, CameLate
<1>4. CASE ~setup.durable
  <2>1. PICK i \in DOMAIN table : table[i] = r
    BY <1>1 DEF Committed
  <2> QED
    BY <1>1, <1>2, <1>4, <2>1 DEF PagingInv, MemoryReader
<1> QED
  BY <1>3, <1>4

(* For any number of rows and seconds, any limits and any orders in which  *)
(* MySQL lists rows of one second: a client that reads a list to its end   *)
(* misses no row that was there when it began and gets none twice, but for *)
(* the ones that share their second and the ones behind a late commit; and *)
(* page cuts what LIMIT and OFFSET cut.                                    *)
THEOREM PagesRight == Spec => []PagesAreRight
<1>1. PagingInv => PagesAreRight
  BY InvGivesNothingTwice, PagesAlike DEF PagingInv, PagesAreRight
<1> QED
  BY <1>1, PagingInvHolds, PTL
=============================================================================
