--------------------------- MODULE RagIndex_proofs ----------------------------
(* Theorems of RagIndex, for any documents, searches, contents and faults. *)
EXTENDS RagInvariant, TLAPS

(* A document has a number of chunks.                                      *)
LEMMA ChunksNat == TypeOK => \A d \in Docs : Chunks(d) \in Nat
BY SetupsAssumption DEF TypeOK, Chunks

(* The points of a document are numbered from zero.                        *)
LEMMA PointsAre ==
  \A d : /\ \A p \in PointsOf(d) : p[1] = d /\ p[2] \in 0 .. Chunks(d) - 1 /\ p = <<d, p[2]>>
         /\ \A i \in 0 .. Chunks(d) - 1 : <<d, i>> \in PointsOf(d)
BY DEF PointsOf

(* A chunk is a point of its document.                                     *)
LEMMA ChunkIsPoint ==
  \A p \in AllChunks : p[1] \in Docs /\ p \in PointsOf(p[1])
<1> SUFFICES ASSUME NEW p \in AllChunks PROVE p[1] \in Docs /\ p \in PointsOf(p[1])
  OBVIOUS
<1>1. PICK d \in Docs : p \in PointsOf(d)
  BY DEF AllChunks
<1> QED BY <1>1, PointsAre

(* The points of every document are chunks.                               *)
LEMMA PointsIn == \A d \in Docs : PointsOf(d) \subseteq AllChunks
BY DEF AllChunks

(* The setup of a process stays, and with it the chunks of a document.     *)
LEMMA SetupStays ==
  ASSUME UNCHANGED setup
  PROVE  /\ \A d : Chunks(d)' = Chunks(d) /\ PointsOf(d)' = PointsOf(d)
         /\ AllChunks' = AllChunks /\ Write' = Write
<1>1. \A d : Chunks(d)' = Chunks(d)
  BY DEF Chunks
<1>2. \A d : PointsOf(d)' = PointsOf(d)
  BY <1>1 DEF PointsOf
<1>3. AllChunks' = AllChunks
  BY <1>2 DEF AllChunks
<1> QED BY <1>1, <1>2, <1>3 DEF Write

(* The writes that can be interrupted.                                     *)
LEMMA WritesTyped ==
  /\ [kind |-> "collection"] \in Write
  /\ \A d \in Docs : [kind |-> "document", doc |-> d] \in Write /\ [kind |-> "points", doc |-> d] \in Write
  /\ \A c \in AllChunks : [kind |-> "chunk", chunk |-> c] \in Write
BY DEF Write

(* No step changes what the gateway is configured with.                    *)
LEMMA SetupConstant == [Next]_vars => UNCHANGED setup
BY DEF Next, vars, Refuse, Begin, Step, EnsureStep, IndexStep, CheckCollection, CreateCollection,
       CreateDocument, EmbedChunks, Upsert, SaveChunk, Finish, Search, Disconnect, Restart, Land

(* A write that fails changes nothing but what is on its way.              *)
LEMMA FailsType ==
  ASSUME lost \subseteq Write, NEW r, NEW w \in Write, QdrantFails(r, w) \/ StoreFails(r, w)
  PROVE  lost' \subseteq Write
BY DEF QdrantFails, StoreFails

(* Every step keeps the types.                                             *)
LEMMA RagTypeStep == TypeOK /\ [Next]_vars => TypeOK'
<1> SUFFICES ASSUME TypeOK, [Next]_vars PROVE TypeOK'
  OBVIOUS
<1>0. UNCHANGED setup
  BY SetupConstant
<1> USE SetupStays, <1>0 DEF RequestState, Reply, Requests, Goes, Returns
<1>1. ASSUME NEW r \in Requests, Refuse(r) PROVE TypeOK'
  BY <1>1 DEF Refuse, TypeOK
<1>2. ASSUME NEW r \in Requests, Begin(r) PROVE TypeOK'
  <2>1. expects' \in [Searches -> SUBSET Docs]
    BY <1>2 DEF Begin, TypeOK
  <2>2. early' \subseteq Requests /\ pc' \in [Requests -> RequestState]
    BY <1>2 DEF Begin, TypeOK
  <2> QED BY <1>2, <2>1, <2>2 DEF Begin, TypeOK
<1>3. ASSUME NEW r \in Requests, CheckCollection(r) PROVE TypeOK'
  BY <1>3 DEF CheckCollection, AfterEnsure, TypeOK
<1>4. ASSUME NEW r \in Requests, CreateCollection(r) PROVE TypeOK'
  <2>1. lost' \subseteq Write
    <3>1. lost \subseteq Write
      BY DEF TypeOK
    <3> QED BY <1>4, <3>1, WritesTyped, FailsType DEF CreateCollection
  <2>2. collection' \in BOOLEAN
    BY <1>4 DEF CreateCollection, TypeOK
  <2>3. pc' \in [Requests -> RequestState] /\ reply' \in [Requests -> Reply]
    BY <1>4 DEF CreateCollection, AfterEnsure, TypeOK
  <2> QED BY <1>4, <2>1, <2>2, <2>3 DEF CreateCollection, TypeOK
<1>5. ASSUME NEW d \in Docs, CreateDocument(d) PROVE TypeOK'
  <2>1. lost' \subseteq Write
    <3>1. lost \subseteq Write
      BY DEF TypeOK
    <3> QED BY <1>5, <3>1, WritesTyped, FailsType DEF CreateDocument
  <2> QED BY <1>5, <2>1 DEF CreateDocument, TypeOK
<1>6. ASSUME NEW d \in Docs, EmbedChunks(d) PROVE TypeOK'
  BY <1>6 DEF EmbedChunks, TypeOK
<1>7. ASSUME NEW d \in Docs, Upsert(d) PROVE TypeOK'
  <2>1. lost' \subseteq Write
    <3>1. lost \subseteq Write
      BY DEF TypeOK
    <3> QED BY <1>7, <3>1, WritesTyped, FailsType DEF Upsert
  <2> QED BY <1>7, <2>1, PointsIn DEF Upsert, TypeOK
<1>8. ASSUME NEW d \in Docs, SaveChunk(d) PROVE TypeOK'
  <2>1. Chunks(d) \in Nat /\ next[d] \in Nat /\ next[d] < Chunks(d)
    BY <1>8, ChunksNat DEF SaveChunk, TypeOK
  <2>2. <<d, next[d]>> \in AllChunks
    BY <2>1, PointsAre, PointsIn
  <2>3. chunks' \subseteq AllChunks
    BY <1>8, <2>2, PointsIn DEF SaveChunk, TypeOK
  <2>4. lost' \subseteq Write
    BY <1>8, <2>2, WritesTyped DEF SaveChunk, StoreFails, TypeOK
  <2>5. next' \in [Docs -> Nat] /\ \A e \in Docs : next'[e] <= Chunks(e)
    BY <1>8, <2>1 DEF SaveChunk, TypeOK
  <2> QED BY <1>8, <2>3, <2>4, <2>5 DEF SaveChunk, TypeOK
<1>9. ASSUME NEW d \in Docs, Finish(d) PROVE TypeOK'
  BY <1>9 DEF Finish, TypeOK
<1>10. ASSUME NEW s \in Searches, Search(s) PROVE TypeOK'
  BY <1>10 DEF Search, TypeOK
<1>11. ASSUME NEW r \in Requests, Disconnect(r) PROVE TypeOK'
  BY <1>11 DEF Disconnect, TypeOK
<1>12. CASE Restart
  BY <1>12 DEF Restart, TypeOK
<1>13. ASSUME NEW w \in lost, Land(w) PROVE TypeOK'
  <2>1. w \in Write
    BY DEF TypeOK
  <2>2. w.kind = "document" => w.doc \in Docs
    BY <2>1 DEF Write
  <2>3. w.kind = "points" => PointsOf(w.doc) \subseteq AllChunks
    BY <2>1, PointsIn DEF Write
  <2>4. w.kind = "chunk" => w.chunk \in AllChunks
    BY <2>1 DEF Write
  <2>5. collection' \in BOOLEAN /\ lost' \subseteq Write
    BY <1>13 DEF Land, TypeOK
  <2> QED BY <1>13, <2>2, <2>3, <2>4, <2>5 DEF Land, TypeOK
<1>14. CASE UNCHANGED vars
  BY <1>14 DEF vars, TypeOK
<1> QED
  BY <1>1, <1>2, <1>3, <1>4, <1>5, <1>6, <1>7, <1>8, <1>9, <1>10, <1>11, <1>12, <1>13, <1>14
  DEF Next, Step, EnsureStep, IndexStep

(* The initial state has its types.                                        *)
LEMMA InitTyped == Init => TypeOK
<1> SUFFICES ASSUME Init PROVE TypeOK
  OBVIOUS
<1>1. \A d \in Docs : Chunks(d) \in Nat
  BY SetupsAssumption DEF Init, Chunks
<1>2. next \in [Docs -> Nat] /\ \A d \in Docs : next[d] <= Chunks(d)
  BY <1>1 DEF Init
<1>3. seen \in [Searches -> SUBSET AllChunks] /\ expects \in [Searches -> SUBSET Docs]
  BY DEF Init
<1> QED BY <1>2, <1>3 DEF Init, TypeOK, RequestState, Reply, Requests

(* What indexing and searching keep has its type in every reachable state. *)
THEOREM RagTypeCorrect == Spec => []TypeOK
BY InitTyped, RagTypeStep, PTL DEF Spec
-----------------------------------------------------------------------------
(* The initial state has RagInv.                                           *)
LEMMA RagInvInit == Init => RagInv
BY DEF Init, RagInv, AnswerEnds, InOrder, Clean, Unwritten, RowsFollowNext, Searched, Births, Requests

(* No document goes back to before its chunk rows, and none that ended goes *)
(* on.                                                                     *)
NoneGoesBack ==
  \A d \in Docs :
    /\ pc'[d] \in BeforeUpsert \cup {"upsert"} => pc[d] \in BeforeUpsert \cup {"upsert"}
    /\ pc[d] \in {"done", "gone"} => pc'[d] \in {"done", "gone"}

(* A request that is not at the rows of its document leaves them as they   *)
(* are.                                                                    *)
LEMMA RowsStay ==
  ASSUME TypeOK, RowsFollowNext, NoneGoesBack, UNCHANGED <<setup, next, chunks>>,
         \A w \in lost' : w.kind = "chunk" => w \in lost
  PROVE  RowsFollowNext'
<1>1. \A c \in chunks : c[1] \in Docs
  BY ChunkIsPoint DEF TypeOK
<1>2. \A w \in lost : w.kind = "chunk" => w.chunk[1] \in Docs
  BY ChunkIsPoint DEF TypeOK, Write
<1> QED BY <1>1, <1>2, SetupStays DEF RowsFollowNext, NoneGoesBack

(* Every step keeps RagInv.                                                *)
LEMMA RagInvStep == TypeOK /\ RagInv /\ [Next]_vars => RagInv'
<1> SUFFICES ASSUME TypeOK, RagInv, [Next]_vars PROVE RagInv'
  OBVIOUS
<1>0. UNCHANGED setup
  BY SetupConstant
<1> USE SetupStays, <1>0 DEF RagInv, Requests, Goes, Returns
<1>1. ASSUME NEW r \in Requests, Refuse(r) PROVE RagInv'
  <2>1. AnswerEnds'
    BY <1>1 DEF Refuse, AnswerEnds, TypeOK
  <2>2. InOrder'
    BY <1>1 DEF Refuse, InOrder
  <2>3. Clean'
    BY <1>1 DEF Refuse, Clean, Unwritten, BeforeUpsert
  <2>4. RowsFollowNext'
    <3>1. \A w \in lost' : w.kind = "chunk" => w \in lost
      BY <1>1 DEF Refuse
    <3>2. NoneGoesBack
      BY <1>1 DEF Refuse, BeforeUpsert, NoneGoesBack
    <3>3. UNCHANGED <<next, chunks>>
      BY <1>1 DEF Refuse
    <3> QED BY <3>1, <3>2, <3>3, RowsStay
  <2>5. Searched'
    BY <1>1 DEF Refuse, Searched, AnswerEnds
  <2>6. Births'
    BY <1>1 DEF Refuse, Births
  <2> QED BY <2>1, <2>2, <2>3, <2>4, <2>5, <2>6
<1>2. ASSUME NEW r \in Requests, Begin(r) PROVE RagInv'
  <2>1. AnswerEnds'
    BY <1>2 DEF Begin, AnswerEnds
  <2>2. InOrder'
    BY <1>2 DEF Begin, InOrder
  <2>3. Clean'
    BY <1>2 DEF Begin, Clean, Unwritten, BeforeUpsert
  <2>4. RowsFollowNext'
    <3>1. \A w \in lost' : w.kind = "chunk" => w \in lost
      BY <1>2 DEF Begin
    <3>2. NoneGoesBack
      BY <1>2 DEF Begin, BeforeUpsert, NoneGoesBack
    <3>3. UNCHANGED <<next, chunks>>
      BY <1>2 DEF Begin
    <3> QED BY <3>1, <3>2, <3>3, RowsStay
  <2>5. Searched'
    BY <1>2 DEF Begin, Searched, AnswerEnds
  <2>6. Births'
    BY <1>2 DEF Begin, Births
  <2> QED BY <2>1, <2>2, <2>3, <2>4, <2>5, <2>6
<1>3. ASSUME NEW r \in Requests, CheckCollection(r) PROVE RagInv'
  <2>1. AnswerEnds'
    BY <1>3 DEF CheckCollection, AnswerEnds, TypeOK
  <2>2. InOrder'
    BY <1>3 DEF CheckCollection, AfterEnsure, InOrder, TypeOK
  <2>3. Clean'
    BY <1>3 DEF CheckCollection, Clean, Unwritten, BeforeUpsert, TypeOK
  <2>4. RowsFollowNext'
    <3>1. \A w \in lost' : w.kind = "chunk" => w \in lost
      BY <1>3 DEF CheckCollection
    <3>2. NoneGoesBack
      BY <1>3 DEF CheckCollection, BeforeUpsert, TypeOK, NoneGoesBack
    <3>3. UNCHANGED <<next, chunks>>
      BY <1>3 DEF CheckCollection
    <3> QED BY <3>1, <3>2, <3>3, RowsStay
  <2>5. Searched'
    BY <1>3 DEF CheckCollection, Searched, AnswerEnds, TypeOK
  <2>6. Births'
    BY <1>3 DEF CheckCollection, AfterEnsure, Births, TypeOK
  <2> QED BY <2>1, <2>2, <2>3, <2>4, <2>5, <2>6
<1>4. ASSUME NEW r \in Requests, CreateCollection(r) PROVE RagInv'
  <2>1. AnswerEnds'
    BY <1>4 DEF CreateCollection, QdrantFails, AnswerEnds, TypeOK
  <2>2. InOrder'
    BY <1>4 DEF CreateCollection, AfterEnsure, QdrantFails, InOrder, TypeOK
  <2>3. Clean'
    BY <1>4 DEF CreateCollection, QdrantFails, Clean, Unwritten, BeforeUpsert, TypeOK
  <2>4. RowsFollowNext'
    <3>1. \A w \in lost' : w.kind = "chunk" => w \in lost
      BY <1>4 DEF CreateCollection, QdrantFails
    <3>2. NoneGoesBack
      BY <1>4 DEF CreateCollection, BeforeUpsert, TypeOK, NoneGoesBack
    <3>3. UNCHANGED <<next, chunks>>
      BY <1>4 DEF CreateCollection
    <3> QED BY <3>1, <3>2, <3>3, RowsStay
  <2>5. Searched'
    BY <1>4 DEF CreateCollection, Searched, AnswerEnds, TypeOK
  <2>6. Births'
    BY <1>4 DEF CreateCollection, Births, TypeOK
  <2> QED BY <2>1, <2>2, <2>3, <2>4, <2>5, <2>6
<1>5. ASSUME NEW d \in Docs, CreateDocument(d) PROVE RagInv'
  <2>1. AnswerEnds'
    BY <1>5 DEF CreateDocument, StoreFails, AnswerEnds, TypeOK
  <2>2. InOrder'
    BY <1>5 DEF CreateDocument, StoreFails, InOrder, TypeOK
  <2>3. Clean'
    BY <1>5 DEF CreateDocument, StoreFails, Clean, Unwritten, BeforeUpsert, TypeOK
  <2>4. RowsFollowNext'
    <3>1. \A w \in lost' : w.kind = "chunk" => w \in lost
      BY <1>5 DEF CreateDocument, StoreFails
    <3>2. NoneGoesBack
      BY <1>5 DEF CreateDocument, BeforeUpsert, TypeOK, NoneGoesBack
    <3>3. UNCHANGED <<next, chunks>>
      BY <1>5 DEF CreateDocument
    <3> QED BY <3>1, <3>2, <3>3, RowsStay
  <2>5. Searched'
    BY <1>5 DEF CreateDocument, Searched, AnswerEnds, TypeOK
  <2>6. Births'
    BY <1>5 DEF CreateDocument, Births, TypeOK
  <2> QED BY <2>1, <2>2, <2>3, <2>4, <2>5, <2>6
<1>6. ASSUME NEW d \in Docs, EmbedChunks(d) PROVE RagInv'
  <2>1. AnswerEnds'
    BY <1>6 DEF EmbedChunks, AnswerEnds, TypeOK
  <2>2. InOrder'
    BY <1>6 DEF EmbedChunks, InOrder, TypeOK
  <2>3. Clean'
    BY <1>6 DEF EmbedChunks, Clean, Unwritten, BeforeUpsert, TypeOK
  <2>4. RowsFollowNext'
    <3>1. \A w \in lost' : w.kind = "chunk" => w \in lost
      BY <1>6 DEF EmbedChunks
    <3>2. NoneGoesBack
      BY <1>6 DEF EmbedChunks, BeforeUpsert, TypeOK, NoneGoesBack
    <3>3. UNCHANGED <<next, chunks>>
      BY <1>6 DEF EmbedChunks
    <3> QED BY <3>1, <3>2, <3>3, RowsStay
  <2>5. Searched'
    BY <1>6 DEF EmbedChunks, Searched, AnswerEnds, TypeOK
  <2>6. Births'
    BY <1>6 DEF EmbedChunks, Births, TypeOK
  <2> QED BY <2>1, <2>2, <2>3, <2>4, <2>5, <2>6
<1>7. ASSUME NEW d \in Docs, Upsert(d) PROVE RagInv'
  <2>1. AnswerEnds'
    BY <1>7 DEF Upsert, QdrantFails, AnswerEnds, TypeOK
  <2>2. InOrder'
    <3>1. pc[d] = "upsert" /\ UNCHANGED <<docs, chunks, next>>
      BY <1>7 DEF Upsert
    <3>2. \A e \in Docs \ {d} : pc'[e] = pc[e] /\ reply'[e] = reply[e]
      BY <1>7 DEF Upsert, TypeOK
    <3>3. \A w \in lost' : w.kind = "chunk" => w \in lost
      BY <1>7 DEF Upsert, QdrantFails
    <3>4. setup.durable => d \in docs
      BY <3>1 DEF InOrder
    <3>5. (\A c \in chunks : c[1] # d) /\ \A w \in lost : w.kind = "chunk" => w.chunk[1] # d
      BY <3>1 DEF RowsFollowNext
    <3>6. points \subseteq points' /\ \A p \in points' : p \in points \/ p[1] = d
      BY <1>7, PointsAre DEF Upsert
    <3>7. \/ /\ pc'[d] = "chunks" /\ reply'[d] = reply[d] /\ lost' = lost
             /\ PointsOf(d) \subseteq points'
          \/ pc'[d] = "done" /\ reply'[d] = "qdrant"
      BY <1>7 DEF Upsert, TypeOK
    <3>8. \A e \in Docs \ {d} :
            [kind |-> "points", doc |-> e] \in lost' => [kind |-> "points", doc |-> e] \in lost
      BY <1>7 DEF Upsert, QdrantFails
    <3>9. reply[d] # "indexed" /\ [kind |-> "points", doc |-> d] \notin lost
      BY <3>1 DEF AnswerEnds, InOrder
    <3> QED BY <3>1, <3>2, <3>3, <3>4, <3>5, <3>6, <3>7, <3>8, <3>9 DEF InOrder
  <2>3. Clean'
    BY <1>7, PointsAre, ChunkIsPoint
      DEF Upsert, QdrantFails, Clean, Unwritten, AnswerEnds, BeforeUpsert, TypeOK
  <2>4. RowsFollowNext'
    <3>1. \A w \in lost' : w.kind = "chunk" => w \in lost
      BY <1>7 DEF Upsert, QdrantFails
    <3>2. NoneGoesBack
      BY <1>7 DEF Upsert, TypeOK, NoneGoesBack
    <3>3. UNCHANGED <<next, chunks>>
      BY <1>7 DEF Upsert
    <3> QED BY <3>1, <3>2, <3>3, RowsStay
  <2>5. Searched'
    BY <1>7 DEF Upsert, Searched, AnswerEnds, TypeOK
  <2>6. Births'
    BY <1>7 DEF Upsert, Births, TypeOK
  <2> QED BY <2>1, <2>2, <2>3, <2>4, <2>5, <2>6
<1>8. ASSUME NEW d \in Docs, SaveChunk(d) PROVE RagInv'
  <2>1. AnswerEnds'
    BY <1>8 DEF SaveChunk, StoreFails, AnswerEnds, TypeOK
  <2>2. InOrder'
    <3>0. /\ pc[d] = "chunks" /\ UNCHANGED <<docs, points>>
          /\ \A e \in Docs \ {d} : pc'[e] = pc[e] /\ reply'[e] = reply[e] /\ next'[e] = next[e]
          /\ pc'[d] \in {"chunks", "done"} /\ reply'[d] # "indexed"
      BY <1>8 DEF SaveChunk, AnswerEnds, TypeOK
    <3>1. \A c \in chunks' : c \in chunks \/ c[1] = d
      BY <1>8, PointsAre DEF SaveChunk
    <3>2. \A w \in lost' : w \in lost \/ (w.kind = "chunk" /\ w.chunk[1] = d)
      BY <1>8 DEF SaveChunk, StoreFails
    <3>3. PointsOf(d) \subseteq points /\ [kind |-> "points", doc |-> d] \notin lost'
      BY <3>0, <3>2 DEF InOrder
    <3>4. \A e \in Docs :
            [kind |-> "points", doc |-> e] \in lost' => e # d /\ [kind |-> "points", doc |-> e] \in lost
      BY <3>2, <3>3
    <3> QED BY <3>0, <3>1, <3>2, <3>3, <3>4 DEF InOrder
  <2>3. Clean'
    BY <1>8, PointsAre, ChunkIsPoint
      DEF SaveChunk, StoreFails, Clean, Unwritten, AnswerEnds, BeforeUpsert, TypeOK
  <2>4. RowsFollowNext'
    <3>0. /\ pc[d] = "chunks" /\ next[d] \in Nat /\ next[d] < Chunks(d) /\ Chunks(d) \in Nat
          /\ \A e \in Docs \ {d} : pc'[e] = pc[e] /\ next'[e] = next[e]
      BY <1>8, ChunksNat DEF SaveChunk, TypeOK
    <3>1. \A c \in chunks : c[1] \in Docs
      BY ChunkIsPoint DEF TypeOK
    <3>2. \A w \in lost : w.kind = "chunk" => w.chunk[1] \in Docs /\ w.chunk[1] # d
      BY <3>0, ChunkIsPoint DEF RowsFollowNext, TypeOK, Write
    <3>3. CASE setup.durable /\ chunks' = chunks \cup {<<d, next[d]>>} /\ next'[d] = next[d] + 1
               /\ UNCHANGED <<pc, lost>>
      <4>1. \A e \in Docs : next'[e] = IF e = d THEN next[d] + 1 ELSE next[e]
        BY <3>0, <3>3
      <4>2. \A c \in chunks' : c \in chunks \/ c = <<d, next[d]>>
        BY <3>3
      <4>3. ASSUME NEW e \in Docs PROVE
              /\ pc'[e] \in BeforeUpsert \cup {"upsert"} =>
                   /\ next'[e] = 0
                   /\ \A c \in chunks' : c[1] # e
                   /\ \A w \in lost' : w.kind = "chunk" => w.chunk[1] # e
              /\ \A i \in 0 .. next'[e] - 1 : <<e, i>> \in chunks'
        <5>1. CASE e = d
          <6>1. pc'[d] = "chunks"
            BY <3>0, <3>3
          <6>2. \A i \in 0 .. next[d] - 1 : <<d, i>> \in chunks
            BY <3>3 DEF RowsFollowNext
          <6>3. \A i \in 0 .. (next[d] + 1) - 1 : i = next[d] \/ i \in 0 .. next[d] - 1
            BY <3>0
          <6>4. \A i \in 0 .. (next[d] + 1) - 1 : <<d, i>> \in chunks'
            BY <3>3, <6>2, <6>3
          <6> QED BY <5>1, <4>1, <6>1, <6>4 DEF BeforeUpsert
        <5>2. CASE e # d
          BY <3>3, <4>1, <4>2, <5>2 DEF RowsFollowNext
        <5> QED BY <5>1, <5>2
      <4>4. ASSUME NEW c \in chunks' PROVE
              /\ c[2] <= next'[c[1]]
              /\ c[2] = next'[c[1]] => pc'[c[1]] \in {"done", "gone"}
        <5>1. CASE c = <<d, next[d]>>
          BY <3>0, <4>1, <5>1
        <5>2. CASE c \in chunks /\ c[1] = d
          <6>1. c[2] <= next[d] /\ c[2] # next[d]
            BY <3>0, <3>3, <5>2 DEF RowsFollowNext
          <6>2. c[2] \in Nat
            BY <5>2, <3>0, ChunkIsPoint, PointsAre DEF TypeOK
          <6> QED BY <3>0, <4>1, <5>2, <6>1, <6>2
        <5>3. CASE c \in chunks /\ c[1] # d
          BY <3>1, <3>3, <4>1, <5>3 DEF RowsFollowNext
        <5> QED BY <4>2, <5>1, <5>2, <5>3
      <4>5. \A w \in lost' : w.kind = "chunk" =>
              w.chunk[2] = next'[w.chunk[1]] /\ pc'[w.chunk[1]] \in {"done", "gone"}
        BY <3>2, <3>3, <4>1 DEF RowsFollowNext
      <4> QED BY <3>3, <4>3, <4>4, <4>5 DEF RowsFollowNext
    <3>4. CASE ~setup.durable /\ chunks' = chunks \cup PointsOf(d) /\ UNCHANGED <<pc, lost>>
      BY <3>0, <3>1, <3>2, <3>4, PointsAre DEF RowsFollowNext, BeforeUpsert
    <3>5. CASE setup.durable /\ pc'[d] = "done" /\ UNCHANGED <<chunks, next>>
               /\ \A w \in lost' : w \in lost \/ w = [kind |-> "chunk", chunk |-> <<d, next[d]>>]
      BY <3>0, <3>1, <3>2, <3>5 DEF RowsFollowNext, BeforeUpsert
    <3> QED BY <1>8, <3>3, <3>4, <3>5 DEF SaveChunk, StoreFails, TypeOK
  <2>5. Searched'
    BY <1>8 DEF SaveChunk, Searched, AnswerEnds, TypeOK
  <2>6. Births'
    BY <1>8 DEF SaveChunk, Births, TypeOK
  <2> QED BY <2>1, <2>2, <2>3, <2>4, <2>5, <2>6
<1>9. ASSUME NEW d \in Docs, Finish(d) PROVE RagInv'
  <2>1. AnswerEnds'
    BY <1>9 DEF Finish, AnswerEnds, TypeOK
  <2>2. InOrder'
    BY <1>9 DEF Finish, InOrder
  <2>3. Clean'
    BY <1>9 DEF Finish, Clean, Unwritten, BeforeUpsert
  <2>4. RowsFollowNext'
    <3>1. \A w \in lost' : w.kind = "chunk" => w \in lost
      BY <1>9 DEF Finish
    <3>2. NoneGoesBack
      BY <1>9 DEF Finish, BeforeUpsert, NoneGoesBack
    <3>3. UNCHANGED <<next, chunks>>
      BY <1>9 DEF Finish
    <3> QED BY <3>1, <3>2, <3>3, RowsStay
  <2>5. Searched'
    BY <1>9 DEF Finish, Searched
  <2>6. Births'
    BY <1>9 DEF Finish, Births
  <2> QED BY <2>1, <2>2, <2>3, <2>4, <2>5, <2>6
<1>10. ASSUME NEW s \in Searches, Search(s) PROVE RagInv'
  <2>1. AnswerEnds'
    BY <1>10, RequestsAssumption DEF Search, AnswerEnds, TypeOK
  <2>2. InOrder'
    BY <1>10, RequestsAssumption DEF Search, InOrder, TypeOK
  <2>3. Clean'
    BY <1>10, RequestsAssumption DEF Search, Clean, Unwritten, TypeOK
  <2>4. RowsFollowNext'
    <3>1. \A w \in lost' : w.kind = "chunk" => w \in lost
      BY <1>10, RequestsAssumption DEF Search
    <3>2. NoneGoesBack
      BY <1>10, RequestsAssumption DEF Search, TypeOK, NoneGoesBack
    <3>3. UNCHANGED <<next, chunks>>
      BY <1>10, RequestsAssumption DEF Search
    <3> QED BY <3>1, <3>2, <3>3, RowsStay
  <2>5. Searched'
    <3>1. /\ pc[s] = "search" /\ reply[s] = "none" /\ UNCHANGED <<points, expects>>
          /\ \A t \in Searches \ {s} : seen'[t] = seen[t] /\ reply'[t] = reply[t]
          /\ \A d \in Docs : reply'[d] = reply[d]
      BY <1>10, RequestsAssumption DEF Search, AnswerEnds, TypeOK
    <3>2. \/ reply'[s] = "found" /\ seen'[s] = points
          \/ reply'[s] # "found" /\ seen'[s] = seen[s]
      BY <1>10 DEF Search, TypeOK
    <3>3. \A t \in Searches : expects[t] \subseteq Docs
      BY DEF TypeOK
    <3>4. \A d \in Docs : reply[d] = "indexed" => PointsOf(d) \subseteq points
      BY DEF InOrder
    <3> QED BY <3>1, <3>2, <3>3, <3>4 DEF Searched
  <2>6. Births'
    BY <1>10, RequestsAssumption DEF Search, Births, TypeOK
  <2> QED BY <2>1, <2>2, <2>3, <2>4, <2>5, <2>6
<1>11. ASSUME NEW r \in Requests, Disconnect(r) PROVE RagInv'
  <2>1. AnswerEnds'
    BY <1>11 DEF Disconnect, AnswerEnds
  <2>2. InOrder'
    BY <1>11 DEF Disconnect, InOrder
  <2>3. Clean'
    BY <1>11 DEF Disconnect, Clean, Unwritten
  <2>4. RowsFollowNext'
    <3>1. \A w \in lost' : w.kind = "chunk" => w \in lost
      BY <1>11 DEF Disconnect
    <3>2. NoneGoesBack
      BY <1>11 DEF Disconnect, NoneGoesBack
    <3>3. UNCHANGED <<next, chunks>>
      BY <1>11 DEF Disconnect
    <3> QED BY <3>1, <3>2, <3>3, RowsStay
  <2>5. Searched'
    BY <1>11 DEF Disconnect, Searched
  <2>6. Births'
    BY <1>11 DEF Disconnect, Births
  <2> QED BY <2>1, <2>2, <2>3, <2>4, <2>5, <2>6
<1>12. CASE Restart
  <2>1. AnswerEnds'
    BY <1>12 DEF Restart, InProgress, AnswerEnds
  <2>2. InOrder'
    BY <1>12 DEF Restart, InOrder
  <2>3. Clean'
    BY <1>12 DEF Restart, Clean, Unwritten, BeforeUpsert
  <2>4. RowsFollowNext'
    <3>1. \A d \in Docs : pc'[d] = (IF InProgress(d) THEN "gone" ELSE pc[d])
      BY <1>12 DEF Restart
    <3>2. NoneGoesBack /\ UNCHANGED <<next, lost>>
      BY <1>12, <3>1 DEF Restart, BeforeUpsert, NoneGoesBack
    <3>3. CASE setup.durable
      BY <1>12, <3>2, <3>3, RowsStay DEF Restart
    <3>4. CASE ~setup.durable
      <4>1. chunks' = {} /\ \A w \in lost' : w.kind # "chunk"
        BY <1>12, <3>4 DEF Restart, AnswerEnds
      <4> QED BY <3>2, <3>4, <4>1 DEF RowsFollowNext, NoneGoesBack
    <3> QED BY <3>3, <3>4
  <2>5. Searched'
    BY <1>12 DEF Restart, Searched
  <2>6. Births'
    BY <1>12 DEF Restart, Births
  <2> QED BY <2>1, <2>2, <2>3, <2>4, <2>5, <2>6
<1>13. ASSUME NEW w \in lost, Land(w) PROVE RagInv'
  <2>0. w \in Write
    BY DEF TypeOK
  <2>1. AnswerEnds'
    BY <1>13 DEF Land, AnswerEnds
  <2>2. InOrder'
    BY <1>13, <2>0, PointsAre, ChunkIsPoint DEF Land, InOrder, Write
  <2>3. Clean'
    BY <1>13, <2>0, PointsAre DEF Land, Clean, Unwritten, Write
  <2>4. RowsFollowNext'
    <3>0. /\ UNCHANGED <<pc, next>> /\ lost' \subseteq lost
          /\ w.kind # "chunk" => chunks' = chunks
          /\ w.kind = "chunk" => chunks' = chunks \cup {w.chunk}
      BY <1>13 DEF Land
    <3>1. CASE w.kind # "chunk"
      BY <3>0, <3>1, RowsStay DEF NoneGoesBack
    <3>2. CASE w.kind = "chunk"
      <4>1. setup.durable
        BY <3>2 DEF AnswerEnds
      <4>2. w.chunk[1] \in Docs /\ w.chunk[2] = next[w.chunk[1]] /\ pc[w.chunk[1]] \in {"done", "gone"}
        BY <2>0, <3>2, ChunkIsPoint DEF RowsFollowNext, Write
      <4>3. next[w.chunk[1]] \in Nat
        BY <4>2 DEF TypeOK
      <4> QED BY <3>0, <3>2, <4>1, <4>2, <4>3 DEF RowsFollowNext
    <3> QED BY <3>1, <3>2
  <2>5. Searched'
    BY <1>13 DEF Land, Searched
  <2>6. Births'
    BY <1>13 DEF Land, Births
  <2> QED BY <2>1, <2>2, <2>3, <2>4, <2>5, <2>6
<1>14. CASE UNCHANGED vars
  BY <1>14
    DEF vars, AnswerEnds, InOrder, Clean, Unwritten, RowsFollowNext, Searched, Births
<1> QED
  BY <1>1, <1>2, <1>3, <1>4, <1>5, <1>6, <1>7, <1>8, <1>9, <1>10, <1>11, <1>12, <1>13, <1>14
  DEF Next, Step, EnsureStep, IndexStep
-----------------------------------------------------------------------------
(* The stored and the late writes keep their order, only clean requests    *)
(* end without a trace, and a search saw what is there: the inductive      *)
(* invariant holds in every reachable state.                               *)
THEOREM RagInvHolds == Spec => []RagInv
<1>1. Init => TypeOK
  BY InitTyped
<1>2. TypeOK /\ RagInv /\ [Next]_vars => (TypeOK /\ RagInv)'
  BY RagTypeStep, RagInvStep
<1> QED BY <1>1, <1>2, RagInvInit, PTL DEF Spec

(* A document reported as indexed is complete.                             *)
LEMMA CompleteFromInv == TypeOK /\ RagInv => IndexedIsComplete
<1> SUFFICES ASSUME TypeOK, RagInv, NEW d \in Docs, reply[d] = "indexed"
    PROVE /\ PointsOf(d) \subseteq points
          /\ setup.durable => d \in docs /\ PointsOf(d) \subseteq chunks
  BY DEF IndexedIsComplete
<1>1. PointsOf(d) \subseteq points /\ next[d] = Chunks(d) /\ (setup.durable => d \in docs)
  BY DEF RagInv, InOrder
<1>2. ASSUME setup.durable PROVE PointsOf(d) \subseteq chunks
  <2>1. \A i \in 0 .. Chunks(d) - 1 : <<d, i>> \in chunks
    BY <1>1, <1>2 DEF RagInv, RowsFollowNext
  <2> QED BY <2>1, PointsAre
<1> QED BY <1>1, <1>2

(* The chunk rows of a document have no gap.                               *)
LEMMA PrefixFromInv == TypeOK /\ RagInv => ChunkRowsArePrefix
<1> SUFFICES ASSUME TypeOK, RagInv, NEW d \in Docs
    PROVE \E n \in 0 .. Chunks(d) : {c \in chunks : c[1] = d} = {d} \X (0 .. n - 1)
  BY DEF ChunkRowsArePrefix
<1> DEFINE rows == {c \in chunks : c[1] = d}
<1>1. Chunks(d) \in Nat /\ next[d] \in Nat /\ next[d] <= Chunks(d)
  BY ChunksNat DEF TypeOK
<1>2. \A c \in rows : c = <<d, c[2]>> /\ c[2] \in 0 .. Chunks(d) - 1
  BY ChunkIsPoint, PointsAre DEF TypeOK
<1>3. ASSUME NEW n \in 0 .. Chunks(d),
             \A i \in 0 .. n - 1 : <<d, i>> \in chunks,
             \A c \in rows : c[2] < n
      PROVE rows = {d} \X (0 .. n - 1)
  <2>1. \A c \in rows : c[2] \in 0 .. n - 1
    BY <1>1, <1>2, <1>3
  <2>2. rows \subseteq {d} \X (0 .. n - 1)
    BY <1>2, <2>1
  <2>3. {d} \X (0 .. n - 1) \subseteq rows
    BY <1>3
  <2> QED BY <2>2, <2>3
<1>4. CASE setup.durable
  <2>1. /\ \A i \in 0 .. next[d] - 1 : <<d, i>> \in chunks
        /\ \A c \in rows : c[2] <= next[d]
    BY <1>4 DEF RagInv, RowsFollowNext
  <2>2. CASE <<d, next[d]>> \in chunks
    <3>1. next[d] \in 0 .. Chunks(d) - 1
      BY <1>2, <2>2
    <3>2. \A i \in 0 .. (next[d] + 1) - 1 : i = next[d] \/ i \in 0 .. next[d] - 1
      BY <1>1
    <3>3. \A i \in 0 .. (next[d] + 1) - 1 : <<d, i>> \in chunks
      BY <2>1, <2>2, <3>2
    <3>4. next[d] + 1 \in 0 .. Chunks(d) /\ \A c \in rows : c[2] < next[d] + 1
      BY <1>1, <1>2, <2>1, <3>1
    <3> QED BY <1>3, <3>3, <3>4
  <2>3. CASE <<d, next[d]>> \notin chunks
    <3>1. \A c \in rows : c[2] # next[d]
      BY <1>2, <2>3
    <3>2. next[d] \in 0 .. Chunks(d) /\ \A c \in rows : c[2] < next[d]
      BY <1>1, <1>2, <2>1, <3>1
    <3> QED BY <1>3, <2>1, <3>2
  <2> QED BY <2>2, <2>3
<1>5. CASE ~setup.durable
  <2>1. CASE rows = {}
    <3>1. 0 \in 0 .. Chunks(d) /\ \A i \in 0 .. 0 - 1 : <<d, i>> \in chunks
      BY <1>1
    <3> QED BY <1>3, <2>1, <3>1
  <2>2. CASE rows # {}
    <3>1. PointsOf(d) \subseteq chunks
      BY <1>5, <2>2 DEF RagInv, RowsFollowNext
    <3>2. \A i \in 0 .. Chunks(d) - 1 : <<d, i>> \in chunks
      BY <3>1, PointsAre
    <3>3. Chunks(d) \in 0 .. Chunks(d) /\ \A c \in rows : c[2] < Chunks(d)
      BY <1>1, <1>2
    <3> QED BY <1>3, <3>2, <3>3
  <2> QED BY <2>1, <2>2
<1> QED BY <1>4, <1>5

(* How far indexing came is on record, whatever failed and came late.      *)
THEOREM ProgressStaysOnRecord == Spec => []ProgressIsOnRecord
<1>1. TypeOK /\ RagInv => ProgressIsOnRecord
  BY CompleteFromInv, PrefixFromInv DEF ProgressIsOnRecord
<1> QED BY <1>1, RagTypeCorrect, RagInvHolds, PTL

(* A search cites documents that exist and misses none that was reported   *)
(* as indexed before it began.                                             *)
THEOREM SearchNeverLies == Spec => []SearchIsTrue
<1>1. TypeOK /\ RagInv => SearchIsTrue
  BY DEF RagInv, InOrder, Searched, SearchIsTrue, HitHasDocument, SearchSeesIndexed
<1> QED BY <1>1, RagTypeCorrect, RagInvHolds, PTL

(* A document that was refused, lost the race for the collection or was    *)
(* not embedded leaves nothing behind, and only a request begun before the *)
(* collection can lose that race.                                          *)
THEOREM FailuresStayClean == Spec => []FailsClean
<1>1. TypeOK /\ RagInv => FailsClean
  BY PointsAre DEF RagInv, Clean, Unwritten, Births, FailsClean
<1> QED BY <1>1, RagTypeCorrect, RagInvHolds, PTL
-----------------------------------------------------------------------------
(* What a step may write for document d, in MySQL and in Qdrant.           *)
Wrote(d) ==
  \/ UNCHANGED <<points, chunks>> /\ (docs' = docs \/ docs' = docs \cup {d})
  \/ UNCHANGED <<docs, chunks>> /\ points' = points \cup PointsOf(d) /\ d \in docs
  \/ /\ UNCHANGED <<docs, points>> /\ PointsOf(d) \subseteq points
     /\ \E c \in PointsOf(d) : chunks' = chunks \cup {c}

(* With MySQL, a step writes to one place and for one document.            *)
LEMMA OneWrite ==
  ASSUME TypeOK, RagInv, [Next]_vars, setup.durable
  PROVE  UNCHANGED <<docs, points, chunks>> \/ \E d \in Docs : Wrote(d)
<1> USE DEF RagInv, InOrder, Goes, Returns
<1>1. ASSUME NEW r \in Requests, Refuse(r) \/ Begin(r) \/ CheckCollection(r) \/ CreateCollection(r)
                                  \/ Disconnect(r)
      PROVE UNCHANGED <<docs, points, chunks>>
  BY <1>1 DEF Refuse, Begin, CheckCollection, CreateCollection, Disconnect
<1>2. ASSUME NEW d \in Docs, CreateDocument(d) PROVE Wrote(d)
  BY <1>2 DEF CreateDocument, Wrote
<1>3. ASSUME NEW d \in Docs, EmbedChunks(d) \/ Finish(d) PROVE UNCHANGED <<docs, points, chunks>>
  BY <1>3 DEF EmbedChunks, Finish
<1>4. ASSUME NEW d \in Docs, Upsert(d) PROVE Wrote(d)
  BY <1>4 DEF Upsert, Wrote
<1>5. ASSUME NEW d \in Docs, SaveChunk(d) PROVE Wrote(d)
  <2>1. pc[d] = "chunks" /\ next[d] \in 0 .. Chunks(d) - 1
    BY <1>5, ChunksNat DEF SaveChunk, TypeOK
  <2>2. <<d, next[d]>> \in PointsOf(d) /\ PointsOf(d) \subseteq points
    BY <2>1, PointsAre
  <2> QED BY <1>5, <2>2 DEF SaveChunk, Wrote
<1>6. ASSUME NEW s \in Searches, Search(s) PROVE UNCHANGED <<docs, points, chunks>>
  BY <1>6 DEF Search
<1>7. CASE Restart
  BY <1>7 DEF Restart
<1>8. ASSUME NEW w \in lost, Land(w)
      PROVE UNCHANGED <<docs, points, chunks>> \/ \E d \in Docs : Wrote(d)
  <2>0. w \in Write
    BY DEF TypeOK
  <2>1. CASE w.kind = "collection"
    BY <1>8, <2>1 DEF Land
  <2>2. CASE w.kind = "document"
    <3>1. w.doc \in Docs
      BY <2>0, <2>2 DEF Write
    <3> QED BY <1>8, <2>2, <3>1 DEF Land, Wrote
  <2>3. CASE w.kind = "points"
    <3>1. w.doc \in Docs /\ w = [kind |-> "points", doc |-> w.doc]
      BY <2>0, <2>3 DEF Write
    <3>2. w.doc \in docs
      BY <3>1
    <3> QED BY <1>8, <2>3, <3>1, <3>2 DEF Land, Wrote
  <2>4. CASE w.kind = "chunk"
    <3>1. w.chunk[1] \in Docs /\ w.chunk \in PointsOf(w.chunk[1])
      BY <2>0, <2>4, ChunkIsPoint DEF Write
    <3>2. PointsOf(w.chunk[1]) \subseteq points
      BY <2>4
    <3> QED BY <1>8, <2>4, <3>1, <3>2 DEF Land, Wrote
  <2> QED BY <2>0, <2>1, <2>2, <2>3, <2>4 DEF Write
<1>9. CASE UNCHANGED vars
  BY <1>9 DEF vars
<1> QED
  BY <1>1, <1>2, <1>3, <1>4, <1>5, <1>6, <1>7, <1>8, <1>9
    DEF Next, Step, EnsureStep, IndexStep

(* Nobody else's stage changes, and that of d by one at most.              *)
LEMMA OneStage ==
  ASSUME TypeOK, RagInv, setup.durable, UNCHANGED setup, NEW d \in Docs, Wrote(d)
  PROVE  /\ \A e \in Docs \ {d} : StageOf(e)' = StageOf(e)
         /\ StageOf(d)' = StageOf(d) \/ <<StageOf(d), StageOf(d)'>> \in Lifecycle!Follows
<1> USE SetupStays
<1>1. \A e : PointsOf(e)' = PointsOf(e)
  OBVIOUS
<1>2. \A e \in Docs \ {d} :
        /\ e \in docs' <=> e \in docs
        /\ points' \cap PointsOf(e) = points \cap PointsOf(e)
        /\ chunks' \cap PointsOf(e) = chunks \cap PointsOf(e)
  BY PointsAre DEF Wrote
<1>3. \A e \in Docs \ {d} : PointsOf(e) \subseteq chunks' <=> PointsOf(e) \subseteq chunks
  BY <1>2
<1>4. \A e \in Docs \ {d} : StageOf(e)' = StageOf(e)
  BY <1>1, <1>2, <1>3 DEF StageOf
<1>5. /\ points \cap PointsOf(d) # {} => d \in docs
      /\ chunks \cap PointsOf(d) # {} => PointsOf(d) \subseteq points
  BY PointsAre DEF RagInv, InOrder
<1> DEFINE onRecord   == chunks \cap PointsOf(d) # {} /\ PointsOf(d) \subseteq chunks
           onRecordNext  == chunks' \cap PointsOf(d) # {} /\ PointsOf(d) \subseteq chunks'
           advances   == StageOf(d)' = StageOf(d) \/ <<StageOf(d), StageOf(d)'>> \in Lifecycle!Follows
<1>6. CASE UNCHANGED <<points, chunks>> /\ (docs' = docs \/ docs' = docs \cup {d})
  <2>1. advances
    BY <1>1, <1>5, <1>6 DEF StageOf, Lifecycle!Follows
  <2> QED BY <1>4, <2>1
<1>7. CASE UNCHANGED <<docs, chunks>> /\ points' = points \cup PointsOf(d) /\ d \in docs
  <2>1. onRecordNext <=> onRecord
    BY <1>7
  <2>2. points \cap PointsOf(d) # {} => points' \cap PointsOf(d) # {}
    BY <1>7
  <2>3. advances
    BY <1>1, <1>7, <2>1, <2>2 DEF StageOf, Lifecycle!Follows
  <2> QED BY <1>4, <2>3
<1>8. CASE /\ UNCHANGED <<docs, points>> /\ PointsOf(d) \subseteq points
           /\ \E c \in PointsOf(d) : chunks' = chunks \cup {c}
  <2>1. onRecord => onRecordNext
    BY <1>8
  <2>2. points \cap PointsOf(d) # {} /\ points' \cap PointsOf(d) # {}
    BY <1>8
  <2>3. advances
    BY <1>1, <1>8, <2>1, <2>2 DEF StageOf, Lifecycle!Follows
  <2> QED BY <1>4, <2>3
<1> QED BY <1>4, <1>6, <1>7, <1>8 DEF Wrote

(* RagIndex implements DocumentLifecycle: documents advance stage by stage *)
(* across MySQL and Qdrant, whatever fails, comes late or crashes.         *)
THEOREM DocumentsAdvance == Spec => LifecycleSpec
<1>1. Init => Lifecycle!Init
  BY DEF Init, Lifecycle!Init, StageOf, PointsOf
<1>2. TypeOK /\ RagInv /\ [Next]_vars => [Lifecycle!Next]_([d \in Docs |-> StageOf(d)])
  <2> SUFFICES ASSUME TypeOK, RagInv, [Next]_vars
      PROVE Lifecycle!Next \/ UNCHANGED [d \in Docs |-> StageOf(d)]
    OBVIOUS
  <2>0. UNCHANGED setup
    BY SetupConstant
  <2>1. CASE ~setup.durable
    BY <2>0, <2>1 DEF StageOf
  <2>2. CASE setup.durable /\ UNCHANGED <<docs, points, chunks>>
    BY <2>0, <2>2, SetupStays DEF StageOf
  <2>3. ASSUME setup.durable, NEW d \in Docs, Wrote(d)
        PROVE Lifecycle!Next \/ UNCHANGED [e \in Docs |-> StageOf(e)]
    <3>1. \A e \in Docs \ {d} : StageOf(e)' = StageOf(e)
      BY <2>0, <2>3, OneStage
    <3>2. CASE StageOf(d)' = StageOf(d)
      BY <3>1, <3>2
    <3>3. CASE <<StageOf(d), StageOf(d)'>> \in Lifecycle!Follows
      <4>1. StageOf(d)' \in Lifecycle!Stage
        BY <3>3 DEF Lifecycle!Follows, Lifecycle!Stage
      <4>2. [e \in Docs |-> StageOf(e)]' = [[e \in Docs |-> StageOf(e)] EXCEPT ![d] = StageOf(d)']
        BY <3>1
      <4>3. Lifecycle!Advance(d)
        BY <3>3, <4>1, <4>2 DEF Lifecycle!Advance
      <4> QED BY <4>3 DEF Lifecycle!Next
    <3> QED BY <2>0, <2>3, <3>2, <3>3, OneStage
  <2> QED BY <2>1, <2>2, <2>3, OneWrite
<1> QED
  BY <1>1, <1>2, RagTypeCorrect, RagInvHolds, PTL
    DEF Spec, LifecycleSpec, Lifecycle!Spec
=============================================================================
