------------------------------ MODULE RagIndex ------------------------------
(***************************************************************************)
(* The RAG service of internal/rag: IndexDocument writes a document to the *)
(* store, its chunks' vectors to Qdrant and its chunks to the store;       *)
(* Search asks Qdrant.  Both first make sure that the collection exists.   *)
(* Three systems and no transaction: each write may fail, come late, or    *)
(* be the last before the process dies, and a client whose document was    *)
(* not indexed may send it again.                                          *)
(*                                                                         *)
(* Which points are near a query is the vectors' business: a search is     *)
(* given the set of points that Qdrant ranks.                              *)
(***************************************************************************)
EXTENDS Naturals

CONSTANTS Docs,      \* the calls of IndexDocument
          Searches,  \* the calls of Search
          Contents,  \* what the documents may hold
          Setups,    \* the gateways and the documents
          Faults     \* "store", "qdrant", "disconnect", "crash"

Requests == Docs \cup Searches

ASSUME RequestsAssumption == Docs \cap Searches = {}
ASSUME SetupsAssumption ==
  Setups \subseteq [durable : BOOLEAN, mock : BOOLEAN,
                    content : [Docs -> Contents], size : [Contents -> Nat]]
ASSUME FaultsAssumption == Faults \subseteq {"store", "qdrant", "disconnect", "crash"}

VARIABLES
  setup,      \* durable: MySQLStore, not MemoryStore; mock: the embedder is the
              \* deterministic one; content[d]: what d indexes, a retry has the
              \* same; size[x]: the number of chunks SplitMarkdown makes of x
  pc,         \* pc[r]: where request r is
  ctx,        \* ctx[r]: its context
  reply,      \* reply[r]: what it was answered
  next,       \* next[d]: the chunk row that d inserts next
  collection, \* whether Qdrant has the collection
  docs,       \* the rows of documents
  chunks,     \* the rows of document_chunks: <<d, index>>
  points,     \* the points of Qdrant: <<d, index>>
  lost,       \* writes that returned an error and may still take effect
  seen,       \* seen[s]: the points Qdrant ranked for search s
  early,      \* history: requests begun when there was no collection
  expects     \* history: expects[s]: documents indexed before s began

vars == <<setup, pc, ctx, reply, next, collection, docs, chunks, points, lost, seen,
          early, expects>>
-----------------------------------------------------------------------------
RequestState == {"idle", "check", "create", "document", "embed", "upsert",
                 "chunks", "search", "done", "gone"}

Reply == {"none", "bad_request", "qdrant", "conflict", "store", "embed",
          "indexed", "found"}

Chunks(d) == setup.size[setup.content[d]]

PointsOf(d) == {d} \X (0 .. Chunks(d) - 1)

AllChunks == UNION {PointsOf(d) : d \in Docs}

Write == [kind : {"collection"}]
  \cup [kind : {"document", "points"}, doc : Docs]
  \cup [kind : {"chunk"}, chunk : AllChunks]

Init ==
  /\ setup \in Setups
  /\ pc = [r \in Requests |-> "idle"]
  /\ ctx = [r \in Requests |-> "live"]
  /\ reply = [r \in Requests |-> "none"]
  /\ next = [d \in Docs |-> 0]
  /\ collection = FALSE
  /\ docs = {} /\ chunks = {} /\ points = {}
  /\ lost = {}
  /\ seen = [s \in Searches |-> {}]
  /\ early = {}
  /\ expects = [s \in Searches |-> {}]
-----------------------------------------------------------------------------
(* The store, Qdrant and the embedding service, as a request meets them.   *)

Live(r) == ctx[r] = "live"

(* A write that was interrupted may take effect later.                     *)
StoreFails(d, write) ==
  /\ setup.durable
  /\ \/ ~Live(d) /\ UNCHANGED lost
     \/ /\ Live(d) /\ Faults \cap {"store", "disconnect"} # {}
        /\ lost' = lost \cup {write}

QdrantInterrupted(r) == Live(r) /\ Faults \cap {"qdrant", "disconnect"} # {}

QdrantFails(r, write) ==
  \/ ~Live(r) /\ UNCHANGED lost
  \/ QdrantInterrupted(r) /\ lost' = lost \cup {write}

(* A read has no effect, late or not.                                      *)
QdrantReadFails(r) == ~Live(r) \/ QdrantInterrupted(r)

(* Embed.  The deterministic one looks at its context once per text; the   *)
(* service may answer with an error, too few vectors or another dimension. *)
Embeds(r, texts) == Live(r) \/ (setup.mock /\ texts = 0)

EmbedFails(r, texts) == (~Live(r) /\ ~Embeds(r, texts)) \/ (Live(r) /\ ~setup.mock)
-----------------------------------------------------------------------------
Goes(r, from, to) == pc[r] = from /\ pc' = [pc EXCEPT ![r] = to]

Returns(r, from, answer) ==
  Goes(r, from, "done") /\ reply' = [reply EXCEPT ![r] = answer]

(* The client of r knows that it will get no result.                       *)
GaveUp(r) ==
  \/ reply[r] \notin {"none", "indexed", "found"}
  \/ ~Live(r)
  \/ pc[r] = "gone"

MayAsk(r) ==
  r \in Docs => \A d \in Docs \ {r} :
    setup.content[d] = setup.content[r] => pc[d] = "idle" \/ GaveUp(d)

Refuse(r) ==
  /\ MayAsk(r)
  /\ Returns(r, "idle", "bad_request")
  /\ UNCHANGED <<setup, ctx, next, collection, docs, chunks, points, lost, seen, early, expects>>

Begin(r) ==
  /\ MayAsk(r)
  /\ Goes(r, "idle", "check")
  /\ early' = IF collection THEN early ELSE early \cup {r}
  /\ expects' = IF r \in Searches
                THEN [expects EXCEPT ![r] = {d \in Docs : reply[d] = "indexed"}]
                ELSE expects
  /\ UNCHANGED <<setup, ctx, reply, next, collection, docs, chunks, points, lost, seen>>

AfterEnsure(r) == IF r \in Docs THEN "document" ELSE "search"

(* EnsureCollection: GET ...                                               *)
CheckCollection(r) ==
  /\ \/ /\ Live(r)
        /\ Goes(r, "check", IF collection THEN AfterEnsure(r) ELSE "create")
        /\ UNCHANGED reply
     \/ QdrantReadFails(r) /\ Returns(r, "check", "qdrant")
  /\ UNCHANGED <<setup, ctx, next, collection, docs, chunks, points, lost, seen, early, expects>>

(* ... and PUT, which Qdrant refuses when the collection is there by now.  *)
CreateCollection(r) ==
  /\ \/ /\ Live(r) /\ ~collection
        /\ Goes(r, "create", AfterEnsure(r))
        /\ collection' = TRUE
        /\ UNCHANGED <<reply, lost>>
     \/ /\ Live(r) /\ collection
        /\ Returns(r, "create", "conflict")
        /\ UNCHANGED <<collection, lost>>
     \/ /\ QdrantFails(r, [kind |-> "collection"])
        /\ Returns(r, "create", "qdrant")
        /\ UNCHANGED collection
  /\ UNCHANGED <<setup, ctx, next, docs, chunks, points, seen, early, expects>>

CreateDocument(d) ==
  /\ \/ /\ Live(d) \/ ~setup.durable
        /\ Goes(d, "document", "embed")
        /\ docs' = docs \cup {d}
        /\ UNCHANGED <<reply, lost>>
     \/ /\ StoreFails(d, [kind |-> "document", doc |-> d])
        /\ Returns(d, "document", "store")
        /\ UNCHANGED docs
  /\ UNCHANGED <<setup, ctx, next, collection, chunks, points, seen, early, expects>>

(* Mutant: the chunks that have a vector are written before an error.      *)
EmbedChunksPartly(d) ==
  /\ \/ Embeds(d, Chunks(d)) /\ Goes(d, "embed", "upsert") /\ UNCHANGED <<points, reply>>
     \/ /\ EmbedFails(d, Chunks(d))
        /\ Returns(d, "embed", "embed")
        /\ \E n \in 0 .. Chunks(d) : points' = points \cup ({d} \X (0 .. n - 1))
  /\ UNCHANGED <<setup, ctx, next, collection, docs, chunks, lost, seen, early, expects>>

EmbedChunks(d) ==
  /\ \/ Embeds(d, Chunks(d)) /\ Goes(d, "embed", "upsert") /\ UNCHANGED reply
     \/ EmbedFails(d, Chunks(d)) /\ Returns(d, "embed", "embed")
  /\ UNCHANGED <<setup, ctx, next, collection, docs, chunks, points, lost, seen, early, expects>>

(* Mutant: the error of Upsert is dropped.                                 *)
UpsertIgnoresError(d) ==
  /\ Goes(d, "upsert", "chunks")
  /\ \/ (Live(d) \/ Chunks(d) = 0) /\ points' = points \cup PointsOf(d) /\ UNCHANGED lost
     \/ QdrantFails(d, [kind |-> "points", doc |-> d]) /\ UNCHANGED points
  /\ UNCHANGED <<setup, ctx, reply, next, collection, docs, chunks, seen, early, expects>>

(* One request carries all points; none is sent when there are none.       *)
Upsert(d) ==
  /\ \/ /\ Live(d) \/ Chunks(d) = 0
        /\ Goes(d, "upsert", "chunks")
        /\ points' = points \cup PointsOf(d)
        /\ UNCHANGED <<reply, lost>>
     \/ /\ Chunks(d) # 0
        /\ QdrantFails(d, [kind |-> "points", doc |-> d])
        /\ Returns(d, "upsert", "qdrant")
        /\ UNCHANGED points
  /\ UNCHANGED <<setup, ctx, next, collection, docs, chunks, seen, early, expects>>

(* Mutant: the loop runs one index too far.                                *)
SaveChunkTooFar(d) ==
  /\ pc[d] = "chunks" /\ next[d] <= Chunks(d)
  /\ chunks' = chunks \cup {<<d, next[d]>>}
  /\ next' = [next EXCEPT ![d] = @ + 1]
  /\ UNCHANGED <<setup, pc, ctx, reply, lost, collection, docs, points, seen, early, expects>>

(* SaveChunks: MySQL gets row by row, the MemoryStore all of them at once. *)
SaveChunk(d) ==
  /\ pc[d] = "chunks" /\ next[d] < Chunks(d)
  /\ \/ /\ setup.durable /\ Live(d)
        /\ chunks' = chunks \cup {<<d, next[d]>>}
        /\ next' = [next EXCEPT ![d] = @ + 1]
        /\ UNCHANGED <<pc, reply, lost>>
     \/ /\ ~setup.durable
        /\ chunks' = chunks \cup PointsOf(d)
        /\ next' = [next EXCEPT ![d] = Chunks(d)]
        /\ UNCHANGED <<pc, reply, lost>>
     \/ /\ StoreFails(d, [kind |-> "chunk", chunk |-> <<d, next[d]>>])
        /\ Returns(d, "chunks", "store")
        /\ UNCHANGED <<chunks, next>>
  /\ UNCHANGED <<setup, ctx, collection, docs, points, seen, early, expects>>

(* Mutant: the last chunk is forgotten.                                    *)
FinishEarly(d) ==
  /\ next[d] + 1 >= Chunks(d)
  /\ Returns(d, "chunks", "indexed")
  /\ UNCHANGED <<setup, ctx, next, collection, docs, chunks, points, lost, seen, early, expects>>

Finish(d) ==
  /\ next[d] = Chunks(d)
  /\ Returns(d, "chunks", "indexed")
  /\ UNCHANGED <<setup, ctx, next, collection, docs, chunks, points, lost, seen, early, expects>>

(* Mutant: an error of Qdrant is answered as an empty result.              *)
SearchErrorIsEmpty(s) ==
  /\ \/ /\ Embeds(s, 1)
        /\ Returns(s, "search", "found")
        /\ seen' = [seen EXCEPT ![s] = points]
     \/ EmbedFails(s, 1) /\ Returns(s, "search", "embed") /\ UNCHANGED seen
     \/ QdrantReadFails(s) /\ Returns(s, "search", "found") /\ UNCHANGED seen
  /\ UNCHANGED <<setup, ctx, next, collection, docs, chunks, points, lost, early, expects>>

(* Search: the query is embedded, and Qdrant ranks the points it has.      *)
Search(s) ==
  /\ \/ /\ Embeds(s, 1)
        /\ Returns(s, "search", "found")
        /\ seen' = [seen EXCEPT ![s] = points]
     \/ EmbedFails(s, 1) /\ Returns(s, "search", "embed") /\ UNCHANGED seen
     \/ QdrantReadFails(s) /\ Returns(s, "search", "qdrant") /\ UNCHANGED seen
  /\ UNCHANGED <<setup, ctx, next, collection, docs, chunks, points, lost, early, expects>>
-----------------------------------------------------------------------------
(* The environment. *)

InProgress(r) == pc[r] \notin {"idle", "done", "gone"}

Disconnect(r) ==
  /\ "disconnect" \in Faults
  /\ InProgress(r) /\ Live(r)
  /\ ctx' = [ctx EXCEPT ![r] = "cancelled"]
  /\ UNCHANGED <<setup, pc, reply, next, collection, docs, chunks, points, lost, seen, early, expects>>

(* The tables of a MemoryStore go with the process, Qdrant's points stay.  *)
Restart ==
  /\ "crash" \in Faults
  /\ pc' = [r \in Requests |-> IF InProgress(r) THEN "gone" ELSE pc[r]]
  /\ docs' = IF setup.durable THEN docs ELSE {}
  /\ chunks' = IF setup.durable THEN chunks ELSE {}
  /\ UNCHANGED <<setup, ctx, reply, next, collection, points, lost, seen, early, expects>>

(* A write takes effect after its error.                                   *)
Land(w) ==
  /\ lost' = lost \ {w}
  /\ collection' = (collection \/ w.kind = "collection")
  /\ docs' = IF w.kind = "document" THEN docs \cup {w.doc} ELSE docs
  /\ points' = IF w.kind = "points" THEN points \cup PointsOf(w.doc) ELSE points
  /\ chunks' = IF w.kind = "chunk" THEN chunks \cup {w.chunk} ELSE chunks
  /\ UNCHANGED <<setup, pc, ctx, reply, next, seen, early, expects>>

EnsureStep(r) == CheckCollection(r) \/ CreateCollection(r)

IndexStep(d) ==
  \/ CreateDocument(d) \/ EmbedChunks(d) \/ Upsert(d) \/ SaveChunk(d) \/ Finish(d)

Step(r) ==
  \/ EnsureStep(r)
  \/ r \in Docs /\ IndexStep(r)
  \/ r \in Searches /\ Search(r)

Next ==
  \/ \E r \in Requests : Refuse(r) \/ Begin(r) \/ Step(r) \/ Disconnect(r)
  \/ \E w \in lost : Land(w)
  \/ Restart

Spec == Init /\ [][Next]_vars
-----------------------------------------------------------------------------
(* Properties. *)

TypeOK ==
  /\ setup \in Setups
  /\ pc \in [Requests -> RequestState]
  /\ ctx \in [Requests -> {"live", "cancelled"}]
  /\ reply \in [Requests -> Reply]
  /\ next \in [Docs -> Nat] /\ \A d \in Docs : next[d] <= Chunks(d)
  /\ collection \in BOOLEAN
  /\ docs \subseteq Docs /\ chunks \subseteq AllChunks /\ points \subseteq AllChunks
  /\ lost \subseteq Write
  /\ seen \in [Searches -> SUBSET AllChunks]
  /\ early \subseteq Requests
  /\ expects \in [Searches -> SUBSET Docs]

(* IndexDocument's answer is true: every chunk can be found, and with      *)
(* MySQL the document and every chunk are on record.                       *)
IndexedIsComplete ==
  \A d \in Docs : reply[d] = "indexed" =>
    /\ PointsOf(d) \subseteq points
    /\ setup.durable => d \in docs /\ PointsOf(d) \subseteq chunks

(* The chunk rows of a document are its first ones, without a gap: how far *)
(* SaveChunks came can be read from the table.                             *)
ChunkRowsArePrefix ==
  \A d \in Docs : \E n \in 0 .. Chunks(d) :
    {c \in chunks : c[1] = d} = {d} \X (0 .. n - 1)

(* How far indexing came is on record, for the client and in the table.    *)
ProgressIsOnRecord == IndexedIsComplete /\ ChunkRowsArePrefix

(* What a search cites is a document that the store has, also when writes  *)
(* come late and requests are cut short.                                   *)
HitHasDocument == setup.durable => \A s \in Searches : \A p \in seen[s] : p[1] \in docs

(* A search that begins after a document was indexed has all of it to      *)
(* choose from: the upsert waits for its points.                           *)
SearchSeesIndexed ==
  \A s \in Searches : reply[s] = "found" =>
    \A d \in expects[s] : PointsOf(d) \subseteq seen[s]

(* A search is answered with documents that exist, and with all that were  *)
(* reported before it began.                                               *)
SearchIsTrue == HitHasDocument /\ SearchSeesIndexed

(* A document that was refused, lost the race for the collection or could  *)
(* not be embedded left nothing to be found, so that sending it again does *)
(* not index it twice; and only a request begun before the collection      *)
(* existed can lose that race.                                             *)
FailsClean ==
  /\ \A d \in Docs : reply[d] \in {"bad_request", "conflict", "embed"} =>
       /\ PointsOf(d) \cap (points \cup chunks) = {}
       /\ [kind |-> "points", doc |-> d] \notin lost
  /\ \A r \in Requests : reply[r] = "conflict" => r \in early

(* The stage of a document, by what MySQL and Qdrant hold of it; what the  *)
(* MemoryStore holds is for this process only, and promises nothing.       *)
StageOf(d) ==
  IF ~setup.durable THEN "absent"
  ELSE IF chunks \cap PointsOf(d) # {} /\ PointsOf(d) \subseteq chunks THEN "recorded"
  ELSE IF points \cap PointsOf(d) # {} THEN "searchable"
  ELSE IF d \in docs THEN "stored" ELSE "absent"

Lifecycle == INSTANCE DocumentLifecycle WITH stage <- [d \in Docs |-> StageOf(d)]

(* Documents advance stage by stage, across two systems that share no      *)
(* transaction, and never go back.                                         *)
LifecycleSpec == Lifecycle!Spec
=============================================================================
