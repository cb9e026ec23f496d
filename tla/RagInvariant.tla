--------------------------- MODULE RagInvariant ---------------------------
(* The inductive invariant behind the properties of RagIndex, stated apart *)
(* from its proof so that TLC checks it first.                             *)
EXTENDS RagIndex

(* Where a document has written nothing that can be found.                 *)
BeforeUpsert == {"idle", "check", "create", "document", "embed"}

(* Nothing of d can be found or is on its way.                             *)
Unwritten(d) ==
  /\ [kind |-> "points", doc |-> d] \notin lost
  /\ \A p \in points : p[1] # d
  /\ \A c \in chunks : c[1] # d
  /\ \A w \in lost : w.kind = "chunk" => w.chunk[1] # d

(* An answer ends a request, and a MemoryStore has no late write.          *)
AnswerEnds ==
  /\ \A r \in Requests : reply[r] # "none" => pc[r] = "done"
  /\ \A w \in lost : w.kind \in {"document", "chunk"} => setup.durable

(* A document is on record before its points, its points before its chunk  *)
(* rows, whether they are stored or late.                                  *)
InOrder ==
  /\ \A d \in Docs :
       /\ pc[d] \in {"embed", "upsert", "chunks"} /\ setup.durable => d \in docs
       /\ pc[d] = "chunks" => PointsOf(d) \subseteq points
       /\ reply[d] = "indexed" => PointsOf(d) \subseteq points /\ next[d] = Chunks(d)
       /\ reply[d] = "indexed" /\ setup.durable => d \in docs
       /\ [kind |-> "points", doc |-> d] \in lost =>
            /\ setup.durable => d \in docs
            /\ pc[d] \in {"done", "gone"}
            /\ \A c \in chunks : c[1] # d
            /\ \A w \in lost : w.kind = "chunk" => w.chunk[1] # d
  /\ \A p \in points : setup.durable => p[1] \in docs
  /\ \A c \in chunks : PointsOf(c[1]) \subseteq points
  /\ \A w \in lost : w.kind = "chunk" => PointsOf(w.chunk[1]) \subseteq points

(* Who left nothing behind.                                                *)
Clean ==
  \A d \in Docs :
    pc[d] \in BeforeUpsert \/ reply[d] \in {"bad_request", "conflict", "embed"} =>
      Unwritten(d)

(* The chunk rows of d are those before next[d], and perhaps that one if   *)
(* its write came late; a MemoryStore has all of them or none.             *)
RowsFollowNext ==
  /\ \A d \in Docs :
       /\ pc[d] \in BeforeUpsert \cup {"upsert"} =>
            /\ next[d] = 0
            /\ \A c \in chunks : c[1] # d
            /\ \A w \in lost : w.kind = "chunk" => w.chunk[1] # d
       /\ setup.durable => \A i \in 0 .. next[d] - 1 : <<d, i>> \in chunks
  /\ setup.durable => \A c \in chunks :
       /\ c[2] <= next[c[1]]
       /\ c[2] = next[c[1]] => pc[c[1]] \in {"done", "gone"}
  /\ ~setup.durable => \A c \in chunks : PointsOf(c[1]) \subseteq chunks
  /\ \A w \in lost : w.kind = "chunk" =>
       w.chunk[2] = next[w.chunk[1]] /\ pc[w.chunk[1]] \in {"done", "gone"}

(* A search saw points that are still there, and all of the documents it   *)
(* could expect.                                                           *)
Searched ==
  \A s \in Searches :
    /\ seen[s] \subseteq points
    /\ \A d \in expects[s] : reply[d] = "indexed"
    /\ reply[s] = "found" => \A d \in expects[s] : PointsOf(d) \subseteq seen[s]

(* Who is about to create the collection began without it.                 *)
Births ==
  \A r \in Requests :
    /\ pc[r] = "create" \/ reply[r] = "conflict" => r \in early
    /\ pc[r] = "check" /\ ~collection => r \in early

RagInv ==
  AnswerEnds /\ InOrder /\ Clean /\ RowsFollowNext /\ Searched /\ Births
=============================================================================
