----------------------------- MODULE MCRagIndex -----------------------------
(* Small instances of RagIndex for TLC. *)
EXTENDS RagInvariant, TLC

CONSTANTS d1, d2, s1, text, note

\* With MySQL and the embedding service, a document of two chunks that may be
\* sent again; with the MemoryStore and the deterministic embedder, one of one
\* chunk and one of white space only.
TwoSetups ==
  {[durable |-> TRUE, mock |-> FALSE,
    content |-> d1 :> text @@ d2 :> text, size |-> text :> 2 @@ note :> 0],
   [durable |-> FALSE, mock |-> TRUE,
    content |-> d1 :> text @@ d2 :> note, size |-> text :> 1 @@ note :> 0]}

AllFaults == {"store", "qdrant", "disconnect", "crash"}
=============================================================================
