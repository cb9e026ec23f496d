------------------------------ MODULE Chunking ------------------------------
(***************************************************************************)
(* splitLongText of internal/rag/chunk.go: a paragraph longer than size    *)
(* runes (900) is cut into windows of size runes of which neighbours share *)
(* overlap runes (120).  A rune is "space", what TrimSpace removes, "word",*)
(* a letter or a digit, or "sign".  A window is <<first, last>>; its chunk *)
(* is the window without the space at its ends.                            *)
(***************************************************************************)
EXTENDS Integers, Sequences, FiniteSetsExt

Rune == {"space", "word", "sign"}

(* The positions from first to last that hold more than space.             *)
Kept(text, first, last) == {p \in first .. last : text[p] # "space"}

TrimSpace(text) ==
  LET kept == Kept(text, 1, Len(text))
  IN IF kept = {} THEN <<>> ELSE SubSeq(text, Min(kept), Max(kept))

(* tokenCount: the words, or the runes when there is no word.              *)
TokenCount(chunk) ==
  LET words == {p \in DOMAIN chunk : chunk[p] = "word" /\ (p = 1 \/ chunk[p - 1] # "word")}
  IN IF words # {} THEN Cardinality(words) ELSE Len(chunk)

ChunkOf(text, window) == TrimSpace(SubSeq(text, window[1], window[2]))

(* Mutant: neighbours share nothing.                                       *)
StepOfSize(size, overlap) == size

(* Mutant: an overlap as long as a window leaves no step.                  *)
StepOfNone(size, overlap) == size - overlap

Step(size, overlap) == IF size - overlap <= 0 THEN size ELSE size - overlap

(* nonEmpty for a window: a chunk is not blank.                            *)
Keep(text, first, last) ==
  IF Kept(text, first, last) = {} THEN <<>> ELSE << <<first, last>> >>

(* What a text that fits the size comes to.                                *)
WholeText(text) == IF text = <<>> THEN <<>> ELSE << <<1, Len(text)>> >>

(* One pass of the loop, from the window behind the first start runes: the *)
(* break at the last one leaves no start.                                  *)
CutWindow(text, loop, size, overlap) ==
  LET end == IF loop.start + size > Len(text) THEN Len(text) ELSE loop.start + size
  IN [start |-> IF end = Len(text) THEN Len(text) ELSE loop.start + Step(size, overlap),
      out |-> loop.out \o Keep(text, loop.start + 1, end)]
=============================================================================
