---------------------------- MODULE MCQueueGauge ----------------------------
(* Small instances of QueueGauge for TLC. *)
EXTENDS QueueGauge, TLC

CONSTANTS j1, j2, j3, j4, w1, w2

AlikeActors == Permutations(Submissions) \cup Permutations(Workers)
=============================================================================
