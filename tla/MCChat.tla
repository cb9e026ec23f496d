------------------------------- MODULE MCChat -------------------------------
(* Small instances of Chat for TLC: one question, asked at most twice. *)
EXTENDS ChatInvariant, TLC

CONSTANTS c1, c2, q

OneRetry == c1 :> q @@ c2 :> q

\* MySQL with the real model, MySQL with the mock, memory with each.
AllSetups == [durable : BOOLEAN, mock : BOOLEAN]
MySQLAndModel == {[durable |-> TRUE, mock |-> FALSE]}

AllFaults == {"store", "disconnect", "crash"}
OnlyStore == {"store"}
=============================================================================
