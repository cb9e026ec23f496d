----------------------------- MODULE MCToolCall -----------------------------
(* Small instances of ToolCall for TLC. *)
EXTENDS ToolInvariant, TLC

StoreAndDisconnect == {"store", "disconnect"}
OnlyDisconnect == {"disconnect"}
=============================================================================
