--------------------------- MODULE ChatInvariant ---------------------------
(* The inductive invariant behind the properties of Chat, stated apart     *)
(* from its proof so that TLC checks it first.                             *)
EXTENDS Chat

(* Where the question of a call is stored, and where its session is known. *)
Asked == {"plan", "execute", "tool", "final", "answer", "decline"}

InSession == {"question"} \cup Asked

(* The session of c is one that somebody opened or made up; if c opened it *)
(* itself, its row is there.                                               *)
SessionKnown(c) ==
  session[c] # NoSession /\ (session[c] = c => RowOf(c, "session") \in rows)

(* A MemoryStore loses nothing on the way.                                 *)
OnlyMySQLIsLate == ~setup.durable => lost = {}

(* A session is named after a call that has begun.                         *)
SessionsBegun == \A c \in Chats : session[c] \in Chats => pc[session[c]] # "idle"

(* A call has what its next step builds on.                                *)
StepsBuild ==
  \A c \in Chats :
    /\ pc[c] \in InSession => SessionKnown(c)
    /\ pc[c] \in Asked => RowOf(c, "user") \in rows
    /\ pc[c] = "decline" => answer[c] = "no_call"

(* Nothing is stored, lost or answered before its step.                    *)
NothingEarly ==
  \A c \in Chats :
    /\ pc[c] \in {"idle", "session"} => RowOf(c, "user") \notin rows \cup lost
    /\ pc[c] = "idle" => c \notin ran
    /\ reply[c] # "none" => pc[c] = "done"

(* A call that ran its tool does not fail for the model or its form.       *)
RanFailsInStore ==
  \A c \in ran : /\ pc[c] \in {"tool", "final", "answer", "done", "gone"}
                 /\ reply[c] \in {"none", "answered", "store"}

(* Of two calls with one question that have begun, one has given up.       *)
OneWaits ==
  \A c \in Chats : \A d \in Chats \ {c} :
    Question[c] = Question[d] /\ pc[c] # "idle" /\ pc[d] # "idle" =>
      GaveUp(c) \/ GaveUp(d)

ChatInv ==
  /\ OnlyMySQLIsLate
  /\ SessionsBegun
  /\ StepsBuild
  /\ NothingEarly
  /\ RanFailsInStore
  /\ OneWaits
  /\ TranscriptIsTrue
=============================================================================
