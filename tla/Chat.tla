-------------------------------- MODULE Chat --------------------------------
(***************************************************************************)
(* AgentService.Chat of internal/service/agent.go: open a session, store   *)
(* the question, ask the language model for a tool call, execute it, ask   *)
(* for an answer, store the answer.  Each step may fail on its own, the    *)
(* client may leave, the process may die, and a client that got no answer  *)
(* may send its question again.                                            *)
(*                                                                         *)
(* The executor is seen from outside here: it refuses the call, or runs    *)
(* the tool and returns.  ToolCall is its inside, and store calls behave   *)
(* as they do there.                                                       *)
(***************************************************************************)
CONSTANTS Chats,      \* the calls of Chat
          Question,   \* Question[c]: what c asks; a retry has the same one
          NoSession,  \* the request names no session
          Stray,      \* a session id the client made up
          Setups,     \* the stores and models that main may choose
          Faults      \* what may go wrong: "store", "disconnect", "crash"

ASSUME SessionAssumption == NoSession \notin Chats /\ Stray \notin Chats
ASSUME SetupsAssumption == Setups \subseteq [durable : BOOLEAN, mock : BOOLEAN]
ASSUME FaultsAssumption == Faults \subseteq {"store", "disconnect", "crash"}

VARIABLES
  setup,    \* durable: MySQLStore, not MemoryStore; mock: ENABLE_MOCK_LLM
  pc,       \* pc[c]: where call c is
  ctx,      \* ctx[c]: the context of its request
  session,  \* session[c]: its session; c itself when c opened it
  answer,   \* answer[c]: what it tells the user
  reply,    \* reply[c]: what Chat returned: an answer, or what failed
  rows,     \* the rows of agent_sessions and agent_messages
  lost,     \* rows whose INSERT returned an error and may still come
  ran       \* history: calls whose tool was started

vars == <<setup, pc, ctx, session, answer, reply, rows, lost, ran>>
-----------------------------------------------------------------------------
CallState == {"idle", "session", "question", "plan", "execute", "tool",
              "final", "answer", "decline", "done", "gone"}

Answer == {"none", "text", "apology", "no_call"}

Reply == {"none", "answered", "bad_request", "store", "llm"}

\* A session row is named after the chat that opened it, a message row
\* after its chat and role.
Row == [table : {"session", "user", "assistant"}, chat : Chats]

RowOf(c, t) == [table |-> t, chat |-> c]

Init ==
  /\ setup \in Setups
  /\ pc = [c \in Chats |-> "idle"]
  /\ ctx = [c \in Chats |-> "live"]
  /\ session = [c \in Chats |-> NoSession]
  /\ answer = [c \in Chats |-> "none"]
  /\ reply = [c \in Chats |-> "none"]
  /\ rows = {}
  /\ lost = {}
  /\ ran = {}
-----------------------------------------------------------------------------
(* The store. *)

StoreWorks(c) == ctx[c] = "live" \/ ~setup.durable

StoreRefuses(c) == ctx[c] = "cancelled" /\ setup.durable

StoreInterrupted(c) ==
  ctx[c] = "live" /\ setup.durable /\ Faults \cap {"store", "disconnect"} # {}

Saves(c, t) ==
  /\ StoreWorks(c)
  /\ rows' = rows \cup {RowOf(c, t)}
  /\ UNCHANGED lost

(* Nothing is stored, but what was interrupted may still come.             *)
SaveFails(c, t) ==
  /\ \/ StoreRefuses(c) /\ UNCHANGED lost
     \/ StoreInterrupted(c) /\ lost' = lost \cup {RowOf(c, t)}
  /\ UNCHANGED rows
-----------------------------------------------------------------------------
(* The language model. *)

\* A request to the provider fails (no key, no connection, a bad status, no
\* JSON), or is answered: with no choice, a text, one or more tool calls, or
\* a call with arguments that are no JSON object.
LLMReply == {"failed", "no_choice", "text", "call", "bad_arguments"}

Replies(c) ==
  IF setup.mock THEN {"call"}
  ELSE IF ctx[c] = "cancelled" THEN {"failed"} ELSE LLMReply

(* GenerateToolCall: the first tool call, none, or an error.               *)
ToolCallOf(r) ==
  CASE r = "call" -> "call"
    [] r \in {"no_choice", "text"} -> "none"
    [] OTHER -> "error"

(* Mutant: no choice is not an error.                                      *)
FinalAnswerOfNoChoice(r) ==
  CASE r = "failed" -> "apology" [] r = "no_choice" -> "nil" [] OTHER -> "text"

(* GenerateFinalAnswer: a choice is a text, empty if it holds none.        *)
FinalAnswerOf(r) == IF r \in {"failed", "no_choice"} THEN "apology" ELSE "text"
-----------------------------------------------------------------------------
(* Chat, step by step. *)

Goes(c, from, to) == pc[c] = from /\ pc' = [pc EXCEPT ![c] = to]

Returns(c, from, r) == Goes(c, from, "done") /\ reply' = [reply EXCEPT ![c] = r]

(* The client of d knows that it will get no answer.                       *)
GaveUp(d) ==
  reply[d] \notin {"none", "answered"} \/ ctx[d] = "cancelled" \/ pc[d] = "gone"

(* A client asks again only after it gave up.                              *)
MayAsk(c) ==
  \A d \in Chats \ {c} : Question[d] = Question[c] => pc[d] = "idle" \/ GaveUp(d)

(* The sessions a request can name: none, one the client made up, or one   *)
(* an earlier answer told of.                                              *)
Nameable == {NoSession, Stray} \cup {session[d] : d \in {x \in Chats : reply[x] = "answered"}}

RefuseEmpty(c) ==
  /\ MayAsk(c)
  /\ Returns(c, "idle", "bad_request")
  /\ UNCHANGED <<setup, ctx, session, answer, rows, lost, ran>>

(* A named session is taken as it is: nothing looks it up.                 *)
Begin(c) ==
  /\ MayAsk(c)
  /\ \E s \in Nameable :
       /\ session' = [session EXCEPT ![c] = s]
       /\ Goes(c, "idle", IF s = NoSession THEN "session" ELSE "question")
  /\ UNCHANGED <<setup, ctx, answer, reply, rows, lost, ran>>

OpenSession(c) ==
  /\ \/ /\ Saves(c, "session")
        /\ Goes(c, "session", "question")
        /\ session' = [session EXCEPT ![c] = c]
        /\ UNCHANGED reply
     \/ /\ SaveFails(c, "session")
        /\ Returns(c, "session", "store")
        /\ UNCHANGED session
  /\ UNCHANGED <<setup, ctx, answer, ran>>

(* Mutant: the error of the first CreateMessage is dropped.                *)
SaveQuestionIgnoresError(c) ==
  /\ Saves(c, "user") \/ SaveFails(c, "user")
  /\ Goes(c, "question", "plan")
  /\ UNCHANGED <<setup, ctx, session, answer, reply, ran>>

SaveQuestion(c) ==
  /\ \/ Saves(c, "user") /\ Goes(c, "question", "plan") /\ UNCHANGED reply
     \/ SaveFails(c, "user") /\ Returns(c, "question", "store")
  /\ UNCHANGED <<setup, ctx, session, answer, ran>>

(* The model is asked for a tool call.                                     *)
Plan(c) ==
  \E call \in {ToolCallOf(r) : r \in Replies(c)} :
    /\ CASE call = "call" -> Goes(c, "plan", "execute") /\ UNCHANGED <<answer, reply>>
         [] call = "none" -> /\ Goes(c, "plan", "decline")
                             /\ answer' = [answer EXCEPT ![c] = "no_call"]
                             /\ UNCHANGED reply
         [] call = "error" -> Returns(c, "plan", "llm") /\ UNCHANGED answer
    /\ UNCHANGED <<setup, ctx, session, rows, lost, ran>>

(* Mutant: an answer that cannot be stored starts the loop again.          *)
DeclineForgets(c) ==
  /\ \/ Saves(c, "assistant") /\ Returns(c, "decline", "answered")
     \/ SaveFails(c, "assistant") /\ Goes(c, "decline", "plan") /\ UNCHANGED reply
  /\ UNCHANGED <<setup, ctx, session, answer, ran>>

(* No tool call: the error of storing the answer is dropped.               *)
Decline(c) ==
  /\ Saves(c, "assistant") \/ SaveFails(c, "assistant")
  /\ Returns(c, "decline", "answered")
  /\ UNCHANGED <<setup, ctx, session, answer, ran>>

(* Execute returns an error and a response: unknown tool, bad input, or    *)
(* denied by the policy.                                                   *)
ExecuteRefuses(c) ==
  /\ Goes(c, "execute", "final")
  /\ UNCHANGED <<setup, ctx, session, answer, reply, rows, lost, ran>>

ExecuteStarts(c) ==
  /\ Goes(c, "execute", "tool")
  /\ ran' = ran \cup {c}
  /\ UNCHANGED <<setup, ctx, session, answer, reply, rows, lost>>

(* Execute returns, a response always, with or without an error.           *)
ExecuteReturns(c) ==
  /\ Goes(c, "tool", "final")
  /\ UNCHANGED <<setup, ctx, session, answer, reply, rows, lost, ran>>

(* Mutant: an error of the model is returned to the client.                *)
FinalAnswerReturnsError(c) ==
  \E a \in {FinalAnswerOf(r) : r \in Replies(c)} :
    /\ IF a = "text"
       THEN Goes(c, "final", "answer") /\ UNCHANGED reply
       ELSE Returns(c, "final", "llm")
    /\ answer' = [answer EXCEPT ![c] = a]
    /\ UNCHANGED <<setup, ctx, session, rows, lost, ran>>

(* The model is asked for the answer; its error becomes part of one.       *)
FinalAnswer(c) ==
  \E a \in {FinalAnswerOf(r) : r \in Replies(c)} :
    /\ Goes(c, "final", "answer")
    /\ answer' = [answer EXCEPT ![c] = a]
    /\ UNCHANGED <<setup, ctx, session, reply, rows, lost, ran>>

SaveAnswer(c) ==
  /\ \/ Saves(c, "assistant") /\ Returns(c, "answer", "answered")
     \/ SaveFails(c, "assistant") /\ Returns(c, "answer", "store")
  /\ UNCHANGED <<setup, ctx, session, answer, ran>>
-----------------------------------------------------------------------------
(* The environment. *)

InProgress(c) == pc[c] \notin {"idle", "done", "gone"}

Disconnect(c) ==
  /\ "disconnect" \in Faults
  /\ InProgress(c)
  /\ ctx[c] = "live"
  /\ ctx' = [ctx EXCEPT ![c] = "cancelled"]
  /\ UNCHANGED <<setup, pc, session, answer, reply, rows, lost, ran>>

Restart ==
  /\ "crash" \in Faults
  /\ pc' = [c \in Chats |-> IF InProgress(c) THEN "gone" ELSE pc[c]]
  /\ rows' = IF setup.durable THEN rows ELSE {}
  /\ UNCHANGED <<setup, ctx, session, answer, reply, lost, ran>>

(* The database applies an interrupted INSERT after all.                   *)
Land(r) ==
  /\ lost' = lost \ {r}
  /\ rows' = rows \cup {r}
  /\ UNCHANGED <<setup, pc, ctx, session, answer, reply, ran>>

ChatStep(c) ==
  \/ OpenSession(c) \/ SaveQuestion(c) \/ Plan(c) \/ Decline(c)
  \/ ExecuteRefuses(c) \/ ExecuteStarts(c) \/ ExecuteReturns(c)
  \/ FinalAnswer(c) \/ SaveAnswer(c)

Next ==
  \/ \E c \in Chats : RefuseEmpty(c) \/ Begin(c) \/ ChatStep(c) \/ Disconnect(c)
  \/ \E r \in lost : Land(r)
  \/ Restart

Spec == Init /\ [][Next]_vars

(* A handler goes on: the store and the HTTP client of the model have      *)
(* timeouts, and Execute returns (ToolCall's CallReturns).                 *)
FairSpec == Spec /\ \A c \in Chats : WF_vars(ChatStep(c))
-----------------------------------------------------------------------------
(* Properties. *)

TypeOK ==
  /\ setup \in Setups
  /\ pc \in [Chats -> CallState]
  /\ ctx \in [Chats -> {"live", "cancelled"}]
  /\ session \in [Chats -> Chats \cup {NoSession, Stray}]
  /\ answer \in [Chats -> Answer]
  /\ reply \in [Chats -> Reply]
  /\ rows \subseteq Row
  /\ lost \subseteq Row
  /\ ran \subseteq Chats

(* The transcript has no answer without its question, and no message in a  *)
(* session that Chat failed to open, not even when an INSERT is late.      *)
AnswerHasQuestion ==
  \A c \in Chats :
    /\ RowOf(c, "assistant") \in rows \cup lost => RowOf(c, "user") \in rows
    /\ RowOf(c, "user") \in rows \cup lost =>
         session[c] # NoSession /\ (session[c] = c => RowOf(c, "session") \in rows)

(* A tool runs only for a question that is stored: the message id in its   *)
(* audit row can be followed.                                              *)
ToolHasQuestion == setup.durable => \A c \in ran : RowOf(c, "user") \in rows

(* An answer that used the executor is in the transcript by the time the   *)
(* client reads it.                                                        *)
ToolAnswerIsStored ==
  setup.durable => \A c \in Chats : reply[c] = "answered" /\ answer[c] # "no_call" =>
    {RowOf(c, "user"), RowOf(c, "assistant")} \subseteq rows

(* The transcript tells what happened: it has no gap, it has the question  *)
(* of every tool that ran, and what a tool answered is in it.              *)
TranscriptIsTrue == AnswerHasQuestion /\ ToolHasQuestion /\ ToolAnswerIsStored

(* A client that only asks again after a failure makes a tool run twice    *)
(* for one question only if the client left, the process died, or the      *)
(* store refused the answer: an error of the model is never the reason.    *)
RunsAgainOnlyIfAnswerLost ==
  \A c \in ran : \A d \in ran \ {c} : Question[c] = Question[d] =>
    \E x \in {c, d} : ctx[x] = "cancelled" \/ pc[x] = "gone" \/ reply[x] = "store"

(* Every request that begins is answered or dies with the process.         *)
ChatReturns == \A c \in Chats : pc[c] # "idle" ~> pc[c] \in {"done", "gone"}

(* agent_test.go: after Chat returned its answer, the session holds the    *)
(* user's and the assistant's message.                                     *)
AnsweredHasBothMessages ==
  \A c \in Chats : reply[c] = "answered" =>
    {RowOf(c, "user"), RowOf(c, "assistant")} \subseteq rows
=============================================================================
