----------------------------- MODULE Chat_proofs -----------------------------
(* Theorems of Chat, for any calls, questions, setups and faults.          *)
EXTENDS ChatInvariant, TLAPS

(* Rows are told apart by their table and their call.                      *)
LEMMA RowsDiffer ==
  \A c, d, t, u : RowOf(c, t) = RowOf(d, u) <=> c = d /\ t = u
BY DEF RowOf

(* What a chat stores are rows.                                            *)
LEMMA RowsTyped == \A c \in Chats : \A t \in {"session", "user", "assistant"} : RowOf(c, t) \in Row
BY DEF RowOf, Row

(* A reply of the model is a call, none, or an error.                      *)
LEMMA ToolCallRange == \A r : ToolCallOf(r) \in {"call", "none", "error"}
BY DEF ToolCallOf

(* A reply of the model becomes an answer, whatever it is.                 *)
LEMMA FinalAnswerRange == \A r : FinalAnswerOf(r) \in {"apology", "text"}
BY DEF FinalAnswerOf

(* What Plan does, reply by reply.                                         *)
LEMMA PlanMoves ==
  ASSUME NEW c \in Chats, Plan(c)
  PROVE  /\ \/ Goes(c, "plan", "execute") /\ UNCHANGED <<answer, reply>>
            \/ /\ Goes(c, "plan", "decline") /\ UNCHANGED reply
               /\ answer' = [answer EXCEPT ![c] = "no_call"]
            \/ Returns(c, "plan", "llm") /\ UNCHANGED answer
         /\ UNCHANGED <<setup, ctx, session, rows, lost, ran>>
<1>1. PICK call \in {ToolCallOf(r) : r \in Replies(c)} :
        /\ CASE call = "call" -> Goes(c, "plan", "execute") /\ UNCHANGED <<answer, reply>>
             [] call = "none" -> /\ Goes(c, "plan", "decline")
                                 /\ answer' = [answer EXCEPT ![c] = "no_call"]
                                 /\ UNCHANGED reply
             [] call = "error" -> Returns(c, "plan", "llm") /\ UNCHANGED answer
        /\ UNCHANGED <<setup, ctx, session, rows, lost, ran>>
  BY DEF Plan
<1>2. call \in {"call", "none", "error"}
  BY ToolCallRange
<1> QED BY <1>1, <1>2

(* What FinalAnswer does.                                                  *)
LEMMA FinalAnswerMoves ==
  ASSUME NEW c \in Chats, FinalAnswer(c)
  PROVE  /\ Goes(c, "final", "answer")
         /\ \E a \in {"apology", "text"} : answer' = [answer EXCEPT ![c] = a]
         /\ UNCHANGED <<setup, ctx, session, reply, rows, lost, ran>>
BY FinalAnswerRange DEF FinalAnswer

(* A write that returns puts its row into the table, or among the lost.    *)
LEMMA WriteType ==
  ASSUME TypeOK, NEW c \in Chats, NEW t \in {"session", "user", "assistant"},
         Saves(c, t) \/ SaveFails(c, t)
  PROVE  rows' \subseteq Row /\ lost' \subseteq Row
BY RowsTyped DEF TypeOK, Saves, SaveFails

(* Every step keeps the types.                                             *)
LEMMA ChatTypeStep == TypeOK /\ [Next]_vars => TypeOK'
<1> SUFFICES ASSUME TypeOK, [Next]_vars PROVE TypeOK'
  OBVIOUS
<1> USE DEF CallState, Answer, Reply, Goes, Returns
<1>1. ASSUME NEW c \in Chats, RefuseEmpty(c) PROVE TypeOK'
  BY <1>1 DEF RefuseEmpty, TypeOK
<1>2. ASSUME NEW c \in Chats, Begin(c) PROVE TypeOK'
  <2>1. Nameable \subseteq Chats \cup {NoSession, Stray}
    BY DEF Nameable, TypeOK
  <2> QED BY <1>2, <2>1 DEF Begin, TypeOK
<1>3. ASSUME NEW c \in Chats, OpenSession(c) PROVE TypeOK'
  <2>1. rows' \subseteq Row /\ lost' \subseteq Row
    BY <1>3, WriteType DEF OpenSession
  <2> QED BY <1>3, <2>1 DEF OpenSession, TypeOK
<1>4. ASSUME NEW c \in Chats, SaveQuestion(c) PROVE TypeOK'
  <2>1. rows' \subseteq Row /\ lost' \subseteq Row
    BY <1>4, WriteType DEF SaveQuestion
  <2> QED BY <1>4, <2>1 DEF SaveQuestion, TypeOK
<1>5. ASSUME NEW c \in Chats, Plan(c) PROVE TypeOK'
  BY <1>5, PlanMoves DEF TypeOK
<1>6. ASSUME NEW c \in Chats, Decline(c) PROVE TypeOK'
  <2>1. rows' \subseteq Row /\ lost' \subseteq Row
    BY <1>6, WriteType DEF Decline
  <2> QED BY <1>6, <2>1 DEF Decline, TypeOK
<1>7. ASSUME NEW c \in Chats, ExecuteRefuses(c) \/ ExecuteStarts(c) \/ ExecuteReturns(c)
      PROVE  TypeOK'
  BY <1>7 DEF ExecuteRefuses, ExecuteStarts, ExecuteReturns, TypeOK
<1>8. ASSUME NEW c \in Chats, FinalAnswer(c) PROVE TypeOK'
  BY <1>8, FinalAnswerMoves DEF TypeOK
<1>9. ASSUME NEW c \in Chats, SaveAnswer(c) PROVE TypeOK'
  <2>1. rows' \subseteq Row /\ lost' \subseteq Row
    BY <1>9, WriteType DEF SaveAnswer
  <2> QED BY <1>9, <2>1 DEF SaveAnswer, TypeOK
<1>10. ASSUME NEW c \in Chats, Disconnect(c) PROVE TypeOK'
  BY <1>10 DEF Disconnect, TypeOK
<1>11. ASSUME NEW r \in lost, Land(r) PROVE TypeOK'
  BY <1>11 DEF Land, TypeOK
<1>12. CASE Restart
  BY <1>12 DEF Restart, TypeOK
<1>13. CASE UNCHANGED vars
  BY <1>13 DEF vars, TypeOK
<1> QED
  BY <1>1, <1>2, <1>3, <1>4, <1>5, <1>6, <1>7, <1>8, <1>9, <1>10, <1>11, <1>12, <1>13
  DEF Next, ChatStep

(* What the calls of Chat keep has its type in every reachable state.      *)
THEOREM ChatTypeCorrect == Spec => []TypeOK
<1>1. Init => TypeOK
  BY DEF Init, TypeOK, CallState, Answer, Reply
<1> QED BY <1>1, ChatTypeStep, PTL DEF Spec
-----------------------------------------------------------------------------
(* The initial state has ChatInv.                                          *)
LEMMA ChatInvInit == Init => ChatInv
<1> SUFFICES ASSUME Init PROVE ChatInv
  OBVIOUS
<1>1. OnlyMySQLIsLate /\ StepsBuild /\ NothingEarly /\ RanFailsInStore /\ OneWaits
  BY DEF Init, OnlyMySQLIsLate, StepsBuild, InSession, Asked, NothingEarly, RanFailsInStore, OneWaits
<1>2. SessionsBegun
  BY SessionAssumption DEF Init, SessionsBegun
<1>3. TranscriptIsTrue
  BY DEF Init, TranscriptIsTrue, AnswerHasQuestion, ToolHasQuestion, ToolAnswerIsStored
<1> QED BY <1>1, <1>2, <1>3 DEF ChatInv

(* What a step of c leaves of the other calls.                             *)
OnlyMoves(c) ==
  \A d \in Chats \ {c} :
    /\ pc'[d] = pc[d] /\ ctx'[d] = ctx[d] /\ session'[d] = session[d]
    /\ answer'[d] = answer[d] /\ reply'[d] = reply[d]

(* Who has given up, has for good; and a call that just began or was       *)
(* refused meets only others that have not begun or have given up.         *)
LEMMA StepsWait ==
  ASSUME TypeOK, NothingEarly, OneWaits, NEW c \in Chats, OnlyMoves(c),
         pc[c] = "idle" => MayAsk(c),
         pc[c] # "idle" /\ GaveUp(c) => GaveUp(c)'
  PROVE  OneWaits'
BY DEF OneWaits, OnlyMoves, GaveUp, MayAsk

(* Every step keeps ChatInv.                                               *)
LEMMA ChatInvStep == TypeOK /\ ChatInv /\ [Next]_vars => ChatInv'
<1> SUFFICES ASSUME TypeOK, ChatInv, [Next]_vars PROVE ChatInv'
  OBVIOUS
<1> USE RowsDiffer, SessionAssumption DEF ChatInv, TranscriptIsTrue, Goes, Returns
<1>1. ASSUME NEW c \in Chats, RefuseEmpty(c) PROVE ChatInv'
  <2>1. OnlyMoves(c)
    BY <1>1 DEF RefuseEmpty, OnlyMoves
  <2>2. OneWaits'
    <3>1. pc[c] = "idle" => MayAsk(c)
      BY <1>1 DEF RefuseEmpty
    <3>2. pc[c] # "idle" /\ GaveUp(c) => GaveUp(c)'
      BY <1>1 DEF RefuseEmpty, GaveUp
    <3> QED BY <2>1, <3>1, <3>2, StepsWait
  <2>3. OnlyMySQLIsLate' /\ SessionsBegun'
    BY <1>1, <2>1 DEF RefuseEmpty, OnlyMySQLIsLate, SessionsBegun, OnlyMoves
  <2>4. StepsBuild'
    BY <1>1, <2>1 DEF RefuseEmpty, StepsBuild, InSession, Asked, SessionKnown, OnlyMoves
  <2>5. NothingEarly' /\ RanFailsInStore'
    BY <1>1, <2>1 DEF RefuseEmpty, NothingEarly, RanFailsInStore, OnlyMoves, TypeOK
  <2>6. AnswerHasQuestion'
    BY <1>1, <2>1 DEF RefuseEmpty, AnswerHasQuestion, OnlyMoves
  <2>7. ToolHasQuestion' /\ ToolAnswerIsStored'
    BY <1>1, <2>1 DEF RefuseEmpty, ToolHasQuestion, ToolAnswerIsStored, OnlyMoves
  <2> QED BY <2>2, <2>3, <2>4, <2>5, <2>6, <2>7
<1>2. ASSUME NEW c \in Chats, Begin(c) PROVE ChatInv'
  <2>1. OnlyMoves(c)
    BY <1>2 DEF Begin, OnlyMoves
  <2>2. OneWaits'
    <3>1. pc[c] = "idle" => MayAsk(c)
      BY <1>2 DEF Begin
    <3>2. pc[c] # "idle" /\ GaveUp(c) => GaveUp(c)'
      BY <1>2 DEF Begin, GaveUp
    <3> QED BY <2>1, <3>1, <3>2, StepsWait
  <2>3. OnlyMySQLIsLate' /\ SessionsBegun'
    BY <1>2, <2>1 DEF Begin, Nameable, OnlyMySQLIsLate, SessionsBegun, OnlyMoves
  <2>4. StepsBuild'
    BY <1>2, <2>1
      DEF Begin, Nameable, StepsBuild, InSession, Asked, SessionKnown, SessionsBegun,
          OnlyMoves, TypeOK
  <2>5. NothingEarly' /\ RanFailsInStore'
    BY <1>2, <2>1 DEF Begin, NothingEarly, RanFailsInStore, OnlyMoves
  <2>6. AnswerHasQuestion'
    BY <1>2, <2>1 DEF Begin, AnswerHasQuestion, NothingEarly, OnlyMoves
  <2>7. ToolHasQuestion' /\ ToolAnswerIsStored'
    BY <1>2, <2>1 DEF Begin, ToolHasQuestion, ToolAnswerIsStored, OnlyMoves
  <2> QED BY <2>2, <2>3, <2>4, <2>5, <2>6, <2>7
<1>3. ASSUME NEW c \in Chats, OpenSession(c) PROVE ChatInv'
  <2>1. OnlyMoves(c)
    BY <1>3 DEF OpenSession, OnlyMoves, TypeOK
  <2>2. OneWaits'
    <3>1. pc[c] = "idle" => MayAsk(c)
      BY <1>3 DEF OpenSession
    <3>2. pc[c] # "idle" /\ GaveUp(c) => GaveUp(c)'
      BY <1>3 DEF OpenSession, GaveUp, TypeOK
    <3> QED BY <2>1, <3>1, <3>2, StepsWait
  <2>3. OnlyMySQLIsLate' /\ SessionsBegun'
    BY <1>3, <2>1
      DEF OpenSession, Saves, SaveFails, StoreWorks, StoreRefuses, StoreInterrupted,
          OnlyMySQLIsLate, SessionsBegun, OnlyMoves, TypeOK
  <2>4. StepsBuild'
    BY <1>3, <2>1
      DEF OpenSession, Saves, SaveFails, StepsBuild, InSession, Asked, SessionKnown,
          OnlyMoves, TypeOK
  <2>5. NothingEarly' /\ RanFailsInStore'
    BY <1>3, <2>1
      DEF OpenSession, Saves, SaveFails, NothingEarly, RanFailsInStore, OnlyMoves,
          TypeOK
  <2>6. AnswerHasQuestion'
    BY <1>3, <2>1
      DEF OpenSession, Saves, SaveFails, AnswerHasQuestion, OnlyMoves, TypeOK
  <2>7. ToolHasQuestion' /\ ToolAnswerIsStored'
    BY <1>3, <2>1
      DEF OpenSession, Saves, SaveFails, ToolHasQuestion, ToolAnswerIsStored,
          OnlyMoves, TypeOK
  <2> QED BY <2>2, <2>3, <2>4, <2>5, <2>6, <2>7
<1>4. ASSUME NEW c \in Chats, SaveQuestion(c) PROVE ChatInv'
  <2>1. OnlyMoves(c)
    BY <1>4 DEF SaveQuestion, OnlyMoves, TypeOK
  <2>2. OneWaits'
    <3>1. pc[c] = "idle" => MayAsk(c)
      BY <1>4 DEF SaveQuestion
    <3>2. pc[c] # "idle" /\ GaveUp(c) => GaveUp(c)'
      BY <1>4 DEF SaveQuestion, GaveUp, TypeOK
    <3> QED BY <2>1, <3>1, <3>2, StepsWait
  <2>3. OnlyMySQLIsLate' /\ SessionsBegun'
    BY <1>4, <2>1
      DEF SaveQuestion, Saves, SaveFails, StoreWorks, StoreRefuses, StoreInterrupted,
          OnlyMySQLIsLate, SessionsBegun, OnlyMoves, TypeOK
  <2>4. StepsBuild'
    BY <1>4, <2>1
      DEF SaveQuestion, Saves, SaveFails, StepsBuild, InSession, Asked, SessionKnown,
          OnlyMoves, TypeOK
  <2>5. NothingEarly' /\ RanFailsInStore'
    BY <1>4, <2>1
      DEF SaveQuestion, Saves, SaveFails, NothingEarly, RanFailsInStore, OnlyMoves,
          TypeOK
  <2>6. AnswerHasQuestion'
    BY <1>4, <2>1
      DEF SaveQuestion, Saves, SaveFails, AnswerHasQuestion, StepsBuild, InSession,
          SessionKnown, OnlyMoves
  <2>7. ToolHasQuestion' /\ ToolAnswerIsStored'
    BY <1>4, <2>1
      DEF SaveQuestion, Saves, SaveFails, ToolHasQuestion, ToolAnswerIsStored,
          OnlyMoves, TypeOK
  <2> QED BY <2>2, <2>3, <2>4, <2>5, <2>6, <2>7
<1>5. ASSUME NEW c \in Chats, Plan(c) PROVE ChatInv'
  <2>1. OnlyMoves(c)
    BY <1>5, PlanMoves DEF OnlyMoves, TypeOK
  <2>2. OneWaits'
    <3>1. pc[c] = "idle" => MayAsk(c)
      BY <1>5, PlanMoves
    <3>2. pc[c] # "idle" /\ GaveUp(c) => GaveUp(c)'
      BY <1>5, PlanMoves DEF GaveUp, TypeOK
    <3> QED BY <2>1, <3>1, <3>2, StepsWait
  <2>3. OnlyMySQLIsLate' /\ SessionsBegun'
    BY <1>5, PlanMoves, <2>1 DEF OnlyMySQLIsLate, SessionsBegun, OnlyMoves, TypeOK
  <2>4. StepsBuild'
    BY <1>5, PlanMoves, <2>1
      DEF StepsBuild, InSession, Asked, SessionKnown, OnlyMoves, TypeOK
  <2>5. NothingEarly' /\ RanFailsInStore'
    BY <1>5, PlanMoves, <2>1 DEF NothingEarly, RanFailsInStore, OnlyMoves, TypeOK
  <2>6. AnswerHasQuestion'
    BY <1>5, PlanMoves, <2>1 DEF AnswerHasQuestion, OnlyMoves
  <2>7. ToolHasQuestion' /\ ToolAnswerIsStored'
    BY <1>5, PlanMoves, <2>1 DEF ToolHasQuestion, ToolAnswerIsStored, OnlyMoves, TypeOK
  <2> QED BY <2>2, <2>3, <2>4, <2>5, <2>6, <2>7
<1>6. ASSUME NEW c \in Chats, Decline(c) PROVE ChatInv'
  <2>1. OnlyMoves(c)
    BY <1>6 DEF Decline, OnlyMoves
  <2>2. OneWaits'
    <3>1. pc[c] = "idle" => MayAsk(c)
      BY <1>6 DEF Decline
    <3>2. pc[c] # "idle" /\ GaveUp(c) => GaveUp(c)'
      BY <1>6 DEF Decline, GaveUp, NothingEarly
    <3> QED BY <2>1, <3>1, <3>2, StepsWait
  <2>3. OnlyMySQLIsLate' /\ SessionsBegun'
    BY <1>6, <2>1
      DEF Decline, Saves, SaveFails, StoreWorks, StoreRefuses, StoreInterrupted,
          OnlyMySQLIsLate, SessionsBegun, OnlyMoves
  <2>4. StepsBuild'
    BY <1>6, <2>1
      DEF Decline, Saves, SaveFails, StepsBuild, InSession, Asked, SessionKnown,
          OnlyMoves
  <2>5. NothingEarly' /\ RanFailsInStore'
    BY <1>6, <2>1
      DEF Decline, Saves, SaveFails, NothingEarly, RanFailsInStore, OnlyMoves, TypeOK
  <2>6. AnswerHasQuestion'
    BY <1>6, <2>1
      DEF Decline, Saves, SaveFails, AnswerHasQuestion, StepsBuild, Asked, OnlyMoves
  <2>7. ToolHasQuestion' /\ ToolAnswerIsStored'
    BY <1>6, <2>1
      DEF Decline, Saves, SaveFails, ToolHasQuestion, ToolAnswerIsStored, StepsBuild,
          OnlyMoves
  <2> QED BY <2>2, <2>3, <2>4, <2>5, <2>6, <2>7
<1>7. ASSUME NEW c \in Chats, ExecuteRefuses(c) PROVE ChatInv'
  <2>1. OnlyMoves(c)
    BY <1>7 DEF ExecuteRefuses, OnlyMoves
  <2>2. OneWaits'
    <3>1. pc[c] = "idle" => MayAsk(c)
      BY <1>7 DEF ExecuteRefuses
    <3>2. pc[c] # "idle" /\ GaveUp(c) => GaveUp(c)'
      BY <1>7 DEF ExecuteRefuses, GaveUp
    <3> QED BY <2>1, <3>1, <3>2, StepsWait
  <2>3. OnlyMySQLIsLate' /\ SessionsBegun'
    BY <1>7, <2>1 DEF ExecuteRefuses, OnlyMySQLIsLate, SessionsBegun, OnlyMoves
  <2>4. StepsBuild'
    BY <1>7, <2>1
      DEF ExecuteRefuses, StepsBuild, InSession, Asked, SessionKnown, OnlyMoves
  <2>5. NothingEarly' /\ RanFailsInStore'
    BY <1>7, <2>1 DEF ExecuteRefuses, NothingEarly, RanFailsInStore, OnlyMoves
  <2>6. AnswerHasQuestion'
    BY <1>7, <2>1 DEF ExecuteRefuses, AnswerHasQuestion, OnlyMoves
  <2>7. ToolHasQuestion' /\ ToolAnswerIsStored'
    BY <1>7, <2>1 DEF ExecuteRefuses, ToolHasQuestion, ToolAnswerIsStored, OnlyMoves
  <2> QED BY <2>2, <2>3, <2>4, <2>5, <2>6, <2>7
<1>8. ASSUME NEW c \in Chats, ExecuteStarts(c) PROVE ChatInv'
  <2>1. OnlyMoves(c)
    BY <1>8 DEF ExecuteStarts, OnlyMoves
  <2>2. OneWaits'
    <3>1. pc[c] = "idle" => MayAsk(c)
      BY <1>8 DEF ExecuteStarts
    <3>2. pc[c] # "idle" /\ GaveUp(c) => GaveUp(c)'
      BY <1>8 DEF ExecuteStarts, GaveUp
    <3> QED BY <2>1, <3>1, <3>2, StepsWait
  <2>3. OnlyMySQLIsLate' /\ SessionsBegun'
    BY <1>8, <2>1 DEF ExecuteStarts, OnlyMySQLIsLate, SessionsBegun, OnlyMoves
  <2>4. StepsBuild'
    BY <1>8, <2>1
      DEF ExecuteStarts, StepsBuild, InSession, Asked, SessionKnown, OnlyMoves
  <2>5. NothingEarly' /\ RanFailsInStore'
    BY <1>8, <2>1 DEF ExecuteStarts, NothingEarly, RanFailsInStore, OnlyMoves, TypeOK
  <2>6. AnswerHasQuestion'
    BY <1>8, <2>1 DEF ExecuteStarts, AnswerHasQuestion, OnlyMoves
  <2>7. ToolHasQuestion' /\ ToolAnswerIsStored'
    BY <1>8, <2>1
      DEF ExecuteStarts, ToolHasQuestion, ToolAnswerIsStored, StepsBuild, Asked,
          OnlyMoves
  <2> QED BY <2>2, <2>3, <2>4, <2>5, <2>6, <2>7
<1>9. ASSUME NEW c \in Chats, ExecuteReturns(c) PROVE ChatInv'
  <2>1. OnlyMoves(c)
    BY <1>9 DEF ExecuteReturns, OnlyMoves
  <2>2. OneWaits'
    <3>1. pc[c] = "idle" => MayAsk(c)
      BY <1>9 DEF ExecuteReturns
    <3>2. pc[c] # "idle" /\ GaveUp(c) => GaveUp(c)'
      BY <1>9 DEF ExecuteReturns, GaveUp
    <3> QED BY <2>1, <3>1, <3>2, StepsWait
  <2>3. OnlyMySQLIsLate' /\ SessionsBegun'
    BY <1>9, <2>1 DEF ExecuteReturns, OnlyMySQLIsLate, SessionsBegun, OnlyMoves
  <2>4. StepsBuild'
    BY <1>9, <2>1
      DEF ExecuteReturns, StepsBuild, InSession, Asked, SessionKnown, OnlyMoves
  <2>5. NothingEarly' /\ RanFailsInStore'
    BY <1>9, <2>1 DEF ExecuteReturns, NothingEarly, RanFailsInStore, OnlyMoves
  <2>6. AnswerHasQuestion'
    BY <1>9, <2>1 DEF ExecuteReturns, AnswerHasQuestion, OnlyMoves
  <2>7. ToolHasQuestion' /\ ToolAnswerIsStored'
    BY <1>9, <2>1 DEF ExecuteReturns, ToolHasQuestion, ToolAnswerIsStored, OnlyMoves
  <2> QED BY <2>2, <2>3, <2>4, <2>5, <2>6, <2>7
<1>10. ASSUME NEW c \in Chats, FinalAnswer(c) PROVE ChatInv'
  <2>1. OnlyMoves(c)
    BY <1>10, FinalAnswerMoves DEF OnlyMoves, TypeOK
  <2>2. OneWaits'
    <3>1. pc[c] = "idle" => MayAsk(c)
      BY <1>10, FinalAnswerMoves
    <3>2. pc[c] # "idle" /\ GaveUp(c) => GaveUp(c)'
      BY <1>10, FinalAnswerMoves DEF GaveUp
    <3> QED BY <2>1, <3>1, <3>2, StepsWait
  <2>3. OnlyMySQLIsLate' /\ SessionsBegun'
    BY <1>10, FinalAnswerMoves, <2>1
      DEF OnlyMySQLIsLate, SessionsBegun, OnlyMoves, TypeOK
  <2>4. StepsBuild'
    BY <1>10, FinalAnswerMoves, <2>1
      DEF StepsBuild, InSession, Asked, SessionKnown, OnlyMoves, TypeOK
  <2>5. NothingEarly' /\ RanFailsInStore'
    BY <1>10, FinalAnswerMoves, <2>1
      DEF NothingEarly, RanFailsInStore, OnlyMoves, TypeOK
  <2>6. AnswerHasQuestion'
    BY <1>10, FinalAnswerMoves, <2>1 DEF AnswerHasQuestion, OnlyMoves
  <2>7. ToolHasQuestion' /\ ToolAnswerIsStored'
    BY <1>10, FinalAnswerMoves, <2>1
      DEF ToolHasQuestion, ToolAnswerIsStored, NothingEarly, OnlyMoves
  <2> QED BY <2>2, <2>3, <2>4, <2>5, <2>6, <2>7
<1>11. ASSUME NEW c \in Chats, SaveAnswer(c) PROVE ChatInv'
  <2>1. OnlyMoves(c)
    BY <1>11 DEF SaveAnswer, OnlyMoves, TypeOK
  <2>2. OneWaits'
    <3>1. pc[c] = "idle" => MayAsk(c)
      BY <1>11 DEF SaveAnswer
    <3>2. pc[c] # "idle" /\ GaveUp(c) => GaveUp(c)'
      BY <1>11 DEF SaveAnswer, GaveUp, NothingEarly
    <3> QED BY <2>1, <3>1, <3>2, StepsWait
  <2>3. OnlyMySQLIsLate' /\ SessionsBegun'
    BY <1>11, <2>1
      DEF SaveAnswer, Saves, SaveFails, StoreWorks, StoreRefuses, StoreInterrupted,
          OnlyMySQLIsLate, SessionsBegun, OnlyMoves, TypeOK
  <2>4. StepsBuild'
    BY <1>11, <2>1
      DEF SaveAnswer, Saves, SaveFails, StepsBuild, InSession, Asked, SessionKnown,
          OnlyMoves, TypeOK
  <2>5. NothingEarly' /\ RanFailsInStore'
    BY <1>11, <2>1
      DEF SaveAnswer, Saves, SaveFails, NothingEarly, RanFailsInStore, OnlyMoves,
          TypeOK
  <2>6. AnswerHasQuestion'
    BY <1>11, <2>1
      DEF SaveAnswer, Saves, SaveFails, AnswerHasQuestion, StepsBuild, Asked, OnlyMoves
  <2>7. ToolHasQuestion' /\ ToolAnswerIsStored'
    BY <1>11, <2>1
      DEF SaveAnswer, Saves, SaveFails, ToolHasQuestion, ToolAnswerIsStored,
          StepsBuild, Asked, OnlyMoves, TypeOK
  <2> QED BY <2>2, <2>3, <2>4, <2>5, <2>6, <2>7
<1>12. ASSUME NEW c \in Chats, Disconnect(c) PROVE ChatInv'
  <2>1. OnlyMoves(c)
    BY <1>12 DEF Disconnect, OnlyMoves
  <2>2. OneWaits'
    <3>1. pc[c] = "idle" => MayAsk(c)
      BY <1>12 DEF Disconnect, InProgress
    <3>2. pc[c] # "idle" /\ GaveUp(c) => GaveUp(c)'
      BY <1>12 DEF Disconnect, GaveUp
    <3> QED BY <2>1, <3>1, <3>2, StepsWait
  <2>3. OnlyMySQLIsLate' /\ SessionsBegun'
    BY <1>12, <2>1 DEF Disconnect, OnlyMySQLIsLate, SessionsBegun, OnlyMoves
  <2>4. StepsBuild'
    BY <1>12, <2>1 DEF Disconnect, StepsBuild, SessionKnown, OnlyMoves
  <2>5. NothingEarly' /\ RanFailsInStore'
    BY <1>12, <2>1 DEF Disconnect, NothingEarly, RanFailsInStore, OnlyMoves
  <2>6. AnswerHasQuestion'
    BY <1>12, <2>1 DEF Disconnect, AnswerHasQuestion, OnlyMoves
  <2>7. ToolHasQuestion' /\ ToolAnswerIsStored'
    BY <1>12, <2>1 DEF Disconnect, ToolHasQuestion, ToolAnswerIsStored, OnlyMoves
  <2> QED BY <2>2, <2>3, <2>4, <2>5, <2>6, <2>7
<1>13. ASSUME NEW r \in lost, Land(r) PROVE ChatInv'
  <2>1. OnlyMySQLIsLate' /\ SessionsBegun' /\ StepsBuild' /\ RanFailsInStore'
    BY <1>13
      DEF Land, OnlyMySQLIsLate, SessionsBegun, StepsBuild, SessionKnown,
          RanFailsInStore
  <2>2. NothingEarly' /\ OneWaits'
    BY <1>13 DEF Land, NothingEarly, OneWaits, GaveUp
  <2>3. AnswerHasQuestion'
    BY <1>13 DEF Land, AnswerHasQuestion
  <2>4. ToolHasQuestion' /\ ToolAnswerIsStored'
    BY <1>13 DEF Land, ToolHasQuestion, ToolAnswerIsStored
  <2> QED BY <2>1, <2>2, <2>3, <2>4
<1>14. CASE Restart
  <2>1. \A c \in Chats : pc'[c] = (IF InProgress(c) THEN "gone" ELSE pc[c])
    BY <1>14 DEF Restart
  <2>2. OnlyMySQLIsLate' /\ SessionsBegun'
    BY <1>14, <2>1 DEF Restart, OnlyMySQLIsLate, SessionsBegun
  <2>3. StepsBuild' /\ NothingEarly' /\ RanFailsInStore'
    BY <1>14, <2>1
      DEF Restart, StepsBuild, InSession, Asked, NothingEarly, RanFailsInStore,
          InProgress, TypeOK
  <2>4. OneWaits'
    BY <1>14, <2>1 DEF Restart, OneWaits, GaveUp
  <2>5. AnswerHasQuestion'
    BY <1>14 DEF Restart, AnswerHasQuestion, OnlyMySQLIsLate
  <2>6. ToolHasQuestion' /\ ToolAnswerIsStored'
    BY <1>14 DEF Restart, ToolHasQuestion, ToolAnswerIsStored
  <2> QED BY <2>2, <2>3, <2>4, <2>5, <2>6
<1>15. CASE UNCHANGED vars
  BY <1>15
    DEF vars, OnlyMySQLIsLate, SessionsBegun, StepsBuild, SessionKnown, NothingEarly,
    RanFailsInStore, OneWaits, GaveUp, AnswerHasQuestion, ToolHasQuestion, ToolAnswerIsStored
<1> QED
  BY <1>1, <1>2, <1>3, <1>4, <1>5, <1>6, <1>7, <1>8, <1>9, <1>10, <1>11, <1>12, <1>13,
     <1>14, <1>15
  DEF Next, ChatStep

(* The inductive invariant holds in every reachable state.                 *)
THEOREM ChatInvHolds == Spec => []ChatInv
BY ChatInvInit, ChatInvStep, ChatTypeCorrect, PTL DEF Spec

(* However the store, the model, the client and the process fail, the      *)
(* transcript of a session tells what happened in it.                      *)
THEOREM TranscriptNeverLies == Spec => []TranscriptIsTrue
<1>1. ChatInv => TranscriptIsTrue
  BY DEF ChatInv
<1> QED BY <1>1, ChatInvHolds, PTL

(* For any number of calls and questions, a tool runs twice for a question *)
(* only if an answer was lost: no error of the model is the reason.        *)
THEOREM NoSecondRunWithoutLoss == Spec => []RunsAgainOnlyIfAnswerLost
<1>1. TypeOK /\ ChatInv => RunsAgainOnlyIfAnswerLost
  <2> SUFFICES ASSUME TypeOK, ChatInv, NEW c \in ran, NEW d \in ran \ {c},
                      Question[c] = Question[d]
               PROVE  \E x \in {c, d} : ctx[x] = "cancelled" \/ pc[x] = "gone" \/ reply[x] = "store"
    BY DEF RunsAgainOnlyIfAnswerLost
  <2>1. c \in Chats /\ d \in Chats \ {c}
    BY DEF TypeOK
  <2>2. pc[c] # "idle" /\ pc[d] # "idle"
    BY <2>1 DEF ChatInv, NothingEarly
  <2>3. GaveUp(c) \/ GaveUp(d)
    BY <2>1, <2>2 DEF ChatInv, OneWaits
  <2> QED BY <2>3 DEF GaveUp, ChatInv, RanFailsInStore
<1> QED BY <1>1, ChatTypeCorrect, ChatInvHolds, PTL
=============================================================================
