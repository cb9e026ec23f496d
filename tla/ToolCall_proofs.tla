--------------------------- MODULE ToolCall_proofs ---------------------------
(* Theorems of ToolCall, for any number of calls, either store and any     *)
(* faults.                                                                 *)
EXTENDS ToolInvariant, TLAPS

(* A reject write and an audit write are never the same write, and a write *)
(* is told by its fields.                                                  *)
LEMMA WritesDiffer ==
  ASSUME NEW c, NEW d, NEW s, NEW r
  PROVE  /\ RejectWrite(c) # AuditWrite(d, s)
         /\ RejectWrite(c) = RejectWrite(d) => c = d
         /\ AuditWrite(c, s) = AuditWrite(d, r) => c = d /\ s = r
<1>1. RejectWrite(c).table = "reject" /\ AuditWrite(d, s).table = "audit"
  BY DEF RejectWrite, AuditWrite
<1>2. RejectWrite(c).call = c /\ RejectWrite(d).call = d
  BY DEF RejectWrite
<1>3. /\ AuditWrite(c, s).call = c /\ AuditWrite(d, r).call = d
      /\ AuditWrite(c, s).status = s /\ AuditWrite(d, r).status = r
  BY DEF AuditWrite
<1> QED BY <1>1, <1>2, <1>3

(* The write of a denial or of an audit is one of Write.                   *)
LEMMA WritesTyped ==
  ASSUME NEW c \in Calls
  PROVE  RejectWrite(c) \in Write /\ AuditWrite(c, AuditStatus(c)) \in Write
BY DEF RejectWrite, AuditWrite, AuditStatus, Write

(* Every write is a denial's or an audit's.                                *)
LEMMA WriteShape ==
  ASSUME NEW w \in Write
  PROVE  /\ w.call \in Calls
         /\ w.table \in {"reject", "audit"}
         /\ w.table = "reject" => w = RejectWrite(w.call)
         /\ w.table # "reject" =>
              w.status \in {"success", "failed"} /\ w = AuditWrite(w.call, w.status)
<1>1. CASE w \in [table : {"reject"}, call : Calls]
  BY <1>1 DEF RejectWrite
<1>2. CASE w \in [table : {"audit"}, call : Calls, status : {"success", "failed"}]
  BY <1>2 DEF AuditWrite
<1> QED BY <1>1, <1>2 DEF Write

(* A write that fails keeps the type of the store's part of the state.     *)
LEMMA WriteFailsType ==
  ASSUME TypeOK, NEW c, NEW w \in Write, WriteFails(c, w)
  PROVE  /\ rejected' = rejected /\ audit' = audit
         /\ lost' \in {lost, lost \cup {w}}
         /\ lost' \subseteq Write
BY DEF WriteFails, TypeOK

(* Every step keeps the type.                                              *)
LEMMA ToolTypeStep == TypeOK /\ [Next]_vars => TypeOK'
<1> SUFFICES ASSUME TypeOK, [Next]_vars PROVE TypeOK'
  OBVIOUS
<1> USE WritesTyped, WriteFailsType DEF TypeOK, CallState, Outcome, Error, Status, storeVars, toolVars
<1>1. ASSUME NEW c \in Calls, Refuse(c) PROVE TypeOK'
  BY <1>1 DEF Refuse, Answer, Goes
<1>2. ASSUME NEW c \in Calls, Validate(c) PROVE TypeOK'
  BY <1>2 DEF Validate, Goes
<1>3. ASSUME NEW c \in Calls, Deny(c) PROVE TypeOK'
  BY <1>3 DEF Deny, Goes
<1>4. ASSUME NEW c \in Calls, SaveReject(c) PROVE TypeOK'
  BY <1>4 DEF SaveReject, Answer, Goes
<1>5. ASSUME NEW c \in Calls, SaveRejectFails(c) PROVE TypeOK'
  BY <1>5 DEF SaveRejectFails, Answer, Goes
<1>6. ASSUME NEW c \in Calls, StartTool(c) PROVE TypeOK'
  BY <1>6 DEF StartTool, Goes
<1>7. ASSUME NEW c \in Calls, ToolReturns(c) PROVE TypeOK'
  BY <1>7 DEF ToolReturns, Answer, ToolError, Goes
<1>8. ASSUME NEW c \in Calls, SaveAudit(c) PROVE TypeOK'
  BY <1>8 DEF SaveAudit, AuditStatus, Goes
<1>9. ASSUME NEW c \in Calls, SaveAuditFails(c) PROVE TypeOK'
  BY <1>9 DEF SaveAuditFails, Goes
<1>10. ASSUME NEW c \in Calls, Deadline(c) PROVE TypeOK'
  BY <1>10 DEF Deadline
<1>11. ASSUME NEW c \in Calls, Disconnect(c) PROVE TypeOK'
  BY <1>11 DEF Disconnect
<1>12. ASSUME NEW w \in lost, Land(w) PROVE TypeOK'
  <2>1. w \in Write
    BY <1>12
  <2>2. w.call \in Calls /\ (w.table # "reject" => w.status \in {"success", "failed"})
    BY <2>1, WriteShape
  <2>3. CASE w.table = "reject"
    BY <1>12, <2>2, <2>3 DEF Land
  <2>4. CASE w.table # "reject"
    BY <1>12, <2>2, <2>4 DEF Land
  <2> QED BY <2>3, <2>4
<1>13. ASSUME UNCHANGED vars PROVE TypeOK'
  BY <1>13 DEF vars
<1> QED
  BY <1>1, <1>2, <1>3, <1>4, <1>5, <1>6, <1>7, <1>8, <1>9, <1>10, <1>11, <1>12, <1>13
  DEF Next, CallStep

(* Every variable has its type in every reachable state.                   *)
THEOREM ToolTypeCorrect == Spec => []TypeOK
<1>1. Init => TypeOK
  BY DEF Init, TypeOK, CallState, Outcome, Error, Status
<1> QED BY <1>1, ToolTypeStep, PTL DEF Spec
-----------------------------------------------------------------------------
(* The four parts of the invariant, kept by every step.                    *)
LEMMA ToolInvStep == TypeOK /\ ToolInv /\ [Next]_vars => ToolInv'
<1> SUFFICES ASSUME TypeOK, ToolInv, [Next]_vars PROVE ToolInv'
  OBVIOUS
<1> USE WritesDiffer DEF TypeOK, ToolInv, storeVars, toolVars
<1>1. ASSUME NEW c \in Calls, Refuse(c) PROVE ToolInv'
  <2>1. NothingYet'
    BY <1>1 DEF Refuse, Answer, Goes, NothingYet
  <2>2. RunOrDenied'
    BY <1>1 DEF Refuse, Answer, Goes, RunOrDenied, NothingYet
  <2>3. OneStory'
    BY <1>1 DEF Refuse, Answer, Goes, OneStory, AuditStatus, NothingYet
  <2>4. AnswerOfResult'
    BY <1>1 DEF Refuse, Answer, Goes, AnswerOfResult, OneStory, AuditStatus, NothingYet
  <2> QED BY <2>1, <2>2, <2>3, <2>4
<1>2. ASSUME NEW c \in Calls, Validate(c) PROVE ToolInv'
  <2>1. NothingYet'
    BY <1>2 DEF Validate, Goes, NothingYet
  <2>2. RunOrDenied'
    BY <1>2 DEF Validate, Goes, RunOrDenied, NothingYet
  <2>3. OneStory'
    BY <1>2 DEF Validate, Goes, OneStory, AuditStatus, NothingYet
  <2>4. AnswerOfResult'
    BY <1>2 DEF Validate, Goes, AnswerOfResult, OneStory, AuditStatus, NothingYet
  <2> QED BY <2>1, <2>2, <2>3, <2>4
<1>3. ASSUME NEW c \in Calls, Deny(c) PROVE ToolInv'
  <2>1. NothingYet'
    BY <1>3 DEF Deny, Goes, NothingYet
  <2>2. RunOrDenied'
    BY <1>3 DEF Deny, Goes, RunOrDenied, NothingYet
  <2>3. OneStory'
    BY <1>3 DEF Deny, Goes, OneStory, AuditStatus, NothingYet
  <2>4. AnswerOfResult'
    BY <1>3 DEF Deny, Goes, AnswerOfResult, OneStory, AuditStatus, NothingYet
  <2> QED BY <2>1, <2>2, <2>3, <2>4
<1>4. ASSUME NEW c \in Calls, SaveReject(c) PROVE ToolInv'
  <2>1. NothingYet'
    BY <1>4 DEF SaveReject, Answer, Goes, NothingYet
  <2>2. RunOrDenied'
    BY <1>4 DEF SaveReject, Answer, Goes, RunOrDenied, NothingYet
  <2>3. OneStory'
    BY <1>4 DEF SaveReject, Answer, Goes, OneStory, AuditStatus, NothingYet
  <2>4. AnswerOfResult'
    BY <1>4 DEF SaveReject, Answer, Goes, AnswerOfResult, OneStory, AuditStatus, NothingYet
  <2> QED BY <2>1, <2>2, <2>3, <2>4
<1>5. ASSUME NEW c \in Calls, SaveRejectFails(c) PROVE ToolInv'
  <2>1. NothingYet'
    BY <1>5 DEF SaveRejectFails, WriteFails, Answer, Goes, NothingYet
  <2>2. RunOrDenied'
    BY <1>5 DEF SaveRejectFails, WriteFails, Answer, Goes, RunOrDenied, NothingYet
  <2>3. OneStory'
    BY <1>5 DEF SaveRejectFails, WriteFails, Answer, Goes, OneStory, AuditStatus, NothingYet
  <2>4. AnswerOfResult'
    BY <1>5 DEF SaveRejectFails, WriteFails, Answer, Goes, AnswerOfResult, OneStory, AuditStatus, NothingYet
  <2> QED BY <2>1, <2>2, <2>3, <2>4
<1>6. ASSUME NEW c \in Calls, StartTool(c) PROVE ToolInv'
  <2>1. NothingYet'
    BY <1>6 DEF StartTool, Goes, NothingYet
  <2>2. RunOrDenied'
    BY <1>6 DEF StartTool, Goes, RunOrDenied, NothingYet
  <2>3. OneStory'
    BY <1>6 DEF StartTool, Goes, OneStory, AuditStatus, NothingYet
  <2>4. AnswerOfResult'
    BY <1>6 DEF StartTool, Goes, AnswerOfResult, OneStory, AuditStatus, NothingYet
  <2> QED BY <2>1, <2>2, <2>3, <2>4
<1>7. ASSUME NEW c \in Calls, ToolReturns(c) PROVE ToolInv'
  <2>1. NothingYet'
    BY <1>7 DEF ToolReturns, Answer, ToolError, Goes, NothingYet
  <2>2. RunOrDenied'
    BY <1>7 DEF ToolReturns, Answer, ToolError, Goes, RunOrDenied, NothingYet
  <2>3. OneStory'
    BY <1>7 DEF ToolReturns, Answer, ToolError, Goes, OneStory, AuditStatus, NothingYet
  <2>4. AnswerOfResult'
    BY <1>7 DEF ToolReturns, Answer, ToolError, Goes, AnswerOfResult, OneStory, AuditStatus, NothingYet
  <2> QED BY <2>1, <2>2, <2>3, <2>4
<1>8. ASSUME NEW c \in Calls, SaveAudit(c) PROVE ToolInv'
  <2>1. NothingYet'
    BY <1>8 DEF SaveAudit, Goes, NothingYet
  <2>2. RunOrDenied'
    BY <1>8 DEF SaveAudit, Goes, RunOrDenied, NothingYet
  <2>3. OneStory'
    BY <1>8 DEF SaveAudit, Goes, OneStory, AuditStatus, NothingYet
  <2>4. AnswerOfResult'
    BY <1>8 DEF SaveAudit, Goes, AnswerOfResult, OneStory, AuditStatus, NothingYet
  <2> QED BY <2>1, <2>2, <2>3, <2>4
<1>9. ASSUME NEW c \in Calls, SaveAuditFails(c) PROVE ToolInv'
  <2>1. NothingYet'
    BY <1>9 DEF SaveAuditFails, WriteFails, Goes, NothingYet
  <2>2. RunOrDenied'
    <3>1. \A d \in Calls : err'[d] = "reason" <=> err[d] = "reason"
      BY <1>9 DEF SaveAuditFails
    <3>2. \A d \in Calls : RejectWrite(d) \in lost' => RejectWrite(d) \in lost
      BY <1>9 DEF SaveAuditFails, WriteFails
    <3>3. UNCHANGED <<rejected, ran, result>>
      BY <1>9 DEF SaveAuditFails, WriteFails
    <3>4. pc[c] = "audit" /\ pc' = [pc EXCEPT ![c] = "done"]
      BY <1>9 DEF SaveAuditFails, Goes
    <3> QED BY <3>1, <3>2, <3>3, <3>4 DEF RunOrDenied
  <2>3. OneStory'
    BY <1>9 DEF SaveAuditFails, WriteFails, Goes, OneStory, AuditStatus, NothingYet
  <2>4. AnswerOfResult'
    BY <1>9 DEF SaveAuditFails, WriteFails, Goes, AnswerOfResult, OneStory, AuditStatus, NothingYet
  <2> QED BY <2>1, <2>2, <2>3, <2>4
<1>10. ASSUME NEW c \in Calls, Deadline(c) PROVE ToolInv'
  <2>1. NothingYet'
    BY <1>10 DEF Deadline, NothingYet
  <2>2. RunOrDenied'
    BY <1>10 DEF Deadline, RunOrDenied, NothingYet
  <2>3. OneStory'
    BY <1>10 DEF Deadline, OneStory, AuditStatus, NothingYet
  <2>4. AnswerOfResult'
    BY <1>10 DEF Deadline, AnswerOfResult, OneStory, AuditStatus, NothingYet
  <2> QED BY <2>1, <2>2, <2>3, <2>4
<1>11. ASSUME NEW c \in Calls, Disconnect(c) PROVE ToolInv'
  <2>1. NothingYet'
    BY <1>11 DEF Disconnect, NothingYet
  <2>2. RunOrDenied'
    BY <1>11 DEF Disconnect, RunOrDenied, NothingYet
  <2>3. OneStory'
    BY <1>11 DEF Disconnect, OneStory, AuditStatus, NothingYet
  <2>4. AnswerOfResult'
    BY <1>11 DEF Disconnect, AnswerOfResult, OneStory, AuditStatus, NothingYet
  <2> QED BY <2>1, <2>2, <2>3, <2>4
<1>12. ASSUME NEW w \in lost, Land(w) PROVE ToolInv'
  <2>1. w.call \in Calls /\ lost' = lost \ {w} /\ UNCHANGED <<pc, err, toolVars>>
    BY <1>12, WriteShape DEF Land
  <2>2. CASE w.table = "reject"
    <3>1. w = RejectWrite(w.call) /\ UNCHANGED audit
      BY <1>12, <2>2, WriteShape DEF Land
    <3>2. rejected' = [rejected EXCEPT ![w.call] = TRUE]
      BY <1>12, <2>2 DEF Land
    <3>3. pc[w.call] \notin {"idle", "check", "reject"} /\ w.call \notin ran
      BY <2>1, <3>1 DEF RunOrDenied
    <3>4. NothingYet'
      BY <2>1, <3>1 DEF NothingYet
    <3>5. RunOrDenied'
      BY <2>1, <3>1, <3>2, <3>3 DEF RunOrDenied
    <3>6. OneStory'
      BY <2>1, <3>1 DEF OneStory, AuditStatus
    <3>7. AnswerOfResult'
      BY <2>1, <3>1 DEF AnswerOfResult
    <3> QED BY <3>4, <3>5, <3>6, <3>7
  <2>3. CASE w.table # "reject"
    <3>1. w = AuditWrite(w.call, w.status) /\ UNCHANGED rejected /\ w.status \in Status
      BY <1>12, <2>3, WriteShape DEF Land, Status
    <3>2. audit' = [audit EXCEPT ![w.call] = w.status]
      BY <1>12, <2>3 DEF Land
    <3>3. pc[w.call] = "done"
      BY <2>1, <3>1 DEF NothingYet
    <3>4. w.status = AuditStatus(w.call)
      BY <2>1, <3>1 DEF OneStory
    <3>5. NothingYet'
      BY <2>1, <3>2, <3>3 DEF NothingYet
    <3>6. RunOrDenied'
      BY <2>1, <3>1 DEF RunOrDenied
    <3>7. OneStory'
      BY <2>1, <3>2, <3>4 DEF OneStory, AuditStatus
    <3>8. AnswerOfResult'
      BY <2>1, <3>2, <3>3, <3>4 DEF AnswerOfResult, AuditStatus, OneStory
    <3> QED BY <3>5, <3>6, <3>7, <3>8
  <2> QED BY <2>2, <2>3
<1>13. ASSUME UNCHANGED vars PROVE ToolInv'
  <2>1. NothingYet'
    BY <1>13 DEF vars, NothingYet
  <2>2. RunOrDenied'
    BY <1>13 DEF vars, RunOrDenied, NothingYet
  <2>3. OneStory'
    BY <1>13 DEF vars, OneStory, AuditStatus, NothingYet
  <2>4. AnswerOfResult'
    BY <1>13 DEF vars, AnswerOfResult, OneStory, AuditStatus, NothingYet
  <2> QED BY <2>1, <2>2, <2>3, <2>4
<1> QED
  BY <1>1, <1>2, <1>3, <1>4, <1>5, <1>6, <1>7, <1>8, <1>9, <1>10, <1>11, <1>12, <1>13
  DEF Next, CallStep

(* The inductive invariant holds in every reachable state.                 *)
THEOREM ToolInvHolds == Spec => []ToolInv
<1>1. Init => ToolInv
  BY DEF Init, ToolInv, NothingYet, RunOrDenied, OneStory, AnswerOfResult
<1> QED BY <1>1, ToolInvStep, ToolTypeCorrect, PTL DEF Spec

(* Whatever the store and the clients do, an audit row tells how the call  *)
(* ended, the metrics tell the same, and no caller is told of a success    *)
(* that the audit log does not have.                                       *)
THEOREM AuditIsHeld == Spec => []AuditHolds
<1>1. TypeOK /\ ToolInv => AuditIsTrue
  BY DEF TypeOK, Status, ToolInv, RunOrDenied, OneStory, AuditStatus, AuditIsTrue
<1>2. ToolInv => SuccessIsAudited
  BY DEF ToolInv, AnswerOfResult, SuccessIsAudited
<1>3. TypeOK /\ ToolInv => AuditHolds
  BY <1>1, <1>2 DEF AuditHolds
<1> QED BY <1>3, ToolTypeCorrect, ToolInvHolds, PTL

(* No tool runs for a denied call, even when the reject log cannot be      *)
(* written, and a reason reaches a caller only with a row in that log.     *)
THEOREM DeniedCallsNeverRun == Spec => []DeniedNeverRuns
<1>1. TypeOK /\ ToolInv => DeniedNeverRuns
  BY DEF TypeOK, ToolInv, RunOrDenied, DeniedNeverRuns
<1> QED BY <1>1, ToolTypeCorrect, ToolInvHolds, PTL

(* A call is reported as timed out only if its tool's deadline passed      *)
(* before the client left, and never beside a success row.                 *)
THEOREM TimeoutsAreDeadlines == Spec => []TimeoutIsDeadline
<1>1. ToolInv => TimeoutIsDeadline
  BY DEF ToolInv, AnswerOfResult, OneStory, AuditStatus, TimeoutIsDeadline
<1> QED BY <1>1, ToolInvHolds, PTL
=============================================================================
