------------------------------ MODULE ToolCall ------------------------------
(***************************************************************************)
(* GatewayExecutor.Execute of internal/executor/executor.go, for calls     *)
(* made over HTTP: lookup, validation, policy, the tool under a deadline   *)
(* and a recover, the metrics, and the deferred audit write.               *)
(*                                                                         *)
(* Every store call and the tool run under the context of the request,     *)
(* which net/http cancels when the client goes away.  MySQL refuses a      *)
(* write under a cancelled context; a write it was interrupted in may or   *)
(* may not be applied.  MemoryStore looks at no context and never fails.   *)
(*                                                                         *)
(* Not modelled: an error or an empty reason from policies.Check, which    *)
(* Engine.Check never returns.                                             *)
(***************************************************************************)
EXTENDS FiniteSets

CONSTANTS Calls,    \* the calls of Execute
          Durable,  \* TRUE: MySQLStore, FALSE: MemoryStore
          Faults    \* what may go wrong: "store", "disconnect"

ASSUME DurableAssumption == Durable \in BOOLEAN
ASSUME FaultsAssumption ==
  Faults \subseteq {"store", "disconnect"} /\ ("store" \in Faults => Durable)

VARIABLES
  pc,        \* pc[c]: where call c is
  ctx,       \* ctx[c]: the context of its request
  toolCtx,   \* toolCtx[c]: the error of the context of its tool
  result,    \* result[c]: how its tool ended
  err,       \* err[c]: the error of Execute
  rejected,  \* rejected[c]: its row in policy_reject_logs is there
  audit,     \* audit[c]: the status in its row of agent_tool_calls
  counted,   \* counted[c]: the status ToolCalls was incremented for
  lost,      \* writes that returned an error and may still be applied
  ran        \* history: calls whose tool was started

vars == <<pc, ctx, toolCtx, result, err, rejected, audit, counted, lost, ran>>
-----------------------------------------------------------------------------
CallState == {"idle", "check", "reject", "tool", "audit", "done"}

\* A soft failure is a result whose Success is false.
Outcome == {"success", "soft", "error", "panic", "nil"}

Error == {"nil", "refused", "reason", "not_saved", "timeout", "failed"}

Status == {"none", "success", "failed"}

Write == [table : {"reject"}, call : Calls]
         \cup [table : {"audit"}, call : Calls, status : {"success", "failed"}]

RejectWrite(c) == [table |-> "reject", call |-> c]

AuditWrite(c, s) == [table |-> "audit", call |-> c, status |-> s]

Init ==
  /\ pc = [c \in Calls |-> "idle"]
  /\ ctx = [c \in Calls |-> "live"]
  /\ toolCtx = [c \in Calls |-> "nil"]
  /\ result = [c \in Calls |-> "none"]
  /\ err = [c \in Calls |-> "nil"]
  /\ rejected = [c \in Calls |-> FALSE]
  /\ audit = [c \in Calls |-> "none"]
  /\ counted = [c \in Calls |-> "none"]
  /\ lost = {}
  /\ ran = {}
-----------------------------------------------------------------------------
storeVars == <<rejected, audit, lost>>
toolVars == <<toolCtx, result, counted, ran>>

Goes(c, from, to) == pc[c] = from /\ pc' = [pc EXCEPT ![c] = to]

(* Execute has its answer e; what is left is the deferred audit.           *)
Answer(c, from, e) == Goes(c, from, "audit") /\ err' = [err EXCEPT ![c] = e]

(* The store applies a write, refuses it, or is interrupted in it by a     *)
(* fault of its own, a timeout or the client's leaving.                    *)
StoreWorks(c) == ctx[c] = "live" \/ ~Durable

StoreRefuses(c) == ctx[c] = "cancelled" /\ Durable

StoreInterrupted(c) == ctx[c] = "live" /\ Durable /\ Faults # {}

(* A failed write: nothing is stored, but an interrupted one may come.     *)
WriteFails(c, w) ==
  /\ \/ StoreRefuses(c) /\ UNCHANGED lost
     \/ StoreInterrupted(c) /\ lost' = lost \cup {w}
  /\ UNCHANGED <<rejected, audit>>

(* Mutant: the audit row has a status word of its own for a timeout.       *)
AuditStatusTimeout(c) ==
  IF result[c] = "success" THEN "success"
  ELSE IF err[c] = "timeout" THEN "timeout" ELSE "failed"

(* The audit starts as failed and is a success only for a good result.     *)
AuditStatus(c) == IF result[c] = "success" THEN "success" ELSE "failed"

(* Mutant: any error of the tool's context is reported as a timeout.       *)
ToolErrorAnyCause(c, out) ==
  CASE out = "success" -> "nil"
    [] out \in {"error", "panic"} /\ toolCtx[c] # "nil" -> "timeout"
    [] OTHER -> "failed"

(* The error for each outcome of the tool; a panic is recovered into one.  *)
ToolError(c, out) ==
  CASE out = "success" -> "nil"
    [] out \in {"error", "panic"} /\ toolCtx[c] = "deadline" -> "timeout"
    [] OTHER -> "failed"
-----------------------------------------------------------------------------
(* The registry has no such tool or the input does not fit its schema.     *)
Refuse(c) ==
  /\ Answer(c, "idle", "refused")
  /\ UNCHANGED <<ctx, toolVars, storeVars>>

(* Lookup and validation pass.                                             *)
Validate(c) ==
  /\ Goes(c, "idle", "check")
  /\ UNCHANGED <<ctx, err, toolVars, storeVars>>

(* The policy denies: first a row in the reject log.                       *)
Deny(c) ==
  /\ Goes(c, "check", "reject")
  /\ UNCHANGED <<ctx, err, toolVars, storeVars>>

SaveReject(c) ==
  /\ StoreWorks(c)
  /\ Answer(c, "reject", "reason")
  /\ rejected' = [rejected EXCEPT ![c] = TRUE]
  /\ UNCHANGED <<ctx, audit, lost, toolVars>>

SaveRejectFailsOpen(c) ==
  /\ WriteFails(c, RejectWrite(c))
  /\ Goes(c, "reject", "tool")
  /\ ran' = ran \cup {c}
  /\ UNCHANGED <<ctx, err, toolCtx, result, counted>>

SaveRejectFails(c) ==
  /\ WriteFails(c, RejectWrite(c))
  /\ Answer(c, "reject", "not_saved")
  /\ UNCHANGED <<ctx, toolVars>>

(* The policy allows: the tool starts, in a context of its own that        *)
(* inherits a cancellation.                                                *)
StartTool(c) ==
  /\ Goes(c, "check", "tool")
  /\ toolCtx' = [toolCtx EXCEPT ![c] = IF ctx[c] = "live" THEN "nil" ELSE "cancelled"]
  /\ ran' = ran \cup {c}
  /\ UNCHANGED <<ctx, err, result, counted, storeVars>>

(* The tool's timeout passes; the tool is told, and answers when it likes. *)
Deadline(c) ==
  /\ pc[c] = "tool"
  /\ toolCtx[c] = "nil"
  /\ toolCtx' = [toolCtx EXCEPT ![c] = "deadline"]
  /\ UNCHANGED <<pc, ctx, result, err, counted, ran, storeVars>>

(* Mutant: a panic is not recovered.                                       *)
ToolReturnsPanic(c) ==
  \E out \in Outcome :
    /\ IF out = "panic"
       THEN Goes(c, "tool", "crashed") /\ UNCHANGED err
       ELSE Answer(c, "tool", ToolError(c, out))
    /\ result' = [result EXCEPT ![c] = out]
    /\ counted' = [counted EXCEPT ![c] = IF out = "success" THEN "success" ELSE "failed"]
    /\ UNCHANGED <<ctx, toolCtx, ran, storeVars>>

(* The tool ends one way or another, and the call is counted.              *)
ToolReturns(c) ==
  \E out \in Outcome :
    /\ Answer(c, "tool", ToolError(c, out))
    /\ result' = [result EXCEPT ![c] = out]
    /\ counted' = [counted EXCEPT ![c] = IF out = "success" THEN "success" ELSE "failed"]
    /\ UNCHANGED <<ctx, toolCtx, ran, storeVars>>

(* The deferred saveAudit.                                                 *)
SaveAudit(c) ==
  /\ StoreWorks(c)
  /\ Goes(c, "audit", "done")
  /\ audit' = [audit EXCEPT ![c] = AuditStatus(c)]
  /\ UNCHANGED <<ctx, err, rejected, lost, toolVars>>

(* Mutant: the error of saveAudit is dropped.                              *)
SaveAuditFailsSilently(c) ==
  /\ WriteFails(c, AuditWrite(c, AuditStatus(c)))
  /\ Goes(c, "audit", "done")
  /\ UNCHANGED <<ctx, err, toolVars>>

(* An error of saveAudit becomes the error of a call that had none.        *)
SaveAuditFails(c) ==
  /\ WriteFails(c, AuditWrite(c, AuditStatus(c)))
  /\ Goes(c, "audit", "done")
  /\ err' = [err EXCEPT ![c] = IF @ = "nil" THEN "not_saved" ELSE @]
  /\ UNCHANGED <<ctx, toolVars>>

(* The client goes away: the contexts derived from its request end.        *)
Disconnect(c) ==
  /\ "disconnect" \in Faults
  /\ pc[c] \notin {"idle", "done"}
  /\ ctx[c] = "live"
  /\ ctx' = [ctx EXCEPT ![c] = "cancelled"]
  /\ toolCtx' = [toolCtx EXCEPT ![c] =
       IF pc[c] = "tool" /\ @ = "nil" THEN "cancelled" ELSE @]
  /\ UNCHANGED <<pc, result, err, counted, ran, storeVars>>

(* The database applies an interrupted write after all.                    *)
Land(w) ==
  /\ lost' = lost \ {w}
  /\ IF w.table = "reject"
     THEN rejected' = [rejected EXCEPT ![w.call] = TRUE] /\ UNCHANGED audit
     ELSE audit' = [audit EXCEPT ![w.call] = w.status] /\ UNCHANGED rejected
  /\ UNCHANGED <<pc, ctx, err, toolVars>>

CallStep(c) ==
  \/ Refuse(c) \/ Validate(c) \/ Deny(c) \/ SaveReject(c) \/ SaveRejectFails(c)
  \/ StartTool(c) \/ ToolReturns(c) \/ SaveAudit(c) \/ SaveAuditFails(c)

Next ==
  \/ \E c \in Calls : CallStep(c) \/ Deadline(c) \/ Disconnect(c)
  \/ \E w \in lost : Land(w)

Spec == Init /\ [][Next]_vars

(* A call that has begun goes on, and every tool returns in the end.       *)
FairSpec == Spec /\ \A c \in Calls : WF_vars(pc[c] # "idle" /\ CallStep(c))
-----------------------------------------------------------------------------
(* Properties. *)

TypeOK ==
  /\ pc \in [Calls -> CallState]
  /\ ctx \in [Calls -> {"live", "cancelled"}]
  /\ toolCtx \in [Calls -> {"nil", "deadline", "cancelled"}]
  /\ result \in [Calls -> Outcome \cup {"none"}]
  /\ err \in [Calls -> Error]
  /\ rejected \in [Calls -> BOOLEAN]
  /\ audit \in [Calls -> Status]
  /\ counted \in [Calls -> Status]
  /\ lost \subseteq Write
  /\ ran \subseteq Calls

(* The audit log tells the truth, however late its rows are applied: a     *)
(* success row stands for a tool that ran and succeeded, a failed row for  *)
(* any other end of the call, and the metrics never say otherwise.         *)
AuditIsTrue ==
  \A c \in Calls : audit[c] # "none" =>
    /\ audit[c] = "success" <=> c \in ran /\ result[c] = "success"
    /\ counted[c] # "none" => counted[c] = audit[c]

(* A caller is told of success only for a call with a success audit row.   *)
SuccessIsAudited ==
  \A c \in Calls : pc[c] = "done" /\ err[c] = "nil" => audit[c] = "success"

(* What a caller is told is on record, and what is on record is true.      *)
AuditHolds == AuditIsTrue /\ SuccessIsAudited

(* A tool never runs for a call that reached the reject log or was told of *)
(* a policy's reason, a failing reject log included; and a caller is told  *)
(* of a reason only if the reject log has it.                              *)
DeniedNeverRuns ==
  /\ \A c \in ran : ~rejected[c] /\ RejectWrite(c) \notin lost /\ err[c] # "reason"
  /\ \A c \in Calls : err[c] = "reason" => rejected[c]

(* A call reported as timed out hit its tool's deadline: the tool of a     *)
(* client that left first is not one.                                      *)
TimeoutIsDeadline ==
  \A c \in Calls : err[c] = "timeout" => toolCtx[c] = "deadline" /\ audit[c] # "success"

(* Every call that begins returns to its caller.                           *)
CallReturns == \A c \in Calls : pc[c] # "idle" ~> pc[c] = "done"

(* docs/architecture.md: every tool call goes through audit logging, so a  *)
(* call whose tool ran has its row when it has returned, also when its     *)
(* client has left: no write of such a call is still under way.            *)
EveryCallAudited ==
  \A c \in ran :
    pc[c] = "done" /\ ctx[c] = "cancelled" /\ (\A w \in lost : w.call # c) => audit[c] # "none"
=============================================================================
