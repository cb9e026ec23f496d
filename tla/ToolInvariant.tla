--------------------------- MODULE ToolInvariant ---------------------------
(* The inductive invariant behind the properties of ToolCall.              *)
EXTENDS ToolCall

(* A call has no answer, result or count before it ends, and no audit row, *)
(* stored or on its way, before it is done.                                *)
NothingYet ==
  \A c \in Calls :
    /\ pc[c] \notin {"audit", "done"} =>
         result[c] = "none" /\ err[c] = "nil" /\ counted[c] = "none"
    /\ pc[c] # "done" =>
         audit[c] = "none" /\ \A s \in Status : AuditWrite(c, s) \notin lost

(* Only a call past the policy has run its tool, and such a call left no   *)
(* trace of a denial.                                                      *)
RunOrDenied ==
  \A c \in Calls :
    /\ pc[c] \in {"idle", "check", "reject"} => c \notin ran
    /\ pc[c] \in {"idle", "check", "reject"} \/ c \in ran =>
         ~rejected[c] /\ RejectWrite(c) \notin lost /\ err[c] # "reason"
    /\ pc[c] = "tool" \/ result[c] # "none" => c \in ran
    /\ err[c] = "reason" => rejected[c]

(* The metrics and the audit, stored or on its way, follow the result.     *)
OneStory ==
  \A c \in Calls :
    /\ {counted[c], audit[c]} \subseteq {"none", AuditStatus(c)}
    /\ \A s \in Status : AuditWrite(c, s) \in lost => s = AuditStatus(c)

(* The error follows the result, and no error means an audit row.          *)
AnswerOfResult ==
  \A c \in Calls :
    /\ pc[c] = "audit" /\ err[c] = "nil" => result[c] = "success"
    /\ pc[c] = "done" /\ err[c] = "nil" => audit[c] = "success"
    /\ err[c] = "timeout" => toolCtx[c] = "deadline" /\ result[c] # "success"

ToolInv == NothingYet /\ RunOrDenied /\ OneStory /\ AnswerOfResult
=============================================================================
