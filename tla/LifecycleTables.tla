--------------------------- MODULE LifecycleTables ---------------------------
(***************************************************************************)
(* The transition tables of the compliance workflow engine                 *)
(* (server/workflows/complianceLifecycle.ts).                              *)
(***************************************************************************)

\* One row of a table.  cond says that the row has a conditions predicate,
\* effect names its side effects.
Row(from, action, to, role) ==
  [from |-> from, action |-> action, to |-> to, role |-> role,
   cond |-> FALSE, effect |-> "none"]

Conditional(row) == [row EXCEPT !.cond = TRUE]
Effect(row, e) == [row EXCEPT !.effect = e]

ORG_COMPLIANCE_TRANSITIONS ==
  {Row("draft", "submit_registration", "submitted", "dpco_admin"),
   Row("submitted", "start_review", "under_review", "admin"),
   Effect(Row("under_review", "approve_registration", "approved", "admin"), "compliant"),
   Row("under_review", "reject_registration", "rejected", "admin"),
   Row("approved", "suspend_organization", "suspended", "admin"),
   Row("suspended", "reinstate_organization", "approved", "admin")}

VIOLATION_TRANSITIONS ==
  {Row("draft", "report_violation", "submitted", "admin"),
   Row("submitted", "start_investigation", "investigating", "admin"),
   Conditional(Row("investigating", "escalate_violation", "escalated", "admin")),
   Row("investigating", "resolve_violation", "resolved", "admin"),
   Effect(Row("escalated", "impose_penalty", "penalty_imposed", "admin"), "penalty"),
   Row("penalty_imposed", "file_appeal", "appealed", "dpco_admin"),
   Row("appealed", "uphold_appeal", "resolved", "admin"),
   Row("appealed", "reject_appeal", "penalty_imposed", "admin"),
   Row("penalty_imposed", "penalty_paid", "resolved", "admin")}

BREACH_TRANSITIONS ==
  {Row("draft", "report_breach", "submitted", "dpco_admin"),
   Row("submitted", "acknowledge_breach", "investigating", "admin"),
   Conditional(Row("investigating", "escalate_breach", "escalated", "admin")),
   Row("investigating", "resolve_breach", "resolved", "admin"),
   Row("escalated", "resolve_escalated_breach", "resolved", "admin"),
   Row("resolved", "close_breach", "closed", "admin")}

DPIA_TRANSITIONS ==
  {Row("draft", "submit_dpia", "submitted", "dpco_admin"),
   Row("submitted", "start_dpia_review", "under_review", "admin"),
   Row("under_review", "approve_dpia", "approved", "admin"),
   Row("under_review", "reject_dpia", "rejected", "admin"),
   Row("rejected", "revise_dpia", "draft", "dpco_admin")}

DSAR_TRANSITIONS ==
  {Row("draft", "submit_dsar", "submitted", "user"),
   Row("submitted", "validate_dsar", "under_review", "admin"),
   Row("under_review", "complete_dsar", "approved", "admin"),
   Row("under_review", "reject_dsar", "rejected", "admin")}

Kinds == {"organization", "violation", "breach", "dpia", "dsar"}

WORKFLOW_MAP ==
  [k \in Kinds |->
     CASE k = "organization" -> ORG_COMPLIANCE_TRANSITIONS
       [] k = "violation"    -> VIOLATION_TRANSITIONS
       [] k = "breach"       -> BREACH_TRANSITIONS
       [] k = "dpia"         -> DPIA_TRANSITIONS
       [] k = "dsar"         -> DSAR_TRANSITIONS]

Rows == UNION {WORKFLOW_MAP[k] : k \in Kinds}

WorkflowStates == {"draft"} \cup {t.to : t \in Rows}

Roles == {"admin", "dpco_admin", "user"}
=============================================================================
