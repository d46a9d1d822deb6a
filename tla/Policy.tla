------------------------------- MODULE Policy -------------------------------
(***************************************************************************)
(* The approval policy of gary/policy.py: which risk level each action     *)
(* type carries, and how a handler's own classification may raise it.      *)
(* A level is a string; None stands for Python's None.                     *)
(***************************************************************************)
EXTENDS Naturals

Green  == "green"     \* executes automatically
Yellow == "yellow"    \* needs the user's approval first
Red    == "red"       \* rejected by policy
None   == "none"

Risks == {Green, Yellow, Red}

GreenTypes ==
  {"create_internal_task", "update_internal_task", "create_followup",
   "schedule_task", "delegate_to_agent", "run_management_review", "ask_user",
   "create_engineering_ticket", "set_engineering_priority",
   "move_calendar_event", "email_principal"}

YellowTypes ==
  {"propose_reorganisation", "send_external_email",
   "change_external_commitment", "cancel_external_meeting", "download_file",
   "card_purchase", "hire_employee"}

RedTypes ==
  {"spend_money", "change_security_settings", "access_password_manager",
   "change_own_permissions", "modify_permissions", "delete_audit_log"}

ActionTypes == GreenTypes \union YellowTypes \union RedTypes

\* ACTION_POLICIES.
ActionPolicies ==
  [t \in ActionTypes |-> IF t \in GreenTypes THEN Green
                         ELSE IF t \in YellowTypes THEN Yellow ELSE Red]

RiskOrder == [r \in Risks |-> CASE r = Green  -> 0
                                [] r = Yellow -> 1
                                [] r = Red    -> 2]

\* Mutant of Escalate: the policy's level always wins.
EscalateIgnored(base, proposed) == base

\* escalate: the stricter of the policy's level and the handler's own.
Escalate(base, proposed) ==
  IF proposed # None /\ RiskOrder[proposed] > RiskOrder[base]
  THEN proposed ELSE base

\* WEB_ONLY_APPROVAL_ACTIONS: approvable on the /approvals page only.
WebOnlyApprovalActions == {"card_purchase", "hire_employee"}

\* The action types with a handler.  cancel_external_meeting and
\* download_file have a policy and no handler: proposing one is refused.
Unsupported == {"cancel_external_meeting", "download_file"}

\* Handlers whose execute has a side effect outside SQLite; the others only
\* record, inside one transaction.
ExternalTypes ==
  {"schedule_task", "move_calendar_event", "send_external_email",
   "email_principal", "create_engineering_ticket",
   "set_engineering_priority", "delegate_to_agent", "run_management_review",
   "hire_employee", "propose_reorganisation"}

\* Handlers with a classify function: a critical event's move is escalated.
ClassifiedTypes == {"move_calendar_event"}
=============================================================================
