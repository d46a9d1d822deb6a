-------------------------- MODULE MCActionPipeline --------------------------
(***************************************************************************)
(* A small instance: one action type of each kind the pipeline treats      *)
(* differently.                                                            *)
(***************************************************************************)
EXTENDS ActionPipeline

MCRequestTypes ==
  {"create_internal_task",    \* green, records only
   "move_calendar_event",     \* green or, for a critical event, yellow
   "send_external_email",     \* yellow, external effect
   "card_purchase",           \* yellow, web only, records only
   "spend_money"}             \* red

\* For the crash: one type that must ask first and one that need not.
MCLiveTypes == {"create_internal_task", "send_external_email"}
=============================================================================
