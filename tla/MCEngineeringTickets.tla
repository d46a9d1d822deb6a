------------------------- MODULE MCEngineeringTickets -------------------------
(***************************************************************************)
(* One caller beside the periodic sync, on a board without Blocked.        *)
(***************************************************************************)
EXTENDS EngineeringTickets

MCRequests == {[kind |-> "engineering", review |-> TRUE],
               [kind |-> "production", review |-> FALSE]}
MCReviewed == {[kind |-> "engineering", review |-> TRUE]}
MCPlain == {[kind |-> "engineering", review |-> FALSE]}
MCColumns == {"ready", "in_progress", "security_review", "done"}
=============================================================================
