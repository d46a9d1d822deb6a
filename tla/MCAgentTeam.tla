----------------------------- MODULE MCAgentTeam -----------------------------
(***************************************************************************)
(* A small team: two employees, of whom one may have left the roster of a  *)
(* process that starts later.                                              *)
(***************************************************************************)
EXTENDS AgentTeam, TLC

CONSTANTS a1, a2

MCAgents == {a1, a2}
MCRosters == {{a1, a2}, {a1}}
MCFullRoster == {{a1, a2}}

\* The employees are interchangeable as long as every roster has both.
MCSymmetry == Permutations(MCAgents)
=============================================================================
