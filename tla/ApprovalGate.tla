---------------------------- MODULE ApprovalGate ----------------------------
(***************************************************************************)
(* What the action pipeline promises, without saying how: every action     *)
(* passes a gate.  It is performed only while it is cleared, at most once, *)
(* and once closed it is never performed or reopened.                      *)
(***************************************************************************)
EXTENDS Naturals

CONSTANT Actions

VARIABLES gate,       \* "none", "waiting" for the user, "cleared" or "closed"
          performed   \* how often the action's effect has happened

gateVars == <<gate, performed>>

Gates == {"none", "waiting", "cleared", "closed"}

Init == /\ gate = [a \in Actions |-> "none"]
        /\ performed = [a \in Actions |-> 0]

\* A request is let through, refused or put to the user.
Submit(a) ==
  /\ gate[a] = "none"
  /\ \E g \in {"waiting", "cleared", "closed"} : gate' = [gate EXCEPT ![a] = g]
  /\ UNCHANGED performed

\* A decision on one request, which may find others that have waited too long.
Settle(S) ==
  /\ S # {} /\ \A a \in S : gate[a] = "waiting"
  /\ \E T \in SUBSET S :
       /\ \A a, b \in T : a = b
       /\ gate' = [a \in Actions |-> IF a \in T THEN "cleared"
                                     ELSE IF a \in S THEN "closed" ELSE gate[a]]
  /\ UNCHANGED performed

\* The effect; recording it may close the action in the same step.
Perform(a) ==
  /\ gate[a] = "cleared" /\ performed[a] = 0
  /\ performed' = [performed EXCEPT ![a] = 1]
  /\ \E g \in {"cleared", "closed"} : gate' = [gate EXCEPT ![a] = g]

\* The outcome is recorded, with or without an effect.
Close(a) ==
  /\ gate[a] = "cleared"
  /\ gate' = [gate EXCEPT ![a] = "closed"]
  /\ UNCHANGED performed

Next ==
  \/ \E a \in Actions : Submit(a) \/ Perform(a) \/ Close(a)
  \/ \E S \in SUBSET Actions : Settle(S)

Spec == Init /\ [][Next]_gateVars
=============================================================================
