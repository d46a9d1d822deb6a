------------------------------- MODULE OrgChart -------------------------------
(***************************************************************************)
(* Reorganising the company: a proposal is checked against the roster,     *)
(* waits for Alex, is checked again and filed as a ticket; Alex then edits *)
(* roster.py, and the server takes the new chart when it starts.           *)
(***************************************************************************)
EXTENDS Integers, FiniteSets, Sequences

CONSTANTS Members,      \* the employees
          Chief,        \* MANAGER_ID
          MaxChanges, MaxProposals

ASSUME OrgAssumption ==
  Chief \notin Members /\ IsFiniteSet(Members) /\ {MaxChanges, MaxProposals} \subseteq Nat

VARIABLES
  reportsTo,   \* the chart that is deployed
  reorgs,      \* proposals: waiting, filed, deployed, or refused
  crossed      \* two reorganisations were under way together

orgVars == <<reportsTo, reorgs, crossed>>

\* reports_to of one member; a change of title or focus has nothing to check
\* but that its subject is an employee.
Change == [of : Members \union {Chief, "stranger"}, to : Members \union {Chief, "stranger"}]

OrgTypeOK ==
  /\ reportsTo \in [Members -> Members \union {Chief}]
  /\ \A i \in DOMAIN reorgs :
       /\ reorgs[i].changes \in Seq(Change)
       /\ reorgs[i].status \in {"waiting", "filed", "deployed", "refused"}
  /\ crossed \in BOOLEAN

OrgInit == reportsTo = [m \in Members |-> Chief] /\ reorgs = <<>> /\ crossed = FALSE

\* What the chart would become, change after change: the last one counts.
After(chart, changes) ==
  [m \in Members |->
     LET mine == {i \in DOMAIN changes : changes[i].of = m} IN
     IF mine = {} THEN chart[m] ELSE changes[CHOOSE i \in mine : \A j \in mine : j <= i].to]

\* From m one comes to the chief in as many steps as there are members: the walk
\* of _refuse_cycles.
Walk(chart, m) ==
  LET at[n \in 0 .. Cardinality(Members)] ==
        IF n = 0 THEN m ELSE IF at[n - 1] = Chief THEN Chief ELSE chart[at[n - 1]]
  IN at[Cardinality(Members)]
Loops(chart) == \E m \in Members : Walk(chart, m) # Chief

Named(changes) ==
  \A i \in DOMAIN changes :
    /\ changes[i].of \in Members /\ changes[i].to \in Members \union {Chief}
    /\ changes[i].to # changes[i].of
    /\ changes[i].to # reportsTo[changes[i].of]
    /\ \A j \in DOMAIN changes \ {i} : changes[j].of # changes[i].of

\* Mutant of ValidChanges: only somebody reporting to himself is looked for.
ValidByName(changes) == Named(changes)

\* validate_changes: nobody changes the chief, nothing is changed twice or to
\* what it is, and what the company would become has no loop.
ValidChanges(changes) == Named(changes) /\ ~Loops(After(reportsTo, changes))

OpenTickets == {i \in DOMAIN reorgs : reorgs[i].status = "filed"}

\* _check when it is proposed, and again when Alex has approved it.
ProposeReorganisation(changes) ==
  /\ Len(reorgs) < MaxProposals /\ ValidChanges(changes)
  /\ reorgs' = Append(reorgs, [changes |-> changes, status |-> "waiting"])
  /\ UNCHANGED <<reportsTo, crossed>>

DecideReorganisation(i, approved) ==
  LET filed == approved /\ ValidChanges(reorgs[i].changes) IN
  /\ reorgs[i].status = "waiting"
  /\ reorgs' = [reorgs EXCEPT ![i].status = IF filed THEN "filed" ELSE "refused"]
  /\ crossed' = (crossed \/ (filed /\ OpenTickets # {}))
  /\ UNCHANGED reportsTo

\* Alex edits roster.py as the ticket says, and deploys.
Deploy(i) ==
  /\ i \in OpenTickets
  /\ reportsTo' = After(reportsTo, reorgs[i].changes)
  /\ reorgs' = [reorgs EXCEPT ![i].status = "deployed"]
  /\ UNCHANGED crossed

OrgNext ==
  \/ \E n \in 1 .. MaxChanges : \E changes \in [1 .. n -> Change] : ProposeReorganisation(changes)
  \/ \E i \in DOMAIN reorgs : Deploy(i) \/ \E approved \in BOOLEAN : DecideReorganisation(i, approved)

-----------------------------------------------------------------------------
(* Properties.                                                             *)

\* Nobody ends up reporting into a loop, whatever was proposed before a change
\* that was deployed in between: there is no set of employees who report to one
\* another only.  It takes that Alex builds one reorganisation at a time: two
\* that were filed together were each checked against the chart before both
\* (_refuse_cycles).
ChartLeadsToChief ==
  ~crossed => \A S \in SUBSET Members : S # {} => \E m \in S : reportsTo[m] \notin S
=============================================================================
