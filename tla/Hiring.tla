-------------------------------- MODULE Hiring --------------------------------
(***************************************************************************)
(* Hiring: a proposal, Alex's approval, the engineering ticket, the        *)
(* employee Alex builds from it, the roster that loads him, and the        *)
(* comment on his record that closes the loop.                             *)
(*                                                                         *)
(* A proposal is checked when it is made and again when it is carried out; *)
(* the second check and the reservation of the ticket run with nothing in  *)
(* between, and the issue, the record and the comment are steps of their   *)
(* own.  Employees hired under the earlier flow are rows of a table, and   *)
(* join the roster only with everybody else if the whole is valid.         *)
(***************************************************************************)
EXTENDS Integers, FiniteSets, Sequences

CONSTANTS Proposals,     \* what Gary proposes: [id, book, post, fits]
          Founders,      \* who is in roster.py from the start: [id, book]
          EarlierHires,  \* rows of hired_employees: [id, book]
          MaxTickets, MaxBreaks

ASSUME HiringAssumption ==
  /\ {MaxTickets, MaxBreaks} \subseteq Nat
  /\ \A p \in Proposals : p.fits \in BOOLEAN     \* normalize_tools takes its tools
  /\ \A f, g \in Founders : f # g => f.id # g.id /\ f.book # g.book
  /\ \A h, g \in EarlierHires : h # g => h.id # g.id /\ h.book # g.book

VARIABLES
  asks,      \* proposals that wait for Alex
  tickets,   \* engineering tickets, in order: proposal, open, issue, requested
  inCode,    \* roster.py, as Alex has it: [id, book]
  rosterNow, \* what the registry has loaded
  gone,      \* ids of earlier hires that Alex dismissed
  experienced,    \* ids with MIN_ASSIGNMENTS in the period
  toFollow,  \* tickets the follow-up has still to comment on, in their order
  commented, \* comments on each ticket's issue
  followed,  \* hire_followed_up
  breaks     \* comments that GitHub took and nobody wrote down

hiringVars == <<asks, tickets, inCode, rosterNow, gone, experienced, toFollow, commented, followed, breaks>>

TicketNumbers == 1 .. MaxTickets
Who(p) == [id |-> p.id, book |-> p.book]

HiringTypeOK ==
  /\ asks \subseteq Proposals
  /\ \A n \in DOMAIN tickets :
       tickets[n] \in [of : Proposals, open : BOOLEAN, issue : BOOLEAN, requested : BOOLEAN]
  /\ rosterNow \subseteq inCode \union EarlierHires
  /\ toFollow \subseteq TicketNumbers /\ commented \in [TicketNumbers -> Nat]
  /\ breaks \in 0 .. MaxBreaks

\* AgentRegistry._build.
ValidRoster(R) == \A f, g \in R : f # g => f.id # g.id /\ f.book # g.book

\* refresh: the roster of the code and the active hires; one that is not valid is
\* not applied, and the previous one stands.
Active(left) == {h \in EarlierHires : h.id \notin left}
Refreshed(code, left, before) ==
  IF ValidRoster(code \union Active(left)) THEN code \union Active(left) ELSE before

HiringInit ==
  /\ asks = {} /\ tickets = <<>> /\ inCode = Founders /\ gone = {} /\ experienced = {}
  /\ rosterNow = Refreshed(Founders, {}, Founders)
  /\ toFollow = {} /\ commented = [n \in TicketNumbers |-> 0] /\ followed = {} /\ breaks = 0

-----------------------------------------------------------------------------
(* The proposal and the ticket.                                            *)

\* _check: nobody of that id or notebook, tools within the ceiling, never hired
\* before, also not when dismissed, and no open ticket for that post.
Checks(p) ==
  /\ \A r \in rosterNow : r.id # p.id /\ r.book # p.book
  /\ \A h \in EarlierHires : h.id # p.id /\ (h.id \notin gone => h.book # p.book)
  /\ p.fits
  /\ \A n \in DOMAIN tickets : tickets[n].open => <<tickets[n].of.id, tickets[n].of.post>> # <<p.id, p.post>>

ProposeHire(p) ==
  /\ p \notin asks /\ Checks(p) /\ asks' = asks \union {p}
  /\ UNCHANGED <<tickets, inCode, rosterNow, gone, experienced, toFollow, commented, followed, breaks>>

\* Mutant of StillChecks: what was checked when it was proposed is trusted.
CheckedOnce(p) == TRUE
StillChecks(p) == Checks(p)

\* Approved and checked again, the task and the ticket's row; or dropped.
Commission(p) ==
  /\ p \in asks /\ asks' = asks \ {p}
  /\ \/ /\ StillChecks(p) /\ Len(tickets) < MaxTickets
        /\ tickets' = Append(tickets, [of |-> p, open |-> TRUE, issue |-> FALSE, requested |-> FALSE])
     \/ UNCHANGED tickets
  /\ UNCHANGED <<inCode, rosterNow, gone, experienced, toFollow, commented, followed, breaks>>

\* create_ticket goes on, now or when the ticket is retried.
IssueOpened(n) ==
  /\ ~tickets[n].issue /\ tickets[n].open
  /\ tickets' = [tickets EXCEPT ![n].issue = TRUE]
  /\ UNCHANGED <<asks, inCode, rosterNow, gone, experienced, toFollow, commented, followed, breaks>>

\* _record, if nothing broke off the action after the issue.
Requested(n) ==
  /\ tickets[n].issue /\ ~tickets[n].requested
  /\ tickets' = [tickets EXCEPT ![n].requested = TRUE]
  /\ UNCHANGED <<asks, inCode, rosterNow, gone, experienced, toFollow, commented, followed, breaks>>

-----------------------------------------------------------------------------
(* Alex.                                                                   *)

\* He writes the employee into roster.py, which must be a valid roster, closes
\* the ticket, and the server starts with it.
Build(n) ==
  /\ tickets[n].open /\ tickets[n].issue
  /\ ValidRoster(inCode \union {Who(tickets[n].of)})
  /\ inCode' = inCode \union {Who(tickets[n].of)}
  /\ tickets' = [tickets EXCEPT ![n].open = FALSE]
  /\ rosterNow' = Refreshed(inCode', gone, inCode') /\ toFollow' = {}
  /\ UNCHANGED <<asks, gone, experienced, commented, followed, breaks>>

Decline(n) ==
  /\ tickets[n].open /\ tickets' = [tickets EXCEPT ![n].open = FALSE]
  /\ UNCHANGED <<asks, inCode, rosterNow, gone, experienced, toFollow, commented, followed, breaks>>

\* dismiss, from the command line, whose own registry is refreshed; the server's
\* is when it is next asked after REFRESH_SECONDS.
Dismiss(h) ==
  /\ h \in EarlierHires /\ h.id \notin gone
  /\ gone' = gone \union {h.id}
  /\ UNCHANGED <<asks, tickets, inCode, rosterNow, experienced, toFollow, commented, followed, breaks>>

Refresh ==
  /\ rosterNow' = Refreshed(inCode, gone, rosterNow) /\ rosterNow' # rosterNow
  /\ UNCHANGED <<asks, tickets, inCode, gone, experienced, toFollow, commented, followed, breaks>>

WorkDone(r) ==
  /\ r \in rosterNow /\ r.id \notin experienced /\ experienced' = experienced \union {r.id}
  /\ UNCHANGED <<asks, tickets, inCode, rosterNow, gone, toFollow, commented, followed, breaks>>

-----------------------------------------------------------------------------
(* follow_up_on_hires.                                                     *)

\* Mutant of Pending: what was followed up before is not looked at.
PendingAgain(n) ==
  /\ tickets[n].requested /\ tickets[n].of.id \in experienced
  /\ \E r \in rosterNow : r.id = tickets[n].of.id

Pending(n) ==
  /\ tickets[n].requested /\ tickets[n].of.id \in experienced \ followed
  /\ \E r \in rosterNow : r.id = tickets[n].of.id

FollowUpBegins ==
  /\ toFollow = {}
  /\ toFollow' = {n \in DOMAIN tickets : Pending(n)} /\ toFollow' # {}
  /\ UNCHANGED <<asks, tickets, inCode, rosterNow, gone, experienced, commented, followed, breaks>>

\* GitHub takes the comment, and then the record is written; or GitHub is down.
\* Between the two the server may stop, or the answer is lost and the pass goes
\* on: tomorrow's comments again.
Comment ==
  \E n \in toFollow :
    /\ \A m \in toFollow : n <= m
    /\ \/ /\ commented' = [commented EXCEPT ![n] = @ + 1]
          /\ followed' = followed \union {tickets[n].of.id}
          /\ toFollow' = toFollow \ {n} /\ UNCHANGED breaks
       \/ /\ breaks < MaxBreaks /\ breaks' = breaks + 1
          /\ commented' = [commented EXCEPT ![n] = @ + 1]
          /\ toFollow' \in {{}, toFollow \ {n}} /\ UNCHANGED followed
       \/ toFollow' = toFollow \ {n} /\ UNCHANGED <<commented, followed, breaks>>
    /\ UNCHANGED <<asks, tickets, inCode, rosterNow, gone, experienced>>

HiringNext ==
  \/ \E p \in Proposals : ProposeHire(p) \/ Commission(p)
  \/ \E n \in DOMAIN tickets : IssueOpened(n) \/ Requested(n) \/ Build(n) \/ Decline(n)
  \/ \E h \in EarlierHires : Dismiss(h)
  \/ \E r \in rosterNow : WorkDone(r)
  \/ Refresh \/ FollowUpBegins \/ Comment

-----------------------------------------------------------------------------
(* Properties.                                                             *)

\* One post has one open ticket, however often it was proposed and approved
\* meanwhile, and what the team runs on is a valid roster that holds everybody
\* in roster.py; an employee's issue gets his record once, and once more for each
\* time that GitHub took the comment and the note of it was not written, because
\* the answer was lost or the server stopped (_check, refresh, follow_up_on_hires).
HiringIsSound ==
  /\ \A m, n \in DOMAIN tickets :
       (m # n /\ tickets[m].open /\ tickets[n].open)
         => <<tickets[m].of.id, tickets[m].of.post>> # <<tickets[n].of.id, tickets[n].of.post>>
  /\ ValidRoster(rosterNow) /\ inCode \subseteq rosterNow
  /\ \A n \in TicketNumbers : commented[n] <= 1 + breaks
=============================================================================
