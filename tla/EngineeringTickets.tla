-------------------------- MODULE EngineeringTickets --------------------------
(***************************************************************************)
(* EngineeringTicketService: the ticket of one Gary task, the private      *)
(* GitHub issue and its card on the Project.  (task_id is UNIQUE, and no   *)
(* operation reads another task's ticket, so one task stands for all.)     *)
(*                                                                         *)
(* Callers are the tools, the actions and the production tick; Loop is the *)
(* five-minute sync_all.  Each await of a coroutine ends a step.  It       *)
(* carries the row it read last, and GitHub, Alex and the others move on   *)
(* meanwhile.  Alex works on GitHub and in Gary.  A call may fail, and may *)
(* have had its effect all the same.  The backend may die and restart.     *)
(***************************************************************************)
EXTENDS Integers, FiniteSets

CONSTANTS Callers,     \* coroutines that create, move, sync or close tickets
          Loop,        \* the periodic sync
          Requests,    \* what tickets are asked for: kind and required review
          Columns,     \* Status options the board has
          MaxIssues, MaxItems,          \* bounds on issues and cards
          MaxCalls,                     \* bound on the callers' requests
          MaxMoves,                     \* bound on what Alex does
          MaxFaults                     \* bound on failed calls and restarts

Statuses == {"backlog", "ready", "in_progress", "review", "security_review",
             "done", "blocked"}
NoColumn == "no column"        \* a card whose Status is not set

ASSUME CallersAssumption == IsFiniteSet(Callers) /\ Loop \notin Callers
ASSUME RequestsAssumption ==
  Requests \subseteq [kind : {"engineering", "production"}, review : BOOLEAN]
ASSUME ColumnsAssumption == Columns \subseteq Statuses
ASSUME BoundsAssumption ==
  {MaxIssues, MaxItems, MaxCalls, MaxMoves, MaxFaults} \subseteq Nat

Workers == Callers \union {Loop}
Issues == 1 .. MaxIssues
Items == 1 .. MaxItems

VARIABLES
  task,     \* the Gary task: status, and who completed it
  ticket,   \* its engineering_tickets row
  opened,   \* GitHub: issues 1 .. opened were opened for this task,
  closed,   \*   those that are closed,
  assigned, \*   those that Alex is assigned to,
  items,    \*   cards 1 .. items were put on the board,
  card,     \*   and where each card stands (issue 0: it was deleted)
  work,     \* the coroutine of each worker
  calls, faults, moves, exits,
  unheard   \* create_issue calls whose answer was lost

github == <<opened, closed, assigned, items, card>>
counters == <<calls, faults, moves, exits, unheard>>
vars == <<task, ticket, github, work, counters>>

Closed == {"completed", "cancelled"}
SyncStates == {"pending", "synced", "degraded", "needs_reconciliation"}

Ticket == [exists : BOOLEAN, kind : {"engineering", "production"},
           review : BOOLEAN, issue : 0 .. MaxIssues, confirmed : BOOLEAN,
           item : 0 .. MaxItems, status : Statuses, reviewed : BOOLEAN,
           sync : SyncStates]
NoTicket == [exists |-> FALSE, kind |-> "engineering", review |-> FALSE,
             issue |-> 0, confirmed |-> FALSE, item |-> 0, status |-> "backlog",
             reviewed |-> FALSE, sync |-> "pending"]

\* settle: sync found the work finished; repair: it lost the card, and
\* sync_all is to put it back; open, assigned: the issue as sync read it.
Coroutine ==
  [op : {"none", "create", "retry", "transition", "sync", "sync_all", "close"},
   at : {"idle", "verify", "open", "opened", "assign", "item", "status",
         "fields", "move", "note", "shut", "complete", "read", "board", "card",
         "settle", "retry"},
   row : Ticket, from : Statuses, target : Statuses,
   open : BOOLEAN, assigned : BOOLEAN, settle : BOOLEAN, repair : BOOLEAN]
Idle == [op |-> "none", at |-> "idle", row |-> NoTicket, from |-> "backlog",
         target |-> "backlog", open |-> FALSE, assigned |-> FALSE,
         settle |-> FALSE, repair |-> FALSE]

TypeOK ==
  /\ task \in [status : {"todo", "in_progress", "blocked"} \union Closed,
               by : {"nobody", "alex", "engineering"}]
  /\ ticket \in Ticket
  /\ opened \in 0 .. MaxIssues
  /\ closed \subseteq 0 .. MaxIssues
  /\ assigned \subseteq 0 .. MaxIssues
  /\ items \in 0 .. MaxItems
  /\ card \in [Items -> [issue : 0 .. MaxIssues,
                         column : Statuses \union {NoColumn}]]
  /\ work \in [Workers -> Coroutine]
  /\ calls \in 0 .. MaxCalls
  /\ faults \in 0 .. MaxFaults
  /\ moves \in 0 .. MaxMoves
  /\ exits \in 0 .. faults
  /\ unheard \in 0 .. faults

Init ==
  /\ task = [status |-> "todo", by |-> "nobody"]
  /\ ticket = NoTicket
  /\ opened = 0
  /\ closed = {}
  /\ assigned = {}
  /\ items = 0
  /\ card = [i \in Items |-> [issue |-> 0, column |-> NoColumn]]
  /\ work = [w \in Workers |-> Idle]
  /\ calls = 0
  /\ faults = 0
  /\ moves = 0
  /\ exits = 0
  /\ unheard = 0

-----------------------------------------------------------------------------
(* What the steps are made of.                                             *)

At(w, place) == work[w].at = place
Start(w, coroutine) == work' = [work EXCEPT ![w] = coroutine]
Goto(w, place) == work' = [work EXCEPT ![w].at = place]
Return(w) == work' = [work EXCEPT ![w] = Idle]

\* A caller's request begins.
Asked(w) ==
  /\ w \in Callers
  /\ At(w, "idle")
  /\ calls < MaxCalls
  /\ calls' = calls + 1
  /\ UNCHANGED <<faults, moves, exits, unheard>>

\* A GitHub call that raises, or one that does not.
Raises ==
  /\ faults < MaxFaults
  /\ faults' = faults + 1
  /\ UNCHANGED <<calls, moves, exits, unheard>>
Answers == UNCHANGED counters

OnBoard(i) == i # 0 /\ card[i].issue # 0
CanSet(row, status) == status \in Columns /\ OnBoard(row.item)
\* The call that sets a card's Status fails: GitHub does, or the board has no
\* such option or no such card.
CannotSet(row, status) == IF CanSet(row, status) THEN Raises ELSE Answers
SetColumn(i, column) == card' = [card EXCEPT ![i].column = column]

\* A failed call may have reached GitHub.
SetColumnPerhaps(row, status) ==
  \/ UNCHANGED card
  \/ CanSet(row, status) /\ SetColumn(row.item, status)

\* Mutants of Mirrored: every Status is written onto the task, as it is.
MirroredRaw(status) == [task EXCEPT !.status = status]

\* A closed task is changed too.
MirroredAlways(status) ==
  IF status \in {"in_progress", "blocked"}
  THEN [task EXCEPT !.status = status]
  ELSE task

\* _mirror_task: update_task refuses a task that is closed.
Mirrored(status) ==
  IF status \in {"in_progress", "blocked"} /\ task.status \notin Closed
  THEN [task EXCEPT !.status = status]
  ELSE task

\* complete_task: a task that is closed stays as it is.
Completed ==
  IF task.status \in Closed
  THEN task
  ELSE [status |-> "completed", by |-> "engineering"]

-----------------------------------------------------------------------------
(* create_ticket, and retry_incomplete, which shares its steps.            *)

\* The first step of setting the ticket up that its row still lacks.
FromStatus(op, row) ==
  IF row.item # 0 /\ (op = "create" \/ row.sync # "synced")
  THEN "status"
  ELSE "end"
FromItem(op, row) == IF row.item = 0 THEN "item" ELSE FromStatus(op, row)
FromAssign(op, row) == IF row.confirmed THEN FromItem(op, row) ELSE "assign"

\* The last lines, which judge by the row in hand and write to the table.
SetUp(op, row) ==
  \/ op = "create" /\ row.sync = "pending"
  \/ op = "retry" /\ row.item # 0 /\ row.confirmed

\* The step saved this ticket, and goes on with the row it has.
Proceed(w, saved, row, place) ==
  IF place = "end"
  THEN /\ ticket' = IF SetUp(work[w].op, row)
                    THEN [saved EXCEPT !.sync = "synced"]
                    ELSE saved
       /\ Return(w)
  ELSE /\ ticket' = saved
       /\ Start(w, [work[w] EXCEPT !.at = place, !.row = row])

\* The task is open and has no finished ticket: its row is reserved, or taken
\* up where it was left.
Reserve(w) ==
  /\ Asked(w)
  /\ task.status \notin Closed
  /\ ~(ticket.exists /\ ticket.sync = "synced")
  /\ \E request \in Requests :
       ticket' = IF ticket.exists
                 THEN ticket
                 ELSE [NoTicket EXCEPT !.exists = TRUE, !.kind = request.kind,
                                       !.review = request.review]
  /\ Start(w, [Idle EXCEPT !.op = "create", !.at = "verify", !.row = ticket'])
  /\ UNCHANGED <<task, github>>

\* retry_incomplete reads the row; only sync_all calls it.
Retry(w) ==
  /\ At(w, "retry")
  /\ IF ticket.issue = 0
     THEN Return(w)
     ELSE Start(w, [Idle EXCEPT !.op = "retry", !.at = "verify", !.row = ticket])
  /\ UNCHANGED <<task, ticket, github, counters>>

\* Mutant of Verify: the issue a ticket already has is not looked for.
VerifyAndOpen(w) ==
  /\ At(w, "verify")
  /\ LET op == work[w].op
         row == work[w].row
     IN CASE op = "create" -> Proceed(w, ticket, row, "open")
          [] op = "transition" -> Proceed(w, ticket, row, "move")
          [] op = "close" -> Proceed(w, ticket, row, "shut")
          [] OTHER -> Proceed(w, ticket, row, FromAssign(op, row))
  /\ UNCHANGED <<task, github, counters>>

\* PrivacyGate.verify() lets the operation go on.
Verify(w) ==
  /\ At(w, "verify")
  /\ LET op == work[w].op
         row == work[w].row
     IN CASE op = "create" /\ row.issue = 0 -> Proceed(w, ticket, row, "open")
          [] op = "transition" -> Proceed(w, ticket, row, "move")
          [] op = "close" -> Proceed(w, ticket, row, "shut")
          [] OTHER -> Proceed(w, ticket, row, FromAssign(op, row))
  /\ UNCHANGED <<task, github, counters>>

\* It raises; create_ticket records a privacy refusal in the row.
VerifyRaises(w) ==
  /\ At(w, "verify")
  /\ Raises
  /\ \/ UNCHANGED ticket
     \/ work[w].op = "create" /\ ticket' = [ticket EXCEPT !.sync = "pending"]
  /\ Return(w)
  /\ UNCHANGED <<task, github>>

\* GitHub opens the issue, and takes its assignee or leaves him out.
NewIssue(accepted) ==
  /\ opened < MaxIssues
  /\ opened' = opened + 1
  /\ assigned' = IF accepted THEN assigned \union {opened + 1} ELSE assigned

\* The answer is on its way, with the issue's number and assignee.
OpenIssue(w) ==
  /\ At(w, "open")
  /\ \E accepted \in BOOLEAN :
       /\ NewIssue(accepted)
       /\ Start(w, [work[w] EXCEPT
                      !.at = "opened",
                      !.row = [@ EXCEPT !.issue = opened + 1,
                                        !.confirmed = accepted]])
  /\ Answers
  /\ UNCHANGED <<task, ticket, closed, items, card>>

OpenIssueRaises(w) ==
  /\ At(w, "open")
  /\ Raises
  /\ Return(w)
  /\ UNCHANGED <<task, ticket, github>>

\* The issue is opened, but its answer is lost: the client posts it again, or
\* gives up after its last attempt.
OpenIssueUnheard(w) ==
  /\ At(w, "open")
  /\ faults < MaxFaults
  /\ faults' = faults + 1
  /\ unheard' = unheard + 1
  /\ \E accepted \in BOOLEAN : NewIssue(accepted)
  /\ \/ UNCHANGED work
     \/ Return(w)
  /\ UNCHANGED <<task, ticket, closed, items, card, calls, moves, exits>>

\* The answer is heard and the issue recorded.
Opened(w) ==
  /\ At(w, "opened")
  /\ LET saved == [ticket EXCEPT !.issue = work[w].row.issue,
                                 !.confirmed = work[w].row.confirmed]
     IN Proceed(w, saved, saved, FromAssign(work[w].op, saved))
  /\ UNCHANGED <<task, github, counters>>

\* _ensure_assignment: what is saved as sync_state comes from the row in hand.
Assign(w) ==
  /\ At(w, "assign")
  /\ LET row == work[w].row
         saved == [ticket EXCEPT !.confirmed = TRUE, !.sync = row.sync]
     IN /\ assigned' = assigned \union {row.issue}
        /\ Proceed(w, saved, saved, FromItem(work[w].op, saved))
  /\ Answers
  /\ UNCHANGED <<task, opened, closed, items, card>>

AssignRefused(w) ==
  /\ At(w, "assign")
  /\ Raises
  /\ LET row == work[w].row
         saved == [ticket EXCEPT !.confirmed = FALSE, !.sync = "degraded"]
     IN /\ assigned' \in {assigned, assigned \union {row.issue}}
        /\ Proceed(w, saved, saved, FromItem(work[w].op, saved))
  /\ UNCHANGED <<task, opened, closed, items, card>>

\* The board's cards of an issue, and a new one where there is none.
CardsOf(n) == {i \in Items : card[i].issue = n}
PutOnBoard(n, i) ==
  IF CardsOf(n) # {}
  THEN i \in CardsOf(n) /\ UNCHANGED <<items, card>>
  ELSE /\ i = items + 1
       /\ i <= MaxItems
       /\ items' = i
       /\ card' = [card EXCEPT ![i] = [issue |-> n, column |-> NoColumn]]

\* _ensure_project_item
AddCard(w) ==
  /\ At(w, "item")
  /\ \E i \in Items :
       LET saved == [ticket EXCEPT !.item = i]
       IN /\ PutOnBoard(work[w].row.issue, i)
          /\ Proceed(w, saved, saved, FromStatus(work[w].op, saved))
  /\ Answers
  /\ UNCHANGED <<task, opened, closed, assigned>>

AddCardRaises(w) ==
  /\ At(w, "item")
  /\ Raises
  /\ \/ UNCHANGED <<items, card>>
     \/ \E i \in Items : PutOnBoard(work[w].row.issue, i)
  /\ LET saved == [ticket EXCEPT !.sync = "degraded"]
     IN Proceed(w, saved, saved, FromStatus(work[w].op, saved))
  /\ UNCHANGED <<task, opened, closed, assigned>>

\* _ensure_status: create_ticket says Ready, a retry what the row says.
TargetOf(coroutine) ==
  IF coroutine.op = "create" \/ coroutine.row.status = "backlog"
  THEN "ready"
  ELSE coroutine.row.status
AfterStatus(op) == IF op = "create" THEN "fields" ELSE "end"

SetStatus(w) ==
  /\ At(w, "status")
  /\ LET target == TargetOf(work[w])
         saved == [ticket EXCEPT !.status = target]
     IN /\ CanSet(work[w].row, target)
        /\ SetColumn(work[w].row.item, target)
        /\ Proceed(w, saved, saved, AfterStatus(work[w].op))
  /\ Answers
  /\ UNCHANGED <<task, opened, closed, assigned, items>>

StatusNotSet(w) ==
  /\ At(w, "status")
  /\ CannotSet(work[w].row, TargetOf(work[w]))
  /\ SetColumnPerhaps(work[w].row, TargetOf(work[w]))
  /\ LET saved == [ticket EXCEPT !.sync = "degraded"]
     IN Proceed(w, saved, saved, AfterStatus(work[w].op))
  /\ UNCHANGED <<task, opened, closed, assigned, items>>

\* The optional fields are filled, or not; create_ticket ends.
FillFields(w) ==
  /\ At(w, "fields")
  /\ Proceed(w, ticket, work[w].row, "end")
  /\ UNCHANGED <<task, github, counters>>

-----------------------------------------------------------------------------
(* transition: the tools move a ticket.                                    *)

Allowed(status) ==
  CASE status = "backlog" -> {"ready", "blocked"}
    [] status = "ready" -> {"in_progress", "backlog", "blocked"}
    [] status = "in_progress" -> {"review", "ready", "blocked"}
    [] status = "review" -> {"security_review", "done", "in_progress", "blocked"}
    [] status = "security_review" -> {"done", "in_progress", "blocked"}
    [] status = "blocked" -> {"ready", "in_progress"}
    [] OTHER -> {}

MayMove(row, target) ==
  /\ target \in Allowed(row.status)
  /\ target = "done" /\ row.review => row.status = "security_review"
  /\ row.item # 0

\* There is a tool for every status but Backlog.
AskToMove(w) ==
  /\ Asked(w)
  /\ ticket.exists
  /\ \E target \in Statuses \ {"backlog"} :
       /\ MayMove(ticket, target)
       /\ Start(w, [Idle EXCEPT !.op = "transition", !.at = "verify",
                                !.row = ticket, !.from = ticket.status,
                                !.target = target])
  /\ UNCHANGED <<task, ticket, github>>

\* The card is moved, the row follows, and the task.
Move(w) ==
  /\ At(w, "move")
  /\ LET target == work[w].target
         saved == [ticket EXCEPT !.status = target]
     IN /\ CanSet(work[w].row, target)
        /\ SetColumn(work[w].row.item, target)
        /\ task' = Mirrored(target)
        /\ Proceed(w, saved, saved, "note")
  /\ Answers
  /\ UNCHANGED <<opened, closed, assigned, items>>

MoveRaises(w) ==
  /\ At(w, "move")
  /\ CannotSet(work[w].row, work[w].target)
  /\ SetColumnPerhaps(work[w].row, work[w].target)
  /\ Return(w)
  /\ UNCHANGED <<task, ticket, opened, closed, assigned, items>>

\* Mutant of Note: the review is not recorded.
NoteUnreviewed(w) ==
  /\ At(w, "note")
  /\ IF work[w].target # "done"
     THEN Return(w) /\ UNCHANGED ticket
     ELSE Proceed(w, ticket, work[w].row, "shut")
  /\ UNCHANGED <<task, github, counters>>

\* The comment and the label; then Done is recorded as reviewed when it came
\* from Security Review, and goes on to close the issue.
Note(w) ==
  /\ At(w, "note")
  /\ IF work[w].target # "done"
     THEN Return(w) /\ UNCHANGED ticket
     ELSE LET saved == IF work[w].from = "security_review"
                       THEN [ticket EXCEPT !.reviewed = TRUE]
                       ELSE ticket
              row == IF work[w].from = "security_review" THEN saved ELSE work[w].row
          IN Proceed(w, saved, row, "shut")
  /\ UNCHANGED <<task, github, counters>>

\* A comment that cannot be posted ends the transition.
NoteRaises(w) ==
  /\ At(w, "note")
  /\ Raises
  /\ Return(w)
  /\ UNCHANGED <<task, ticket, github>>

\* _complete: the issue is closed, if GitHub will, and the task completed.
ShutDone(w) ==
  /\ At(w, "shut")
  /\ work[w].op = "transition"
  /\ \/ closed' = closed \union {work[w].row.issue} /\ Answers
     \/ UNCHANGED closed /\ Raises
  /\ Goto(w, "complete")
  /\ UNCHANGED <<task, ticket, opened, assigned, items, card>>

Complete(w) ==
  /\ At(w, "complete")
  /\ task' = Completed
  /\ ticket' = [ticket EXCEPT !.sync = "synced"]
  /\ Return(w)
  /\ UNCHANGED <<github, counters>>

-----------------------------------------------------------------------------
(* close_production_ticket: the stage was finished in Gary.                *)

AskToClose(w) ==
  /\ Asked(w)
  /\ ticket.exists
  /\ ticket.kind = "production"
  /\ ticket.status # "done"
  /\ ticket.issue # 0
  /\ task.status = "completed"
  /\ Start(w, [Idle EXCEPT !.op = "close", !.at = "verify", !.row = ticket])
  /\ UNCHANGED <<task, ticket, github>>

Finished == [ticket EXCEPT !.status = "done", !.sync = "synced"]

Shut(w) ==
  /\ At(w, "shut")
  /\ work[w].op = "close"
  /\ closed' = closed \union {work[w].row.issue}
  /\ IF work[w].row.item = 0
     THEN ticket' = Finished /\ Return(w)
     ELSE UNCHANGED ticket /\ Goto(w, "card")
  /\ Answers
  /\ UNCHANGED <<task, opened, assigned, items, card>>

ShutRaises(w) ==
  /\ At(w, "shut")
  /\ work[w].op = "close"
  /\ Raises
  /\ closed' \in {closed, closed \union {work[w].row.issue}}
  /\ Return(w)
  /\ UNCHANGED <<task, ticket, opened, assigned, items, card>>

-----------------------------------------------------------------------------
(* sync_ticket and sync_all.                                               *)

\* Mutant of Syncable: only tickets known to be out of step are looked at.
SyncableIfDegraded ==
  ticket.exists /\ ticket.issue # 0 /\ ticket.sync # "synced"

\* list_syncable
Syncable ==
  /\ ticket.exists
  /\ ticket.issue # 0
  /\ \/ ticket.status # "done"
     \/ ticket.sync # "synced"

StartSync(w, op) ==
  Start(w, [Idle EXCEPT !.op = op, !.at = "read", !.row = ticket])

AskToSync(w) ==
  /\ Asked(w)
  /\ ticket.exists
  /\ \/ ticket.issue # 0 /\ StartSync(w, "sync")
     \/ Syncable /\ StartSync(w, "sync_all")
  /\ UNCHANGED <<task, ticket, github>>

LoopSyncs ==
  /\ At(Loop, "idle")
  /\ Syncable
  /\ StartSync(Loop, "sync_all")
  /\ UNCHANGED <<task, ticket, github, counters>>

\* Where a sync goes when the row is saved and the card in order.
AfterCard(coroutine) ==
  IF coroutine.settle THEN "settle"
  ELSE IF coroutine.repair THEN "retry"
  ELSE "idle"
Continue(w, coroutine) ==
  LET place == AfterCard(coroutine)
  IN Start(w, IF place = "idle" THEN Idle ELSE [coroutine EXCEPT !.at = place])

\* GitHub's word is adopted.  The row is the one read at the start, the issue
\* the one read since; column is the card's Status, or NoColumn, and lost says
\* that the card is gone.
Adopt(w, open, accepted, column, lost) ==
  LET row == work[w].row
      moved == column \notin {NoColumn, row.status}
      seen == IF moved THEN column ELSE row.status
      stageDone == row.kind = "production" /\ ~open
      status == IF stageDone THEN "done" ELSE seen
      changed == moved \/ (stageDone /\ seen # "done")
      passed == seen = "done" /\ row.status = "security_review"
      satisfied == status = "done" /\ (row.review => row.reviewed \/ passed)
      sync == CASE ~open /\ satisfied -> "synced"
                [] ~open /\ ~satisfied -> "needs_reconciliation"
                [] open /\ lost -> "degraded"
                [] open /\ ~lost /\ (changed \/ row.sync # "synced") -> "synced"
                [] OTHER -> ticket.sync
      saved == [ticket EXCEPT
                  !.item = IF lost THEN 0 ELSE @,
                  !.confirmed = IF accepted # row.confirmed THEN accepted ELSE @,
                  !.status = IF changed THEN status ELSE @,
                  !.reviewed = @ \/ passed,
                  !.sync = sync]
      after == [work[w] EXCEPT
                  !.row = saved,
                  !.settle = ~open /\ satisfied /\ saved.status = "done",
                  !.repair = lost /\ work[w].op = "sync_all"]
  IN /\ ticket' = saved
     /\ task' = IF changed THEN Mirrored(status) ELSE task
     /\ IF changed /\ stageDone /\ column # "done" /\ saved.item # 0
        THEN Start(w, [after EXCEPT !.at = "card"])
        ELSE Continue(w, after)

Degrade(w) ==
  /\ ticket' = [ticket EXCEPT !.sync = "degraded"]
  /\ Return(w)

ReadIssue(w) ==
  /\ At(w, "read")
  /\ LET row == work[w].row
         open == row.issue \notin closed
         accepted == row.issue \in assigned
     IN IF row.item = 0
        THEN Adopt(w, open, accepted, NoColumn, FALSE)
        ELSE /\ Start(w, [work[w] EXCEPT !.at = "board", !.open = open,
                                         !.assigned = accepted])
             /\ UNCHANGED <<task, ticket>>
  /\ UNCHANGED <<github, counters>>

ReadCard(w) ==
  /\ At(w, "board")
  /\ LET i == work[w].row.item
     IN Adopt(w, work[w].open, work[w].assigned,
              IF OnBoard(i) THEN card[i].column ELSE NoColumn, ~OnBoard(i))
  /\ UNCHANGED <<github, counters>>

ReadRaises(w) ==
  /\ work[w].at \in {"read", "board"}
  /\ Raises
  /\ Degrade(w)
  /\ UNCHANGED <<task, github>>

\* _move_card_to_done: best effort.  A sync goes on, a closing is recorded.
MoveCardToDone(w) ==
  /\ At(w, "card")
  /\ \/ CanSet(work[w].row, "done") /\ SetColumn(work[w].row.item, "done") /\ Answers
     \/ CannotSet(work[w].row, "done") /\ SetColumnPerhaps(work[w].row, "done")
  /\ IF work[w].op = "close"
     THEN ticket' = Finished /\ Return(w)
     ELSE UNCHANGED ticket /\ Continue(w, work[w])
  /\ UNCHANGED <<task, opened, closed, assigned, items>>

\* The issue is closed and nothing is missing: the task is completed.
Settle(w) ==
  /\ At(w, "settle")
  /\ task' = Completed
  /\ Continue(w, [work[w] EXCEPT !.settle = FALSE])
  /\ UNCHANGED <<ticket, github, counters>>

-----------------------------------------------------------------------------
(* Alex, and the end of the process.                                       *)

Moves ==
  /\ moves < MaxMoves
  /\ moves' = moves + 1
  /\ UNCHANGED <<work, ticket, calls, faults, exits, unheard>>

AlexMovesCard ==
  /\ Moves
  /\ \E i \in Items, column \in Columns :
       /\ OnBoard(i)
       /\ column # card[i].column
       /\ SetColumn(i, column)
  /\ UNCHANGED <<task, opened, closed, assigned, items>>

AlexDeletesCard ==
  /\ Moves
  /\ \E i \in Items :
       /\ OnBoard(i)
       /\ card' = [card EXCEPT ![i] = [issue |-> 0, column |-> NoColumn]]
  /\ UNCHANGED <<task, opened, closed, assigned, items>>

AlexClosesIssue ==
  /\ Moves
  /\ \E n \in (1 .. opened) \ closed : closed' = closed \union {n}
  /\ UNCHANGED <<task, opened, assigned, items, card>>

AlexReopensIssue ==
  /\ Moves
  /\ \E n \in closed : closed' = closed \ {n}
  /\ UNCHANGED <<task, opened, assigned, items, card>>

AlexLeavesIssue ==
  /\ Moves
  /\ \E n \in assigned : assigned' = assigned \ {n}
  /\ UNCHANGED <<task, opened, closed, items, card>>

AlexEndsTask ==
  /\ Moves
  /\ task.status \notin Closed
  /\ \E status \in Closed : task' = [status |-> status, by |-> "alex"]
  /\ UNCHANGED github

Alex == \/ AlexMovesCard \/ AlexDeletesCard \/ AlexClosesIssue
        \/ AlexReopensIssue \/ AlexLeavesIssue \/ AlexEndsTask

Exit ==
  /\ faults < MaxFaults
  /\ faults' = faults + 1
  /\ exits' = exits + 1
  /\ work' = [w \in Workers |-> Idle]
  /\ UNCHANGED <<task, ticket, github, calls, moves, unheard>>

Ask(w) ==
  \/ Reserve(w) \/ AskToMove(w) \/ AskToClose(w) \/ AskToSync(w)

Step(w) ==
  \/ Verify(w) \/ VerifyRaises(w)
  \/ OpenIssue(w) \/ OpenIssueRaises(w) \/ OpenIssueUnheard(w) \/ Opened(w)
  \/ Assign(w) \/ AssignRefused(w)
  \/ AddCard(w) \/ AddCardRaises(w)
  \/ SetStatus(w) \/ StatusNotSet(w) \/ FillFields(w)
  \/ Move(w) \/ MoveRaises(w) \/ Note(w) \/ NoteRaises(w)
  \/ ShutDone(w) \/ Complete(w)
  \/ Shut(w) \/ ShutRaises(w)
  \/ ReadIssue(w) \/ ReadCard(w) \/ ReadRaises(w)
  \/ MoveCardToDone(w) \/ Settle(w) \/ Retry(w)

Next ==
  \/ \E w \in Workers : Ask(w) \/ Step(w)
  \/ LoopSyncs
  \/ Alex
  \/ Exit

Spec == Init /\ [][Next]_vars

\* Coroutines on the event loop go on, and the periodic sync returns.
Fairness ==
  /\ \A w \in Workers : WF_vars(Step(w))
  /\ WF_vars(LoopSyncs)
FairSpec == Spec /\ Fairness

-----------------------------------------------------------------------------
(* Safety.                                                                 *)

\* The service completes the task of a ticket that requires a security review
\* only when the review was recorded, whichever of a tool's transition and a
\* sync completes it and however stale the row it carries
\* (engineering_service.py: transition, sync_ticket).
CompletedWasReviewed ==
  task.by = "engineering" /\ ticket.review => ticket.reviewed

\* The row is reserved before anything is opened, and a creation that failed
\* part way goes on with the issue it has: there is one issue, and one more
\* at most for each answer that was lost, each restart and each other caller
\* (engineering_service.py: create_ticket, _ensure_issue).
IssuesAccountedFor ==
  /\ opened > 0 => ticket.exists
  /\ opened <= unheard + Cardinality(Callers) * (1 + exits)

\* A task that is completed or cancelled stays so: no late mirroring of the
\* board and no second completion changes it (task_service.py: update_task,
\* complete_task).
ClosedTaskStays == [][task.status \in Closed => UNCHANGED task]_vars

-----------------------------------------------------------------------------
(* Liveness.                                                               *)

\* GitHub owns the workflow state: once Alex, the callers and the failures
\* rest, the ticket of unfinished work has the Status of its card, whatever
\* stale rows were written meanwhile (engineering_service.py: sync_ticket).
BoardIsAdopted ==
  <>[](LET column == card[ticket.item].column
       IN /\ OnBoard(ticket.item)
          /\ column # NoColumn
          /\ ticket.status # "done"
          => ticket.status = column)

-----------------------------------------------------------------------------
(* What the documents say and the code does not do.                        *)

\* 004_engineering.sql:51-52 says of sync_state "Whether every GitHub step of
\* creation finished. A ticket left incomplete is retried, never reported as
\* fully created."
SyncedIsFullyCreated ==
  ticket.sync = "synced" /\ (\A w \in Workers : work[w].op # "create") =>
    ticket.issue # 0 /\ ticket.confirmed /\ ticket.item # 0
=============================================================================
