---------------------------- MODULE PlanningCycle ----------------------------
(***************************************************************************)
(* One planning cycle, from its context to its record: PlanningCycle and   *)
(* PlanningService.                                                        *)
(*                                                                         *)
(* A cycle holds a lock.  It starts a run row, reads the calendar and the  *)
(* team, waits for the model's plan, checks every proposal of it against   *)
(* the database as it is then and the calendar as it was, has the accepted *)
(* ones carried out one by one, and completes or fails the row.  Between   *)
(* these steps Alex, the specialists and conversations go on.  The path of *)
(* one action through policy and approval is module ActionPipeline's, and  *)
(* a ticket's way to GitHub EngineeringTickets'; here each is one step     *)
(* with its outcomes.  What Google is asked for has its check, its call    *)
(* and its record, as in TaskCalendar.                                     *)
(***************************************************************************)
EXTENDS Integers, FiniteSets, Sequences

CONSTANTS PlannedTasks, Agents, Topics,
          Slots,           \* the horizon, as slots of MIN_MOVE_MINUTES
          WorkingSlots,    \* those in working hours and not protected
          MaxBlock,        \* MAX_BLOCK_MINUTES, in slots
          MaxActions,      \* max_actions
          CycleCap,        \* MAX_CYCLE_* of the kinds that have one
          DailyCap,        \* MAX_DAILY_* of the kinds that have one
          Plans,           \* what the model may answer: sequences of proposals
          MaxRuns, MaxDays \* bounds on rows and on midnights

Kinds == {"task", "delegate", "review", "reorg", "hire", "ticket", "priority", "ask",
          "followup", "schedule", "move"}
Daily == {"delegate", "review", "ticket"}
OnCalendar == {"schedule", "move"}
Capped == Kinds \ (OnCalendar \union {"followup"})

Blocks == {b \in Slots \X Slots : b[1] < b[2]}
NoBlock == <<0, 0>>
Other == "other"
Nil == "nil"

\* topic: a title, a message's topic or an objective, as far as repeats are told
\* apart; who: the specialists it is for.
Proposal == [kind : Kinds, topic : Topics \union {Nil}, who : SUBSET Agents,
             task : PlannedTasks \union {Nil}, block : Blocks \union {NoBlock}]

ASSUME PlanningAssumption ==
  /\ Slots \subseteq Nat /\ WorkingSlots \subseteq Slots
  /\ {MaxBlock, MaxActions, MaxRuns, MaxDays} \subseteq Nat
  /\ CycleCap \in [Capped -> Nat] /\ DailyCap \in [Daily -> Nat] /\ CycleCap["review"] <= 1
  /\ Plans \subseteq Seq(Proposal) /\ 0 \notin Slots /\ IsFiniteSet(Agents)
  /\ Nil \notin Agents \union Topics \union PlannedTasks /\ Other \notin PlannedTasks

VARIABLES
  open,       \* tasks that are neither completed nor cancelled
  block,      \* when each task is scheduled, by its row
  event,      \* where the event that its row knows stands
  calendar,   \* Google's events: <<task or Other, block>>
  ticket,     \* each task's engineering ticket: its row's, and Nil without one
  known,      \* <<kind, topic>> that is open or recent: a repeat
  asked,      \* <<agent, topic>> given in the last REPEAT_ASSIGNMENT_DAYS
  quiet,      \* which of hire and reorg were proposed within a fortnight
  working,    \* specialists with queued or running assignments
  made,       \* rows created today and yesterday, of the kinds with a daily cap
  day,        \* midnights so far
  runs,       \* planning_runs
  cycle,      \* the cycle that holds the lock
  cycled      \* delegations and reviews that cycles had carried out today

worldVars == <<open, block, event, calendar, ticket, known, asked, quiet, working, made, day>>
planningVars == <<worldVars, runs, cycle, cycled>>

Zero == [k \in Daily |-> 0]
NoCycle == [at |-> "none", run |-> 0, day |-> 0, busy |-> {}, readable |-> TRUE, team |-> TRUE,
            left |-> <<>>]

TicketStates == {Nil, "half", "open", "done"}    \* "half": not synced yet

\* at: with the first of left, a block, at Google ("call") or to be recorded;
\* readable, team: whether the calendar and the team could be read; left: what
\* of the accepted proposals is still to be carried out.
PlanningTypeOK ==
  /\ open \subseteq PlannedTasks /\ block \in [PlannedTasks -> Blocks \union {NoBlock}]
  /\ event \in [PlannedTasks -> Blocks \union {NoBlock}]
  /\ calendar \subseteq (PlannedTasks \union {Other}) \X Blocks
  /\ ticket \in [PlannedTasks -> TicketStates]
  /\ known \subseteq Kinds \X Topics /\ asked \subseteq Agents \X Topics
  /\ quiet \subseteq {"hire", "reorg"} /\ working \subseteq Agents
  /\ made.today \in [Daily -> Nat] /\ made.yesterday \in [Daily -> Nat] /\ day \in 0 .. MaxDays
  /\ runs \in Seq([status : {"running", "completed", "failed"}, cycle : BOOLEAN])
  /\ cycle.at \in {"none", "gather", "plan", "propose", "call", "record", "failing"}
  /\ cycle.left \in Seq(Proposal) /\ cycle.run \in 0 .. Len(runs)
  /\ cycled \in [Daily -> Nat]

PlanningInit ==
  /\ open = PlannedTasks /\ block = [t \in PlannedTasks |-> NoBlock] /\ calendar = {}
  /\ event = block
  /\ ticket = [t \in PlannedTasks |-> Nil] /\ known = {} /\ asked = {} /\ quiet = {}
  /\ working = {} /\ made = [today |-> Zero, yesterday |-> Zero] /\ day = 0
  /\ runs = <<>> /\ cycle = NoCycle /\ cycled = Zero

-----------------------------------------------------------------------------
(* Validation.                                                             *)

Overlap(a, b) == a[1] < b[2] /\ b[1] < a[2]
Distance(m, n) == IF m < n THEN n - m ELSE m - n
CountKind(ps, k) == Cardinality({i \in DOMAIN ps : ps[i].kind = k})

\* Rows created since the cycle's day began, which may have been yesterday.
MadeSince(k) == made.today[k] + IF cycle.day < day THEN made.yesterday[k] ELSE 0

\* Follow-ups and blocks have no cap of their own.
CycleLeaves(p, acc) ==
  Len(acc) < MaxActions /\ (p.kind \in Capped => CountKind(acc, p.kind) < CycleCap[p.kind])

\* Mutant of CapsLeave: a plan's own proposals are not added to the day's.
CapsLeaveDay(p, acc) ==
  CycleLeaves(p, acc) /\ (p.kind \in Daily => MadeSince(p.kind) < DailyCap[p.kind])

\* A review counts as the rows it creates, so any of them today is the day's one.
CapsLeave(p, acc) ==
  /\ CycleLeaves(p, acc)
  /\ p.kind \in {"delegate", "ticket"} =>
       MadeSince(p.kind) + CountKind(acc, p.kind) < DailyCap[p.kind]
  /\ p.kind = "review" => MadeSince("review") < DailyCap["review"]

Same(p, acc) == \E i \in DOMAIN acc : acc[i].kind = p.kind /\ acc[i].topic = p.topic

\* Mutant of BlockFits: the blocks of the plan itself are not looked at.
BlockFitsBusy(p, acc) ==
  \A e \in cycle.busy : e # <<p.task, event[p.task]>> => ~Overlap(p.block, e[2])

\* Within the horizon and working time, neither too short nor too long, and clear
\* of what was on the calendar when it was read, but for the task's own event, and
\* of the plan.
BlockFits(p, acc) ==
  /\ p.block[2] - p.block[1] \in 1 .. MaxBlock /\ p.block[1] .. p.block[2] - 1 \subseteq WorkingSlots
  /\ \A e \in cycle.busy : e # <<p.task, event[p.task]>> => ~Overlap(p.block, e[2])
  /\ \A i \in DOMAIN acc : acc[i].kind \in OnCalendar => ~Overlap(p.block, acc[i].block)

\* What each kind is checked for, beyond the caps: what is written down, asked or
\* given has words.
IsNew(p, acc) == p.topic # Nil /\ <<p.kind, p.topic>> \notin known /\ ~Same(p, acc)

SoundTask(p, acc) == p.kind = "task" /\ IsNew(p, acc)

SoundQuestion(p, acc) == p.kind = "ask" /\ IsNew(p, acc)

SoundFollowup(p, acc) == p.kind = "followup" /\ IsNew(p, acc)

SoundDelegation(p, acc) ==
  /\ p.kind = "delegate" /\ p.topic # Nil /\ cycle.team
  /\ \A a \in p.who : /\ a \notin working /\ <<a, p.topic>> \notin asked
                      /\ \A i \in DOMAIN acc : acc[i].kind = "delegate" => a \notin acc[i].who

SoundReview(p) ==
  /\ p.kind = "review" /\ p.topic # Nil /\ cycle.team
  /\ Cardinality(p.who) >= 2 /\ p.who \cap working = {}

SoundReorganisation(p) == p.kind = "reorg" /\ "reorg" \notin quiet

SoundHire(p) == p.kind = "hire" /\ "hire" \notin quiet

\* A ticket that is not synced may be asked for again.
SoundTicket(p) == p.kind = "ticket" /\ p.task \in open /\ ticket[p.task] \in {Nil, "half"}

SoundPriority(p, acc) ==
  /\ p.kind = "priority" /\ p.task \in PlannedTasks /\ ticket[p.task] \in {"half", "open"}
  /\ \A i \in DOMAIN acc : acc[i].kind = "priority" => acc[i].task # p.task

SoundBlock(p, acc) ==
  /\ p.kind \in OnCalendar /\ cycle.readable /\ p.task \in open
  /\ \A i \in DOMAIN acc : acc[i].kind \in OnCalendar => acc[i].task # p.task
  /\ p.kind = "schedule" => event[p.task] = NoBlock
  /\ p.kind = "move" => event[p.task] # NoBlock /\ Distance(p.block[1], block[p.task][1]) >= 1
  /\ BlockFits(p, acc)

Sound(p, acc) ==
  \/ SoundTask(p, acc) \/ SoundQuestion(p, acc) \/ SoundFollowup(p, acc)
  \/ SoundDelegation(p, acc) \/ SoundReview(p) \/ SoundReorganisation(p) \/ SoundHire(p)
  \/ SoundTicket(p) \/ SoundPriority(p, acc) \/ SoundBlock(p, acc)

\* validate_cycle_actions: what is accepted of a plan, in its order.
Accepted(plan) ==
  LET of[n \in 0 .. Len(plan)] ==
        IF n = 0 THEN <<>>
        ELSE IF CapsLeave(plan[n], of[n - 1]) /\ Sound(plan[n], of[n - 1])
             THEN Append(of[n - 1], plan[n]) ELSE of[n - 1]
  IN of[Len(plan)]

-----------------------------------------------------------------------------
(* The cycle.                                                              *)

NewRow(ofCycle) == [status |-> "running", cycle |-> ofCycle]

\* fail_stale, after hours: every row that still runs, the cycle's own included
\* if the host slept in the middle of it.
AfterStale(rows) ==
  {rows, [i \in DOMAIN rows |->
            IF rows[i].status = "running" THEN [rows[i] EXCEPT !.status = "failed"] ELSE rows[i]]}

\* run, with the lock: get_planning_context starts the row in its transaction.
StartCycle ==
  /\ cycle.at = "none" /\ Len(runs) < MaxRuns
  /\ \E rows \in AfterStale(runs) : runs' = Append(rows, NewRow(TRUE))
  /\ cycle' = [NoCycle EXCEPT !.at = "gather", !.run = Len(runs) + 1, !.day = day]
  /\ UNCHANGED <<worldVars, cycled>>

\* _gather: the calendar and the team, each of which may be unavailable.
Gather ==
  /\ cycle.at = "gather"
  /\ \E readable, team \in BOOLEAN :
       cycle' = [cycle EXCEPT !.at = "plan", !.readable = readable, !.team = team,
                              !.busy = IF readable THEN calendar ELSE {}]
  /\ UNCHANGED <<worldVars, runs, cycled>>

Failing == [NoCycle EXCEPT !.at = "failing", !.run = cycle.run]

\* The model's answer, or its failure; then the validation, in one read.
Plan ==
  /\ cycle.at = "plan"
  /\ \/ \E plan \in Plans :
          cycle' = [NoCycle EXCEPT !.at = "propose", !.run = cycle.run, !.left = Accepted(plan)]
     \/ cycle' = Failing
  /\ UNCHANGED <<worldVars, runs, cycled>>

\* propose, as far as a cycle is concerned: the handler's own check refuses what
\* changed since; it may fail; else the action has its effect.
CountedMade(p) == [made EXCEPT !.today[p.kind] = @ + IF p.kind = "review" THEN Cardinality(p.who) ELSE 1]

WriteDown(p) ==
  /\ p.kind \in {"task", "followup", "ask"}
  /\ known' = known \union {<<p.kind, p.topic>>}
  /\ UNCHANGED <<ticket, asked, quiet, working, made, cycled>>

CommissionWork(p) ==
  /\ p.kind \in {"delegate", "review"}
  /\ working' = working \union p.who /\ made' = CountedMade(p)
  /\ cycled' = [cycled EXCEPT ![p.kind] = @ + 1]
  /\ asked' = asked \union {<<a, p.topic>> : a \in p.who}
  /\ UNCHANGED <<ticket, known, quiet>>

\* create_ticket: a row, or the one that is there, taken all the way or left half.
OpenTicket(p) ==
  /\ p.kind = "ticket" /\ p.task \in open /\ ticket[p.task] \in {Nil, "half"}
  /\ \E state \in {"half", "open"} : ticket' = [ticket EXCEPT ![p.task] = state]
  /\ \/ /\ ticket[p.task] = Nil
        /\ made' = CountedMade(p) /\ cycled' = [cycled EXCEPT ![p.kind] = @ + 1]
     \/ ticket[p.task] # Nil /\ UNCHANGED <<made, cycled>>
  /\ UNCHANGED <<known, asked, quiet, working>>

AskApproval(p) ==
  /\ p.kind \in {"hire", "reorg"}
  /\ quiet' = quiet \union {p.kind}
  /\ UNCHANGED <<ticket, known, asked, working, made, cycled>>

Effect(p) == WriteDown(p) \/ CommissionWork(p) \/ OpenTicket(p) \/ AskApproval(p)

\* The proposal is dealt with: refused or failed is a result like any other, and
\* an exception that is no ValueError ends the cycle with what was done so far.
DealtWith == cycle' = [cycle EXCEPT !.at = "propose", !.left = Tail(@)]
GivenUp == DealtWith \/ cycle' = Failing

Propose ==
  /\ cycle.at = "propose" /\ cycle.left # <<>>
  /\ \/ DealtWith /\ Effect(Head(cycle.left))
     \/ GivenUp /\ UNCHANGED <<ticket, known, asked, quiet, working, made, cycled>>
  /\ UNCHANGED <<open, block, event, calendar, day, runs>>

\* check_schedule_task and check_move_event.
CheckBlock ==
  LET p == Head(cycle.left) IN
  /\ cycle.at = "propose" /\ cycle.left # <<>>
  /\ p.kind \in OnCalendar /\ p.task \in open
  /\ p.kind = "schedule" <=> event[p.task] = NoBlock
  /\ cycle' = [cycle EXCEPT !.at = "call"] /\ UNCHANGED <<worldVars, runs, cycled>>

\* Google makes or moves the event, and the answer may be lost; or it does not.
CallGoogle ==
  LET p == Head(cycle.left) IN
  /\ cycle.at = "call"
  /\ \/ /\ cycle' = [cycle EXCEPT !.at = "record"] \/ GivenUp
        /\ calendar' = (calendar \ {<<p.task, event[p.task]>>}) \union {<<p.task, p.block>>}
        /\ event' = IF p.kind = "move" THEN [event EXCEPT ![p.task] = p.block] ELSE event
     \/ GivenUp /\ UNCHANGED <<calendar, event>>
  /\ UNCHANGED <<open, block, ticket, known, asked, quiet, working, made, day, runs, cycled>>

\* record_schedule_task and record_move_event.
RecordBlock ==
  LET p == Head(cycle.left) IN
  /\ cycle.at = "record"
  /\ \/ /\ DealtWith
        /\ block' = [block EXCEPT ![p.task] = p.block] /\ event' = [event EXCEPT ![p.task] = p.block]
     \/ GivenUp /\ UNCHANGED <<block, event>>
  /\ UNCHANGED <<open, calendar, ticket, known, asked, quiet, working, made, day, runs, cycled>>

\* Mutant of Complete: the row is marked whatever it says.
CompleteAnyway ==
  /\ cycle.at = "propose" /\ cycle.left = <<>>
  /\ runs' = [runs EXCEPT ![cycle.run].status = "completed"] /\ cycle' = NoCycle
  /\ UNCHANGED <<worldVars, cycled>>

\* complete_cycle refuses a row that no longer runs, and the cycle then fails.
Complete ==
  /\ cycle.at = "propose" /\ cycle.left = <<>>
  /\ \/ /\ runs[cycle.run].status = "running"
        /\ runs' = [runs EXCEPT ![cycle.run].status = "completed"] /\ cycle' = NoCycle
     \/ /\ runs[cycle.run].status # "running"
        /\ cycle' = Failing /\ UNCHANGED runs
  /\ UNCHANGED <<worldVars, cycled>>

FailRun ==
  /\ cycle.at = "failing" /\ cycle' = NoCycle
  /\ runs' = [runs EXCEPT ![cycle.run].status = IF @ = "running" THEN "failed" ELSE @]
  /\ UNCHANGED <<worldVars, cycled>>

\* The server stops: the lock is gone and the row stays.
StopServer ==
  /\ cycle # NoCycle /\ cycle' = NoCycle /\ UNCHANGED <<worldVars, runs, cycled>>

-----------------------------------------------------------------------------
(* What goes on meanwhile.                                                 *)

\* planning_get_context in a conversation starts a row too, which
\* planning_record_plan completes.
Converse ==
  /\ \/ /\ Len(runs) < MaxRuns
        /\ \E rows \in AfterStale(runs) : runs' = Append(rows, NewRow(FALSE))
     \/ \E i \in DOMAIN runs :
          /\ runs[i] = NewRow(FALSE) /\ runs' = [runs EXCEPT ![i].status = "completed"]
  /\ UNCHANGED <<worldVars, cycle, cycled>>

CloseTask(t) ==
  /\ t \in open /\ open' = open \ {t}
  /\ UNCHANGED <<block, event, calendar, ticket, known, asked, quiet, working, made, day, runs, cycle, cycled>>

\* Its ticket is done on GitHub, and the sync completes the task.
Ship(t) ==
  /\ ticket[t] = "open" /\ ticket' = [ticket EXCEPT ![t] = "done"] /\ open' = open \ {t}
  /\ UNCHANGED <<block, event, calendar, known, asked, quiet, working, made, day, runs, cycle, cycled>>

\* Alex puts something else on his calendar.
Book(b) ==
  /\ \A e \in calendar : e[1] # Other
  /\ calendar' = calendar \union {<<Other, b>>}
  /\ UNCHANGED <<open, block, event, ticket, known, asked, quiet, working, made, day, runs, cycle, cycled>>

Report(a) ==
  /\ a \in working /\ working' = working \ {a}
  /\ UNCHANGED <<open, block, event, calendar, ticket, known, asked, quiet, made, day, runs, cycle, cycled>>

Midnight ==
  /\ day < MaxDays /\ day' = day + 1
  /\ made' = [today |-> Zero, yesterday |-> made.today] /\ cycled' = Zero
  /\ UNCHANGED <<open, block, event, calendar, ticket, known, asked, quiet, working, runs, cycle>>

Meanwhile ==
  \/ Converse \/ Midnight
  \/ \E t \in PlannedTasks : CloseTask(t) \/ Ship(t)
  \/ \E b \in Blocks : Book(b)
  \/ \E a \in Agents : Report(a)

CycleStep ==
  Gather \/ Plan \/ Propose \/ CheckBlock \/ CallGoogle \/ RecordBlock \/ Complete \/ FailRun

PlanningNext == StartCycle \/ CycleStep \/ StopServer \/ Meanwhile

-----------------------------------------------------------------------------
(* Properties.                                                             *)

Accept(k) == CountKind(cycle.left, k)

\* What a cycle is about to carry out never contradicts itself: no two of its
\* blocks overlap or belong to one task, no specialist is given two assignments,
\* nothing is opened or asked twice, no ticket is ranked twice, and no more of a
\* kind is in it than its cap (validate_cycle_actions, whose checks are made one
\* proposal at a time).
PlanIsConsistent ==
  /\ Len(cycle.left) <= MaxActions /\ \A k \in Capped : Accept(k) <= CycleCap[k]
  /\ \A i, j \in {n \in DOMAIN cycle.left : cycle.left[n].kind \in OnCalendar} :
       i # j => /\ ~Overlap(cycle.left[i].block, cycle.left[j].block)
                /\ cycle.left[i].task # cycle.left[j].task
  /\ \A i, j \in {n \in DOMAIN cycle.left : cycle.left[n].kind = "delegate"} :
       i # j => cycle.left[i].who \cap cycle.left[j].who = {}
  /\ \A i, j \in {n \in DOMAIN cycle.left : cycle.left[n].kind = "priority"} :
       i # j => cycle.left[i].task # cycle.left[j].task
  /\ \A i, j \in {n \in DOMAIN cycle.left : cycle.left[n].kind \in {"task", "followup", "ask"}} :
       i # j => <<cycle.left[i].kind, cycle.left[i].topic>> # <<cycle.left[j].kind, cycle.left[j].topic>>

\* However many cycles run in a day, and also when one of them began the day
\* before, they commission no more than the day's share, of tickets the rows they
\* create, also when one is finished later (day_start is when the cycle's day
\* began, and the rows are counted as they are then).
DayIsBounded == \A k \in Daily : cycled[k] <= DailyCap[k]

PlanningIsSound == PlanIsConsistent /\ DayIsBounded

\* A run that ended stays as it ended, whoever ends it again: the cycle, the next
\* cycle's sweep of stale rows, or a plan recorded in conversation.
RunsStayEnded ==
  [][\A i \in DOMAIN runs : runs[i].status # "running" => runs'[i] = runs[i]]_runs
=============================================================================
