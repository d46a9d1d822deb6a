# Gary: a TLA+ model of the company's assistant

Gary is an assistant that runs a small company for one person, Alex.  One
FastAPI process (`src/backend`) holds the state in SQLite, talks to Alex
through a voice client and a few web pages, gives work to a team of model-run
employees, and acts on the outside world: Google Calendar, Gmail, Joplin,
GitHub, payment cards.  Everything runs on one asyncio event loop, with
threads for the executors of the team and a second process, the operator's
command line, on the same database.

What is hard in this program is never the single transaction.  It is what
happens between two of them: another coroutine runs at each `await`, an
external call fails or succeeds without an answer, the process dies, Alex
decides or moves a card meanwhile, and a row that was read three awaits ago is
written back.  The models keep exactly that: a SQLite transaction is one step,
a coroutine stops at every `await`, and everything else may happen in between.

Paths below are relative to `src/backend/` unless they start with `src/`.


## 1  Inventory

Twenty-seven parts, with how far the modules go: *modelled*, *partly*, or not.
`PROJECT.json` gives the sources of each and what "partly" leaves out.

### Acting

| part | state | operations | what makes it correct |
|---|---|---|---|
| Action pipeline (modelled) `gary/services/action_service.py` | `actions` | propose, execute | no effect without authority, never twice, outcome and audit honest |
| Approvals (modelled) `gary/services/approval_service.py` | `approvals` | request, list, resolve, expire | a decision is final, stale requests lapse, the row agrees with its action |
| Policy (modelled) `gary/policy.py` | none | risk of a type, escalation | a handler may raise a risk and never lower it |
| Internal and team actions (partly) `gary/services/internal_actions.py`, `team_actions.py`, `engineering_actions.py` | tasks, follow-ups | classify, check, execute, record | each does what was approved |
| Calendar actions (partly) `app/calendar_actions.py`, `gary/services/calendar_blocks.py` | Google events, `tasks.calendar_event_id` | schedule, move, find free blocks | one event per task, the row tells where it is, blocks are free working time |
| Finance: card and purchases (modelled) `gary/finance/purchases.py`, `cards.py` | `purchases`, `payment_cards`, a file | request, check, record, freeze, remove | monthly limits, a removed card leaves no number |
| Hiring and reorganisation (modelled) `gary/services/hiring_*.py`, `reorg_actions.py`, `gary/agents/hiring.py` | `hires`, roster, chart | propose, commission, build, refresh, comment | who is hired is who was approved, the roster is valid, the chart leads to the chief |

### Speaking

| part | state | operations | what makes it correct |
|---|---|---|---|
| Conversation (modelled) `gary/services/conversation_service.py`, `gary/db/repositories/spoken.py`, `app/main.py` | `spoken_messages` | ask_user, announce, speak, raise_with_user, deliver, mention, repeat, answer, sweep | nothing lost, recorded once, caps, no credit for an answer never given |
| Spoken notebook (partly) `app/notebooks.py` | a Joplin note per day | read, extend, write | every line in it was said |
| Voice turns and tools (partly) `app/voice_turn.py`, `realtime_session.py`, `tool_dispatch.py` | history, response gate, what was sent | transcribe, respond, call tool, reconnect | inputs are paired, no result unsaid, a mail goes out once |
| Voice client (partly) `src/voice/voice_client.py`, `segmentation.py` | queue of blocks, utterance, session | capture, listen, send, hold back | the microphone closes, what is held is said |
| Mail, notes, sign-in (partly) `app/gmail.py`, `joplin.py`, `google_auth.py` | two watchers' cursors | check, announce, reply, send | new mail announced at most once and within reach of the next check |

### Working

| part | state | operations | what makes it correct |
|---|---|---|---|
| Agent team (partly) `gary/agents/service.py`, `runner.py`, `app/team_cli.py` | `agent_assignments`, `agent_runs`, `management_reviews` | delegate, start review, follow up, run, recover | a row runs once, records agree, capacity, the review's status |
| Tool gateway and executors (partly) `gary/agents/gateway.py`, `crew.py` | budget per run | tool calls | budgets kept under parallel calls |
| Product search (modelled) `gary/services/product_search.py` | `product_searches`, rounds | start, advance, stop | one round open, each counted once, it ends |
| Engineering tickets (partly) `gary/services/engineering_service.py` | `engineering_tickets`, GitHub issue, Project card | create, retry, transition, complete, sync | review before completion, issues accounted for, GitHub's status adopted |
| Production (partly) `gary/services/production.py` | batches, episodes, stages | plan, book, close | one episode a week, whole batches, stages in order |
| Tasks, projects, dependencies (modelled) `gary/services/task_service.py`, `project_service.py`, `readiness.py` | `tasks`, `projects`, `task_dependencies` | create, plan, update, complete, depend | no cycle, work can go on, a completion tells the truth |
| Follow-ups and commitments (modelled) `gary/services/followup_service.py` | one row each | create, complete, cancel | closed with their task |

### Thinking and reporting

| part | state | operations | what makes it correct |
|---|---|---|---|
| Planning cycle (modelled) `gary/services/planning_cycle.py`, `planning_service.py` | `planning_runs`, a lock | gather, plan, validate, propose, record | a plan does not contradict itself, caps, an ended run stays ended |
| Management loop (modelled) `gary/services/management_loop.py` | last tick, day's count | wake, measure, decide | budget, minimum gap, news read |
| Finance: ledger and spend gate (partly) `gary/finance/usage.py`, `pricing.py` | `usage`, cached total, prices | allowed, record, set price | work that asks overshoots the ceiling by a known amount, tokens charged once |
| Accountability (partly) `gary/services/accountability.py`, `daily_report.py`, `review_service.py` | once-a-day records, reviews | assign, check in, report, review | each once a day, reviews spaced |
| Operating state, email commands (modelled) `gary/services/operating.py` | `operating_state`, cursor | poll, pause, resume | the newest command holds, none is passed over |

### Below

| part | state | operations | what makes it correct |
|---|---|---|---|
| Database, migrations, backup (partly: transactions) `gary/db/connection.py` | SQLite | transaction | `BEGIN IMMEDIATE`, rolled back on any exception |
| Pages, configuration, dry run (partly: the web decision) `app/pages.py` | | approve, reject | |
| EASE (not) `src/EASE` | | analysis over HTTP | a separate service, nothing here depends on its state |

### How they interact

A planning cycle, a voice tool, an email or a loop **proposes** an action.  A
green one runs at once; a yellow one becomes an approval, which
**Conversation** raises with Alex (a callback of the approval service, and a
catch-up in the delivery loop, both); Alex decides by voice or on the page, and
the same service executes.  A `delegate_to_agent` or `run_management_review`
action starts coroutines of the **agent team**, whose end is announced back
through Conversation.  `create_engineering_ticket` and the production tick call
the **engineering service**, whose periodic sync completes **tasks**, which
change readiness and the next plan.  The **product search** delegates its
rounds to the team.  The **spend gate** is asked by what thinks unattended: the
scheduler once for a pass, the management loop for each cycle, each specialist's
run, a round of reviews once for all its members, each turn of the older voice
mode, a Realtime connection when it connects, the product search's command line.
It is *not* asked by replanning after a missed block (`main.py:415-432`), by a cycle
that Alex asks for in conversation, nor by the command line's conversation
(`app/ask.py`).  Every part writes `audit_log` in the transaction of what it records.


## 2  Modules

| module | models | composed in |
|---|---|---|
| `Policy` | the policy table, escalation, the web-only set | `ActionPipeline` |
| `ApprovalGate` | *abstract*: what the pipeline promises, a gate in front of each action | |
| `ActionPipeline` | ActionService, ApprovalService, the two ways to decide; refines `ApprovalGate` | `MCActionPipeline` |
| `Conversation` | spoken messages, their three carriers, the notebook, approvals being raised | `MCConversation` |
| `AgentTeam` | AgentService, GaryCorpAgentRunner, both processes | `MCAgentTeam` |
| `EngineeringTickets` | EngineeringTicketService with GitHub, Alex and the periodic sync | `MCEngineeringTickets` |
| `Switches` | paused or running, spending open or closed | the next four, `DayRoutine` |
| `Operating` | the mailed commands, the cursor, the polling pass | `MCUnattended` |
| `ProductSearch` | a search, its rounds, and the callers of `advance` | `MCUnattended`, `MCCompany` |
| `ManagementLoop` | the loop, the scheduler and replanning around the cycle's lock | `MCUnattended` |
| `VoiceClient` | the microphone's queue, wake word, utterances, a session's clocks | `MCUnattended` |
| `PlanningCycle` | a cycle from its context to its record | `MCCompany` |
| `TaskGraph` | projects, tasks, dependencies, follow-ups | `MCCompany` |
| `TaskCalendar` | scheduling and moving a task's block around Google | `MCCompany` |
| `WorkingTime` | free blocks: the interval arithmetic | `MCCompany` |
| `DayRoutine` | the morning's assignment, the evening's check-in, the report | `MCCompany` |
| `Reviews` | rounds of performance reviews | `MCCompany` |
| `Hiring`, `OrgChart` | hires and the roster; reorganisations and the chart | `MCCompany` |
| `Production` | batches, episodes, fixed hours | `MCCompany` |
| `Purchases`, `Spending` | card, limits and tool budgets; costs and the ceiling | `MCCompany` |
| `Realtime`, `VoiceSession`, `NewMail` | the two voice modes' connections; announcing mail | `MCCompany` |
| `ActionPipelineProofs`, `AgentTeamProofs`, `EngineeringTicketsProofs`, `ConversationProofs` | the theorems about these four (section 5) | |
| `SearchProofs`, `UnattendedProofs` | ... about the components of `MCUnattended` and the module itself | |
| `OfficeProofs`, `CompanyProofs` | ... about the components of `MCCompany` and the module itself | |

The components meet through narrow interfaces that the models keep as
nondeterminism: an approval is *requested, settled or lapsed* in `Conversation`; a
caller *asks for a ticket* in `EngineeringTickets`; an assignment *starts and ends*
in `ProductSearch`; every unattended component reads the two `Switches`, which
others flip at any moment.  That is why `MCUnattended` and `MCCompany` may follow
one component at a time: each of their behaviours chooses at the start which of the
components runs, and what it would meet of the others is already a free choice
of its own module.

### ActionPipeline

A row of `actions` and its approval are created together and linked one to one,
so every variable is indexed by the action: `status`, `risk`, `approval`,
`channel` (from the approval's audit row), `age`, `audit` (event types), `pc`
(the coroutine of each caller in `execute`), `effects` (how often the world
changed).

- `Propose` is `propose`: classification, escalation, then red is rejected,
  yellow waits, green goes straight to `execute`.
- `Decide` is `resolve` from the web page or by voice, with the expiry of
  everything stale *in the same transaction*, the web-only refusal and the
  refusal of what is already decided.
- `Execute` is the rest of `execute`: the claim (a compare and set on the
  status), the handler's check, the external call, the transaction that
  records; each may fail, the external one after it had its effect, and an
  exception in the recording transaction rolls back what the handler wrote.
- `ExpireStale` is the listing that expires; `Tick` the clock; `Crash` the end of
  the process between two steps.  `Abandoned` ends one coroutine by what `execute`
  does not catch: a cancellation at its await, a handler's check that raises
  anything but a `ValueError` (the claim is rolled back, the action stays approved
  and nobody runs it), a `_mark_failed` that fails.
- `Listen` is whether a voice client is connected out of quiet hours, without which
  the delivery loop does not list approvals (`main.py:829-831`).

Payload validation and what the handlers check are a free choice of outcome.

### Conversation

`row`, `status`, `said`, `repeats`, `written` are the table; `heard` counts
broadcasts to a voice client, which no table records; `task` holds what each
of three carriers (the caller of `speak()`, the delivery loop, a session
that takes over held messages) read and where it stands; `note` and `spare`
are the notebook, the second because a note is created when a search does not
find the first.

- `AskUser` is the `ask_user` action with its caps and its check for an open
  question on the same topic; `Speak` is `announce` followed by delivery.
- `RaiseWithUser` is the approval's callback, `LoopStep` one pass of
  `run_spoken_delivery` (sweep, catch-up of approvals, delivery, writing down).
- `Deliver` and `Mirror` are the two halves of a carrier: send, then mark in a
  transaction that refuses a row which has moved on; read the note, then write
  it back, which may fail or succeed without an answer.
- `Alex` answers, decides, asks for a repeat; `Lapse`, `Tick`, `SceneChanges`
  (connected or not, quiet hours) and `Crash` happen on their own.

### AgentTeam

`status`, `run`, `verdict`, `followUps` are the rows; `task[p][i]` is the
coroutine of process `p` for assignment `i` (waiting at the gate, for the
semaphore, claiming, executing, recording, announcing); `roster[p]` is
what the process loaded when it started; `spending` is the gate.

- `Delegate`, `StartReview`, `FollowUp` create rows under the capacity check,
  the first two from either process.  They commit in a thread; `Begin` is the
  `_start` of their caller afterwards.  `CallerCancelled` is the caller that is
  cancelled at that await (`realtime_session.py:302-311`): the rows stay queued
  with no coroutine, which `cut` remembers until the server starts again.
- `Step` is `run_assignment` await by await.  The claim is a compare and set;
  an agent missing from the roster raises inside the claim's transaction, which
  rolls the failure mark back.
- `Exit` kills a process and its coroutines; `Recover` is the server's start,
  which fails *every* running row, also those of a live command line, and
  starts every queued one; `RestartQueued` is the product search's pass.
- `link` is the search's side of it: a row that an open round of a running search
  names (`Attach`), or that no round waits for any more (`LetGo`: the search is
  stopped, or another pass abandoned the round).  Only the former are restarted.

### EngineeringTickets

One task and its ticket; `task_id` is unique and no operation reads another
task's ticket, so one stands for all.  `opened`, `closed`, `assigned`, `items`,
`card` are GitHub: issues and cards, where each card stands.  `work[w]` is a
worker's coroutine with **the row it read last**, which it decides by and
writes back.

- `Ask` starts create, transition, complete, the closing of a production stage
  or one ticket's sync; `LoopSyncs` starts `sync_all` with the rows that
  `list_syncable` returns.
- `Step` goes on to the next `await`.  Each GitHub call may fail before or
  after its effect; `create_issue` is a POST that the client sends again after a
  time-out.
- `Alex` drags and deletes cards, closes and reopens issues, leaves one, and
  completes or cancels the task in Gary.  `Exit` is a restart.


### What works unattended

- **Operating.**  `mail` is the inbox, `cursor` how far commands were dealt with,
  `pass` one polling pass.  `Poll` lists (Gmail may show a message after a
  later one) and sorts by date; `SetPaused`, `AdvanceCursor` and `TellOrSkip` are
  the two transactions and the telling of `apply_command`; an exception or
  `ServerStops` ends the pass between any two.
- **ProductSearch.**  `search`, `rounds` are the tables; a caller of `advance` is
  the loop, the callback of an ended assignment, `start()` or the command line.
  `ReadSwitches` is the look before the transaction, `Step` the transaction (take
  in a round, decide, claim), `Delegate` and `Attach` what follows, `Abandon` a
  refused delegation, `Restart` the row left queued at the gate, `Tell` the end.
  `RunStarts`, `RunEnds` are `AgentTeam`'s, `Exit` a process.
- **ManagementLoop.**  An event is *new*, *reading* or *read* relative to the last
  cycle.  `LoopWakes` finds triggers, `LoopMeasures` looks at the gap, `LoopDecides`
  takes from the day's budget and queues for the lock.  `SchedulerReads` takes down
  the types that have not run today, `SchedulerLooks` asks the switches and
  `SchedulerDue` queues, one type after the other; `Replan` is a conversation that
  asks for a cycle (`planning_run_cycle`: any scheduled type, or `manual`) or a
  connection that saw a missed block, each with its own gap, looked at by `Begin`
  with the lock held.  `Finish` ends the holder, `CutOff` cancels it with its
  connection.  A type that Alex asks for while the scheduler waits runs twice that
  day; what is bounded is what the scheduler begins.
- **VoiceClient.**  A tick is a block of audio.  `VoiceTick` is the microphone's thread
  (a full queue drops), `HearBlock` the loop, `CheckEnds` Whisper, which starts the
  utterance with whatever the pre-roll comes to (`PreRolls`); `Reply`,
  `Announce`, `Reconnect` are what comes from the backend.

### Thinking and working

- **PlanningCycle.**  `StartCycle` sweeps stale rows and writes the run, `Gather`
  reads the calendar and the counts, `Plan` is the model's answer with
  `validate_cycle_actions` (one `Sound...` for each kind of proposal),
  `Propose` carries out one accepted proposal (one operator for each effect), a
  block in three steps, `CheckBlock`, `CallGoogle` (whose answer may be lost) and
  `RecordBlock`, `Complete` and `FailRun` end the row.  `max_actions` caps all kinds,
  and only the kinds in `Capped` have a cap of their own; follow-ups and blocks have
    none.  A ticket may stay half made and is then asked for again.  The validation
  goes through the proposals
  in their order with what it has accepted so far; `Accepted` is that loop as a
  recursive function.  `Converse`, `CloseTask`, `Book`, `Report`, `Midnight` happen
  meanwhile; so does `StopServer`.
- **TaskGraph.**  One action per transaction.  `MayDepend` is the check of
  `add_dependency_in`; `Reaches` says by closed sets what the recursive query
  computes, so that it can be proved about.
- **TaskCalendar.**  Two carriers each take an approved action through
  `CheckErrand`, `Insert` or `Patch` or `CallFails`, and `RecordErrand`; meanwhile the
  voice deletes events, tasks progress, commitments are made, and Alex deletes and
  moves events in Google himself (`RemovedInGoogle`, `MovedInGoogle`).  Two variables
  are the specification's own account: `tangled`, the tasks two of whose actions
  overlapped or one of which was cut off after Google, and `shifted`, the events Alex
  moved since Gary set them.
- **WorkingTime.**  `FreeBlocks` is `find_free_blocks`: `Cursors` and `Gap` follow the
  loop of `_subtract` over the sorted busy times, `Windows`, `Protected` and `Clip`
  what it is given; `Problem` is the other piece of code, the check a booking
  meets.  The property relates the two.
- **DayRoutine.**  A pass takes the time once; `Morning...`, `Evening...` and
  `Report...` are its halves around each await, `RecordOnce` the check of the
  audit log.
- **Reviews.**  `RoundBegins` plans from the table (`round` holds the places, in the
  order of the roster, that are still to come), `RoundJudges` and `Judged` write one
  review each with nothing held in between, `ToolJudges` is Gary's own tool.
- **Hiring**, **OrgChart.**  `Commission` is the second check and the ticket's
  reservation; `IssueOpened`, `Requested`, `Comment` are the steps around GitHub,
  whose answer to the comment may be lost like its request (`breaks` counts the
  comments that were taken and not written down);
  `Build`, `Dismiss`, `Refresh` the roster; `toFollow` is what the follow-up has
  still to comment on, taken in the tickets' order.  A reorganisation is checked when
  proposed and when approved, and becomes the chart at `Deploy`; `After` is the
  chart with the last change of each member.
- **Production.**  `BeginDay` is the loop's look at the date, with its record of the
  day's attempts (`dayRecord`), `PlanUpcoming` creates what is within the horizon,
  `BookFixedTasks` tries the calendar, `Raises` ends an attempt, `RestartWith`
  brings other settings.  An attempt may outlast midnight.

### Money

- **Purchases.**  `CallTool` counts a call before it is made (the gateway's budget),
  `DateRequest` reads the clock for the row before the database is waited for
  (`action_service.py:81`), `ProposePurchase` is the check with a clock of its own
  (`purchases.py:137`), `ApprovePurchase`, `ClaimPurchase`, `RecordPurchase` are the
  request's way; `AddCard`, `SetFrozen`, `RemoveCard`, `DeleteNumber` the page;
  `NextMonth` the clock.
- **Spending.**  Who thinks is one of three: work that asks and then records at most
  `MAX_CALLS` calls, a connection (`Sessions`) that asks once and records until it
  closes, and work that never asks (`Unasked`, `GoAhead`).  `AskGate` answers from the
  cache or the ledger, `RecordUsage` writes the row of a call, which costs what the
  provider reports or else what the price list says, `StopThinking` is the end of
  the work or of the connection, `SetPrice` and `RemovePrice` change the file,
  `RestartServer` reads it.  `late` is the specification's own account of what
  asking work recorded after the ceiling was reached.

### The voice connections and mail

- **Realtime.**  Two ordered channels to and from OpenAI; `HandleEvent` is the reader
  with the response gate (`Request`, `Due`, `Observed`), `RetryFires` the task
  that slept after a rate limit, `ConnectionDrops` the reconnection.  A response ends
  *said*, by the rate *limit*, or *cut* (failed otherwise, cancelled, incomplete);
  `dropped` remembers what the responses had seen that were given up.
- **VoiceSession.**  `ModelAsks`, `RunTool`, `ModelAnswers`, `TurnFails` are
  `respond`'s rounds; `CanReply` and `MaySend` the limits of the mail tools; what
  was shown and sent lives as long as the connection.
- **NewMail.**  `StartCheck`, `ListNew`, `FetchNew`, `FinishCheck` are
  `check_new_emails` await by await, `Since` the cursor with its overlap, `Remember`
  the bounded memory of a watcher (`forgotten`: what it pushed out).


## 3  Runs

Every passing run checks its model to the end.  Where the system has no work it
stops, so deadlock is not checked anywhere: nothing obliges Alex to speak.

| run | question | bounds | states |
|---|---|---|---|
| `action_pipeline` | authority, once, honesty, finality, the abstract gate, settling | 2 actions, 5 types (one of each kind the code treats differently), 1 interruption, listened to or not | 48 k |
| `conversation` | caps, duplicates, nothing unsaid is answered | 2 messages of 4 kinds, 1 approval, caps of 1 | 1.4 M |
| `conversation_delivery` | heard, recorded once, written down; delivered in the end | 1 message, all three carriers, 1 repeat, 1 fault | 380 k |
| `conversation_twice` | *is nothing spoken twice?* no | 1 message | |
| `agent_team` | capacity, review verdicts, follow-ups | 3 assignments, 2 employees, 1 death or cancelled caller | 408 k |
| `agent_team_ends` | once, records, finality; everything ends | 1 assignment, 2 processes, 2 deaths or cancelled callers, roster changes | 22 k |
| `agent_team_announced` | *is a review announced once?* no | 2 assignments of one review | |
| `engineering` | review, issues, the task's end | 1 caller and the loop, 2 kinds of ticket, 2 calls, 2 moves of Alex, 1 fault | 836 k |
| `engineering_adopted` | is GitHub's status adopted in the end? | the same with 1 kind of ticket | 394 k |
| `engineering_synced` | *is `synced` never said of a half-made ticket?* no | 1 request, 1 fault | |
| `unattended` | commands, searches, the loop, the client: safe, and everything is seen to | below | 373 k |
| `company` | the fifteen components of `MCCompany` | below | 2.2 M |

### What the properties say

**Pipeline.**  `EffectIsAuthorised`, `EffectOnce`: nothing happens in the world
without the authority its type and classification ask for, or twice.
`RecordsAreHonest`: two tables never tell different stories, the stored outcome
is what happened, and the log alone tells the status.  `DecidedStays`: no
stale approval, nothing final changes.  `ImplementsGate`: refinement.
`WorkIsSettled`: an action is recorded if nothing died, was cancelled or raised what
`execute` does not catch; a pending one settles once somebody stays connected.

**Conversation.**  `AnsweredWasSaid`: nobody is credited with answering what he
was never told.  `AskingIsBounded`, `AnnouncedOnce`: caps that count rows other
coroutines move.  `RecordIsTrue`: what is marked said was heard, once, and what
the notebook holds was said.  `EverythingIsDelivered`: no message is lost.

**Team.**  `RunsOnce`, `RecordsAgree`, `EndedStays`: with two processes and a
recovery that fails the rows of both.  `CapacityKept`, `ReviewTells`,
`FollowUpsBounded`: counters and verdicts that several members' coroutines
write.  `AssignmentsEnd`, `SearchRoundsEnd`: liveness under roster and ceiling, of the
first for every row but one whose caller was cancelled before it started it and no
server has started since, of the second for a round as long as its search waits
for it.

**Tickets.**  `CompletedWasReviewed`: the service never completes a task that
needs a security review without one, however stale the row it decided by.
`IssuesAccountedFor`: an exact account of how many issues a task can get.
`ClosedTaskStays`: a step property.  `BoardIsAdopted`: once everyone rests the
ticket says what the card says.

**Unattended.**  `UnattendedIsSound`: past the cursor the company is in the state
of the newest command, wherever a pass was cut off, as long as a listing still
shows that command; a day's thinking keeps to its
budget, and an event wakes the loop once.  `StepsAreKept`: the cursor passes no
command over; two cycles of the loop are the gap apart, although it is
measured before the lock is waited for.  `EverythingIsSeenTo`: the newest
command is obeyed, a search ends, news is read, the microphone closes and what was
held back is said, or forgotten by the reconnect of a lost connection
(`HeldIsSpoken` asks only that it does not wait for ever).

**Company.**  `PlanningAndHiring`: an accepted plan contradicts neither itself nor
its caps, a day's cycles keep the day's share; one post has one open ticket, the
running roster is valid, and a ticket has one comment and one more for each that
GitHub took and nobody wrote down.  `EndsAreKept`: an ended
run or search stays as it ended, a completion tells exactly what it opened.
`WorkAddsUp`: a search counts each round once and leads with the right idea; one
episode a week in whole batches; a day's assignment, check-in and report are told
once and of the right day; open tasks never all wait.  `Acyclic`.
`CalendarIsKept`: a task has no event but the one its row names, and that one is
where the row says unless Alex moved it in Google, for all tasks no two of whose
actions overlapped; what is offered as free may be booked, and what may be booked is
offered.  `PeopleAreKept`: reviews keep their distance; nobody reports into a loop,
unless two reorganisations were filed together (section 4).  `MoneyIsKept`: months,
runs' budgets, erased cards; what asking work spends after the ceiling was reached;
tokens charged once.  `NothingSaidIsLost`: every tool result is spoken but those of a
response that was given up; new mail is within reach of the next check and
announced at most once; inputs are paired; mail is sent once, and once more for each
lost answer.

A group's name only gathers: each part is stated, with the code it is about, in its
own module, and each has mutants of its own in `PROJECT.json`.

### Why the bounds are enough

- *Actions.*  A step touches one action, except the expiry and the listing,
  which touch all pending ones; two actions are enough to tell "all" from
  "this one".  A second interruption would find an action where the first left
  one: in a status no step leaves.
- *Messages.*  Caps of one are exceeded by two rows.  Duplicates need two rows
  of one topic or one approval.  The races of delivery are between carriers of
  one row, hence one message with all three carriers and two broadcasts.
- *Assignments.*  Three rows under a capacity of two: one is refused, and a
  review of two members with a follow-up fits.  Run-once and recovery
  concern one row and both processes; two deaths let a recovered row meet a
  second recovery.
- *Tickets.*  A caller and the loop are every kind of worker; two calls let a
  retry follow a failure; two moves let Alex undo what he did; one fault lets
  each call fail once at every place.  Three issues are more than these bounds
  can open; three cards let one be lost and added again, twice.
- *Unattended.*  Three mails of two dates: an older, a newer and two of one
  date, listed two at a time.  One search of two rounds with one attempt each,
  the loop and the command line, one stop.  Two events (one that stands until
  it is dealt with), one cycle a day, one scheduled type, one stop.  Two
  blocks of queue against a wake-word check of two ticks: blocks are dropped.
- *Company.*  Two tasks, three slots and plans of at most three proposals, chosen to
  meet every cap, overlap and repetition; two runs across a midnight.  A search
  of three rounds.  Two days of three hours with one cut.  Two employees and
  three days for reviews more than one apart.  Three tasks: the shortest
  cycle `add_dependency_in` cannot see directly.  Two carriers of one task and two
  events, at three times of which two are working time: a move changes something, a
  booking can fall at night, and Alex moves and deletes what the carriers hold; a
  behaviour asks for nothing more once the task is tangled (`MaxTangled`).  All
  sets of two busy spans over two days of six.  Three employees and two changes
  reach a loop by steps each valid alone.  Two settings of the video schedule
  over three episodes.  Two months, two runs and a review's, one request each, and a
  limit that one purchase fills: two of them, approved in one month, reach twice the
  limit, and one that straddles the turn passes it (amounts are all of one size and
  the card does not expire, so the limit of a single purchase and the expiry refuse
  nothing in this run).  One thinker of each kind on one model, two calls for an
  answer of the gate, a cache of one second, a call that is priced and one that
  reports its cost, a day that begins with nothing or with the ceiling spent.
  Three turns and tool calls, two responses that fail, one drop.  Two utterances with two
  rounds of tools each.

### Fairness

A coroutine of a running process goes on (weak fairness of `Execute`,
`Deliver`, `Mirror`, `Step`): the event loop schedules every ready coroutine,
executors are bounded by `wait_for`, HTTP calls have time-outs.  The same holds of a
caller that goes on after a commit (`Begin`, `Attach`).  The periodic
loops return (`LoopStep`, `LoopSyncs`, `RestartQueued` while a running search's open
round names the row): each is a `while True` that catches its exceptions.
`ExpireStale` is fair only as `DeliveryPass == listening /\ ExpireStale`: of what lists
approvals only the delivery loop comes back by itself, and it skips that part
while nobody is connected or in quiet hours (`main.py:829-831`); the pages, the
briefings and the planning expire them too, but nothing makes them come.  `Recover`
is fair because the containers are
started with `restart: unless-stopped` (`src/compose.yaml`).  The clock runs.
**Not** assumed: that Alex decides, answers, listens or stays connected; that
Gary proposes anything; that GitHub or Joplin answers; that the ceiling opens.
Where a property needs one of those it says so itself (`<>[]spending`,
`<>[]listening`, `<>[](voice = "here")`).  Faults and deaths are bounded, so they
end; without
that no retry promises anything.

`MCUnattended` states the same of its four components (`MailIsFair`,
`SearchIsFair`, `LoopIsFair`, `VoiceIsFair`); the management loop alone needs strong
fairness, since the lock it waits for is taken by others in between, and an
`asyncio.Lock` serves its waiters in order.


## 4  What the code does not keep

Each is a run whose property quotes the repository and which TLC refutes.

1. `conversation_twice`: "never silently lost and never spoken twice"
   (`conversation_service.py:11-12`).  The caller of `speak()` and the delivery
   pass both read the row pending and both broadcast it; only the second *mark*
   is refused.
2. `agent_team_announced`: "Announce a review once, when its last first-round
   report is in" (`app/main.py:563`).  With two reports committed before either coroutine reads
   the review, both find it complete and both announce it.
3. `engineering_synced`: "A ticket left incomplete is retried, never reported
   as fully created" (`004_engineering.sql:51-52`).  `sync_ticket` sets any open
   ticket to `synced`, and then nothing retries it.

Met while modelling, without a run of their own.  Where a definition states the
promise, it is named; the modules keep it as a documented statement.

- *Pipeline.*  "The result is recorded and audited" for every action
  (`action_service.py:3-9`; `ClearedActionIsRecorded`).  A stop between the claim
  and the last transaction leaves the action `executing`, or `approved`, with its
  approval spent; nothing at startup looks for such rows.  A handler's check that
  raises anything but a `ValueError` does the same without a stop.  While nobody is
  connected a stale request stays pending until a page, a briefing or a planning cycle
  lists it.
- *Notebook.*  It holds "everything Gary said out loud" (`notebooks.py:192`;
  `NotebookHoldsWritten`).  Two writers read the note, and the later overwrites
  the earlier's line, which is stamped as written.
- *Assignments.*  One that the gate refused "stays queued and runs when the ceiling
  resets" (`runner.py:407-408`; `QueuedRunsWhenCeilingResets`).  Its coroutine has
  returned; only a round that a running search still waits for is started again.  Any
  other row, a round of a search that was stopped meanwhile, and a row whose caller
  was cancelled between its commit and `_start` (`service.py:213-214`) wait for the next
  start of the server.
- *Management loop.*  "So a trigger cannot fire twice for the same event"
  (`management_loop.py:75-76`; `TriggerFiresOnce`).  What stands until it is dealt
  with, an overdue follow-up or a missed block, is a trigger of every cycle.
- *Voice client.*  The window is refreshed by "Alex speaking" (`segmentation.py`;
  `SpeechKeepsItOpen`).  It is refreshed when an utterance is complete and sent, and
  a session whose window runs out before that ends in the middle of one.
- *Product search.*  "Interrupting is safe: ... the backend picks the search up on its
  next tick" (`product_cli.py:17-18`).  If the command line is cut off while its
  coroutine carries a round, the assignment stays running until the server
  restarts: `SearchEnds` fails with `MayExit` set to `{"cli"}`.
- *Commands.*  A pass lists the newest `COMMAND_LIMIT` messages.  One that is cut off
  after it carried out an older command, and finds more than so many newer messages
  when it returns, never takes up the rest: the older command is left to hold.
  `NewestCommandHolds` says so since its proof failed without.
- *Mail.*  A message a failed check had remembered is known and never announced
  (`gmail.py:721`).  More unread email than one listing holds is left out, which
  `MailIsReached` excepts.  A watcher remembers `ANNOUNCED_LIMIT` messages; one it
  has had to forget may be announced again, which it excepts as well (the
  proof asked for it).  A send whose answer is lost is not noted, and a second
  one goes out, which `MailIsSentOnce` excepts.
- *Voice history.*  The window of the last items may open between a tool's call and
  its output, which `InputIsPaired` excepts.
- *Hiring.*  "Once per hire" (`hiring_followup.py:9`): the comment is posted and
  then recorded, so a stop between the two, or an answer of GitHub's that is lost
  (`hiring_followup.py:92-96`), posts it again; `HiringIsSound` counts both.
- *Chart.*  Two reorganisations that are filed together are each checked against
  the chart before both and may form a loop (`reorg_actions.py:98`);
  `ChartLeadsToChief` assumes that Alex builds one at a time.
- *Production.*  For an episode published on a Monday or Tuesday, or less than three
  days after the shoot, the edit's deadline precedes its start
  (`production.py:245`); `StagesFollow` states the condition.
- *Purchases.*  A month counts what was asked for in it, so a turn of the month lets
  two limits be approved in one (`purchases.py:144`; `ApprovalsAreCapped`).  A request is
  dated before the database lets it in (`action_service.py:81`) and checked with a clock
  read after (`purchases.py:137`): one that meets the turn of the month there is
  counted in the old month and checked against the new one.  `MonthIsCapped` leaves
  these (`Straddling`) out; they come on top.
- *Spend gate.*  "Every path that can call a model asks this first"
  (`usage.py:180-183`).  Replanning after a missed block (`main.py:415-432`), a cycle asked
  for in conversation and `app/ask.py` do not, and a Realtime connection asks when it
  connects and then spends until it closes (`realtime_session.py:114`, 169).  What these
  spend past the ceiling is bounded by nothing, and `OvershootIsBounded` counts
  only what asks.
- *Realtime.*  A response that fails for another reason than the rate limit, is
  cancelled or remains incomplete is given up without a word
  (`realtime_session.py:241-244`), and with it the tool results it was to say;
  `NoResultIsLeftUnsaid` excepts what a response that was given up had seen.
- *Calendar.*  Two schedule actions of one task both pass the check before either has
  recorded its event, and the task then has two; so has one that is cut off after
  Google.  `RowTellsEvent` excepts the tasks it happened to (`tangled`).
- *Conversation.*  An approval that **expired** settles its question as
  *answered* (`spoken.py:196`, `conversation_service.py:156`), so the quiet
  period after an answer applies although Alex said nothing; `AnsweredWasSaid`
  is true because it asks only that the question was said.  A decided approval
  may still be raised (`spoken.py:180-181`).  Quiet hours bind the delivery
  pass and not `speak()` (`ARCHITECTURE.md:595-596`).  A `next_time` row is
  broadcast by `speak()` (`spoken.py:84-85`).  A row swept between the send
  and the mark was heard and is never recorded as said
  (`conversation_service.py:353-354`).
- *Team.*  `_fail` rewrites the run's
  row after a recovery has failed it.  A review refreshed by recovery is never
  announced.  A given-up thread keeps running outside the semaphore, and the
  command line has a semaphore of its own, so more than "runs executing at once"
  (`docs/TEAM.md:551`) may execute.
- *Tickets.*  "A retry can never open a second issue for the same task"
  (`engineering_service.py:14-16`), but the row has no issue number until
  `create_issue` has answered, and `GitHubClient._send` posts again after a
  time-out: `IssuesAccountedFor` states how many there can be.
  `transition` to Done saves the row before it comments, closes the
  issue and completes the task; a comment that raises leaves a ticket done and
  synced that no sync returns to, with its task open.  The same for a stop
  between a sync's save and `complete_task`.  A card in Done whose issue is
  open and unreviewed is not flagged.  `create_ticket` on a ticket that is not
  synced puts the card back to Ready, also from Done.  `_retry_incomplete`
  overwrites a status it has just degraded; it is reached only for a lost
  card.  A plain sync from a stale row may clear the id of a card that was
  added again.  `security_reviewed_at` is set from two samples of the Status, so a
  card that was dragged back and forth between two syncs counts as reviewed or
  not by chance.


## 5  Proofs

Every safety invariant and every step property of the passing runs is a theorem
of its specification.  The theorems hold for every set of actions, employees,
processes, callers, tasks, projects, buyers and mails, every working week,
calendar, price list, schedule, plan and roster, every number of assignments and
messages, every limit and every number of faults: the bounds of TLC's runs are
constants, about which the proofs know the named assumptions of their modules and
nothing else (`Actions` may be any set, `MaxFaults` any natural number).

Almost none of the properties is inductive.  Each component has an invariant of
its own, a conjunction of named parts with the property among them or following
from it, one lemma `...Start` for its initial states, one per action, one
`...Step` that puts those together and one `...Shows` from the invariant to what
the run checks.  What the invariants add is nearly always the same: *what a
coroutine, a pass or a worker that stands between two steps may still rely on*.

### The four cores

**ActionPipelineProofs.**  `InductiveInvariant` proves
`IInv == TypeOK /\ EffectOnce /\ ApprovalActionAgree /\ OutcomeIsHonest /\
AuditTellsStatus /\ CoroutineHoldsClaim /\ RowFits`.  The listed invariants are
not inductive alone: from a state in which a coroutine stands before the
external call of an action that is already `succeeded`, the next step would
repeat the effect.  `CoroutineHoldsClaim` excludes it (whoever is in `execute`
holds the status the compare and set gave it, nobody else does, and it knows
whether the effect happened), and `RowFits` ties the stored risk to the request, so
that a cleared yellow action must have been approved.  From it follow
`TypeCorrect`, `EffectsAreAuthorised`, `EffectsHappenOnce`, `RecordsAgree`, the
step properties `StaleIsNeverApproved`, `FinalStatusesStay` and `DecisionsStay`, and
`PipelineImplementsGate`: `Spec => Gate!Spec`, by one step per action, each of
which is a step of the gate or a stutter.  `EscalateNeverLowers` is the lemma about
the policy.

**AgentTeamProofs.**  `TeamInvariant` proves `TypeOK /\ Rows /\ Reviewed /\
CapacityKept`.  `Rows` says, of each row, where a coroutine of any process may
stand given its status, and that at most one has claimed it; this is what makes
`AssignmentsRunOnce` and `RowsAndRunsAgree` inductive when a recovery changes rows
behind a live coroutine.  `Reviewed` relates a review to its rounds and gives
`ReviewsTell` and `FollowUpsAreBounded`; `CapacityIsKept` needs the
cardinality of the active rows to grow only under the check.  `WhatEndedStays`
is the step property.

**EngineeringTicketsProofs.**  `TicketInvariant` proves `TypeOK /\ Carrying /\
Judged`.  The difficulty is the stale row: a sync completes a task by what its
copy says.  `Carrying` says of each copy that its review requirement is
the ticket's and that a review it records is recorded in the ticket, which
stays true because the requirement never changes and a recorded review is never
taken back, and that a worker which has decided to complete the task may.
`Judged` is `CompletedWasReviewed` with what protects it from the creation of
the row: a task the service completed, or an issue, has its ticket already.
From it follow `TypeCorrect`, `CompletedTasksWereReviewed` and the step property
`ClosedTasksStay`.

In its second part `IssuesAreAccountedFor` bounds the issues one task
can get.  What the property leaves out, and its inductive form `Accounted ==
OnlyCreateOpens /\ Counted` counts, is the callers between two steps: those
about to open an issue from a row that had none (`Pending`) and those that have
opened one and not recorded it (`Holding`).  While the row has no issue, each
opened one is a lost answer, belongs to a restart, or is held; once it has one,
only pending callers may open another, and a caller is never both.  A step that
opens or records nothing preserves this by `QuietStep`; the others have a case
each.  TLC's run has one caller; the theorem holds for every finite set of them.

**ConversationProofs.**  Two invariants, for any number of messages, approvals,
topics and limits.  `ConversationInvariant` proves `TypeOK`, `Told` (of each row:
said exactly when its audit row exists, and then no longer pending and heard or
handed over), `Written` (the notebook and the stamps hold only what was said) and
`Carrying`.  The last is what makes it inductive: a coroutine acts on a row it
read several awaits ago, so the invariant says what it may still rely on (a row
about to be marked was broadcast or is one for a session, a row or a page taken
to the notebook was said), and `CarriesStill` that rows which only grow never
take that away.  It gives `TypeCorrect`, `AnsweredOnlyWhatWasSaid` and
`TheRecordIsTrue`.  For `AskingStaysBounded` and `RaisedOnce` every step is of one
of three kinds (`KindsOfStep`): it creates no row and opens none again, it
creates one under the caps of `ask_user`, or it announces what is not known yet.

### What works unattended

**SearchProofs.**  `SearchInv == SearchTypes /\ AddedUp /\ Called /\ Announced`
of a search of any number of rounds and callers.  `AddedUp` is the account of what was
spent, found and failed, as prefix sums over the rounds; `Called` says what a
caller of `advance` between two steps may still rely on: a round that is being
delegated belongs to one caller, has no assignment yet, and is open or was given
up; `Announced` that the end is told by whoever ended it.  `SearchSound` and the
step property `SearchOverStays` follow; both modules of composition use them.

**UnattendedProofs.**  `UnattendedInv` holds the invariant of the component
that runs.
`OperatingInv` (commands): a pass holds its messages in the order of
their dates (`Messages`), its head stands where the switch and the cursor say
(`Stage`), it holds every message past the cursor that Gmail would still list and
that was carried out already or came before one it holds (`Whole`), and among
those of one millisecond what was carried out came first (`FirstOfDate`).
`Whole` is what a pass that was cut off owes the next, and proving it
showed that `NewestCommandHolds` needs the newest command still to be
listed (section 4).
`LoopInv` (the management loop): a type waits once for the lock and not while its own
cycle runs (`Queue`); what a cycle costs was taken from today's budget, but for
the one that waited at midnight (`Spent`); what woke the loop is read by the cycle it
woke (`Woken`); the gap that was measured before the wait lasts, since only a
management cycle ends it (`Apart`).
`VoiceInv` adds to the types that what is held was announced.
From these `UnattendedTyped`, `UnattendedSound` and `UnattendedKept`, a step property.

### The company

**OfficeProofs** holds the components that work on rows.

- *Tasks.*  `NeverCircular`: `Acyclic` is inductive with `GraphTypeOK`, and the
  argument is about sets: that `b` is not reached from `a` is shown by a set that
  holds what `a` depends on, is closed under the edges, and leaves `b` out
  (`LeftOut`).  Such a set is built from `From(E, a)`, what `a` reaches, for each
  way the graph changes: an edge that `add_dependency_in` allows (`AllowedEdge`,
  with `ReachesOn` for transitivity), removed edges (`FewerEdges`), and a planned
  project, whose dependencies close no cycle among themselves (`PlannedEdges`) and
  share no task with the rest (`GraphsApart`).  `CompletionIsTold`: only
  `complete_task` completes a task (`OnlyCompleteTask`), and then what it answers is
  what changed.  `WorkCanGoOn`: where nothing is circular, some open task waits for
  no other: in a finite set that is ordered, one has none before it (`First`).
- *Planning.*  `PlanningInv`: what is left of an accepted plan contradicts neither
  itself nor the caps (`Consistent`), what was commissioned today and what the cycle
  still means to is within the day's share (`Share`), and Google is called for a
  proposal that is on the calendar (`Placing`).
- *Hiring.*  `OnePost`, `CommentsAreFew` (a ticket that waits for its comment has
  one at most for each that was taken and not written down), and the roster that
  runs is valid.
- *Reviews.*  `RoundIsOwed`: what a round has before it was long ago, and what it judges
  is not before it again; that makes the spacing inductive.
- *Chart.*  `FiledIsChecked`: what is filed was checked against the chart that is
  deployed, as long as no two were filed together.
- *The day.*  `RecordedThenTold`, `CheckedAsGiven`, `ReportedOnce`: where a pass is
  about to tell something, it has recorded that and not told it yet.
- *Production.*  `AsPlanned` and `PlannedWhole` say of each episode that the rules of
  the schedule it was made by put it there, with its batch; `PlannedToday`, `TriesLeft`
  what the loop remembers of the day.  The dates need division, of which the
  lemma `Division` gives the provers what they lack.
- *Purchases.*  `RequestsAreSound`, `AsksAreCounted` (the gateway counted each
  call that became a request or still may), `MonthIsCapped` (of a request that does
  not straddle, the month it is dated is the one it was checked against),
  `RemovedCardIsErased`.
  The amount of a month is a recursive function over the rows (`AmountOf`), of which
  the lemmas say how it changes when one row does.
- *Spending.*  `OvershootIsLeft`: what was recorded late, and the dearest price for each
  call that may still be (`Exposure`), stay within the bound.  `CallsLeft` counts
  those calls as a set: of each coroutine that asks, for each second at which it may
  have begun or may begin while the cached answer lasts (`CacheIsPast`), the
  `MAX_CALLS` it may record; a step that records one late takes one out.  Hence the
  bound of `MAX_CALLS` times `CACHE_SECONDS + 1` calls for each.

**CompanyProofs** holds the connections, the calendar, and the theorems about the
whole.

- *Realtime.*  `RealtimeInv` speaks of positions in the two channels: what a
  response says was given when it began and none before it saw more
  (`SaysWhatItSaw`), what OpenAI's events announce is still to come in their order
  (`EventsFollow`), a request is owed only while a response is active
  (`GateIsTrue`), and whatever is unsaid will be asked for, is about to be said or was
  given up by a response that had seen it (`ResultsAreAsked`, `UnsaidIsAsked`).
- *New mail.*  `HeardIsKnown`, `CursorsArePast`, `CheckIsOfInbox` and
  `NextReaches`: what a check in progress does not take is within reach of the next.
- *Voice session.*  `HistoryIsPaired`, and of what Gmail is known to have sent that it
  is noted, once, and found again (`AnsweredIsNoted`, `AnsweredOnce`, `NotedAreFew`,
  `SentIsFound`).
- *Task calendar.*  `ErrandsAreAbout`, `EventsAreOwned` (an event that a row or an
  action names is that task's, or deleted), `StoryIsOne`: of a task that is not
  tangled, while nothing is under way or before Google was called, the row tells
  its event (`OneStory`), and after it the action carries what the row will say
  (`CarriesTruth`).
- *Working time.*  `BlocksAreBookable` for every week and every finite calendar.  Nothing is
  stepped here but the arithmetic: `Sorts` (the busy times have one order),
  `CursorIs` and `GapIs` (how far the cursor of `_subtract` has come), `CarveLeaves` and
  `SubtractLeaves` (what is left is neat, disjoint from what was cut and
  complete), `WindowsAre`, `ProtectedAre`, `FreeBlocksAre`, and `NoProblemIs` for the other
  side.
- *Together.*  `ComponentsFollow`: a step of `MCCompany` is a step of one component
  that leaves the others alone.  With it `EndsStay`, `PlansAndHires`, `PeopleKept`,
  `WorkIsKept`, `MoneyKept`, `CalendarKept`, `NothingIsLost` and `TypesAreKept`, and
  `Acyclic` by `NeverCircular`, are the nine properties of the run.

### What is only model-checked

The liveness properties (`WorkIsSettled`, `EverythingIsDelivered`, `AssignmentsEnd`,
`SearchRoundsEnd`, `BoardIsAdopted`, `EverythingIsSeenTo`): fairness and `ENABLED`
are outside the prover's reach.  The three refuted promises are refuted by TLC
alone.  `ApprovalGate`, the abstract specification, has no theorem beyond the
refinement.


## 6  What is abstracted

Texts, prompts, payloads, formats and logging; the order of rows where nothing
depends on it; limits on how many rows a pass returns, unless they are a constant;
several voice clients (one listener); similarity of topics (equality); the set of
ids a voice conversation has been shown (any pending approval may be named, which
allows more); the contents of reports and their validation (accepted or refused);
labels, priorities and optional fields of GitHub.  An approval's age counts in
ticks, of which `ExpiryAge` make 72 hours; ages are capped one above.  Clocks
are ticks, days, months or positions relative to a cycle, whichever the
component's conditions tell apart.  Scores, amounts, tokens and prices are small
numbers.  Time zones are one, and the change of clocks is left out.

Composition is by interface: a behaviour of `MCUnattended` or `MCCompany` follows one
component, and what the others would do to it is a free choice inside its
module.  The pairs whose rows really are shared are modelled together: the pipeline
with approvals, conversation with approvals and notebook, tickets with tasks, a
search with its assignments and switches, a cycle with tasks and calendar.

Not modelled: rendering and reading (briefing, weekly review, status pages,
scorecards, cost reports); settings, migrations and backup; audio, transcription and
speech synthesis; sign-in; EASE.  They are single-threaded reading and writing, or
services of their own, and hold no state that another part's correctness rests on.


## 7  Plan

1. An abstract `TicketFlow` that `EngineeringTickets` implements, and an abstract
   search (rounds counted, then over) that `ProductSearch` implements, each with its
   refinement proved.
2. `PlanningCycle` with `ActionPipeline` in one behaviour: a proposal that is approved
   after the next cycle has planned.
3. The realtime mode of the voice client; the shared reports and usage records of a
   team's runs.
