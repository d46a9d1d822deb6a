---------------------------- MODULE Conversation ----------------------------
(***************************************************************************)
(* Gary speaking first: ConversationService, SpokenDelivery and the loop   *)
(* that drives it (app/main.py run_spoken_delivery).                       *)
(*                                                                         *)
(* A spoken_messages row is written before anything is said.  Three kinds  *)
(* of coroutine carry rows further: the caller of speak(), the delivery    *)
(* loop, and a voice session taking over what was held for it.  Each works *)
(* from a snapshot of the row and awaits between its transactions, so they *)
(* interleave with each other, with approvals being decided and with a     *)
(* process death.  The notebook is a Joplin note that is read, extended    *)
(* and written back.                                                       *)
(***************************************************************************)
EXTENDS Integers, FiniteSets

CONSTANTS MaxMessages,   \* bound on rows
          Approvals,     \* approvals that may need raising
          Topics,        \* what a message is about (topic_key)
          Kinds,         \* the messages that are asked for, as New below
          MaxOpen,       \* MAX_OPEN_QUESTIONS
          MaxDaily,      \* MAX_DAILY_UNATTENDED
          MaxRepeats,    \* MAX_REPEATS
          ExpiryAge,     \* MESSAGE_EXPIRY_HOURS and ANSWERED_QUIET_DAYS, in days
          MaxFaults,     \* bound on deaths and failed notebook writes
          MaxHeard       \* broadcasts of one message are counted up to here

None == "none"

ASSUME BoundsAssumption ==
  /\ {MaxMessages, MaxOpen, MaxDaily, MaxRepeats, ExpiryAge, MaxFaults} \subseteq Nat
  /\ MaxHeard \in Nat \ {0}
  /\ None \notin Approvals

Messages == 1 .. MaxMessages      \* ids in the order of created_at
Tasks == {"speaker", "loop", "session"}

\* What a row is created with.  by: the ask_user action or announce();
\* unattended: its source is one of UNATTENDED_SOURCES.
New == [by : {"ask_user", "announce"}, unattended : BOOLEAN,
        urgency : {"now", "next_time"}, asks : BOOLEAN,
        approval : Approvals \union {None}, topic : Topics]

ASSUME KindsAssumption ==
  /\ Kinds \subseteq New
  /\ \A p \in Approvals : \E k \in Kinds : k.by = "announce" /\ k.approval = p

VARIABLES
  row,        \* what each row was created with; a function on the ids in use
  status,     \* spoken_messages.status
  age,        \* days since created_at while open, since answered_at after
  today,      \* rows created this local day
  said,       \* rows with spoken_at, marked by mark_spoken
  repeats,    \* repeat_count
  written,    \* rows with joplin_written_at
  note,       \* the lines of the day's note
  spare,      \* the lines of a second note, made while nobody saw the first
  heard,      \* how often each text was broadcast to a voice client
  log,        \* spoke_to_user audit rows per message
  decided,    \* approvals: none (not requested), pending, settled, lapsed
  asked,      \* days since the approval was requested
  task,       \* each coroutine: where it stands and what it holds
  voice,      \* no voice client ("away"), one in quiet hours, or one outside
  faults

rowVars == <<row, status, age, today, said, repeats, written, log>>
envVars == <<voice, faults>>
noteVars == <<note, spare>>
approvalVars == <<decided, asked>>
vars == <<rowVars, noteVars, heard, approvalVars, task, envVars>>

Ids == DOMAIN row
Statuses == {"pending", "spoken", "answered", "expired"}
OpenStatuses == {"pending", "spoken"}
Lines == Messages \X {"said", "again"}

\* at: where the coroutine stands; msg: the row it holds; queue: what it has
\* still to do; raise: approvals it has still to raise; again: it mirrors a
\* repeat; body: the note as it read it, empty when there was none.
Steps == {"idle", "next", "send", "mark", "read", "write", "stamp", "raise"}
Jobs == {"deliver", "mirror", "mention"}
Idle == [at |-> "idle", job |-> "deliver", msg |-> 0, queue |-> {},
         raise |-> {}, again |-> FALSE, body |-> {}]

TypeOK ==
  /\ Ids \in {1 .. n : n \in 0 .. MaxMessages} /\ row \in [Ids -> New]
  /\ status \in [Ids -> Statuses]
  /\ age \in [Ids -> 0 .. ExpiryAge + 1]
  /\ today \subseteq Ids /\ said \subseteq Ids /\ written \subseteq Ids
  /\ repeats \in [Ids -> 0 .. MaxRepeats]
  /\ note \subseteq Lines /\ spare \subseteq Lines
  /\ heard \in [Ids -> 0 .. MaxHeard]
  /\ log \in [Ids -> Nat]
  /\ decided \in [Approvals -> {None, "pending", "settled", "lapsed"}]
  /\ asked \in [Approvals -> 0 .. ExpiryAge + 1]
  /\ task \in [Tasks -> [at : Steps, job : Jobs, msg : 0 .. MaxMessages,
                         queue : SUBSET Messages, raise : SUBSET Approvals,
                         again : BOOLEAN, body : SUBSET Lines]]
  /\ voice \in {"away", "quiet", "here"} /\ faults \in 0 .. MaxFaults

Init ==
  /\ row = <<>> /\ status = <<>> /\ age = <<>> /\ repeats = <<>>
  /\ heard = <<>> /\ log = <<>>
  /\ today = {} /\ said = {} /\ written = {} /\ note = {} /\ spare = {}
  /\ decided = [p \in Approvals |-> None] /\ asked = [p \in Approvals |-> 0]
  /\ task = [t \in Tasks |-> Idle]
  /\ voice = "away" /\ faults = 0

-----------------------------------------------------------------------------
(* The table.                                                              *)

IsOpen(m) == status[m] \in OpenStatuses

\* Rows are taken and looked up in the order of created_at.
First(S) == CHOOSE m \in S : \A k \in S : m <= k

\* get_by_approval: the oldest row about the approval.
About(p) == {m \in Ids : row[m].approval = p}
ByApproval(p) == First(About(p))

\* A message is stale strictly after its expiry.
StaleMessage(m) == IsOpen(m) /\ age[m] > ExpiryAge

\* close_settled_questions, then expire_stale_messages: the status every row
\* has after the sweep that listing, handing over and asking all begin with.
Swept(m) ==
  IF IsOpen(m) /\ row[m].approval # None /\ decided[row[m].approval] \in {"settled", "lapsed"}
  THEN IF status[m] = "pending" THEN "expired" ELSE "answered"
  ELSE IF StaleMessage(m) THEN "expired" ELSE status[m]

SweptAge(m) == IF Swept(m) # status[m] THEN 0 ELSE age[m]

\* repos.spoken.create, with the statuses and ages the transaction leaves.
Append(f, v) == [i \in 1 .. Cardinality(DOMAIN f) + 1 |->
                   IF i \in DOMAIN f THEN f[i] ELSE v]

Create(new, statuses, ages) ==
  LET m == Cardinality(Ids) + 1 IN
  /\ m \in Messages
  /\ row' = Append(row, new)
  /\ status' = Append(statuses, "pending")
  /\ age' = Append(ages, 0)
  /\ repeats' = Append(repeats, 0)
  /\ heard' = Append(heard, 0)
  /\ log' = Append(log, 0)
  /\ today' = today \union {m}
  /\ UNCHANGED <<said, written>>

-----------------------------------------------------------------------------
(* Deciding to speak.                                                      *)

\* check_message_caps against the statuses the sweep leaves.
OpenAfterSweep == {m \in Ids : Swept(m) \in OpenStatuses}

LooksLikeRepeat(new) ==
  \E m \in Ids : /\ row[m].topic = new.topic
                 /\ \/ m \in OpenAfterSweep
                    \/ Swept(m) = "answered" /\ SweptAge(m) <= ExpiryAge

\* Mutants of MayAsk: no limit on open questions; only messages that were
\* already said count as asked; the daily count is not consulted.
MayAskWithoutLimit(new) ==
  /\ new.unattended => Cardinality({m \in today : row[m].unattended}) < MaxDaily
  /\ ~LooksLikeRepeat(new)

MayAskUnlessSaid(new) ==
  /\ new.asks => Cardinality({m \in OpenAfterSweep : row[m].asks}) < MaxOpen
  /\ new.unattended => Cardinality({m \in today : row[m].unattended}) < MaxDaily
  /\ ~ \E m \in Ids : row[m].topic = new.topic /\ Swept(m) = "spoken"

MayAskAnyDay(new) ==
  /\ new.asks => Cardinality({m \in OpenAfterSweep : row[m].asks}) < MaxOpen
  /\ ~LooksLikeRepeat(new)

MayAsk(new) ==
  /\ new.asks => Cardinality({m \in OpenAfterSweep : row[m].asks}) < MaxOpen
  /\ new.unattended => Cardinality({m \in today : row[m].unattended}) < MaxDaily
  /\ ~LooksLikeRepeat(new)

\* The ask_user action, check to record: nothing awaits between the two.
AskUser(new) ==
  /\ new.by = "ask_user"
  /\ new.approval # None => decided[new.approval] # None
  /\ MayAsk(new)
  /\ Create(new, [m \in Ids |-> Swept(m)], [m \in Ids |-> SweptAge(m)])
  /\ UNCHANGED <<noteVars, approvalVars, task, envVars>>

\* Mutant of Known: only an open row stands for the approval.
KnownOpen(p) == p # None /\ \E m \in About(p) : IsOpen(m)

\* announce finds the approval already raised.
Known(p) == p # None /\ About(p) # {}

\* A coroutine with nothing to do is back where it began.
Start(t, job, queue) ==
  task' = [task EXCEPT ![t] = IF queue = {} THEN Idle
                              ELSE [Idle EXCEPT !.at = "next", !.job = job,
                                                !.queue = queue]]

\* announce: a new row, or the older one about the same approval.
Announce(new) ==
  IF Known(new.approval) THEN UNCHANGED <<rowVars, heard>>
                         ELSE Create(new, status, age)

\* speak(): announce, and go on to deliver the row it returned.
SpeakNow(new) ==
  /\ Announce(new)
  /\ LET m == IF Known(new.approval) THEN ByApproval(new.approval)
              ELSE Cardinality(Ids) + 1
     IN task' = [task EXCEPT !["speaker"] =
                   IF m \in Ids /\ status[m] # "pending" THEN Idle
                   ELSE [Idle EXCEPT !.at = "send", !.msg = m]]
  /\ UNCHANGED <<noteVars, approvalVars, envVars>>

Speak(new) ==
  /\ new.by = "announce" /\ new.approval = None
  /\ task["speaker"].at = "idle"
  /\ SpeakNow(new)

\* on_approval_requested: the proposal has committed, and whoever proposed it
\* puts it to Alex.
RaiseWithUser(new) ==
  /\ new.by = "announce"
  /\ task["speaker"].at = "raise" /\ new.approval \in task["speaker"].raise
  /\ SpeakNow(new)

-----------------------------------------------------------------------------
(* The delivery loop: catch up the notebook, then, with somebody listening  *)
(* and outside quiet hours, raise what was never raised and say what waits. *)

\* Mutants of Unmirrored: rows that were never said too; only rows that are
\* still waiting for an answer.
UnmirroredUnsaid == Ids \ written
UnmirroredSpoken == {m \in said \ written : status[m] = "spoken"}

\* list_unmirrored.
Unmirrored == said \ written

StartPass ==
  /\ task["loop"].at = "idle"
  /\ task' = [task EXCEPT !["loop"] = [Idle EXCEPT !.at = "next", !.job = "mirror",
                                                   !.queue = Unmirrored]]
  /\ UNCHANGED <<rowVars, noteVars, heard, approvalVars, envVars>>

MirrorPassEnds ==
  /\ task["loop"].at = "next" /\ task["loop"].job = "mirror"
  /\ task["loop"].queue = {} /\ voice # "here"
  /\ task' = [task EXCEPT !["loop"] = Idle]
  /\ UNCHANGED <<rowVars, noteVars, heard, approvalVars, envVars>>

\* ApprovalService.list_pending expires the stale ones and returns the rest.
StaleApproval(p) == decided[p] = "pending" /\ asked[p] > ExpiryAge

ListApprovals ==
  /\ task["loop"].at = "next" /\ task["loop"].job = "mirror"
  /\ task["loop"].queue = {} /\ voice = "here"
  /\ decided' = [p \in Approvals |-> IF StaleApproval(p) THEN "lapsed" ELSE decided[p]]
  /\ task' = [task EXCEPT !["loop"].at = "raise",
                !["loop"].raise = {p \in Approvals : decided'[p] = "pending"}]
  /\ UNCHANGED <<rowVars, noteVars, heard, asked, envVars>>

\* raise_unannounced_approvals: announce each, without delivering.
RaiseUnannounced ==
  /\ task["loop"].at = "raise"
  /\ \E k \in Kinds :
       /\ k.by = "announce" /\ k.approval \in task["loop"].raise
       /\ Announce(k)
       /\ task' = [task EXCEPT !["loop"].raise = @ \ {k.approval}]
  /\ UNCHANGED <<noteVars, approvalVars, envVars>>

Sweep ==
  /\ status' = [m \in Ids |-> Swept(m)]
  /\ age' = [m \in Ids |-> SweptAge(m)]
  /\ UNCHANGED <<row, today, said, repeats, written, log>>

\* Mutant of ListPending: the other urgency is asked for.
ListPendingHeld ==
  /\ task["loop"].at = "raise"
  /\ task["loop"].raise = {} \/ Cardinality(Ids) = MaxMessages
  /\ Sweep
  /\ Start("loop", "deliver",
           {m \in Ids : Swept(m) = "pending" /\ row[m].urgency = "next_time"})
  /\ UNCHANGED <<noteVars, heard, approvalVars, envVars>>

\* deliver_pending: sweep, and take the pending 'now' rows as they stand.
ListPending ==
  /\ task["loop"].at = "raise"
  /\ task["loop"].raise = {} \/ Cardinality(Ids) = MaxMessages
  /\ Sweep
  /\ Start("loop", "deliver",
           {m \in Ids : Swept(m) = "pending" /\ row[m].urgency = "now"})
  /\ UNCHANGED <<noteVars, heard, approvalVars, envVars>>

\* A voice session opens: it is handed the held messages and marks them said.
OpenSession ==
  /\ task["session"].at = "idle"
  /\ Sweep
  /\ Start("session", "mention",
           {m \in Ids : Swept(m) = "pending" /\ row[m].urgency = "next_time"})
  /\ UNCHANGED <<noteVars, heard, approvalVars, envVars>>

-----------------------------------------------------------------------------
(* Steps every coroutine shares.                                           *)

Goto(t, step) == task' = [task EXCEPT ![t].at = step]

\* The coroutine is done with its row, and with its work when it was the
\* last; the loop's notebook pass goes on to the delivery pass.
Proceed(t) ==
  task' = [task EXCEPT ![t] =
             IF @.queue = {} /\ ~ (t = "loop" /\ @.job = "mirror") THEN Idle
             ELSE [@ EXCEPT !.at = "next", !.msg = 0, !.again = FALSE, !.body = {}]]

\* A mirror goes straight to the notebook, a session has nothing to send.
FirstStep(job) ==
  CASE job = "deliver" -> "send" [] job = "mirror" -> "read" [] OTHER -> "mark"

TakeNext(t) ==
  /\ task[t].at = "next" /\ task[t].queue # {}
  /\ task' = [task EXCEPT ![t].msg = First(task[t].queue),
                          ![t].queue = @ \ {First(task[t].queue)},
                          ![t].at = FirstStep(task[t].job)]
  /\ UNCHANGED <<rowVars, noteVars, heard, approvalVars, envVars>>

\* Mutant of Send: marked before anything is known to have taken it.
SendLater(t) ==
  /\ task[t].at = "send"
  /\ Goto(t, "mark")
  /\ UNCHANGED <<rowVars, noteVars, heard, approvalVars, envVars>>

\* deliver: the send.  The snapshot said pending; nothing looks again.
Send(t) ==
  /\ task[t].at = "send" /\ voice # "away"
  /\ heard' = [heard EXCEPT ![task[t].msg] = IF @ < MaxHeard THEN @ + 1 ELSE @]
  /\ Goto(t, "mark")
  /\ UNCHANGED <<rowVars, noteVars, approvalVars, envVars>>

\* Nobody took it: the row stays pending and a pass stops there.
SendFails(t) ==
  /\ task[t].at = "send" /\ voice = "away"
  /\ task' = [task EXCEPT ![t] = Idle]
  /\ UNCHANGED <<rowVars, noteVars, heard, approvalVars, envVars>>

\* Mutant of MarkSpoken: an update without the status in its WHERE.
MarkSpokenAlways(t) ==
  /\ task[t].at = "mark" /\ log[task[t].msg] < 2
  /\ LET m == task[t].msg IN
     /\ status' = [status EXCEPT ![m] = "spoken"]
     /\ said' = said \union {m}
     /\ log' = [log EXCEPT ![m] = @ + 1]
  /\ Goto(t, "read")
  /\ UNCHANGED <<row, age, today, repeats, written, noteVars, heard, approvalVars, envVars>>

\* mark_spoken, compare and set with its audit row.
MarkSpoken(t) ==
  /\ task[t].at = "mark"
  /\ LET m == task[t].msg IN
     /\ status[m] = "pending"
     /\ status' = [status EXCEPT ![m] = "spoken"]
     /\ said' = said \union {m}
     /\ log' = [log EXCEPT ![m] = @ + 1]
  /\ Goto(t, "read")
  /\ UNCHANGED <<row, age, today, repeats, written, noteVars, heard, approvalVars, envVars>>

\* It is not pending any more: deliver returns False and the pass stops; a
\* session goes on with the next.
MarkRefused(t) ==
  /\ task[t].at = "mark" /\ status[task[t].msg] # "pending"
  /\ IF t = "session" THEN Proceed(t) ELSE task' = [task EXCEPT ![t] = Idle]
  /\ UNCHANGED <<rowVars, noteVars, heard, approvalVars, envVars>>

\* mirror: SpokenNotebook.append reads the day's note, then puts it back with
\* one line more, and only then is the row stamped.
ReadNote(t) ==
  /\ task[t].at = "read"
  /\ task' = [task EXCEPT ![t].at = "write", ![t].body = note]
  /\ UNCHANGED <<rowVars, noteVars, heard, approvalVars, envVars>>

Line(t) == <<task[t].msg, IF task[t].again THEN "again" ELSE "said">>

\* POST when there was no note, PUT of the whole body when there was.
PutLine(t) ==
  IF task[t].body # {} THEN note' = task[t].body \union {Line(t)} /\ UNCHANGED spare
  ELSE IF note = {} THEN note' = {Line(t)} /\ UNCHANGED spare
  ELSE spare' = spare \union {Line(t)} /\ UNCHANGED note

WriteNote(t) ==
  /\ task[t].at = "write"
  /\ PutLine(t)
  /\ IF task[t].again THEN Proceed(t)
     ELSE task' = [task EXCEPT ![t].at = "stamp", ![t].body = {}]
  /\ UNCHANGED <<rowVars, heard, approvalVars, envVars>>

\* mark_mirrored, compare and set: a second writer changes nothing.
StampNote(t) ==
  /\ task[t].at = "stamp"
  /\ written' = written \union {task[t].msg}
  /\ Proceed(t)
  /\ UNCHANGED <<row, status, age, today, said, repeats, log, noteVars,
                 heard, approvalVars, envVars>>

\* Joplin is down, or its answer is lost after it wrote the line: logged, and
\* left for the loop to retry.
NoteFails(t) ==
  /\ task[t].at \in {"read", "write"} /\ faults < MaxFaults
  /\ faults' = faults + 1
  /\ UNCHANGED noteVars \/ (task[t].at = "write" /\ PutLine(t))
  /\ Proceed(t)
  /\ UNCHANGED <<rowVars, heard, approvalVars, voice>>

-----------------------------------------------------------------------------
(* Alex, and the world.                                                    *)

\* question_answer, in a conversation that knows the question.
Answer(m) ==
  /\ status[m] = "spoken"
  /\ status' = [status EXCEPT ![m] = "answered"]
  /\ age' = [age EXCEPT ![m] = 0]
  /\ UNCHANGED <<row, today, said, repeats, written, log, noteVars, heard,
                 approvalVars, task, envVars>>

\* Mutant of Repeat: MAX_REPEATS is not looked at.
RepeatAlways(m) ==
  /\ m \in said /\ task["session"].at = "idle"
  /\ repeats' = [repeats EXCEPT ![m] = @ + 1]
  /\ task' = [task EXCEPT !["session"] = [Idle EXCEPT !.at = "read", !.msg = m,
                                                      !.job = "mention",
                                                      !.again = TRUE]]
  /\ UNCHANGED <<row, status, age, today, said, written, log, noteVars,
                 heard, approvalVars, envVars>>

\* spoken_repeat: Gary reads it back himself and notes the repeat.
Repeat(m) ==
  /\ m \in said /\ repeats[m] < MaxRepeats
  /\ task["session"].at = "idle"
  /\ repeats' = [repeats EXCEPT ![m] = @ + 1]
  /\ task' = [task EXCEPT !["session"] = [Idle EXCEPT !.at = "read", !.msg = m,
                                                      !.job = "mention",
                                                      !.again = TRUE]]
  /\ UNCHANGED <<row, status, age, today, said, written, log, noteVars,
                 heard, approvalVars, envVars>>

\* A yellow proposal commits; its proposer is now to raise it.
RequestApproval(p) ==
  /\ decided[p] = None /\ task["speaker"].at = "idle"
  /\ decided' = [decided EXCEPT ![p] = "pending"]
  /\ task' = [task EXCEPT !["speaker"] = [Idle EXCEPT !.at = "raise", !.raise = {p}]]
  /\ UNCHANGED <<rowVars, noteVars, heard, asked, envVars>>

\* Mutant of Decide: the open question about it is answered, said or not.
DecideAnswersUnsaid(p) ==
  /\ decided[p] = "pending" /\ ~StaleApproval(p)
  /\ decided' = [decided EXCEPT ![p] = "settled"]
  /\ status' = [m \in Ids |-> IF row[m].approval = p /\ IsOpen(m) THEN "answered"
                              ELSE status[m]]
  /\ UNCHANGED <<row, age, today, said, repeats, written, log, noteVars, heard,
                 asked, task, envVars>>

\* ApprovalService.resolve closes the approval's own question, if it was said.
Decide(p) ==
  /\ decided[p] = "pending" /\ ~StaleApproval(p)
  /\ decided' = [decided EXCEPT ![p] = "settled"]
  /\ LET question == {m \in About(p) : m = ByApproval(p) /\ status[m] = "spoken"} IN
     /\ status' = [m \in Ids |-> IF m \in question THEN "answered" ELSE status[m]]
     /\ age' = [m \in Ids |-> IF m \in question THEN 0 ELSE age[m]]
  /\ UNCHANGED <<row, today, said, repeats, written, log, noteVars, heard, asked,
                 task, envVars>>

\* expire_stale_approvals, in whoever else lists or resolves approvals.
Lapse(p) ==
  /\ StaleApproval(p)
  /\ decided' = [decided EXCEPT ![p] = "lapsed"]
  /\ UNCHANGED <<rowVars, noteVars, heard, asked, task, envVars>>

\* A day passes.
Older(n) == IF n <= ExpiryAge THEN n + 1 ELSE n

Tick ==
  /\ age' = [m \in Ids |-> IF status[m] = "expired" THEN age[m] ELSE Older(age[m])]
  /\ asked' = [p \in Approvals |-> IF decided[p] = "pending" THEN Older(asked[p])
                                   ELSE asked[p]]
  /\ today' = {}
  /\ <<age', asked', today'>> # <<age, asked, today>>
  /\ UNCHANGED <<row, status, said, repeats, written, log, noteVars, heard, decided,
                 task, envVars>>

\* A client connects or goes, quiet hours begin or end.
SceneChanges ==
  /\ \E v \in {"away", "quiet", "here"} \ {voice} : voice' = v
  /\ UNCHANGED <<rowVars, noteVars, heard, approvalVars, task, faults>>

\* The process dies; rows stay, coroutines do not.
Crash ==
  /\ faults < MaxFaults /\ faults' = faults + 1
  /\ task' = [t \in Tasks |-> Idle]
  /\ voice' = "away"
  /\ UNCHANGED <<rowVars, noteVars, heard, approvalVars>>

-----------------------------------------------------------------------------
Deliver(t) ==
  \/ TakeNext(t) \/ Send(t) \/ SendFails(t)
  \/ MarkSpoken(t) \/ MarkRefused(t)

Mirror(t) == ReadNote(t) \/ WriteNote(t) \/ StampNote(t) \/ NoteFails(t)

LoopStep ==
  StartPass \/ MirrorPassEnds \/ ListApprovals \/ RaiseUnannounced \/ ListPending

Alex == \/ \E m \in Ids : Answer(m) \/ Repeat(m)
        \/ \E p \in Approvals : Decide(p)

Next ==
  \/ \E k \in Kinds : AskUser(k) \/ Speak(k) \/ RaiseWithUser(k)
  \/ \E t \in Tasks : Deliver(t) \/ Mirror(t)
  \/ \E p \in Approvals : RequestApproval(p) \/ Lapse(p)
  \/ LoopStep \/ OpenSession \/ Alex
  \/ Tick \/ SceneChanges \/ Crash

Spec == Init /\ [][Next]_vars

-----------------------------------------------------------------------------
(* Safety.                                                                 *)

\* A row is marked spoken only once a voice client took it, or a session was
\* given it to raise ("marked spoken only once a voice client has received it").
SaidWasHeard ==
  \A m \in said : heard[m] > 0 \/ row[m].urgency = "next_time"

\* However many coroutines deliver a row, it is recorded as said once, and a
\* row that has left pending is never marked again.
RecordedOnce ==
  \A m \in Ids : log[m] = IF m \in said THEN 1 ELSE 0

\* Only what was said is answered: no decision, sweep or answer credits Alex
\* with replying to something he never heard.
AnsweredWasSaid ==
  \A m \in Ids : status[m] \in {"spoken", "answered"} => m \in said

\* "the same question never asked twice while one is still open", however the
\* first is delivered meanwhile.
AskedOnceWhileOpen ==
  \A m, k \in Ids :
    m # k /\ IsOpen(m) /\ IsOpen(k) /\ {row[m].by, row[k].by} = {"ask_user"}
      => row[m].topic # row[k].topic

\* MAX_OPEN_QUESTIONS bounds what Gary chose to ask, though rows leave the
\* open statuses only when somebody sweeps, answers or decides.
QuestionsBounded ==
  Cardinality({m \in Ids : IsOpen(m) /\ row[m].asks /\ row[m].by = "ask_user"}) <= MaxOpen

\* MAX_DAILY_UNATTENDED bounds what the unattended loops chose to raise.
DailyBounded ==
  Cardinality({m \in today : row[m].unattended /\ row[m].by = "ask_user"}) <= MaxDaily

\* What Gary asks stays within what Alex was promised: no question twice, few of
\* them open, few a day raised while he does nothing.
AskingIsBounded == AskedOnceWhileOpen /\ QuestionsBounded /\ DailyBounded

\* "one approval is raised once however often it is seen": by its own callback
\* and by the loop's catch-up.
AnnouncedOnce ==
  \A m, k \in Ids :
    m # k /\ {row[m].by, row[k].by} = {"announce"} /\ row[m].approval # None
      => row[m].approval # row[k].approval

\* Only what was said is written down.
NotebookWasSaid == written \subseteq said /\ {l[1] : l \in note \union spare} \subseteq said

\* The rows, the rooms and the notebook agree on what was said.
RecordIsTrue == SaidWasHeard /\ RecordedOnce /\ NotebookWasSaid

-----------------------------------------------------------------------------
(* Liveness.  Coroutines get their turn and the loop keeps passing; it is   *)
(* not assumed that Alex answers, listens or stays.                         *)

Fairness ==
  /\ WF_vars(LoopStep)
  /\ \A t \in Tasks : WF_vars(Deliver(t)) /\ WF_vars(Mirror(t))

FairSpec == Spec /\ Fairness

\* A voice service that was down, or quiet hours, "delays a message instead of
\* losing it": once Alex can be reached, nothing urgent stays unsaid.
Waiting(m) == m \in Ids /\ status[m] = "pending" /\ row[m].urgency = "now"

PendingIsSaid ==
  <>[](voice = "here") => \A m \in Messages : Waiting(m) ~> ~Waiting(m)

\* "a failure here is never fatal": what is marked said is written down in the
\* end, through failed writes and a restart.
SaidIsWritten == \A m \in Messages : m \in said ~> m \in written

\* Nothing urgent stays unsaid and nothing said stays unwritten.
EverythingIsDelivered == PendingIsSaid /\ SaidIsWritten

-----------------------------------------------------------------------------
(* What the repository says and the code does not keep.                    *)

\* conversation_service.py:11-12: "a message is never silently lost and never
\* spoken twice".
SpokenAtMostOnce == \A m \in Ids : heard[m] <= 1

\* notebooks.py:192: the notebook holds "everything Gary said out loud".
NotebookHoldsWritten == \A m \in written : <<m, "said">> \in note \union spare
=============================================================================
