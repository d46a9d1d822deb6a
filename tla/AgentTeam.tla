------------------------------ MODULE AgentTeam ------------------------------
(***************************************************************************)
(* How Gary manages the team: AgentService and GaryCorpAgentRunner.        *)
(*                                                                         *)
(* An assignment is a row, committed before it runs.  Whoever asked for it *)
(* starts its coroutine after the commit, unless it is cancelled first.    *)
(* The coroutine carries the row through the spend gate, the semaphore,    *)
(* the claim of the row, the specialist's executor (a thread with a        *)
(* timeout), the report's validation and the last transaction.  The server *)
(* and the operator's command line (app/team_cli.py) are two processes on  *)
(* one database, each with its own runner; only the server recovers rows   *)
(* when it starts.                                                         *)
(***************************************************************************)
EXTENDS Integers, FiniteSets

CONSTANTS Agents,          \* employees that rows may name
          Rosters,         \* the rosters a process may load when it starts
          Searches,        \* whether delegations are a search's rounds
          Processes,       \* the server, and the command line if it is used
          Server,
          MaxAssignments,  \* bound on rows
          MaxActive,       \* max_active_assignments
          MaxConcurrent,   \* max_concurrent_runs
          MaxFollowUps,    \* max_review_follow_ups
          OutputRetries,   \* output_retries
          MaxExits,        \* bound on process deaths and cancelled callers
          MaxTold          \* bound on the announcements counted

None == "none"

ASSUME AgentsAssumption == None \notin Agents
ASSUME ProcessesAssumption == Server \in Processes
ASSUME RostersAssumption == Rosters # {} /\ Rosters \subseteq SUBSET Agents
ASSUME SearchesAssumption == Searches # {} /\ Searches \subseteq BOOLEAN
ASSUME LimitsAssumption ==
  /\ {MaxAssignments, MaxActive, MaxFollowUps, OutputRetries, MaxExits, MaxTold} \subseteq Nat
  /\ MaxConcurrent \in Nat \ {0}

Ids == 1 .. MaxAssignments
Reviews == Ids                 \* a review has the id of its first assignment
NoReview == 0

VARIABLES
  given,      \* what each assignment was created with
  status,     \* agent_assignments.status
  run,        \* the status of its agent_runs row
  starts,     \* how often a run of it was started
  verdict,    \* management_reviews.status
  followUps,  \* follow_ups_used
  told,       \* how often a review was announced as ready, up to MaxTold
  task,       \* the coroutine of each process on each assignment
  spending,   \* SpendGate.allowed()
  roster,     \* what each process loaded: agents that may be given work
  up,         \* processes that run
  exits,      \* deaths and cancellations so far
  cut,        \* rows whose caller was cancelled before it started them, since
              \* the server last started
  link        \* whether an open round of a running search names the row

rowVars == <<given, status, run, starts, verdict, followUps>>
envVars == <<spending, roster, up, exits, cut, link>>
vars == <<rowVars, told, task, envVars>>

\* round, and whether a search carries it: only such a one is ever restarted.
Assignment == [to : Agents, review : Reviews \union {NoReview}, round : {1, 2},
               search : BOOLEAN]
Nothing == [to |-> None, review |-> NoReview, round |-> 1, search |-> FALSE]
Active == {"queued", "running"}
Ended == {"completed", "failed"}
RunEnded == {"failed", "timed_out", "invalid_output"}

\* at: where the coroutine stands; attempt: answers asked of the specialist;
\* why: the run status it is about to fail with.  At "new" there is no coroutine
\* yet, only a caller about to start it.
Steps == {"none", "new", "gate", "wait", "claim", "execute", "finish", "fail", "tell"}
Gone == [at |-> "none", attempt |-> 0, why |-> None]

Coroutine == [at : Steps, attempt : 0 .. OutputRetries + 1,
              why : RunEnded \union {None}]

\* An assignment that no round names yet (or that is none of a search's), one
\* that an open round names, and one that no round waits for any more.
Links == {None, "open", "closed"}

Created == {i \in Ids : status[i] # None}

TypeOK ==
  /\ given \in [Ids -> Assignment \union {Nothing}]
  /\ status \in [Ids -> Active \union Ended \union {None}]
  /\ run \in [Ids -> {None, "running", "succeeded"} \union RunEnded]
  /\ starts \in [Ids -> Nat]
  /\ verdict \in [Reviews -> {None, "running", "completed", "partial", "failed"}]
  /\ followUps \in [Reviews -> 0 .. MaxFollowUps]
  /\ told \in [Reviews -> 0 .. MaxTold]
  /\ task \in [Processes -> [Ids -> Coroutine]]
  /\ spending \in BOOLEAN /\ roster \in [Processes -> Rosters] /\ up \subseteq Processes
  /\ exits \in 0 .. MaxExits
  /\ cut \subseteq Ids /\ link \in [Ids -> Links]
  /\ \A i \in Ids : (given[i] = Nothing) <=> (status[i] = None)

Init ==
  /\ given = [i \in Ids |-> Nothing] /\ status = [i \in Ids |-> None]
  /\ run = [i \in Ids |-> None] /\ starts = [i \in Ids |-> 0]
  /\ verdict = [r \in Reviews |-> None] /\ followUps = [r \in Reviews |-> 0]
  /\ told = [r \in Reviews |-> 0]
  /\ task = [p \in Processes |-> [i \in Ids |-> Gone]]
  /\ spending = TRUE /\ roster \in [Processes -> Rosters] /\ up = Processes
  /\ exits = 0 /\ cut = {} /\ link = [i \in Ids |-> None]

-----------------------------------------------------------------------------
(* The rows.                                                               *)

ActiveOnes == {i \in Created : status[i] \in Active}

\* Mutant of HasCapacity: the limit is compared with what is there already.
HasCapacityForOne(new) == Cardinality(ActiveOnes) + 1 <= MaxActive

\* _check_capacity, in the transaction that creates the rows.
HasCapacity(new) == Cardinality(ActiveOnes) + Cardinality(new) <= MaxActive

\* The next n ids.
Fresh(n) == {i \in Ids \ Created : i <= Cardinality(Created) + n}

FirstRound(r) == {i \in Created : given[i].review = r /\ given[i].round = 1}
SecondRound(r) == {i \in Created : given[i].review = r /\ given[i].round = 2}

\* _refresh_review: what a review's first round adds up to.
Verdict(members, s) ==
  LET done == {i \in members : s[i] = "completed"} IN
  IF \E i \in members : s[i] \in Active THEN "running"
  ELSE IF done = members THEN "completed"
  ELSE IF done = {} THEN "failed" ELSE "partial"

\* The reviews of the rows in ended, refreshed after their statuses changed.
Refreshed(ended, s) ==
  [r \in Reviews |->
     IF verdict[r] # None /\ \E i \in ended : given[i].review = r
     THEN Verdict(FirstRound(r), s) ELSE verdict[r]]

\* The coroutines of the given ids, put to a step from nothing.
Placed(p, ids, step) ==
  [task EXCEPT ![p] = [i \in Ids |-> IF i \in ids THEN [Gone EXCEPT !.at = step]
                                                ELSE @[i]]]

-----------------------------------------------------------------------------
(* Delegation.                                                             *)

Create(ids, to, review, round, search) ==
  /\ given' = [i \in Ids |-> IF i \in ids
                             THEN [to |-> to[i], review |-> review, round |-> round,
                                   search |-> search]
                             ELSE given[i]]
  /\ status' = [i \in Ids |-> IF i \in ids THEN "queued" ELSE status[i]]

\* A delegation of a search's round that never returned names no row: the next
\* pass abandons the round.
Unlinked(ids) ==
  [i \in Ids |-> IF i \in ids /\ given[i].search /\ link[i] = None
                 THEN "closed" ELSE link[i]]

\* delegate: one employee; a product search delegates its rounds this way.
Delegate(p, a, search) ==
  /\ p \in up /\ a \in roster[p]
  /\ search => p = Server
  /\ \E i \in Fresh(1) :
       /\ HasCapacity({i})
       /\ Create({i}, [j \in {i} |-> a], NoReview, 1, search)
       /\ task' = Placed(p, {i}, "new")
  /\ UNCHANGED <<run, starts, verdict, followUps, told, envVars>>

\* start_review: each of several employees once, independently.
StartReview(p, asked) ==
  LET new == Fresh(Cardinality(asked)) IN
  /\ p \in up /\ asked \subseteq roster[p] /\ Cardinality(new) = Cardinality(asked)
  /\ asked # {} /\ HasCapacity(new)
  /\ \E r \in new, to \in [new -> asked] :
       /\ \A i \in new : r <= i
       /\ {to[i] : i \in new} = asked
       /\ Create(new, to, r, 1, FALSE)
       /\ verdict' = [verdict EXCEPT ![r] = "running"]
  /\ task' = Placed(p, new, "new")
  /\ UNCHANGED <<run, starts, followUps, told, envVars>>

\* Mutant of MayFollowUp: the round may be waiting for its turn.
MayFollowUpEarly(r) ==
  /\ verdict[r] # None
  /\ \A i \in FirstRound(r) : status[i] # "running"
  /\ followUps[r] < MaxFollowUps

\* The first round is in, and use_follow_up has one left.
MayFollowUp(r) ==
  /\ verdict[r] # None
  /\ \A i \in FirstRound(r) : status[i] \notin Active
  /\ followUps[r] < MaxFollowUps

FollowUp(r, a) ==
  /\ Server \in up /\ a \in roster[Server]
  /\ MayFollowUp(r)
  /\ followUps' = [followUps EXCEPT ![r] = @ + 1]
  /\ \E i \in Fresh(1) :
       /\ HasCapacity({i})
       /\ Create({i}, [j \in {i} |-> a], r, 2, FALSE)
       /\ task' = Placed(Server, {i}, "new")
  /\ UNCHANGED <<run, starts, verdict, told, envVars>>

\* Mutant of RestartQueued: a row is only started again if it ran before.
RestartQueuedAgain(i) ==
  /\ Server \in up /\ task[Server][i].at = "none" /\ spending
  /\ link[i] = "open" /\ status[i] = "running"
  /\ task' = Placed(Server, {i}, "new")
  /\ UNCHANGED <<rowVars, told, envVars>>

\* restart_queued, for the round that a running search waits for: the search's
\* pass asks the spend gate first, and starts the row after its transaction.
RestartQueued(i) ==
  /\ Server \in up /\ task[Server][i].at = "none" /\ spending
  /\ link[i] = "open" /\ status[i] = "queued"
  /\ task' = Placed(Server, {i}, "new")
  /\ UNCHANGED <<rowVars, told, envVars>>

\* The rows that one call created, and starts in one go.
Call(i) ==
  IF given[i].review # NoReview /\ given[i].round = 1
  THEN FirstRound(given[i].review) ELSE {i}

\* The thread that committed the rows has returned to its caller: _start.
Begin(p, i) ==
  /\ task[p][i].at = "new"
  /\ task' = Placed(p, Call(i), "gate")
  /\ UNCHANGED <<rowVars, told, envVars>>

\* The caller is cancelled while it waits for the thread (the voice connection
\* it serves is closed, say): the rows stay queued and nobody starts them.
CallerCancelled(p, i) ==
  /\ task[p][i].at = "new" /\ exits < MaxExits
  /\ exits' = exits + 1 /\ cut' = cut \union Call(i)
  /\ task' = Placed(p, Call(i), "none")
  /\ link' = Unlinked(Call(i))
  /\ UNCHANGED <<rowVars, told, spending, roster, up>>

\* _attach_assignment, after delegate has returned.
Attach(i) ==
  /\ Server \in up /\ task[Server][i].at # "new"
  /\ given[i].search /\ link[i] = None
  /\ link' = [link EXCEPT ![i] = "open"]
  /\ UNCHANGED <<rowVars, told, task, spending, roster, up, exits, cut>>

\* The search is stopped or ends, or another pass met the round before its
\* assignment was attached, and abandoned it.
LetGo(i) ==
  /\ given[i].search /\ link[i] # "closed"
  /\ link' = [link EXCEPT ![i] = "closed"]
  /\ UNCHANGED <<rowVars, told, task, spending, roster, up, exits, cut>>

-----------------------------------------------------------------------------
(* A run.                                                                  *)

At(p, i, step) == task[p][i].at = step
Put(p, i, coroutine) == task' = [task EXCEPT ![p][i] = coroutine]
Goto(p, i, step) == Put(p, i, [task[p][i] EXCEPT !.at = step])
GoFail(p, i, why) == Put(p, i, [task[p][i] EXCEPT !.at = "fail", !.why = why])
Leave(p, i) == Put(p, i, Gone)

\* run_assignment asks the spend gate before it waits; a closed gate ends the
\* coroutine and leaves the row queued.
PassGate(p, i) ==
  /\ At(p, i, "gate")
  /\ IF spending THEN Goto(p, i, "wait") ELSE Leave(p, i)
  /\ UNCHANGED <<rowVars, told, envVars>>

Holders(p) ==
  {i \in Ids : task[p][i].at \in {"claim", "execute", "finish", "fail", "tell"}}

AcquireSlot(p, i) ==
  /\ At(p, i, "wait") /\ Cardinality(Holders(p)) < MaxConcurrent
  /\ Goto(p, i, "claim")
  /\ UNCHANGED <<rowVars, told, envVars>>

\* Mutant of Claimable: a queued or running row may be taken.
ClaimableActive(p, i) == status[i] \in Active /\ given[i].to \in roster[p]

\* The compare and set of _start.
Claimable(p, i) == status[i] = "queued" /\ given[i].to \in roster[p]

Claim(p, i) ==
  /\ At(p, i, "claim") /\ Claimable(p, i)
  /\ status' = [status EXCEPT ![i] = "running"]
  /\ run' = [run EXCEPT ![i] = "running"]
  /\ starts' = [starts EXCEPT ![i] = @ + 1]
  /\ Put(p, i, [Gone EXCEPT !.at = "execute", !.attempt = 1])
  /\ UNCHANGED <<given, verdict, followUps, told, envVars>>

\* Another process has it; or the agent left the roster, and the exception that
\* reports it rolls back the transaction that had marked the row failed.
ClaimRefused(p, i) ==
  /\ At(p, i, "claim") /\ ~Claimable(p, i)
  /\ Leave(p, i)
  /\ UNCHANGED <<rowVars, told, envVars>>

\* The context or the executor raised.
ExecutorRaises(p, i) ==
  /\ At(p, i, "execute")
  /\ GoFail(p, i, "failed")
  /\ UNCHANGED <<rowVars, told, envVars>>

\* wait_for gives up.  The thread cannot be stopped and runs on, without its
\* tools and without a row to write.
TimesOut(p, i) ==
  /\ At(p, i, "execute")
  /\ GoFail(p, i, "timed_out")
  /\ UNCHANGED <<rowVars, told, envVars>>

\* The thread returned, and its answer is validated before anything is awaited.
ReportIsValid(p, i) ==
  /\ At(p, i, "execute")
  /\ Goto(p, i, "finish")
  /\ UNCHANGED <<rowVars, told, envVars>>

\* Mutant of ReportIsRejected: the attempts are counted from zero.
ReportIsRejectedLate(p, i) ==
  /\ At(p, i, "execute")
  /\ IF task[p][i].attempt > OutputRetries + 1
     THEN GoFail(p, i, "invalid_output")
     ELSE Put(p, i, [task[p][i] EXCEPT !.attempt = @ + 1])
  /\ UNCHANGED <<rowVars, told, envVars>>

\* Asked again output_retries times with the validation's feedback.
ReportIsRejected(p, i) ==
  /\ At(p, i, "execute")
  /\ IF task[p][i].attempt > OutputRetries
     THEN GoFail(p, i, "invalid_output")
     ELSE Put(p, i, [task[p][i] EXCEPT !.attempt = @ + 1])
  /\ UNCHANGED <<rowVars, told, envVars>>

\* Mutant of Finish: the report is stored whatever became of the row.
FinishAlways(p, i) ==
  /\ At(p, i, "finish")
  /\ status' = [status EXCEPT ![i] = "completed"]
  /\ run' = [run EXCEPT ![i] = "succeeded"]
  /\ verdict' = Refreshed({i}, status')
  /\ Goto(p, i, "tell")
  /\ UNCHANGED <<given, starts, followUps, told, envVars>>

\* _finish: the row, the run and the review in one transaction.
Finish(p, i) ==
  /\ At(p, i, "finish") /\ status[i] = "running"
  /\ status' = [status EXCEPT ![i] = "completed"]
  /\ run' = [run EXCEPT ![i] = "succeeded"]
  /\ verdict' = Refreshed({i}, status')
  /\ Goto(p, i, "tell")
  /\ UNCHANGED <<given, starts, followUps, told, envVars>>

\* "Assignment was no longer running when it finished", rolled back.
FinishRefused(p, i) ==
  /\ At(p, i, "finish") /\ status[i] # "running"
  /\ GoFail(p, i, "failed")
  /\ UNCHANGED <<rowVars, told, envVars>>

\* _fail: the row only if it still runs, the run row in any case.
Fail(p, i) ==
  /\ At(p, i, "fail")
  /\ status' = [status EXCEPT ![i] = IF @ = "running" THEN "failed" ELSE @]
  /\ run' = [run EXCEPT ![i] = task[p][i].why]
  /\ verdict' = Refreshed({i}, status')
  /\ Goto(p, i, "tell")
  /\ UNCHANGED <<given, starts, followUps, told, envVars>>

\* on_finished in the server: the review is read again, after the commit, and
\* announced if it is no longer running (unless quiet hours silence it).
Tell(p, i) ==
  /\ At(p, i, "tell")
  /\ Leave(p, i)
  /\ LET r == given[i].review IN
     told' \in IF /\ p = Server /\ r # NoReview /\ given[i].round = 1
                   /\ verdict[r] # "running" /\ told[r] < MaxTold
               THEN {told, [told EXCEPT ![r] = @ + 1]} ELSE {told}
  /\ UNCHANGED <<rowVars, envVars>>

-----------------------------------------------------------------------------
(* Processes, the roster and the ceiling.                                  *)

Exit(p) ==
  /\ p \in up /\ exits < MaxExits
  /\ exits' = exits + 1 /\ up' = up \ {p}
  /\ task' = Placed(p, Ids, "none")
  /\ link' = IF p = Server THEN Unlinked(Ids) ELSE link
  /\ UNCHANGED <<rowVars, told, spending, roster, cut>>

\* fail_running, and the running rows of _recover_db.
Interrupt ==
  /\ status' = [i \in Ids |-> IF status[i] = "running" THEN "failed" ELSE status[i]]
  /\ run' = [i \in Ids |-> IF run[i] = "running" THEN "failed" ELSE run[i]]

StartServer(queued) ==
  /\ up' = up \union {Server}
  /\ \E team \in Rosters : roster' = [roster EXCEPT ![Server] = team]
  /\ task' = Placed(Server, queued, "gate") /\ cut' = {}
  /\ UNCHANGED <<given, starts, followUps, told, spending, exits, link>>

\* Mutants of Recover: the reviews are left as they are; the records of the runs
\* are; what was queued is not started.
RecoverWithoutReviews ==
  /\ Server \notin up
  /\ Interrupt /\ verdict' = verdict
  /\ StartServer({i \in Created : status'[i] = "queued"})

RecoverWithoutRuns ==
  /\ Server \notin up
  /\ status' = [i \in Ids |-> IF status[i] = "running" THEN "failed" ELSE status[i]]
  /\ run' = run
  /\ verdict' = Refreshed({i \in Created : status[i] = "running"}, status')
  /\ StartServer({i \in Created : status'[i] = "queued"})

RecoverOnlyFails ==
  /\ Server \notin up
  /\ Interrupt /\ verdict' = Refreshed({i \in Created : status[i] = "running"}, status')
  /\ StartServer({})

\* The server starts: sync_roster, then recover_interrupted, which fails every
\* running row, whichever process runs it, and starts every queued one.
Recover ==
  /\ Server \notin up
  /\ Interrupt /\ verdict' = Refreshed({i \in Created : status[i] = "running"}, status')
  /\ StartServer({i \in Created : status'[i] = "queued"})

OpenCommandLine(p) ==
  /\ p # Server /\ p \notin up
  /\ up' = up \union {p}
  /\ \E team \in Rosters : roster' = [roster EXCEPT ![p] = team]
  /\ UNCHANGED <<rowVars, told, task, spending, exits, cut, link>>

CeilingChanges ==
  /\ spending' = ~spending
  /\ UNCHANGED <<rowVars, told, task, roster, up, exits, cut, link>>

-----------------------------------------------------------------------------
Step(p, i) ==
  \/ Begin(p, i) \/ PassGate(p, i) \/ AcquireSlot(p, i)
  \/ Claim(p, i) \/ ClaimRefused(p, i)
  \/ ExecutorRaises(p, i) \/ TimesOut(p, i)
  \/ ReportIsValid(p, i) \/ ReportIsRejected(p, i)
  \/ Finish(p, i) \/ FinishRefused(p, i) \/ Fail(p, i) \/ Tell(p, i)

Next ==
  \/ \E a \in Agents :
       \/ \E p \in Processes, search \in Searches : Delegate(p, a, search)
       \/ \E r \in Reviews : FollowUp(r, a)
  \/ \E p \in Processes, asked \in SUBSET Agents : StartReview(p, asked)
  \/ \E p \in Processes, i \in Ids : Step(p, i) \/ CallerCancelled(p, i)
  \/ \E i \in Ids : RestartQueued(i) \/ Attach(i) \/ LetGo(i)
  \/ \E p \in Processes : Exit(p) \/ OpenCommandLine(p)
  \/ Recover \/ CeilingChanges

Spec == Init /\ [][Next]_vars

\* A coroutine or a caller goes on while its process runs and nobody cancels it:
\* the executor is bounded by wait_for, the semaphore is first come first served.
\* run_product_search_loop passes over the running searches for ever, and a
\* container that died is started again (restart: unless-stopped).
FairSpec ==
  /\ Spec
  /\ \A p \in Processes, i \in Ids : WF_vars(Step(p, i))
  /\ \A i \in Ids : WF_vars(RestartQueued(i)) /\ WF_vars(Attach(i))
  /\ WF_vars(Recover)

-----------------------------------------------------------------------------
(* Properties.                                                             *)

\* "so an assignment cannot run twice" (AssignmentRepository.transition): neither
\* a restart, nor the search's tick, nor the other process runs it again.
RunsOnce == \A i \in Ids : starts[i] <= 1

\* The row and the record of its run tell the same story, whichever of the two
\* processes wrote last: a completed assignment has a succeeded run, a failed one
\* a run that ended badly, and a queued one no run.
RecordsAgree ==
  \A i \in Created :
    /\ status[i] = "queued" <=> run[i] = None
    /\ status[i] = "running" <=> run[i] = "running"
    /\ status[i] = "completed" <=> run[i] = "succeeded"

\* However delegations, reviews and follow-ups interleave, the team never has
\* more queued and running rows than max_active_assignments.
CapacityKept == Cardinality(ActiveOnes) <= MaxActive

\* A review's stored status is what its first round adds up to now, after runs,
\* failures and recoveries: _refresh_review is called wherever one ends.
ReviewTells ==
  \A r \in Reviews : verdict[r] # None => verdict[r] = Verdict(FirstRound(r), status)

\* A review is asked at most max_review_follow_ups further questions, each counted,
\* and none before its first round is in.
FollowUpsBounded ==
  \A r \in Reviews :
    /\ Cardinality(SecondRound(r)) = followUps[r]
    /\ followUps[r] <= MaxFollowUps
    /\ SecondRound(r) # {} => verdict[r] \in {"completed", "partial", "failed"}

\* What has ended stays as it ended: no late report, failure or recovery rewrites
\* the status of an assignment or the verdict of a review.
EndedStays ==
  [][/\ \A i \in Ids : status[i] \in Ended => status'[i] = status[i]
     /\ \A r \in Reviews : verdict[r] \notin {None, "running"} => verdict'[r] = verdict[r]]_vars

\* The roster keeps everyone who was given work, and nobody closes the command
\* line before its assignments have ended.
Kept(i) ==
  [](/\ Processes \ {Server} \subseteq up
     /\ \A p \in Processes : status[i] # None => given[i].to \in roster[p])

\* While the ceiling is not reached every assignment comes to its end, the server's
\* deaths included: recover_interrupted fails what ran and starts what was queued,
\* a row whose caller was cancelled before it started it too.  Only that one waits
\* for the server's next start.
AssignmentsEnd ==
  \A i \in Ids :
    []spending /\ Kept(i) /\ <>[](i \notin cut) =>
      (status[i] \in Active ~> status[i] \in Ended)

\* A round that the closed gate left queued is started again as long as its search
\* waits for it: once the ceiling stays open it ends, however often it was closed
\* before, or the search has let go of it.
SearchRoundsEnd ==
  \A i \in Ids :
    <>[]spending /\ Kept(i) =>
      ((status[i] \in Active /\ given[i].search) ~>
         (status[i] \in Ended \/ link[i] = "closed"))

\* "the assignment stays queued and runs when the ceiling resets, rather than
\* failing" (runner.run_assignment): an assignment that is no search's round is
\* picked up by nobody until the server restarts.
QueuedRunsWhenCeilingResets ==
  \A i \in Ids :
    <>[]spending /\ Kept(i) => (status[i] = "queued" ~> status[i] # "queued")

\* "Announce a review once, when its last first-round report is in"
\* (main.announce_assignment_finished): two reports committed together both see
\* the review ready.
ReviewAnnouncedOnce == \A r \in Reviews : told[r] <= 1
=============================================================================
