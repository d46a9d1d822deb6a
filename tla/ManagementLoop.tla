---------------------------- MODULE ManagementLoop ----------------------------
(***************************************************************************)
(* When Gary thinks: the management loop, the planning scheduler and the   *)
(* replanning after a missed block, around the one lock of PlanningCycle.  *)
(*                                                                         *)
(* Every tick of the loop asks whether anything happened since the last    *)
(* cycle finished, and only then runs one.  It looks at the switches, the  *)
(* gap and the day's budget before it waits for the lock, and the          *)
(* scheduler reads which types have run today before it does.  Alex may    *)
(* ask for a cycle of any scheduled type in conversation, too.  What is    *)
(* measured from the last cycle's end is told apart here by where an event *)
(* stands to the cycles; time is the ticks since a cycle last ended.       *)
(***************************************************************************)
EXTENDS Switches, Integers, FiniteSets, SequencesExt

CONSTANTS Events,        \* reports, answers, missed blocks, follow-ups due ...
          Standing,      \* those that stay a reason while they last
          MinGap,        \* MIN_GAP_MINUTES, in ticks
          EventGap,      \* EVENT_PLANNING_MIN_GAP_MINUTES
          AskedGap,      \* RUN_CYCLE_MIN_GAP_MINUTES
          LongAgo,       \* bound: ticks longer than any gap asks for
          Askers,        \* conversations, and voice connections that see a missed block
          Requests,      \* what they want: a scheduled type, "manual", or "event" for the block
          MaxPerDay,     \* MAX_MANAGEMENT_CYCLES_PER_DAY
          Scheduled,     \* the planning types of PLANNING_TIMES
          MaxServerStops \* bound on restarts

ASSUME ManagementAssumption ==
  /\ Standing \subseteq Events /\ {MinGap, EventGap, AskedGap, LongAgo, MaxServerStops} \subseteq Nat
  /\ MinGap <= LongAgo /\ EventGap <= LongAgo /\ AskedGap <= LongAgo
  /\ MaxPerDay \in Nat \ {0} /\ {None, "management", "event", "manual"} \cap Scheduled = {}
  /\ {None, "loop", "scheduler"} \cap Askers = {}
  /\ Requests \subseteq Scheduled \union {"manual", "event"}

\* A cycle that is waited for or runs: whose it is, and its planning type.
Cycle(who, t) == [by |-> who, type |-> t]
Own == Cycle("loop", "management")
Daily(t) == Cycle("scheduler", t)
NoCycle == Cycle(None, None)

Cycles == {Own} \union {Daily(t) : t \in Scheduled} \union [by : Askers, type : Requests]
Counted == Scheduled \union {"management"}

VARIABLES
  event,     \* where each event stands to the cycles
  since,     \* ticks since a cycle finished, up to LongAgo
  rest,      \* ticks since a management cycle finished, up to LongAgo
  budget,    \* DailyBudget._used, in memory
  loop,      \* where the management loop stands
  scheduler, \* where the scheduler stands, and the types it found due
  queue,     \* the cycles waiting for the lock, first come first served
  running,   \* the cycle that holds it, or NoCycle
  ranToday,  \* how often the loop and the scheduler began a cycle of a type today
  started,   \* the scheduled types with a run of today, whoever began it
  woke,      \* how many management cycles an event was a reason of, up to 2
  restarts   \* today's, and in all

loopVars == <<event, since, rest, budget, loop, scheduler, queue, running, ranToday, started, woke,
              restarts>>

\* new: after the last cycle ended; during: while one runs, which has read its
\* context; reading: in that context; read, passed: before the last cycle ended,
\* in a context or in none.
Stands == {"not yet", "new", "during", "reading", "read", "passed"}

LoopTypeOK ==
  /\ event \in [Events -> Stands]
  /\ since \in 0 .. LongAgo /\ rest \in 0 .. LongAgo
  /\ budget \in 0 .. MaxPerDay
  /\ loop \in {"asleep", "gap", "triggers", "busy"}
  /\ scheduler \in [at : {"asleep", "looks", "works"}, due : SUBSET Scheduled]
  /\ queue \in Seq(Cycles) /\ running \in Cycles \union {NoCycle}
  /\ ranToday \in [Counted -> Nat] /\ started \subseteq Scheduled
  /\ woke \in [Events -> 0 .. 2]
  /\ restarts \in [today : Nat, all : 0 .. MaxServerStops]

SchedulerAsleep == [at |-> "asleep", due |-> {}]

LoopInit ==
  /\ event = [e \in Events |-> "not yet"] /\ since = LongAgo /\ rest = LongAgo
  /\ budget = 0 /\ loop = "asleep" /\ scheduler = SchedulerAsleep
  /\ queue = <<>> /\ running = NoCycle
  /\ ranToday = [t \in Counted |-> 0] /\ started = {} /\ woke = [e \in Events |-> 0]
  /\ restarts = [today |-> 0, all |-> 0]

-----------------------------------------------------------------------------
(* The management loop.                                                    *)

\* Mutant of Reasons: what happened before the last cycle counts again.
EverHappened == {e \in Events : event[e] # "not yet"}

\* What find_triggers and completed_since count: what happened after the last
\* cycle ended, and what still lasts.
Reasons ==
  {e \in Events : \/ event[e] \in {"new", "during", "reading"}
                  \/ e \in Standing /\ event[e] # "not yet"}

\* A tick or wake_management_loop: the pause, then spend_stop.
LoopWakes ==
  /\ loop = "asleep" /\ ~paused /\ spending
  /\ loop' = "gap"
  /\ UNCHANGED <<event, since, rest, budget, queue, running, ranToday, started, woke, restarts, scheduler>>

\* Mutant of GapIsOver: one tick is distance enough.
NoGap == TRUE

\* minutes_since_last_cycle against MIN_GAP_MINUTES.
GapIsOver == since >= MinGap

\* The gap, then what the budget has left.
LoopMeasures ==
  /\ loop = "gap"
  /\ loop' = IF GapIsOver /\ budget < MaxPerDay THEN "triggers" ELSE "asleep"
  /\ UNCHANGED <<event, since, rest, budget, queue, running, ranToday, started, woke, restarts, scheduler>>

\* The triggers; with one, the budget is taken and the lock is waited for.
LoopDecides ==
  /\ loop = "triggers"
  /\ IF Reasons = {} \/ budget >= MaxPerDay
     THEN /\ loop' = "asleep" /\ UNCHANGED <<budget, queue, woke>>
     ELSE /\ loop' = "busy" /\ budget' = budget + 1
          /\ queue' = Append(queue, Own)
          /\ woke' = [e \in Events |-> IF e \in Reasons /\ woke[e] < 2 THEN woke[e] + 1 ELSE woke[e]]
  /\ UNCHANGED <<event, since, rest, running, ranToday, started, restarts, scheduler>>

-----------------------------------------------------------------------------
(* The other callers.                                                      *)

Busy(who) == \E c \in ToSet(queue) \union {running} : c.by = who

\* Mutant of NotStarted: a type is due whenever its time has come.
AllScheduled == Scheduled

NotStarted == Scheduled \ started

\* The scheduler reads which types have run today, and finds some of the others in
\* their window; then it looks at the pause and at spend_stop.
SchedulerReads ==
  /\ scheduler.at = "asleep" /\ ~Busy("scheduler")
  /\ \E due \in SUBSET NotStarted \ {{}} : scheduler' = [at |-> "looks", due |-> due]
  /\ UNCHANGED <<event, since, rest, budget, loop, queue, running, ranToday, started, woke, restarts>>

SchedulerLooks ==
  /\ scheduler.at = "looks"
  /\ scheduler' = IF paused \/ ~spending THEN SchedulerAsleep ELSE [scheduler EXCEPT !.at = "works"]
  /\ UNCHANGED <<event, since, rest, budget, loop, queue, running, ranToday, started, woke, restarts>>

\* It runs what it found due one after the other, however long each waits, and
\* reads again when the last has ended.
SchedulerDue(t) ==
  /\ scheduler.at = "works" /\ t \in scheduler.due /\ ~Busy("scheduler")
  /\ scheduler' = IF scheduler.due = {t} THEN SchedulerAsleep
                  ELSE [scheduler EXCEPT !.due = @ \ {t}]
  /\ queue' = Append(queue, Daily(t))
  /\ UNCHANGED <<event, since, rest, budget, loop, running, ranToday, started, woke, restarts>>

\* planning_run_cycle for what Alex asks for, replan_after_missed_block for "event":
\* neither looks at a switch.
Replan(a, t) ==
  /\ ~Busy(a)
  /\ queue' = Append(queue, Cycle(a, t))
  /\ UNCHANGED <<event, since, rest, budget, loop, scheduler, running, ranToday, started, woke, restarts>>

-----------------------------------------------------------------------------
(* The lock.                                                               *)

\* A gap that was given is looked at with the lock held.
TooSoon(c) == c.by \in Askers /\ since < (IF c.type = "event" THEN EventGap ELSE AskedGap)

\* Mutant of BackToSleep: a cycle's end leaves the loop where it was.
StaysBusy(c) == loop' = loop

BackToSleep(c) == loop' = IF c = Own THEN "asleep" ELSE loop

\* Refused, or the caller was cancelled as it waited.
Refused ==
  /\ running = NoCycle /\ queue # <<>> /\ Head(queue).by \in Askers
  /\ queue' = Tail(queue)
  /\ UNCHANGED <<event, since, rest, budget, loop, running, ranToday, started, woke, restarts, scheduler>>

\* The context is read as the run's row is created.
Begin ==
  /\ running = NoCycle /\ queue # <<>> /\ ~TooSoon(Head(queue))
  /\ running' = Head(queue) /\ queue' = Tail(queue)
  /\ ranToday' = [t \in Counted |-> IF Head(queue).by \notin Askers /\ Head(queue).type = t
                                    THEN ranToday[t] + 1 ELSE ranToday[t]]
  /\ started' = started \union ({Head(queue).type} \cap Scheduled)
  /\ event' = [e \in Events |-> IF event[e] \in {"new", "passed"} THEN "reading" ELSE event[e]]
  /\ UNCHANGED <<since, rest, budget, loop, woke, restarts, scheduler>>

\* Completed or failed: from now on everything is measured from here.
Finish ==
  /\ running # NoCycle /\ running' = NoCycle
  /\ since' = 0 /\ rest' = IF running = Own THEN 0 ELSE rest
  /\ event' = [e \in Events |-> IF event[e] = "reading" THEN "read"
                                ELSE IF event[e] = "during" THEN "passed" ELSE event[e]]
  /\ BackToSleep(running)
  /\ UNCHANGED <<budget, queue, ranToday, started, woke, restarts, scheduler>>

\* What was read or happened in a cycle that never ended is new again.
Unread == [e \in Events |-> IF event[e] \in {"reading", "during"} THEN "new" ELSE event[e]]

\* The caller is cancelled with the lock held, its connection gone: the run stays
\* open, and no cycle has finished.
CutOff ==
  /\ running.by \in Askers /\ running' = NoCycle
  /\ event' = Unread
  /\ UNCHANGED <<since, rest, budget, loop, scheduler, queue, ranToday, started, woke, restarts>>

-----------------------------------------------------------------------------
(* Time, events and restarts.                                              *)

Later(n) == IF n < LongAgo THEN n + 1 ELSE n

Tick ==
  /\ <<since, rest>> # <<LongAgo, LongAgo>>
  /\ since' = Later(since) /\ rest' = Later(rest)
  /\ UNCHANGED <<event, budget, loop, queue, running, ranToday, started, woke, restarts, scheduler>>

\* The budget rolls over when it is next asked, the scheduler's day with the
\* rows' dates.
Midnight ==
  /\ budget' = 0 /\ ranToday' = [t \in Counted |-> 0] /\ started' = {}
  /\ restarts' = [restarts EXCEPT !.today = 0]
  /\ UNCHANGED <<event, since, rest, loop, scheduler, queue, running, woke>>

Happens(e) ==
  /\ event[e] = "not yet"
  /\ event' = [event EXCEPT ![e] = IF running = NoCycle THEN "new" ELSE "during"]
  /\ UNCHANGED <<since, rest, budget, loop, queue, running, ranToday, started, woke, restarts, scheduler>>

\* The server stops and starts: nothing finished, and the budget is forgotten.
ServerRestarts ==
  /\ restarts.all < MaxServerStops
  /\ restarts' = [today |-> restarts.today + 1, all |-> restarts.all + 1]
  /\ budget' = 0 /\ loop' = "asleep" /\ scheduler' = SchedulerAsleep
  /\ queue' = <<>> /\ running' = NoCycle
  /\ event' = Unread
  /\ UNCHANGED <<since, rest, ranToday, started, woke>>

LoopStep == LoopWakes \/ LoopMeasures \/ LoopDecides
SchedulerStep == SchedulerReads \/ SchedulerLooks \/ \E t \in Scheduled : SchedulerDue(t)
LockStep == Refused \/ Begin \/ Finish

LoopActs ==
  \/ LoopStep \/ SchedulerStep \/ LockStep \/ CutOff \/ Tick \/ Midnight \/ ServerRestarts
  \/ \E a \in Askers, t \in Requests : Replan(a, t)
  \/ \E e \in Events : Happens(e)

LoopNext == (LoopActs /\ UNCHANGED switches) \/ (Flip /\ UNCHANGED loopVars)

-----------------------------------------------------------------------------
(* Properties.                                                             *)

\* Unattended thinking is bounded by the day: the loop's cycles by its budget,
\* which a restart alone gives back, and a scheduled type by the one run the
\* scheduler begins, although the types were read before the lock was waited for
\* and Alex may have asked for one meanwhile (DailyBudget, run_types_started_on).
DayKeepsBudget ==
  /\ ranToday["management"] <= MaxPerDay * (1 + restarts.today) + 1
  /\ \A t \in Scheduled : ranToday[t] <= 1

\* What is measured from the last cycle wakes the loop once, unless a restart
\* cut off the cycle it woke (find_triggers).
WakesOnce == \A e \in Events \ Standing : woke[e] <= 1 + restarts.all

ManagementIsSound == DayKeepsBudget /\ WakesOnce

\* "so a trigger cannot fire twice for the same event": no event at all is a
\* reason of two cycles.
TriggerFiresOnce == \A e \in Events : woke[e] <= 1

\* Two management cycles are MIN_GAP_MINUTES apart, although the gap is looked at
\* before the lock is waited for and other cycles run in between.
ManagementGapKept ==
  [][running' = Own /\ running # Own => rest >= MinGap]_loopVars

\* Once the company runs for good, whatever happens between two cycles is in the
\* context of a cycle in the end, with no help from the scheduler.
NewIsRead == OpenForGood => \A e \in Events : event[e] = "new" ~> event[e] \in {"reading", "read"}
=============================================================================
