------------------------------ MODULE Production ------------------------------
(***************************************************************************)
(* The weekly video schedule: the dates of shoots and episodes, and the    *)
(* loop that plans batches and puts their fixed hours on the calendar.     *)
(*                                                                         *)
(* Days are numbered from a Monday; an hour is 24 * day + hour of day.     *)
(* Settings come from .env and may change when the server starts.          *)
(***************************************************************************)
EXTENDS Integers, FiniteSets, Sequences

CONSTANTS Schedules,     \* ProductionSchedule: [shoot, first, per, weekday]
          HORIZON_DAYS, ATTEMPTS_PER_DAY,
          Mornings,      \* the days on which anything is looked at
          MaxEpisode, MaxMishaps

DAY_END == 17
SHOOT_HOUR == 10
FILM_HOURS == 2    \* per episode

ASSUME ProductionAssumption ==
  /\ {HORIZON_DAYS, MaxEpisode, MaxMishaps} \subseteq Nat /\ ATTEMPTS_PER_DAY \in Nat \ {0}
  /\ Mornings \subseteq Nat
  /\ \A s \in Schedules : /\ s.shoot \in Nat /\ s.first \in Nat \ {0} /\ s.per \in 1 .. 8
                          /\ s.weekday \in 0 .. 6
  /\ 0 \in Mornings

Numbers == 1 .. MaxEpisode

VARIABLES
  schedule,   \* the settings the server runs with
  morning,    \* today
  episode,    \* production_episodes: when each is shot and published, by which settings
  booked,     \* fixed tasks with an event: <<"film" or "publish", episode>>
  closed,     \* fixed tasks completed or cancelled
  loop,       \* where run_production_schedule stands
  dayRecord,  \* done_day; the day of the last attempts, how many, how many raised
  stops

productionVars == <<schedule, morning, episode, booked, closed, loop, dayRecord, stops>>

Unplanned == [made |-> FALSE, batch |-> 0, shoot |-> 0, publish |-> 0, by |-> [first |-> 0]]
NoDay == [done |-> -1, day |-> -1, tries |-> 0, raised |-> 0]
DayRecords == [done : Mornings \union {-1}, day : Mornings \union {-1}, tries : Nat, raised : Nat]

ProductionTypeOK ==
  /\ schedule \in Schedules /\ morning \in Mornings
  /\ booked \union closed \subseteq {"film", "publish"} \X Numbers
  /\ \A n \in Numbers : episode[n] # Unplanned => episode[n].made /\ episode[n].by \in Schedules
  /\ loop \in {"asleep", "plan", "book"} /\ dayRecord \in DayRecords /\ stops \in 0 .. MaxMishaps

ProductionInit ==
  /\ schedule \in Schedules /\ morning = 0 /\ episode = [n \in Numbers |-> Unplanned]
  /\ booked = {} /\ closed = {} /\ loop = "asleep" /\ dayRecord = NoDay /\ stops = 0

-----------------------------------------------------------------------------
(* The dates.                                                              *)

BatchOf(s, n) == (n - s.first) \div s.per
EpisodesOf(s, b) == {n \in Numbers : n >= s.first /\ BatchOf(s, n) = b}
ShootDate(s, b) == s.shoot + 7 * b * s.per

\* Mutant of DaysAhead: a shoot on a publish day is published on that day.
DaysAheadSameDay(s) == (s.weekday - s.shoot) % 7

\* The first publish day after the shoot, never the shoot's own.
DaysAhead(s) == IF (s.weekday - s.shoot) % 7 = 0 THEN 7 ELSE (s.weekday - s.shoot) % 7
PublishDate(s, n) == ShootDate(s, BatchOf(s, n)) + DaysAhead(s) + 7 * ((n - s.first) % s.per)

Hour(day, h) == 24 * day + h
MondayOf(day) == day - (day % 7)

\* batch_plan: the earliest start and the deadline of each stage.
Stage(s, n) ==
  LET shoot == ShootDate(s, BatchOf(s, n))
      filmed == Hour(shoot, SHOOT_HOUR + FILM_HOURS * s.per)
      publish == PublishDate(s, n)
      post == IF filmed > Hour(MondayOf(publish), 0) THEN filmed ELSE Hour(MondayOf(publish), 0)
  IN [script |-> <<Hour(MondayOf(shoot), 0), Hour(shoot - 1, DAY_END)>>,
      film |-> <<Hour(shoot, SHOOT_HOUR), filmed>>,
      edit |-> <<post, Hour(publish - 2, DAY_END)>>,
      thumbnail |-> <<post, Hour(publish - 1, DAY_END)>>,
      publish |-> <<Hour(publish, DAY_END - 1), Hour(publish, DAY_END)>>]

-----------------------------------------------------------------------------
(* A pass.                                                                 *)

\* plan_upcoming: the batches within the horizon, none that is past.
Upcoming == {b \in 0 .. MaxEpisode :
               ShootDate(schedule, b) \in morning .. morning + HORIZON_DAYS}

\* _create_batch, one transaction each: nothing of a batch of which any episode
\* exists.  No two batches of one schedule share an episode, so their order does
\* not matter.
Creates == {n \in Numbers :
  /\ n >= schedule.first /\ BatchOf(schedule, n) \in Upcoming
  /\ \A m \in EpisodesOf(schedule, BatchOf(schedule, n)) : ~episode[m].made}

\* What a pass counts is counted for the day it began on, also after midnight.
BeginDay ==
  /\ loop = "asleep" /\ dayRecord.done # morning /\ loop' = "plan"
  /\ dayRecord' = IF dayRecord.day = morning THEN [dayRecord EXCEPT !.tries = @ + 1]
                  ELSE [dayRecord EXCEPT !.day = morning, !.tries = 1, !.raised = 0]
  /\ UNCHANGED <<schedule, morning, episode, booked, closed, stops>>

PlanUpcoming ==
  /\ loop = "plan" /\ loop' = "book"
  /\ episode' = [n \in Numbers |->
       IF n \notin Creates THEN episode[n]
       ELSE [made |-> TRUE, batch |-> BatchOf(schedule, n), by |-> schedule,
             shoot |-> ShootDate(schedule, BatchOf(schedule, n)),
             publish |-> PublishDate(schedule, n)]]
  /\ UNCHANGED <<schedule, morning, booked, closed, dayRecord, stops>>

\* The film task is the batch's first episode's.
Fixed == {<<"film", n>> : n \in {m \in Numbers : episode[m].made /\ \A k \in 1 .. m - 1 :
                                  episode[k].by # episode[m].by \/ episode[k].batch # episode[m].batch}}
         \union {<<"publish", n>> : n \in {m \in Numbers : episode[m].made}}
StartsOn(f) == IF f[1] = "film" THEN episode[f[2]].shoot ELSE episode[f[2]].publish

\* list_unscheduled_fixed_tasks.
Unbooked == {f \in Fixed \ (booked \union closed) : StartsOn(f) > morning}

\* schedule_fixed_tasks: each is one action, which succeeds or fails; here all
\* of them do, or one fails, or none.
BookFixedTasks ==
  /\ loop = "book" /\ loop' = "asleep"
  /\ \E failed \in {{}, Unbooked} \union {{f} : f \in Unbooked} :
       /\ booked' = booked \union (Unbooked \ failed)
       /\ dayRecord' = IF failed = {} \/ dayRecord.tries >= ATTEMPTS_PER_DAY
                       THEN [dayRecord EXCEPT !.done = dayRecord.day] ELSE dayRecord
  /\ UNCHANGED <<schedule, morning, episode, closed, stops>>

\* An exception, from the database or from an action's check: the day is not done.
Raises ==
  /\ loop \in {"plan", "book"} /\ dayRecord.raised < MaxMishaps
  /\ loop' = "asleep" /\ dayRecord' = [dayRecord EXCEPT !.raised = @ + 1]
  /\ UNCHANGED <<schedule, morning, episode, booked, closed, stops>>

-----------------------------------------------------------------------------

CloseFixed(f) ==
  /\ f \in Fixed \ closed /\ closed' = closed \union {f}
  /\ UNCHANGED <<schedule, morning, episode, booked, loop, dayRecord, stops>>

NextMorning ==
  /\ \E d \in Mornings : /\ d > morning /\ \A e \in Mornings : e <= morning \/ e >= d
                         /\ morning' = d
  /\ UNCHANGED <<schedule, episode, booked, closed, loop, dayRecord, stops>>

\* A restart, perhaps with other settings; what the loop remembers of today is gone.
RestartWith(s) ==
  /\ stops < MaxMishaps /\ stops' = stops + 1
  /\ schedule' = s /\ loop' = "asleep" /\ dayRecord' = NoDay
  /\ UNCHANGED <<morning, episode, booked, closed>>

ProductionNext ==
  \/ BeginDay \/ PlanUpcoming \/ BookFixedTasks \/ Raises \/ NextMorning
  \/ \E n \in Numbers, k \in {"film", "publish"} : CloseFixed(<<k, n>>)
  \/ \E s \in Schedules : RestartWith(s)

-----------------------------------------------------------------------------
(* Properties.                                                             *)

Made == {n \in Numbers : episode[n].made}

\* One episode a week: episodes planned under one setting are published on its
\* weekday, as many weeks apart as their numbers, after their shoot, also where a
\* batch was skipped, a day was missed or the server restarted in between.
OneEpisodeAWeek ==
  \A m, n \in Made :
    LET e == episode[m]
        f == episode[n] IN
    /\ e.publish % 7 = e.by.weekday /\ e.publish > e.shoot
    /\ e.by = f.by => f.publish - e.publish = 7 * (n - m)

\* A batch comes into being whole; and on a day that counts as done some episode of
\* every batch within the horizon is planned, by these settings or by others, also
\* where a pass went on past midnight (plan_upcoming, run_production_schedule).
BatchesAreWhole ==
  /\ \A n \in Made : \A m \in EpisodesOf(episode[n].by, episode[n].batch) :
       episode[m] = [episode[n] EXCEPT !.publish = PublishDate(episode[n].by, m)]
  /\ dayRecord.done = morning =>
       \A b \in Upcoming : EpisodesOf(schedule, b) # {} => EpisodesOf(schedule, b) \cap Made # {}

\* The stages follow one another, and none is due before it may begin, if the
\* episode is published on a Wednesday or later and at least three days after the
\* shoot; otherwise the edit's deadline precedes its start (batch_plan).
StagesFollow ==
  \A n \in Made :
    LET s == episode[n].by
        t == Stage(s, n) IN
    /\ t.script[2] < t.film[1] /\ t.film[2] <= t.edit[1]
    /\ t.edit[2] < t.thumbnail[2] /\ t.thumbnail[2] < t.publish[1]
    /\ (s.weekday >= 2 /\ episode[n].publish - episode[n].shoot >= 3) =>
         \A k \in DOMAIN t \ {"script"} : t[k][1] <= t[k][2]

\* A day's failed calendar writes are tried ATTEMPTS_PER_DAY times and no more,
\* but for passes that ended in an exception.
TriesAreFew == dayRecord.tries <= ATTEMPTS_PER_DAY + dayRecord.raised

ProductionIsSound == OneEpisodeAWeek /\ BatchesAreWhole /\ StagesFollow /\ TriesAreFew
=============================================================================
