------------------------------ MODULE DayRoutine ------------------------------
(***************************************************************************)
(* Gary managing Alex's day: the assignment each morning, the check-in     *)
(* each evening and the report, in one loop whose memory is the audit log. *)
(*                                                                         *)
(* A pass takes the time once, at its start, and then looks at the report, *)
(* the assignment and the check-in in that order; an exception ends it.    *)
(* Which of the three is due at an hour is given by Hours.  The            *)
(* assignment and the check-in are recorded before they are told, the      *)
(* report after it was emailed.                                            *)
(***************************************************************************)
EXTENDS Switches, Integers, FiniteSets, Sequences

CONSTANTS DayTasks,  \* tasks
          Agendas,   \* what a day may look like
          Hours,     \* what is due at each hour of a day, in order
          FocusLimit,\* FOCUS_LIMIT
          MaxDay, MaxCuts   \* bounds on days and on restarts

\* An agenda: which tasks are on today's calendar, ready (in the order of their
\* score), due soon and overdue, and whether the day is a working day.
AgendaType(a) ==
  /\ {a.booked, a.soon, a.late} \subseteq SUBSET DayTasks /\ a.soon \cap a.late = {}
  /\ a.ready \in Seq(DayTasks) /\ a.works \in BOOLEAN

ASSUME DayAssumption ==
  /\ {FocusLimit, MaxDay, MaxCuts} \subseteq Nat /\ MaxDay > 0 /\ Hours # <<>>
  /\ Hours \in Seq(SUBSET {"report", "assign", "check in"})
  /\ \A a \in Agendas : AgendaType(a)

Days == 1 .. MaxDay

VARIABLES
  now,       \* the day and the hour
  agenda,    \* what the day looks like
  finished,  \* tasks completed
  given,     \* daily_assignment_given: what was assigned each day
  checked,   \* daily_checkin_asked: what was done and what was open
  reported,  \* daily_report_sent rows of each day
  toldAlex,  \* how often each day's assignment and check-in were told
  pass,      \* where the loop stands
  cuts

dayVars == <<now, agenda, finished, given, checked, reported, toldAlex, pass, cuts>>

\* due: what its start said; day: of the record it is about to write or has
\* written; done, open: what it read for it.
Resting == [at |-> "rests", due |-> {}, day |-> 0, done |-> {}, open |-> {}]

DayTypeOK ==
  /\ now.day \in Days /\ now.hour \in DOMAIN Hours
  /\ agenda \in Agendas /\ finished \subseteq DayTasks
  /\ \A d \in Days :
       /\ given[d] \in [on : BOOLEAN, work : SUBSET DayTasks]
       /\ checked[d] \in [on : BOOLEAN, done : SUBSET DayTasks, open : SUBSET DayTasks]
  /\ reported \in [Days -> Nat]
  /\ toldAlex \in [{"assignment", "check-in"} -> [Days -> Nat]]
  /\ pass.at \in {"rests", "report", "email", "record", "assign", "give", "tell",
                  "check in", "ask", "say"}
  /\ cuts \in 0 .. MaxCuts

DayInit ==
  /\ now = [day |-> 1, hour |-> 1] /\ agenda \in Agendas /\ finished = {}
  /\ given = [d \in Days |-> [on |-> FALSE, work |-> {}]]
  /\ checked = [d \in Days |-> [on |-> FALSE, done |-> {}, open |-> {}]]
  /\ reported = [d \in Days |-> 0]
  /\ toldAlex = [k \in {"assignment", "check-in"} |-> [d \in Days |-> 0]]
  /\ pass = Resting /\ cuts = 0

world == <<now, agenda, finished, cuts>>
log == <<given, checked, reported, toldAlex>>

-----------------------------------------------------------------------------
(* The assignment.                                                         *)

OpenWork == DayTasks \ finished

\* collect_operations offers tasks that are open; on an off day nothing is
\* handed out but what is booked.
Booked == agenda.booked \cap OpenWork
Focus ==
  LET ready == {i \in DOMAIN agenda.ready : agenda.ready[i] \in OpenWork \ Booked} IN
  IF ~agenda.works THEN {}
  ELSE {agenda.ready[i] : i \in {n \in ready : Cardinality({m \in ready : m < n}) < FocusLimit}}
Assigned == Booked \union Focus

\* At risk and overdue, of what is not in the assignment.
Warnings == ((IF agenda.works THEN agenda.soon \cap OpenWork ELSE {})
              \union (agenda.late \cap OpenWork)) \ Assigned

-----------------------------------------------------------------------------
(* A pass of run_accountability.                                           *)

Sleeps == pass' = Resting

PassBegins ==
  /\ pass.at = "rests" /\ ~paused
  /\ pass' = [Resting EXCEPT !.at = "report", !.due = Hours[now.hour]]
  /\ UNCHANGED <<world, log>>

\* sent_today; the review round that precedes the report is module Reviews.
ReportDue ==
  /\ pass.at = "report"
  /\ pass' = [pass EXCEPT !.at = IF "report" \in pass.due /\ reported[now.day] = 0
                                 THEN "email" ELSE "assign"]
  /\ UNCHANGED <<world, log>>

\* The email is an action like any other; it may fail, which is recorded too,
\* or raise, which is not.
ReportEmailed ==
  /\ pass.at = "email"
  /\ Sleeps \/ pass' = [pass EXCEPT !.at = "record"]
  /\ UNCHANGED <<world, log>>

\* record_sent writes the day of its own clock; saying it may raise.
ReportRecorded ==
  /\ pass.at = "record"
  /\ reported' = [reported EXCEPT ![now.day] = @ + 1]
  /\ Sleeps \/ pass' = [pass EXCEPT !.at = "assign"]
  /\ UNCHANGED <<world, given, checked, toldAlex>>

\* morning: the assignment is read, and given up when it is empty.
MorningReads ==
  /\ pass.at = "assign"
  /\ IF "assign" \in pass.due /\ Assigned \union Warnings # {}
     THEN pass' = [pass EXCEPT !.at = "give", !.day = now.day, !.open = Assigned]
     ELSE pass' = [pass EXCEPT !.at = "check in"]
  /\ UNCHANGED <<world, log>>

\* Mutant of RecordOnce: the day's event is written whether or not it exists.
RecordAnyway(event) == TRUE

\* _record_once looks for the day's event in the transaction that writes it.
RecordOnce(event) == ~event[pass.day].on

MorningRecords ==
  /\ pass.at = "give"
  /\ IF RecordOnce(given)
     THEN /\ given' = [given EXCEPT ![pass.day] = [on |-> TRUE, work |-> pass.open]]
          /\ pass' = [pass EXCEPT !.at = "tell"]
     ELSE pass' = [pass EXCEPT !.at = "check in"] /\ UNCHANGED given
  /\ UNCHANGED <<world, checked, reported, toldAlex>>

\* The email and the voice.
MorningTells ==
  /\ pass.at = "tell"
  /\ toldAlex' = [toldAlex EXCEPT !["assignment"][pass.day] = @ + 1]
  /\ Sleeps \/ pass' = [pass EXCEPT !.at = "check in"]
  /\ UNCHANGED <<world, given, checked, reported>>

\* evening: what was assigned today and has had no check-in.
EveningReads ==
  /\ pass.at = "check in"
  /\ IF "check in" \in pass.due /\ given[now.day].on /\ ~checked[now.day].on
     THEN pass' = [pass EXCEPT !.at = "ask", !.day = now.day,
                    !.done = given[now.day].work \cap finished,
                    !.open = given[now.day].work \ finished]
     ELSE Sleeps
  /\ UNCHANGED <<world, log>>

EveningRecords ==
  /\ pass.at = "ask"
  /\ IF RecordOnce(checked)
     THEN /\ checked' = [checked EXCEPT ![pass.day] = [on |-> TRUE, done |-> pass.done, open |-> pass.open]]
          /\ pass' = [pass EXCEPT !.at = "say"]
     ELSE Sleeps /\ UNCHANGED checked
  /\ UNCHANGED <<world, given, reported, toldAlex>>

EveningSays ==
  /\ pass.at = "say"
  /\ toldAlex' = [toldAlex EXCEPT !["check-in"][pass.day] = @ + 1]
  /\ Sleeps
  /\ UNCHANGED <<world, given, checked, reported>>

-----------------------------------------------------------------------------
(* Alex's day, and restarts.                                               *)

AlexFinishes(t) ==
  /\ t \in OpenWork /\ finished' = finished \union {t}
  /\ UNCHANGED <<now, agenda, log, pass, cuts>>

HourPasses ==
  /\ IF now.hour < Len(Hours)
     THEN now' = [now EXCEPT !.hour = @ + 1] /\ UNCHANGED agenda
     ELSE /\ now.day < MaxDay /\ now' = [day |-> now.day + 1, hour |-> 1]
          /\ agenda' \in Agendas
  /\ UNCHANGED <<finished, log, pass, cuts>>

DayCutOff ==
  /\ cuts < MaxCuts /\ pass # Resting
  /\ cuts' = cuts + 1 /\ Sleeps
  /\ UNCHANGED <<now, agenda, finished, log>>

DayPass ==
  \/ PassBegins \/ ReportDue \/ ReportEmailed \/ ReportRecorded \/ MorningReads
  \/ MorningRecords \/ MorningTells \/ EveningReads \/ EveningRecords \/ EveningSays

DayNext ==
  /\ DayPass \/ HourPasses \/ DayCutOff \/ \E t \in DayTasks : AlexFinishes(t)
  /\ UNCHANGED switches

-----------------------------------------------------------------------------
(* Properties.                                                             *)

\* Alex hears of a day's assignment and of its check-in at most once, whatever
\* restarts there are, and only of one that is on record; a check-in accounts
\* for exactly what the day's assignment was; and no day has two reports on
\* record, also when midnight passes between the look and the record.
DayIsRemembered ==
  \A d \in Days :
    /\ toldAlex["assignment"][d] <= IF given[d].on THEN 1 ELSE 0
    /\ toldAlex["check-in"][d] <= IF checked[d].on THEN 1 ELSE 0
    /\ checked[d].on =>
         /\ given[d].on /\ checked[d].done \cap checked[d].open = {}
         /\ checked[d].done \union checked[d].open = given[d].work
    /\ reported[d] <= 1
=============================================================================
