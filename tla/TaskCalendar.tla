----------------------------- MODULE TaskCalendar -----------------------------
(***************************************************************************)
(* Tasks on Alex's calendar: the schedule and move actions around Google,  *)
(* and what Alex and the voice do to the events themselves.                *)
(*                                                                         *)
(* An action checks the task's row in a transaction, calls Google, and     *)
(* records in another; between the two anything may happen to the row and  *)
(* to the event.  Events are Google's; a task knows one by its id.         *)
(***************************************************************************)
EXTENDS Integers, FiniteSets

CONSTANTS Booking,       \* the tasks
          Times,         \* blocks of time
          WorkTimes,     \* those in which working_time_problem sees none
          Carriers,      \* actions in flight
          MaxEvents,     \* bound on events created
          MaxTangled     \* bound: nothing is asked for once so many tasks are tangled

NoEvent == 0
NoTime == "no time"
NoTask == "no task"
EventIds == 1 .. MaxEvents

ASSUME TaskCalendarAssumption ==
  /\ {MaxEvents, MaxTangled} \subseteq Nat /\ WorkTimes \subseteq Times
  /\ NoTime \notin Times /\ {NoTask, "deleted"} \cap Booking = {}

VARIABLES
  booking,   \* the tasks' rows: status, calendar_event_id, scheduled time
  promised,  \* tasks that an open commitment is about, or of critical priority
  google,    \* the event of each id: gone, or whose and when
  carrying,  \* the actions between check and record
  shown,     \* ids list_calendar_events returned in the conversation
  tangled,   \* tasks whose actions overlapped, or were cut off after Google
  shifted    \* events that Alex moved in Google since Gary set them

taskCalendarVars == <<booking, promised, google, carrying, shown, tangled, shifted>>

Row == [status : {"todo", "scheduled", "completed"},
        event : EventIds \union {NoEvent}, time : Times \union {NoTime}]
NotYet == [of |-> NoTask, time |-> NoTime]
Gone == [of |-> "deleted", time |-> NoTime]

\* step: idle, waiting for Alex, to be checked, before Google, before the record;
\* event: the id that the check read, or that Google gave.
Errand == [step : {"idle", "approval", "check", "call", "record"}, kind : {"schedule", "move"},
           task : Booking \union {NoTask}, time : Times \union {NoTime},
           override : BOOLEAN, event : EventIds \union {NoEvent}]
NoErrand == [step |-> "idle", kind |-> "schedule", task |-> NoTask, time |-> NoTime,
             override |-> FALSE, event |-> NoEvent]

TaskCalendarTypeOK ==
  /\ booking \in [Booking -> Row] /\ promised \subseteq Booking
  /\ google \in [EventIds -> [of : Booking \union {NoTask, "deleted"}, time : Times \union {NoTime}]]
  /\ carrying \in [Carriers -> Errand] /\ tangled \subseteq Booking
  /\ shown \subseteq EventIds /\ shifted \subseteq EventIds

TaskCalendarInit ==
  /\ booking = [t \in Booking |-> [status |-> "todo", event |-> NoEvent, time |-> NoTime]]
  /\ promised = {} /\ google = [i \in EventIds |-> NotYet]
  /\ carrying = [c \in Carriers |-> NoErrand] /\ shown = {} /\ tangled = {} /\ shifted = {}

Existing == {i \in EventIds : google[i] \notin {NotYet, Gone}}
EventsOf(t) == {i \in Existing : google[i].of = t}
Under(t) == {c \in Carriers : carrying[c].task = t /\ carrying[c].step \in {"call", "record"}}
GoTo(c, step) == carrying' = [carrying EXCEPT ![c].step = step]
EndErrand(c) == carrying' = [carrying EXCEPT ![c] = NoErrand]

-----------------------------------------------------------------------------
(* The two actions.                                                        *)

\* classify_move_event: moving what is critical or promised is Alex's decision.
Wanted(c, kind, t, time, override) ==
  /\ carrying[c] = NoErrand /\ Cardinality(tangled) < MaxTangled
  /\ carrying' = [carrying EXCEPT ![c] =
       [step |-> IF kind = "move" /\ t \in promised THEN "approval" ELSE "check", kind |-> kind,
        task |-> t, time |-> time, override |-> override, event |-> NoEvent]]
  /\ UNCHANGED <<booking, promised, google, shown, tangled, shifted>>

AlexDecides(c) ==
  /\ carrying[c].step = "approval"
  /\ GoTo(c, "check") \/ EndErrand(c)
  /\ UNCHANGED <<booking, promised, google, shown, tangled, shifted>>

\* Mutant of MayCarryOut: that the task is on the calendar already is not seen.
CarriesOutAnyway(e) ==
  /\ e.override \/ e.time \in WorkTimes
  /\ booking[e.task].status # "completed"
  /\ e.kind = "move" => booking[e.task].event # NoEvent

\* check_schedule_task and check_move_event.
MayCarryOut(e) ==
  /\ e.override \/ e.time \in WorkTimes
  /\ booking[e.task].status # "completed"
  /\ e.kind = "move" <=> booking[e.task].event # NoEvent

CheckErrand(c) ==
  LET e == carrying[c] IN
  /\ e.step = "check"
  /\ IF MayCarryOut(e)
     THEN /\ carrying' = [carrying EXCEPT ![c].step = "call", ![c].event = booking[e.task].event]
          /\ tangled' = IF Under(e.task) # {} THEN tangled \union {e.task} ELSE tangled
     ELSE EndErrand(c) /\ UNCHANGED tangled
  /\ UNCHANGED <<booking, promised, google, shown, shifted>>

\* create_calendar_event: Google makes the event, and may fail to say so.
Insert(c) ==
  LET e == carrying[c] IN
  /\ e.step = "call" /\ e.kind = "schedule"
  /\ \E i \in EventIds :
       /\ google[i] = NotYet /\ \A j \in 1 .. i - 1 : google[j] # NotYet
       /\ google' = [google EXCEPT ![i] = [of |-> e.task, time |-> e.time]]
       /\ \/ carrying' = [carrying EXCEPT ![c].step = "record", ![c].event = i] /\ UNCHANGED tangled
          \/ EndErrand(c) /\ tangled' = tangled \union {e.task}
  /\ UNCHANGED <<booking, promised, shown, shifted>>

\* move_calendar_event_time: an event that no longer exists refuses.
Patch(c) ==
  LET e == carrying[c] IN
  /\ e.step = "call" /\ e.kind = "move"
  /\ IF e.event \in Existing
     THEN /\ google' = [google EXCEPT ![e.event].time = e.time] /\ shifted' = shifted \ {e.event}
          /\ \/ GoTo(c, "record") /\ UNCHANGED tangled
             \/ EndErrand(c) /\ tangled' = tangled \union {e.task}
     ELSE EndErrand(c) /\ UNCHANGED <<google, tangled, shifted>>
  /\ UNCHANGED <<booking, promised, shown>>

CallFails(c) ==
  /\ carrying[c].step = "call" /\ EndErrand(c)
  /\ UNCHANGED <<booking, promised, google, shown, tangled, shifted>>

\* Mutant of Recorded: a move leaves the row's time as it was.
RecordedLate(row, e) ==
  IF e.kind = "move" THEN row
  ELSE [status |-> IF row.status = "todo" THEN "scheduled" ELSE row.status,
        event |-> e.event, time |-> e.time]

\* record_schedule_task and record_move_event: a task that was completed meanwhile
\* keeps its status and gets the time.
Recorded(row, e) ==
  IF e.kind = "move" THEN [row EXCEPT !.time = e.time]
  ELSE [status |-> IF row.status = "todo" THEN "scheduled" ELSE row.status,
        event |-> e.event, time |-> e.time]

RecordErrand(c) ==
  LET e == carrying[c] IN
  /\ e.step = "record"
  /\ booking' = [booking EXCEPT ![e.task] = Recorded(booking[e.task], e)]
  /\ EndErrand(c)
  /\ UNCHANGED <<promised, google, shown, tangled, shifted>>

\* The coroutine is cancelled, or the server stops, after Google did it.
CutOffErrand(c) ==
  /\ carrying[c].step = "record" /\ EndErrand(c)
  /\ tangled' = tangled \union {carrying[c].task}
  /\ UNCHANGED <<booking, promised, google, shown, shifted>>

-----------------------------------------------------------------------------
(* Alex, the voice, and the tasks' own operations.                         *)

\* list_calendar_events, and delete_calendar_event of an id it returned, which
\* Alex confirmed; the task's row is not told.
ListEvents ==
  /\ shown # shown \union Existing /\ shown' = shown \union Existing
  /\ UNCHANGED <<booking, promised, google, carrying, tangled, shifted>>

DeleteEvent(i) ==
  /\ i \in shown /\ shown' = shown \ {i}
  /\ google' = IF i \in Existing THEN [google EXCEPT ![i] = Gone] ELSE google
  /\ UNCHANGED <<booking, promised, carrying, tangled, shifted>>

\* Alex deletes or moves an event in Google himself.
RemovedInGoogle(i) ==
  /\ i \in Existing /\ google' = [google EXCEPT ![i] = Gone]
  /\ UNCHANGED <<booking, promised, carrying, shown, tangled, shifted>>

MovedInGoogle(i, time) ==
  /\ i \in Existing /\ google[i].time # time
  /\ google' = [google EXCEPT ![i].time = time] /\ shifted' = shifted \union {i}
  /\ UNCHANGED <<booking, promised, carrying, shown, tangled>>

\* create_commitment and resolve_commitment.
Promise(t) ==
  /\ promised' = (promised \union {t}) \ (promised \cap {t})
  /\ UNCHANGED <<booking, google, carrying, shown, tangled, shifted>>

Progress(t, status) ==
  /\ booking[t].status \notin {"completed", status}
  /\ booking' = [booking EXCEPT ![t].status = status]
  /\ UNCHANGED <<promised, google, carrying, shown, tangled, shifted>>

TaskCalendarNext ==
  \/ \E c \in Carriers :
       \/ \E k \in {"schedule", "move"}, t \in Booking, time \in Times, o \in BOOLEAN :
            Wanted(c, k, t, time, o)
       \/ AlexDecides(c) \/ CheckErrand(c) \/ Insert(c) \/ Patch(c) \/ CallFails(c)
       \/ RecordErrand(c) \/ CutOffErrand(c)
  \/ ListEvents
  \/ \E i \in EventIds : \/ DeleteEvent(i) \/ RemovedInGoogle(i)
                         \/ \E time \in Times : MovedInGoogle(i, time)
  \/ \E t \in Booking : Promise(t) \/ \E s \in {"completed"} : Progress(t, s)

-----------------------------------------------------------------------------
(* Properties.                                                             *)

\* Unless two of a task's actions were under way together or one was cut off after
\* Google did it, the task has no event on the calendar but the one its row knows,
\* and that one stands where the row says unless Alex moved it in Google since.  It
\* holds although the check reads the row long before the record writes it, and
\* whoever deletes or moves the event in between.
RowTellsEvent ==
  \A t \in Booking \ tangled :
    Under(t) = {} =>
      /\ EventsOf(t) = {booking[t].event} \cap Existing
      /\ booking[t].event \in Existing \ shifted => google[booking[t].event].time = booking[t].time
=============================================================================
