------------------------------ MODULE WorkingTime ------------------------------
(***************************************************************************)
(* Working time and the free blocks around a busy calendar: the arithmetic *)
(* of gary/services/calendar_blocks.py, against what it is for.            *)
(*                                                                         *)
(* Time is a number of minutes of some size in one time zone, DayLength of *)
(* them a day, from midnight of day 0; intervals are half open.            *)
(***************************************************************************)
EXTENDS Integers, FiniteSets, SequencesExt

CONSTANTS DayLength, LastDay, Weeks, BusyTimes, MIN_MINUTES

Horizon == 0 .. DayLength * (LastDay + 1)
Spans == {i \in Horizon \X Horizon : i[1] < i[2]}

\* A WorkWeek: hours of the day, which days, and protected times of the day.
WeekType(w) ==
  /\ {w.from, w.to} \subseteq 0 .. DayLength /\ w.from < w.to /\ w.days \subseteq 0 .. LastDay
  /\ w.protected \in SUBSET ((0 .. DayLength - 1) \X (0 .. DayLength - 1))
  /\ \A p \in w.protected : p[1] < p[2]

\* An event without length is left out of BusyTimes: it would split a free
\* block into two.
ASSUME WorkingTimeAssumption ==
  /\ {DayLength, MIN_MINUTES} \subseteq Nat \ {0} /\ LastDay \in Nat
  /\ \A w \in Weeks : WeekType(w)
  /\ BusyTimes \in SUBSET (SUBSET Spans)

VARIABLES
  week, busyTimes,   \* what a question is asked about
  askedFor,            \* and from when to when
  answer             \* find_free_blocks

workingTimeVars == <<week, busyTimes, askedFor, answer>>

Earlier(i, j) == i[1] < j[1] \/ (i[1] = j[1] /\ i[2] < j[2])
InOrder(S) ==
  CHOOSE s \in [1 .. Cardinality(S) -> S] : \A i, j \in DOMAIN s : i < j => Earlier(s[i], s[j])
Later(m, n) == IF m < n THEN n ELSE m
Sooner(m, n) == IF m < n THEN m ELSE n

-----------------------------------------------------------------------------
(* The code.  Its lists are written as what each item leaves, put together. *)

\* What is left of an item that is kept under a condition.
Kept(condition, item) == IF condition THEN <<item>> ELSE <<>>

\* _clip, of one interval.
Clip(interval, start, end) ==
  LET clipped == <<Later(interval[1], start), Sooner(interval[2], end)>>
  IN  Kept(clipped[1] < clipped[2], clipped)

\* One interval of _subtract: which of the busy ones it passes by, with a cursor
\* at or past its end where the code breaks off; ...
Passes(interval, b, cursor) == b[2] <= cursor \/ b[1] >= interval[2] \/ cursor >= interval[2]

\* ... how the cursor goes on over the busy ones in order; ...
Cursors(interval, busy) ==
  LET cursor[n \in 0 .. Len(busy)] ==
        IF n = 0 THEN interval[1]
        ELSE IF Passes(interval, busy[n], cursor[n - 1]) THEN cursor[n - 1]
        ELSE Later(cursor[n - 1], busy[n][2])
  IN  cursor

\* ... and the gap it leaves in front of the n-th, and at last of the end.
Gap(interval, busy, n) ==
  LET cursor == Cursors(interval, busy)[n - 1]
  IN  IF n > Len(busy) THEN Kept(cursor < interval[2], <<cursor, interval[2]>>)
      ELSE Kept(~Passes(interval, busy[n], cursor) /\ busy[n][1] > cursor, <<cursor, busy[n][1]>>)
Carve(interval, busy) == FlattenSeq([n \in 1 .. Len(busy) + 1 |-> Gap(interval, busy, n)])

\* _subtract.
Subtract(intervals, busy) ==
  FlattenSeq([k \in DOMAIN intervals |-> Carve(intervals[k], InOrder(busy))])

\* _local_days, and those of them that are worked.
WorkDays(w, start, end) ==
  {d \in w.days : start \div DayLength <= d /\ d <= end \div DayLength}
At(day, time) == day * DayLength + time

\* protected_intervals.
Protected(w, start, end) ==
  UNION {UNION {ToSet(Clip(<<At(d, p[1]), At(d, p[2])>>, start, end)) : p \in w.protected} :
           d \in WorkDays(w, start, end)}

\* The working hours of the days between start and end.
Windows(w, start, end) ==
  FlattenSeq([k \in 1 .. LastDay + 1 |->
                IF k - 1 \in WorkDays(w, start, end)
                THEN Clip(<<At(k - 1, w.from), At(k - 1, w.to)>>, start, end) ELSE <<>>])

\* Mutant of WorkWindows: the protected times are offered.
WindowsUnprotected(w, start, end) == Windows(w, start, end)

\* work_windows.
WorkWindows(w, start, end) == Subtract(Windows(w, start, end), Protected(w, start, end))

\* find_free_blocks, before the limit on their number.
FreeBlocks(w, start, end, busy) ==
  LET free == Subtract(WorkWindows(w, start, end), busy)
  IN  FlattenSeq([k \in DOMAIN free |-> Kept(free[k][2] - free[k][1] >= MIN_MINUTES, free[k])])

\* working_time_problem: there is one.
Problem(w, start, end) ==
  LET day == start \div DayLength IN
  \/ day \notin w.days \/ start < At(day, w.from) \/ end > At(day, w.to)
  \/ \E p \in Protected(w, start, end) : start < p[2] /\ p[1] < end

-----------------------------------------------------------------------------

WorkingTimeInit ==
  /\ week \in Weeks /\ busyTimes \in BusyTimes /\ askedFor \in Spans
  /\ answer = [given |-> FALSE, blocks |-> <<>>]

\* The tools and the cycle ask; the answer depends on nothing else.
FindFreeBlocks ==
  /\ ~answer.given
  /\ answer' = [given |-> TRUE, blocks |-> FreeBlocks(week, askedFor[1], askedFor[2], busyTimes)]
  /\ UNCHANGED <<week, busyTimes, askedFor>>

\* Whatever is offered may be booked: the blocks are in order and apart, within
\* what was asked, clear of the calendar, and the check of schedule_task finds
\* nothing wrong with them.  And nothing is held back: any time that could be
\* booked and is long enough lies in one of them.  The two are computed by
\* different code, from windows and from the clock.
BlocksAreBookable ==
  LET offered == ToSet(answer.blocks)
      clear(i) == /\ ~Problem(week, i[1], i[2])
                  /\ \A b \in busyTimes : i[2] <= b[1] \/ b[2] <= i[1] IN
  answer.given =>
    /\ \A i \in DOMAIN answer.blocks \ {1} : answer.blocks[i - 1][2] <= answer.blocks[i][1]
    /\ \A i \in offered : askedFor[1] <= i[1] /\ i[2] <= askedFor[2] /\ clear(i)
    /\ \A i \in Spans :
         (askedFor[1] <= i[1] /\ i[2] <= askedFor[2] /\ i[2] - i[1] >= MIN_MINUTES /\ clear(i))
           => \E o \in offered : o[1] <= i[1] /\ i[2] <= o[2]
=============================================================================
