------------------------------ MODULE MCCompany ------------------------------
(***************************************************************************)
(* The company's work, its people, its calendar, its money and what it     *)
(* says: components that each keep their own rows, and that a behaviour    *)
(* here follows one at a time, chosen at the start, the rest standing      *)
(* still.                                                                  *)
(***************************************************************************)
EXTENDS PlanningCycle, ProductSearch, DayRoutine, Reviews, TaskGraph, TaskCalendar,
        WorkingTime, OrgChart, Hiring, Production, Purchases, Spending, Realtime,
        NewMail, VoiceSession

VARIABLE part    \* the component that runs

(***************************************************************************)
(* Values of the constants.                                                *)
(***************************************************************************)
\* What a plan may hold: the same work twice, more of a kind than a day allows,
\* blocks that overlap, a move of what the plan before it scheduled, one proposal
\* too many.
Offer(kind, topic, who, task_, time) ==
    [kind |-> kind, topic |-> topic, who |-> who, task |-> task_, block |-> time]
Create == Offer("task", "x", {}, Nil, NoBlock)
Give(who) == Offer("delegate", "x", who, Nil, NoBlock)
Review == Offer("review", "y", {"a1", "a2"}, Nil, NoBlock)
Ticket(t) == Offer("ticket", Nil, {}, t, NoBlock)
Schedule(t, time) == Offer("schedule", Nil, {}, t, time)
Move(t, time) == Offer("move", Nil, {}, t, time)
Rank(t) == Offer("priority", Nil, {}, t, NoBlock)
Follow(topic) == Offer("followup", topic, {}, Nil, NoBlock)
MCPlans ==
    {<<Create, Create>>, <<Give({"a1"}), Give({"a2"})>>, <<Review, Give({"a1"})>>,
     <<Ticket("t1"), Ticket("t2"), Offer("hire", Nil, {}, Nil, NoBlock)>>,
     <<Schedule("t1", <<1, 2>>), Schedule("t2", <<1, 3>>)>>,
     <<Move("t1", <<2, 3>>), Schedule("t2", <<2, 3>>)>>,
     <<Rank("t1"), Rank("t1")>>, <<Follow("x"), Follow("x"), Follow("y")>>}
MCCycleCap == [k \in Capped |-> IF k \in {"delegate", "ticket", "priority"} THEN 2 ELSE 1]
MCDailyCap == [k \in Daily |-> 1]

Idea(name, score_) == [name |-> name, score |-> score_]
RoundReport(slate, questions) == [slate |-> slate, questions |-> questions]
MCReports == {RoundReport(<<Idea("A", 6), Idea("B", 7)>>, TRUE), RoundReport(<<Idea("A", 6)>>, FALSE)}
MCLimits == <<3>>

MCAgendas ==
    {[booked |-> {}, ready |-> <<"t1", "t2">>, soon |-> {"t2"}, late |-> {}, works |-> TRUE],
     [booked |-> {"t2"}, ready |-> <<>>, soon |-> {}, late |-> {"t1"}, works |-> FALSE]}
MCHours == <<{}, {"assign"}, {"check in", "report"}>>

MCStaff == <<"e1", "e2">>

WorkWeek(from, to, days, protected) ==
    [from |-> from, to |-> to, days |-> days, protected |-> protected]
MCWeeks == {WorkWeek(1, 5, {0, 1}, {<<2, 3>>}), WorkWeek(0, 6, {0, 1}, {}),
            WorkWeek(1, 5, {1}, {<<0, 2>>, <<3, 4>>})}
MCBusySpans == {<<0, 2>>, <<2, 3>>, <<1, 4>>, <<4, 8>>, <<5, 9>>, <<9, 11>>, <<7, 8>>}
MCBusy == {{}} \cup {{i, j} : i, j \in MCBusySpans}

HireProposal(id, book, post, fits) == [id |-> id, book |-> book, post |-> post, fits |-> fits]
MCProposals ==
    {HireProposal("nina", "Nina", "insight", TRUE), HireProposal("nina", "Nina", "sales", TRUE),
     HireProposal("omar", "Hal", "ops", TRUE), HireProposal("omar", "Omar", "ops", FALSE),
     HireProposal("nina", "Nadia", "insight", TRUE)}
MCFounders == {[id |-> "susan", book |-> "Susan"]}
MCEarlier == {[id |-> "hal", book |-> "Hal"]}

Settings(shoot, first, per, weekday) ==
    [shoot |-> shoot, first |-> first, per |-> per, weekday |-> weekday]
MCSchedules == {Settings(5, 1, 2, 4), Settings(9, 2, 2, 2)}

\* Two runs and a review; two purchases fill a month and its limit again.
MCBuyers ==
    {[id |-> "r1", review |-> FALSE], [id |-> "r2", review |-> FALSE],
     [id |-> "r3", review |-> TRUE]}
MCCards == {[id |-> "c", last |-> 2]}

\* Work that asks, a connection, and what never asks.  A call may be cached for more
\* than its text, be heard, or name its cost.
MCModelOf == [work |-> "m1", talk |-> "m1", replan |-> "m1"]
Tokens(input, cached, audio, output) ==
    [input |-> input, cached |-> cached, audio |-> audio, output |-> output]
Call(tokens, charge) ==
    [input |-> tokens.input, cached |-> tokens.cached, audio |-> tokens.audio,
     output |-> tokens.output, reported |-> charge]
MCCalls == {Call(Tokens(3, 2, 2, 1), Unstated), Call(Tokens(0, 0, 0, 0), 2)}
MCRates == {Tokens(1, 0, 1, 2)}

MCInboxes == <<"alex", "gary">>
MCMail == {"e1", "e2"}
MCInboxOf == [e \in MCMail |-> 1]

(***************************************************************************)
(* One component runs.                                                     *)
(***************************************************************************)
Parts == {"planning", "search", "day", "reviews", "tasks", "calendar", "free time",
          "chart", "hiring", "production", "purchases", "spending", "realtime", "mail",
          "voice"}

\* What differs from the start differs only in its own component; by the
\* symmetry of tasks every follow-up is about the first.
Init ==
    /\ part \in Parts
    /\ PlanningInit /\ SearchInit /\ SwitchesInit /\ ReviewInit /\ TaskCalendarInit
    /\ OrgInit /\ HiringInit /\ PurchasesInit /\ RealtimeInit /\ NewMailInit
    /\ VoiceSessionInit
    /\ SpendingInit /\ (part # "spending" => DOMAIN table = Models /\ ledger.cost = 0)
    /\ GraphInit /\ \A f \in Followups : followup[f].of = "t1"
    /\ DayInit /\ (part # "day" => agenda.works)
    /\ ProductionInit /\ (part # "production" => schedule.shoot = 5)
    /\ WorkingTimeInit
    /\ part # "free time" =>
         week.protected = {} /\ busyTimes = {} /\ askedFor = <<0, 1>>

\* What stands still while one component runs.
Rest(p) ==
    /\ UNCHANGED part
    /\ p \notin {"search", "day"} => UNCHANGED switches
    /\ p # "planning" => UNCHANGED planningVars
    /\ p # "search" => UNCHANGED searchVars
    /\ p # "day" => UNCHANGED dayVars
    /\ p # "reviews" => UNCHANGED reviewVars
    /\ p # "tasks" => UNCHANGED graphVars
    /\ p # "calendar" => UNCHANGED taskCalendarVars
    /\ p # "free time" => UNCHANGED workingTimeVars
    /\ p # "chart" => UNCHANGED orgVars
    /\ p # "hiring" => UNCHANGED hiringVars
    /\ p # "production" => UNCHANGED productionVars
    /\ p # "purchases" => UNCHANGED purchaseVars
    /\ p # "spending" => UNCHANGED spendingVars
    /\ p # "realtime" => UNCHANGED realtimeVars
    /\ p # "mail" => UNCHANGED newMailVars
    /\ p # "voice" => UNCHANGED voiceSessionVars

Next ==
    \/ part = "planning" /\ PlanningNext /\ Rest("planning")
    \/ part = "search" /\ SearchNext /\ Rest("search")
    \/ part = "day" /\ (DayNext \/ (Flip /\ UNCHANGED dayVars)) /\ Rest("day")
    \/ part = "reviews" /\ ReviewNext /\ Rest("reviews")
    \/ part = "tasks" /\ GraphNext /\ Rest("tasks")
    \/ part = "calendar" /\ TaskCalendarNext /\ Rest("calendar")
    \/ part = "free time" /\ FindFreeBlocks /\ Rest("free time")
    \/ part = "chart" /\ OrgNext /\ Rest("chart")
    \/ part = "hiring" /\ HiringNext /\ Rest("hiring")
    \/ part = "production" /\ ProductionNext /\ Rest("production")
    \/ part = "purchases" /\ PurchasesNext /\ Rest("purchases")
    \/ part = "spending" /\ SpendingNext /\ Rest("spending")
    \/ part = "realtime" /\ RealtimeNext /\ Rest("realtime")
    \/ part = "mail" /\ NewMailNext /\ Rest("mail")
    \/ part = "voice" /\ VoiceSessionNext /\ Rest("voice")

companyVars ==
    <<part, switches, planningVars, searchVars, dayVars, reviewVars, graphVars, taskCalendarVars,
      workingTimeVars, orgVars, hiringVars, productionVars, purchaseVars, spendingVars,
      realtimeVars, newMailVars, voiceSessionVars>>

Spec == Init /\ [][Next]_companyVars

(***************************************************************************)
(* What the components promise, gathered by what it is about.  Each        *)
(* property is stated, with the code it is about, in its own module.       *)
(***************************************************************************)
\* The states of the component that runs are of its types.
CompanyTypeOK ==
    /\ part = "planning" => PlanningTypeOK
    /\ part = "search" => SearchTypeOK
    /\ part = "day" => DayTypeOK
    /\ part = "reviews" => ReviewTypeOK
    /\ part = "tasks" => GraphTypeOK
    /\ part = "calendar" => TaskCalendarTypeOK
    /\ part = "chart" => OrgTypeOK
    /\ part = "hiring" => HiringTypeOK
    /\ part = "production" => ProductionTypeOK
    /\ part = "purchases" => PurchasesTypeOK
    /\ part = "spending" => SpendingTypeOK
    /\ part = "realtime" => RealtimeTypeOK
    /\ part = "mail" => NewMailTypeOK
    /\ part = "voice" => VoiceSessionTypeOK

\* What ended stays as it ended: a planning run whoever ends it again, a search
\* whichever caller comes late, and a task's completion tells all it changed.
EndsAreKept == RunsStayEnded /\ OverStays /\ CompletionTellsTruth

\* A plan keeps to its caps and asks for no two overlapping blocks, and who is
\* hired is who was approved.
PlanningAndHiring ==
    /\ part = "planning" => PlanningIsSound
    /\ part = "hiring" => HiringIsSound

\* Work adds up over many steps: a search with its rounds, a week with its one
\* episode, a day with what Alex was told of it, open tasks with what they wait for.
WorkAddsUp ==
    /\ part = "search" => SearchIsSound
    /\ part = "production" => ProductionIsSound
    /\ part = "day" => DayIsRemembered
    /\ part = "tasks" => WorkGoesOn

\* A task's row tells where its event is, unless its actions overlapped or Alex
\* moved it, and a block offered to Alex is free, long enough and in working time.
CalendarIsKept ==
    /\ part = "calendar" => RowTellsEvent
    /\ part = "free time" => BlocksAreBookable

\* Reviews keep their distance, and every member reaches the chief.
PeopleAreKept ==
    /\ part = "reviews" => ReviewsAreSpaced
    /\ part = "chart" => ChartLeadsToChief

\* What was approved stays within the limits, but for requests that straddle a
\* month's end, and what those that ask spend passes the ceiling by a bounded amount.
MoneyIsKept ==
    /\ part = "purchases" => PurchasesAreSound
    /\ part = "spending" => SpendingIsSound

\* No tool's answer is left unsaid that was not given up; mail is announced at most
\* once, and what no check has taken stays within the next one's reach; mail goes out
\* once, but for sends whose answer was lost; and a call is shown with its output.
NothingSaidIsLost ==
    /\ part = "realtime" => NoResultIsLeftUnsaid
    /\ part = "mail" => MailIsReached
    /\ part = "voice" => MailIsSentOnce /\ InputIsPaired
=============================================================================
