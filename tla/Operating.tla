------------------------------ MODULE Operating ------------------------------
(***************************************************************************)
(* Running or paused: Alex's pause and resume emails.                      *)
(*                                                                         *)
(* The server polls Gary's inbox, sorts the candidates by date and applies *)
(* them one at a time.  Applying is two transactions, the switch and then  *)
(* the cursor, and telling Alex is a third step that may raise and so end  *)
(* the pass.  Gmail is external: it may show a message after a later one.  *)
(***************************************************************************)
EXTENDS Switches, Integers, FiniteSets, SequencesExt

CONSTANTS MaxMail,       \* bound on messages from Alex's address
          MaxDate,       \* bound on their dates
          CommandLimit,  \* COMMAND_LIMIT
          MaxStops       \* bound on the server's restarts

ASSUME OperatingAssumption ==
  /\ {MaxMail, MaxStops} \subseteq Nat /\ {MaxDate, CommandLimit} \subseteq Nat \ {0}

MailIds == 1 .. MaxMail

VARIABLES
  mail,     \* what Gmail shows: the message of each id, or NoMail
  cursor,   \* commands_cursor_ms
  poll,     \* what the pass has still to apply, and where it stands
  stops,
  applied   \* ids in the order set_paused was called for them, once each

operatingVars == <<mail, cursor, poll, stops, applied>>

\* does: what parse_command makes of the subject and the first line;
\* verified: authenticated_sender.
Message == [date : 1 .. MaxDate, does : {"pause", "resume", "neither"}, verified : BOOLEAN]
NoMail == [date |-> 0, does |-> "neither", verified |-> FALSE]
Here == {i \in MailIds : mail[i] # NoMail}

\* at: asleep, about to look at the head of todo, about to move the cursor past
\* it after its command was carried out, or about to tell Alex.
Asleep == [at |-> "asleep", todo |-> <<>>]

OperatingTypeOK ==
  /\ mail \in [MailIds -> Message \union {NoMail}]
  /\ cursor \in 0 .. MaxDate /\ stops \in 0 .. MaxStops
  /\ poll.at \in {"asleep", "apply", "advance", "tell"}
  /\ poll.todo \in Seq(MailIds) /\ (poll.at = "asleep" <=> poll.todo = <<>>)
  /\ applied \in Seq(MailIds)

\* The switch starts off and the cursor was seeded by start_from_now before
\* the first message that counts.
OperatingInit ==
  /\ mail = [i \in MailIds |-> NoMail] /\ cursor = 0
  /\ poll = Asleep /\ stops = 0 /\ applied = <<>>

-----------------------------------------------------------------------------
(* The inbox.                                                              *)

\* Gmail shows one more message; its date may precede those of messages seen.
Arrive(i, m) ==
  /\ mail[i] = NoMail /\ \A j \in 1 .. i - 1 : j \in Here
  /\ mail' = [mail EXCEPT ![i] = m]
  /\ UNCHANGED <<paused, cursor, poll, stops, applied>>

Earlier(i, j) == mail[i].date < mail[j].date \/ (mail[i].date = mail[j].date /\ i < j)

\* What the query lists: the newest CommandLimit of the window.
Listed == {i \in Here : Cardinality({j \in Here : Earlier(i, j)}) < CommandLimit}

\* messages.sort, stable.
OldestFirst(S) ==
  CHOOSE s \in [1 .. Cardinality(S) -> S] : \A a, b \in DOMAIN s : a < b => Earlier(s[a], s[b])

\* Mutant of Fetched: as listed, newest first.
FetchedNewestFirst(c) == Reverse(OldestFirst({i \in Listed : mail[i].date > c}))

\* fetch_command_emails: those past the cursor c, newest last.
Fetched(c) == OldestFirst({i \in Listed : mail[i].date > c})

\* One pass begins; Gmail may fail instead, which leaves it for the next one.
Poll ==
  /\ poll.at = "asleep" /\ Fetched(cursor) # <<>>
  /\ poll' = [at |-> "apply", todo |-> Fetched(cursor)]
  /\ UNCHANGED <<mail, paused, cursor, stops, applied>>

-----------------------------------------------------------------------------
(* apply_command.                                                          *)

NextMail(todo) == IF Tail(todo) = <<>> THEN Asleep ELSE [at |-> "apply", todo |-> Tail(todo)]
Past(date) == IF cursor < date THEN date ELSE cursor

\* Two messages of one millisecond: the second counts as read.
AlreadyRead(i) == mail[i].date <= cursor
IsCommand(i) == mail[i].does # "neither" /\ mail[i].verified

SkipRead ==
  /\ poll.at = "apply" /\ AlreadyRead(Head(poll.todo))
  /\ poll' = NextMail(poll.todo)
  /\ UNCHANGED <<mail, paused, cursor, stops, applied>>

\* Not a command, or one whose sender Gmail did not authenticate: stepped over.
Refuse ==
  LET i == Head(poll.todo) IN
  /\ poll.at = "apply" /\ ~AlreadyRead(i) /\ ~IsCommand(i)
  /\ cursor' = Past(mail[i].date)
  /\ poll' = NextMail(poll.todo)
  /\ UNCHANGED <<mail, paused, stops, applied>>

\* set_paused, committed before the cursor moves.
SetPaused ==
  LET i == Head(poll.todo) IN
  /\ poll.at = "apply" /\ ~AlreadyRead(i) /\ IsCommand(i)
  /\ paused' = (mail[i].does = "pause")
  /\ applied' = IF i \in ToSet(applied) THEN applied ELSE Append(applied, i)
  /\ poll' = [poll EXCEPT !.at = "advance"]
  /\ UNCHANGED <<mail, cursor, stops>>

AdvanceCursor ==
  /\ poll.at = "advance"
  /\ cursor' = Past(mail[Head(poll.todo)].date)
  /\ poll' = [poll EXCEPT !.at = "tell"]
  /\ UNCHANGED <<mail, paused, stops, applied>>

\* Mutant of TellAlex: an exception there ends the pass as if it had all been read.
TellOrSkip ==
  /\ poll.at = "tell"
  /\ poll' = NextMail(poll.todo)
  /\ \/ UNCHANGED cursor
     \/ cursor' = Past(mail[Last(poll.todo)].date)
  /\ UNCHANGED <<mail, paused, stops, applied>>

\* Saying it and emailing it: an exception there ends the pass.
TellAlex ==
  /\ poll.at = "tell"
  /\ \/ poll' = NextMail(poll.todo)
     \/ poll' = Asleep
  /\ UNCHANGED <<mail, paused, cursor, stops, applied>>

\* The server stops anywhere in a pass; the next one starts asleep.
ServerStops ==
  /\ stops < MaxStops /\ poll # Asleep
  /\ stops' = stops + 1 /\ poll' = Asleep
  /\ UNCHANGED <<mail, paused, cursor, applied>>

PassStep == SkipRead \/ Refuse \/ SetPaused \/ AdvanceCursor \/ TellAlex

OperatingNext ==
  \/ \E i \in MailIds, m \in Message : Arrive(i, m)
  \/ Poll \/ PassStep \/ ServerStops

-----------------------------------------------------------------------------
(* Properties.                                                             *)

\* Once the cursor is past the newest of what was carried out, the company is in
\* the state that message asks for, whatever the order in which Gmail showed the
\* messages and wherever a pass was cut off.  (Before that an older message may
\* hold for a moment: a pass cut off between the switch and the cursor carries
\* out both again, oldest first.)  Unless COMMAND_LIMIT messages came after it
\* meanwhile: then no pass takes it up again, and the older one is left to hold.
NewestCommandHolds ==
  LET newest == {i \in ToSet(applied) : \A j \in ToSet(applied) : mail[j].date <= mail[i].date} IN
  (newest # {} /\ newest \subseteq Listed /\ \A i \in newest : mail[i].date <= cursor)
    => \E i \in newest : paused = (mail[i].does = "pause")

\* No command is passed over by the cursor while a pass still holds it, unless it
\* is of the same millisecond as one before it: apply_command compares with the
\* cursor, and what keeps that from skipping is the order of fetch_command_emails.
NoCommandIsPassedOver ==
  [][\A i \in ToSet(poll.todo) :
       (IsCommand(i) /\ cursor < mail[i].date /\ mail[i].date <= cursor')
         => i \in ToSet(applied) \/ \E j \in Here : j < i /\ mail[j].date = mail[i].date]_operatingVars

\* A message whose date is ahead of every other is obeyed in the end, if it is a
\* command of Alex's: passes that fail or are cut off take it up again, since
\* the cursor only moves past what was dealt with (run_email_commands).
Newest(i) == i \in Here /\ \A j \in Here \ {i} : mail[j].date < mail[i].date
NewestIsObeyed ==
  \A i \in MailIds :
    (Newest(i) /\ IsCommand(i) /\ cursor < mail[i].date)
      ~> (~Newest(i) \/ (i \in ToSet(applied) /\ paused = (mail[i].does = "pause")))
=============================================================================
