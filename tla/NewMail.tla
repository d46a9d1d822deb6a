------------------------------- MODULE NewMail -------------------------------
(***************************************************************************)
(* The periodic check for new email and its announcement (app/gmail.py     *)
(* NewEmailWatcher, check_new_emails; app/main.py announce_new_emails).    *)
(*                                                                         *)
(* The loop belongs to one voice connection and is cancelled with it; what *)
(* it has covered is kept in two watchers that outlive connections, one    *)
(* for each inbox.  A check lists the unread email since the last one,     *)
(* fetches each message it has not announced, and moves its cursor.  Every *)
(* call to Gmail is awaited, may fail, and leaves time for email to arrive *)
(* or to be read.                                                          *)
(***************************************************************************)
EXTENDS Integers, FiniteSets, SequencesExt

CONSTANTS
    Inboxes,          \* the inboxes, in the order they are checked
    Mail,             \* the emails that may arrive
    InboxOf,          \* the inbox of each
    NoReplyMail,      \* those whose sender takes no email
    QuietTimes,       \* the times at which nothing is announced
    OVERLAP,          \* how far a check reaches back before the last one
    LIST_LIMIT,       \* how many messages one listing returns
    ANNOUNCED_LIMIT,  \* NewEmailWatcher.ANNOUNCED_LIMIT
    MaxClock,         \* bound on the time
    MaxMailFailures   \* bound on the calls that fail and the connections lost

ASSUME NewMailAssumption ==
    /\ InboxOf \in [Mail -> 1 .. Len(Inboxes)]
    /\ NoReplyMail \subseteq Mail
    /\ {OVERLAP, LIST_LIMIT, ANNOUNCED_LIMIT, MaxClock, MaxMailFailures} \subseteq Nat
    /\ OVERLAP > 0 /\ MaxClock > 0

VARIABLES
    clock,      \* Gary's time
    dates,      \* when Gmail received each email; 0 until it does
    unread,     \* the emails Alex has not read
    listening,  \* a voice connection is open, and with it the loop
    check,      \* the check in progress: inbox (0 for none), start, messages left, found
    watchers,   \* what each inbox's checks have covered: [until, announced]
    crowdedOut, \* emails a full listing left out
    forgotten,  \* emails a watcher has had to forget
    heard,      \* how often each email has been announced to Alex, up to twice
    mishaps     \* the failures so far

newMailVars ==
    <<clock, dates, unread, listening, check, watchers, crowdedOut, forgotten, heard,
      mishaps>>

NoCheck == [inbox |-> 0, listed |-> FALSE, started |-> 0, left |-> {}, found |-> {}]

NewMailInit ==
    /\ clock = 1
    /\ dates = [e \in Mail |-> 0]
    /\ unread = {}
    /\ listening = TRUE
    /\ check = NoCheck
    /\ watchers = [i \in 1 .. Len(Inboxes) |-> [until |-> 1, announced |-> <<>>]]
    /\ crowdedOut = {}
    /\ forgotten = {}
    /\ heard = [e \in Mail |-> 0]
    /\ mishaps = 0

(***************************************************************************)
(* Gmail, Alex and the voice client.                                       *)
(***************************************************************************)
MailTick ==
    /\ clock < MaxClock
    /\ clock' = clock + 1
    /\ UNCHANGED <<dates, unread, listening, check, watchers, crowdedOut, forgotten, heard,
                   mishaps>>

\* Gmail's clock may be behind Gary's, by no more than the overlap.
MailArrives ==
    \E e \in {e \in Mail : dates[e] = 0}, skew \in 0 .. OVERLAP :
        /\ clock - skew > 0
        /\ dates' = [dates EXCEPT ![e] = clock - skew]
        /\ unread' = unread \cup {e}
        /\ UNCHANGED <<clock, listening, check, watchers, crowdedOut, forgotten, heard, mishaps>>

AlexReads ==
    \E e \in unread :
        /\ unread' = unread \ {e}
        /\ UNCHANGED <<clock, dates, listening, check, watchers, crowdedOut, forgotten,
                       heard, mishaps>>

VoiceConnects ==
    /\ ~listening
    /\ listening' = TRUE
    /\ UNCHANGED <<clock, dates, unread, check, watchers, crowdedOut, forgotten, heard, mishaps>>

\* The checker is cancelled at whatever it was awaiting.
VoiceDisconnects ==
    /\ listening /\ mishaps < MaxMailFailures
    /\ listening' = FALSE
    /\ check' = NoCheck
    /\ mishaps' = mishaps + 1
    /\ UNCHANGED <<clock, dates, unread, watchers, crowdedOut, forgotten, heard>>

(***************************************************************************)
(* The loop.                                                               *)
(***************************************************************************)
CheckOf(i) == IF i > Len(Inboxes) THEN NoCheck ELSE [NoCheck EXCEPT !.inbox = i]

Known(i) == ToSet(watchers[i].announced)

\* remember: the oldest is forgotten when there are too many.
Remember(seq, e) ==
    LET longer == Append(seq, e)
    IN  IF Len(longer) > ANNOUNCED_LIMIT THEN Tail(longer) ELSE longer

\* What that makes the watcher forget.
PushedOut(seq, e) == IF Len(seq) >= ANNOUNCED_LIMIT THEN {Head(Append(seq, e))} ELSE {}

\* in_quiet_hours: the cursor stays where it is.
StartCheck ==
    /\ listening /\ check.inbox = 0
    /\ clock \notin QuietTimes
    /\ check' = CheckOf(1)
    /\ UNCHANGED <<clock, dates, unread, listening, watchers, crowdedOut, forgotten, heard,
                   mishaps>>

\* Mutant of Since: nothing before the last check is looked at.
SinceWithoutOverlap(i) == watchers[i].until

Since(i) == watchers[i].until - OVERLAP

Matching(i) == {e \in unread : InboxOf[e] = i /\ dates[e] >= Since(i)}

\* A listing returns the newest.
ListNew ==
    /\ check.inbox > 0 /\ ~check.listed
    /\ LET all == Matching(check.inbox)
       IN  \E page \in SUBSET all :
             /\ Cardinality(page) = IF Cardinality(all) > LIST_LIMIT THEN LIST_LIMIT
                                    ELSE Cardinality(all)
             /\ \A e \in page, f \in all \ page : dates[e] >= dates[f]
             /\ check' = [check EXCEPT !.listed = TRUE, !.started = clock, !.left = page]
             /\ crowdedOut' = crowdedOut \cup (all \ page)
    /\ UNCHANGED <<clock, dates, unread, listening, watchers, forgotten, heard, mishaps>>

\* Newest first; one that is known is passed over without a call.
FetchNew ==
    \E e \in check.left :
        LET known == e \in Known(check.inbox)
        IN  /\ \A f \in check.left : dates[e] >= dates[f]
            /\ check' = [check EXCEPT
                   !.left = @ \ {e},
                   !.found = IF known \/ e \in NoReplyMail THEN @ ELSE @ \cup {e}]
            /\ watchers' = IF known THEN watchers
                           ELSE [watchers EXCEPT
                                   ![check.inbox].announced = Remember(@, e)]
            /\ forgotten' = IF known THEN forgotten
                            ELSE forgotten \cup PushedOut(watchers[check.inbox].announced, e)
            /\ UNCHANGED <<clock, dates, unread, listening, crowdedOut, heard, mishaps>>

\* The inbox is left for the next round, and the other one is checked.
CheckFails ==
    /\ check.inbox > 0 /\ (check.listed => check.left # {})
    /\ mishaps < MaxMailFailures
    /\ mishaps' = mishaps + 1
    /\ check' = CheckOf(check.inbox + 1)
    /\ UNCHANGED <<clock, dates, unread, listening, watchers, crowdedOut, forgotten, heard>>

\* Mutant of Covered: the cursor moves to the time the check ended.
CoveredAtEnd == clock

Covered == check.started

FinishCheck ==
    /\ check.listed /\ check.left = {}
    /\ watchers' = [watchers EXCEPT ![check.inbox].until = Covered]
    /\ heard' = [e \in Mail |-> IF e \in check.found /\ heard[e] < 2 THEN heard[e] + 1
                                ELSE heard[e]]
    /\ check' = CheckOf(check.inbox + 1)
    /\ UNCHANGED <<clock, dates, unread, listening, crowdedOut, forgotten, mishaps>>

NewMailNext ==
    \/ MailTick \/ MailArrives \/ AlexReads \/ VoiceConnects \/ VoiceDisconnects
    \/ StartCheck \/ ListNew \/ FetchNew \/ CheckFails \/ FinishCheck

(***************************************************************************)
(* Properties.                                                             *)
(***************************************************************************)
NewMailTypeOK ==
    /\ clock \in 1 .. MaxClock
    /\ dates \in [Mail -> 0 .. MaxClock]
    /\ unread \subseteq Mail /\ crowdedOut \subseteq Mail /\ forgotten \subseteq Mail
    /\ listening \in BOOLEAN
    /\ check \in [inbox : 0 .. Len(Inboxes), listed : BOOLEAN, started : 0 .. MaxClock,
                  left : SUBSET Mail, found : SUBSET Mail]
    /\ watchers \in [1 .. Len(Inboxes) -> [until : 1 .. MaxClock, announced : Seq(Mail)]]
    /\ heard \in [Mail -> 0 .. 2]
    /\ mishaps \in 0 .. MaxMailFailures

\* A "reconnect neither re-announces emails nor skips the ones that arrived
\* while it was disconnected" (gmail.py:637), as far as the cursor goes: no
\* email is announced twice, and one that is still unread and that no check
\* has taken is within reach of the next, whatever arrived or failed between
\* a check's start and its end; unless a full listing left it out, or more than
\* ANNOUNCED_LIMIT newer ones have made the watcher forget it.  It does not say
\* that every email is announced: a check remembers an email as it fetches it
\* (gmail.py:725), and one that then fails, or is cancelled, has announced none
\* of what it took.
MailIsReached ==
    \A e \in Mail \ forgotten :
        /\ heard[e] <= 1
        /\ e \in unread \ (Known(InboxOf[e]) \cup crowdedOut) => dates[e] >= Since(InboxOf[e])
=============================================================================
