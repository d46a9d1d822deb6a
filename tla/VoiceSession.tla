----------------------------- MODULE VoiceSession -----------------------------
(***************************************************************************)
(* One voice connection in transcribe mode (app/main.py internal_voice,    *)
(* app/voice_turn.py, the email tools of app/tool_dispatch.py and          *)
(* app/gmail.py).                                                          *)
(*                                                                         *)
(* The connection is read one message at a time, so that one utterance is  *)
(* transcribed, answered and spoken before the next is looked at; its      *)
(* conversation grows by what Alex said, by the tools the model called and *)
(* by what they returned, and is forgotten when Gary goes to sleep.  What  *)
(* the tools have seen and sent is kept as long as the connection.         *)
(***************************************************************************)
EXTENDS Integers, Sequences, FiniteSets

CONSTANTS
    MAX_TOOL_ROUNDS,         \* rounds of tool calls in one turn
    MAX_HISTORY_ITEMS,       \* how much of the conversation the model is sent
    NEW_EMAILS_PER_SESSION,  \* new emails one connection may send
    Letters,                 \* the emails in the mailbox
    NoReplyLetters,          \* those that cannot be replied to
    Addresses,               \* those a new email may go to
    Texts,                   \* the texts a new email may have
    Acquainted,              \* the addresses Alex has emailed before
    MaxUtterances,           \* bound on the utterances of a connection
    MaxLost                  \* bound on the sends whose answer is lost

ASSUME VoiceSessionAssumption ==
    /\ {MAX_TOOL_ROUNDS, MAX_HISTORY_ITEMS, NEW_EMAILS_PER_SESSION, MaxUtterances,
     MaxLost} \subseteq Nat
    /\ NoReplyLetters \subseteq Letters /\ Acquainted \subseteq Addresses
    /\ "reply" \notin Texts

VARIABLES
    turn,      \* the turn in progress: phase, rounds taken, calls to run
    history,   \* session["messages"]
    session,   \* [emails, replied, newEmails] of the connection
    outbox,    \* what Gmail has sent for this connection
    emailed,   \* the addresses found in the sent mail
    counts     \* [utterances, calls, lost]: names for calls, and the bounds

voiceSessionVars == <<turn, history, session, outbox, emailed, counts>>

NoTurn == [phase |-> "idle", rounds |-> 0, calls |-> <<>>]
NewSession == [emails |-> {}, replied |-> {}, newEmails |-> {}]

VoiceSessionInit ==
    /\ turn = NoTurn
    /\ history = <<>>
    /\ session = NewSession
    /\ outbox = {}
    /\ emailed = Acquainted
    /\ counts = [utterances |-> 0, calls |-> 0, lost |-> 0]

(***************************************************************************)
(* The turn: voice_turn.respond.                                           *)
(***************************************************************************)
Item(kind, id) == [kind |-> kind, id |-> id]

\* handle_utterance: the company may be stopped, the transcription fail or be
\* empty; otherwise the model is asked.
UtteranceIsHeard ==
    /\ turn.phase = "idle" /\ counts.utterances < MaxUtterances
    /\ counts' = [counts EXCEPT !.utterances = @ + 1]
    /\ history' = Append(history, Item("user", counts.utterances))
    /\ turn' = [NoTurn EXCEPT !.phase = "asking"]
    /\ UNCHANGED <<session, outbox, emailed>>

\* Mutant of Asked: what the model asked for is not kept.
AskedForgotten(calls) == <<>>

\* The calls stay in the conversation, so that the model sees what it asked.
Asked(calls) == [k \in 1 .. Len(calls) |-> Item("call", calls[k].id)]

ToolCalls ==
    [tool : {"list", "search"}, about : SUBSET Letters]
      \cup [tool : {"reply"}, about : Letters, confirmed : BOOLEAN]
      \cup [tool : {"new"}, about : Addresses, text : Texts, confirmed : BOOLEAN,
            spelled : BOOLEAN]

\* What the model is sent: the end of the conversation.
Input == SubSeq(history, IF Len(history) > MAX_HISTORY_ITEMS
                           THEN Len(history) - MAX_HISTORY_ITEMS + 1 ELSE 1, Len(history))

\* The model answers, with or without words, or asks for one or two tools.
ModelAnswers ==
    /\ turn.phase = "asking" /\ turn.rounds < MAX_TOOL_ROUNDS
    /\ \E words \in BOOLEAN :
         history' = IF words THEN Append(history, Item("assistant", 0)) ELSE history
    /\ turn' = NoTurn
    /\ UNCHANGED <<session, outbox, emailed, counts>>

ModelAsks ==
    /\ turn.phase = "asking" /\ turn.rounds < MAX_TOOL_ROUNDS
    /\ \E n \in 1 .. 2 :
         LET calls == [k \in 1 .. n |-> [id |-> counts.calls + k]]
         IN  /\ history' = history \o Asked(calls)
             /\ turn' = [phase |-> "calling", rounds |-> turn.rounds + 1, calls |-> calls]
             /\ counts' = [counts EXCEPT !.calls = @ + n]
    /\ UNCHANGED <<session, outbox, emailed>>

\* VoiceTurnError: OpenAI fails, or the rounds are used up.  Alex is told.
TurnFails ==
    /\ turn.phase = "asking"
    /\ turn' = NoTurn
    /\ UNCHANGED <<history, session, outbox, emailed, counts>>

(***************************************************************************)
(* The tools: run_tool_call answers every call, with a result or an error. *)
(***************************************************************************)
ListEmails(request) ==
    /\ request.tool \in {"list", "search"}
    /\ session' = [session EXCEPT !.emails = @ \cup
                     IF request.tool = "search" THEN request.about
                     ELSE request.about \ NoReplyLetters]
    /\ UNCHANGED <<outbox, emailed>>

\* Mutant of CanReply: replied is not looked at.
CanReplyAgain(letter) ==
    /\ letter \in session.emails
    /\ letter \notin NoReplyLetters

CanReply(letter) ==
    /\ letter \in session.emails
    /\ letter \notin session.replied
    /\ letter \notin NoReplyLetters

CanSend(request) ==
    /\ <<request.about, request.text>> \notin session.newEmails
    /\ Cardinality(session.newEmails) < NEW_EMAILS_PER_SESSION
    /\ request.about \in emailed \/ request.spelled

MaySend(request) ==
    /\ request.tool \in {"reply", "new"}
    /\ request.confirmed
    /\ request.tool = "reply" => CanReply(request.about)
    /\ request.tool = "new" => CanSend(request)

\* Gmail sends it; the session notes it when Gmail's answer arrives.
SendEmail(request, answered) ==
    /\ MaySend(request)
    /\ outbox' = outbox \cup {[to |-> request.about,
                               text |-> IF request.tool = "new" THEN request.text ELSE "reply",
                               answered |-> answered, nr |-> Cardinality(outbox)]}
    /\ emailed' = IF request.tool = "new" THEN emailed \cup {request.about} ELSE emailed
    /\ session' = IF ~answered THEN session
                  ELSE IF request.tool = "reply"
                    THEN [session EXCEPT !.replied = @ \cup {request.about}]
                  ELSE [session EXCEPT !.newEmails = @ \cup {<<request.about, request.text>>}]

\* Refused, or failed before anything was sent.
RefuseTool == UNCHANGED <<session, outbox, emailed>>

RunTool ==
    /\ turn.phase = "calling"
    /\ \E request \in ToolCalls, answered \in BOOLEAN :
         /\ \/ answered /\ ListEmails(request)
            \/ SendEmail(request, answered)
            \/ answered /\ RefuseTool
         /\ answered \/ counts.lost < MaxLost
         /\ counts' = [counts EXCEPT !.lost = IF answered THEN @ ELSE @ + 1]
    /\ history' = Append(history, Item("output", Head(turn.calls).id))
    /\ turn' = [turn EXCEPT !.calls = Tail(@),
                            !.phase = IF Len(turn.calls) > 1 THEN "calling" ELSE "asking"]

(***************************************************************************)
(* The connection.                                                         *)
(***************************************************************************)
\* bridge.reset: the conversation is forgotten, the session is not.
FallAsleep ==
    /\ turn.phase = "idle" /\ history # <<>>
    /\ history' = <<>>
    /\ UNCHANGED <<turn, session, outbox, emailed, counts>>

Reconnect ==
    /\ turn.phase = "idle" /\ counts.utterances > 0
    /\ history' = <<>>
    /\ session' = NewSession
    /\ outbox' = {}
    /\ counts' = [utterances |-> 0, calls |-> 0, lost |-> 0]
    /\ UNCHANGED <<turn, emailed>>

VoiceSessionNext ==
    \/ UtteranceIsHeard \/ ModelAnswers \/ ModelAsks \/ TurnFails \/ RunTool
    \/ FallAsleep \/ Reconnect

(***************************************************************************)
(* Properties.                                                             *)
(***************************************************************************)
VoiceSessionTypeOK ==
    /\ turn \in [phase : {"idle", "asking", "calling"}, rounds : 0 .. MAX_TOOL_ROUNDS,
                 calls : Seq([id : Nat])]
    /\ history \in Seq([kind : {"user", "assistant", "call", "output"}, id : Nat])
    /\ session \in [emails : SUBSET Letters, replied : SUBSET Letters,
                    newEmails : SUBSET (Addresses \X Texts)]
    /\ outbox \subseteq [to : Letters \cup Addresses, text : Texts \cup {"reply"},
                         answered : BOOLEAN, nr : Nat]
    /\ emailed \subseteq Addresses
    /\ counts \in [utterances : 0 .. MaxUtterances, calls : Nat, lost : 0 .. MaxLost]

\* Whatever rounds fail, when the model is asked it is shown every tool call
\* of the conversation with its output after it, and no output without its
\* call (OpenAI refuses such an input), as long as the conversation fits in
\* MAX_HISTORY_ITEMS.  (Beyond that the window may open between the two.)
InputIsPaired ==
    turn.phase = "asking" /\ Len(history) <= MAX_HISTORY_ITEMS =>
        \A id \in 1 .. counts.calls :
            LET At(kind) == {k \in 1 .. Len(Input) : Input[k] = Item(kind, id)}
            IN  /\ Cardinality(At("call")) = Cardinality(At("output"))
                /\ \A o \in At("output") : \E c \in At("call") : c < o

Lost(sent) == Cardinality({m \in sent : ~m.answered})

\* Over all the conversations of a connection, however the model repeats its
\* calls: one reply to an email, one copy of a new email, and no more new
\* emails than the limit, except for those whose answer from Gmail was lost
\* and that the session therefore does not know of; and the sent mail tells
\* of every address a new email went to.
MailIsSentOnce ==
    /\ \A m \in outbox :
         LET same == {n \in outbox : n.to = m.to /\ n.text = m.text}
         IN  Cardinality(same) <= 1 + Lost(same)
    /\ LET new == {m \in outbox : m.text # "reply"}
       IN  /\ Cardinality(new) <= NEW_EMAILS_PER_SESSION + Lost(new)
           /\ \A m \in new : m.to \in emailed
=============================================================================
