---------------------------- MODULE VoiceClient -----------------------------
(***************************************************************************)
(* The voice client in VOICE_MODE=transcribe (src/voice): the microphone's *)
(* thread fills a queue of blocks, the loop takes them one at a time, and  *)
(* the receiver handles what the backend sends.  Local Whisper listens for *)
(* the wake word; then the microphone is open until one of two clocks runs *)
(* out (segmentation.py, Session), and what Alex says is sent one whole    *)
(* utterance at a time (segmentation.py, Utterance).                       *)
(*                                                                         *)
(* A tick is one block of audio.  The loop keeps pace with the microphone, *)
(* except while Whisper listens, which takes at most MaxCheck ticks.       *)
(* Clocks are kept as the ticks they still have, and stop at -1.           *)
(***************************************************************************)
EXTENDS Integers, Sequences

CONSTANTS
    IDLE, FOLLOWUP, MAX_SESSION,    \* the clocks of a session
    SILENCE,                        \* quiet blocks that end an utterance
    PRE_ROLL,                       \* blocks kept from before the wake word
    MAX_UTTERANCE,                  \* blocks an utterance may have
    QUEUE,                          \* audio_queue's maxsize
    Speech,                         \* bound: ticks a message takes to speak, tail included
    MaxCheck,                       \* bound on the ticks Whisper takes
    MaxAsked,                       \* bound on the utterances being answered at once
    MaxAnnouncements,               \* bound on the announcements
    MaxLosses                       \* bound on the connections lost

ASSUME VoiceAssumption ==
    /\ {IDLE, FOLLOWUP, MAX_SESSION, SILENCE, PRE_ROLL, MAX_UTTERANCE, QUEUE,
        Speech} \subseteq Nat \ {0}
    /\ {MaxCheck, MaxAsked, MaxAnnouncements, MaxLosses} \subseteq Nat
    /\ FOLLOWUP <= IDLE /\ MaxCheck < IDLE /\ IDLE <= MAX_SESSION

VARIABLES
    session,    \* [active, idle, hard]
    audio,      \* the queue: is each block loud
    utterance,  \* what has been collected: [blocks, quiet]
    checking,   \* ticks since Whisper was given a window, or -1
    talking,    \* ticks Gary still has to speak
    held,       \* announcements kept until the session ends
    asked,      \* utterances the backend is answering
    left        \* what is left of the bounds

voiceVars == <<session, audio, utterance, checking, talking, held, asked, left>>

Larger(a, b) == IF a >= b THEN a ELSE b
Smaller(a, b) == IF a <= b THEN a ELSE b
AsleepSession == [active |-> FALSE, idle |-> 0, hard |-> 0]
Nothing == [blocks |-> 0, quiet |-> 0]

VoiceInit ==
    /\ session = AsleepSession
    /\ audio = <<>>
    /\ utterance = Nothing
    /\ checking = -1
    /\ talking = 0
    /\ held = 0
    /\ asked = 0
    /\ left = [announcements |-> MaxAnnouncements, losses |-> MaxLosses]

(***************************************************************************)
(* The microphone.  A full queue drops the block.  While Gary talks the    *)
(* room is loud.                                                           *)
(***************************************************************************)
KeepsPace == IF checking < 0 THEN audio = <<>> ELSE checking < MaxCheck

VoiceTick(loud) ==
    /\ KeepsPace
    /\ talking > 0 => loud
    /\ audio' = IF Len(audio) < QUEUE THEN Append(audio, loud) ELSE audio
    /\ talking' = Larger(0, talking - 1)
    /\ session' = IF session.active
                    THEN [session EXCEPT !.idle = Larger(-1, @ - 1), !.hard = Larger(-1, @ - 1)]
                    ELSE session
    /\ checking' = IF checking >= 0 THEN checking + 1 ELSE -1
    /\ UNCHANGED <<utterance, held, asked, left>>

(***************************************************************************)
(* Utterance.add and Session.expired.                                      *)
(***************************************************************************)
Collected(loud) ==
    IF utterance.blocks = 0 /\ ~loud THEN Nothing
    ELSE [blocks |-> utterance.blocks + 1, quiet |-> IF loud THEN 0 ELSE utterance.quiet + 1]

\* Mutant of Complete: only silence ends an utterance.
CompleteBySilence(u) == u.quiet >= SILENCE

Complete(u) == u.quiet >= SILENCE \/ u.blocks >= MAX_UTTERANCE

Expired(s) == s.idle < 0 \/ s.hard < 0

(***************************************************************************)
(* The loop, one block at a time.                                          *)
(***************************************************************************)
\* Half-duplex: nothing is heard while Gary talks, and no clock ends it then.
HearGary ==
    /\ session' = IF session.active
                    THEN [session EXCEPT !.idle = Larger(@, FOLLOWUP)] ELSE session
    /\ UNCHANGED <<utterance, talking, held, asked, checking>>

\* A complete utterance is sent and waiting for its answer is not idle time;
\* then the clocks are looked at, and what a session in mid-utterance has
\* collected is dropped when they have run out.
HearAlex(loud) ==
    LET u == Collected(loud)
        sent == Complete(u)
        s == IF sent THEN [session EXCEPT !.idle = Larger(@, IDLE)] ELSE session
    IN  /\ asked' = IF sent THEN Smaller(asked + 1, MaxAsked) ELSE asked
        /\ session' = IF Expired(s) THEN AsleepSession ELSE s
        /\ utterance' = IF sent \/ Expired(s) THEN Nothing ELSE u
        /\ talking' = IF Expired(s) THEN talking + Speech * held ELSE talking
        /\ held' = IF Expired(s) THEN 0 ELSE held
        /\ UNCHANGED checking

\* Asleep: a loud window is given to Whisper.
ListenForWake(loud) ==
    /\ checking' = IF loud THEN 0 ELSE -1
    /\ UNCHANGED <<session, utterance, talking, held, asked>>

HearBlock ==
    /\ checking < 0
    /\ audio # <<>>
    /\ audio' = Tail(audio)
    /\ \/ talking > 0 /\ HearGary
       \/ talking = 0 /\ session.active /\ HearAlex(Head(audio))
       \/ talking = 0 /\ ~session.active /\ ListenForWake(Head(audio))
    /\ UNCHANGED left

\* What the pre-roll may come to, added block by block to an empty utterance:
\* its leading silence is dropped, and what Utterance.add answers is not looked
\* at, so it may be as quiet or as long as a complete utterance.
PreRolls ==
    {Nothing} \union {u \in [blocks : 1 .. PRE_ROLL, quiet : 0 .. PRE_ROLL - 1] : u.quiet < u.blocks}

\* Whisper is done.  The session's clocks run from the block it was given,
\* and the utterance starts with the words before it.
CheckEnds(woken) ==
    /\ checking >= 0
    /\ checking' = -1
    /\ session' = IF woken THEN [active |-> TRUE, idle |-> IDLE - checking,
                                 hard |-> MAX_SESSION - checking]
                  ELSE session
    /\ IF woken THEN utterance' \in PreRolls ELSE UNCHANGED utterance
    /\ UNCHANGED <<audio, talking, held, asked, left>>

(***************************************************************************)
(* What the backend sends.                                                 *)
(***************************************************************************)
\* bridge.reply: spoken whatever the session does; it ends after the grace.
Reply ==
    /\ asked > 0
    /\ asked' = asked - 1
    /\ talking' = talking + Speech
    /\ session' = IF session.active THEN [session EXCEPT !.idle = FOLLOWUP] ELSE session
    /\ UNCHANGED <<audio, utterance, checking, held, left>>

\* Nothing was heard, or the turn came to nothing.
NoReply ==
    /\ asked > 0
    /\ asked' = asked - 1
    /\ UNCHANGED <<session, audio, utterance, checking, talking, held, left>>

\* bridge.announce: kept while a session is open, spoken otherwise.
Announce ==
    /\ left.announcements > 0
    /\ left' = [left EXCEPT !.announcements = @ - 1]
    /\ IF session.active THEN held' = held + 1 /\ UNCHANGED talking
                         ELSE talking' = talking + Speech /\ UNCHANGED held
    /\ UNCHANGED <<session, audio, utterance, checking, asked>>

\* The connection is lost and another is made: its state starts anew, and
\* what was held is forgotten.  The queue, and what Gary is saying, stay.
Reconnect ==
    /\ left.losses > 0
    /\ left' = [left EXCEPT !.losses = @ - 1]
    /\ session' = AsleepSession
    /\ utterance' = Nothing
    /\ checking' = -1
    /\ held' = 0
    /\ asked' = 0
    /\ UNCHANGED <<audio, talking>>

VoiceNext ==
    \/ \E loud \in BOOLEAN : VoiceTick(loud) \/ CheckEnds(loud)
    \/ HearBlock \/ Reply \/ NoReply \/ Announce \/ Reconnect

(***************************************************************************)
(* Properties.                                                             *)
(***************************************************************************)
\* An utterance that was looked at after its last block and not sent.
Unfinished == [blocks : 0 .. MAX_UTTERANCE - 1, quiet : 0 .. SILENCE - 1]

VoiceTypeOK ==
    /\ session \in [active : BOOLEAN, idle : -1 .. IDLE, hard : -1 .. MAX_SESSION]
    /\ audio \in Seq(BOOLEAN) /\ Len(audio) <= QUEUE
    /\ utterance \in Unfinished \union PreRolls
    /\ checking \in -1 .. MaxCheck
    /\ talking \in Nat /\ held \in 0 .. MaxAnnouncements /\ asked \in 0 .. MaxAsked

\* However busy the room is, an open microphone closes: "one utterance at a
\* time" a television may refresh the idle window for ever, and the hard
\* deadline ends it all the same.
MicrophoneCloses == session.active ~> ~session.active

\* What was held back during a conversation is said after it (or forgotten by
\* a lost connection): it does not wait for ever.
HeldIsSpoken == held > 0 ~> held = 0

\* The idle window is "refreshed by things that mean the conversation is still
\* going (Alex speaking, ...)": before the hard deadline a session does not
\* end while Alex is in the middle of an utterance.
SpeechKeepsItOpen ==
    [][session.active /\ ~session'.active /\ session.hard >= 0 /\ left' = left
         => Collected(Head(audio)).blocks = 0]_voiceVars
=============================================================================
