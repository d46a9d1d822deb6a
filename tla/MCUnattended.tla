---------------------------- MODULE MCUnattended ----------------------------
(***************************************************************************)
(* What works while Alex does nothing: the commands he mailed, product     *)
(* searches, the management loop, and the voice client in the room.  They  *)
(* meet only in the switches that each of them looks at, so a behaviour    *)
(* here follows one of them, chosen at the start, with the rest standing   *)
(* still, and with nothing assumed of what stands still.                   *)
(***************************************************************************)
EXTENDS Operating, ProductSearch, ManagementLoop, VoiceClient

VARIABLE part    \* the component that runs

partVars == <<operatingVars, searchVars, loopVars, voiceVars, switches, part>>

Idea(name, score) == [name |-> name, score |-> score]
Report(slate, questions) == [slate |-> slate, questions |-> questions]
MCReports == {Report(<<Idea("A", 6), Idea("B", 7)>>, TRUE), Report(<<Idea("A", 6)>>, FALSE)}
MCLimits == <<2>>

Init ==
    /\ part \in {"mail", "search", "loop", "voice"}
    /\ OperatingInit /\ SearchInit /\ LoopInit /\ VoiceInit /\ SwitchesInit

MailRuns == OperatingNext /\ UNCHANGED spending
            /\ UNCHANGED <<searchVars, loopVars, voiceVars>>
SearchRuns == SearchNext /\ UNCHANGED <<operatingVars, loopVars, voiceVars>>
\* The loop and the scheduler look at both switches at once: one of them turns.
LoopRuns == UNCHANGED paused /\ LoopNext /\ UNCHANGED <<operatingVars, searchVars, voiceVars>>
VoiceRuns == VoiceNext /\ UNCHANGED <<operatingVars, searchVars, loopVars, switches>>

Next ==
    /\ UNCHANGED part
    /\ \/ part = "mail" /\ MailRuns
       \/ part = "search" /\ SearchRuns
       \/ part = "loop" /\ LoopRuns
       \/ part = "voice" /\ VoiceRuns

(***************************************************************************)
(* What the code's scheduling keeps going, of the component that runs.     *)
(***************************************************************************)
\* The inbox is polled, and a pass goes on.
MailIsFair ==
    /\ WF_<<operatingVars, switches>>(part = "mail" /\ UNCHANGED spending /\ Poll)
    /\ WF_<<operatingVars, switches>>(part = "mail" /\ UNCHANGED spending /\ PassStep)

\* The loop ticks, a caller that has begun goes on, and an assignment that a
\* coroutine carries starts and ends.
SearchIsFair ==
    /\ WF_<<searchVars, switches>>(
         part = "search" /\ UNCHANGED switches /\ \E s \in Searches : Advance(Loop, s))
    /\ \A c \in Callers :
         WF_<<searchVars, switches>>(part = "search" /\ UNCHANGED switches /\ CallerStep(c))
    /\ \A s \in Searches, n \in Rounds :
         WF_<<searchVars, switches>>(
           part = "search" /\ UNCHANGED switches /\ (RunStarts(s, n) \/ RunEnds(s, n)))

\* It ticks, the lock's holder ends, time passes.  The loop is woken between
\* two holders of the lock again and again, not continuously.
LoopIsFair ==
    LET fair(A) == part = "loop" /\ UNCHANGED switches /\ A
    IN  /\ SF_<<loopVars, switches>>(fair(LoopWakes))
        /\ WF_<<loopVars, switches>>(fair(LoopMeasures \/ LoopDecides))
        /\ WF_<<loopVars, switches>>(fair(LockStep))
        /\ WF_<<loopVars, switches>>(fair(Tick))
        /\ WF_<<loopVars, switches>>(fair(Midnight))

\* The sound card delivers blocks, the loop takes them, Whisper returns.
VoiceIsFair ==
    /\ WF_voiceVars(part = "voice" /\ \E loud \in BOOLEAN : VoiceTick(loud))
    /\ WF_voiceVars(part = "voice" /\ HearBlock)
    /\ WF_voiceVars(part = "voice" /\ \E woken \in BOOLEAN : CheckEnds(woken))

Spec ==
    Init /\ [][Next]_partVars /\ MailIsFair /\ SearchIsFair /\ LoopIsFair /\ VoiceIsFair

\* The states of the component that runs are of its types.
UnattendedTypeOK ==
    /\ part = "mail" => OperatingTypeOK
    /\ part = "search" => SearchTypeOK
    /\ part = "loop" => LoopTypeOK
    /\ part = "voice" => VoiceTypeOK

\* The newest command that was carried out is what holds, and a day's unattended
\* thinking is bounded (the modules say it of each).
UnattendedIsSound ==
    /\ part = "mail" => NewestCommandHolds
    /\ part = "loop" => ManagementIsSound

\* No command is passed over, and the loop's own cycles keep their distance (the
\* modules say it of each).
StepsAreKept == NoCommandIsPassedOver /\ ManagementGapKept

\* What is started ends, what Alex sends or answers is acted on, the microphone
\* closes and what was held is said (the modules say it of each).
EverythingIsSeenTo ==
    /\ part = "mail" => NewestIsObeyed
    /\ part = "search" => SearchEnds
    /\ part = "loop" => NewIsRead
    /\ part = "voice" => MicrophoneCloses /\ HeldIsSpoken
=============================================================================
