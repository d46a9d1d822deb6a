-------------------------- MODULE ConversationProofs --------------------------
(***************************************************************************)
(* Proofs about the conversation, for any approvals, topics, limits and    *)
(* bounds.                                                                 *)
(*                                                                         *)
(* Two invariants.  What a row tells is true because of what each          *)
(* coroutine still holds: one that is about to mark its row has had it     *)
(* broadcast or was handed it, and one at the notebook carries a row that  *)
(* was said and a page on which all was said (Carries).  What Gary asks is *)
(* bounded because a step either creates no row and opens none (Quiet), or *)
(* creates one under the caps of ask_user, or one that announces what is   *)
(* not known yet.                                                          *)
(***************************************************************************)
EXTENDS Conversation, FiniteSetTheorems, WellFoundedInduction, TLAPS

Coroutine == [at : Steps, job : Jobs, msg : 0 .. MaxMessages,
              queue : SUBSET Messages, raise : SUBSET Approvals,
              again : BOOLEAN, body : SUBSET Lines]

\* What a coroutine k holds, given the rows r, what was heard h and said s.
Carries(k, r, h, s) ==
  /\ k.queue \subseteq DOMAIN r
  /\ k.job = "mirror" => k.queue \subseteq s
  /\ k.job = "mention" => \A m \in k.queue : r[m].urgency = "next_time"
  /\ k.at \in {"send", "mark", "read", "write", "stamp"} => k.msg \in DOMAIN r
  /\ k.at = "mark" => h[k.msg] > 0 \/ r[k.msg].urgency = "next_time"
  /\ k.at \in {"read", "write", "stamp"} => k.msg \in s
  /\ \A l \in k.body : l[1] \in s

Told(m) ==
  /\ m \in said => /\ status[m] # "pending" /\ log[m] = 1
                   /\ heard[m] > 0 \/ row[m].urgency = "next_time"
  /\ m \notin said => status[m] \notin {"spoken", "answered"} /\ log[m] = 0

Written == written \subseteq said /\ \A l \in note \union spare : l[1] \in said

Carrying == \A t \in Tasks : Carries(task[t], row, heard, said)

IInv == TypeOK /\ (\A m \in Ids : Told(m)) /\ Written /\ Carrying

-----------------------------------------------------------------------------
(* Rows and their numbers.                                                 *)

\* Of any rows there is an oldest.
LEMMA Oldest ==
  ASSUME NEW S \in SUBSET Nat, S # {}
  PROVE  \E m \in S : \A k \in S : m <= k
<1>1. PICK m \in S : \A k \in S : <<k, m>> \notin OpToRel(<, Nat)
  BY NatLessThanWellFounded, WFMin, Zenon
<1>2. \A k \in S : ~ (k < m)
  BY <1>1 DEF OpToRel
<1> QED  BY <1>2

\* The ids in use are those up to their number.
LEMMA IdsCounted ==
  ASSUME TypeOK
  PROVE  /\ Cardinality(Ids) \in Nat /\ Ids = 1 .. Cardinality(Ids)
         /\ Ids \subseteq Messages /\ Messages \subseteq Nat /\ IsFiniteSet(Ids)
         /\ Cardinality(Ids) + 1 \notin Ids
<1>1. PICK n \in 0 .. MaxMessages : Ids = 1 .. n
  BY DEF TypeOK
<1>2. n \in Nat /\ MaxMessages \in Nat
  BY BoundsAssumption
<1>3. IsFiniteSet(1 .. n) /\ Cardinality(1 .. n) = n
  BY <1>2, FS_Interval
<1> QED  BY <1>1, <1>2, <1>3 DEF Messages

\* A function on the ids, with a value for the next.
NextId == Cardinality(Ids) + 1

Extends(g, f, V, v) ==
  /\ g \in [Ids \union {NextId} -> V]
  /\ \A m \in Ids : g[m] = f[m]
  /\ g[NextId] = v

LEMMA Appended ==
  ASSUME TypeOK, NEW V, NEW f \in [Ids -> V], NEW v \in V
  PROVE  /\ Extends(Append(f, v), f, V, v)
         /\ Ids \union {NextId} = 1 .. NextId /\ NextId \notin Ids
<1>1. Ids \union {NextId} = 1 .. NextId /\ NextId \notin Ids
  BY IdsCounted DEF NextId
<1>2. DOMAIN f = Ids
  OBVIOUS
<1>3. Append(f, v) = [i \in 1 .. NextId |-> IF i \in Ids THEN f[i] ELSE v]
  BY <1>2 DEF Append, NextId
<1> HIDE DEF Ids
<1> QED  BY <1>1, <1>3 DEF Extends

\* The row a coroutine takes next is one it has to take.
LEMMA NextOne ==
  ASSUME NEW S \in SUBSET Messages, S # {}
  PROVE  First(S) \in S
<1>1. S \in SUBSET Nat
  BY BoundsAssumption DEF Messages
<1>2. \E m \in S : \A k \in S : m <= k
  BY <1>1, Oldest
<1>3. \E m : m \in S /\ \A k \in S : m <= k
  BY <1>2
<1> QED  BY <1>3, Zenon DEF First

LEMMA OldestAbout ==
  ASSUME TypeOK, NEW p, About(p) # {}
  PROVE  ByApproval(p) \in About(p)
<1>1. About(p) \in SUBSET Messages
  BY IdsCounted DEF About
<1> QED  BY <1>1, NextOne DEF ByApproval

-----------------------------------------------------------------------------
(* What a coroutine holds stays true of rows that only grow.               *)

LEMMA CarriesStill ==
  ASSUME NEW k, NEW r, NEW h, NEW s, NEW r2, NEW h2, NEW s2,
         Carries(k, r, h, s), DOMAIN r \subseteq DOMAIN r2, s \subseteq s2,
         \A m \in DOMAIN r : r2[m] = r[m] /\ (h[m] > 0 => h2[m] > 0)
  PROVE  Carries(k, r2, h2, s2)
BY DEF Carries

\* One that does nothing holds nothing.
LEMMA IdleCarries ==
  ASSUME NEW r, NEW h, NEW s
  PROVE  Carries(Idle, r, h, s) /\ Idle \in Coroutine
BY BoundsAssumption DEF Carries, Idle, Coroutine, Steps, Jobs

\* The sweep turns no row into one that was said, and none back.
LEMMA SweepTells ==
  ASSUME TypeOK, NEW m \in Ids
  PROVE  /\ Swept(m) \in Statuses /\ SweptAge(m) \in 0 .. ExpiryAge + 1
         /\ Swept(m) = "pending" => status[m] = "pending"
         /\ Swept(m) \in {"spoken", "answered"} => status[m] \in {"spoken", "answered"}
         /\ Swept(m) \in OpenStatuses => Swept(m) = status[m]
BY BoundsAssumption DEF TypeOK, Swept, SweptAge, Statuses, OpenStatuses, IsOpen, StaleMessage

-----------------------------------------------------------------------------
(* Steps that leave the rows, the rooms and the notebook alone.            *)

EnvTyped ==
  /\ decided \in [Approvals -> {None, "pending", "settled", "lapsed"}]
  /\ asked \in [Approvals -> 0 .. ExpiryAge + 1]
  /\ voice \in {"away", "quiet", "here"} /\ faults \in 0 .. MaxFaults

Holding == task \in [Tasks -> Coroutine] /\ Carrying

LEMMA RowsStay ==
  ASSUME IInv, UNCHANGED <<rowVars, noteVars, heard>>, EnvTyped', Holding'
  PROVE  IInv'
<1> USE DEF rowVars, noteVars
<1>1. TypeOK'
  BY DEF IInv, TypeOK, EnvTyped, Holding, Coroutine, Ids
<1>2. (\A m \in Ids : Told(m))'
  BY DEF IInv, Told, Ids
<1>3. Written'
  BY DEF IInv, Written
<1> QED  BY <1>1, <1>2, <1>3 DEF IInv, Holding

LEMMA Standing ==
  ASSUME IInv
  PROVE  EnvTyped /\ Holding
BY DEF IInv, TypeOK, EnvTyped, Holding, Coroutine

\* One coroutine moves on, over rows that stay or grow.
LEMMA OneMoves ==
  ASSUME Holding, NEW t \in Tasks, NEW k \in Coroutine,
         task' = [task EXCEPT ![t] = k], Carries(k, row', heard', said'),
         Ids \subseteq Ids', said \subseteq said',
         \A m \in Ids : row'[m] = row[m] /\ (heard[m] > 0 => heard'[m] > 0)
  PROVE  Holding'
<1>1. task' \in [Tasks -> Coroutine]
  BY DEF Holding
<1>2. ASSUME NEW u \in Tasks  PROVE Carries(task'[u], row', heard', said')
  <2>1. CASE u = t
    BY <2>1 DEF Holding
  <2>2. CASE u # t
    <3>1. task'[u] = task[u] /\ Carries(task[u], row, heard, said)
      BY <2>2 DEF Holding, Carrying
    <3>2. Carries(task[u], row', heard', said')
      BY <3>1, CarriesStill DEF Ids
    <3> QED  BY <3>1, <3>2
  <2> QED  BY <2>1, <2>2
<1> QED  BY <1>1, <1>2 DEF Holding, Carrying

\* A coroutine moves and nothing else does.
LEMMA OnlyOneMoves ==
  ASSUME IInv, NEW t \in Tasks, NEW k \in Coroutine, Carries(k, row, heard, said),
         task' = [task EXCEPT ![t] = k],
         UNCHANGED <<rowVars, noteVars, heard>>, EnvTyped'
  PROVE  IInv'
<1>1. Holding
  BY Standing
<1>2. Holding'
  BY <1>1, OneMoves DEF rowVars, Ids
<1> QED  BY <1>2, RowsStay

\* What Proceed leaves a coroutine with.
Onward(t, k) ==
  IF k.queue = {} /\ ~ (t = "loop" /\ k.job = "mirror") THEN Idle
  ELSE [k EXCEPT !.at = "next", !.msg = 0, !.again = FALSE, !.body = {}]

LEMMA OnwardCarries ==
  ASSUME NEW t, NEW k \in Coroutine, NEW r, NEW h, NEW s, Carries(k, r, h, s)
  PROVE  Onward(t, k) \in Coroutine /\ Carries(Onward(t, k), r, h, s)
<1>1. CASE k.queue = {} /\ ~ (t = "loop" /\ k.job = "mirror")
  BY <1>1, IdleCarries DEF Onward
<1>2. CASE ~ (k.queue = {} /\ ~ (t = "loop" /\ k.job = "mirror"))
  <2>1. Onward(t, k) = [k EXCEPT !.at = "next", !.msg = 0, !.again = FALSE, !.body = {}]
    BY <1>2 DEF Onward
  <2>2. Onward(t, k) \in Coroutine
    <3>1. 0 \in 0 .. MaxMessages /\ "next" \in Steps
      BY BoundsAssumption DEF Steps
    <3> QED  BY <2>1, <3>1 DEF Coroutine
  <2>3. /\ Onward(t, k).queue = k.queue /\ Onward(t, k).job = k.job
        /\ Onward(t, k).at = "next" /\ Onward(t, k).body = {}
    BY <2>1 DEF Coroutine
  <2> QED  BY <2>2, <2>3 DEF Carries
<1> QED  BY <1>1, <1>2

LEMMA ProceedMoves ==
  ASSUME NEW t, Proceed(t)
  PROVE  task' = [task EXCEPT ![t] = Onward(t, task[t])]
BY DEF Proceed, Onward

LEMMA Deeds ==
  ASSUME IInv, NEW t \in Tasks
  PROVE  task[t] \in Coroutine /\ Carries(task[t], row, heard, said)
BY DEF IInv, TypeOK, Carrying, Coroutine

\* TakeNext, SendFails, MarkRefused, ReadNote: one coroutine moves.
LEMMA TakeNextKeeps ==
  ASSUME IInv, NEW t \in Tasks, TakeNext(t)
  PROVE  IInv'
<1> DEFINE q == task[t].queue
           m == First(q)
           k == [task[t] EXCEPT !.msg = m, !.queue = q \ {m}, !.at = FirstStep(task[t].job)]
<1>1. task[t] \in Coroutine /\ Carries(task[t], row, heard, said) /\ task \in [Tasks -> Coroutine]
  BY Deeds, Standing DEF Holding
<1>2. m \in q /\ q \subseteq Messages
  <2>1. q \in SUBSET Messages /\ q # {}
    BY <1>1 DEF TakeNext, Coroutine
  <2> HIDE DEF q
  <2> QED  BY <2>1, NextOne
<1>3. task' = [task EXCEPT ![t] = k]
  BY <1>1 DEF TakeNext
<1>4. FirstStep(task[t].job) \in Steps
  BY DEF FirstStep, Steps
<1>5. k \in Coroutine
  <2>1. m \in 0 .. MaxMessages
    BY <1>2, BoundsAssumption DEF Messages
  <2> HIDE DEF m
  <2> QED  BY <1>1, <1>2, <1>4, <2>1 DEF Coroutine
<1>6. Carries(k, row, heard, said)
  <2>1. /\ k.queue = q \ {m} /\ k.msg = m /\ k.at = FirstStep(task[t].job)
        /\ k.job = task[t].job /\ k.body = task[t].body
    BY <1>1 DEF Coroutine
  <2>2. task[t].job \in Jobs
    BY <1>1 DEF Coroutine
  <2> HIDE DEF m, k
  <2> QED  BY <1>1, <1>2, <2>1, <2>2 DEF Carries, Jobs, FirstStep
<1>7. UNCHANGED <<rowVars, noteVars, heard>> /\ EnvTyped'
  BY Standing DEF TakeNext, approvalVars, envVars, EnvTyped
<1> HIDE DEF k
<1> QED  BY <1>3, <1>5, <1>6, <1>7, OnlyOneMoves

LEMMA SendFailsKeeps ==
  ASSUME IInv, NEW t \in Tasks, SendFails(t)
  PROVE  IInv'
<1>1. EnvTyped'
  BY Standing DEF SendFails, approvalVars, envVars, EnvTyped
<1> QED  BY <1>1, IdleCarries, OnlyOneMoves DEF SendFails

LEMMA MarkRefusedKeeps ==
  ASSUME IInv, NEW t \in Tasks, MarkRefused(t)
  PROVE  IInv'
<1>1. EnvTyped' /\ UNCHANGED <<rowVars, noteVars, heard>>
  BY Standing DEF MarkRefused, approvalVars, envVars, EnvTyped
<1>2. Onward(t, task[t]) \in Coroutine /\ Carries(Onward(t, task[t]), row, heard, said)
  BY Deeds, OnwardCarries
<1>3. CASE t = "session"
  BY <1>1, <1>2, <1>3, ProceedMoves, OnlyOneMoves DEF MarkRefused
<1>4. CASE t # "session"
  BY <1>1, <1>4, IdleCarries, OnlyOneMoves DEF MarkRefused
<1> QED  BY <1>3, <1>4

LEMMA ReadNoteKeeps ==
  ASSUME IInv, NEW t \in Tasks, ReadNote(t)
  PROVE  IInv'
<1> DEFINE k == [task[t] EXCEPT !.at = "write", !.body = note]
<1>1. EnvTyped' /\ UNCHANGED <<rowVars, noteVars, heard>>
  BY Standing DEF ReadNote, approvalVars, envVars, EnvTyped
<1>2. task[t] \in Coroutine /\ Carries(task[t], row, heard, said) /\ task \in [Tasks -> Coroutine]
  BY Deeds, Standing DEF Holding
<1>3. note \subseteq Lines /\ \A l \in note : l[1] \in said
  BY DEF IInv, TypeOK, Written
<1>4. task' = [task EXCEPT ![t] = k]
  BY <1>2 DEF ReadNote
<1>5. k \in Coroutine /\ Carries(k, row, heard, said)
  BY <1>2, <1>3 DEF Coroutine, Carries, Steps, ReadNote
<1> HIDE DEF k
<1> QED  BY <1>1, <1>4, <1>5, OnlyOneMoves

LEMMA LoopOnlyKeeps ==
  ASSUME IInv, StartPass \/ MirrorPassEnds
  PROVE  IInv'
<1> DEFINE k == [Idle EXCEPT !.at = "next", !.job = "mirror", !.queue = Unmirrored]
<1>1. EnvTyped' /\ UNCHANGED <<rowVars, noteVars, heard>> /\ "loop" \in Tasks
  BY Standing DEF StartPass, MirrorPassEnds, approvalVars, envVars, EnvTyped, Tasks
<1>2. CASE StartPass
  <2>1. Unmirrored \subseteq Ids /\ Unmirrored \subseteq said /\ Unmirrored \subseteq Messages
    BY IdsCounted DEF Unmirrored, IInv, TypeOK
  <2>2. Idle \in Coroutine /\ Carries(Idle, row, heard, said)
    BY IdleCarries
  <2>3. k \in Coroutine /\ k.queue = Unmirrored /\ k.job = "mirror" /\ k.at = "next" /\ k.body = {}
    BY <2>1, <2>2 DEF Coroutine, Steps, Jobs, Idle
  <2>4. Carries(k, row, heard, said)
    BY <2>1, <2>3 DEF Carries, Ids
  <2>5. task' = [task EXCEPT !["loop"] = k]
    BY <1>2 DEF StartPass
  <2> HIDE DEF k
  <2> QED  BY <1>1, <2>3, <2>4, <2>5, OnlyOneMoves
<1>3. CASE MirrorPassEnds
  BY <1>1, <1>3, IdleCarries, OnlyOneMoves DEF MirrorPassEnds
<1> QED  BY <1>2, <1>3

\* The listing of approvals and what they become on their own.
LEMMA ApprovalsKeep ==
  ASSUME IInv, ListApprovals \/ (\E p \in Approvals : RequestApproval(p) \/ Lapse(p))
  PROVE  IInv'
<1>1. CASE ListApprovals
  <2> DEFINE raise == {p \in Approvals : decided'[p] = "pending"}
             k == [task["loop"] EXCEPT !.at = "raise", !.raise = raise]
  <2>1. EnvTyped' /\ UNCHANGED <<rowVars, noteVars, heard>> /\ "loop" \in Tasks
    BY <1>1, Standing DEF ListApprovals, envVars, EnvTyped, Tasks
  <2>2. /\ task["loop"] \in Coroutine /\ Carries(task["loop"], row, heard, said)
        /\ task \in [Tasks -> Coroutine]
    BY <2>1, Deeds, Standing DEF Holding
  <2>3. raise \in SUBSET Approvals /\ "raise" \in Steps
    BY DEF Steps
  <2>4. task' = [task EXCEPT !["loop"] = k]
    BY <1>1, <2>2 DEF ListApprovals
  <2> HIDE DEF raise
  <2>5. k \in Coroutine /\ k.at = "raise" /\ k.job = task["loop"].job
        /\ k.queue = task["loop"].queue /\ k.body = task["loop"].body
    BY <2>2, <2>3 DEF Coroutine
  <2>6. Carries(k, row, heard, said)
    BY <2>2, <2>5 DEF Carries
  <2> HIDE DEF k
  <2> QED  BY <2>1, <2>4, <2>5, <2>6, OnlyOneMoves
<1>2. ASSUME NEW p \in Approvals, RequestApproval(p)  PROVE IInv'
  <2> DEFINE k == [Idle EXCEPT !.at = "raise", !.raise = {p}]
  <2>1. EnvTyped' /\ UNCHANGED <<rowVars, noteVars, heard>> /\ "speaker" \in Tasks
    BY <1>2, Standing DEF RequestApproval, envVars, EnvTyped, Tasks
  <2>2. Idle \in Coroutine /\ Carries(Idle, row, heard, said)
    BY IdleCarries
  <2>3. k \in Coroutine /\ Carries(k, row, heard, said)
    BY <2>2 DEF Coroutine, Carries, Steps, Idle
  <2>4. task' = [task EXCEPT !["speaker"] = k]
    BY <1>2 DEF RequestApproval
  <2> HIDE DEF k
  <2> QED  BY <2>1, <2>3, <2>4, OnlyOneMoves
<1>3. ASSUME NEW p \in Approvals, Lapse(p)  PROVE IInv'
  <2>1. EnvTyped' /\ UNCHANGED <<rowVars, noteVars, heard, task>>
    BY <1>3, Standing DEF Lapse, envVars, EnvTyped
  <2>2. Holding'
    BY <2>1, Standing DEF Holding, Carrying, rowVars
  <2> QED  BY <2>1, <2>2, RowsStay
<1> QED  BY <1>1, <1>2, <1>3

LEMMA SceneKeeps ==
  ASSUME IInv, SceneChanges \/ Crash
  PROVE  IInv'
<1>1. UNCHANGED <<rowVars, noteVars, heard>>
  BY DEF SceneChanges, Crash
<1>2. EnvTyped'
  BY Standing, BoundsAssumption DEF SceneChanges, Crash, approvalVars, EnvTyped
<1>3. CASE task' = task
  <2> QED  BY <1>1, <1>2, <1>3, Standing, RowsStay DEF Holding, Carrying, rowVars
<1>4. CASE task' = [t \in Tasks |-> Idle]
  <2>1. Holding'
    BY <1>4, IdleCarries DEF Holding, Carrying
  <2> QED  BY <1>1, <1>2, <2>1, RowsStay
<1> QED  BY <1>3, <1>4 DEF SceneChanges, Crash

-----------------------------------------------------------------------------
(* Steps that write the notebook.                                          *)

RowsTyped ==
  /\ Ids \in {1 .. n : n \in 0 .. MaxMessages} /\ row \in [Ids -> New]
  /\ status \in [Ids -> Statuses]
  /\ age \in [Ids -> 0 .. ExpiryAge + 1]
  /\ today \subseteq Ids /\ said \subseteq Ids /\ written \subseteq Ids
  /\ repeats \in [Ids -> 0 .. MaxRepeats]
  /\ note \subseteq Lines /\ spare \subseteq Lines
  /\ heard \in [Ids -> 0 .. MaxHeard]
  /\ log \in [Ids -> Nat]

LEMMA Together ==
  RowsTyped /\ EnvTyped /\ Holding /\ (\A m \in Ids : Told(m)) /\ Written <=> IInv
BY DEF RowsTyped, EnvTyped, Holding, IInv, TypeOK, Coroutine

LEMMA PutLineKeeps ==
  ASSUME IInv, NEW t \in Tasks, task[t].at = "write", PutLine(t), said' = said
  PROVE  /\ note' \subseteq Lines /\ spare' \subseteq Lines
         /\ \A l \in (note \union spare)' : l[1] \in said'
<1>1. task[t] \in Coroutine /\ Carries(task[t], row, heard, said)
  BY Deeds
<1>2. task[t].msg \in said /\ said \subseteq Messages
  BY <1>1, IdsCounted DEF Carries, IInv, TypeOK
<1>3. Line(t) \in Lines /\ Line(t)[1] \in said
  BY <1>2 DEF Line, Lines
<1>4. /\ note \subseteq Lines /\ spare \subseteq Lines /\ task[t].body \subseteq Lines
      /\ \A l \in note \union spare \union task[t].body : l[1] \in said
  BY <1>1 DEF IInv, TypeOK, Written, Carries, Coroutine
<1>5. note' \subseteq note \union task[t].body \union {Line(t)}
  BY DEF PutLine
<1>6. spare' \subseteq spare \union {Line(t)}
  BY DEF PutLine
<1> QED  BY <1>3, <1>4, <1>5, <1>6

LEMMA NotebookKeeps ==
  ASSUME IInv, NEW t \in Tasks, WriteNote(t) \/ StampNote(t) \/ NoteFails(t)
  PROVE  IInv'
<1>1. task[t] \in Coroutine /\ Carries(task[t], row, heard, said) /\ task \in [Tasks -> Coroutine]
  BY Deeds, Standing DEF Holding
<1>2. /\ row' = row /\ status' = status /\ age' = age /\ today' = today /\ said' = said
      /\ repeats' = repeats /\ log' = log /\ heard' = heard
  BY DEF WriteNote, StampNote, NoteFails, rowVars
<1>3. written' \subseteq said /\ written' \subseteq Ids
  BY <1>1 DEF WriteNote, StampNote, NoteFails, rowVars, Carries, IInv, TypeOK, Written
<1>4. /\ note' \subseteq Lines /\ spare' \subseteq Lines
      /\ \A l \in (note \union spare)' : l[1] \in said'
  <2>1. CASE UNCHANGED noteVars
    BY <1>2, <2>1 DEF noteVars, IInv, TypeOK, Written
  <2>2. CASE task[t].at = "write" /\ PutLine(t)
    BY <1>2, <2>2, PutLineKeeps
  <2> QED  BY <2>1, <2>2 DEF WriteNote, StampNote, NoteFails
<1>5. EnvTyped'
  BY Standing, BoundsAssumption DEF WriteNote, StampNote, NoteFails, approvalVars, envVars, EnvTyped
<1>6. Holding'
  <2>1. CASE Proceed(t)
    <3>1. Onward(t, task[t]) \in Coroutine /\ Carries(Onward(t, task[t]), row, heard, said)
      BY <1>1, OnwardCarries
    <3> QED  BY <1>2, <2>1, <3>1, Standing, ProceedMoves, OneMoves DEF Ids
  <2>2. CASE task[t].at = "write" /\ task' = [task EXCEPT ![t].at = "stamp", ![t].body = {}]
    <3> DEFINE k == [task[t] EXCEPT !.at = "stamp", !.body = {}]
    <3>1. k \in Coroutine /\ Carries(k, row, heard, said)
      BY <1>1, <2>2 DEF Coroutine, Carries, Steps
    <3>2. task' = [task EXCEPT ![t] = k]
      BY <1>1, <2>2
    <3> HIDE DEF k
    <3> QED  BY <1>2, <3>1, <3>2, Standing, OneMoves DEF Ids
  <2> QED  BY <2>1, <2>2 DEF WriteNote, StampNote, NoteFails
<1>7. RowsTyped'
  BY <1>2, <1>3, <1>4 DEF RowsTyped, IInv, TypeOK, Ids
<1>8. (\A m \in Ids : Told(m))'
  BY <1>2 DEF IInv, Told, Ids
<1>9. Written'
  BY <1>2, <1>3, <1>4 DEF Written
<1>10. (RowsTyped /\ EnvTyped /\ Holding /\ (\A m \in Ids : Told(m)) /\ Written)' => IInv'
  BY Together, PTL
<1> QED  BY <1>5, <1>6, <1>7, <1>8, <1>9, <1>10

-----------------------------------------------------------------------------
(* Steps that change the rows there are.                                   *)

LEMMA SendKeeps ==
  ASSUME IInv, NEW t \in Tasks, Send(t)
  PROVE  IInv'
<1> DEFINE k == [task[t] EXCEPT !.at = "mark"]
<1>1. task[t] \in Coroutine /\ Carries(task[t], row, heard, said) /\ task \in [Tasks -> Coroutine]
  BY Deeds, Standing DEF Holding
<1>2. /\ row' = row /\ status' = status /\ age' = age /\ today' = today /\ said' = said
      /\ repeats' = repeats /\ log' = log /\ written' = written /\ note' = note /\ spare' = spare
  BY DEF Send, rowVars, noteVars
<1>3. task[t].msg \in Ids
  BY <1>1 DEF Send, Carries, Ids
<1>4. /\ heard' \in [Ids -> 0 .. MaxHeard] /\ heard'[task[t].msg] > 0
      /\ \A m \in Ids : heard[m] > 0 => heard'[m] > 0
  <2>1. heard \in [Ids -> 0 .. MaxHeard] /\ MaxHeard \in Nat \ {0}
    BY BoundsAssumption DEF IInv, TypeOK
  <2> HIDE DEF Ids
  <2> QED  BY <1>3, <2>1 DEF Send
<1>5. RowsTyped'
  BY <1>2, <1>4 DEF RowsTyped, IInv, TypeOK, Ids
<1>6. EnvTyped'
  BY Standing DEF Send, approvalVars, envVars, EnvTyped
<1>7. Holding'
  <2>1. k \in Coroutine /\ Carries(k, row', heard', said')
    BY <1>1, <1>2, <1>3, <1>4 DEF Coroutine, Carries, Steps, Ids
  <2>2. task' = [task EXCEPT ![t] = k]
    BY <1>1 DEF Send, Goto
  <2> HIDE DEF k
  <2> QED  BY <1>2, <1>4, <2>1, <2>2, Standing, OneMoves DEF Ids
<1>8. (\A m \in Ids : Told(m))'
  <2>1. \A m \in Ids : Told(m)
    BY DEF IInv
  <2> QED  BY <1>2, <1>4, <2>1 DEF Told, Ids
<1>9. Written'
  BY <1>2 DEF IInv, Written
<1>10. (RowsTyped /\ EnvTyped /\ Holding /\ (\A m \in Ids : Told(m)) /\ Written)' => IInv'
  BY Together, PTL
<1> QED  BY <1>5, <1>6, <1>7, <1>8, <1>9, <1>10

LEMMA MarkSpokenKeeps ==
  ASSUME IInv, NEW t \in Tasks, MarkSpoken(t)
  PROVE  IInv'
<1> DEFINE m == task[t].msg
           k == [task[t] EXCEPT !.at = "read"]
<1>1. task[t] \in Coroutine /\ Carries(task[t], row, heard, said) /\ task \in [Tasks -> Coroutine]
  BY Deeds, Standing DEF Holding
<1>2. /\ row' = row /\ age' = age /\ today' = today /\ heard' = heard
      /\ repeats' = repeats /\ written' = written /\ note' = note /\ spare' = spare
  BY DEF MarkSpoken, noteVars
<1>3. /\ status[m] = "pending" /\ status' = [status EXCEPT ![m] = "spoken"]
      /\ said' = said \union {m} /\ log' = [log EXCEPT ![m] = @ + 1]
  BY DEF MarkSpoken
<1>4. m \in Ids /\ (heard[m] > 0 \/ row[m].urgency = "next_time")
  BY <1>1 DEF MarkSpoken, Carries, Ids
<1>5. \A n \in Ids : Told(n)
  BY DEF IInv
<1> HIDE DEF m
<1>6. RowsTyped'
  <2>1. /\ status \in [Ids -> Statuses] /\ log \in [Ids -> Nat] /\ said \subseteq Ids
        /\ "spoken" \in Statuses
    BY DEF IInv, TypeOK, Statuses
  <2>2. status' \in [Ids -> Statuses] /\ log' \in [Ids -> Nat] /\ said' \subseteq Ids
    BY <1>3, <1>4, <2>1
  <2> QED  BY <1>2, <2>2 DEF RowsTyped, IInv, TypeOK, Ids
<1>7. EnvTyped'
  BY Standing DEF MarkSpoken, approvalVars, envVars, EnvTyped
<1>8. Holding'
  <2>1. k \in Coroutine /\ Carries(k, row', heard', said')
    BY <1>1, <1>2, <1>3, <1>4 DEF Coroutine, Carries, Steps, Ids, m
  <2>2. task' = [task EXCEPT ![t] = k]
    BY <1>1 DEF MarkSpoken, Goto
  <2> HIDE DEF k
  <2> QED  BY <1>2, <1>3, <2>1, <2>2, Standing, OneMoves DEF Ids
<1>9. (\A n \in Ids : Told(n))'
  <2> SUFFICES ASSUME NEW n \in Ids  PROVE Told(n)'
    BY <1>2 DEF Ids
  <2>1. CASE n = m
    <3>1. n \notin said /\ log[n] = 0
      BY <1>3, <1>5, <2>1 DEF Told
    <3>2. status'[n] = "spoken" /\ log'[n] = 1 /\ n \in said'
      BY <1>3, <2>1, <3>1 DEF IInv, TypeOK
    <3> QED  BY <1>2, <1>4, <2>1, <3>2 DEF Told
  <2>2. CASE n # m
    <3>1. status'[n] = status[n] /\ log'[n] = log[n] /\ (n \in said' <=> n \in said)
      BY <1>3, <2>2 DEF IInv, TypeOK
    <3> QED  BY <1>2, <1>5, <3>1 DEF Told
  <2> QED  BY <2>1, <2>2
<1>10. Written'
  BY <1>2, <1>3 DEF IInv, Written
<1>11. (RowsTyped /\ EnvTyped /\ Holding /\ (\A n \in Ids : Told(n)) /\ Written)' => IInv'
  BY Together, PTL
<1> QED  BY <1>6, <1>7, <1>8, <1>9, <1>10, <1>11

\* What a row tells allows it to be answered or expired, and no more.
Turns(m, before, after) ==
  /\ after \in Statuses
  /\ after = "pending" => before = "pending"
  /\ after \in {"spoken", "answered"} => before \in {"spoken", "answered"}

\* A step that turns statuses that way, and leaves what was said alone.
LEMMA TurnsKeep ==
  ASSUME IInv, row' = row, said' = said, written' = written, heard' = heard, log' = log,
         UNCHANGED noteVars, EnvTyped', Holding',
         status' \in [Ids -> Statuses], age' \in [Ids -> 0 .. ExpiryAge + 1],
         today' \subseteq Ids, repeats' \in [Ids -> 0 .. MaxRepeats],
         \A m \in Ids : Turns(m, status[m], status'[m])
  PROVE  IInv'
<1>1. RowsTyped'
  BY DEF RowsTyped, IInv, TypeOK, Ids, noteVars
<1>2. (\A m \in Ids : Told(m))'
  <2>1. \A m \in Ids : Told(m)
    BY DEF IInv
  <2> QED  BY <2>1 DEF Told, Ids, Turns
<1>3. Written'
  BY DEF IInv, Written, noteVars
<1>4. (RowsTyped /\ EnvTyped /\ Holding /\ (\A m \in Ids : Told(m)) /\ Written)' => IInv'
  BY Together, PTL
<1> QED  BY <1>1, <1>2, <1>3, <1>4


\* Tick, Answer, Repeat and Decide.
LEMMA AlexKeeps ==
  ASSUME IInv, Tick \/ Alex
  PROVE  IInv'
<1>1. /\ status \in [Ids -> Statuses] /\ age \in [Ids -> 0 .. ExpiryAge + 1]
      /\ repeats \in [Ids -> 0 .. MaxRepeats] /\ today \subseteq Ids /\ said \subseteq Ids
      /\ ExpiryAge \in Nat /\ MaxRepeats \in Nat /\ EnvTyped /\ Holding
  BY BoundsAssumption, Standing DEF IInv, TypeOK
<1>2. \A m \in Ids : Turns(m, status[m], status[m])
  BY <1>1 DEF Turns
<1>4. CASE Tick
  <2>1. /\ row' = row /\ said' = said /\ written' = written /\ heard' = heard /\ log' = log
        /\ UNCHANGED noteVars /\ status' = status /\ repeats' = repeats /\ today' = {}
        /\ task' = task /\ decided' = decided /\ UNCHANGED envVars
    BY <1>4 DEF Tick
  <2>2. age' = [m \in Ids |-> IF status[m] = "expired" THEN age[m] ELSE Older(age[m])]
    BY <1>4 DEF Tick
  <2>3. asked' = [p \in Approvals |-> IF decided[p] = "pending" THEN Older(asked[p])
                                      ELSE asked[p]]
    BY <1>4 DEF Tick
  <2>4. \A n \in 0 .. ExpiryAge + 1 : Older(n) \in 0 .. ExpiryAge + 1
    BY <1>1 DEF Older
  <2> HIDE DEF Ids
  <2>5. age' \in [Ids -> 0 .. ExpiryAge + 1]
    BY <1>1, <2>2, <2>4
  <2>6. EnvTyped'
    BY <1>1, <2>1, <2>3, <2>4 DEF EnvTyped, envVars
  <2>7. Holding'
    BY <1>1, <2>1 DEF Holding, Carrying
  <2> QED  BY <1>1, <1>2, <2>1, <2>5, <2>6, <2>7, TurnsKeep
<1>5. ASSUME NEW m \in Ids, Answer(m)  PROVE IInv'
  <2>1. /\ row' = row /\ said' = said /\ written' = written /\ heard' = heard /\ log' = log
        /\ UNCHANGED noteVars /\ repeats' = repeats /\ today' = today
        /\ task' = task /\ UNCHANGED approvalVars /\ UNCHANGED envVars
    BY <1>5 DEF Answer
  <2>2. /\ status[m] = "spoken" /\ status' = [status EXCEPT ![m] = "answered"]
        /\ age' = [age EXCEPT ![m] = 0]
    BY <1>5 DEF Answer
  <2> HIDE DEF Ids
  <2>3. status' \in [Ids -> Statuses] /\ age' \in [Ids -> 0 .. ExpiryAge + 1]
    BY <1>1, <2>2 DEF Statuses
  <2>4. \A n \in Ids : Turns(n, status[n], status'[n])
    BY <1>1, <2>2 DEF Turns, Statuses
  <2>5. EnvTyped' /\ Holding'
    BY <1>1, <2>1 DEF EnvTyped, envVars, approvalVars, Holding, Carrying
  <2> QED  BY <1>1, <2>1, <2>3, <2>4, <2>5, TurnsKeep
<1>6. ASSUME NEW m \in Ids, Repeat(m)  PROVE IInv'
  <2> DEFINE k == [Idle EXCEPT !.at = "read", !.msg = m, !.job = "mention", !.again = TRUE]
  <2>1. /\ row' = row /\ said' = said /\ written' = written /\ heard' = heard /\ log' = log
        /\ UNCHANGED noteVars /\ status' = status /\ age' = age /\ today' = today
        /\ UNCHANGED approvalVars /\ UNCHANGED envVars /\ "session" \in Tasks
        /\ m \in said
    BY <1>6 DEF Repeat, Tasks
  <2>2. repeats[m] < MaxRepeats /\ repeats' = [repeats EXCEPT ![m] = @ + 1]
    BY <1>6 DEF Repeat
  <2>3. task' = [task EXCEPT !["session"] = k]
    BY <1>6 DEF Repeat
  <2>4. m \in 0 .. MaxMessages
    BY IdsCounted, BoundsAssumption DEF Messages, IInv
  <2>5. k \in Coroutine /\ Carries(k, row, heard, said)
    <3>1. Idle \in Coroutine /\ Carries(Idle, row, heard, said)
      BY IdleCarries
    <3>2. m \in DOMAIN row
      BY DEF Ids
    <3> QED  BY <2>1, <2>4, <3>1, <3>2 DEF Coroutine, Carries, Steps, Jobs, Idle
  <2> HIDE DEF k
  <2>6. Holding'
    BY <1>1, <2>1, <2>3, <2>5, OneMoves DEF Ids
  <2>7. EnvTyped'
    BY <1>1, <2>1 DEF EnvTyped, envVars, approvalVars
  <2>8. repeats' \in [Ids -> 0 .. MaxRepeats]
    <3> HIDE DEF Ids
    <3> QED  BY <1>1, <2>2
  <2> QED  BY <1>1, <1>2, <2>1, <2>6, <2>7, <2>8, TurnsKeep
<1>7. ASSUME NEW p \in Approvals, Decide(p)  PROVE IInv'
  <2> DEFINE question == {m \in About(p) : m = ByApproval(p) /\ status[m] = "spoken"}
  <2>1. /\ row' = row /\ said' = said /\ written' = written /\ heard' = heard /\ log' = log
        /\ UNCHANGED noteVars /\ repeats' = repeats /\ today' = today
        /\ task' = task /\ asked' = asked /\ UNCHANGED envVars
    BY <1>7 DEF Decide
  <2>2. /\ status' = [m \in Ids |-> IF m \in question THEN "answered" ELSE status[m]]
        /\ age' = [m \in Ids |-> IF m \in question THEN 0 ELSE age[m]]
    BY <1>7 DEF Decide
  <2>3. \A m \in question : status[m] = "spoken"
    OBVIOUS
  <2> HIDE DEF Ids, question
  <2>4. status' \in [Ids -> Statuses] /\ age' \in [Ids -> 0 .. ExpiryAge + 1]
    BY <1>1, <2>2 DEF Statuses
  <2>5. \A n \in Ids : Turns(n, status[n], status'[n])
    BY <1>1, <2>2, <2>3 DEF Turns, Statuses
  <2>6. EnvTyped'
    <3>1. decided' = [decided EXCEPT ![p] = "settled"]
      BY <1>7 DEF Decide
    <3> QED  BY <1>1, <2>1, <3>1 DEF EnvTyped, envVars
  <2>7. Holding'
    BY <1>1, <2>1 DEF Holding, Carrying
  <2> QED  BY <1>1, <2>1, <2>4, <2>5, <2>6, <2>7, TurnsKeep
<1> QED  BY <1>4, <1>5, <1>6, <1>7 DEF Alex

\* A list of rows handed to a coroutine.
LEMMA StartCarries ==
  ASSUME NEW r, NEW h, NEW s, NEW job \in {"deliver", "mention"}, NEW queue \in SUBSET Messages,
         queue \subseteq DOMAIN r,
         job = "mention" => \A m \in queue : r[m].urgency = "next_time",
         NEW t \in Tasks, Start(t, job, queue), task \in [Tasks -> Coroutine]
  PROVE  \E k \in Coroutine : task' = [task EXCEPT ![t] = k] /\ Carries(k, r, h, s)
<1> DEFINE k == [Idle EXCEPT !.at = "next", !.job = job, !.queue = queue]
<1>1. Idle \in Coroutine /\ Carries(Idle, r, h, s)
  BY IdleCarries
<1>2. k \in Coroutine /\ Carries(k, r, h, s)
  BY <1>1 DEF Coroutine, Carries, Steps, Jobs, Idle
<1>3. task' = [task EXCEPT ![t] = IF queue = {} THEN Idle ELSE k]
  BY DEF Start
<1> HIDE DEF k
<1> QED  BY <1>1, <1>2, <1>3

\* The sweep of the delivery loop and of a session that opens.
LEMMA ListKeeps ==
  ASSUME IInv, ListPending \/ OpenSession
  PROVE  IInv'
<1>1. /\ row' = row /\ said' = said /\ written' = written /\ heard' = heard /\ log' = log
      /\ UNCHANGED noteVars /\ repeats' = repeats /\ today' = today
      /\ UNCHANGED approvalVars /\ UNCHANGED envVars /\ Sweep
  BY DEF ListPending, OpenSession, Sweep
<1>2. TypeOK /\ EnvTyped /\ Holding
  BY Standing DEF IInv
<1>3. \A m \in Ids : /\ Turns(m, status[m], Swept(m)) /\ Swept(m) \in Statuses
                     /\ SweptAge(m) \in 0 .. ExpiryAge + 1
  BY <1>2, SweepTells DEF Turns
<1>4. /\ status' \in [Ids -> Statuses] /\ age' \in [Ids -> 0 .. ExpiryAge + 1]
      /\ \A m \in Ids : Turns(m, status[m], status'[m])
  BY <1>1, <1>3 DEF Sweep
<1>5. EnvTyped'
  BY <1>1, <1>2 DEF EnvTyped, envVars, approvalVars
<1>6. Ids \subseteq Messages /\ "loop" \in Tasks /\ "session" \in Tasks
  BY <1>2, IdsCounted DEF Tasks
<1>7. Holding'
  <2>1. CASE ListPending
    <3> DEFINE queue == {m \in Ids : Swept(m) = "pending" /\ row[m].urgency = "now"}
    <3>1. queue \in SUBSET Messages /\ queue \subseteq DOMAIN row /\ Start("loop", "deliver", queue)
      BY <1>6, <2>1 DEF ListPending, Ids
    <3> HIDE DEF queue
    <3>2. \E k \in Coroutine : /\ task' = [task EXCEPT !["loop"] = k]
                               /\ Carries(k, row, heard, said)
      BY <1>2, <1>6, <3>1, StartCarries DEF Holding
    <3> QED  BY <1>1, <1>2, <1>6, <3>2, OneMoves DEF Ids
  <2>2. CASE OpenSession
    <3> DEFINE queue == {m \in Ids : Swept(m) = "pending" /\ row[m].urgency = "next_time"}
    <3>1. /\ queue \in SUBSET Messages /\ queue \subseteq DOMAIN row
          /\ Start("session", "mention", queue)
          /\ \A m \in queue : row[m].urgency = "next_time"
      BY <1>6, <2>2 DEF OpenSession, Ids
    <3> HIDE DEF queue
    <3>2. \E k \in Coroutine : /\ task' = [task EXCEPT !["session"] = k]
                               /\ Carries(k, row, heard, said)
      BY <1>2, <1>6, <3>1, StartCarries DEF Holding
    <3> QED  BY <1>1, <1>2, <1>6, <3>2, OneMoves DEF Ids
  <2> QED  BY <2>1, <2>2
<1>8. today' \subseteq Ids /\ repeats' \in [Ids -> 0 .. MaxRepeats]
  BY <1>1, <1>2 DEF TypeOK
<1> QED  BY <1>1, <1>4, <1>5, <1>7, <1>8, TurnsKeep


-----------------------------------------------------------------------------
(* Steps that create a row.                                                *)

LEMMA Created ==
  ASSUME IInv, NEW new \in New, NEW st \in [Ids -> Statuses],
         NEW ag \in [Ids -> 0 .. ExpiryAge + 1], Create(new, st, ag)
  PROVE  /\ Ids' = Ids \union {NextId} /\ NextId \in Messages /\ NextId \notin Ids
         /\ UNCHANGED noteVars => RowsTyped'
         /\ said' = said /\ written' = written /\ today' = today \union {NextId}
         /\ row'[NextId] = new /\ status'[NextId] = "pending" /\ log'[NextId] = 0
         /\ \A m \in Ids : /\ row'[m] = row[m] /\ status'[m] = st[m]
                           /\ heard'[m] = heard[m] /\ log'[m] = log[m]
<1> DEFINE More == Ids \union {NextId}
<1>1. /\ TypeOK /\ row \in [Ids -> New] /\ repeats \in [Ids -> 0 .. MaxRepeats]
      /\ heard \in [Ids -> 0 .. MaxHeard] /\ log \in [Ids -> Nat]
      /\ today \subseteq Ids /\ said \subseteq Ids /\ written \subseteq Ids
      /\ note \subseteq Lines /\ spare \subseteq Lines
  BY DEF IInv, TypeOK
<1>2. /\ "pending" \in Statuses /\ 0 \in 0 .. ExpiryAge + 1 /\ 0 \in 0 .. MaxRepeats
      /\ 0 \in 0 .. MaxHeard /\ 0 \in Nat
  BY BoundsAssumption DEF Statuses
<1>3. /\ NextId \in Messages /\ row' = Append(row, new) /\ status' = Append(st, "pending")
      /\ age' = Append(ag, 0) /\ repeats' = Append(repeats, 0) /\ heard' = Append(heard, 0)
      /\ log' = Append(log, 0) /\ today' = today \union {NextId}
      /\ said' = said /\ written' = written
  BY DEF Create, NextId
<1> HIDE DEF Ids
<1>4. More = 1 .. NextId /\ NextId \notin Ids
  BY <1>1, Appended
<1>5. /\ Extends(row', row, New, new) /\ Extends(status', st, Statuses, "pending")
      /\ Extends(age', ag, 0 .. ExpiryAge + 1, 0)
      /\ Extends(repeats', repeats, 0 .. MaxRepeats, 0)
      /\ Extends(heard', heard, 0 .. MaxHeard, 0) /\ Extends(log', log, Nat, 0)
  <2>1. Extends(row', row, New, new)
    BY <1>1, <1>3, Appended
  <2>2. Extends(status', st, Statuses, "pending")
    BY <1>1, <1>2, <1>3, Appended
  <2>3. Extends(age', ag, 0 .. ExpiryAge + 1, 0)
    BY <1>1, <1>2, <1>3, Appended
  <2>4. Extends(repeats', repeats, 0 .. MaxRepeats, 0)
    BY <1>1, <1>2, <1>3, Appended
  <2>5. Extends(heard', heard, 0 .. MaxHeard, 0)
    BY <1>1, <1>2, <1>3, Appended
  <2>6. Extends(log', log, Nat, 0)
    BY <1>1, <1>2, <1>3, Appended
  <2> QED  BY <2>1, <2>2, <2>3, <2>4, <2>5, <2>6
<1>6. row' \in [More -> New] /\ row'[NextId] = new /\ \A m \in Ids : row'[m] = row[m]
  BY <1>5 DEF Extends
<1>7. /\ status' \in [More -> Statuses] /\ status'[NextId] = "pending"
      /\ \A m \in Ids : status'[m] = st[m]
  BY <1>5 DEF Extends
<1>8. age' \in [More -> 0 .. ExpiryAge + 1] /\ repeats' \in [More -> 0 .. MaxRepeats]
  BY <1>5 DEF Extends
<1>9. heard' \in [More -> 0 .. MaxHeard] /\ \A m \in Ids : heard'[m] = heard[m]
  BY <1>5 DEF Extends
<1>10. log' \in [More -> Nat] /\ log'[NextId] = 0 /\ \A m \in Ids : log'[m] = log[m]
  BY <1>5 DEF Extends
<1>11. Ids' = More
  BY <1>6 DEF Ids
<1>12. NextId \in 0 .. MaxMessages
  BY <1>3, BoundsAssumption DEF Messages
<1>13. ASSUME UNCHANGED noteVars  PROVE RowsTyped'
  <2>1. note' \subseteq Lines /\ spare' \subseteq Lines
    BY <1>1, <1>13 DEF noteVars
  <2>2. More \in {1 .. n : n \in 0 .. MaxMessages}
    BY <1>4, <1>12
  <2>3. today' \subseteq More /\ said' \subseteq More /\ written' \subseteq More
    BY <1>1, <1>3
  <2> HIDE DEF More
  <2> QED  BY <1>6, <1>7, <1>8, <1>9, <1>10, <1>11, <2>1, <2>2, <2>3 DEF RowsTyped
<1> QED  BY <1>3, <1>4, <1>6, <1>7, <1>9, <1>10, <1>11, <1>13

\* A row more, whose statuses turn at most as a sweep turns them.
LEMMA CreateKeeps ==
  ASSUME IInv, NEW new \in New, NEW st \in [Ids -> Statuses],
         NEW ag \in [Ids -> 0 .. ExpiryAge + 1], Create(new, st, ag),
         \A m \in Ids : Turns(m, status[m], st[m]),
         UNCHANGED noteVars, EnvTyped', Holding'
  PROVE  IInv'
<1>1. /\ Ids' = Ids \union {NextId} /\ NextId \notin Ids /\ RowsTyped'
      /\ said' = said /\ written' = written
      /\ row'[NextId] = new /\ status'[NextId] = "pending" /\ log'[NextId] = 0
      /\ \A m \in Ids : /\ row'[m] = row[m] /\ status'[m] = st[m]
                        /\ heard'[m] = heard[m] /\ log'[m] = log[m]
  BY Created
<1>2. said \subseteq Ids /\ \A m \in Ids : Told(m)
  BY DEF IInv, TypeOK
<1>3. (\A m \in Ids : Told(m))'
  <2> SUFFICES ASSUME NEW m \in Ids'  PROVE Told(m)'
    OBVIOUS
  <2>1. CASE m \in Ids
    <3>1. /\ row'[m] = row[m] /\ status'[m] = st[m] /\ heard'[m] = heard[m] /\ log'[m] = log[m]
          /\ Told(m) /\ Turns(m, status[m], st[m])
      BY <1>1, <1>2, <2>1
    <3> QED  BY <1>1, <3>1 DEF Told, Turns
  <2>2. CASE m = NextId
    BY <1>1, <1>2, <2>2 DEF Told
  <2> QED  BY <1>1, <2>1, <2>2
<1>4. Written'
  BY <1>1 DEF IInv, Written, noteVars
<1>5. (RowsTyped /\ EnvTyped /\ Holding /\ (\A m \in Ids : Told(m)) /\ Written)' => IInv'
  BY Together, PTL
<1> QED  BY <1>1, <1>3, <1>4, <1>5

LEMMA AskUserKeeps ==
  ASSUME IInv, NEW new \in Kinds, AskUser(new)
  PROVE  IInv'
<1> DEFINE st == [m \in Ids |-> Swept(m)]
           ag == [m \in Ids |-> SweptAge(m)]
<1>1. TypeOK /\ EnvTyped /\ Holding /\ new \in New
  BY Standing, KindsAssumption DEF IInv
<1>2. /\ st \in [Ids -> Statuses] /\ ag \in [Ids -> 0 .. ExpiryAge + 1]
      /\ \A m \in Ids : Turns(m, status[m], st[m])
  BY <1>1, SweepTells DEF Turns
<1>3. /\ Create(new, st, ag) /\ UNCHANGED noteVars /\ UNCHANGED approvalVars
      /\ task' = task /\ UNCHANGED envVars
  BY DEF AskUser
<1> HIDE DEF st, ag
<1>4. EnvTyped'
  BY <1>1, <1>3 DEF EnvTyped, envVars, approvalVars
<1>5. /\ Ids' = Ids \union {NextId} /\ said' = said
      /\ \A m \in Ids : row'[m] = row[m] /\ heard'[m] = heard[m]
  BY <1>1, <1>2, <1>3, Created
<1>6. Holding'
  <2> SUFFICES ASSUME NEW t \in Tasks  PROVE Carries(task[t], row', heard', said')
    BY <1>1, <1>3 DEF Holding, Carrying
  <2>1. Carries(task[t], row, heard, said)
    BY <1>1 DEF Holding, Carrying
  <2>2. Ids \subseteq Ids' /\ said \subseteq said'
    BY <1>5
  <2> QED  BY <1>5, <2>1, <2>2, CarriesStill DEF Ids
<1> QED  BY <1>1, <1>2, <1>3, <1>4, <1>6, CreateKeeps

\* announce: a row more, or none.
LEMMA AnnounceKeeps ==
  ASSUME IInv, NEW new \in New, Announce(new), UNCHANGED noteVars, EnvTyped', Holding'
  PROVE  IInv'
<1>1. CASE Known(new.approval)
  BY <1>1, RowsStay DEF Announce
<1>2. CASE ~ Known(new.approval)
  <2>1. /\ status \in [Ids -> Statuses] /\ age \in [Ids -> 0 .. ExpiryAge + 1]
        /\ \A m \in Ids : Turns(m, status[m], status[m])
    BY DEF IInv, TypeOK, Turns
  <2> QED  BY <1>2, <2>1, CreateKeeps DEF Announce
<1> QED  BY <1>1, <1>2

\* What a coroutine may count on once announce has returned.
LEMMA Announces ==
  ASSUME IInv, NEW new \in New, Announce(new)
  PROVE  /\ Ids \subseteq Ids' /\ said' = said
         /\ \A m \in Ids : row'[m] = row[m] /\ heard'[m] = heard[m]
         /\ ~ Known(new.approval) => NextId \in Ids' /\ NextId \in Messages
<1>1. CASE Known(new.approval)
  BY <1>1 DEF Announce, rowVars, Ids
<1>2. CASE ~ Known(new.approval)
  <2>1. status \in [Ids -> Statuses] /\ age \in [Ids -> 0 .. ExpiryAge + 1]
    BY DEF IInv, TypeOK
  <2>2. Create(new, status, age)
    BY <1>2 DEF Announce
  <2>3. /\ Ids' = Ids \union {NextId} /\ NextId \in Messages /\ said' = said
        /\ \A m \in Ids : row'[m] = row[m] /\ heard'[m] = heard[m]
    BY <2>1, <2>2, Created
  <2> QED  BY <2>3
<1> QED  BY <1>1, <1>2

LEMMA SpeakNowKeeps ==
  ASSUME IInv, NEW new \in New, SpeakNow(new)
  PROVE  IInv'
<1> DEFINE m == IF Known(new.approval) THEN ByApproval(new.approval)
                ELSE Cardinality(Ids) + 1
           k == [Idle EXCEPT !.at = "send", !.msg = m]
<1>1. Announce(new) /\ UNCHANGED noteVars /\ UNCHANGED approvalVars /\ UNCHANGED envVars
  BY DEF SpeakNow
<1>2. TypeOK /\ EnvTyped /\ Holding
  BY Standing DEF IInv
<1>3. EnvTyped'
  BY <1>1, <1>2 DEF EnvTyped, envVars, approvalVars
<1>4. /\ Ids \subseteq Ids' /\ said' = said
      /\ \A n \in Ids : row'[n] = row[n] /\ heard'[n] = heard[n]
      /\ ~ Known(new.approval) => NextId \in Ids' /\ NextId \in Messages
  BY <1>1, Announces
<1>5. m \in Ids' /\ m \in Messages
  <2>1. CASE Known(new.approval)
    <3>1. ByApproval(new.approval) \in About(new.approval)
      BY <1>2, <2>1, OldestAbout DEF Known
    <3> QED  BY <1>2, <1>4, <2>1, <3>1, IdsCounted DEF About
  <2>2. CASE ~ Known(new.approval)
    BY <1>4, <2>2 DEF NextId
  <2> QED  BY <2>1, <2>2
<1>6. task' = [task EXCEPT !["speaker"] = Idle] \/ task' = [task EXCEPT !["speaker"] = k]
  BY DEF SpeakNow
<1> HIDE DEF m
<1>7. k \in Coroutine /\ Carries(k, row', heard', said')
  <2>1. Idle \in Coroutine /\ Carries(Idle, row', heard', said') /\ m \in 0 .. MaxMessages
    BY <1>5, IdleCarries, BoundsAssumption DEF Messages
  <2>2. m \in DOMAIN row'
    BY <1>5 DEF Ids
  <2> QED  BY <2>1, <2>2 DEF Coroutine, Carries, Steps, Jobs, Idle
<1>8. Idle \in Coroutine /\ Carries(Idle, row', heard', said') /\ "speaker" \in Tasks
  BY IdleCarries DEF Tasks
<1> HIDE DEF k
<1>9. Holding'
  BY <1>2, <1>4, <1>6, <1>7, <1>8, OneMoves
<1> QED  BY <1>1, <1>3, <1>9, AnnounceKeeps

LEMMA RaiseUnannouncedKeeps ==
  ASSUME IInv, RaiseUnannounced
  PROVE  IInv'
<1>1. PICK new \in Kinds :
        /\ Announce(new)
        /\ task' = [task EXCEPT !["loop"].raise = @ \ {new.approval}]
  BY DEF RaiseUnannounced
<1> DEFINE k == [task["loop"] EXCEPT !.raise = @ \ {new.approval}]
<1>2. /\ TypeOK /\ EnvTyped /\ Holding /\ new \in New /\ UNCHANGED noteVars
      /\ UNCHANGED approvalVars /\ UNCHANGED envVars /\ "loop" \in Tasks
  BY Standing, KindsAssumption DEF IInv, RaiseUnannounced, Tasks
<1>3. EnvTyped'
  BY <1>2 DEF EnvTyped, envVars, approvalVars
<1>4. /\ Ids \subseteq Ids' /\ said' = said
      /\ \A n \in Ids : row'[n] = row[n] /\ heard'[n] = heard[n]
  BY <1>1, <1>2, Announces
<1>5. task["loop"] \in Coroutine /\ Carries(task["loop"], row, heard, said)
  BY <1>2, Deeds
<1>6. Carries(task["loop"], row', heard', said')
  BY <1>4, <1>5, CarriesStill DEF Ids
<1>7. k \in Coroutine /\ Carries(k, row', heard', said')
  BY <1>5, <1>6 DEF Coroutine, Carries
<1>8. task' = [task EXCEPT !["loop"] = k]
  BY <1>1, <1>2 DEF Holding
<1> HIDE DEF k
<1>9. Holding'
  BY <1>2, <1>4, <1>7, <1>8, OneMoves
<1> QED  BY <1>1, <1>2, <1>3, <1>9, AnnounceKeeps

-----------------------------------------------------------------------------
(* The invariant.                                                          *)

LEMMA Begins == Init => IInv
<1> SUFFICES ASSUME Init  PROVE IInv
  OBVIOUS
<1>1. Ids = {} /\ Ids = 1 .. 0 /\ 0 \in 0 .. MaxMessages
  BY BoundsAssumption DEF Init, Ids
<1>2. RowsTyped
  <2>1. /\ row \in [Ids -> New] /\ status \in [Ids -> Statuses]
        /\ age \in [Ids -> 0 .. ExpiryAge + 1] /\ repeats \in [Ids -> 0 .. MaxRepeats]
        /\ heard \in [Ids -> 0 .. MaxHeard] /\ log \in [Ids -> Nat]
    BY <1>1 DEF Init
  <2> QED  BY <1>1, <2>1 DEF Init, RowsTyped
<1>3. EnvTyped
  BY BoundsAssumption DEF Init, EnvTyped
<1>4. Holding
  BY IdleCarries DEF Init, Holding, Carrying
<1>5. (\A m \in Ids : Told(m)) /\ Written
  BY <1>1 DEF Init, Written
<1> QED  BY <1>2, <1>3, <1>4, <1>5, Together

LEMMA Preserved == IInv /\ [Next]_vars => IInv'
<1> SUFFICES ASSUME IInv, [Next]_vars  PROVE IInv'
  OBVIOUS
<1>1. ASSUME NEW k \in Kinds, AskUser(k)  PROVE IInv'
  BY <1>1, AskUserKeeps
<1>2. ASSUME NEW k \in Kinds, Speak(k) \/ RaiseWithUser(k)  PROVE IInv'
  BY <1>2, KindsAssumption, SpeakNowKeeps DEF Speak, RaiseWithUser
<1>3. ASSUME NEW t \in Tasks, Deliver(t) \/ Mirror(t)  PROVE IInv'
  BY <1>3, TakeNextKeeps, SendKeeps, SendFailsKeeps, MarkSpokenKeeps, MarkRefusedKeeps,
     ReadNoteKeeps, NotebookKeeps DEF Deliver, Mirror
<1>4. CASE \E p \in Approvals : RequestApproval(p) \/ Lapse(p)
  BY <1>4, ApprovalsKeep
<1>5. CASE LoopStep
  BY <1>5, LoopOnlyKeeps, ApprovalsKeep, RaiseUnannouncedKeeps, ListKeeps DEF LoopStep
<1>6. CASE OpenSession
  BY <1>6, ListKeeps
<1>7. CASE Alex \/ Tick
  BY <1>7, AlexKeeps
<1>8. CASE SceneChanges \/ Crash
  BY <1>8, SceneKeeps
<1>9. CASE UNCHANGED vars
  <2>1. UNCHANGED <<rowVars, noteVars, heard>> /\ EnvTyped' /\ Holding'
    BY <1>9, Standing DEF vars, rowVars, approvalVars, envVars, EnvTyped, Holding, Carrying
  <2> QED  BY <2>1, RowsStay
<1> QED  BY <1>1, <1>2, <1>3, <1>4, <1>5, <1>6, <1>7, <1>8, <1>9 DEF Next

\* In every state the rows, the rooms, the notebook and what each coroutine
\* still holds agree.
THEOREM ConversationInvariant == Spec => []IInv
<1> QED  BY Begins, Preserved, PTL DEF Spec

\* The state of the conversation is always of its type.
THEOREM TypeCorrect == Spec => []TypeOK
<1>1. IInv => TypeOK
  BY DEF IInv
<1> QED  BY <1>1, ConversationInvariant, PTL

\* No decision, sweep or answer credits Alex with replying to something he
\* never heard, however the coroutines that deliver it interleave.
THEOREM AnsweredOnlyWhatWasSaid == Spec => []AnsweredWasSaid
<1>1. IInv => AnsweredWasSaid
  BY DEF IInv, AnsweredWasSaid, Told
<1> QED  BY <1>1, ConversationInvariant, PTL

\* A row is marked said only when a room took it or a session was handed it,
\* it is recorded once, and the notebook holds nothing that was not said.
THEOREM TheRecordIsTrue == Spec => []RecordIsTrue
<1>1. ASSUME IInv  PROVE SaidWasHeard
  <2>1. \A m \in said : m \in Ids /\ Told(m)
    BY <1>1 DEF IInv, TypeOK
  <2> QED  BY <2>1 DEF SaidWasHeard, Told
<1>2. ASSUME IInv  PROVE RecordedOnce
  BY <1>2 DEF IInv, RecordedOnce, Told
<1>3. ASSUME IInv  PROVE NotebookWasSaid
  BY <1>3 DEF IInv, NotebookWasSaid, Written
<1>4. IInv => RecordIsTrue
  BY <1>1, <1>2, <1>3 DEF RecordIsTrue
<1> QED  BY <1>4, ConversationInvariant, PTL


-----------------------------------------------------------------------------
(* What Gary asks.                                                         *)

LEMMA NoMore ==
  ASSUME NEW S, IsFiniteSet(S), NEW T \in SUBSET S, NEW n \in Nat, Cardinality(S) <= n
  PROVE  Cardinality(T) <= n
<1>1. IsFiniteSet(T) /\ Cardinality(T) <= Cardinality(S)
  BY FS_Subset
<1>2. Cardinality(T) \in Nat /\ Cardinality(S) \in Nat
  BY <1>1, FS_CardinalityType
<1> QED  BY <1>1, <1>2

LEMMA AtMostOneMore ==
  ASSUME NEW S, IsFiniteSet(S), NEW x, NEW T \in SUBSET (S \union {x}),
         NEW n \in Nat, Cardinality(S) < n
  PROVE  Cardinality(T) <= n
<1>1. /\ IsFiniteSet(S \union {x})
      /\ Cardinality(S \union {x}) = IF x \in S THEN Cardinality(S) ELSE Cardinality(S) + 1
  BY FS_AddElement
<1>2. Cardinality(S) \in Nat
  BY FS_CardinalityType
<1>3. Cardinality(S \union {x}) <= n
  BY <1>1, <1>2
<1> QED  BY <1>1, <1>3, NoMore

\* No row is created, opened again or moved to today.
Quiet ==
  /\ row' = row /\ today' \subseteq today
  /\ \A m \in Ids : status'[m] \in OpenStatuses => status[m] \in OpenStatuses

\* A row more, and none opened again.
Grows(new) ==
  /\ Ids' = Ids \union {NextId} /\ NextId \notin Ids /\ row'[NextId] = new
  /\ today' = today \union {NextId}
  /\ \A m \in Ids : row'[m] = row[m]
  /\ \A m \in Ids : status'[m] \in OpenStatuses => status[m] \in OpenStatuses

Asked(new) ==
  /\ Grows(new) /\ new.by = "ask_user" /\ MayAsk(new)
  /\ \A m \in Ids : status'[m] = Swept(m)

Announced(new) == Grows(new) /\ new.by = "announce" /\ ~ Known(new.approval)

LEMMA Asks ==
  ASSUME IInv, NEW new \in Kinds, AskUser(new)
  PROVE  Asked(new)
<1> DEFINE st == [m \in Ids |-> Swept(m)]
           ag == [m \in Ids |-> SweptAge(m)]
<1>1. TypeOK /\ new \in New
  BY KindsAssumption DEF IInv
<1>2. /\ st \in [Ids -> Statuses] /\ ag \in [Ids -> 0 .. ExpiryAge + 1]
      /\ \A m \in Ids : st[m] = Swept(m) /\ (st[m] \in OpenStatuses => st[m] = status[m])
  BY <1>1, SweepTells
<1>3. Create(new, st, ag)
  BY DEF AskUser
<1> HIDE DEF st, ag
<1>4. /\ Ids' = Ids \union {NextId} /\ NextId \notin Ids /\ today' = today \union {NextId}
      /\ row'[NextId] = new
      /\ \A m \in Ids : row'[m] = row[m] /\ status'[m] = st[m]
  BY <1>1, <1>2, <1>3, Created
<1>5. \A m \in Ids : status'[m] \in OpenStatuses => status[m] \in OpenStatuses
  BY <1>2, <1>4
<1>6. Grows(new) /\ \A m \in Ids : status'[m] = Swept(m)
  BY <1>2, <1>4, <1>5 DEF Grows
<1> QED  BY <1>6 DEF Asked, AskUser

LEMMA AnnouncesOrNot ==
  ASSUME IInv, NEW new \in Kinds, Announce(new), new.by = "announce"
  PROVE  Quiet \/ Announced(new)
<1>1. CASE Known(new.approval)
  BY <1>1 DEF Announce, rowVars, Quiet
<1>2. CASE ~ Known(new.approval)
  <2>1. /\ status \in [Ids -> Statuses] /\ age \in [Ids -> 0 .. ExpiryAge + 1] /\ new \in New
    BY KindsAssumption DEF IInv, TypeOK
  <2>2. Create(new, status, age)
    BY <1>2 DEF Announce
  <2>3. /\ Ids' = Ids \union {NextId} /\ NextId \notin Ids /\ today' = today \union {NextId}
        /\ row'[NextId] = new
        /\ \A m \in Ids : row'[m] = row[m] /\ status'[m] = status[m]
    BY <2>1, <2>2, Created
  <2> QED  BY <1>2, <2>3 DEF Announced, Grows
<1> QED  BY <1>1, <1>2

LEMMA StepsAreQuiet ==
  ASSUME IInv,
         \/ \E t \in Tasks : Deliver(t) \/ Mirror(t)
         \/ \E p \in Approvals : RequestApproval(p) \/ Lapse(p)
         \/ StartPass \/ MirrorPassEnds \/ ListApprovals \/ ListPending
         \/ OpenSession \/ Alex \/ Tick \/ SceneChanges \/ Crash \/ UNCHANGED vars
  PROVE  Quiet
<1>1. CASE UNCHANGED rowVars
  BY <1>1 DEF Quiet, rowVars
<1>2. ASSUME NEW t \in Tasks, MarkSpoken(t)  PROVE Quiet
  <2>1. /\ row' = row /\ today' = today /\ status[task[t].msg] = "pending"
        /\ status' = [status EXCEPT ![task[t].msg] = "spoken"]
        /\ status \in [Ids -> Statuses]
    BY <1>2 DEF MarkSpoken, IInv, TypeOK
  <2> HIDE DEF Ids
  <2> QED  BY <2>1 DEF Quiet, OpenStatuses
<1>3. ASSUME NEW t \in Tasks, StampNote(t)  PROVE Quiet
  BY <1>3 DEF StampNote, Quiet
<1>4. CASE ListPending \/ OpenSession
  <2>1. /\ row' = row /\ today' = today /\ status' = [m \in Ids |-> Swept(m)] /\ TypeOK
    BY <1>4 DEF ListPending, OpenSession, Sweep, IInv
  <2>2. \A m \in Ids : status'[m] = Swept(m)
    BY <2>1
  <2> QED  BY <2>1, <2>2, SweepTells DEF Quiet
<1>5. ASSUME NEW m \in Ids, Answer(m) \/ Repeat(m)  PROVE Quiet
  <2>1. /\ row' = row /\ today' = today /\ status \in [Ids -> Statuses]
        /\ status' = status \/ status' = [status EXCEPT ![m] = "answered"]
    BY <1>5 DEF Answer, Repeat, IInv, TypeOK
  <2> HIDE DEF Ids
  <2> QED  BY <2>1 DEF Quiet, OpenStatuses
<1>6. ASSUME NEW p \in Approvals, Decide(p)  PROVE Quiet
  <2> DEFINE question == {m \in About(p) : m = ByApproval(p) /\ status[m] = "spoken"}
  <2>1. /\ row' = row /\ today' = today
        /\ status' = [m \in Ids |-> IF m \in question THEN "answered" ELSE status[m]]
    BY <1>6 DEF Decide
  <2> HIDE DEF Ids, question
  <2> QED  BY <2>1 DEF Quiet, OpenStatuses
<1>7. CASE Tick
  BY <1>7 DEF Tick, Quiet
<1>8. ASSUME NEW t \in Tasks, Deliver(t) \/ Mirror(t)  PROVE Quiet
  <2>1. UNCHANGED rowVars \/ MarkSpoken(t) \/ StampNote(t)
    BY <1>8 DEF Deliver, Mirror, TakeNext, Send, SendFails, MarkRefused, ReadNote, WriteNote,
               NoteFails
  <2> QED  BY <1>1, <1>2, <1>3, <2>1
<1>9. CASE \/ \E p \in Approvals : RequestApproval(p) \/ Lapse(p)
           \/ StartPass \/ MirrorPassEnds \/ ListApprovals
           \/ SceneChanges \/ Crash \/ UNCHANGED vars
  <2>1. UNCHANGED rowVars
    BY <1>9 DEF RequestApproval, Lapse, StartPass, MirrorPassEnds, ListApprovals,
               SceneChanges, Crash, vars
  <2> QED  BY <1>1, <2>1
<1> QED  BY <1>4, <1>5, <1>6, <1>7, <1>8, <1>9 DEF Alex

\* Every step is of one of the three kinds.
LEMMA KindsOfStep ==
  ASSUME IInv, [Next]_vars
  PROVE  Quiet \/ \E new \in Kinds : Asked(new) \/ Announced(new)
<1>1. ASSUME NEW k \in Kinds, AskUser(k)  PROVE Asked(k)
  BY <1>1, Asks
<1>2. ASSUME NEW k \in Kinds, Speak(k) \/ RaiseWithUser(k)  PROVE Quiet \/ Announced(k)
  BY <1>2, AnnouncesOrNot DEF Speak, RaiseWithUser, SpeakNow
<1>3. CASE RaiseUnannounced
  BY <1>3, AnnouncesOrNot DEF RaiseUnannounced
<1>4. CASE ~ \E k \in Kinds : AskUser(k) \/ Speak(k) \/ RaiseWithUser(k)
  BY <1>3, <1>4, StepsAreQuiet DEF Next, LoopStep
<1> QED  BY <1>1, <1>2, <1>4

Asking == AskingIsBounded /\ AnnouncedOnce

LEMMA BothAre == \A a, b, c : {a, b} = {c} <=> a = c /\ b = c
OBVIOUS

\* The two properties, pair by pair.
LEMMA AskedApart ==
  ASSUME Asking
  PROVE  /\ \A m, k \in Ids :
              m # k /\ IsOpen(m) /\ IsOpen(k) /\ row[m].by = "ask_user" /\ row[k].by = "ask_user"
                => row[m].topic # row[k].topic
         /\ \A m, k \in Ids :
              m # k /\ row[m].by = "announce" /\ row[k].by = "announce" /\ row[m].approval # None
                => row[m].approval # row[k].approval
<1>1. AskedOnceWhileOpen /\ AnnouncedOnce
  BY DEF Asking, AskingIsBounded
<1>2. ASSUME NEW m \in Ids, NEW k \in Ids, m # k, IsOpen(m), IsOpen(k),
             row[m].by = "ask_user", row[k].by = "ask_user"
      PROVE  row[m].topic # row[k].topic
  BY <1>1, <1>2 DEF AskedOnceWhileOpen
<1>3. ASSUME NEW m \in Ids, NEW k \in Ids, m # k,
             row[m].by = "announce", row[k].by = "announce", row[m].approval # None
      PROVE  row[m].approval # row[k].approval
  BY <1>1, <1>3 DEF AnnouncedOnce
<1> QED  BY <1>2, <1>3

LEMMA QuietKeeps ==
  ASSUME IInv, Asking, Quiet
  PROVE  Asking'
<1>1. /\ Ids' = Ids /\ row' = row /\ IsFiniteSet(Ids) /\ today \subseteq Ids
      /\ \A m \in Ids : IsOpen(m)' => IsOpen(m)
  BY IdsCounted DEF Quiet, Ids, IsOpen, IInv, TypeOK
<1>2. AskedOnceWhileOpen'
  BY <1>1 DEF Asking, AskingIsBounded, AskedOnceWhileOpen
<1>3. QuestionsBounded'
  <2> DEFINE S == {m \in Ids : IsOpen(m) /\ row[m].asks /\ row[m].by = "ask_user"}
  <2>1. IsFiniteSet(S) /\ S' \in SUBSET S /\ MaxOpen \in Nat
    BY <1>1, FS_Subset, BoundsAssumption
  <2>2. Cardinality(S) <= MaxOpen
    BY DEF Asking, AskingIsBounded, QuestionsBounded
  <2> HIDE DEF S
  <2>3. Cardinality(S') <= MaxOpen
    BY <2>1, <2>2, NoMore
  <2> QED  BY <2>3 DEF QuestionsBounded, S
<1>4. DailyBounded'
  <2> DEFINE S == {m \in today : row[m].unattended /\ row[m].by = "ask_user"}
  <2>1. IsFiniteSet(S) /\ S' \in SUBSET S /\ MaxDaily \in Nat
    BY <1>1, FS_Subset, BoundsAssumption DEF Quiet
  <2>2. Cardinality(S) <= MaxDaily
    BY DEF Asking, AskingIsBounded, DailyBounded
  <2> HIDE DEF S
  <2>3. Cardinality(S') <= MaxDaily
    BY <2>1, <2>2, NoMore
  <2> QED  BY <2>3 DEF DailyBounded, S
<1>5. AnnouncedOnce'
  BY <1>1 DEF Asking, AnnouncedOnce
<1> QED  BY <1>2, <1>3, <1>4, <1>5 DEF Asking, AskingIsBounded

LEMMA AskedKeeps ==
  ASSUME IInv, Asking, NEW new \in Kinds, Asked(new)
  PROVE  Asking'
<1>1. /\ Ids' = Ids \union {NextId} /\ NextId \notin Ids /\ row'[NextId] = new
      /\ today' = today \union {NextId} /\ new.by = "ask_user"
      /\ \A m \in Ids : row'[m] = row[m]
      /\ \A m \in Ids : IsOpen(m)' => IsOpen(m) /\ m \in OpenAfterSweep
      /\ IsFiniteSet(Ids) /\ today \subseteq Ids
  BY IdsCounted DEF Asked, Grows, IsOpen, OpenAfterSweep, IInv, TypeOK
<1>2. AskedOnceWhileOpen'
  <2>1. \A m \in Ids : IsOpen(m)' => row[m].topic # new.topic
    BY <1>1 DEF Asked, MayAsk, LooksLikeRepeat
  <2>2. ASSUME NEW m \in Ids', NEW k \in Ids', m # k, IsOpen(m)', IsOpen(k)',
               row'[m].by = "ask_user", row'[k].by = "ask_user"
        PROVE  row'[m].topic # row'[k].topic
    <3>1. m \in Ids \/ m = NextId
      BY <1>1
    <3>2. k \in Ids \/ k = NextId
      BY <1>1
    <3>3. CASE m \in Ids /\ k \in Ids
      BY <1>1, <2>2, <3>3, AskedApart
    <3>4. CASE m \in Ids /\ k = NextId
      BY <1>1, <2>1, <2>2, <3>4
    <3>5. CASE m = NextId /\ k \in Ids
      BY <1>1, <2>1, <2>2, <3>5
    <3> QED  BY <2>2, <3>1, <3>2, <3>3, <3>4, <3>5
  <2> QED  BY <2>2, BothAre DEF AskedOnceWhileOpen
<1>3. QuestionsBounded'
  <2> DEFINE S == {m \in Ids : IsOpen(m) /\ row[m].asks /\ row[m].by = "ask_user"}
             A == {m \in OpenAfterSweep : row[m].asks}
  <2>1. IsFiniteSet(S) /\ IsFiniteSet(A) /\ MaxOpen \in Nat
    BY <1>1, FS_Subset, BoundsAssumption DEF OpenAfterSweep
  <2>2. Cardinality(S) <= MaxOpen
    BY DEF Asking, AskingIsBounded, QuestionsBounded
  <2>3. CASE new.asks
    <3>1. Cardinality(A) < MaxOpen
      BY <2>3 DEF Asked, MayAsk
    <3>2. S' \in SUBSET (A \union {NextId})
      BY <1>1
    <3> HIDE DEF S, A
    <3> QED  BY <2>1, <3>1, <3>2, AtMostOneMore DEF QuestionsBounded, S
  <2>4. CASE ~ new.asks
    <3>1. S' \in SUBSET S
      BY <1>1, <2>4
    <3> HIDE DEF S
    <3> QED  BY <2>1, <2>2, <3>1, NoMore DEF QuestionsBounded, S
  <2> QED  BY <2>3, <2>4
<1>4. DailyBounded'
  <2> DEFINE S == {m \in today : row[m].unattended /\ row[m].by = "ask_user"}
             A == {m \in today : row[m].unattended}
  <2>1. IsFiniteSet(S) /\ IsFiniteSet(A) /\ MaxDaily \in Nat
    BY <1>1, FS_Subset, BoundsAssumption
  <2>2. Cardinality(S) <= MaxDaily
    BY DEF Asking, AskingIsBounded, DailyBounded
  <2>3. CASE new.unattended
    <3>1. Cardinality(A) < MaxDaily
      BY <2>3 DEF Asked, MayAsk
    <3>2. S' \in SUBSET (A \union {NextId})
      BY <1>1
    <3> HIDE DEF S, A
    <3> QED  BY <2>1, <3>1, <3>2, AtMostOneMore DEF DailyBounded, S
  <2>4. CASE ~ new.unattended
    <3>1. S' \in SUBSET S
      BY <1>1, <2>4
    <3> HIDE DEF S
    <3> QED  BY <2>1, <2>2, <3>1, NoMore DEF DailyBounded, S
  <2> QED  BY <2>3, <2>4
<1>5. AnnouncedOnce'
  <2>1. ASSUME NEW m \in Ids', NEW k \in Ids', m # k, row'[m].approval # None,
               row'[m].by = "announce", row'[k].by = "announce"
        PROVE  row'[m].approval # row'[k].approval
    <3>1. m \in Ids /\ k \in Ids
      BY <1>1, <2>1
    <3> QED  BY <1>1, <2>1, <3>1, AskedApart
  <2> QED  BY <2>1, BothAre DEF AnnouncedOnce
<1> QED  BY <1>2, <1>3, <1>4, <1>5 DEF Asking, AskingIsBounded

LEMMA AnnouncedKeeps ==
  ASSUME IInv, Asking, NEW new \in Kinds, Announced(new)
  PROVE  Asking'
<1>1. /\ Ids' = Ids \union {NextId} /\ NextId \notin Ids /\ row'[NextId] = new
      /\ today' = today \union {NextId} /\ new.by = "announce"
      /\ \A m \in Ids : row'[m] = row[m]
      /\ \A m \in Ids : IsOpen(m)' => IsOpen(m)
      /\ IsFiniteSet(Ids) /\ today \subseteq Ids
  BY IdsCounted DEF Announced, Grows, IsOpen, IInv, TypeOK
<1>2. AskedOnceWhileOpen'
  <2>1. ASSUME NEW m \in Ids', NEW k \in Ids', m # k, IsOpen(m)', IsOpen(k)',
               row'[m].by = "ask_user", row'[k].by = "ask_user"
        PROVE  row'[m].topic # row'[k].topic
    <3>1. m \in Ids /\ k \in Ids
      BY <1>1, <2>1
    <3> QED  BY <1>1, <2>1, <3>1, AskedApart
  <2> QED  BY <2>1, BothAre DEF AskedOnceWhileOpen
<1>3. QuestionsBounded'
  <2> DEFINE S == {m \in Ids : IsOpen(m) /\ row[m].asks /\ row[m].by = "ask_user"}
  <2>1. IsFiniteSet(S) /\ S' \in SUBSET S /\ MaxOpen \in Nat
    BY <1>1, FS_Subset, BoundsAssumption
  <2>2. Cardinality(S) <= MaxOpen
    BY DEF Asking, AskingIsBounded, QuestionsBounded
  <2> HIDE DEF S
  <2> QED  BY <2>1, <2>2, NoMore DEF QuestionsBounded, S
<1>4. DailyBounded'
  <2> DEFINE S == {m \in today : row[m].unattended /\ row[m].by = "ask_user"}
  <2>1. IsFiniteSet(S) /\ S' \in SUBSET S /\ MaxDaily \in Nat
    BY <1>1, FS_Subset, BoundsAssumption
  <2>2. Cardinality(S) <= MaxDaily
    BY DEF Asking, AskingIsBounded, DailyBounded
  <2> HIDE DEF S
  <2> QED  BY <2>1, <2>2, NoMore DEF DailyBounded, S
<1>5. AnnouncedOnce'
  <2>1. new.approval = None \/ \A m \in Ids : row[m].approval # new.approval
    BY DEF Announced, Known, About
  <2>2. ASSUME NEW m \in Ids', NEW k \in Ids', m # k, row'[m].approval # None,
               row'[m].by = "announce", row'[k].by = "announce"
        PROVE  row'[m].approval # row'[k].approval
    <3>1. m \in Ids \/ m = NextId
      BY <1>1
    <3>2. k \in Ids \/ k = NextId
      BY <1>1
    <3>3. CASE m \in Ids /\ k \in Ids
      BY <1>1, <2>2, <3>3, AskedApart
    <3>4. CASE m \in Ids /\ k = NextId
      BY <1>1, <2>1, <2>2, <3>4
    <3>5. CASE m = NextId /\ k \in Ids
      BY <1>1, <2>1, <2>2, <3>5
    <3> QED  BY <2>2, <3>1, <3>2, <3>3, <3>4, <3>5
  <2> QED  BY <2>2, BothAre DEF AnnouncedOnce
<1> QED  BY <1>2, <1>3, <1>4, <1>5 DEF Asking, AskingIsBounded

LEMMA NothingAsked == Init => Asking
<1> SUFFICES ASSUME Init  PROVE Asking
  OBVIOUS
<1>1. Ids = {} /\ today = {} /\ Cardinality({}) = 0 /\ MaxOpen \in Nat /\ MaxDaily \in Nat
  BY FS_EmptySet, BoundsAssumption DEF Init, Ids
<1>2. /\ {m \in Ids : IsOpen(m) /\ row[m].asks /\ row[m].by = "ask_user"} = {}
      /\ {m \in today : row[m].unattended /\ row[m].by = "ask_user"} = {}
  BY <1>1
<1>3. QuestionsBounded /\ DailyBounded
  BY <1>1, <1>2 DEF QuestionsBounded, DailyBounded
<1> QED  BY <1>1, <1>3 DEF Asking, AskingIsBounded, AskedOnceWhileOpen, AnnouncedOnce

LEMMA AskingKept == IInv /\ Asking /\ [Next]_vars => Asking'
BY KindsOfStep, QuietKeeps, AskedKeeps, AnnouncedKeeps

\* Gary never asks a question twice while one is open, never has more open than
\* MAX_OPEN_QUESTIONS and never raises more in a day than MAX_DAILY_UNATTENDED.
THEOREM AskingStaysBounded == Spec => []AskingIsBounded
<1>1. Asking => AskingIsBounded
  BY DEF Asking
<1> QED  BY <1>1, NothingAsked, AskingKept, ConversationInvariant, PTL DEF Spec

\* However an approval is raised, by its own callback or by the loop that
\* catches up, there is one announcement of it.
THEOREM RaisedOnce == Spec => []AnnouncedOnce
<1>1. Asking => AnnouncedOnce
  BY DEF Asking
<1> QED  BY <1>1, NothingAsked, AskingKept, ConversationInvariant, PTL DEF Spec

=============================================================================
