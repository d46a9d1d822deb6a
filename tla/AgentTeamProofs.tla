--------------------------- MODULE AgentTeamProofs ---------------------------
(***************************************************************************)
(* Proofs about the team, for any processes, limits, rosters and bounds.   *)
(*                                                                         *)
(* What makes the compare and set of the row enough is an invariant about  *)
(* the coroutines: one that has claimed a row (it stands at execute,       *)
(* finish or fail) is the only one that has, and the row is running, or    *)
(* was failed by a recovery behind its back.                               *)
(***************************************************************************)
EXTENDS AgentTeam, FiniteSetTheorems, TLAPS

Claimed == {"execute", "finish", "fail"}

RowFits(i) ==
  /\ status[i] \in {None, "queued"} => run[i] = None /\ starts[i] = 0
  /\ status[i] = "running" => run[i] = "running" /\ starts[i] = 1
  /\ status[i] = "completed" => run[i] = "succeeded" /\ starts[i] = 1
  /\ status[i] = "failed" => run[i] \in RunEnded /\ starts[i] = 1

ClaimHolds(p, i) ==
  /\ task[p][i].at \in Claimed =>
       /\ status[i] \in {"running", "failed"}
       /\ \A q \in Processes : task[q][i].at \in Claimed => q = p
  /\ task[p][i].at = "fail" => task[p][i].why \in RunEnded

Rows ==
  /\ \A i \in Ids : RowFits(i)
  /\ \A p \in Processes, i \in Ids : ClaimHolds(p, i)

\* A row's review exists, and so does the row that gave the review its id.
ReviewsExist ==
  /\ \A i \in Ids : given[i].review # NoReview => verdict[given[i].review] # None
  /\ \A r \in Reviews : verdict[r] # None => status[r] # None

Reviewed == ReviewsExist /\ ReviewTells /\ FollowUpsBounded

IInv == TypeOK /\ Rows /\ Reviewed /\ CapacityKept

-----------------------------------------------------------------------------
(* Types.                                                                  *)

LEMMA IdsFinite == IsFiniteSet(Ids)
<1>1. 1 \in Int /\ MaxAssignments \in Int
  BY LimitsAssumption
<1>2. IsFiniteSet(1 .. MaxAssignments)
  BY <1>1, FS_Interval
<1> QED
  BY <1>2 DEF Ids

LEMMA VerdictType ==
  ASSUME NEW members, NEW s
  PROVE  Verdict(members, s) \in {"running", "completed", "partial", "failed"}
BY DEF Verdict

LEMMA RefreshedType ==
  ASSUME TypeOK, NEW ended, NEW s
  PROVE  Refreshed(ended, s) \in
           [Reviews -> {None, "running", "completed", "partial", "failed"}]
BY VerdictType DEF Refreshed, TypeOK

LEMMA PlacedType ==
  ASSUME TypeOK, NEW p \in Processes, NEW ids, NEW step \in Steps
  PROVE  Placed(p, ids, step) \in
           [Processes -> [Ids -> Coroutine]]
<1>1. OutputRetries + 1 \in Nat
  BY LimitsAssumption
<1>2. [Gone EXCEPT !.at = step] \in Coroutine
  BY <1>1 DEF Gone, Coroutine
<1> QED
  BY <1>2 DEF Placed, TypeOK

LEMMA StepNames == {"none", "new", "gate"} \subseteq Steps
BY DEF Steps

LEMMA CallType ==
  ASSUME NEW i \in Ids
  PROVE  Call(i) \subseteq Ids
BY DEF Call, FirstRound, Created

LEMMA UnlinkedType ==
  ASSUME TypeOK, NEW ids
  PROVE  Unlinked(ids) \in [Ids -> Links]
BY DEF TypeOK, Unlinked, Links

\* The rows that a delegation creates are typed, and no others change.
LEMMA CreateType ==
  ASSUME TypeOK,
         NEW new \in SUBSET (Ids \ Created), NEW to \in [new -> Agents],
         NEW review \in Reviews \union {NoReview}, NEW round \in {1, 2},
         NEW search \in BOOLEAN, Create(new, to, review, round, search)
  PROVE  /\ given' \in [Ids -> Assignment \union {Nothing}]
         /\ status' \in [Ids -> Active \union Ended \union {None}]
         /\ \A i \in Ids : (given'[i] = Nothing) <=> (status'[i] = None)
<1> DEFINE row(i) == [to |-> to[i], review |-> review, round |-> round,
                      search |-> search]
<1>1. \A i \in new : row(i) \in Assignment
  BY DEF Assignment
<1>2. \A i \in new : row(i) # Nothing
  <2> SUFFICES ASSUME NEW i \in new PROVE row(i) # Nothing
    OBVIOUS
  <2>1. row(i).to \in Agents /\ Nothing.to = None
    BY DEF Nothing
  <2> QED
    BY <2>1, AgentsAssumption
<1>3. given' \in [Ids -> Assignment \union {Nothing}]
  BY <1>1 DEF Create, TypeOK
<1>4. status' \in [Ids -> Active \union Ended \union {None}]
  BY DEF Create, TypeOK, Active
<1>5. \A i \in Ids : (given'[i] = Nothing) <=> (status'[i] = None)
  BY <1>2 DEF Create, TypeOK, None
<1> QED
  BY <1>3, <1>4, <1>5

\* A step of a coroutine keeps the coroutines typed.
LEMMA PutType ==
  ASSUME TypeOK, NEW p \in Processes, NEW i \in Ids, NEW c \in Coroutine,
         Put(p, i, c)
  PROVE  task' \in [Processes -> [Ids -> Coroutine]]
BY DEF TypeOK, Put

LEMMA GotoType ==
  ASSUME TypeOK, NEW p \in Processes, NEW i \in Ids
  PROVE  /\ \A step \in Steps : Goto(p, i, step) => task' \in [Processes -> [Ids -> Coroutine]]
         /\ \A why \in RunEnded : GoFail(p, i, why) => task' \in [Processes -> [Ids -> Coroutine]]
         /\ Leave(p, i) => task' \in [Processes -> [Ids -> Coroutine]]
<1>1. task[p][i] \in Coroutine
  BY DEF TypeOK
<1>2. \A step \in Steps : [task[p][i] EXCEPT !.at = step] \in Coroutine
  BY <1>1 DEF Coroutine
<1>3. \A why \in RunEnded : [task[p][i] EXCEPT !.at = "fail", !.why = why] \in Coroutine
  BY <1>1 DEF Coroutine, Steps
<1>4. Gone \in Coroutine
  BY LimitsAssumption DEF Gone, Coroutine, Steps
<1> QED
  BY <1>2, <1>3, <1>4, PutType DEF Goto, GoFail, Leave

LEMMA TypeStep ==
  ASSUME TypeOK, [Next]_vars
  PROVE  TypeOK'
<1> USE LimitsAssumption
<1>1. CASE UNCHANGED vars
  BY <1>1 DEF TypeOK, vars, rowVars, envVars
<1>2. ASSUME NEW p \in Processes, NEW a \in Agents, NEW search \in BOOLEAN,
             Delegate(p, a, search)
      PROVE  TypeOK'
  <2>1. PICK i \in Fresh(1) : /\ Create({i}, [j \in {i} |-> a], NoReview, 1, search)
                              /\ task' = Placed(p, {i}, "new")
    BY <1>2 DEF Delegate
  <2>2. {i} \in SUBSET (Ids \ Created)
    BY DEF Fresh
  <2>3. /\ given' \in [Ids -> Assignment \union {Nothing}]
        /\ status' \in [Ids -> Active \union Ended \union {None}]
        /\ \A k \in Ids : (given'[k] = Nothing) <=> (status'[k] = None)
    BY <2>1, <2>2, CreateType
  <2> QED
    BY <1>2, <2>1, <2>3, PlacedType, StepNames DEF Delegate, TypeOK, envVars
<1>3. ASSUME NEW r \in Reviews, NEW a \in Agents, FollowUp(r, a)
      PROVE  TypeOK'
  <2>1. PICK i \in Fresh(1) : /\ Create({i}, [j \in {i} |-> a], r, 2, FALSE)
                              /\ task' = Placed(Server, {i}, "new")
    BY <1>3 DEF FollowUp
  <2>2. {i} \in SUBSET (Ids \ Created)
    BY DEF Fresh
  <2>3. /\ given' \in [Ids -> Assignment \union {Nothing}]
        /\ status' \in [Ids -> Active \union Ended \union {None}]
        /\ \A k \in Ids : (given'[k] = Nothing) <=> (status'[k] = None)
    BY <2>1, <2>2, CreateType
  <2>4. followUps' \in [Reviews -> 0 .. MaxFollowUps]
    BY <1>3 DEF FollowUp, MayFollowUp, TypeOK
  <2> QED
    BY <1>3, <2>1, <2>3, <2>4, PlacedType, StepNames DEF FollowUp, TypeOK, envVars
<1>4. ASSUME NEW p \in Processes, NEW asked \in SUBSET Agents, StartReview(p, asked)
      PROVE  TypeOK'
  <2> DEFINE new == Fresh(Cardinality(asked))
  <2>1. PICK r \in new, to \in [new -> asked] :
          /\ Create(new, to, r, 1, FALSE)
          /\ verdict' = [verdict EXCEPT ![r] = "running"]
    BY <1>4 DEF StartReview
  <2>2. new \in SUBSET (Ids \ Created) /\ r \in Reviews
    BY DEF Fresh, Reviews
  <2>3. to \in [new -> Agents]
    BY <2>1
  <2>4. /\ given' \in [Ids -> Assignment \union {Nothing}]
        /\ status' \in [Ids -> Active \union Ended \union {None}]
        /\ \A k \in Ids : (given'[k] = Nothing) <=> (status'[k] = None)
    BY <2>1, <2>2, <2>3, CreateType
  <2>5. verdict' \in [Reviews -> {None, "running", "completed", "partial", "failed"}]
    BY <2>1, <2>2 DEF TypeOK
  <2>6. task' \in [Processes -> [Ids -> Coroutine]]
    BY <1>4, PlacedType, StepNames DEF StartReview
  <2> QED
    BY <1>4, <2>4, <2>5, <2>6 DEF StartReview, TypeOK, envVars
<1>5. ASSUME NEW p \in Processes, NEW i \in Ids, Step(p, i)
      PROVE  TypeOK'
  <2> USE DEF rowVars, envVars
  <2>0. /\ {"none", "new", "gate", "wait", "claim", "execute", "finish", "fail", "tell"} = Steps
        /\ {"failed", "timed_out", "invalid_output"} = RunEnded
    BY DEF Steps, RunEnded
  <2>1. CASE PassGate(p, i)
    BY <2>0, <2>1, GotoType DEF PassGate, TypeOK
  <2>2. CASE AcquireSlot(p, i)
    BY <2>0, <2>2, GotoType DEF AcquireSlot, TypeOK
  <2>3. CASE Claim(p, i)
    <3>1. [Gone EXCEPT !.at = "execute", !.attempt = 1] \in Coroutine
      <4>1. OutputRetries \in Nat
        OBVIOUS
      <4>2. Gone \in Coroutine
        BY <4>1 DEF Gone, Coroutine, Steps
      <4>3. 1 \in 0 .. OutputRetries + 1 /\ "execute" \in Steps
        BY <4>1 DEF Steps
      <4> QED
        BY <4>2, <4>3 DEF Coroutine
    <3>2. task' \in [Processes -> [Ids -> Coroutine]]
      BY <2>3, <3>1, PutType DEF Claim
    <3> QED
      BY <2>3, <3>2 DEF Claim, Claimable, TypeOK, Active, None
  <2>4. CASE ClaimRefused(p, i)
    BY <2>0, <2>4, GotoType DEF ClaimRefused, TypeOK
  <2>5. CASE ExecutorRaises(p, i)
    BY <2>0, <2>5, GotoType DEF ExecutorRaises, TypeOK
  <2>6. CASE TimesOut(p, i)
    BY <2>0, <2>6, GotoType DEF TimesOut, TypeOK
  <2>7. CASE ReportIsValid(p, i)
    BY <2>0, <2>7, GotoType DEF ReportIsValid, TypeOK
  <2>8. CASE ReportIsRejected(p, i)
    <3>1. CASE task[p][i].attempt > OutputRetries
      BY <2>0, <2>8, <3>1, GotoType DEF ReportIsRejected, TypeOK
    <3>2. CASE ~(task[p][i].attempt > OutputRetries)
      <4>1. task[p][i] \in Coroutine
        BY DEF TypeOK
      <4>2. [task[p][i] EXCEPT !.attempt = task[p][i].attempt + 1] \in Coroutine
        BY <3>2, <4>1 DEF Coroutine
      <4>3. task' \in [Processes -> [Ids -> Coroutine]]
        BY <2>8, <3>2, <4>2, PutType DEF ReportIsRejected
      <4> QED
        BY <2>8, <4>3 DEF ReportIsRejected, TypeOK
    <3> QED
      BY <3>1, <3>2
  <2>9. CASE Finish(p, i)
    <3>1. task' \in [Processes -> [Ids -> Coroutine]]
      BY <2>0, <2>9, GotoType DEF Finish
    <3>2. verdict' \in [Reviews -> {None, "running", "completed", "partial", "failed"}]
      BY <2>9, RefreshedType DEF Finish
    <3> QED
      BY <2>9, <3>1, <3>2 DEF Finish, TypeOK, Ended, None
  <2>10. CASE FinishRefused(p, i)
    BY <2>0, <2>10, GotoType DEF FinishRefused, TypeOK
  <2>11. CASE Fail(p, i)
    <3>1. task' \in [Processes -> [Ids -> Coroutine]]
      BY <2>0, <2>11, GotoType DEF Fail
    <3>2. verdict' \in [Reviews -> {None, "running", "completed", "partial", "failed"}]
      BY <2>11, RefreshedType DEF Fail
    <3>3. task[p][i].why \in RunEnded \union {None}
      BY DEF TypeOK, Coroutine
    <3> QED
      BY <2>11, <3>1, <3>2, <3>3 DEF Fail, TypeOK, Ended, None
  <2>12. CASE Tell(p, i)
    <3>1. told' \in [Reviews -> 0 .. MaxTold]
      BY <2>12 DEF Tell, TypeOK
    <3> QED
      BY <2>12, <3>1, GotoType DEF Tell, TypeOK
  <2>13. CASE Begin(p, i)
    BY <2>13, PlacedType, StepNames DEF Begin, TypeOK
  <2> QED
    BY <1>5, <2>1, <2>2, <2>3, <2>4, <2>5, <2>6, <2>7, <2>8, <2>9, <2>10, <2>11, <2>12,
       <2>13
    DEF Step
<1>6. ASSUME NEW i \in Ids, RestartQueued(i)
      PROVE  TypeOK'
  BY <1>6, PlacedType, StepNames DEF RestartQueued, TypeOK, rowVars, envVars
<1>7. ASSUME NEW p \in Processes, Exit(p)
      PROVE  TypeOK'
  <2>1. task' \in [Processes -> [Ids -> Coroutine]]
    BY <1>7, PlacedType, StepNames DEF Exit
  <2>2. link' \in [Ids -> Links]
    BY <1>7, UnlinkedType DEF Exit, TypeOK
  <2> QED
    BY <1>7, <2>1, <2>2 DEF Exit, TypeOK, rowVars
<1>11. ASSUME NEW p \in Processes, NEW i \in Ids, CallerCancelled(p, i)
      PROVE  TypeOK'
  <2>1. task' \in [Processes -> [Ids -> Coroutine]]
    BY <1>11, PlacedType, StepNames DEF CallerCancelled
  <2>2. link' \in [Ids -> Links] /\ cut' \subseteq Ids
    BY <1>11, UnlinkedType, CallType DEF CallerCancelled, TypeOK
  <2> QED
    BY <1>11, <2>1, <2>2 DEF CallerCancelled, TypeOK, rowVars
<1>12. ASSUME NEW i \in Ids, Attach(i) \/ LetGo(i)
      PROVE  TypeOK'
  <2>1. link' \in [Ids -> Links]
    BY <1>12 DEF Attach, LetGo, TypeOK, Links
  <2> QED
    BY <1>12, <2>1 DEF Attach, LetGo, TypeOK, rowVars
<1>8. ASSUME NEW p \in Processes, OpenCommandLine(p)
      PROVE  TypeOK'
  BY <1>8 DEF OpenCommandLine, TypeOK, rowVars
<1>9. CASE Recover
  <2>1. task' \in [Processes -> [Ids -> Coroutine]]
    BY <1>9, PlacedType, StepNames, ProcessesAssumption DEF Recover, StartServer
  <2>2. verdict' \in [Reviews -> {None, "running", "completed", "partial", "failed"}]
    BY <1>9, RefreshedType DEF Recover
  <2>3. /\ status' \in [Ids -> Active \union Ended \union {None}]
        /\ run' \in [Ids -> {None, "running", "succeeded"} \union RunEnded]
        /\ \A k \in Ids : (given'[k] = Nothing) <=> (status'[k] = None)
    BY <1>9 DEF Recover, Interrupt, StartServer, TypeOK, Active, Ended, RunEnded, None
  <2>4. up' \subseteq Processes /\ roster' \in [Processes -> Rosters]
    BY <1>9, ProcessesAssumption DEF Recover, StartServer, TypeOK
  <2> QED
    BY <1>9, <2>1, <2>2, <2>3, <2>4 DEF Recover, StartServer, TypeOK
<1>10. CASE CeilingChanges
  BY <1>10 DEF CeilingChanges, TypeOK, rowVars
<1> QED
  BY <1>1, <1>2, <1>3, <1>4, <1>5, <1>6, <1>7, <1>8, <1>9, <1>10, <1>11, <1>12,
     SearchesAssumption
  DEF Next


-----------------------------------------------------------------------------
(* Rows and coroutines.                                                    *)

LEMMA PutEffect ==
  ASSUME TypeOK, NEW p \in Processes, NEW i \in Ids, NEW c, Put(p, i, c)
  PROVE  \A q \in Processes, j \in Ids :
           task'[q][j] = IF q = p /\ j = i THEN c ELSE task[q][j]
BY DEF TypeOK, Put

LEMMA PlacedEffect ==
  ASSUME TypeOK, NEW p \in Processes, NEW ids, NEW step, step \notin Claimed,
         task' = Placed(p, ids, step)
  PROVE  \A q \in Processes, j \in Ids :
           task'[q][j] = task[q][j] \/ task'[q][j].at \notin Claimed
<1>1. [Gone EXCEPT !.at = step].at \notin Claimed
  BY DEF Gone
<1> QED
  BY <1>1 DEF TypeOK, Placed

LEMMA BeforeClaim == {"none", "new", "gate"} \intersect Claimed = {}
BY DEF Claimed

\* A step in which no coroutine claims a row, or fails one it claimed.
LEMMA NothingClaimed ==
  ASSUME Rows,
         \A j \in Ids : RowFits(j)',
         \A j \in Ids : status[j] \in {"running", "failed"} =>
                          status'[j] \in {"running", "failed"},
         \A q \in Processes, j \in Ids :
           task'[q][j] = task[q][j] \/ task'[q][j].at \notin Claimed
  PROVE  Rows'
<1>1. \A q \in Processes, j \in Ids : ClaimHolds(q, j)'
  <2> SUFFICES ASSUME NEW q \in Processes, NEW j \in Ids, task'[q][j].at \in Claimed
               PROVE  ClaimHolds(q, j)'
    BY DEF ClaimHolds, Claimed
  <2>1. task'[q][j] = task[q][j]
    OBVIOUS
  <2>2. ClaimHolds(q, j)
    BY DEF Rows
  <2>3. status'[j] \in {"running", "failed"}
    BY <2>1, <2>2 DEF ClaimHolds
  <2>4. ASSUME NEW q2 \in Processes, task'[q2][j].at \in Claimed PROVE q2 = q
    BY <2>1, <2>2, <2>4 DEF ClaimHolds
  <2> QED
    BY <2>1, <2>2, <2>3, <2>4 DEF ClaimHolds
<1> QED
  BY <1>1 DEF Rows

\* A step of a coroutine that has claimed its row to another step of the run.
LEMMA StillClaimed ==
  ASSUME TypeOK, Rows, UNCHANGED <<status, run, starts>>,
         NEW p \in Processes, NEW i \in Ids, NEW c, Put(p, i, c),
         task[p][i].at \in Claimed, c.at = "fail" => c.why \in RunEnded
  PROVE  Rows'
<1>1. \A q \in Processes, j \in Ids :
        task'[q][j] = IF q = p /\ j = i THEN c ELSE task[q][j]
  BY PutEffect
<1>2. \A j \in Ids : RowFits(j)'
  BY DEF Rows, RowFits
<1>3. ASSUME NEW q \in Processes, NEW j \in Ids
      PROVE  ClaimHolds(q, j)'
  <2>1. ClaimHolds(q, j) /\ ClaimHolds(p, i)
    BY DEF Rows
  <2>2. CASE q = p /\ j = i
    <3>1. task'[q][j] = c /\ status'[j] \in {"running", "failed"}
      BY <1>1, <2>1, <2>2 DEF ClaimHolds
    <3>2. \A q2 \in Processes : task'[q2][j].at \in Claimed => q2 = q
      BY <1>1, <2>1, <2>2 DEF ClaimHolds
    <3> QED
      BY <3>1, <3>2 DEF ClaimHolds
  <2>3. CASE ~(q = p /\ j = i)
    <3>1. task'[q][j] = task[q][j]
      BY <1>1, <2>3
    <3>2. \A q2 \in Processes :
            task[q][j].at \in Claimed /\ task'[q2][j].at \in Claimed => q2 = q
      BY <1>1, <2>1, <2>3 DEF ClaimHolds
    <3> QED
      BY <2>1, <3>1, <3>2 DEF ClaimHolds
  <2> QED
    BY <2>2, <2>3
<1> QED
  BY <1>2, <1>3 DEF Rows

LEMMA CreateRows ==
  ASSUME TypeOK, Rows,
         NEW new \in SUBSET (Ids \ Created), NEW to, NEW review, NEW round, NEW search,
         Create(new, to, review, round, search),
         NEW p \in Processes, task' = Placed(p, new, "new"), UNCHANGED <<run, starts>>
  PROVE  Rows'
<1>1. \A j \in Ids : status'[j] = IF j \in new THEN "queued" ELSE status[j]
  BY DEF Create
<1>2. \A j \in new : status[j] = None
  BY DEF Created
<1>3. \A j \in Ids : RowFits(j)'
  BY <1>1, <1>2 DEF Rows, RowFits
<1>4. \A j \in Ids : status[j] \in {"running", "failed"} =>
                       status'[j] \in {"running", "failed"}
  BY <1>1, <1>2 DEF None
<1> QED
  BY <1>3, <1>4, PlacedEffect, BeforeClaim, NothingClaimed

LEMMA RunRows ==
  ASSUME TypeOK, Rows, NEW p \in Processes, NEW i \in Ids, Step(p, i)
  PROVE  Rows'
<1> USE DEF rowVars
<1>0. RowFits(i) /\ ClaimHolds(p, i) /\ Gone.at \notin Claimed
      /\ \A j \in Ids : RowFits(j)
  BY DEF Rows, Gone, Claimed
<1>a. ASSUME UNCHANGED <<status, run, starts>>,
             \/ \E step \in {"wait", "claim"} : Goto(p, i, step)
             \/ Leave(p, i)
      PROVE  Rows'
  <2>1. PICK c : Put(p, i, c) /\ c.at \notin Claimed
    <3>1. task[p][i] \in Coroutine
      BY DEF TypeOK
    <3>2. \A step \in {"wait", "claim"} : [task[p][i] EXCEPT !.at = step].at \notin Claimed
      BY <3>1 DEF Coroutine, Claimed
    <3> QED
      BY <1>0, <1>a, <3>2 DEF Goto, Leave
  <2>2. \A q \in Processes, j \in Ids :
          task'[q][j] = task[q][j] \/ task'[q][j].at \notin Claimed
    BY <2>1, PutEffect
  <2>3. \A j \in Ids : RowFits(j)'
    BY <1>0, <1>a DEF RowFits
  <2> QED
    BY <1>a, <2>2, <2>3, NothingClaimed
<1>1. CASE PassGate(p, i)
  BY <1>1, <1>a DEF PassGate
<1>2. CASE AcquireSlot(p, i)
  BY <1>2, <1>a DEF AcquireSlot
<1>3. CASE Claim(p, i)
  <2> DEFINE c == [Gone EXCEPT !.at = "execute", !.attempt = 1]
  <2>1. \A q \in Processes, j \in Ids :
          task'[q][j] = IF q = p /\ j = i THEN c ELSE task[q][j]
    BY <1>3, PutEffect DEF Claim
  <2>2. c.at = "execute"
    BY DEF Gone
  <2>3. /\ status[i] = "queued" /\ run[i] = None /\ starts[i] = 0
        /\ status' = [status EXCEPT ![i] = "running"]
        /\ run' = [run EXCEPT ![i] = "running"]
        /\ starts' = [starts EXCEPT ![i] = @ + 1]
    BY <1>0, <1>3 DEF Claim, Claimable, RowFits
  <2>4. status'[i] = "running" /\ run'[i] = "running" /\ starts'[i] = 1
    BY <2>3 DEF TypeOK
  <2>5. \A j \in Ids \ {i} : status'[j] = status[j] /\ run'[j] = run[j] /\ starts'[j] = starts[j]
    BY <2>3 DEF TypeOK
  <2>6. ASSUME NEW j \in Ids PROVE RowFits(j)'
    BY <1>0, <2>4, <2>5 DEF RowFits, None
  <2>7. ASSUME NEW q \in Processes, NEW j \in Ids PROVE ClaimHolds(q, j)'
    <3>0. ClaimHolds(q, j)
      BY DEF Rows
    <3>1. CASE j = i
      <4>1. \A q2 \in Processes : task[q2][i].at \notin Claimed
        BY <2>3 DEF Rows, ClaimHolds
      <4>2. \A q2 \in Processes : task'[q2][i].at \in Claimed => q2 = p
        BY <2>1, <4>1
      <4>3. task'[q][i].at # "fail"
        BY <2>1, <2>2, <4>1 DEF Claimed
      <4> QED
        BY <2>4, <3>1, <4>2, <4>3 DEF ClaimHolds
    <3>2. CASE j # i
      <4>1. \A q2 \in Processes : task'[q2][j] = task[q2][j]
        BY <2>1, <3>2
      <4> QED
        BY <2>5, <3>0, <3>2, <4>1 DEF ClaimHolds
    <3> QED
      BY <3>1, <3>2
  <2> QED
    BY <2>6, <2>7 DEF Rows
<1>4. CASE ClaimRefused(p, i)
  BY <1>4, <1>a DEF ClaimRefused
<1>b. \A why \in RunEnded :
        LET c == [task[p][i] EXCEPT !.at = "fail", !.why = why] IN c.why \in RunEnded
  BY DEF TypeOK, Coroutine
<1>5. CASE ExecutorRaises(p, i)
  BY <1>5, <1>b, StillClaimed DEF ExecutorRaises, At, GoFail, RunEnded, Claimed
<1>6. CASE TimesOut(p, i)
  BY <1>6, <1>b, StillClaimed DEF TimesOut, At, GoFail, RunEnded, Claimed
<1>c. ASSUME At(p, i, "execute"), NEW c, c.at # "fail", Put(p, i, c),
             UNCHANGED <<status, run, starts>>
      PROVE  Rows'
  BY <1>c, StillClaimed DEF At, Claimed
<1>7. CASE ReportIsValid(p, i)
  <2>1. [task[p][i] EXCEPT !.at = "finish"].at # "fail"
    BY DEF TypeOK, Coroutine
  <2> QED
    BY <1>7, <1>c, <2>1 DEF ReportIsValid, Goto
<1>8. CASE ReportIsRejected(p, i)
  <2>1. CASE task[p][i].attempt > OutputRetries
    BY <1>8, <1>b, <2>1, StillClaimed DEF ReportIsRejected, At, GoFail, RunEnded, Claimed
  <2>2. CASE ~(task[p][i].attempt > OutputRetries)
    <3> DEFINE c == [task[p][i] EXCEPT !.attempt = task[p][i].attempt + 1]
    <3>1. c.at # "fail"
      BY <1>8 DEF TypeOK, Coroutine, ReportIsRejected, At
    <3>2. Put(p, i, c) /\ At(p, i, "execute") /\ UNCHANGED <<status, run, starts>>
      BY <1>8, <2>2 DEF ReportIsRejected
    <3> HIDE DEF c
    <3> QED
      BY <1>c, <3>1, <3>2
  <2> QED
    BY <2>1, <2>2
<1>9. CASE Finish(p, i)
  <2> DEFINE c == [task[p][i] EXCEPT !.at = "tell"]
  <2>1. \A q \in Processes, j \in Ids :
          task'[q][j] = IF q = p /\ j = i THEN c ELSE task[q][j]
    BY <1>9, PutEffect DEF Finish, Goto
  <2>2. c.at \notin Claimed
    BY DEF TypeOK, Coroutine, Claimed
  <2>3. /\ At(p, i, "finish") /\ status[i] = "running"
        /\ status' = [status EXCEPT ![i] = "completed"]
        /\ run' = [run EXCEPT ![i] = "succeeded"] /\ starts' = starts
    BY <1>9 DEF Finish
  <2>4. status'[i] = "completed" /\ run'[i] = "succeeded"
    BY <2>3 DEF TypeOK
  <2>5. \A j \in Ids \ {i} : status'[j] = status[j] /\ run'[j] = run[j]
    BY <2>3 DEF TypeOK
  <2>6. ASSUME NEW j \in Ids PROVE RowFits(j)'
    BY <1>0, <2>3, <2>4, <2>5 DEF RowFits, None
  <2>7. ASSUME NEW q \in Processes, NEW j \in Ids PROVE ClaimHolds(q, j)'
    <3>0. ClaimHolds(q, j) /\ ClaimHolds(p, i)
      BY DEF Rows
    <3>1. CASE j = i
      <4>1. \A q2 \in Processes : task'[q2][i].at \notin Claimed
        BY <2>1, <2>2, <2>3, <3>0 DEF ClaimHolds, At, Claimed
      <4> QED
        BY <3>1, <4>1 DEF ClaimHolds, Claimed
    <3>2. CASE j # i
      <4>1. \A q2 \in Processes : task'[q2][j] = task[q2][j]
        BY <2>1, <3>2
      <4> QED
        BY <2>5, <3>0, <3>2, <4>1 DEF ClaimHolds
    <3> QED
      BY <3>1, <3>2
  <2> QED
    BY <2>6, <2>7 DEF Rows
<1>10. CASE FinishRefused(p, i)
  BY <1>10, <1>b, StillClaimed DEF FinishRefused, At, GoFail, RunEnded, Claimed
<1>11. CASE Fail(p, i)
  <2>1. /\ status[i] \in {"running", "failed"} /\ task[p][i].why \in RunEnded
    BY <1>0, <1>11 DEF Fail, At, ClaimHolds, Claimed
  <2>2. /\ status' = [status EXCEPT ![i] = IF @ = "running" THEN "failed" ELSE @]
        /\ run' = [run EXCEPT ![i] = task[p][i].why] /\ starts' = starts
    BY <1>11 DEF Fail
  <2>3. status'[i] = "failed" /\ run'[i] \in RunEnded
    BY <2>1, <2>2 DEF TypeOK
  <2>4. \A j \in Ids \ {i} : status'[j] = status[j] /\ run'[j] = run[j]
    BY <2>2 DEF TypeOK
  <2>5. \A j \in Ids : RowFits(j)'
    BY <1>0, <2>1, <2>2, <2>3, <2>4 DEF RowFits, None
  <2>6. [task[p][i] EXCEPT !.at = "tell"].at \notin Claimed
    BY DEF TypeOK, Coroutine, Claimed
  <2>7. \A q \in Processes, j \in Ids :
          task'[q][j] = task[q][j] \/ task'[q][j].at \notin Claimed
    <3> DEFINE c == [task[p][i] EXCEPT !.at = "tell"]
    <3>1. Put(p, i, c) /\ c.at \notin Claimed
      BY <1>11, <2>6 DEF Fail, Goto
    <3> HIDE DEF c
    <3> QED
      BY <3>1, PutEffect
  <2>8. \A j \in Ids : status[j] \in {"running", "failed"} =>
                         status'[j] \in {"running", "failed"}
    BY <2>3, <2>4
  <2> QED
    BY <2>5, <2>7, <2>8, NothingClaimed
<1>12. CASE Tell(p, i)
  BY <1>12, <1>a DEF Tell
<1>13. CASE Begin(p, i)
  <2>1. \A q \in Processes, j \in Ids :
          task'[q][j] = task[q][j] \/ task'[q][j].at \notin Claimed
    BY <1>13, PlacedEffect, BeforeClaim DEF Begin
  <2>2. \A j \in Ids : RowFits(j)'
    BY <1>0, <1>13 DEF RowFits, Begin
  <2> QED
    BY <1>13, <2>1, <2>2, NothingClaimed DEF Begin
<1> QED
  BY <1>1, <1>2, <1>3, <1>4, <1>5, <1>6, <1>7, <1>8, <1>9, <1>10, <1>11, <1>12, <1>13
  DEF Step


LEMMA RowsStep ==
  ASSUME TypeOK, Rows, [Next]_vars
  PROVE  Rows'
<1>a. ASSUME UNCHANGED <<status, run, starts>>,
             \A q \in Processes, j \in Ids :
               task'[q][j] = task[q][j] \/ task'[q][j].at \notin Claimed
      PROVE  Rows'
  <2>1. \A j \in Ids : RowFits(j)'
    BY <1>a DEF Rows, RowFits
  <2> QED
    BY <1>a, <2>1, NothingClaimed
<1>1. CASE UNCHANGED vars
  BY <1>1, <1>a DEF vars, rowVars
<1>2. ASSUME NEW p \in Processes, NEW a \in Agents, NEW search \in BOOLEAN,
             Delegate(p, a, search)
      PROVE  Rows'
  <2>1. PICK i \in Fresh(1) : /\ Create({i}, [j \in {i} |-> a], NoReview, 1, search)
                              /\ task' = Placed(p, {i}, "new")
    BY <1>2 DEF Delegate
  <2>2. {i} \in SUBSET (Ids \ Created) /\ UNCHANGED <<run, starts>>
    BY <1>2 DEF Fresh, Delegate
  <2> QED
    BY <2>1, <2>2, CreateRows
<1>3. ASSUME NEW r \in Reviews, NEW a \in Agents, FollowUp(r, a)
      PROVE  Rows'
  <2>1. PICK i \in Fresh(1) : /\ Create({i}, [j \in {i} |-> a], r, 2, FALSE)
                              /\ task' = Placed(Server, {i}, "new")
    BY <1>3 DEF FollowUp
  <2>2. {i} \in SUBSET (Ids \ Created) /\ UNCHANGED <<run, starts>>
    BY <1>3 DEF Fresh, FollowUp
  <2> QED
    BY <2>1, <2>2, CreateRows, ProcessesAssumption
<1>4. ASSUME NEW p \in Processes, NEW asked \in SUBSET Agents, StartReview(p, asked)
      PROVE  Rows'
  <2> DEFINE new == Fresh(Cardinality(asked))
  <2>1. PICK r \in new, to \in [new -> asked] : Create(new, to, r, 1, FALSE)
    BY <1>4 DEF StartReview
  <2>2. /\ new \in SUBSET (Ids \ Created) /\ UNCHANGED <<run, starts>>
        /\ task' = Placed(p, new, "new")
    BY <1>4 DEF Fresh, StartReview
  <2> QED
    BY <2>1, <2>2, CreateRows
<1>5. ASSUME NEW p \in Processes, NEW i \in Ids, Step(p, i)
      PROVE  Rows'
  BY <1>5, RunRows
<1>6. ASSUME NEW i \in Ids, RestartQueued(i)
      PROVE  Rows'
  BY <1>6, <1>a, PlacedEffect, BeforeClaim, ProcessesAssumption DEF RestartQueued, rowVars
<1>7. ASSUME NEW p \in Processes, Exit(p)
      PROVE  Rows'
  BY <1>7, <1>a, PlacedEffect, BeforeClaim DEF Exit, rowVars
<1>11. ASSUME NEW p \in Processes, NEW i \in Ids, CallerCancelled(p, i)
      PROVE  Rows'
  BY <1>11, <1>a, PlacedEffect, BeforeClaim DEF CallerCancelled, rowVars
<1>12. ASSUME NEW i \in Ids, Attach(i) \/ LetGo(i)
      PROVE  Rows'
  BY <1>12, <1>a DEF Attach, LetGo, rowVars
<1>8. ASSUME NEW p \in Processes, OpenCommandLine(p)
      PROVE  Rows'
  BY <1>8, <1>a DEF OpenCommandLine, rowVars
<1>9. CASE Recover
  <2>1. \A q \in Processes, j \in Ids :
          task'[q][j] = task[q][j] \/ task'[q][j].at \notin Claimed
    BY <1>9, PlacedEffect, BeforeClaim, ProcessesAssumption DEF Recover, StartServer
  <2>2. /\ status' = [j \in Ids |-> IF status[j] = "running" THEN "failed" ELSE status[j]]
        /\ run' = [j \in Ids |-> IF run[j] = "running" THEN "failed" ELSE run[j]]
        /\ starts' = starts
    BY <1>9 DEF Recover, Interrupt, StartServer
  <2>3. ASSUME NEW j \in Ids PROVE RowFits(j)'
    <3>1. RowFits(j) /\ status[j] \in Active \union Ended \union {None}
      BY DEF Rows, TypeOK
    <3> QED
      BY <2>2, <3>1 DEF RowFits, RunEnded, Active, Ended, None
  <2>4. \A j \in Ids : status[j] \in {"running", "failed"} =>
                         status'[j] \in {"running", "failed"}
    BY <2>2
  <2> QED
    BY <2>1, <2>3, <2>4, NothingClaimed
<1>10. CASE CeilingChanges
  BY <1>10, <1>a DEF CeilingChanges, rowVars
<1> QED
  BY <1>1, <1>2, <1>3, <1>4, <1>5, <1>6, <1>7, <1>8, <1>9, <1>10, <1>11, <1>12,
     SearchesAssumption
  DEF Next

-----------------------------------------------------------------------------
(* What a step that creates no row does to the rows and the reviews.       *)

Held(j) == status'[j] = status[j] \/ (status[j] \in Active /\ status'[j] \in Active)

Moves ==
  /\ given' = given /\ followUps' = followUps /\ Created' = Created
  /\ \A j \in Ids : Held(j) \/ (status[j] \in Active /\ status'[j] \in Ended)
  /\ \/ verdict' = verdict /\ \A j \in Ids : Held(j)
     \/ \E ended \in SUBSET Ids : /\ verdict' = Refreshed(ended, status')
                                  /\ \A j \in Ids \ ended : status'[j] = status[j]

LEMMA RunMoves ==
  ASSUME TypeOK, Rows, NEW p \in Processes, NEW i \in Ids, Step(p, i)
  PROVE  Moves
<1> USE DEF rowVars
<1>a. ASSUME UNCHANGED rowVars PROVE Moves
  BY <1>a DEF Moves, Held, Created
<1>1. CASE Claim(p, i)
  <2>1. status[i] = "queued" /\ status' = [status EXCEPT ![i] = "running"]
        /\ given' = given /\ followUps' = followUps /\ verdict' = verdict
    BY <1>1 DEF Claim, Claimable
  <2>2. \A j \in Ids : Held(j)
    BY <2>1 DEF Held, Active, TypeOK
  <2>3. Created' = Created
    BY <2>1 DEF Created, TypeOK, None
  <2> QED
    BY <2>1, <2>2, <2>3 DEF Moves
<1>2. CASE Finish(p, i)
  <2>1. status[i] = "running" /\ status' = [status EXCEPT ![i] = "completed"]
        /\ given' = given /\ followUps' = followUps /\ verdict' = Refreshed({i}, status')
    BY <1>2 DEF Finish
  <2>2. \A j \in Ids : Held(j) \/ (status[j] \in Active /\ status'[j] \in Ended)
    BY <2>1 DEF Held, Active, Ended, TypeOK
  <2>3. Created' = Created
    BY <2>1 DEF Created, TypeOK, None
  <2>4. \A j \in Ids \ {i} : status'[j] = status[j]
    BY <2>1 DEF TypeOK
  <2> QED
    BY <2>1, <2>2, <2>3, <2>4 DEF Moves
<1>3. CASE Fail(p, i)
  <2>1. status' = [status EXCEPT ![i] = IF @ = "running" THEN "failed" ELSE @]
        /\ given' = given /\ followUps' = followUps /\ verdict' = Refreshed({i}, status')
    BY <1>3 DEF Fail
  <2>2. \A j \in Ids : Held(j) \/ (status[j] \in Active /\ status'[j] \in Ended)
    BY <2>1 DEF Held, Active, Ended, TypeOK
  <2>3. Created' = Created
    BY <2>1 DEF Created, TypeOK, None
  <2>4. \A j \in Ids \ {i} : status'[j] = status[j]
    BY <2>1 DEF TypeOK
  <2> QED
    BY <2>1, <2>2, <2>3, <2>4 DEF Moves
<1> QED
  BY <1>a, <1>1, <1>2, <1>3
  DEF Step, Begin, PassGate, AcquireSlot, ClaimRefused, ExecutorRaises, TimesOut, ReportIsValid,
      ReportIsRejected, FinishRefused, Tell

LEMMA RecoverMoves ==
  ASSUME TypeOK, Recover
  PROVE  Moves
<1>1. status' = [j \in Ids |-> IF status[j] = "running" THEN "failed" ELSE status[j]]
      /\ given' = given /\ followUps' = followUps
      /\ verdict' = Refreshed({j \in Created : status[j] = "running"}, status')
  BY DEF Recover, Interrupt, StartServer
<1>2. \A j \in Ids : Held(j) \/ (status[j] \in Active /\ status'[j] \in Ended)
  BY <1>1 DEF Held, Active, Ended
<1>3. Created' = Created
  BY <1>1 DEF Created, None
<1>4. \A j \in Ids \ {k \in Created : status[k] = "running"} : status'[j] = status[j]
  BY <1>1 DEF Created, None
<1>5. {k \in Created : status[k] = "running"} \in SUBSET Ids
  BY DEF Created
<1> QED
  BY <1>1, <1>2, <1>3, <1>4, <1>5 DEF Moves

\* A verdict depends on which members are active and which completed.
LEMMA SameVerdict ==
  ASSUME TypeOK, NEW members \in SUBSET Ids, \A j \in members : Held(j)
  PROVE  Verdict(members, status') = Verdict(members, status)
<1>1. \A j \in members : /\ (status'[j] \in Active) <=> (status[j] \in Active)
                         /\ (status'[j] = "completed") <=> (status[j] = "completed")
  BY DEF Held, Active
<1>2. {j \in members : status'[j] = "completed"} = {j \in members : status[j] = "completed"}
  BY <1>1
<1>3. (\E j \in members : status'[j] \in Active) <=> (\E j \in members : status[j] \in Active)
  BY <1>1
<1> QED
  BY <1>2, <1>3 DEF Verdict

\* A verdict that is in is never taken back: its members no longer move.
LEMMA VerdictIsFinal ==
  ASSUME TypeOK, ReviewTells, Moves,
         NEW r \in Reviews, verdict[r] \notin {None, "running"}
  PROVE  verdict'[r] = verdict[r]
<1>1. verdict[r] = Verdict(FirstRound(r), status)
  BY DEF ReviewTells
<1>2. \A j \in FirstRound(r) : status[j] \notin Active
  BY <1>1 DEF Verdict
<1>3. FirstRound(r) \in SUBSET Ids /\ \A j \in FirstRound(r) : Held(j)
  BY <1>2 DEF FirstRound, Created, Moves
<1>4. Verdict(FirstRound(r), status') = verdict[r]
  BY <1>1, <1>3, SameVerdict
<1>5. CASE verdict' = verdict
  BY <1>5
<1>6. CASE \E ended \in SUBSET Ids : verdict' = Refreshed(ended, status')
  BY <1>4, <1>6 DEF Refreshed
<1> QED
  BY <1>5, <1>6 DEF Moves

LEMMA MovesReviewed ==
  ASSUME TypeOK, Reviewed, Moves
  PROVE  Reviewed'
<1>1. /\ given' = given /\ followUps' = followUps /\ Created' = Created
      /\ \A r \in Reviews : FirstRound(r)' = FirstRound(r) /\ SecondRound(r)' = SecondRound(r)
  BY DEF Moves, FirstRound, SecondRound
<1>2. \A r \in Reviews : verdict'[r] = None <=> verdict[r] = None
  <2>1. CASE verdict' = verdict
    BY <2>1
  <2>2. CASE \E ended \in SUBSET Ids : verdict' = Refreshed(ended, status')
    <3>1. \A members, s : Verdict(members, s) # None
      BY VerdictType DEF None
    <3> QED
      BY <2>2, <3>1 DEF Refreshed
  <2> QED
    BY <2>1, <2>2 DEF Moves
<1>3. ReviewsExist'
  <2>1. \A i \in Ids : given[i].review \in Reviews \union {NoReview}
    BY DEF TypeOK, Assignment, Nothing
  <2>2. \A i \in Ids : given'[i].review # NoReview => verdict'[given'[i].review] # None
    BY <1>1, <1>2, <2>1 DEF Reviewed, ReviewsExist
  <2>3. \A r \in Reviews : verdict'[r] # None => status'[r] # None
    BY <1>1, <1>2 DEF Reviewed, ReviewsExist, Created, Reviews
  <2> QED
    BY <2>2, <2>3 DEF ReviewsExist
<1>4. ReviewTells'
  <2> SUFFICES ASSUME NEW r \in Reviews, verdict[r] # None
               PROVE  verdict'[r] = Verdict(FirstRound(r), status')
    BY <1>1, <1>2 DEF ReviewTells
  <2>0. /\ verdict[r] = Verdict(FirstRound(r), status)
        /\ FirstRound(r) \in SUBSET Ids
    BY DEF Reviewed, ReviewTells, FirstRound, Created
  <2>1. CASE verdict' = verdict /\ \A j \in Ids : Held(j)
    BY <2>0, <2>1, SameVerdict
  <2>2. ASSUME NEW ended \in SUBSET Ids, verdict' = Refreshed(ended, status'),
               \A j \in Ids \ ended : status'[j] = status[j]
        PROVE  verdict'[r] = Verdict(FirstRound(r), status')
    <3>1. CASE \E i \in ended : given[i].review = r
      BY <2>2, <3>1 DEF Refreshed
    <3>2. CASE ~ \E i \in ended : given[i].review = r
      <4>1. \A j \in FirstRound(r) : Held(j)
        BY <2>0, <2>2, <3>2 DEF FirstRound, Held
      <4>2. verdict'[r] = verdict[r]
        BY <2>2, <3>2 DEF Refreshed
      <4> QED
        BY <2>0, <4>1, <4>2, SameVerdict
    <3> QED
      BY <3>1, <3>2
  <2> QED
    BY <2>1, <2>2 DEF Moves
<1>5. FollowUpsBounded'
  <2>1. \A r \in Reviews : verdict[r] \in {"completed", "partial", "failed"} =>
                             verdict'[r] = verdict[r]
    BY VerdictIsFinal DEF Reviewed, None
  <2> QED
    BY <1>1, <2>1 DEF Reviewed, FollowUpsBounded
<1> QED
  BY <1>3, <1>4, <1>5 DEF Reviewed

-----------------------------------------------------------------------------
(* Reviews and capacity when rows are created.                             *)

\* The rows that are there keep their reviews and their verdicts, and the new
\* ones join the round of their review.
AfterCreate(new, review, round) ==
  /\ \A r \in Reviews :
       /\ ~(review = r /\ round = 1) => FirstRound(r)' = FirstRound(r)
       /\ ~(review = r /\ round = 2) => SecondRound(r)' = SecondRound(r)
       /\ review = r /\ round = 2 => SecondRound(r)' = SecondRound(r) \union new
       /\ verdict[r] = None => FirstRound(r) = {} /\ SecondRound(r) = {}
       /\ review = r /\ round = 1 => FirstRound(r)' = FirstRound(r) \union new
  /\ \A r \in Reviews : Verdict(FirstRound(r), status') = Verdict(FirstRound(r), status)
  /\ \A i \in Ids \ new : given'[i] = given[i]
  /\ \A i \in new : given'[i].review = review /\ status'[i] = "queued"
  /\ \A i \in Ids : status[i] # None => status'[i] # None

LEMMA CreateReviewed ==
  ASSUME TypeOK, ReviewsExist,
         NEW new \in SUBSET (Ids \ Created), NEW to, NEW review, NEW round, NEW search,
         Create(new, to, review, round, search)
  PROVE  AfterCreate(new, review, round)
<1>1. /\ \A i \in Ids \ new : given'[i] = given[i] /\ status'[i] = status[i]
      /\ \A i \in new : /\ given'[i].review = review /\ given'[i].round = round
                        /\ status'[i] = "queued"
  BY DEF Create
<1>2. Created' = Created \union new /\ Created \subseteq Ids
  BY <1>1 DEF Created, None
<1>3. \A i \in Ids : status[i] # None => status'[i] # None
  BY <1>1 DEF None
<1>4. ASSUME NEW r \in Reviews, verdict[r] = None
      PROVE  FirstRound(r) = {} /\ SecondRound(r) = {}
  <2>1. r # NoReview
    BY LimitsAssumption DEF Reviews, Ids, NoReview
  <2>2. \A i \in Created : given[i].review # r
    BY <1>4, <1>2, <2>1 DEF ReviewsExist
  <2> QED
    BY <2>2 DEF FirstRound, SecondRound
<1>5. ASSUME NEW r \in Reviews
      PROVE  Verdict(FirstRound(r), status') = Verdict(FirstRound(r), status)
  <2>1. FirstRound(r) \in SUBSET Ids /\ FirstRound(r) \subseteq Created
    BY <1>2 DEF FirstRound
  <2>2. \A j \in FirstRound(r) : Held(j)
    BY <1>1, <2>1 DEF Held
  <2> QED
    BY <2>1, <2>2, SameVerdict
<1>6. \A r \in Reviews :
        /\ ~(review = r /\ round = 1) => FirstRound(r)' = FirstRound(r)
        /\ ~(review = r /\ round = 2) => SecondRound(r)' = SecondRound(r)
        /\ review = r /\ round = 2 => SecondRound(r)' = SecondRound(r) \union new
        /\ review = r /\ round = 1 => FirstRound(r)' = FirstRound(r) \union new
  BY <1>1, <1>2 DEF FirstRound, SecondRound
<1> QED
  BY <1>1, <1>3, <1>4, <1>5, <1>6 DEF AfterCreate

LEMMA DelegateReviewed ==
  ASSUME TypeOK, Reviewed, NEW p \in Processes, NEW a \in Agents, NEW search \in BOOLEAN,
         Delegate(p, a, search)
  PROVE  Reviewed'
<1>1. PICK i \in Fresh(1) : Create({i}, [j \in {i} |-> a], NoReview, 1, search)
  BY DEF Delegate
<1>2. {i} \in SUBSET (Ids \ Created) /\ UNCHANGED <<verdict, followUps>>
  BY DEF Fresh, Delegate
<1>3. \A r \in Reviews : r # NoReview
  BY LimitsAssumption DEF Reviews, Ids, NoReview
<1>4. /\ \A r \in Reviews : /\ FirstRound(r)' = FirstRound(r)
                            /\ SecondRound(r)' = SecondRound(r)
                            /\ Verdict(FirstRound(r), status') = Verdict(FirstRound(r), status)
      /\ \A k \in Ids \ {i} : given'[k] = given[k]
      /\ given'[i].review = NoReview
      /\ \A k \in Ids : status[k] # None => status'[k] # None
  <2>1. AfterCreate({i}, NoReview, 1)
    BY <1>1, <1>2, CreateReviewed DEF Reviewed
  <2> QED
    BY <1>3, <2>1 DEF AfterCreate
<1>5. ReviewsExist'
  BY <1>2, <1>4 DEF Reviewed, ReviewsExist, Reviews
<1>6. ReviewTells'
  BY <1>2, <1>4 DEF Reviewed, ReviewTells
<1>7. FollowUpsBounded'
  BY <1>2, <1>4 DEF Reviewed, FollowUpsBounded
<1> QED
  BY <1>5, <1>6, <1>7 DEF Reviewed

LEMMA FollowUpReviewed ==
  ASSUME TypeOK, Reviewed, NEW r \in Reviews, NEW a \in Agents, FollowUp(r, a)
  PROVE  Reviewed'
<1>1. PICK i \in Fresh(1) : Create({i}, [j \in {i} |-> a], r, 2, FALSE)
  BY DEF FollowUp
<1>2. /\ {i} \in SUBSET (Ids \ Created) /\ verdict' = verdict
      /\ followUps' = [followUps EXCEPT ![r] = @ + 1] /\ MayFollowUp(r)
  BY DEF Fresh, FollowUp
<1>3. /\ \A q \in Reviews : /\ FirstRound(q)' = FirstRound(q)
                            /\ q # r => SecondRound(q)' = SecondRound(q)
                            /\ Verdict(FirstRound(q), status') = Verdict(FirstRound(q), status)
      /\ SecondRound(r)' = SecondRound(r) \union {i}
      /\ \A k \in Ids \ {i} : given'[k] = given[k]
      /\ given'[i].review = r
      /\ \A k \in Ids : status[k] # None => status'[k] # None
  <2>1. AfterCreate({i}, r, 2)
    BY <1>1, <1>2, CreateReviewed DEF Reviewed
  <2> QED
    BY <2>1 DEF AfterCreate
<1>4. ReviewsExist'
  BY <1>2, <1>3 DEF Reviewed, ReviewsExist, Reviews, MayFollowUp
<1>5. ReviewTells'
  BY <1>2, <1>3 DEF Reviewed, ReviewTells
<1>6. Cardinality(SecondRound(r)') = followUps'[r] /\ followUps'[r] <= MaxFollowUps
  <2>1. SecondRound(r) \subseteq Ids /\ i \notin SecondRound(r)
    BY <1>2 DEF SecondRound, Created
  <2>2. IsFiniteSet(SecondRound(r))
    BY <2>1, IdsFinite, FS_Subset
  <2>3. Cardinality(SecondRound(r)') = Cardinality(SecondRound(r)) + 1
    BY <1>3, <2>1, <2>2, FS_AddElement
  <2>4. followUps[r] \in Nat /\ followUps'[r] = followUps[r] + 1
    BY <1>2, LimitsAssumption DEF TypeOK
  <2> QED
    BY <1>2, <2>3, <2>4, LimitsAssumption DEF Reviewed, FollowUpsBounded, MayFollowUp
<1>7. verdict[r] \in {"completed", "partial", "failed"}
  <2>1. verdict[r] = Verdict(FirstRound(r), status)
    BY <1>2 DEF Reviewed, ReviewTells, MayFollowUp
  <2> QED
    BY <1>2, <2>1 DEF Verdict, MayFollowUp
<1>8. FollowUpsBounded'
  <2> SUFFICES ASSUME NEW q \in Reviews
               PROVE  /\ Cardinality(SecondRound(q)') = followUps'[q]
                      /\ followUps'[q] <= MaxFollowUps
                      /\ SecondRound(q)' # {} =>
                           verdict'[q] \in {"completed", "partial", "failed"}
    BY DEF FollowUpsBounded
  <2>1. CASE q = r
    BY <1>2, <1>6, <1>7, <2>1
  <2>2. CASE q # r
    <3>1. followUps'[q] = followUps[q] /\ SecondRound(q)' = SecondRound(q)
      BY <1>2, <1>3, <2>2 DEF TypeOK
    <3> QED
      BY <1>2, <3>1 DEF Reviewed, FollowUpsBounded
  <2> QED
    BY <2>1, <2>2
<1> QED
  BY <1>4, <1>5, <1>8 DEF Reviewed

LEMMA StartReviewReviewed ==
  ASSUME TypeOK, Reviewed, NEW p \in Processes, NEW asked \in SUBSET Agents,
         StartReview(p, asked)
  PROVE  Reviewed'
<1> DEFINE new == Fresh(Cardinality(asked))
<1>1. PICK r \in new, to \in [new -> asked] :
        /\ Create(new, to, r, 1, FALSE)
        /\ verdict' = [verdict EXCEPT ![r] = "running"]
  BY DEF StartReview
<1>2. new \in SUBSET (Ids \ Created) /\ r \in Reviews /\ followUps' = followUps
  BY DEF Fresh, StartReview, Reviews
<1>3. verdict[r] = None
  BY <1>2 DEF Reviewed, ReviewsExist, Created
<1> HIDE DEF new
<1>4. /\ \A q \in Reviews : /\ q # r => FirstRound(q)' = FirstRound(q)
                            /\ SecondRound(q)' = SecondRound(q)
                            /\ Verdict(FirstRound(q), status') = Verdict(FirstRound(q), status)
      /\ FirstRound(r)' = FirstRound(r) \union new /\ SecondRound(r) = {}
      /\ \A k \in Ids \ new : given'[k] = given[k]
      /\ \A k \in new : given'[k].review = r /\ status'[k] = "queued"
      /\ \A k \in Ids : status[k] # None => status'[k] # None
  <2>1. AfterCreate(new, r, 1)
    BY <1>1, <1>2, CreateReviewed DEF Reviewed
  <2> QED
    BY <1>2, <1>3, <2>1 DEF AfterCreate
<1>5. /\ verdict'[r] = "running"
      /\ \A q \in Reviews \ {r} : verdict'[q] = verdict[q]
  BY <1>1, <1>2 DEF TypeOK
<1>6. ReviewsExist'
  <2>1. \A k \in Ids : given[k].review \in Reviews \union {NoReview}
    BY DEF TypeOK, Assignment, Nothing
  <2>2. ASSUME NEW k \in Ids, given'[k].review # NoReview
        PROVE  verdict'[given'[k].review] # None
    <3>1. CASE k \in new
      BY <1>4, <1>5, <3>1 DEF None
    <3>2. CASE k \notin new
      BY <1>4, <1>5, <2>1, <2>2, <3>2 DEF Reviewed, ReviewsExist, None
    <3> QED
      BY <3>1, <3>2
  <2>3. \A q \in Reviews : verdict'[q] # None => status'[q] # None
    BY <1>1, <1>4, <1>5 DEF Reviewed, ReviewsExist, Reviews, None
  <2> QED
    BY <2>2, <2>3 DEF ReviewsExist
<1>7. ReviewTells'
  <2>1. Verdict(FirstRound(r)', status') = "running"
    BY <1>1, <1>4 DEF Verdict, Active
  <2> QED
    BY <1>4, <1>5, <2>1 DEF Reviewed, ReviewTells
<1>8. FollowUpsBounded'
  BY <1>2, <1>4, <1>5 DEF Reviewed, FollowUpsBounded
<1> QED
  BY <1>6, <1>7, <1>8 DEF Reviewed

LEMMA ReviewedStep ==
  ASSUME TypeOK, Rows, Reviewed, [Next]_vars
  PROVE  Reviewed'
<1>1. CASE UNCHANGED rowVars
  <2>1. Moves
    BY <1>1 DEF rowVars, Moves, Held, Created
  <2> QED
    BY <2>1, MovesReviewed
<1>2. CASE \E p \in Processes, a \in Agents, search \in Searches : Delegate(p, a, search)
  BY <1>2, DelegateReviewed, SearchesAssumption
<1>3. CASE \E r \in Reviews, a \in Agents : FollowUp(r, a)
  BY <1>3, FollowUpReviewed
<1>4. CASE \E p \in Processes, asked \in SUBSET Agents : StartReview(p, asked)
  BY <1>4, StartReviewReviewed
<1>5. CASE \E p \in Processes, i \in Ids : Step(p, i)
  BY <1>5, RunMoves, MovesReviewed
<1>6. CASE Recover
  BY <1>6, RecoverMoves, MovesReviewed
<1> QED
  BY <1>1, <1>2, <1>3, <1>4, <1>5, <1>6
  DEF Next, vars, RestartQueued, CallerCancelled, Attach, LetGo, Exit, OpenCommandLine,
      CeilingChanges

LEMMA ActiveFinite ==
  ASSUME TypeOK
  PROVE  IsFiniteSet(ActiveOnes) /\ ActiveOnes \subseteq Ids /\ Cardinality(ActiveOnes) \in Nat
<1>1. ActiveOnes \subseteq Ids
  BY DEF ActiveOnes, Created
<1> QED
  BY <1>1, IdsFinite, FS_Subset, FS_CardinalityType

\* A step that creates rows is held to the limit by HasCapacity; no other step
\* makes a row active.
LEMMA CreateCapacity ==
  ASSUME TypeOK, NEW new \in SUBSET (Ids \ Created), HasCapacity(new),
         NEW to, NEW review, NEW round, NEW search, Create(new, to, review, round, search)
  PROVE  CapacityKept'
<1>1. ActiveOnes' \subseteq ActiveOnes \union new
  BY DEF ActiveOnes, Created, Create, Active, None
<1>2. IsFiniteSet(new) /\ Cardinality(new) \in Nat
  <2>1. new \subseteq Ids
    OBVIOUS
  <2> QED
    BY <2>1, IdsFinite, FS_Subset, FS_CardinalityType
<1>3. /\ IsFiniteSet(ActiveOnes \union new)
      /\ Cardinality(ActiveOnes \union new) <= Cardinality(ActiveOnes) + Cardinality(new)
  <2>1. ActiveOnes \intersect new = {}
    BY DEF ActiveOnes
  <2>2. Cardinality(ActiveOnes \intersect new) = 0
    BY <2>1, FS_EmptySet
  <2>3. /\ IsFiniteSet(ActiveOnes \union new)
        /\ Cardinality(ActiveOnes \union new) =
             Cardinality(ActiveOnes) + Cardinality(new) - Cardinality(ActiveOnes \intersect new)
    BY <1>2, ActiveFinite, FS_Union
  <2> QED
    BY <1>2, <2>2, <2>3, ActiveFinite
<1>4. /\ Cardinality(ActiveOnes') <= Cardinality(ActiveOnes \union new)
      /\ Cardinality(ActiveOnes') \in Nat /\ Cardinality(ActiveOnes \union new) \in Nat
  BY <1>1, <1>3, FS_Subset, FS_CardinalityType
<1> QED
  BY <1>2, <1>3, <1>4, ActiveFinite, LimitsAssumption DEF CapacityKept, HasCapacity

LEMMA CapacityStep ==
  ASSUME TypeOK, Rows, CapacityKept, [Next]_vars
  PROVE  CapacityKept'
<1>a. ASSUME Moves PROVE CapacityKept'
  <2>1. ActiveOnes' \subseteq ActiveOnes
    BY <1>a DEF Moves, ActiveOnes, Held, Active, Ended, Created
  <2>2. Cardinality(ActiveOnes') <= Cardinality(ActiveOnes) /\ Cardinality(ActiveOnes') \in Nat
    BY <2>1, ActiveFinite, FS_Subset, FS_CardinalityType
  <2> QED
    BY <2>2, ActiveFinite, LimitsAssumption DEF CapacityKept
<1>1. CASE UNCHANGED rowVars
  <2>1. Moves
    BY <1>1 DEF rowVars, Moves, Held, Created
  <2> QED
    BY <2>1, <1>a
<1>2. ASSUME NEW p \in Processes, NEW a \in Agents, NEW search \in Searches,
             Delegate(p, a, search)
      PROVE  CapacityKept'
  <2>1. PICK i \in Fresh(1) : /\ HasCapacity({i})
                              /\ Create({i}, [j \in {i} |-> a], NoReview, 1, search)
    BY <1>2 DEF Delegate
  <2>2. {i} \in SUBSET (Ids \ Created)
    BY DEF Fresh
  <2> QED
    BY <2>1, <2>2, CreateCapacity
<1>3. ASSUME NEW r \in Reviews, NEW a \in Agents, FollowUp(r, a)
      PROVE  CapacityKept'
  <2>1. PICK i \in Fresh(1) : HasCapacity({i}) /\ Create({i}, [j \in {i} |-> a], r, 2, FALSE)
    BY <1>3 DEF FollowUp
  <2>2. {i} \in SUBSET (Ids \ Created)
    BY DEF Fresh
  <2> QED
    BY <2>1, <2>2, CreateCapacity
<1>4. ASSUME NEW p \in Processes, NEW asked \in SUBSET Agents, StartReview(p, asked)
      PROVE  CapacityKept'
  <2> DEFINE new == Fresh(Cardinality(asked))
  <2>1. PICK r \in new, to \in [new -> asked] : Create(new, to, r, 1, FALSE)
    BY <1>4 DEF StartReview
  <2>2. new \in SUBSET (Ids \ Created) /\ HasCapacity(new)
    BY <1>4 DEF Fresh, StartReview
  <2> QED
    BY <2>1, <2>2, CreateCapacity
<1>5. CASE \E p \in Processes, i \in Ids : Step(p, i)
  BY <1>5, <1>a, RunMoves
<1>6. CASE Recover
  BY <1>6, <1>a, RecoverMoves
<1> QED
  BY <1>1, <1>2, <1>3, <1>4, <1>5, <1>6
  DEF Next, vars, RestartQueued, CallerCancelled, Attach, LetGo, Exit, OpenCommandLine,
      CeilingChanges

-----------------------------------------------------------------------------
(* Theorems.                                                               *)

LEMMA Initially ==
  ASSUME Init
  PROVE  IInv
<1> USE LimitsAssumption DEF Init
<1>1. TypeOK
  BY DEF TypeOK, Gone, Coroutine, Steps, Links
<1>2. Rows
  BY DEF Rows, RowFits, ClaimHolds, Gone, Claimed, None
<1>3. Created = {}
  BY DEF Created
<1>4. ReviewsExist /\ ReviewTells
  BY DEF ReviewsExist, ReviewTells, Nothing
<1>5. FollowUpsBounded
  BY <1>3, FS_EmptySet DEF FollowUpsBounded, SecondRound
<1>6. CapacityKept
  BY <1>3, FS_EmptySet DEF CapacityKept, ActiveOnes
<1> QED
  BY <1>1, <1>2, <1>4, <1>5, <1>6 DEF IInv, Reviewed

\* The inductive invariant: it holds initially and every step keeps it.
THEOREM TeamInvariant == Spec => []IInv
<1>1. Init => IInv
  BY Initially
<1>2. IInv /\ [Next]_vars => IInv'
  BY TypeStep, RowsStep, ReviewedStep, CapacityStep DEF IInv
<1> QED
  BY <1>1, <1>2, PTL DEF Spec

\* Every variable keeps its type.
THEOREM TypeCorrect == Spec => []TypeOK
<1>1. IInv => TypeOK
  BY DEF IInv
<1> QED
  BY <1>1, TeamInvariant, PTL

\* No assignment is run twice, however many processes share the database and
\* however often they are restarted (AssignmentRepository.transition).
THEOREM AssignmentsRunOnce == Spec => []RunsOnce
<1>1. IInv => RunsOnce
  BY DEF IInv, TypeOK, Rows, RowFits, RunsOnce, Active, Ended
<1> QED
  BY <1>1, TeamInvariant, PTL

\* The row of an assignment and the record of its run always agree.
THEOREM RowsAndRunsAgree == Spec => []RecordsAgree
<1>1. IInv => RecordsAgree
  <2> SUFFICES ASSUME IInv, NEW i \in Created
               PROVE  /\ status[i] = "queued" <=> run[i] = None
                      /\ status[i] = "running" <=> run[i] = "running"
                      /\ status[i] = "completed" <=> run[i] = "succeeded"
    BY DEF RecordsAgree
  <2>1. i \in Ids /\ status[i] \in Active \union Ended /\ RowFits(i)
    BY DEF IInv, TypeOK, Rows, Created
  <2> QED
    BY <2>1 DEF RowFits, Active, Ended, RunEnded, None
<1> QED
  BY <1>1, TeamInvariant, PTL

\* The team is never given more than max_active_assignments at once.
THEOREM CapacityIsKept == Spec => []CapacityKept
<1>1. IInv => CapacityKept
  BY DEF IInv
<1> QED
  BY <1>1, TeamInvariant, PTL

\* The stored status of a review is always what its first round adds up to.
THEOREM ReviewsTell == Spec => []ReviewTells
<1>1. IInv => ReviewTells
  BY DEF IInv, Reviewed
<1> QED
  BY <1>1, TeamInvariant, PTL

\* A review's follow-ups are counted, limited, and asked only after its first round.
THEOREM FollowUpsAreBounded == Spec => []FollowUpsBounded
<1>1. IInv => FollowUpsBounded
  BY DEF IInv, Reviewed
<1> QED
  BY <1>1, TeamInvariant, PTL

\* Neither the status of an ended assignment nor a verdict that is in changes.
THEOREM WhatEndedStays == Spec => EndedStays
<1> DEFINE Stays ==
      /\ \A i \in Ids : status[i] \in Ended => status'[i] = status[i]
      /\ \A r \in Reviews : verdict[r] \notin {None, "running"} => verdict'[r] = verdict[r]
<1>a. ASSUME IInv, Moves PROVE Stays
  <2>1. \A i \in Ids : status[i] \in Ended => status'[i] = status[i]
    BY <1>a DEF Moves, Held, Active, Ended
  <2>2. \A r \in Reviews : verdict[r] \notin {None, "running"} => verdict'[r] = verdict[r]
    BY <1>a, VerdictIsFinal DEF IInv, Reviewed
  <2> QED
    BY <2>1, <2>2
<1>b. ASSUME NEW new \in SUBSET (Ids \ Created), NEW to, NEW review, NEW round, NEW search,
             Create(new, to, review, round, search)
      PROVE  \A i \in Ids : status[i] \in Ended => status'[i] = status[i]
  BY <1>b DEF Create, Created, Ended, None
<1>1. ASSUME IInv, [Next]_vars PROVE Stays
  <2>1. CASE UNCHANGED rowVars
    BY <2>1 DEF rowVars
  <2>2. ASSUME NEW p \in Processes, NEW a \in Agents, NEW search \in Searches,
               Delegate(p, a, search)
        PROVE  Stays
    <3>1. PICK i \in Fresh(1) : Create({i}, [j \in {i} |-> a], NoReview, 1, search)
      BY <2>2 DEF Delegate
    <3>2. {i} \in SUBSET (Ids \ Created) /\ verdict' = verdict
      BY <2>2 DEF Fresh, Delegate
    <3> QED
      BY <1>b, <3>1, <3>2
  <2>3. ASSUME NEW r \in Reviews, NEW a \in Agents, FollowUp(r, a)
        PROVE  Stays
    <3>1. PICK i \in Fresh(1) : Create({i}, [j \in {i} |-> a], r, 2, FALSE)
      BY <2>3 DEF FollowUp
    <3>2. {i} \in SUBSET (Ids \ Created) /\ verdict' = verdict
      BY <2>3 DEF Fresh, FollowUp
    <3> QED
      BY <1>b, <3>1, <3>2
  <2>4. ASSUME NEW p \in Processes, NEW asked \in SUBSET Agents, StartReview(p, asked)
        PROVE  Stays
    <3> DEFINE new == Fresh(Cardinality(asked))
    <3>1. PICK r \in new, to \in [new -> asked] :
            Create(new, to, r, 1, FALSE) /\ verdict' = [verdict EXCEPT ![r] = "running"]
      BY <2>4 DEF StartReview
    <3>2. new \in SUBSET (Ids \ Created)
      BY DEF Fresh
    <3>3. \A q \in Reviews : verdict[q] # None => verdict'[q] = verdict[q]
      <4>1. verdict[r] = None
        BY <1>1, <3>2 DEF IInv, Reviewed, ReviewsExist, Created, Reviews
      <4> QED
        BY <1>1, <3>1, <4>1 DEF IInv, TypeOK
    <3> QED
      BY <1>b, <3>1, <3>2, <3>3
  <2>5. CASE \E p \in Processes, i \in Ids : Step(p, i)
    BY <1>1, <1>a, <2>5, RunMoves DEF IInv
  <2>6. CASE Recover
    BY <1>1, <1>a, <2>6, RecoverMoves DEF IInv
  <2> QED
    BY <1>1, <2>1, <2>2, <2>3, <2>4, <2>5, <2>6
    DEF Next, vars, RestartQueued, CallerCancelled, Attach, LetGo, Exit, OpenCommandLine,
      CeilingChanges
<1>2. IInv /\ [Next]_vars => [Stays]_vars
  BY <1>1
<1> QED
  BY <1>2, TeamInvariant, PTL DEF Spec, EndedStays
==============================================================================
