----------------------- MODULE EngineeringTicketsProofs -----------------------
(***************************************************************************)
(* Proofs about the tickets, for any callers, requests, boards and bounds. *)
(*                                                                         *)
(* A coroutine judges by the row it read last, while others write.  That   *)
(* is safe for the security review because what it carries stays true: the *)
(* requirement never changes and a recorded review is never taken back.    *)
(***************************************************************************)
EXTENDS EngineeringTickets, FiniteSetTheorems, TLAPS

\* What a coroutine may rely on, given the row in the table.
Carries(c, t) ==
  /\ c.at # "idle" => c.op # "none"
  /\ c.op # "none" =>
       /\ t.exists
       /\ c.row.review = t.review
       /\ c.row.reviewed => t.reviewed
  /\ c.op = "transition" /\ c.target = "done" /\ t.review =>
       c.from = "security_review"
  /\ c.op = "transition" /\ c.at = "shut" /\ t.review => t.reviewed
  /\ c.at = "complete" /\ t.review => t.reviewed
  /\ c.at = "settle" => c.settle
  /\ c.settle => c.op # "none" /\ (t.review => t.reviewed)

Carrying == \A w \in Workers : Carries(work[w], ticket)

Judged ==
  /\ task.by = "engineering" => ticket.exists
  /\ CompletedWasReviewed
  /\ opened > 0 => ticket.exists

IInv == TypeOK /\ Carrying /\ Judged

\* How the row may change while coroutines carry an older one.
Steady(t, u) ==
  /\ u.review = t.review
  /\ t.reviewed => u.reviewed
  /\ t.exists => u.exists

\* The coroutines and the row after a step, and all the rest.
WorkKept ==
  /\ ticket' \in Ticket
  /\ work' \in [Workers -> Coroutine]
  /\ \A v \in Workers : Carries(work'[v], ticket')

RestOK ==
  /\ task \in [status : {"todo", "in_progress", "blocked"} \union Closed,
               by : {"nobody", "alex", "engineering"}]
  /\ opened \in 0 .. MaxIssues
  /\ closed \subseteq 0 .. MaxIssues
  /\ assigned \subseteq 0 .. MaxIssues
  /\ items \in 0 .. MaxItems
  /\ card \in [Items -> [issue : 0 .. MaxIssues,
                         column : Statuses \union {NoColumn}]]
  /\ calls \in 0 .. MaxCalls
  /\ faults \in 0 .. MaxFaults
  /\ moves \in 0 .. MaxMoves
  /\ exits \in 0 .. faults
  /\ unheard \in 0 .. faults

LEMMA TypeParts ==
  TypeOK <=> RestOK /\ ticket \in Ticket /\ work \in [Workers -> Coroutine]
BY DEF TypeOK, RestOK

LEMMA KeptIsIInv ==
  ASSUME WorkKept, RestOK', Judged'
  PROVE  IInv'
BY DEF WorkKept, RestOK, IInv, TypeOK, Carrying

-----------------------------------------------------------------------------
(* Rows and coroutines.                                                    *)

LEMMA IdleType == NoTicket \in Ticket /\ Idle \in Coroutine
<1>1. NoTicket \in Ticket
  BY BoundsAssumption DEF NoTicket, Ticket, Statuses, SyncStates
<1> QED
  BY <1>1 DEF Idle, Coroutine, Statuses

LEMMA IdleCarries == \A t : Carries(Idle, t)
BY DEF Idle, Carries

LEMMA CarriesOn ==
  ASSUME NEW t \in Ticket, NEW u \in Ticket, NEW c \in Coroutine,
         Carries(c, t), Steady(t, u)
  PROVE  Carries(c, u)
BY DEF Carries, Steady

\* A worker goes on as c while the row changes steadily.
LEMMA StartKeeps ==
  ASSUME IInv, NEW w \in Workers, NEW c \in Coroutine, Start(w, c),
         ticket' \in Ticket, Steady(ticket, ticket'), Carries(c, ticket')
  PROVE  WorkKept
<1>1. ticket \in Ticket /\ work \in [Workers -> Coroutine]
  BY DEF IInv, TypeOK
<1>2. work' \in [Workers -> Coroutine]
  BY <1>1 DEF Start
<1>3. ASSUME NEW v \in Workers PROVE Carries(work'[v], ticket')
  <2>1. CASE v = w
    BY <2>1, <1>1 DEF Start
  <2>2. CASE v # w
    <3>1. work'[v] = work[v] /\ work[v] \in Coroutine
      BY <2>2, <1>1 DEF Start
    <3>2. Carries(work[v], ticket)
      BY DEF IInv, Carrying
    <3> QED
      BY <3>1, <3>2, <1>1, CarriesOn
  <2> QED
    BY <2>1, <2>2
<1> QED
  BY <1>2, <1>3 DEF WorkKept

LEMMA ReturnKeeps ==
  ASSUME IInv, NEW w \in Workers, Return(w),
         ticket' \in Ticket, Steady(ticket, ticket')
  PROVE  WorkKept
<1>1. Start(w, Idle)
  BY DEF Return, Start
<1> QED
  BY <1>1, IdleType, IdleCarries, StartKeeps

LEMMA RestKeeps ==
  ASSUME IInv, UNCHANGED work, ticket' \in Ticket, Steady(ticket, ticket')
  PROVE  WorkKept
<1>1. /\ ticket \in Ticket
      /\ work \in [Workers -> Coroutine]
      /\ \A v \in Workers : Carries(work[v], ticket)
  BY DEF IInv, TypeOK, Carrying
<1>2. ASSUME NEW v \in Workers PROVE Carries(work[v], ticket')
  BY <1>1, CarriesOn
<1> QED
  BY <1>1, <1>2 DEF WorkKept

Places == {"idle", "verify", "open", "opened", "assign", "item", "status",
           "fields", "move", "note", "shut", "complete", "read", "board", "card",
           "settle", "retry"}

LEMMA GotoKeeps ==
  ASSUME IInv, NEW w \in Workers, NEW place \in Places \ {"idle", "settle"},
         Goto(w, place), work[w].at # "idle",
         ticket' \in Ticket, Steady(ticket, ticket'),
         work[w].op = "transition" /\ place = "shut" /\ ticket.review => ticket.reviewed,
         place = "complete" /\ ticket.review => ticket.reviewed
  PROVE  WorkKept
<1> DEFINE c == [work[w] EXCEPT !.at = place]
<1>1. work[w] \in Coroutine /\ Carries(work[w], ticket) /\ ticket \in Ticket
  BY DEF IInv, TypeOK, Carrying
<1>2. c \in Coroutine
  BY <1>1 DEF Coroutine, Places
<1>3. Start(w, c)
  BY DEF Goto, Start
<1>4. Carries(c, ticket)
  BY <1>1 DEF Carries, Coroutine
<1> HIDE DEF c
<1>5. Carries(c, ticket')
  BY <1>1, <1>2, <1>4, CarriesOn
<1> QED
  BY <1>2, <1>3, <1>5, StartKeeps

\* The same for a step of create_ticket, retry_incomplete or transition that
\* saves the row and goes on with what it read back.
LEMMA ProceedKeeps ==
  ASSUME IInv, NEW w \in Workers, NEW saved \in Ticket, NEW row \in Ticket,
         NEW place \in (Places \ {"idle", "settle", "complete"}) \union {"end"},
         work[w].at # "idle",
         Proceed(w, saved, row, place),
         Steady(ticket, saved),
         row.review = saved.review, row.reviewed => saved.reviewed,
         work[w].op = "transition" /\ place = "shut" /\ saved.review => saved.reviewed
  PROVE  WorkKept /\ Steady(ticket, ticket')
<1>1. /\ work[w] \in Coroutine /\ Carries(work[w], ticket) /\ ticket \in Ticket
      /\ work \in [Workers -> Coroutine]
  BY DEF IInv, TypeOK, Carrying
<1>2. CASE place = "end"
  <2>1. [saved EXCEPT !.sync = "synced"] \in Ticket
    BY DEF Ticket, SyncStates
  <2>2. Steady(ticket, [saved EXCEPT !.sync = "synced"])
    BY DEF Steady, Ticket
  <2>3. ticket' \in Ticket /\ Steady(ticket, ticket') /\ Return(w)
    BY <1>2, <2>1, <2>2 DEF Proceed
  <2> QED
    BY <2>3, ReturnKeeps
<1>3. CASE place # "end"
  <2> DEFINE c == [work[w] EXCEPT !.at = place, !.row = row]
  <2>1. c \in Coroutine
    BY <1>1, <1>3 DEF Coroutine, Places
  <2>2. ticket' = saved /\ Start(w, c)
    BY <1>3 DEF Proceed
  <2>3. Carries(c, saved)
    BY <1>1, <1>3 DEF Carries, Steady, Coroutine
  <2> HIDE DEF c
  <2> QED
    BY <2>1, <2>2, <2>3, StartKeeps
<1> QED
  BY <1>2, <1>3
\* What every step of a worker may use of the coroutine it takes on.
LEMMA AtWork ==
  ASSUME IInv, NEW w \in Workers, work[w].at # "idle"
  PROVE  /\ work[w] \in Coroutine /\ work[w].row \in Ticket
         /\ work[w].at \in Places
         /\ Carries(work[w], ticket)
         /\ work[w].op # "none"
         /\ ticket \in Ticket /\ ticket.exists
         /\ work[w].row.review = ticket.review
         /\ work[w].row.reviewed => ticket.reviewed
         /\ Steady(ticket, ticket)
<1>1. work[w] \in Coroutine /\ Carries(work[w], ticket) /\ ticket \in Ticket
  BY DEF IInv, TypeOK, Carrying
<1>2. work[w].row \in Ticket /\ work[w].at \in Places
  BY <1>1 DEF Coroutine, Places
<1> QED
  BY <1>1, <1>2 DEF Carries, Steady

LEMMA SavedType ==
  ASSUME NEW t \in Ticket
  PROVE  /\ \A s \in SyncStates : [t EXCEPT !.sync = s] \in Ticket /\ Steady(t, [t EXCEPT !.sync = s])
         /\ \A s \in Statuses : [t EXCEPT !.status = s] \in Ticket /\ Steady(t, [t EXCEPT !.status = s])
         /\ \A n \in 0 .. MaxIssues, b \in BOOLEAN :
              LET u == [t EXCEPT !.issue = n, !.confirmed = b]
              IN u \in Ticket /\ Steady(t, u)
         /\ \A b \in BOOLEAN, s \in SyncStates :
              LET u == [t EXCEPT !.confirmed = b, !.sync = s]
              IN u \in Ticket /\ Steady(t, u)
         /\ \A i \in 0 .. MaxItems :
              [t EXCEPT !.item = i] \in Ticket /\ Steady(t, [t EXCEPT !.item = i])
         /\ LET u == [t EXCEPT !.reviewed = TRUE] IN u \in Ticket /\ Steady(t, u)
         /\ LET u == [t EXCEPT !.status = "done", !.sync = "synced"]
            IN u \in Ticket /\ Steady(t, u)
BY DEF Ticket, Steady, Statuses, SyncStates

LEMMA Rest == IInv => RestOK /\ Judged
BY DEF IInv, TypeOK, RestOK

\* A task that is mirrored, or left alone, is judged as before.
LEMMA JudgedOn ==
  ASSUME IInv, ticket' \in Ticket, Steady(ticket, ticket'),
         task'.by = task.by \/ task'.by # "engineering",
         opened' = opened \/ ticket.exists
  PROVE  Judged'
<1>1. ticket \in Ticket /\ Judged
  BY DEF IInv, TypeOK
<1>2. opened' > 0 => ticket'.exists
  BY <1>1 DEF Judged, Steady
<1>3. task'.by = "engineering" => ticket'.exists
  BY <1>1 DEF Judged, Steady
<1>4. CompletedWasReviewed'
  BY <1>1 DEF Judged, CompletedWasReviewed, Steady
<1> QED
  BY <1>2, <1>3, <1>4 DEF Judged

LEMMA JudgedWhenReviewed ==
  ASSUME IInv, ticket.exists, ticket.review => ticket.reviewed,
         ticket' \in Ticket, Steady(ticket, ticket'), opened' = opened
  PROVE  Judged'
<1>1. ticket \in Ticket /\ Judged
  BY DEF IInv, TypeOK
<1> QED
  BY <1>1 DEF Judged, Steady, CompletedWasReviewed

LEMMA MirroredType ==
  ASSUME RestOK, NEW status
  PROVE  /\ Mirrored(status).by = task.by
         /\ Mirrored(status) \in
              [status : {"todo", "in_progress", "blocked"} \union Closed,
               by : {"nobody", "alex", "engineering"}]
BY DEF RestOK, Mirrored

LEMMA PlacesAfter ==
  ASSUME NEW op, NEW row
  PROVE  /\ FromAssign(op, row) \in {"assign", "item", "status", "end"}
         /\ FromItem(op, row) \in {"item", "status", "end"}
         /\ FromStatus(op, row) \in {"status", "end"}
         /\ AfterStatus(op) \in {"fields", "end"}
BY DEF FromAssign, FromItem, FromStatus, AfterStatus

-----------------------------------------------------------------------------
(* Every step keeps the invariant: create_ticket and retry_incomplete.     *)

LEMMA ReserveStep ==
  ASSUME IInv, NEW w \in Workers, Reserve(w)
  PROVE  IInv'
<1> DEFINE row(request) == [NoTicket EXCEPT !.exists = TRUE, !.kind = request.kind,
                                            !.review = request.review]
<1>1. PICK request \in Requests :
        ticket' = IF ticket.exists THEN ticket ELSE row(request)
  BY DEF Reserve
<1>2. ticket \in Ticket /\ ticket' \in Ticket /\ ticket'.exists
  <2>1. row(request) \in Ticket /\ row(request).exists
    BY IdleType, RequestsAssumption DEF Ticket, NoTicket
  <2> QED
    BY <1>1, <2>1 DEF IInv, TypeOK
<1> DEFINE c == [Idle EXCEPT !.op = "create", !.at = "verify", !.row = ticket']
<1>3. c \in Coroutine
  BY <1>2, IdleType DEF Coroutine
<1>4. Carries(c, ticket')
  BY <1>2 DEF Carries, Idle
<1>5. Start(w, c)
  BY DEF Reserve
<1>6. WorkKept
  <2>1. CASE ticket.exists
    <3>1. Steady(ticket, ticket')
      BY <2>1, <1>1 DEF Steady
    <3> HIDE DEF c
    <3> QED
      BY <3>1, <1>2, <1>3, <1>4, <1>5, StartKeeps
  <2>2. CASE ~ticket.exists
    <3>1. work \in [Workers -> Coroutine]
      BY DEF IInv, TypeOK
    <3>2. ASSUME NEW v \in Workers, v # w PROVE Carries(work[v], ticket')
      <4>1. Carries(work[v], ticket)
        BY DEF IInv, Carrying
      <4>2. work[v].op = "none" /\ ~work[v].settle
        BY <4>1, <2>2 DEF Carries
      <4> QED
        BY <4>1, <4>2 DEF Carries
    <3> HIDE DEF c
    <3> QED
      BY <1>2, <1>3, <1>4, <1>5, <3>1, <3>2 DEF WorkKept, Start
  <2> QED
    BY <2>1, <2>2
<1>7. RestOK'
  BY Rest, BoundsAssumption DEF Reserve, Asked, RestOK, github
<1>8. Judged'
  <2>1. task' = task /\ opened' = opened
    BY DEF Reserve, github
  <2>2. ~ticket.exists => task.by # "engineering"
    BY DEF IInv, Judged
  <2> QED
    BY <2>1, <2>2, <1>1, <1>2, Rest DEF Judged, CompletedWasReviewed
<1> QED
  BY <1>6, <1>7, <1>8, KeptIsIInv

LEMMA RetryStep ==
  ASSUME IInv, NEW w \in Workers, Retry(w)
  PROVE  IInv'
<1>0. work[w].at # "idle"
  BY DEF Retry, At
<1>1. ticket' = ticket /\ ticket \in Ticket /\ ticket.exists /\ Steady(ticket, ticket')
  BY <1>0, AtWork DEF Retry
<1> DEFINE c == [Idle EXCEPT !.op = "retry", !.at = "verify", !.row = ticket]
<1>2. c \in Coroutine
  BY <1>1, IdleType DEF Coroutine
<1>3. Carries(c, ticket')
  BY <1>1 DEF Carries, Idle
<1>4. WorkKept
  <2>1. CASE ticket.issue = 0
    BY <2>1, <1>1, ReturnKeeps DEF Retry
  <2>2. CASE ticket.issue # 0
    <3>1. Start(w, c)
      BY <2>2 DEF Retry
    <3> HIDE DEF c
    <3> QED
      BY <3>1, <1>1, <1>2, <1>3, StartKeeps
  <2> QED
    BY <2>1, <2>2
<1>5. RestOK' /\ task' = task /\ opened' = opened
  BY Rest DEF Retry, RestOK, github, counters
<1> QED
  BY <1>1, <1>4, <1>5, JudgedOn, KeptIsIInv

LEMMA VerifyStep ==
  ASSUME IInv, NEW w \in Workers, Verify(w) \/ VerifyRaises(w)
  PROVE  IInv'
<1>0. work[w].at = "verify"
  BY DEF Verify, VerifyRaises, At
<1> USE <1>0
<1>1. RestOK' /\ task' = task /\ opened' = opened
  BY Rest, BoundsAssumption DEF Verify, VerifyRaises, Raises, RestOK, github, counters
<1>2. WorkKept /\ Steady(ticket, ticket')
  <2>1. CASE Verify(w)
    <3>1. PICK place \in {"open", "move", "assign", "item", "status", "end"} \union {"shut"} :
            /\ Proceed(w, ticket, work[w].row, place)
            /\ work[w].op = "transition" => place # "shut"
      BY <2>1, PlacesAfter DEF Verify
    <3>2. place \in (Places \ {"idle", "settle", "complete"}) \union {"end"}
      BY DEF Places
    <3> QED
      BY <3>1, <3>2, AtWork, ProceedKeeps
  <2>2. CASE VerifyRaises(w)
    <3>1. ticket' \in Ticket /\ Steady(ticket, ticket')
      BY <2>2, AtWork, SavedType DEF VerifyRaises, SyncStates
    <3> QED
      BY <2>2, <3>1, ReturnKeeps DEF VerifyRaises
  <2> QED
    BY <2>1, <2>2
<1>3. ticket' \in Ticket
  BY <1>2 DEF WorkKept
<1> QED
  BY <1>1, <1>2, <1>3, JudgedOn, KeptIsIInv

LEMMA OpenIssueStep ==
  ASSUME IInv, NEW w \in Workers, OpenIssue(w)
  PROVE  IInv'
<1>0. work[w].at = "open"
  BY DEF OpenIssue, At
<1>1. work[w] \in Coroutine /\ work[w].row \in Ticket
  BY <1>0, AtWork
<1>2. PICK accepted \in BOOLEAN :
        /\ NewIssue(accepted)
        /\ Start(w, [work[w] EXCEPT
                       !.at = "opened",
                       !.row = [@ EXCEPT !.issue = opened + 1,
                                         !.confirmed = accepted]])
  BY DEF OpenIssue
<1> DEFINE heard == [work[w].row EXCEPT !.issue = opened + 1, !.confirmed = accepted]
           c == [work[w] EXCEPT !.at = "opened", !.row = heard]
<1>3. opened \in 0 .. MaxIssues /\ opened + 1 \in 0 .. MaxIssues
  BY <1>2, Rest, BoundsAssumption DEF RestOK, NewIssue
<1>4. /\ heard \in Ticket
      /\ heard.review = work[w].row.review
      /\ heard.reviewed = work[w].row.reviewed
  BY <1>1, <1>3 DEF Ticket
<1>5. /\ c \in Coroutine /\ Start(w, c)
      /\ c.at = "opened" /\ c.op = work[w].op /\ c.settle = work[w].settle
      /\ c.target = work[w].target /\ c.from = work[w].from /\ c.row = heard
  <2> HIDE DEF heard
  <2>1. c \in Coroutine /\ c.row = heard /\ c.at = "opened"
    BY <1>1, <1>4 DEF Coroutine
  <2>2. /\ c.op = work[w].op /\ c.settle = work[w].settle
        /\ c.target = work[w].target /\ c.from = work[w].from
    BY <1>1 DEF Coroutine
  <2>3. Start(w, c)
    BY <1>1, <1>2 DEF heard, Coroutine, Start
  <2> QED
    BY <2>1, <2>2, <2>3
<1> HIDE DEF heard, c
<1>6. ticket' = ticket
  BY DEF OpenIssue
<1>7. Carries(c, ticket')
  BY <1>0, <1>4, <1>5, <1>6, AtWork DEF Carries
<1>8. WorkKept
  BY <1>0, <1>5, <1>6, <1>7, AtWork, StartKeeps
<1>9. RestOK'
  BY <1>2, <1>3, Rest DEF RestOK, OpenIssue, NewIssue, Answers, counters
<1>10. Judged'
  BY <1>0, <1>6, AtWork, JudgedOn DEF OpenIssue
<1> QED
  BY <1>8, <1>9, <1>10, KeptIsIInv

LEMMA OpenIssueFails ==
  ASSUME IInv, NEW w \in Workers, OpenIssueRaises(w) \/ OpenIssueUnheard(w)
  PROVE  IInv'
<1>0. work[w].at = "open"
  BY DEF OpenIssueRaises, OpenIssueUnheard, At
<1>1. ticket' = ticket /\ task' = task /\ ticket \in Ticket /\ ticket.exists
      /\ Steady(ticket, ticket')
  BY <1>0, AtWork DEF OpenIssueRaises, OpenIssueUnheard
<1>2. UNCHANGED work \/ Return(w)
  BY DEF OpenIssueRaises, OpenIssueUnheard
<1>3. WorkKept
  BY <1>1, <1>2, RestKeeps, ReturnKeeps
<1>4. RestOK'
  <2>1. CASE OpenIssueRaises(w)
    BY <2>1, Rest, BoundsAssumption DEF RestOK, OpenIssueRaises, Raises, github
  <2>2. CASE OpenIssueUnheard(w)
    <3>1. PICK accepted \in BOOLEAN : NewIssue(accepted)
      BY <2>2 DEF OpenIssueUnheard
    <3>2. /\ opened' \in 0 .. MaxIssues
          /\ assigned' \subseteq 0 .. MaxIssues
      BY <3>1, Rest, BoundsAssumption DEF RestOK, NewIssue
    <3>3. /\ faults' \in 0 .. MaxFaults
          /\ exits' \in 0 .. faults'
          /\ unheard' \in 0 .. faults'
      BY <2>2, Rest, BoundsAssumption DEF RestOK, OpenIssueUnheard
    <3> QED
      BY <2>2, <3>2, <3>3, Rest DEF RestOK, OpenIssueUnheard
  <2> QED
    BY <2>1, <2>2
<1> QED
  BY <1>1, <1>3, <1>4, JudgedOn, KeptIsIInv

LEMMA OpenedStep ==
  ASSUME IInv, NEW w \in Workers, Opened(w)
  PROVE  IInv'
<1>0. work[w].at = "opened"
  BY DEF Opened, At
<1> DEFINE saved == [ticket EXCEPT !.issue = work[w].row.issue,
                                   !.confirmed = work[w].row.confirmed]
<1>1. work[w].row \in Ticket /\ ticket \in Ticket
  BY <1>0, AtWork
<1>2. saved \in Ticket /\ Steady(ticket, saved)
  <2>1. work[w].row.issue \in 0 .. MaxIssues /\ work[w].row.confirmed \in BOOLEAN
    BY <1>1 DEF Ticket
  <2> QED
    BY <1>1, <2>1, SavedType
<1>3. PICK place \in {"assign", "item", "status", "end"} :
        Proceed(w, saved, saved, place)
  BY PlacesAfter DEF Opened
<1>4. place \in (Places \ {"idle", "settle", "complete"}) \union {"end"}
  BY DEF Places
<1> HIDE DEF saved
<1>5. WorkKept /\ Steady(ticket, ticket')
  BY <1>0, <1>2, <1>3, <1>4, ProceedKeeps
<1>6. RestOK' /\ task' = task /\ opened' = opened
  BY Rest DEF RestOK, Opened, github, counters
<1> QED
  BY <1>5, <1>6, JudgedOn, KeptIsIInv DEF WorkKept

LEMMA AssignStep ==
  ASSUME IInv, NEW w \in Workers, Assign(w) \/ AssignRefused(w)
  PROVE  IInv'
<1>0. work[w].at = "assign"
  BY DEF Assign, AssignRefused, At
<1>1. work[w].row \in Ticket /\ ticket \in Ticket
  BY <1>0, AtWork
<1>2. PICK saved \in Ticket :
        /\ Steady(ticket, saved)
        /\ Proceed(w, saved, saved, FromItem(work[w].op, saved))
  <2>1. CASE Assign(w)
    <3>1. work[w].row.sync \in SyncStates
      BY <1>1 DEF Ticket
    <3> QED
      BY <2>1, <3>1, <1>1, SavedType DEF Assign
  <2>2. CASE AssignRefused(w)
    BY <2>2, <1>1, SavedType DEF AssignRefused, SyncStates
  <2> QED
    BY <2>1, <2>2
<1>3. PICK place \in {"item", "status", "end"} : Proceed(w, saved, saved, place)
  BY <1>2, PlacesAfter
<1>4. place \in (Places \ {"idle", "settle", "complete"}) \union {"end"}
  BY DEF Places
<1>5. WorkKept /\ Steady(ticket, ticket')
  BY <1>0, <1>2, <1>3, <1>4, ProceedKeeps
<1>6. task' = task /\ opened' = opened
  BY DEF Assign, AssignRefused
<1>7. assigned' \subseteq 0 .. MaxIssues
  <2>1. work[w].row.issue \in 0 .. MaxIssues
    BY <1>1 DEF Ticket
  <2> QED
    BY <2>1, Rest DEF Assign, AssignRefused, RestOK
<1>8. RestOK'
  BY Rest, <1>6, <1>7, BoundsAssumption
     DEF Assign, AssignRefused, RestOK, Raises, Answers, counters
<1> QED
  BY <1>5, <1>6, <1>8, JudgedOn, KeptIsIInv DEF WorkKept

\* The board: what a step does to the cards keeps them typed.
CardsOK ==
  /\ items \in 0 .. MaxItems
  /\ card \in [Items -> [issue : 0 .. MaxIssues,
                         column : Statuses \union {NoColumn}]]

LEMMA SetColumnType ==
  ASSUME RestOK, NEW i, NEW column \in Statuses \union {NoColumn},
         SetColumn(i, column)
  PROVE  card' \in [Items -> [issue : 0 .. MaxIssues,
                              column : Statuses \union {NoColumn}]]
BY DEF RestOK, SetColumn

LEMMA SetColumnPerhapsType ==
  ASSUME RestOK, NEW row, NEW column \in Statuses, SetColumnPerhaps(row, column)
  PROVE  card' \in [Items -> [issue : 0 .. MaxIssues,
                              column : Statuses \union {NoColumn}]]
BY SetColumnType DEF SetColumnPerhaps, RestOK

LEMMA PutOnBoardType ==
  ASSUME RestOK, NEW n \in 0 .. MaxIssues, NEW i \in Items, PutOnBoard(n, i)
  PROVE  CardsOK'
<1>1. CASE CardsOf(n) # {}
  BY <1>1 DEF PutOnBoard, RestOK, CardsOK
<1>2. CASE CardsOf(n) = {}
  <2>1. items' = items + 1 /\ items + 1 <= MaxItems /\ items \in Nat
    BY <1>2 DEF PutOnBoard, RestOK
  <2>2. items' \in 0 .. MaxItems
    BY <2>1, BoundsAssumption
  <2>3. card' = [card EXCEPT ![i] = [issue |-> n, column |-> NoColumn]]
    BY <1>2 DEF PutOnBoard
  <2> QED
    BY <2>2, <2>3 DEF RestOK, CardsOK
<1> QED
  BY <1>1, <1>2

\* The counters after a call that raises, or answers.
CountersOK ==
  /\ calls \in 0 .. MaxCalls
  /\ faults \in 0 .. MaxFaults
  /\ moves \in 0 .. MaxMoves
  /\ exits \in 0 .. faults
  /\ unheard \in 0 .. faults

LEMMA CountersType ==
  ASSUME RestOK, Raises \/ Answers
  PROVE  CountersOK'
BY BoundsAssumption DEF RestOK, Raises, Answers, counters, CountersOK

LEMMA CannotSetCounts ==
  ASSUME NEW row, NEW column, CannotSet(row, column)
  PROVE  Raises \/ Answers
BY DEF CannotSet

LEMMA AddCardStep ==
  ASSUME IInv, NEW w \in Workers, AddCard(w) \/ AddCardRaises(w)
  PROVE  IInv'
<1>0. work[w].at = "item"
  BY DEF AddCard, AddCardRaises, At
<1>1. work[w].row \in Ticket /\ ticket \in Ticket /\ work[w].row.issue \in 0 .. MaxIssues
  BY <1>0, AtWork DEF Ticket
<1>2. Items \subseteq 0 .. MaxItems
  BY DEF Items
<1>3. PICK saved \in Ticket :
        /\ Steady(ticket, saved)
        /\ Proceed(w, saved, saved, FromStatus(work[w].op, saved))
  <2>1. CASE AddCard(w)
    BY <2>1, <1>1, <1>2, SavedType DEF AddCard
  <2>2. CASE AddCardRaises(w)
    BY <2>2, <1>1, SavedType DEF AddCardRaises, SyncStates
  <2> QED
    BY <2>1, <2>2
<1>4. PICK place \in {"status", "end"} : Proceed(w, saved, saved, place)
  BY <1>3, PlacesAfter
<1>5. place \in (Places \ {"idle", "settle", "complete"}) \union {"end"}
  BY DEF Places
<1>6. WorkKept /\ Steady(ticket, ticket')
  BY <1>0, <1>3, <1>4, <1>5, ProceedKeeps
<1>7. UNCHANGED <<task, opened, closed, assigned>>
  BY DEF AddCard, AddCardRaises
<1>8. CardsOK'
  BY <1>1, Rest, PutOnBoardType DEF AddCard, AddCardRaises, RestOK, CardsOK
<1>9. CountersOK'
  BY Rest, CountersType DEF AddCard, AddCardRaises
<1>10. RestOK'
  BY <1>7, <1>8, <1>9, Rest DEF RestOK, CardsOK, CountersOK
<1> QED
  BY <1>6, <1>7, <1>10, JudgedOn, KeptIsIInv DEF WorkKept

LEMMA StatusStep ==
  ASSUME IInv, NEW w \in Workers, SetStatus(w) \/ StatusNotSet(w)
  PROVE  IInv'
<1>0. work[w].at = "status"
  BY DEF SetStatus, StatusNotSet, At
<1>1. work[w].row \in Ticket /\ ticket \in Ticket
  BY <1>0, AtWork
<1>2. TargetOf(work[w]) \in Statuses
  BY <1>1 DEF TargetOf, Ticket, Statuses
<1>3. PICK saved \in Ticket :
        /\ Steady(ticket, saved)
        /\ Proceed(w, saved, saved, AfterStatus(work[w].op))
  <2>1. CASE SetStatus(w)
    BY <2>1, <1>1, <1>2, SavedType DEF SetStatus
  <2>2. CASE StatusNotSet(w)
    BY <2>2, <1>1, SavedType DEF StatusNotSet, SyncStates
  <2> QED
    BY <2>1, <2>2
<1>4. PICK place \in {"fields", "end"} : Proceed(w, saved, saved, place)
  BY <1>3, PlacesAfter
<1>5. place \in (Places \ {"idle", "settle", "complete"}) \union {"end"}
  BY DEF Places
<1>6. WorkKept /\ Steady(ticket, ticket')
  BY <1>0, <1>3, <1>4, <1>5, ProceedKeeps
<1>7. UNCHANGED <<task, opened, closed, assigned, items>>
  BY DEF SetStatus, StatusNotSet
<1>8. CardsOK'
  BY <1>2, <1>7, Rest, SetColumnType, SetColumnPerhapsType
     DEF SetStatus, StatusNotSet, RestOK, CardsOK
<1>9. CountersOK'
  BY Rest, CountersType, CannotSetCounts DEF SetStatus, StatusNotSet
<1>10. RestOK'
  BY <1>7, <1>8, <1>9, Rest DEF RestOK, CardsOK, CountersOK
<1> QED
  BY <1>6, <1>7, <1>10, JudgedOn, KeptIsIInv DEF WorkKept

LEMMA FillFieldsStep ==
  ASSUME IInv, NEW w \in Workers, FillFields(w)
  PROVE  IInv'
<1>0. work[w].at = "fields"
  BY DEF FillFields, At
<1>1. WorkKept /\ Steady(ticket, ticket')
  BY <1>0, AtWork, ProceedKeeps DEF FillFields
<1>2. RestOK' /\ task' = task /\ opened' = opened
  BY Rest DEF RestOK, FillFields, github, counters
<1> QED
  BY <1>1, <1>2, JudgedOn, KeptIsIInv DEF WorkKept

-----------------------------------------------------------------------------
(* transition and close_production_ticket.                                 *)

LEMMA AskToMoveStep ==
  ASSUME IInv, NEW w \in Workers, AskToMove(w)
  PROVE  IInv'
<1>1. PICK target \in Statuses :
        /\ MayMove(ticket, target)
        /\ Start(w, [Idle EXCEPT !.op = "transition", !.at = "verify",
                                 !.row = ticket, !.from = ticket.status,
                                 !.target = target])
  BY DEF AskToMove
<1> DEFINE c == [Idle EXCEPT !.op = "transition", !.at = "verify",
                             !.row = ticket, !.from = ticket.status,
                             !.target = target]
<1>2. ticket \in Ticket /\ ticket.status \in Statuses /\ ticket.exists
  BY DEF IInv, TypeOK, Ticket, AskToMove
<1>3. c \in Coroutine
  BY <1>2, IdleType DEF Coroutine
<1>4. Carries(c, ticket)
  BY <1>1, <1>2 DEF Carries, Idle, MayMove
<1>5. Start(w, c)
  BY <1>1
<1>6. ticket' = ticket /\ Steady(ticket, ticket')
  BY DEF AskToMove, Steady
<1> HIDE DEF c
<1>7. WorkKept
  BY <1>2, <1>3, <1>4, <1>5, <1>6, StartKeeps
<1>8. RestOK' /\ task' = task /\ opened' = opened
  BY Rest, BoundsAssumption DEF RestOK, AskToMove, Asked, github
<1> QED
  BY <1>6, <1>7, <1>8, JudgedOn, KeptIsIInv DEF WorkKept

LEMMA MoveStep ==
  ASSUME IInv, NEW w \in Workers, Move(w) \/ MoveRaises(w)
  PROVE  IInv'
<1>0. work[w].at = "move"
  BY DEF Move, MoveRaises, At
<1>1. work[w].row \in Ticket /\ ticket \in Ticket /\ work[w].target \in Statuses
  BY <1>0, AtWork DEF Coroutine
<1>2. WorkKept /\ Steady(ticket, ticket')
  <2>1. CASE Move(w)
    <3>1. PICK saved \in Ticket :
            Steady(ticket, saved) /\ Proceed(w, saved, saved, "note")
      BY <2>1, <1>1, SavedType DEF Move
    <3>2. "note" \in (Places \ {"idle", "settle", "complete"}) \union {"end"}
      BY DEF Places
    <3> QED
      BY <3>1, <3>2, <1>0, ProceedKeeps
  <2>2. CASE MoveRaises(w)
    BY <2>2, <1>0, AtWork, ReturnKeeps DEF MoveRaises
  <2> QED
    BY <2>1, <2>2
<1>3. UNCHANGED <<opened, closed, assigned, items>>
  BY DEF Move, MoveRaises
<1>4. CardsOK'
  BY <1>1, <1>3, Rest, SetColumnType, SetColumnPerhapsType
     DEF Move, MoveRaises, RestOK, CardsOK
<1>5. CountersOK'
  BY Rest, CountersType, CannotSetCounts DEF Move, MoveRaises
<1>6. /\ task'.by = task.by
      /\ task' \in [status : {"todo", "in_progress", "blocked"} \union Closed,
                    by : {"nobody", "alex", "engineering"}]
  <2>1. RestOK
    BY Rest
  <2>2. CASE Move(w)
    BY <2>1, <2>2, MirroredType DEF Move
  <2>3. CASE MoveRaises(w)
    BY <2>1, <2>3 DEF MoveRaises, RestOK
  <2> QED
    BY <2>2, <2>3
<1>7. RestOK'
  BY <1>3, <1>4, <1>5, <1>6, Rest DEF RestOK, CardsOK, CountersOK
<1> QED
  BY <1>2, <1>3, <1>6, <1>7, JudgedOn, KeptIsIInv DEF WorkKept

LEMMA NoteStep ==
  ASSUME IInv, NEW w \in Workers, Note(w) \/ NoteRaises(w)
  PROVE  IInv'
<1>0. work[w].at = "note"
  BY DEF Note, NoteRaises, At
<1>1. ticket \in Ticket /\ ticket.exists /\ Steady(ticket, ticket)
  BY <1>0, AtWork
<1>2. RestOK' /\ task' = task /\ opened' = opened
  BY Rest, BoundsAssumption DEF RestOK, Note, NoteRaises, Raises, github, counters
<1>3. WorkKept /\ Steady(ticket, ticket')
  <2>1. CASE NoteRaises(w) \/ (Note(w) /\ work[w].target # "done")
    <3>1. Return(w) /\ ticket' = ticket
      BY <2>1 DEF Note, NoteRaises
    <3> QED
      BY <3>1, <1>1, ReturnKeeps
  <2>2. CASE Note(w) /\ work[w].target = "done"
    <3> DEFINE reviewed == work[w].from = "security_review"
               saved == IF reviewed THEN [ticket EXCEPT !.reviewed = TRUE] ELSE ticket
               row == IF reviewed THEN saved ELSE work[w].row
    <3>1. Proceed(w, saved, row, "shut")
      BY <2>2 DEF Note
    <3>2. saved \in Ticket /\ Steady(ticket, saved)
      BY <1>1, SavedType
    <3>3. row \in Ticket /\ row.review = saved.review /\ (row.reviewed => saved.reviewed)
      BY <1>0, <3>2, AtWork DEF Steady
    <3>4. work[w].op = "transition" /\ saved.review => saved.reviewed
      <4>1. CASE reviewed
        BY <4>1, <1>1 DEF Ticket
      <4>2. CASE ~reviewed
        BY <4>2, <2>2, <1>0, AtWork DEF Carries
      <4> QED
        BY <4>1, <4>2
    <3>5. "shut" \in (Places \ {"idle", "settle", "complete"}) \union {"end"}
      BY DEF Places
    <3> HIDE DEF saved, row
    <3> QED
      BY <3>1, <3>2, <3>3, <3>4, <3>5, <1>0, ProceedKeeps
  <2> QED
    BY <2>1, <2>2 DEF Note
<1> QED
  BY <1>2, <1>3, JudgedOn, KeptIsIInv DEF WorkKept

LEMMA ShutDoneStep ==
  ASSUME IInv, NEW w \in Workers, ShutDone(w)
  PROVE  IInv'
<1>0. work[w].at = "shut" /\ work[w].op = "transition"
  BY DEF ShutDone, At
<1>1. /\ ticket' = ticket /\ ticket \in Ticket /\ Steady(ticket, ticket')
      /\ work[w].row.issue \in 0 .. MaxIssues
      /\ ticket.review => ticket.reviewed
  BY <1>0, AtWork DEF ShutDone, Carries, Ticket
<1>2. "complete" \in Places \ {"idle", "settle"}
  BY DEF Places
<1>3. WorkKept
  BY <1>0, <1>1, <1>2, GotoKeeps DEF ShutDone
<1>4. closed' \subseteq 0 .. MaxIssues
  BY <1>1, Rest DEF RestOK, ShutDone
<1>5. CountersOK'
  BY Rest, CountersType DEF ShutDone
<1>6. UNCHANGED <<task, opened, assigned, items, card>>
  BY DEF ShutDone
<1>7. RestOK'
  BY <1>4, <1>5, <1>6, Rest DEF RestOK, CountersOK
<1> QED
  BY <1>1, <1>3, <1>6, <1>7, JudgedOn, KeptIsIInv DEF WorkKept

LEMMA CompletedType ==
  ASSUME RestOK
  PROVE  Completed \in [status : {"todo", "in_progress", "blocked"} \union Closed,
                        by : {"nobody", "alex", "engineering"}]
BY DEF RestOK, Completed, Closed

LEMMA CompleteStep ==
  ASSUME IInv, NEW w \in Workers, Complete(w)
  PROVE  IInv'
<1>0. work[w].at = "complete"
  BY DEF Complete, At
<1>1. /\ ticket \in Ticket /\ ticket.exists
      /\ ticket.review => ticket.reviewed
  BY <1>0, AtWork DEF Carries
<1>2. ticket' \in Ticket /\ Steady(ticket, ticket')
  BY <1>1, SavedType DEF Complete, SyncStates
<1>3. WorkKept
  BY <1>2, ReturnKeeps DEF Complete
<1>4. task' = Completed /\ UNCHANGED <<github, counters>>
  BY DEF Complete
<1>5. RestOK'
  BY <1>4, CompletedType, Rest DEF RestOK, github, counters
<1>6. opened' = opened
  BY <1>4 DEF github
<1> QED
  BY <1>1, <1>2, <1>3, <1>5, <1>6, JudgedWhenReviewed, KeptIsIInv

LEMMA AskToCloseStep ==
  ASSUME IInv, NEW w \in Workers, AskToClose(w)
  PROVE  IInv'
<1> DEFINE c == [Idle EXCEPT !.op = "close", !.at = "verify", !.row = ticket]
<1>1. ticket \in Ticket /\ ticket' = ticket /\ Steady(ticket, ticket')
  BY DEF IInv, TypeOK, AskToClose, Steady
<1>2. ticket.exists
  BY DEF AskToClose
<1>3. c \in Coroutine
  BY <1>1, IdleType DEF Coroutine
<1>4. Carries(c, ticket)
  BY <1>1, <1>2 DEF Carries, Idle
<1>5. Start(w, c)
  BY DEF AskToClose
<1> HIDE DEF c
<1>6. WorkKept
  BY <1>1, <1>3, <1>4, <1>5, StartKeeps
<1>7. RestOK' /\ task' = task /\ opened' = opened
  BY Rest, BoundsAssumption DEF RestOK, AskToClose, Asked, github
<1> QED
  BY <1>1, <1>6, <1>7, JudgedOn, KeptIsIInv DEF WorkKept

LEMMA ShutStep ==
  ASSUME IInv, NEW w \in Workers, Shut(w) \/ ShutRaises(w)
  PROVE  IInv'
<1>0. work[w].at = "shut" /\ work[w].op = "close"
  BY DEF Shut, ShutRaises, At
<1>1. /\ ticket \in Ticket /\ Steady(ticket, ticket)
      /\ work[w].row.issue \in 0 .. MaxIssues
  BY <1>0, AtWork DEF Ticket
<1>2. WorkKept /\ Steady(ticket, ticket')
  <2>1. CASE UNCHANGED ticket /\ Goto(w, "card")
    <3>1. "card" \in Places \ {"idle", "settle"}
      BY DEF Places
    <3> QED
      BY <2>1, <3>1, <1>0, <1>1, GotoKeeps
  <2>2. CASE ticket' = Finished /\ Return(w)
    <3>1. ticket' \in Ticket /\ Steady(ticket, ticket')
      BY <2>2, <1>1, SavedType DEF Finished
    <3> QED
      BY <2>2, <3>1, ReturnKeeps
  <2>3. CASE UNCHANGED ticket /\ Return(w)
    BY <2>3, <1>1, ReturnKeeps
  <2> QED
    BY <2>1, <2>2, <2>3 DEF Shut, ShutRaises
<1>3. closed' \subseteq 0 .. MaxIssues
  BY <1>1, Rest DEF RestOK, Shut, ShutRaises
<1>4. CountersOK'
  BY Rest, CountersType DEF Shut, ShutRaises
<1>5. UNCHANGED <<task, opened, assigned, items, card>>
  BY DEF Shut, ShutRaises
<1>6. RestOK'
  BY <1>3, <1>4, <1>5, Rest DEF RestOK, CountersOK
<1> QED
  BY <1>2, <1>5, <1>6, JudgedOn, KeptIsIInv DEF WorkKept

-----------------------------------------------------------------------------
(* sync_ticket and sync_all.                                               *)

LEMMA StartSyncKeeps ==
  ASSUME IInv, NEW w \in Workers, NEW op \in {"sync", "sync_all"},
         StartSync(w, op), ticket.exists, ticket' = ticket
  PROVE  WorkKept /\ Steady(ticket, ticket')
<1> DEFINE c == [Idle EXCEPT !.op = op, !.at = "read", !.row = ticket]
<1>1. ticket \in Ticket /\ Steady(ticket, ticket')
  BY DEF IInv, TypeOK, Steady
<1>2. c \in Coroutine
  BY <1>1, IdleType DEF Coroutine
<1>3. Carries(c, ticket)
  BY <1>1 DEF Carries, Idle
<1>4. Start(w, c)
  BY DEF StartSync
<1> HIDE DEF c
<1> QED
  BY <1>1, <1>2, <1>3, <1>4, StartKeeps

LEMMA AskToSyncStep ==
  ASSUME IInv, NEW w \in Workers, AskToSync(w)
  PROVE  IInv'
<1>1. PICK op \in {"sync", "sync_all"} : StartSync(w, op)
  BY DEF AskToSync
<1>2. ticket.exists /\ ticket' = ticket
  BY DEF AskToSync
<1>3. WorkKept /\ Steady(ticket, ticket')
  BY <1>1, <1>2, StartSyncKeeps
<1>4. RestOK' /\ task' = task /\ opened' = opened
  BY Rest, BoundsAssumption DEF RestOK, AskToSync, Asked, github
<1> QED
  BY <1>3, <1>4, JudgedOn, KeptIsIInv DEF WorkKept

LEMMA LoopSyncsStep ==
  ASSUME IInv, LoopSyncs
  PROVE  IInv'
<1>1. Loop \in Workers
  BY DEF Workers
<1>2. StartSync(Loop, "sync_all") /\ ticket.exists /\ ticket' = ticket
  BY DEF LoopSyncs, Syncable
<1>3. WorkKept /\ Steady(ticket, ticket')
  BY <1>1, <1>2, StartSyncKeeps
<1>4. RestOK' /\ task' = task /\ opened' = opened
  BY Rest DEF RestOK, LoopSyncs, github, counters
<1> QED
  BY <1>3, <1>4, JudgedOn, KeptIsIInv DEF WorkKept

\* What a sync carries, wherever it stands.
Bears(c, t) ==
  /\ c.op # "none"
  /\ t.exists
  /\ c.row.review = t.review
  /\ c.row.reviewed => t.reviewed
  /\ c.op = "transition" /\ c.target = "done" /\ t.review =>
       c.from = "security_review"
  /\ c.settle /\ t.review => t.reviewed

LEMMA ContinueKeeps ==
  ASSUME IInv, NEW w \in Workers, NEW c \in Coroutine, Continue(w, c),
         ticket' \in Ticket, Steady(ticket, ticket'), Bears(c, ticket')
  PROVE  WorkKept
<1> DEFINE place == AfterCard(c)
           d == [c EXCEPT !.at = place]
<1>1. CASE place = "idle"
  <2>1. Return(w)
    BY <1>1 DEF Continue, Start, Return
  <2> QED
    BY <2>1, ReturnKeeps
<1>2. CASE place # "idle"
  <2>1. /\ place \in {"settle", "retry"}
        /\ place = "settle" => c.settle
    BY <1>2 DEF AfterCard
  <2>2. Start(w, d)
    BY <1>2 DEF Continue
  <2>3. d \in Coroutine
    BY <2>1 DEF Coroutine
  <2>4. Carries(d, ticket')
    BY <2>1 DEF Carries, Bears, Coroutine
  <2> HIDE DEF d
  <2> QED
    BY <2>2, <2>3, <2>4, StartKeeps
<1> QED
  BY <1>1, <1>2

\* Adopting GitHub's word: what is settled was reviewed, by the row as read,
\* by the table since, or by the card that passed from Security Review to Done.
LEMMA AdoptKeeps ==
  ASSUME IInv, NEW w \in Workers, work[w].at \in {"read", "board"},
         NEW open \in BOOLEAN, NEW accepted \in BOOLEAN,
         NEW column \in Statuses \union {NoColumn}, NEW lost \in BOOLEAN,
         Adopt(w, open, accepted, column, lost)
  PROVE  /\ WorkKept /\ Steady(ticket, ticket')
         /\ task' = task \/ \E status \in Statuses : task' = Mirrored(status)
<1> DEFINE row == work[w].row
           moved == column \notin {NoColumn, row.status}
           seen == IF moved THEN column ELSE row.status
           stageDone == row.kind = "production" /\ ~open
           status == IF stageDone THEN "done" ELSE seen
           changed == moved \/ (stageDone /\ seen # "done")
           passed == seen = "done" /\ row.status = "security_review"
           satisfied == status = "done" /\ (row.review => row.reviewed \/ passed)
           sync == CASE ~open /\ satisfied -> "synced"
                     [] ~open /\ ~satisfied -> "needs_reconciliation"
                     [] open /\ lost -> "degraded"
                     [] open /\ ~lost /\ (changed \/ row.sync # "synced") -> "synced"
                     [] OTHER -> ticket.sync
           saved == [ticket EXCEPT
                       !.item = IF lost THEN 0 ELSE @,
                       !.confirmed = IF accepted # row.confirmed THEN accepted ELSE @,
                       !.status = IF changed THEN status ELSE @,
                       !.reviewed = @ \/ passed,
                       !.sync = sync]
           settle == ~open /\ satisfied /\ saved.status = "done"
           repair == lost /\ work[w].op = "sync_all"
           after == [work[w] EXCEPT !.row = saved, !.settle = settle,
                                    !.repair = repair]
<1>1. /\ work[w] \in Coroutine /\ row \in Ticket /\ ticket \in Ticket
      /\ work[w].op # "none" /\ ticket.exists
      /\ row.review = ticket.review /\ (row.reviewed => ticket.reviewed)
      /\ Carries(work[w], ticket)
  BY AtWork
<1>2. /\ ticket' = saved
      /\ task' = IF changed THEN Mirrored(status) ELSE task
      /\ \/ Start(w, [after EXCEPT !.at = "card"])
         \/ Continue(w, after)
  BY DEF Adopt
<1>3. seen \in Statuses /\ status \in Statuses
  BY <1>1 DEF Ticket, Statuses
<1>4. sync \in SyncStates
  BY <1>1 DEF Ticket, SyncStates
<1>5. passed \in BOOLEAN
  OBVIOUS
<1>6. satisfied => (row.review => row.reviewed \/ passed)
  OBVIOUS
<1> HIDE DEF sync, seen, status, passed, satisfied
<1>7. /\ saved \in Ticket
      /\ saved.exists = ticket.exists
      /\ saved.review = ticket.review
      /\ saved.reviewed = (ticket.reviewed \/ passed)
  <2> DEFINE item == IF lost THEN 0 ELSE ticket.item
             confirmed == IF accepted # row.confirmed THEN accepted ELSE ticket.confirmed
             standing == IF changed THEN status ELSE ticket.status
             reviewed == ticket.reviewed \/ passed
  <2>1. item \in 0 .. MaxItems
    BY <1>1, BoundsAssumption DEF Ticket
  <2>2. confirmed \in BOOLEAN /\ reviewed \in BOOLEAN
    BY <1>1, <1>5 DEF Ticket
  <2>3. standing \in Statuses
    BY <1>1, <1>3 DEF Ticket
  <2>4. saved = [ticket EXCEPT !.item = item, !.confirmed = confirmed,
                               !.status = standing, !.reviewed = reviewed,
                               !.sync = sync]
    BY <1>1 DEF Ticket
  <2> HIDE DEF item, confirmed, standing, reviewed, saved
  <2>5. /\ saved \in Ticket
        /\ saved.exists = ticket.exists
        /\ saved.review = ticket.review
        /\ saved.reviewed = reviewed
    BY <1>1, <1>4, <2>1, <2>2, <2>3, <2>4 DEF Ticket
  <2> QED
    BY <2>5 DEF reviewed
<1>8. Steady(ticket, saved)
  BY <1>7 DEF Steady
<1>9. settle /\ saved.review => saved.reviewed
  BY <1>1, <1>6, <1>7
<1>10. settle \in BOOLEAN /\ repair \in BOOLEAN
  BY <1>5
<1> HIDE DEF saved, settle, repair
<1>11. /\ after \in Coroutine
       /\ after.row = saved /\ after.settle = settle /\ after.op = work[w].op
       /\ after.target = work[w].target /\ after.from = work[w].from
  BY <1>1, <1>7, <1>10 DEF Coroutine
<1> HIDE DEF after
<1>12. ticket' \in Ticket /\ Steady(ticket, ticket')
  BY <1>2, <1>7, <1>8
<1>13. Bears(after, ticket')
  <2>1. after.op # "none" /\ ticket'.exists
    BY <1>1, <1>2, <1>7, <1>11
  <2>2. after.row.review = ticket'.review /\ (after.row.reviewed => ticket'.reviewed)
    BY <1>2, <1>11
  <2>3. after.settle /\ ticket'.review => ticket'.reviewed
    BY <1>2, <1>9, <1>11
  <2>4. after.op = "transition" /\ after.target = "done" /\ ticket'.review =>
          after.from = "security_review"
    BY <1>1, <1>2, <1>7, <1>11 DEF Carries
  <2> QED
    BY <2>1, <2>2, <2>3, <2>4 DEF Bears
<1>14. WorkKept
  <2>1. CASE Continue(w, after)
    BY <2>1, <1>11, <1>12, <1>13, ContinueKeeps
  <2>2. CASE Start(w, [after EXCEPT !.at = "card"])
    <3> DEFINE c == [after EXCEPT !.at = "card"]
    <3>1. c \in Coroutine
      BY <1>11 DEF Coroutine
    <3>2. Carries(c, ticket')
      BY <1>11, <1>13 DEF Carries, Bears, Coroutine
    <3>3. Start(w, c)
      BY <2>2
    <3> HIDE DEF c
    <3> QED
      BY <1>12, <3>1, <3>2, <3>3, StartKeeps
  <2> QED
    BY <1>2, <2>1, <2>2
<1>15. task' = task \/ \E u \in Statuses : task' = Mirrored(u)
  BY <1>2, <1>3
<1> QED
  BY <1>12, <1>14, <1>15

LEMMA AdoptStep ==
  ASSUME IInv, NEW w \in Workers, work[w].at \in {"read", "board"},
         NEW open \in BOOLEAN, NEW accepted \in BOOLEAN,
         NEW column \in Statuses \union {NoColumn}, NEW lost \in BOOLEAN,
         Adopt(w, open, accepted, column, lost), UNCHANGED <<github, counters>>
  PROVE  IInv'
<1>1. /\ WorkKept /\ Steady(ticket, ticket')
      /\ task' = task \/ \E status \in Statuses : task' = Mirrored(status)
  BY AdoptKeeps
<1>2. /\ task'.by = task.by
      /\ task' \in [status : {"todo", "in_progress", "blocked"} \union Closed,
                    by : {"nobody", "alex", "engineering"}]
  <2>1. CASE task' = task
    BY <2>1, Rest DEF RestOK
  <2>2. CASE \E status \in Statuses : task' = Mirrored(status)
    BY <2>2, Rest, MirroredType
  <2> QED
    BY <1>1, <2>1, <2>2
<1>3. RestOK'
  BY <1>2, Rest DEF RestOK, github, counters
<1>4. opened' = opened
  BY DEF github
<1> QED
  BY <1>1, <1>2, <1>3, <1>4, JudgedOn, KeptIsIInv DEF WorkKept

LEMMA ReadStep ==
  ASSUME IInv, NEW w \in Workers, ReadIssue(w) \/ ReadCard(w) \/ ReadRaises(w)
  PROVE  IInv'
<1>0. work[w].at \in {"read", "board"}
  BY DEF ReadIssue, ReadCard, ReadRaises, At
<1>1. /\ work[w] \in Coroutine /\ ticket \in Ticket /\ Steady(ticket, ticket)
      /\ Carries(work[w], ticket)
      /\ work[w].row \in Ticket
  BY <1>0, AtWork
<1>2. CASE ReadIssue(w) /\ work[w].row.item = 0
  <2> DEFINE open == work[w].row.issue \notin closed
             accepted == work[w].row.issue \in assigned
  <2>1. Adopt(w, open, accepted, NoColumn, FALSE)
    BY <1>2 DEF ReadIssue
  <2>2. UNCHANGED <<github, counters>>
    BY <1>2 DEF ReadIssue
  <2>3. open \in BOOLEAN /\ accepted \in BOOLEAN
    OBVIOUS
  <2> HIDE DEF open, accepted
  <2> QED
    BY <2>1, <2>2, <2>3, <1>0, AdoptStep
<1>3. CASE ReadIssue(w) /\ work[w].row.item # 0
  <2> DEFINE open == work[w].row.issue \notin closed
             accepted == work[w].row.issue \in assigned
             c == [work[w] EXCEPT !.at = "board", !.open = open, !.assigned = accepted]
  <2>1. Start(w, c) /\ UNCHANGED <<task, ticket, github, counters>>
    BY <1>3 DEF ReadIssue
  <2>2. open \in BOOLEAN /\ accepted \in BOOLEAN
    OBVIOUS
  <2> HIDE DEF open, accepted
  <2>3. c \in Coroutine
    BY <2>2, <1>1 DEF Coroutine
  <2>4. Carries(c, ticket)
    BY <1>0, <1>1 DEF Carries, Coroutine
  <2> HIDE DEF c
  <2>5. ticket' = ticket /\ WorkKept
    BY <2>1, <2>3, <2>4, <1>1, StartKeeps
  <2>6. RestOK' /\ task' = task /\ opened' = opened
    BY <2>1, Rest DEF RestOK, github, counters
  <2> QED
    BY <2>5, <2>6, <1>1, JudgedOn, KeptIsIInv
<1>4. CASE ReadCard(w)
  <2> DEFINE i == work[w].row.item
             column == IF OnBoard(i) THEN card[i].column ELSE NoColumn
  <2>1. Adopt(w, work[w].open, work[w].assigned, column, ~OnBoard(i))
    BY <1>4 DEF ReadCard
  <2>2. UNCHANGED <<github, counters>>
    BY <1>4 DEF ReadCard
  <2>3. i \in 0 .. MaxItems
    BY <1>1 DEF Ticket
  <2>4. column \in Statuses \union {NoColumn}
    <3>1. CASE OnBoard(i)
      <4>1. i \in Items
        BY <3>1, <2>3, BoundsAssumption DEF OnBoard, Items
      <4> QED
        BY <3>1, <4>1, Rest DEF RestOK
    <3>2. CASE ~OnBoard(i)
      BY <3>2
    <3> QED
      BY <3>1, <3>2
  <2>5. work[w].open \in BOOLEAN /\ work[w].assigned \in BOOLEAN
    BY <1>1 DEF Coroutine
  <2>6. (~OnBoard(i)) \in BOOLEAN
    BY DEF OnBoard
  <2> HIDE DEF column
  <2> QED
    BY <2>1, <2>2, <2>4, <2>5, <2>6, <1>0, AdoptStep
<1>5. CASE ReadRaises(w)
  <2>1. ticket' \in Ticket /\ Steady(ticket, ticket') /\ Return(w)
    BY <1>5, <1>1, SavedType DEF ReadRaises, Degrade, SyncStates
  <2>2. WorkKept
    BY <2>1, ReturnKeeps
  <2>3. RestOK' /\ task' = task /\ opened' = opened
    BY <1>5, Rest, BoundsAssumption DEF RestOK, ReadRaises, Raises, github
  <2> QED
    BY <2>1, <2>2, <2>3, JudgedOn, KeptIsIInv
<1> QED
  BY <1>2, <1>3, <1>4, <1>5

LEMMA MoveCardToDoneStep ==
  ASSUME IInv, NEW w \in Workers, MoveCardToDone(w)
  PROVE  IInv'
<1>0. work[w].at = "card"
  BY DEF MoveCardToDone, At
<1>1. /\ work[w] \in Coroutine /\ ticket \in Ticket /\ Steady(ticket, ticket)
      /\ Carries(work[w], ticket) /\ work[w].op # "none"
  BY <1>0, AtWork
<1>2. WorkKept /\ Steady(ticket, ticket')
  <2>1. CASE ticket' = Finished /\ Return(w)
    <3>1. ticket' \in Ticket /\ Steady(ticket, ticket')
      BY <2>1, <1>1, SavedType DEF Finished
    <3> QED
      BY <2>1, <3>1, ReturnKeeps
  <2>2. CASE UNCHANGED ticket /\ Continue(w, work[w])
    <3>1. Bears(work[w], ticket')
      BY <2>2, <1>1 DEF Bears, Carries
    <3> QED
      BY <2>2, <3>1, <1>1, ContinueKeeps
  <2> QED
    BY <2>1, <2>2 DEF MoveCardToDone
<1>3. UNCHANGED <<task, opened, closed, assigned, items>>
  BY DEF MoveCardToDone
<1>4. "done" \in Statuses
  BY DEF Statuses
<1>5. CardsOK'
  BY <1>3, <1>4, Rest, SetColumnType, SetColumnPerhapsType
     DEF MoveCardToDone, RestOK, CardsOK
<1>6. CountersOK'
  BY Rest, CountersType, CannotSetCounts DEF MoveCardToDone
<1>7. RestOK'
  BY <1>3, <1>5, <1>6, Rest DEF RestOK, CardsOK, CountersOK
<1> QED
  BY <1>2, <1>3, <1>7, JudgedOn, KeptIsIInv DEF WorkKept

LEMMA SettleStep ==
  ASSUME IInv, NEW w \in Workers, Settle(w)
  PROVE  IInv'
<1>0. work[w].at = "settle"
  BY DEF Settle, At
<1>1. /\ work[w] \in Coroutine /\ ticket \in Ticket /\ Steady(ticket, ticket)
      /\ Carries(work[w], ticket) /\ work[w].op # "none" /\ ticket.exists
      /\ ticket' = ticket
  BY <1>0, AtWork DEF Settle
<1>2. ticket.review => ticket.reviewed
  BY <1>0, <1>1 DEF Carries
<1> DEFINE c == [work[w] EXCEPT !.settle = FALSE]
<1>3. c \in Coroutine
  BY <1>1 DEF Coroutine
<1>4. Bears(c, ticket')
  BY <1>1 DEF Bears, Carries, Coroutine
<1>5. Continue(w, c)
  BY DEF Settle
<1> HIDE DEF c
<1>6. WorkKept
  BY <1>1, <1>3, <1>4, <1>5, ContinueKeeps
<1>7. task' = Completed /\ UNCHANGED <<github, counters>>
  BY DEF Settle
<1>8. RestOK'
  BY <1>7, CompletedType, Rest DEF RestOK, github, counters
<1>9. opened' = opened
  BY <1>7 DEF github
<1> QED
  BY <1>1, <1>2, <1>6, <1>8, <1>9, JudgedWhenReviewed, KeptIsIInv

-----------------------------------------------------------------------------
(* Alex, and the end of the process.                                       *)

LEMMA AlexStep ==
  ASSUME IInv, Alex
  PROVE  IInv'
<1>1. Moves
  BY DEF Alex, AlexMovesCard, AlexDeletesCard, AlexClosesIssue,
         AlexReopensIssue, AlexLeavesIssue, AlexEndsTask
<1>2. /\ UNCHANGED work /\ ticket' = ticket /\ ticket \in Ticket
      /\ Steady(ticket, ticket')
  BY <1>1 DEF Moves, IInv, TypeOK, Steady
<1>3. WorkKept
  BY <1>2, RestKeeps
<1>4. CountersOK'
  BY <1>1, Rest, BoundsAssumption DEF Moves, RestOK, CountersOK
<1>5. opened' = opened
  BY DEF Alex, AlexMovesCard, AlexDeletesCard, AlexClosesIssue,
         AlexReopensIssue, AlexLeavesIssue, AlexEndsTask, github
<1>6. CardsOK'
  <2>1. CASE AlexMovesCard
    <3>1. PICK i \in Items, column \in Columns : SetColumn(i, column)
      BY <2>1 DEF AlexMovesCard
    <3>2. column \in Statuses \union {NoColumn}
      BY <3>1, ColumnsAssumption
    <3> QED
      BY <2>1, <3>1, <3>2, Rest, SetColumnType DEF AlexMovesCard, RestOK, CardsOK
  <2>2. CASE AlexDeletesCard
    <3>1. PICK i \in Items :
            card' = [card EXCEPT ![i] = [issue |-> 0, column |-> NoColumn]]
      BY <2>2 DEF AlexDeletesCard
    <3> QED
      BY <2>2, <3>1, Rest, BoundsAssumption DEF AlexDeletesCard, RestOK, CardsOK
  <2>3. CASE UNCHANGED <<items, card>>
    BY <2>3, Rest DEF RestOK, CardsOK
  <2> QED
    BY <2>1, <2>2, <2>3 DEF Alex, AlexClosesIssue, AlexReopensIssue,
                            AlexLeavesIssue, AlexEndsTask, github
<1>7. closed' \subseteq 0 .. MaxIssues /\ assigned' \subseteq 0 .. MaxIssues
  <2>1. CASE AlexClosesIssue
    <3>1. (1 .. opened) \subseteq 0 .. MaxIssues
      BY Rest, BoundsAssumption DEF RestOK
    <3> QED
      BY <2>1, <3>1, Rest DEF AlexClosesIssue, RestOK
  <2>2. CASE AlexReopensIssue
    BY <2>2, Rest DEF AlexReopensIssue, RestOK
  <2>3. CASE AlexLeavesIssue
    BY <2>3, Rest DEF AlexLeavesIssue, RestOK
  <2>4. CASE UNCHANGED <<closed, assigned>>
    BY <2>4, Rest DEF RestOK
  <2> QED
    BY <2>1, <2>2, <2>3, <2>4 DEF Alex, AlexMovesCard, AlexDeletesCard,
                                  AlexEndsTask, github
<1>8. /\ task'.by = task.by \/ task'.by # "engineering"
      /\ task' \in [status : {"todo", "in_progress", "blocked"} \union Closed,
                    by : {"nobody", "alex", "engineering"}]
  <2>1. CASE AlexEndsTask
    BY <2>1 DEF AlexEndsTask, Closed
  <2>2. CASE UNCHANGED task
    BY <2>2, Rest DEF RestOK
  <2> QED
    BY <2>1, <2>2 DEF Alex, AlexMovesCard, AlexDeletesCard, AlexClosesIssue,
                      AlexReopensIssue, AlexLeavesIssue
<1>9. RestOK'
  BY <1>4, <1>5, <1>6, <1>7, <1>8, Rest DEF RestOK, CardsOK, CountersOK
<1> QED
  BY <1>2, <1>3, <1>5, <1>8, <1>9, JudgedOn, KeptIsIInv

LEMMA ExitStep ==
  ASSUME IInv, Exit
  PROVE  IInv'
<1>1. /\ ticket' = ticket /\ ticket \in Ticket /\ Steady(ticket, ticket')
      /\ task' = task /\ opened' = opened
  BY DEF Exit, IInv, TypeOK, Steady, github
<1>2. WorkKept
  BY <1>1, IdleType, IdleCarries DEF Exit, WorkKept
<1>3. RestOK'
  BY Rest, BoundsAssumption DEF RestOK, Exit, github
<1> QED
  BY <1>1, <1>2, <1>3, JudgedOn, KeptIsIInv

LEMMA StutterStep ==
  ASSUME IInv, UNCHANGED vars
  PROVE  IInv'
<1>1. /\ ticket' = ticket /\ ticket \in Ticket /\ Steady(ticket, ticket')
      /\ UNCHANGED work /\ task' = task /\ opened' = opened
  BY DEF vars, IInv, TypeOK, Steady, github
<1>2. WorkKept
  BY <1>1, RestKeeps
<1>3. RestOK'
  BY Rest DEF RestOK, vars, github, counters
<1> QED
  BY <1>1, <1>2, <1>3, JudgedOn, KeptIsIInv

-----------------------------------------------------------------------------
(* The theorems.                                                           *)

\* What every reachable state satisfies, for any callers, requests, boards and
\* bounds: the types, what each coroutine carries, and what was judged by it.
THEOREM TicketInvariant == Spec => []IInv
<1>1. Init => IInv
  <2> SUFFICES ASSUME Init PROVE IInv
    OBVIOUS
  <2>1. RestOK /\ ticket \in Ticket /\ work \in [Workers -> Coroutine]
    BY IdleType, BoundsAssumption DEF Init, RestOK, Items
  <2>2. Carrying
    BY IdleCarries DEF Init, Carrying
  <2>3. Judged
    BY DEF Init, Judged, CompletedWasReviewed
  <2> QED
    BY <2>1, <2>2, <2>3, TypeParts DEF IInv
<1>2. IInv /\ [Next]_vars => IInv'
  <2> SUFFICES ASSUME IInv, [Next]_vars PROVE IInv'
    OBVIOUS
  <2>1. ASSUME NEW w \in Workers, Ask(w) PROVE IInv'
    BY <2>1, ReserveStep, AskToMoveStep, AskToCloseStep, AskToSyncStep DEF Ask
  <2>2. ASSUME NEW w \in Workers, Step(w) PROVE IInv'
    BY <2>2, VerifyStep, OpenIssueStep, OpenIssueFails, OpenedStep, AssignStep,
       AddCardStep, StatusStep, FillFieldsStep, MoveStep, NoteStep,
       ShutDoneStep, CompleteStep, ShutStep, ReadStep, MoveCardToDoneStep,
       SettleStep, RetryStep
       DEF Step
  <2> QED
    BY <2>1, <2>2, LoopSyncsStep, AlexStep, ExitStep, StutterStep DEF Next
<1> QED
  BY <1>1, <1>2, PTL DEF Spec

\* Every variable keeps its type.
THEOREM TypeCorrect == Spec => []TypeOK
<1>1. IInv => TypeOK
  BY DEF IInv
<1> QED
  BY <1>1, TicketInvariant, PTL

\* The service completes the task of a ticket that requires a security review
\* only when the review was recorded, however the coroutines of its tools and
\* of its periodic sync interleave, with each other and with Alex.
THEOREM CompletedTasksWereReviewed == Spec => []CompletedWasReviewed
<1>1. IInv => CompletedWasReviewed
  BY DEF IInv, Judged
<1> QED
  BY <1>1, TicketInvariant, PTL

\* A task that is completed or cancelled is not changed again by the service.
THEOREM ClosedTasksStay == Spec => ClosedTaskStays
<1>1. [Next]_vars => [task.status \in Closed => UNCHANGED task]_vars
  <2> SUFFICES ASSUME Next, task.status \in Closed PROVE task' = task
    BY DEF vars
  <2>1. Completed = task /\ \A status : Mirrored(status) = task
    BY DEF Completed, Mirrored
  <2>2. ASSUME NEW w \in Workers, Ask(w) PROVE task' = task
    BY <2>2 DEF Ask, Reserve, AskToMove, AskToClose, AskToSync
  <2>3. ASSUME NEW w \in Workers, Step(w) PROVE task' = task
    <3>1. CASE Verify(w) \/ VerifyRaises(w) \/ OpenIssue(w) \/ OpenIssueRaises(w)
               \/ OpenIssueUnheard(w) \/ Opened(w) \/ Assign(w) \/ AssignRefused(w)
      BY <3>1 DEF Verify, VerifyRaises, OpenIssue, OpenIssueRaises,
                  OpenIssueUnheard, Opened, Assign, AssignRefused
    <3>2. CASE AddCard(w) \/ AddCardRaises(w) \/ SetStatus(w) \/ StatusNotSet(w)
               \/ FillFields(w) \/ Move(w) \/ MoveRaises(w) \/ Note(w)
               \/ NoteRaises(w)
      BY <2>1, <3>2 DEF AddCard, AddCardRaises, SetStatus, StatusNotSet,
                        FillFields, Move, MoveRaises, Note, NoteRaises
    <3>3. CASE ShutDone(w) \/ Complete(w) \/ Shut(w) \/ ShutRaises(w)
               \/ ReadRaises(w) \/ MoveCardToDone(w) \/ Settle(w) \/ Retry(w)
      BY <2>1, <3>3 DEF ShutDone, Complete, Shut, ShutRaises, ReadRaises,
                        MoveCardToDone, Settle, Retry
    <3>4. CASE ReadIssue(w) \/ ReadCard(w)
      BY <2>1, <3>4 DEF ReadIssue, ReadCard, Adopt
    <3> QED
      BY <2>3, <3>1, <3>2, <3>3, <3>4 DEF Step
  <2>4. LoopSyncs \/ Alex \/ Exit => task' = task
    BY DEF LoopSyncs, Alex, AlexMovesCard, AlexDeletesCard, AlexClosesIssue,
           AlexReopensIssue, AlexLeavesIssue, AlexEndsTask, Exit
  <2> QED
    BY <2>2, <2>3, <2>4 DEF Next
<1> QED
  BY <1>1, PTL DEF Spec, ClosedTaskStays

-----------------------------------------------------------------------------
(***************************************************************************)
(* How many GitHub issues one task can get, for any number of callers,     *)
(* failures and restarts.                                                  *)
(*                                                                         *)
(* An issue nobody recorded is one of three: its answer was lost, the      *)
(* process died with it, or a caller still has it in hand.  Once one is    *)
(* recorded, only callers that read the row before may open another.       *)
(***************************************************************************)

\* Callers that found no issue in the row and will open one, and callers that
\* have opened one and will record it.
Pending == {w \in Callers : /\ work[w].op = "create"
                            /\ work[w].at \in {"verify", "open"}
                            /\ work[w].row.issue = 0}
Holding == {w \in Callers : work[w].at = "opened"}

\* Only create_ticket opens issues, and only for a row that has none; the
\* periodic sync never does.
OnlyCreateOpens ==
  \A w \in Workers :
    /\ work[w].op = "create" => w \in Callers
    /\ work[w].at \in {"open", "opened"} => work[w].op = "create"
    /\ work[w].at = "open" => work[w].row.issue = 0
    /\ work[w].at = "opened" => work[w].row.issue # 0

K == Cardinality(Callers)

Counted ==
  /\ ticket.issue = 0 => opened <= unheard + K * exits + Cardinality(Holding)
  /\ ticket.issue # 0 => opened + Cardinality(Pending) <= unheard + K * exits + K

Accounted == OnlyCreateOpens /\ Counted

-----------------------------------------------------------------------------
(* Counting.                                                               *)

LEMMA KIsNat == K \in Nat
BY CallersAssumption, FS_CardinalityType DEF K

LEMMA Apart ==
  ASSUME NEW A \in SUBSET Callers, NEW B \in SUBSET Callers, A \intersect B = {}
  PROVE  /\ IsFiniteSet(A) /\ Cardinality(A) \in Nat
         /\ IsFiniteSet(B) /\ Cardinality(B) \in Nat
         /\ Cardinality(A) + Cardinality(B) <= K
<1>1. A \union B \in SUBSET Callers
  OBVIOUS
<1>2. /\ IsFiniteSet(A) /\ Cardinality(A) \in Nat
      /\ IsFiniteSet(B) /\ Cardinality(B) \in Nat
      /\ Cardinality(A \union B) <= K
  BY <1>1, CallersAssumption, FS_Subset, FS_CardinalityType DEF K
<1>3. Cardinality(A \union B)
        = Cardinality(A) + Cardinality(B) - Cardinality(A \intersect B)
  BY <1>2, FS_Union
<1>4. Cardinality(A \intersect B) = 0
  BY FS_EmptySet
<1> QED
  BY <1>2, <1>3, <1>4, KIsNat

\* A caller that has an issue in hand is not about to open one.
LEMMA PendingAndHolding ==
  /\ IsFiniteSet(Pending) /\ Cardinality(Pending) \in Nat
  /\ IsFiniteSet(Holding) /\ Cardinality(Holding) \in Nat
  /\ Cardinality(Pending) + Cardinality(Holding) <= K
<1>1. Pending \in SUBSET Callers /\ Holding \in SUBSET Callers
      /\ Pending \intersect Holding = {}
  BY DEF Pending, Holding
<1> QED
  BY <1>1, Apart

LEMMA NextPendingAndHolding ==
  /\ IsFiniteSet(Pending') /\ Cardinality(Pending') \in Nat
  /\ IsFiniteSet(Holding') /\ Cardinality(Holding') \in Nat
  /\ Cardinality(Pending') + Cardinality(Holding') <= K
<1>1. Pending' \in SUBSET Callers /\ Holding' \in SUBSET Callers
      /\ Pending' \intersect Holding' = {}
  BY DEF Pending, Holding
<1> QED
  BY <1>1, Apart

LEMMA Numbers ==
  ASSUME TypeOK
  PROVE  opened \in Nat /\ unheard \in Nat /\ exits \in Nat /\ K * exits \in Nat
<1>1. MaxIssues \in Nat /\ MaxFaults \in Nat
  BY BoundsAssumption
<1>2. faults \in Nat /\ opened \in Nat
  BY <1>1 DEF TypeOK
<1>3. exits \in Nat /\ unheard \in Nat
  BY <1>2 DEF TypeOK
<1> QED
  BY <1>2, <1>3, KIsNat

LEMMA OneMoreExit ==
  ASSUME NEW k \in Nat, NEW e \in Nat
  PROVE  k * (e + 1) = k * e + k /\ k * (1 + e) = k * e + k
OBVIOUS

-----------------------------------------------------------------------------
(* Steps that open nothing and record nothing.                             *)

Quiet(w) ==
  /\ \A v \in Workers \ {w} : work'[v] = work[v]
  /\ work[w].at # "opened"
  /\ work'[w].at \notin {"open", "opened"}
  /\ work'[w].at = "verify" => work'[w].op # "create"
  /\ work'[w].op = "create" => work[w].op = "create"
  /\ opened' = opened /\ unheard' = unheard /\ exits' = exits
  /\ ticket'.issue = ticket.issue

LEMMA QuietStep ==
  ASSUME TypeOK, Accounted, NEW w \in Workers, Quiet(w)
  PROVE  Accounted'
<1>1. OnlyCreateOpens'
  <2>1. ASSUME NEW v \in Workers
        PROVE  /\ work'[v].op = "create" => v \in Callers
               /\ work'[v].at \in {"open", "opened"} => work'[v].op = "create"
               /\ work'[v].at = "open" => work'[v].row.issue = 0
               /\ work'[v].at = "opened" => work'[v].row.issue # 0
    <3>1. CASE v = w
      BY <3>1 DEF Quiet, Accounted, OnlyCreateOpens
    <3>2. CASE v # w
      BY <3>2 DEF Quiet, Accounted, OnlyCreateOpens
    <3> QED
      BY <3>1, <3>2
  <2> QED
    BY <2>1 DEF OnlyCreateOpens
<1>2. Holding' = Holding
  <2>1. \A v \in Callers : work'[v].at = "opened" <=> work[v].at = "opened"
    BY DEF Quiet, Workers
  <2> QED
    BY <2>1 DEF Holding
<1>3. Pending' \in SUBSET Pending
  <2>1. ASSUME NEW v \in Callers, v \in Pending' PROVE v \in Pending
    <3>1. v # w
      BY <2>1 DEF Quiet, Pending
    <3>2. work'[v] = work[v]
      BY <3>1 DEF Quiet, Workers
    <3> QED
      BY <3>2, <2>1 DEF Pending
  <2> QED
    BY <2>1 DEF Pending
<1>4. Cardinality(Pending') <= Cardinality(Pending)
  BY <1>3, PendingAndHolding, FS_Subset
<1>5. Counted'
  <2>1. Cardinality(Holding') = Cardinality(Holding)
    BY <1>2
  <2>2. /\ opened' = opened /\ unheard' = unheard /\ exits' = exits
        /\ ticket'.issue = ticket.issue
    BY DEF Quiet
  <2> DEFINE p == Cardinality(Pending)
             q == Cardinality(Pending')
             h == Cardinality(Holding)
             x == K * exits
  <2>3. /\ p \in Nat /\ q \in Nat /\ h \in Nat /\ x \in Nat /\ K \in Nat
        /\ opened \in Nat /\ unheard \in Nat /\ q <= p
    BY <1>4, PendingAndHolding, NextPendingAndHolding, Numbers, KIsNat
  <2>4. /\ ticket.issue = 0 => opened <= unheard + x + h
        /\ ticket.issue # 0 => opened + p <= unheard + x + K
    BY DEF Accounted, Counted
  <2> SUFFICES /\ ticket.issue = 0 => opened <= unheard + x + h
               /\ ticket.issue # 0 => opened + q <= unheard + x + K
    BY <2>1, <2>2 DEF Counted, K
  <2> HIDE DEF p, q, h, x
  <2> QED
    BY <2>3, <2>4
<1> QED
  BY <1>1, <1>5 DEF Accounted

LEMMA UnchangedWorkStep ==
  ASSUME TypeOK, Accounted, UNCHANGED <<work, opened, unheard, exits>>,
         ticket'.issue = ticket.issue
  PROVE  Accounted'
<1>1. Holding' = Holding /\ Pending' = Pending /\ OnlyCreateOpens'
  BY DEF Holding, Pending, Accounted, OnlyCreateOpens
<1>2. Cardinality(Holding') = Cardinality(Holding)
      /\ Cardinality(Pending') = Cardinality(Pending)
  BY <1>1
<1> QED
  BY <1>1, <1>2 DEF Accounted, Counted, K

\* A step that starts or goes on with a coroutine which opens nothing.
LEMMA StartIsQuiet ==
  ASSUME TypeOK, NEW w \in Workers, NEW c, Start(w, c),
         work[w].at # "opened",
         c.at \notin {"open", "opened"}, c.at = "verify" => c.op # "create",
         c.op = "create" => work[w].op = "create",
         opened' = opened, unheard' = unheard, exits' = exits,
         ticket'.issue = ticket.issue
  PROVE  Quiet(w)
<1>1. work \in [Workers -> Coroutine]
  BY DEF TypeOK
<1>2. work'[w] = c /\ \A v \in Workers \ {w} : work'[v] = work[v]
  BY <1>1 DEF Start
<1> QED
  BY <1>2 DEF Quiet

LEMMA ReturnIsQuiet ==
  ASSUME TypeOK, NEW w \in Workers, Return(w), work[w].at # "opened",
         opened' = opened, unheard' = unheard, exits' = exits,
         ticket'.issue = ticket.issue
  PROVE  Quiet(w)
<1>1. Start(w, Idle) /\ Idle.at = "idle" /\ Idle.op = "none"
  BY DEF Return, Start, Idle
<1> QED
  BY <1>1, StartIsQuiet

LEMMA GotoIsQuiet ==
  ASSUME TypeOK, NEW w \in Workers, NEW place, Goto(w, place),
         place \notin {"verify", "open", "opened"}, work[w].at # "opened",
         opened' = opened, unheard' = unheard, exits' = exits,
         ticket'.issue = ticket.issue
  PROVE  Quiet(w)
<1> DEFINE c == [work[w] EXCEPT !.at = place]
<1>1. Start(w, c)
  BY DEF Goto, Start
<1>2. work[w] \in Coroutine
  BY DEF TypeOK
<1>3. c.at = place /\ c.op = work[w].op
  BY <1>2 DEF Coroutine
<1> HIDE DEF c
<1> QED
  BY <1>1, <1>3, StartIsQuiet

LEMMA ProceedIsQuiet ==
  ASSUME TypeOK, NEW w \in Workers, NEW saved \in Ticket, NEW row, NEW place,
         Proceed(w, saved, row, place), saved.issue = ticket.issue,
         place \notin {"verify", "open", "opened"}, work[w].at # "opened",
         opened' = opened, unheard' = unheard, exits' = exits
  PROVE  Quiet(w)
<1>1. CASE place = "end"
  <2>1. Return(w) /\ ticket'.issue = saved.issue
    BY <1>1 DEF Proceed, Ticket
  <2> QED
    BY <2>1, ReturnIsQuiet
<1>2. CASE place # "end"
  <2> DEFINE c == [work[w] EXCEPT !.at = place, !.row = row]
  <2>1. work[w] \in Coroutine
    BY DEF TypeOK
  <2>2. c.at = place /\ c.op = work[w].op
    BY <2>1 DEF Coroutine
  <2>3. Start(w, c) /\ ticket' = saved
    BY <1>2 DEF Proceed
  <2> HIDE DEF c
  <2> QED
    BY <2>2, <2>3, StartIsQuiet
<1> QED
  BY <1>1, <1>2

LEMMA ContinueIsQuiet ==
  ASSUME TypeOK, NEW w \in Workers, NEW c, Continue(w, c),
         \A place : LET d == [c EXCEPT !.at = place]
                    IN d.at = place /\ d.op = work[w].op,
         work[w].at # "opened",
         opened' = opened, unheard' = unheard, exits' = exits,
         ticket'.issue = ticket.issue
  PROVE  Quiet(w)
<1> DEFINE place == AfterCard(c)
<1>1. place \in {"settle", "retry", "idle"}
  BY DEF AfterCard
<1>2. CASE place = "idle"
  BY <1>2, ReturnIsQuiet DEF Continue, Return, Start
<1>3. CASE place # "idle"
  <2> DEFINE d == [c EXCEPT !.at = place]
  <2>1. Start(w, d)
    BY <1>3 DEF Continue
  <2>2. d.at = place /\ d.op = work[w].op
    OBVIOUS
  <2> HIDE DEF d
  <2> QED
    BY <1>1, <2>1, <2>2, StartIsQuiet
<1> QED
  BY <1>2, <1>3

-----------------------------------------------------------------------------
(* Each step of a worker.                                                  *)

LEMMA RetryIsQuiet ==
  ASSUME IInv, NEW w \in Workers, Retry(w)
  PROVE  Quiet(w)
<1> DEFINE c == [Idle EXCEPT !.op = "retry", !.at = "verify", !.row = ticket]
<1>1. /\ TypeOK /\ work[w].at # "opened"
      /\ opened' = opened /\ unheard' = unheard /\ exits' = exits /\ ticket' = ticket
  BY DEF IInv, Retry, At, github, counters
<1>2. CASE Return(w)
  BY <1>1, <1>2, ReturnIsQuiet
<1>3. CASE Start(w, c)
  <2>1. c.op = "retry" /\ c.at = "verify"
    BY DEF Idle
  <2> HIDE DEF c
  <2> QED
    BY <1>1, <1>3, <2>1, StartIsQuiet
<1> QED
  BY <1>2, <1>3 DEF Retry

LEMMA AssignIsQuiet ==
  ASSUME IInv, NEW w \in Workers, Assign(w) \/ AssignRefused(w)
  PROVE  Quiet(w)
<1>1. /\ TypeOK /\ ticket \in Ticket /\ work[w].at # "opened"
      /\ opened' = opened /\ unheard' = unheard /\ exits' = exits
  BY DEF IInv, TypeOK, Assign, AssignRefused, At, Answers, Raises, counters
<1>2. work[w].row \in Ticket /\ work[w].row.sync \in SyncStates
  BY DEF IInv, TypeOK, Coroutine, Ticket
<1>3. PICK saved \in Ticket :
        /\ saved.issue = ticket.issue
        /\ Proceed(w, saved, saved, FromItem(work[w].op, saved))
  <2>1. CASE Assign(w)
    <3> DEFINE u == [ticket EXCEPT !.confirmed = TRUE, !.sync = work[w].row.sync]
    <3>1. u \in Ticket /\ u.issue = ticket.issue
      BY <1>1, <1>2 DEF Ticket
    <3> QED
      BY <2>1, <3>1 DEF Assign
  <2>2. CASE AssignRefused(w)
    <3> DEFINE u == [ticket EXCEPT !.confirmed = FALSE, !.sync = "degraded"]
    <3>1. u \in Ticket /\ u.issue = ticket.issue
      BY <1>1 DEF Ticket, SyncStates
    <3> QED
      BY <2>2, <3>1 DEF AssignRefused
  <2> QED
    BY <2>1, <2>2
<1> QED
  BY <1>1, <1>3, ProceedIsQuiet, PlacesAfter

LEMMA AddCardIsQuiet ==
  ASSUME IInv, NEW w \in Workers, AddCard(w) \/ AddCardRaises(w)
  PROVE  Quiet(w)
<1>1. /\ TypeOK /\ ticket \in Ticket /\ work[w].at # "opened"
      /\ opened' = opened /\ unheard' = unheard /\ exits' = exits
  BY DEF IInv, TypeOK, AddCard, AddCardRaises, At, Answers, Raises, counters
<1>2. PICK saved \in Ticket :
        /\ saved.issue = ticket.issue
        /\ Proceed(w, saved, saved, FromStatus(work[w].op, saved))
  <2>1. CASE AddCard(w)
    <3>1. PICK i \in Items :
            LET u == [ticket EXCEPT !.item = i]
            IN Proceed(w, u, u, FromStatus(work[w].op, u))
      BY <2>1 DEF AddCard
    <3>2. [ticket EXCEPT !.item = i] \in Ticket
          /\ [ticket EXCEPT !.item = i].issue = ticket.issue
      BY <1>1, BoundsAssumption DEF Ticket, Items
    <3> QED
      BY <3>1, <3>2
  <2>2. CASE AddCardRaises(w)
    <3> DEFINE u == [ticket EXCEPT !.sync = "degraded"]
    <3>1. u \in Ticket /\ u.issue = ticket.issue
      BY <1>1 DEF Ticket, SyncStates
    <3> QED
      BY <2>2, <3>1 DEF AddCardRaises
  <2> QED
    BY <2>1, <2>2
<1> QED
  BY <1>1, <1>2, ProceedIsQuiet, PlacesAfter

LEMMA StatusIsQuiet ==
  ASSUME IInv, NEW w \in Workers,
         SetStatus(w) \/ StatusNotSet(w) \/ FillFields(w)
  PROVE  Quiet(w)
<1>1. /\ TypeOK /\ ticket \in Ticket /\ work[w].at # "opened"
      /\ opened' = opened /\ unheard' = unheard /\ exits' = exits
  BY DEF IInv, TypeOK, SetStatus, StatusNotSet, FillFields, At, CannotSet,
         Answers, Raises, counters, github
<1>2. CASE SetStatus(w)
  <2> DEFINE u == [ticket EXCEPT !.status = TargetOf(work[w])]
  <2>1. work[w] \in Coroutine /\ work[w].row \in Ticket
    BY DEF IInv, TypeOK, Coroutine
  <2>2. TargetOf(work[w]) \in Statuses
    BY <2>1 DEF TargetOf, Ticket, Statuses
  <2>3. u \in Ticket /\ u.issue = ticket.issue
    BY <1>1, <2>2 DEF Ticket
  <2>4. Proceed(w, u, u, AfterStatus(work[w].op))
    BY <1>2 DEF SetStatus
  <2> HIDE DEF u
  <2> QED
    BY <1>1, <2>3, <2>4, ProceedIsQuiet, PlacesAfter
<1>3. CASE StatusNotSet(w)
  <2> DEFINE u == [ticket EXCEPT !.sync = "degraded"]
  <2>1. u \in Ticket /\ u.issue = ticket.issue
    BY <1>1 DEF Ticket, SyncStates
  <2>2. Proceed(w, u, u, AfterStatus(work[w].op))
    BY <1>3 DEF StatusNotSet
  <2> HIDE DEF u
  <2> QED
    BY <1>1, <2>1, <2>2, ProceedIsQuiet, PlacesAfter
<1>4. CASE FillFields(w)
  <2>1. Proceed(w, ticket, work[w].row, "end")
    BY <1>4 DEF FillFields
  <2> QED
    BY <1>1, <2>1, ProceedIsQuiet
<1> QED
  BY <1>2, <1>3, <1>4

LEMMA MoveIsQuiet ==
  ASSUME IInv, NEW w \in Workers, Move(w) \/ MoveRaises(w)
  PROVE  Quiet(w)
<1>1. /\ TypeOK /\ ticket \in Ticket /\ work[w].at # "opened"
      /\ opened' = opened /\ unheard' = unheard /\ exits' = exits
  BY DEF IInv, TypeOK, Move, MoveRaises, At, CannotSet, Answers, Raises, counters
<1>2. CASE Move(w)
  <2> DEFINE u == [ticket EXCEPT !.status = work[w].target]
  <2>1. work[w].target \in Statuses
    BY DEF IInv, TypeOK, Coroutine
  <2>2. u \in Ticket /\ u.issue = ticket.issue
    BY <1>1, <2>1 DEF Ticket
  <2>3. Proceed(w, u, u, "note")
    BY <1>2 DEF Move
  <2> HIDE DEF u
  <2> QED
    BY <1>1, <2>2, <2>3, ProceedIsQuiet
<1>3. CASE MoveRaises(w)
  BY <1>1, <1>3, ReturnIsQuiet DEF MoveRaises
<1> QED
  BY <1>2, <1>3

LEMMA NoteIsQuiet ==
  ASSUME IInv, NEW w \in Workers, Note(w) \/ NoteRaises(w)
  PROVE  Quiet(w)
<1>1. /\ TypeOK /\ ticket \in Ticket /\ work[w].at # "opened"
      /\ opened' = opened /\ unheard' = unheard /\ exits' = exits
  BY DEF IInv, TypeOK, Note, NoteRaises, At, Raises, counters, github
<1>2. CASE Return(w) /\ UNCHANGED ticket
  BY <1>1, <1>2, ReturnIsQuiet
<1>3. CASE Note(w) /\ ~(Return(w) /\ UNCHANGED ticket)
  <2> DEFINE u == [ticket EXCEPT !.reviewed = TRUE]
  <2>1. u \in Ticket /\ u.issue = ticket.issue
    BY <1>1 DEF Ticket
  <2>2. \/ Proceed(w, u, u, "shut")
        \/ Proceed(w, ticket, work[w].row, "shut")
    BY <1>3 DEF Note
  <2> HIDE DEF u
  <2> QED
    BY <1>1, <2>1, <2>2, ProceedIsQuiet
<1> QED
  BY <1>2, <1>3 DEF NoteRaises

LEMMA ClosingIsQuiet ==
  ASSUME IInv, NEW w \in Workers,
         ShutDone(w) \/ Complete(w) \/ Shut(w) \/ ShutRaises(w)
  PROVE  Quiet(w)
<1>1. /\ TypeOK /\ ticket \in Ticket /\ work[w].at # "opened"
      /\ opened' = opened /\ unheard' = unheard /\ exits' = exits
  BY DEF IInv, TypeOK, ShutDone, Complete, Shut, ShutRaises, At, Answers, Raises,
         counters, github
<1>2. ticket'.issue = ticket.issue
  BY <1>1 DEF ShutDone, Complete, Shut, ShutRaises, Finished, Ticket
<1>3. CASE ShutDone(w)
  BY <1>1, <1>2, <1>3, GotoIsQuiet DEF ShutDone
<1>4. CASE Shut(w) /\ Goto(w, "card")
  BY <1>1, <1>2, <1>4, GotoIsQuiet
<1>5. CASE Return(w)
  BY <1>1, <1>2, <1>5, ReturnIsQuiet
<1> QED
  BY <1>3, <1>4, <1>5 DEF Complete, Shut, ShutRaises

LEMMA RaisingIsQuiet ==
  ASSUME IInv, NEW w \in Workers,
         VerifyRaises(w) \/ OpenIssueRaises(w) \/ ReadRaises(w)
  PROVE  Quiet(w)
<1>1. /\ TypeOK /\ ticket \in Ticket /\ work[w].at # "opened"
      /\ opened' = opened /\ unheard' = unheard /\ exits' = exits /\ Return(w)
  BY DEF IInv, TypeOK, VerifyRaises, OpenIssueRaises, ReadRaises, Degrade, At,
         Raises, counters, github
<1>2. ticket'.issue = ticket.issue
  BY <1>1 DEF VerifyRaises, OpenIssueRaises, ReadRaises, Degrade, Ticket
<1> QED
  BY <1>1, <1>2, ReturnIsQuiet

LEMMA AskingIsQuiet ==
  ASSUME IInv, NEW w \in Workers,
         AskToMove(w) \/ AskToClose(w) \/ AskToSync(w)
  PROVE  Quiet(w)
<1>1. /\ TypeOK /\ work[w].at # "opened"
      /\ opened' = opened /\ unheard' = unheard /\ exits' = exits /\ ticket' = ticket
  BY DEF IInv, AskToMove, AskToClose, AskToSync, Asked, At, counters, github
<1> DEFINE Asks(c) == /\ c.at \in {"verify", "read"}
                      /\ c.op \in {"transition", "close", "sync", "sync_all"}
<1>2. \E c : Start(w, c) /\ Asks(c)
  <2>1. CASE AskToMove(w)
    <3>1. PICK target \in Statuses \ {"backlog"} :
            Start(w, [Idle EXCEPT !.op = "transition", !.at = "verify",
                                  !.row = ticket, !.from = ticket.status,
                                  !.target = target])
      BY <2>1 DEF AskToMove
    <3>2. Asks([Idle EXCEPT !.op = "transition", !.at = "verify",
                            !.row = ticket, !.from = ticket.status,
                            !.target = target])
      BY DEF Idle
    <3> HIDE DEF Asks
    <3> QED
      BY <3>1, <3>2
  <2>2. CASE AskToClose(w)
    <3> DEFINE c == [Idle EXCEPT !.op = "close", !.at = "verify", !.row = ticket]
    <3>1. Start(w, c)
      BY <2>2 DEF AskToClose
    <3>2. Asks(c)
      BY DEF Idle
    <3> HIDE DEF Asks, c
    <3> QED
      BY <3>1, <3>2
  <2>3. CASE AskToSync(w)
    <3> DEFINE c(op) == [Idle EXCEPT !.op = op, !.at = "read", !.row = ticket]
    <3>1. PICK op \in {"sync", "sync_all"} : Start(w, c(op))
      BY <2>3 DEF AskToSync, StartSync
    <3>2. Asks(c(op))
      BY DEF Idle
    <3> HIDE DEF Asks, c
    <3> QED
      BY <3>1, <3>2
  <2> QED
    BY <2>1, <2>2, <2>3
<1> QED
  BY <1>1, <1>2, StartIsQuiet

LEMMA LoopSyncsIsQuiet ==
  ASSUME IInv, LoopSyncs
  PROVE  Quiet(Loop)
<1>1. /\ TypeOK /\ work[Loop].at # "opened" /\ Loop \in Workers
      /\ opened' = opened /\ unheard' = unheard /\ exits' = exits /\ ticket' = ticket
  BY DEF IInv, LoopSyncs, At, counters, github, Workers
<1> DEFINE c == [Idle EXCEPT !.op = "sync_all", !.at = "read", !.row = ticket]
<1>2. Start(Loop, c)
  BY DEF LoopSyncs, StartSync
<1>3. c.at = "read" /\ c.op = "sync_all"
  BY DEF Idle
<1> HIDE DEF c
<1> QED
  BY <1>1, <1>2, <1>3, StartIsQuiet

LEMMA AdoptIsQuiet ==
  ASSUME IInv, NEW w \in Workers, work[w].at # "opened",
         NEW open, NEW accepted, NEW column, NEW lost,
         Adopt(w, open, accepted, column, lost), UNCHANGED <<github, counters>>
  PROVE  Quiet(w)
<1> DEFINE row == work[w].row
           moved == column \notin {NoColumn, row.status}
           seen == IF moved THEN column ELSE row.status
           stageDone == row.kind = "production" /\ ~open
           status == IF stageDone THEN "done" ELSE seen
           changed == moved \/ (stageDone /\ seen # "done")
           passed == seen = "done" /\ row.status = "security_review"
           satisfied == status = "done" /\ (row.review => row.reviewed \/ passed)
           sync == CASE ~open /\ satisfied -> "synced"
                     [] ~open /\ ~satisfied -> "needs_reconciliation"
                     [] open /\ lost -> "degraded"
                     [] open /\ ~lost /\ (changed \/ row.sync # "synced") -> "synced"
                     [] OTHER -> ticket.sync
           saved == [ticket EXCEPT
                       !.item = IF lost THEN 0 ELSE @,
                       !.confirmed = IF accepted # row.confirmed THEN accepted ELSE @,
                       !.status = IF changed THEN status ELSE @,
                       !.reviewed = @ \/ passed,
                       !.sync = sync]
           settle == ~open /\ satisfied /\ saved.status = "done"
           repair == lost /\ work[w].op = "sync_all"
           after == [work[w] EXCEPT !.row = saved, !.settle = settle,
                                    !.repair = repair]
<1>1. /\ TypeOK /\ work[w] \in Coroutine /\ ticket \in Ticket
      /\ opened' = opened /\ unheard' = unheard /\ exits' = exits
  BY DEF IInv, TypeOK, github, counters
<1>2. /\ ticket' = saved
      /\ \/ Start(w, [after EXCEPT !.at = "card"])
         \/ Continue(w, after)
  BY DEF Adopt
<1> HIDE DEF sync, seen, status, passed, satisfied, changed
<1>3. saved.issue = ticket.issue
  BY <1>1 DEF Ticket
<1> HIDE DEF saved, settle, repair
<1>4. \A place : LET d == [after EXCEPT !.at = place]
                 IN d.at = place /\ d.op = work[w].op
  BY <1>1 DEF Coroutine
<1> HIDE DEF after
<1>5. CASE Continue(w, after)
  BY <1>1, <1>2, <1>3, <1>4, <1>5, ContinueIsQuiet
<1>6. CASE Start(w, [after EXCEPT !.at = "card"])
  <2> DEFINE c == [after EXCEPT !.at = "card"]
  <2>1. c.at = "card" /\ c.op = work[w].op
    BY <1>4
  <2>2. Start(w, c)
    BY <1>6
  <2> HIDE DEF c
  <2> QED
    BY <1>1, <1>2, <1>3, <2>1, <2>2, StartIsQuiet
<1> QED
  BY <1>2, <1>5, <1>6

LEMMA ReadIsQuiet ==
  ASSUME IInv, NEW w \in Workers, ReadIssue(w) \/ ReadCard(w)
  PROVE  Quiet(w)
<1>1. /\ TypeOK /\ work[w].at # "opened" /\ UNCHANGED <<github, counters>>
  BY DEF IInv, ReadIssue, ReadCard, At
<1>2. CASE \E open, accepted, column, lost : Adopt(w, open, accepted, column, lost)
  BY <1>1, <1>2, AdoptIsQuiet
<1>3. CASE ReadIssue(w) /\ work[w].row.item # 0
  <2> DEFINE c(open, accepted) ==
        [work[w] EXCEPT !.at = "board", !.open = open, !.assigned = accepted]
  <2>1. PICK open, accepted : Start(w, c(open, accepted)) /\ ticket' = ticket
    BY <1>3 DEF ReadIssue
  <2>2. work[w] \in Coroutine
    BY <1>1 DEF TypeOK
  <2>3. c(open, accepted).at = "board" /\ c(open, accepted).op = work[w].op
    BY <2>2 DEF Coroutine
  <2>4. opened' = opened /\ unheard' = unheard /\ exits' = exits
    BY <1>1 DEF github, counters
  <2> HIDE DEF c
  <2> QED
    BY <1>1, <2>1, <2>3, <2>4, StartIsQuiet
<1>4. CASE ReadIssue(w) /\ work[w].row.item = 0
  <2>1. Adopt(w, work[w].row.issue \notin closed, work[w].row.issue \in assigned,
              NoColumn, FALSE)
    BY <1>4 DEF ReadIssue
  <2> QED
    BY <2>1, <1>2
<1>5. CASE ReadCard(w)
  BY <1>2, <1>5 DEF ReadCard
<1> QED
  BY <1>3, <1>4, <1>5

LEMMA CardAndTaskAreQuiet ==
  ASSUME IInv, NEW w \in Workers, MoveCardToDone(w) \/ Settle(w)
  PROVE  Quiet(w)
<1>1. /\ TypeOK /\ ticket \in Ticket /\ work[w] \in Coroutine /\ work[w].at # "opened"
      /\ opened' = opened /\ unheard' = unheard /\ exits' = exits
  BY DEF IInv, TypeOK, MoveCardToDone, Settle, At, CannotSet, Answers, Raises,
         counters, github
<1>2. ticket'.issue = ticket.issue
  BY <1>1 DEF MoveCardToDone, Settle, Finished, Ticket
<1>3. CASE Return(w)
  BY <1>1, <1>2, <1>3, ReturnIsQuiet
<1>4. CASE Continue(w, work[w])
  <2>1. \A place : LET d == [work[w] EXCEPT !.at = place]
                   IN d.at = place /\ d.op = work[w].op
    BY <1>1 DEF Coroutine
  <2> QED
    BY <1>1, <1>2, <1>4, <2>1, ContinueIsQuiet
<1>5. CASE Settle(w)
  <2> DEFINE c == [work[w] EXCEPT !.settle = FALSE]
  <2>1. \A place : LET d == [c EXCEPT !.at = place]
                   IN d.at = place /\ d.op = work[w].op
    BY <1>1 DEF Coroutine
  <2>2. Continue(w, c)
    BY <1>5 DEF Settle
  <2> HIDE DEF c
  <2> QED
    BY <1>1, <1>2, <2>1, <2>2, ContinueIsQuiet
<1> QED
  BY <1>3, <1>4, <1>5 DEF MoveCardToDone

-----------------------------------------------------------------------------
(* Steps that open or record an issue, or start or end those that do.      *)

OthersStay(w) == \A v \in Workers \ {w} : work'[v] = work[v]

LEMMA OthersCount ==
  ASSUME NEW w \in Workers, OthersStay(w)
  PROVE  Pending' \ {w} = Pending \ {w} /\ Holding' \ {w} = Holding \ {w}
<1>1. \A v \in Callers \ {w} : work'[v] = work[v]
  BY DEF OthersStay, Workers
<1> QED
  BY <1>1 DEF Pending, Holding

LEMMA OthersOpen ==
  ASSUME OnlyCreateOpens, NEW w \in Workers, OthersStay(w),
         work'[w].op = "create" => w \in Callers,
         work'[w].at \in {"open", "opened"} => work'[w].op = "create",
         work'[w].at = "open" => work'[w].row.issue = 0,
         work'[w].at = "opened" => work'[w].row.issue # 0
  PROVE  OnlyCreateOpens'
<1>1. ASSUME NEW v \in Workers
      PROVE  /\ work'[v].op = "create" => v \in Callers
             /\ work'[v].at \in {"open", "opened"} => work'[v].op = "create"
             /\ work'[v].at = "open" => work'[v].row.issue = 0
             /\ work'[v].at = "opened" => work'[v].row.issue # 0
  <2>1. CASE v = w
    BY <2>1
  <2>2. CASE v # w
    BY <2>2 DEF OthersStay, OnlyCreateOpens
  <2> QED
    BY <2>1, <2>2
<1> QED
  BY <1>1 DEF OnlyCreateOpens

LEMMA VerifyAccounts ==
  ASSUME IInv, Accounted, NEW w \in Workers, Verify(w)
  PROVE  Accounted'
<1> DEFINE row == work[w].row
           place == FromAssign(work[w].op, row)
           c == [work[w] EXCEPT !.at = "open", !.row = row]
<1>1. /\ TypeOK /\ ticket \in Ticket /\ work \in [Workers -> Coroutine]
      /\ work[w].at = "verify" /\ work[w] \in Coroutine
      /\ opened' = opened /\ unheard' = unheard /\ exits' = exits
  BY DEF IInv, TypeOK, Verify, At, github, counters
<1>2. CASE work[w].op = "create" /\ row.issue = 0
  <2>1. Proceed(w, ticket, row, "open")
    BY <1>2 DEF Verify
  <2>2. ticket' = ticket /\ Start(w, c)
    BY <2>1 DEF Proceed
  <2>3. c.at = "open" /\ c.op = "create" /\ c.row.issue = 0
    BY <1>1, <1>2 DEF Coroutine
  <2> HIDE DEF c
  <2>4. work'[w] = c /\ OthersStay(w)
    BY <1>1, <2>2 DEF Start, OthersStay
  <2>5. w \in Callers
    BY <1>2 DEF Accounted, OnlyCreateOpens
  <2>6. OnlyCreateOpens'
    BY <2>3, <2>4, <2>5, OthersOpen DEF Accounted
  <2>7. w \in Pending /\ w \in Pending' /\ w \notin Holding /\ w \notin Holding'
    BY <1>1, <1>2, <2>3, <2>4, <2>5 DEF Pending, Holding
  <2>8. Pending' = Pending /\ Holding' = Holding
    BY <2>4, <2>7, OthersCount
  <2>9. Cardinality(Pending') = Cardinality(Pending)
        /\ Cardinality(Holding') = Cardinality(Holding)
    BY <2>8
  <2> QED
    BY <1>1, <2>2, <2>6, <2>9 DEF Accounted, Counted, K
<1>3. CASE ~(work[w].op = "create" /\ row.issue = 0)
  <2>1. \/ Proceed(w, ticket, row, "move")
        \/ Proceed(w, ticket, row, "shut")
        \/ Proceed(w, ticket, row, place)
    BY <1>3 DEF Verify
  <2>2. place \notin {"verify", "open", "opened"}
    BY PlacesAfter
  <2> HIDE DEF place, row
  <2>3. Quiet(w)
    BY <1>1, <2>1, <2>2, ProceedIsQuiet
  <2> QED
    BY <1>1, <2>3, QuietStep
<1> QED
  BY <1>2, <1>3

\* Whoever is about to open an issue is pending.
LEMMA OpenerIsPending ==
  ASSUME Accounted, NEW w \in Workers, work[w].at = "open"
  PROVE  w \in Pending /\ w \notin Holding /\ w \in Callers /\ work[w].op = "create"
BY DEF Accounted, OnlyCreateOpens, Pending, Holding

LEMMA OpenIssueAccounts ==
  ASSUME IInv, Accounted, NEW w \in Workers, OpenIssue(w)
  PROVE  Accounted'
<1>1. /\ TypeOK /\ ticket' = ticket /\ work \in [Workers -> Coroutine]
      /\ work[w].at = "open" /\ work[w] \in Coroutine /\ work[w].row \in Ticket
      /\ opened' = opened + 1 /\ unheard' = unheard /\ exits' = exits
  BY DEF IInv, TypeOK, OpenIssue, NewIssue, At, Answers, counters, Coroutine
<1> DEFINE r(accepted) == [work[w].row EXCEPT !.issue = opened + 1,
                                              !.confirmed = accepted]
           c(accepted) == [work[w] EXCEPT !.at = "opened", !.row = r(accepted)]
<1>2. PICK accepted \in BOOLEAN : Start(w, c(accepted))
  BY DEF OpenIssue
<1>3. r(accepted).issue = opened + 1
  BY <1>1 DEF Ticket
<1> HIDE DEF r
<1>4. /\ c(accepted).at = "opened" /\ c(accepted).op = work[w].op
      /\ c(accepted).row.issue = opened + 1
  BY <1>1, <1>3 DEF Coroutine
<1> HIDE DEF c
<1>5. work'[w] = c(accepted) /\ OthersStay(w)
  BY <1>1, <1>2 DEF Start, OthersStay
<1>6. w \in Pending /\ w \notin Holding /\ w \in Callers /\ work[w].op = "create"
  BY <1>1, OpenerIsPending
<1>7. opened \in Nat /\ unheard \in Nat /\ K * exits \in Nat /\ K \in Nat
  BY <1>1, Numbers, KIsNat
<1>8. OnlyCreateOpens'
  BY <1>4, <1>5, <1>6, <1>7, OthersOpen DEF Accounted
<1>9. w \notin Pending' /\ w \in Holding'
  BY <1>4, <1>5, <1>6 DEF Pending, Holding
<1>10. Pending' = Pending \ {w} /\ Holding' = Holding \union {w}
  BY <1>5, <1>6, <1>9, OthersCount
<1>11. Cardinality(Pending') = Cardinality(Pending) - 1
       /\ Cardinality(Holding') = Cardinality(Holding) + 1
  BY <1>6, <1>10, PendingAndHolding, FS_AddElement, FS_RemoveElement
<1> DEFINE p == Cardinality(Pending)
           h == Cardinality(Holding)
           x == K * exits
<1>12. p \in Nat /\ h \in Nat
  BY PendingAndHolding
<1>13. /\ ticket.issue = 0 => opened <= unheard + x + h
       /\ ticket.issue # 0 => opened + p <= unheard + x + K
  BY DEF Accounted, Counted
<1>14. /\ ticket.issue = 0 => opened + 1 <= unheard + x + (h + 1)
       /\ ticket.issue # 0 => opened + 1 + (p - 1) <= unheard + x + K
  <2> HIDE DEF p, h, x
  <2> QED
    BY <1>7, <1>12, <1>13 DEF x
<1>15. Counted'
  BY <1>1, <1>11, <1>14 DEF Counted, K
<1> QED
  BY <1>8, <1>15 DEF Accounted

LEMMA OpenIssueUnheardAccounts ==
  ASSUME IInv, Accounted, NEW w \in Workers, OpenIssueUnheard(w)
  PROVE  Accounted'
<1>1. /\ TypeOK /\ ticket' = ticket /\ work \in [Workers -> Coroutine]
      /\ work[w].at = "open"
      /\ opened' = opened + 1 /\ unheard' = unheard + 1 /\ exits' = exits
  BY DEF IInv, TypeOK, OpenIssueUnheard, NewIssue, At
<1>2. w \in Pending /\ w \notin Holding
  BY <1>1, OpenerIsPending
<1>3. /\ OnlyCreateOpens' /\ Holding' = Holding
      /\ Pending' = Pending \/ Pending' = Pending \ {w}
  <2>1. CASE UNCHANGED work
    BY <2>1 DEF Accounted, OnlyCreateOpens, Holding, Pending
  <2>2. CASE Return(w)
    <3>1. work'[w] = Idle /\ OthersStay(w)
      BY <1>1, <2>2 DEF Return, OthersStay
    <3>2. Idle.at = "idle" /\ Idle.op = "none"
      BY DEF Idle
    <3>3. OnlyCreateOpens'
      BY <3>1, <3>2, OthersOpen DEF Accounted
    <3>4. w \notin Pending' /\ w \notin Holding'
      BY <3>1, <3>2 DEF Pending, Holding
    <3> QED
      BY <1>2, <3>1, <3>3, <3>4, OthersCount
  <2> QED
    BY <2>1, <2>2 DEF OpenIssueUnheard
<1>4. Cardinality(Pending') <= Cardinality(Pending)
  BY <1>3, PendingAndHolding, FS_Subset
<1>5. Cardinality(Holding') = Cardinality(Holding)
  BY <1>3
<1> DEFINE p == Cardinality(Pending)
           q == Cardinality(Pending')
           h == Cardinality(Holding)
           x == K * exits
<1>6. /\ p \in Nat /\ q \in Nat /\ h \in Nat /\ x \in Nat /\ K \in Nat
      /\ opened \in Nat /\ unheard \in Nat /\ q <= p
  BY <1>1, <1>4, PendingAndHolding, NextPendingAndHolding, Numbers, KIsNat
<1>7. /\ ticket.issue = 0 => opened <= unheard + x + h
      /\ ticket.issue # 0 => opened + p <= unheard + x + K
  BY DEF Accounted, Counted
<1>8. /\ ticket.issue = 0 => opened + 1 <= unheard + 1 + x + h
      /\ ticket.issue # 0 => opened + 1 + q <= unheard + 1 + x + K
  <2> HIDE DEF p, q, h, x
  <2> QED
    BY <1>6, <1>7
<1>9. Counted'
  BY <1>1, <1>5, <1>8 DEF Counted, K
<1> QED
  BY <1>3, <1>9 DEF Accounted

LEMMA OpenedAccounts ==
  ASSUME IInv, Accounted, NEW w \in Workers, Opened(w)
  PROVE  Accounted'
<1> DEFINE saved == [ticket EXCEPT !.issue = work[w].row.issue,
                                   !.confirmed = work[w].row.confirmed]
           place == FromAssign(work[w].op, saved)
           c == [work[w] EXCEPT !.at = place, !.row = saved]
<1>1. /\ TypeOK /\ ticket \in Ticket /\ work \in [Workers -> Coroutine]
      /\ work[w].at = "opened" /\ work[w] \in Coroutine
      /\ opened' = opened /\ unheard' = unheard /\ exits' = exits
  BY DEF IInv, TypeOK, Opened, At, github, counters
<1>2. work[w].row.issue # 0 /\ work[w].op = "create" /\ w \in Callers
  BY <1>1 DEF Accounted, OnlyCreateOpens
<1>3. saved.issue = work[w].row.issue
  BY <1>1 DEF Ticket
<1>4. place \in {"assign", "item", "status", "end"}
  BY PlacesAfter
<1>5. Proceed(w, saved, saved, place)
  BY DEF Opened
<1> HIDE DEF saved, place
<1>6. /\ ticket'.issue # 0
      /\ OthersStay(w)
      /\ work'[w].at \notin {"verify", "open", "opened"}
  <2>1. CASE place = "end"
    <3>1. ticket'.issue = saved.issue
      <4>1. saved \in Ticket
        BY <1>1, SavedType DEF saved, Coroutine, Ticket
      <4> QED
        BY <2>1, <1>5, <4>1 DEF Proceed, Ticket
    <3>2. work'[w] = Idle /\ OthersStay(w)
      BY <1>1, <2>1, <1>5 DEF Proceed, Return, OthersStay
    <3> QED
      BY <1>2, <1>3, <3>1, <3>2 DEF Idle
  <2>2. CASE place # "end"
    <3>1. ticket' = saved /\ Start(w, c)
      BY <2>2, <1>5 DEF Proceed
    <3>2. c.at = place
      BY <1>1 DEF Coroutine
    <3> HIDE DEF c
    <3>3. work'[w] = c /\ OthersStay(w)
      BY <1>1, <3>1 DEF Start, OthersStay
    <3> QED
      BY <1>2, <1>3, <1>4, <2>2, <3>1, <3>2, <3>3
  <2> QED
    BY <2>1, <2>2
<1>7. OnlyCreateOpens'
  BY <1>2, <1>6, OthersOpen DEF Accounted
<1>8. w \notin Pending /\ w \notin Pending'
  BY <1>1, <1>6 DEF Pending
<1>9. Pending' = Pending
  BY <1>6, <1>8, OthersCount
<1> DEFINE p == Cardinality(Pending)
           h == Cardinality(Holding)
           x == K * exits
<1>10. /\ p \in Nat /\ h \in Nat /\ x \in Nat /\ K \in Nat /\ p + h <= K
       /\ opened \in Nat /\ unheard \in Nat
  BY <1>1, PendingAndHolding, Numbers, KIsNat
<1>11. /\ ticket.issue = 0 => opened <= unheard + x + h
       /\ ticket.issue # 0 => opened + p <= unheard + x + K
  BY DEF Accounted, Counted
<1>12. opened + p <= unheard + x + K
  <2> HIDE DEF p, h, x
  <2> QED
    BY <1>10, <1>11
<1>13. Cardinality(Pending') = p
  BY <1>9
<1>14. Counted'
  BY <1>1, <1>6, <1>12, <1>13 DEF Counted, K
<1> QED
  BY <1>7, <1>14 DEF Accounted

LEMMA ReserveAccounts ==
  ASSUME IInv, Accounted, NEW w \in Workers, Reserve(w)
  PROVE  Accounted'
<1> DEFINE c == [Idle EXCEPT !.op = "create", !.at = "verify", !.row = ticket']
<1>1. /\ TypeOK /\ work \in [Workers -> Coroutine]
      /\ work[w].at = "idle" /\ w \in Callers
      /\ opened' = opened /\ unheard' = unheard /\ exits' = exits
  BY DEF IInv, TypeOK, Reserve, Asked, At, github
<1>2. Start(w, c)
  BY DEF Reserve
<1>3. c.at = "verify" /\ c.row = ticket'
  BY DEF Idle
<1> HIDE DEF c
<1>4. work'[w] = c /\ OthersStay(w)
  BY <1>1, <1>2 DEF Start, OthersStay
<1>5. OnlyCreateOpens'
  BY <1>1, <1>3, <1>4, OthersOpen DEF Accounted
<1>6. Holding' = Holding
  <2>1. w \notin Holding /\ w \notin Holding'
    BY <1>1, <1>3, <1>4 DEF Holding
  <2> QED
    BY <1>4, <2>1, OthersCount
<1>7. Cardinality(Holding') = Cardinality(Holding)
  BY <1>6
<1>8. CASE ticket.exists
  <2>1. ticket' = ticket
    BY <1>8 DEF Reserve
  <2>2. ASSUME ticket.issue # 0 PROVE Cardinality(Pending') = Cardinality(Pending)
    <3>1. w \notin Pending /\ w \notin Pending'
      BY <1>1, <1>3, <1>4, <2>1, <2>2 DEF Pending
    <3>2. Pending' = Pending
      BY <1>4, <3>1, OthersCount
    <3> QED
      BY <3>2
  <2> QED
    BY <1>1, <1>5, <1>7, <2>1, <2>2 DEF Accounted, Counted, K
<1>9. CASE ~ticket.exists
  <2>1. opened = 0
    BY <1>1, <1>9, Numbers DEF IInv, Judged
  <2>2. ticket'.issue = 0
    BY <1>9 DEF Reserve, NoTicket
  <2>3. /\ unheard \in Nat /\ K * exits \in Nat /\ Cardinality(Holding') \in Nat
    BY <1>1, Numbers, NextPendingAndHolding
  <2> DEFINE h == Cardinality(Holding')
             x == K * exits
  <2>4. 0 <= unheard + x + h
    <3> HIDE DEF h, x
    <3> QED
      BY <2>3 DEF h, x
  <2> QED
    BY <1>1, <1>5, <2>1, <2>2, <2>4 DEF Accounted, Counted, K
<1> QED
  BY <1>8, <1>9

LEMMA ExitAccounts ==
  ASSUME IInv, Accounted, Exit
  PROVE  Accounted'
<1>1. /\ TypeOK /\ opened' = opened /\ unheard' = unheard /\ exits' = exits + 1
      /\ ticket' = ticket
      /\ \A w \in Workers : work'[w] = Idle
  BY DEF IInv, Exit, github
<1>2. Idle.at = "idle" /\ Idle.op = "none"
  BY DEF Idle
<1>3. OnlyCreateOpens' /\ Holding' = {} /\ Pending' = {}
  BY <1>1, <1>2 DEF OnlyCreateOpens, Holding, Pending, Workers
<1>4. Cardinality(Holding') = 0 /\ Cardinality(Pending') = 0
  BY <1>3, FS_EmptySet
<1> DEFINE p == Cardinality(Pending)
           h == Cardinality(Holding)
           x == K * exits
           y == K * (exits + 1)
<1>5. /\ p \in Nat /\ h \in Nat /\ x \in Nat /\ K \in Nat /\ p + h <= K
      /\ opened \in Nat /\ unheard \in Nat /\ exits \in Nat
  BY <1>1, PendingAndHolding, Numbers, KIsNat
<1>6. y = x + K
  BY <1>5, OneMoreExit
<1>7. /\ ticket.issue = 0 => opened <= unheard + x + h
      /\ ticket.issue # 0 => opened + p <= unheard + x + K
  BY DEF Accounted, Counted
<1>8. /\ ticket.issue = 0 => opened <= unheard + y + 0
      /\ ticket.issue # 0 => opened + 0 <= unheard + y + K
  <2> HIDE DEF p, h, x, y
  <2> QED
    BY <1>5, <1>6, <1>7
<1>9. Counted'
  BY <1>1, <1>4, <1>8 DEF Counted, K
<1> QED
  BY <1>3, <1>9 DEF Accounted

LEMMA AlexAccounts ==
  ASSUME IInv, Accounted, Alex
  PROVE  Accounted'
<1>1. UNCHANGED <<work, ticket, opened, unheard, exits>>
  BY DEF Alex, AlexMovesCard, AlexDeletesCard, AlexClosesIssue, AlexReopensIssue,
         AlexLeavesIssue, AlexEndsTask, Moves, github
<1> QED
  BY <1>1, UnchangedWorkStep DEF IInv

-----------------------------------------------------------------------------
(* The account.                                                            *)

LEMMA WorkerAccounts ==
  ASSUME IInv, Accounted, NEW w \in Workers, Ask(w) \/ Step(w)
  PROVE  Accounted'
<1>1. CASE Reserve(w)
  BY <1>1, ReserveAccounts
<1>2. CASE Verify(w)
  BY <1>2, VerifyAccounts
<1>3. CASE OpenIssue(w)
  BY <1>3, OpenIssueAccounts
<1>4. CASE OpenIssueUnheard(w)
  BY <1>4, OpenIssueUnheardAccounts
<1>5. CASE Opened(w)
  BY <1>5, OpenedAccounts
<1>6. CASE Quiet(w)
  BY <1>6, QuietStep DEF IInv
<1> QED
  BY <1>1, <1>2, <1>3, <1>4, <1>5, <1>6, RetryIsQuiet, AssignIsQuiet,
     AddCardIsQuiet, StatusIsQuiet, MoveIsQuiet, NoteIsQuiet, ClosingIsQuiet,
     RaisingIsQuiet, AskingIsQuiet, ReadIsQuiet, CardAndTaskAreQuiet
     DEF Ask, Step

\* However callers, lost answers and restarts interleave, each issue opened for
\* the task is accounted for by one of them (engineering_service.py:
\* create_ticket, _ensure_issue).
THEOREM IssuesAreAccountedFor == Spec => []IssuesAccountedFor
<1>1. Init => Accounted
  <2> SUFFICES ASSUME Init PROVE Accounted
    OBVIOUS
  <2>1. \A w \in Workers : work[w].at = "idle" /\ work[w].op = "none"
    BY DEF Init, Idle
  <2>2. opened = 0 /\ unheard = 0 /\ exits = 0 /\ ticket.issue = 0
    BY DEF Init, NoTicket
  <2>3. K * 0 = 0
    BY KIsNat
  <2>4. Cardinality(Holding) \in Nat
    BY PendingAndHolding
  <2> QED
    BY <2>1, <2>2, <2>3, <2>4 DEF Accounted, OnlyCreateOpens, Counted
<1>2. IInv /\ Accounted /\ [Next]_vars => Accounted'
  <2> SUFFICES ASSUME IInv, Accounted, [Next]_vars PROVE Accounted'
    OBVIOUS
  <2>1. CASE \E w \in Workers : Ask(w) \/ Step(w)
    BY <2>1, WorkerAccounts
  <2>2. CASE LoopSyncs
    <3>1. Loop \in Workers /\ TypeOK
      BY DEF Workers, IInv
    <3> QED
      BY <2>2, <3>1, LoopSyncsIsQuiet, QuietStep
  <2>3. CASE Alex
    BY <2>3, AlexAccounts
  <2>4. CASE Exit
    BY <2>4, ExitAccounts
  <2>5. CASE UNCHANGED vars
    BY <2>5, UnchangedWorkStep DEF IInv, vars, github, counters
  <2> QED
    BY <2>1, <2>2, <2>3, <2>4, <2>5 DEF Next
<1>3. IInv /\ Accounted => IssuesAccountedFor
  <2> SUFFICES ASSUME IInv, Accounted PROVE IssuesAccountedFor
    OBVIOUS
  <2>1. opened > 0 => ticket.exists
    BY DEF IInv, Judged
  <2> DEFINE p == Cardinality(Pending)
             h == Cardinality(Holding)
             x == K * exits
             y == K * (1 + exits)
  <2>2. /\ p \in Nat /\ h \in Nat /\ x \in Nat /\ K \in Nat /\ p + h <= K
        /\ opened \in Nat /\ unheard \in Nat /\ exits \in Nat
    BY PendingAndHolding, Numbers, KIsNat DEF IInv
  <2>3. y = x + K
    BY <2>2, OneMoreExit
  <2>4. \/ opened <= unheard + x + h
        \/ opened + p <= unheard + x + K
    BY DEF Accounted, Counted
  <2>5. opened <= unheard + y
    <3> HIDE DEF p, h, x, y
    <3> QED
      BY <2>2, <2>3, <2>4
  <2> QED
    BY <2>1, <2>5 DEF IssuesAccountedFor, K
<1> QED
  BY <1>1, <1>2, <1>3, TicketInvariant, PTL DEF Spec
=============================================================================
