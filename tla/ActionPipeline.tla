--------------------------- MODULE ActionPipeline ---------------------------
(***************************************************************************)
(* The action pipeline: ActionService.propose and execute, ApprovalService *)
(* list_pending and resolve, and expire_stale_approvals.                   *)
(*                                                                         *)
(* A SQLite transaction is one step, because Database.transaction takes    *)
(* the write lock first and rolls back on any exception; between two       *)
(* transactions, and around every await, other coroutines and threads run, *)
(* the process may die, and a coroutine may be cancelled.  A call that     *)
(* only raises (and so rolls back) changes nothing and is not a step.      *)
(*                                                                         *)
(* An action and its approval, when it has one, are created together and   *)
(* linked one to one, so both are indexed by the action.                   *)
(***************************************************************************)
EXTENDS Policy, FiniteSets

CONSTANTS Actions,       \* ids the actions table may hold
          RequestTypes,  \* the action types that are proposed
          ExpiryAge,     \* APPROVAL_EXPIRY_HOURS, in ticks of the clock
          MaxInterruptions  \* bound on process deaths and cancellations

ASSUME RequestTypesAssumption == RequestTypes \subseteq (ActionTypes \ Unsupported)
ASSUME ExpiryAgeAssumption == ExpiryAge \in Nat
ASSUME MaxInterruptionsAssumption == MaxInterruptions \in Nat

VARIABLES
  request,    \* the proposed type, and whether classify calls it critical
  status,     \* actions.status; "none" before the row exists
  risk,       \* actions.risk_level
  approval,   \* approvals.status of the linked row; None without one
  channel,    \* the channel the approval was resolved on, from its audit row
  age,        \* now - approvals.created_at while pending, capped
  pc,         \* where each caller's coroutine stands in execute
  effects,    \* how often the handler's effect has happened in the world
  audit,      \* the audit_log event types written for the action
  interruptions,  \* deaths, cancellations and uncaught exceptions so far
  listening   \* a voice client is connected, and it is not quiet hours

vars == <<request, status, risk, approval, channel, age, pc, effects, audit,
          interruptions, listening>>

Channels == {"web", "voice"}
Callers  == Channels \union {"propose"}   \* who calls execute
PCs      == {"idle", "ready", "calling", "recording"}

Requests ==
  {r \in [type : RequestTypes, critical : BOOLEAN] :
     r.critical => r.type \in ClassifiedTypes}

NoRequest == [type |-> None, critical |-> FALSE]

External(a) == request[a].type \in ExternalTypes

\* classify: YELLOW for a critical event, otherwise no opinion.
Classified(r) == IF r.critical THEN Yellow ELSE None

EffectiveRisk(r) == Escalate(ActionPolicies[r.type], Classified(r))

\* The columns' CHECK lists, less the values no code writes ("proposed" for
\* an action, "cancelled" for an approval).
Statuses ==
  {"none", "awaiting_approval", "approved", "rejected", "executing",
   "succeeded", "failed", "cancelled"}

ApprovalStatuses == {None, "pending", "approved", "rejected", "expired"}

AuditEvents ==
  {"action_rejected_by_policy", "action_proposed", "approval_requested",
   "approval_expired", "approval_approved", "approval_rejected",
   "action_succeeded", "action_failed"}

TypeOK ==
  /\ request \in [Actions -> Requests \union {NoRequest}]
  /\ status \in [Actions -> Statuses]
  /\ risk \in [Actions -> Risks \union {None}]
  /\ approval \in [Actions -> ApprovalStatuses]
  /\ channel \in [Actions -> Channels \union {None}]
  /\ age \in [Actions -> 0 .. ExpiryAge + 1]
  /\ pc \in [Actions -> [Callers -> PCs]]
  /\ effects \in [Actions -> Nat]
  /\ audit \in [Actions -> SUBSET AuditEvents]
  /\ interruptions \in 0 .. MaxInterruptions
  /\ listening \in BOOLEAN

Init ==
  /\ request  = [a \in Actions |-> NoRequest]
  /\ status   = [a \in Actions |-> "none"]
  /\ risk     = [a \in Actions |-> None]
  /\ approval = [a \in Actions |-> None]
  /\ channel  = [a \in Actions |-> None]
  /\ age      = [a \in Actions |-> 0]
  /\ pc       = [a \in Actions |-> [c \in Callers |-> "idle"]]
  /\ effects  = [a \in Actions |-> 0]
  /\ audit    = [a \in Actions |-> {}]
  /\ interruptions  = 0
  /\ listening = FALSE

-----------------------------------------------------------------------------
(* Proposing.  A check that refuses the payload raises and leaves nothing. *)

Goto(a, c, step) == pc' = [pc EXCEPT ![a][c] = step]

\* Mutant of Log: the event replaces the trail instead of extending it.
LogOverwrites(a, event) == audit' = [audit EXCEPT ![a] = {event}]

Log(a, event) == audit' = [audit EXCEPT ![a] = @ \union {event}]

\* The columns propose inserts for a new row.
Insert(a, r, level, st, ap, event) ==
  /\ status[a] = "none"
  /\ request'  = [request  EXCEPT ![a] = r]
  /\ status'   = [status   EXCEPT ![a] = st]
  /\ risk'     = [risk     EXCEPT ![a] = level]
  /\ approval' = [approval EXCEPT ![a] = ap]
  /\ Log(a, event)
  /\ UNCHANGED <<channel, age, effects, interruptions, listening>>

ProposeRed(a, r) ==
  /\ ActionPolicies[r.type] = Red
  /\ Insert(a, r, Red, "rejected", None, "action_rejected_by_policy")
  /\ UNCHANGED pc

ProposeGreen(a, r) ==
  /\ EffectiveRisk(r) = Green
  /\ Insert(a, r, Green, "approved", None, "action_proposed")
  /\ Goto(a, "propose", "ready")

ProposeYellow(a, r) ==
  /\ EffectiveRisk(r) = Yellow
  /\ Insert(a, r, Yellow, "awaiting_approval", "pending", "approval_requested")
  /\ UNCHANGED pc

-----------------------------------------------------------------------------
(* Approvals.  Every transaction that reads them first expires stale ones. *)

\* list_pending_created_before(now - APPROVAL_EXPIRY_HOURS), strictly before.
Stale(a) == approval[a] = "pending" /\ age[a] > ExpiryAge

StaleOnes == {a \in Actions : Stale(a)}

\* repos.actions.transition: compare and set.
\* Mutant of Transitioned: compares with the approval's status name.
TransitionedFromPending(a, from, to) == IF status[a] = "pending" THEN to ELSE status[a]

Transitioned(a, from, to) == IF status[a] = from THEN to ELSE status[a]

\* Mutant of ExpireStale: the approval row itself is not resolved.
ExpireStaleActionsOnly ==
  /\ StaleOnes # {}
  /\ status' = [a \in Actions |-> IF Stale(a) THEN "cancelled" ELSE status[a]]
  /\ UNCHANGED <<request, risk, approval, channel, age, pc, effects, audit,
                 interruptions, listening>>

\* expire_stale_approvals as run by list_pending (pages, voice, the delivery
\* pass), briefings and planning.
ExpireStale ==
  /\ StaleOnes # {}
  /\ approval' = [a \in Actions |-> IF Stale(a) THEN "expired" ELSE approval[a]]
  /\ status' = [a \in Actions |->
                  IF Stale(a) THEN Transitioned(a, "awaiting_approval", "cancelled")
                  ELSE status[a]]
  /\ audit' = [a \in Actions |->
                 IF Stale(a) THEN audit[a] \union {"approval_expired"} ELSE audit[a]]
  /\ UNCHANGED <<request, risk, channel, age, pc, effects, interruptions, listening>>

\* Mutant of DecisionEvent: the decision itself as the event type.
BareDecisionEvent(decision) == decision

DecisionEvent(decision) ==
  IF decision = "approved" THEN "approval_approved" ELSE "approval_rejected"

\* Mutant of Resolvable: nothing expires first.
ResolvableWhenStale(a, decision, c) ==
  /\ approval[a] = "pending"
  /\ ~ (/\ decision = "approved"
        /\ c # "web"
        /\ request[a].type \in WebOnlyApprovalActions)

\* What resolve accepts: a pending approval that has not gone stale.  When it
\* has, the CAS fails after the expiry and everything is rolled back.
Resolvable(a, decision, c) ==
  /\ approval[a] = "pending" /\ ~Stale(a)
  /\ ~ (/\ decision = "approved"
        /\ c # "web"
        /\ request[a].type \in WebOnlyApprovalActions)

\* ApprovalService.resolve: expire the stale, settle this one, and for an
\* approval go on into execute in the same coroutine.
Resolve(a, decision, c) ==
  /\ Resolvable(a, decision, c)
  /\ approval' = [b \in Actions |-> IF b = a THEN decision
                                    ELSE IF Stale(b) THEN "expired" ELSE approval[b]]
  /\ status' = [b \in Actions |->
                  IF b = a THEN Transitioned(a, "awaiting_approval", decision)
                  ELSE IF Stale(b) THEN Transitioned(b, "awaiting_approval", "cancelled")
                  ELSE status[b]]
  /\ audit' = [b \in Actions |->
                 IF b = a THEN audit[a] \union {DecisionEvent(decision)}
                 ELSE IF Stale(b) THEN audit[b] \union {"approval_expired"}
                 ELSE audit[b]]
  /\ channel' = [channel EXCEPT ![a] = c]
  /\ IF decision = "approved" THEN Goto(a, c, "ready") ELSE UNCHANGED pc
  /\ UNCHANGED <<request, risk, age, effects, interruptions, listening>>

-----------------------------------------------------------------------------
(* Executing.                                                              *)

\* _mark_failed: an unconditional update, and the end of the coroutine.
MarkFailed(a, c) ==
  /\ status' = [status EXCEPT ![a] = "failed"]
  /\ Log(a, "action_failed")
  /\ Goto(a, c, "idle")
  /\ UNCHANGED <<request, risk, approval, channel, age, effects, interruptions, listening>>

\* The first transaction of execute: claim the action and check it again.
\* A caller that finds the action no longer approved raises and goes no
\* further.
Claim(a, c) ==
  /\ pc[a][c] = "ready"
  /\ status[a] = "approved"
  /\ status' = [status EXCEPT ![a] = "executing"]
  /\ Goto(a, c, IF External(a) THEN "calling" ELSE "recording")
  /\ UNCHANGED <<request, risk, approval, channel, age, effects, audit, interruptions, listening>>

CheckFails(a, c) ==
  /\ pc[a][c] = "ready"
  /\ status[a] = "approved"
  /\ MarkFailed(a, c)

\* Mutant of SideEffect: a response that is slow is taken for lost and the
\* call is made again.
SideEffectResent(a, c) ==
  /\ pc[a][c] = "calling" /\ effects[a] < 2
  /\ effects' = [effects EXCEPT ![a] = @ + 1]
  /\ \E step \in {"calling", "recording"} : Goto(a, c, step)
  /\ UNCHANGED <<request, status, risk, approval, channel, age, audit,
                 interruptions, listening>>

\* handler.execute, with no transaction open, reaches the world ...
SideEffect(a, c) ==
  /\ pc[a][c] = "calling"
  /\ effects' = [effects EXCEPT ![a] = @ + 1]
  /\ Goto(a, c, "recording")
  /\ UNCHANGED <<request, status, risk, approval, channel, age, audit, interruptions, listening>>

\* Mutants of CallRaises: the action is claimable again and retried; the
\* failure is not recorded.
CallRaisesRetried(a, c) ==
  /\ pc[a][c] = "calling" \/ (pc[a][c] = "recording" /\ External(a))
  /\ status' = [status EXCEPT ![a] = "approved"]
  /\ Goto(a, c, "ready")
  /\ UNCHANGED <<request, risk, approval, channel, age, effects, audit,
                 interruptions, listening>>

CallRaisesUnrecorded(a, c) ==
  /\ pc[a][c] = "calling" \/ (pc[a][c] = "recording" /\ External(a))
  /\ Goto(a, c, "idle")
  /\ UNCHANGED <<request, status, risk, approval, channel, age, effects, audit,
                 interruptions, listening>>

\* ... or raises, before its effect or after it (a lost response).
CallRaises(a, c) ==
  /\ pc[a][c] = "calling" \/ (pc[a][c] = "recording" /\ External(a))
  /\ MarkFailed(a, c)

\* Mutant of RecordSucceeds: what follows the commit may still raise.
RecordSucceedsThenRaises(a, c) ==
  /\ pc[a][c] = "recording" /\ effects[a] < 2
  /\ status' = [status EXCEPT ![a] = "succeeded"]
  /\ effects' = [effects EXCEPT ![a] = IF External(a) THEN @ ELSE @ + 1]
  /\ Log(a, "action_succeeded")
  /\ UNCHANGED <<request, risk, approval, channel, age, pc, interruptions, listening>>

\* The last transaction: the handler's record, the status and the audit row.
\* For a handler that only records, this is where its effect happens.
RecordSucceeds(a, c) ==
  /\ pc[a][c] = "recording"
  /\ status' = [status EXCEPT ![a] = "succeeded"]
  /\ effects' = [effects EXCEPT ![a] = IF External(a) THEN @ ELSE @ + 1]
  /\ Log(a, "action_succeeded")
  /\ Goto(a, c, "idle")
  /\ UNCHANGED <<request, risk, approval, channel, age, interruptions, listening>>

\* Mutant of RecordFails: the handler's own changes were already committed.
RecordFailsKeepingChanges(a, c) ==
  /\ pc[a][c] = "recording"
  /\ status' = [status EXCEPT ![a] = "failed"]
  /\ effects' = [effects EXCEPT ![a] = 1]
  /\ Log(a, "action_failed")
  /\ Goto(a, c, "idle")
  /\ UNCHANGED <<request, risk, approval, channel, age, interruptions, listening>>

\* record raises: its transaction is rolled back whole, then marked failed.
RecordFails(a, c) ==
  /\ pc[a][c] = "recording"
  /\ MarkFailed(a, c)

-----------------------------------------------------------------------------
(* The environment.                                                        *)

Interrupt ==
  /\ interruptions < MaxInterruptions
  /\ interruptions' = interruptions + 1

\* What execute does not catch ends its coroutine and records nothing: a
\* CancelledError at its await, a check that raises other than ValueError (the
\* claim rolls back and the action stays approved, with nobody to run it), a
\* transaction of _mark_failed that fails.
Abandoned(a, c) ==
  /\ pc[a][c] # "idle"
  /\ Interrupt
  /\ Goto(a, c, "idle")
  /\ UNCHANGED <<request, status, risk, approval, channel, age, effects, audit, listening>>

\* The process dies: every coroutine is gone and nothing restarts one, and the
\* voice client's connection goes with it.
Crash ==
  /\ Interrupt
  /\ pc' = [a \in Actions |-> [c \in Callers |-> "idle"]]
  /\ listening' = FALSE
  /\ UNCHANGED <<request, status, risk, approval, channel, age, effects, audit>>

\* A voice client connects or goes; quiet hours begin or end.
Listen ==
  /\ listening' = ~listening
  /\ UNCHANGED <<request, status, risk, approval, channel, age, pc, effects,
                 audit, interruptions>>

\* Time passes for the approvals still waiting, up to just past the expiry.
Tick ==
  /\ \E a \in Actions : approval[a] = "pending" /\ age[a] <= ExpiryAge
  /\ age' = [a \in Actions |->
               IF approval[a] = "pending" /\ age[a] <= ExpiryAge
               THEN age[a] + 1 ELSE age[a]]
  /\ UNCHANGED <<request, status, risk, approval, channel, pc, effects, audit,
                 interruptions, listening>>

-----------------------------------------------------------------------------
Propose(a) ==
  \E r \in Requests : ProposeRed(a, r) \/ ProposeGreen(a, r) \/ ProposeYellow(a, r)

Decide(a) ==
  \E d \in {"approved", "rejected"}, c \in Channels : Resolve(a, d, c)

Execute(a, c) ==
  \/ Claim(a, c) \/ CheckFails(a, c)
  \/ SideEffect(a, c) \/ CallRaises(a, c)
  \/ RecordSucceeds(a, c) \/ RecordFails(a, c)

Next ==
  \/ \E a \in Actions : Propose(a) \/ Decide(a)
  \/ \E a \in Actions, c \in Callers : Execute(a, c) \/ Abandoned(a, c)
  \/ ExpireStale \/ Tick \/ Crash \/ Listen

Spec == Init /\ [][Next]_vars

-----------------------------------------------------------------------------
(* Safety.                                                                 *)

\* What the policy, or the handler's classification, puts before the user.
NeedsApproval(a) ==
  \/ request[a].type \in YellowTypes
  \/ request[a].critical

\* No effect in the world without the authority the policy asks for: never
\* for a red type, only after an approval for a yellow one (by type or by
\* classification), and only after one on the web page for a web-only type.
\* (policy.py, ActionService.propose, ApprovalService.resolve, execute.)
EffectIsAuthorised ==
  \A a \in Actions : effects[a] > 0 =>
    /\ request[a].type \notin RedTypes
    /\ NeedsApproval(a) => approval[a] = "approved"
    /\ request[a].type \in WebOnlyApprovalActions => channel[a] = "web"

\* An action's effect happens at most once, however many decisions, interruptions,
\* lost responses and failed recordings there are (execute: "Run an approved
\* action once").
EffectOnce == \A a \in Actions : effects[a] <= 1

\* An action's status and its approval's never tell different stories, though
\* they live in two tables and change in propose, resolve and the expiry.
Agrees(a) ==
  /\ approval[a] = "pending"  <=> status[a] = "awaiting_approval"
  /\ approval[a] = "expired"  <=> status[a] = "cancelled"
  /\ approval[a] = "rejected" => status[a] = "rejected"
  /\ status[a] = "rejected"   => approval[a] = "rejected" \/ risk[a] = Red
  /\ status[a] \in {"approved", "executing", "succeeded", "failed"} =>
       approval[a] = IF NeedsApproval(a) THEN "approved" ELSE None

ApprovalActionAgree == \A a \in Actions : Agrees(a)

\* "A failure is recorded as failed, never as success": a succeeded action
\* had its effect, one that was never cleared had none, and a failed one that
\* only records left nothing behind (its transaction rolled back).
Honest(a) ==
  /\ status[a] = "succeeded" => effects[a] = 1
  /\ status[a] \in {"none", "awaiting_approval", "approved", "rejected", "cancelled"}
       => effects[a] = 0
  /\ status[a] = "failed" /\ ~External(a) => effects[a] = 0

OutcomeIsHonest == \A a \in Actions : Honest(a)

\* The audit events that bring an action to the point where it may run.
ClearedTrail(a) ==
  IF NeedsApproval(a) THEN {"approval_requested", "approval_approved"}
                      ELSE {"action_proposed"}

Trail(a) ==
  CASE status[a] = "none"              -> {}
    [] status[a] = "awaiting_approval" -> {"approval_requested"}
    [] status[a] = "cancelled"         -> {"approval_requested", "approval_expired"}
    [] status[a] = "rejected"          ->
         IF risk[a] = Red THEN {"action_rejected_by_policy"}
         ELSE {"approval_requested", "approval_rejected"}
    [] status[a] \in {"approved", "executing"} -> ClearedTrail(a)
    [] status[a] = "succeeded" -> ClearedTrail(a) \union {"action_succeeded"}
    [] status[a] = "failed"    -> ClearedTrail(a) \union {"action_failed"}

\* The audit log alone tells where an action stands: its events are exactly
\* those of its status, so no failure path logs an outcome it undid.
AuditTellsStatus == \A a \in Actions : audit[a] = Trail(a)

\* An action's row, its approval, its effects and its audit trail tell one story.
RecordsAreHonest == ApprovalActionAgree /\ OutcomeIsHonest /\ AuditTellsStatus

\* APPROVAL_EXPIRY_HOURS: "a stale request cannot be approved days later",
\* whichever caller notices first and whatever the other approvals do.
NoStaleApproval ==
  [][\A a \in Actions :
       approval[a] = "pending" /\ approval'[a] = "approved" => age[a] <= ExpiryAge]_vars

\* A decided action stays decided: no late decision, expiry or coroutine
\* moves it out of a final status.
Final == {"rejected", "succeeded", "failed", "cancelled"}

FinalIsFinal ==
  [][\A a \in Actions : status[a] \in Final => status'[a] = status[a]]_vars

\* What was decided in time stays decided, and nothing is decided too late.
DecidedStays == NoStaleApproval /\ FinalIsFinal

-----------------------------------------------------------------------------
(* What every transaction and every await preserves: the parts above, and  *)
(* where a coroutine can stand.                                            *)

\* A coroutine in execute holds the action's claim, and knows whether the
\* effect has happened; no two callers are in execute for one action.
CoroutineHoldsClaim(a) ==
  /\ \A c \in Callers :
       /\ pc[a][c] = "ready"     => status[a] = "approved"
       /\ pc[a][c] = "calling"   => status[a] = "executing" /\ External(a) /\ effects[a] = 0
       /\ pc[a][c] = "recording" => /\ status[a] = "executing"
                                   /\ effects[a] = IF External(a) THEN 1 ELSE 0
  /\ \A c, d \in Callers : pc[a][c] # "idle" /\ pc[a][d] # "idle" => c = d

\* A row's request, risk and resolution channel fit together.
RowFits(a) ==
  /\ status[a] = "none" <=> request[a] = NoRequest
  /\ status[a] # "none" => risk[a] = EffectiveRisk(request[a])
  /\ risk[a] = Red => status[a] = "rejected"
  /\ approval[a] # None => risk[a] = Yellow
  /\ approval[a] = "approved" /\ request[a].type \in WebOnlyApprovalActions
       => channel[a] = "web"

IInv ==
  /\ TypeOK
  /\ EffectOnce /\ ApprovalActionAgree /\ OutcomeIsHonest /\ AuditTellsStatus
  /\ \A a \in Actions : CoroutineHoldsClaim(a) /\ RowFits(a)

-----------------------------------------------------------------------------
(* The abstract specification: a gate in front of every action.            *)

GateOf(a) ==
  CASE status[a] = "none" -> "none"
    [] status[a] = "awaiting_approval" -> "waiting"
    [] status[a] \in {"approved", "executing"} -> "cleared"
    [] OTHER -> "closed"

Gate == INSTANCE ApprovalGate
          WITH gate <- [a \in Actions |-> GateOf(a)],
               performed <- effects

\* The pipeline implements the gate: an action is performed at most once, only
\* between being cleared and being closed, and never reopened.
ImplementsGate == Gate!Spec

-----------------------------------------------------------------------------
(* Liveness.  The clock runs, and a coroutine that is not cut off gets its  *)
(* turn.  The one loop that keeps listing approvals, run_spoken_delivery,   *)
(* does so only while a voice client is connected out of quiet hours; the   *)
(* pages, the briefings and the planning list them too, but nothing makes   *)
(* them come.  Nothing obliges the user to decide or Gary to propose.       *)

DeliveryPass == listening /\ ExpireStale

Fairness ==
  /\ WF_vars(Tick) /\ WF_vars(DeliveryPass)
  /\ \A a \in Actions, c \in Callers : WF_vars(Execute(a, c))

FairSpec == Spec /\ Fairness

\* Once a voice client stays connected no request waits for ever: it is
\* answered or it expires, crash or not.
PendingSettles ==
  <>[]listening =>
    \A a \in Actions : approval[a] = "pending" ~> approval[a] # "pending"

\* action_service.py:3-9, "Flow for every action": "... -> the result is recorded
\* and audited".  A cleared action reaches a recorded outcome.
ClearedActionIsRecorded ==
  \A a \in Actions : status[a] = "approved" ~> status[a] \in {"succeeded", "failed"}

\* It does as long as nothing dies, is cancelled or raises what execute does not
\* catch, whichever step fails on the way.
UninterruptedActionIsRecorded == [](interruptions = 0) => ClearedActionIsRecorded

\* Every request is settled once somebody stays to be asked, and what was cleared
\* is recorded unless its coroutine was cut off.
WorkIsSettled == PendingSettles /\ UninterruptedActionIsRecorded
=============================================================================
