------------------------ MODULE ActionPipelineProofs ------------------------
(***************************************************************************)
(* Proofs about the action pipeline, for any set of actions, any expiry    *)
(* and any number of interruptions.                                        *)
(*                                                                         *)
(* IInv is a statement about each action's own row and coroutines, and a   *)
(* step disturbs few of them: Sound(a) collects what IInv says of one      *)
(* action, Untouched(a) says a step leaves it alone, and each action of    *)
(* the specification has a lemma for the rows it does touch.               *)
(***************************************************************************)
EXTENDS ActionPipeline, TLAPS

Typed(a) ==
  /\ request[a] \in Requests \union {NoRequest}
  /\ status[a] \in Statuses
  /\ risk[a] \in Risks \union {None}
  /\ approval[a] \in ApprovalStatuses
  /\ channel[a] \in Channels \union {None}
  /\ pc[a] \in [Callers -> PCs]
  /\ effects[a] \in Nat
  /\ audit[a] \in SUBSET AuditEvents

Sound(a) ==
  /\ effects[a] <= 1
  /\ Agrees(a) /\ Honest(a) /\ audit[a] = Trail(a)
  /\ CoroutineHoldsClaim(a) /\ RowFits(a)

Untouched(a) ==
  /\ request'[a] = request[a] /\ status'[a] = status[a] /\ risk'[a] = risk[a]
  /\ approval'[a] = approval[a] /\ channel'[a] = channel[a] /\ pc'[a] = pc[a]
  /\ effects'[a] = effects[a] /\ audit'[a] = audit[a]

-----------------------------------------------------------------------------
(* The policy.                                                             *)

\* Escalating never lowers a risk level, and answers with one of the two
\* levels it was given (escalate: "the stricter of two risk levels").
THEOREM EscalateNeverLowers ==
  ASSUME NEW base \in Risks, NEW proposed \in Risks \union {None}
  PROVE  /\ Escalate(base, proposed) \in {base, proposed} \cap Risks
         /\ RiskOrder[Escalate(base, proposed)] >= RiskOrder[base]
         /\ proposed # None =>
              RiskOrder[Escalate(base, proposed)] >= RiskOrder[proposed]
<1>1. /\ RiskOrder[Green] = 0 /\ RiskOrder[Yellow] = 1 /\ RiskOrder[Red] = 2
  BY DEF RiskOrder, Risks, Green, Yellow, Red
<1>2. \A r \in Risks : RiskOrder[r] \in Nat /\ r # None
  BY <1>1 DEF Risks, Green, Yellow, Red, None
<1>3. CASE proposed = None
  BY <1>2, <1>3 DEF Escalate
<1>4. CASE proposed \in Risks
  BY <1>2, <1>4 DEF Escalate
<1> QED
  BY <1>3, <1>4

\* The level of a well-formed request, without the arithmetic.
LEMMA RiskOfRequest ==
  ASSUME NEW r \in Requests
  PROVE  /\ r.type \in RedTypes <=> EffectiveRisk(r) = Red
         /\ r.type \in YellowTypes \/ r.critical <=> EffectiveRisk(r) = Yellow
         /\ EffectiveRisk(r) \in Risks
         /\ ActionPolicies[r.type] = Red <=> r.type \in RedTypes
  BY RequestTypesAssumption
     DEF Requests, EffectiveRisk, Classified, Escalate, ActionPolicies,
         RiskOrder, Risks, Green, Yellow, Red, None, ClassifiedTypes,
         ActionTypes, GreenTypes, YellowTypes, RedTypes, Unsupported

LEMMA NoRequestIsNone == NoRequest \notin Requests
  BY RequestTypesAssumption
     DEF NoRequest, Requests, None, ActionTypes, GreenTypes, YellowTypes,
         RedTypes, Unsupported

-----------------------------------------------------------------------------
(* Rows a step leaves alone.                                               *)

LEMMA UntouchedStaysSound ==
  ASSUME NEW a, Sound(a), Untouched(a)
  PROVE  Sound(a)'
  BY DEF Sound, Untouched, Agrees, Honest, Trail, ClearedTrail, NeedsApproval,
         CoroutineHoldsClaim, RowFits, External

-----------------------------------------------------------------------------
(* One lemma per action: the row it touches stays sound.                   *)

LEMMA ProposeRedSound ==
  ASSUME TypeOK, NEW a \in Actions, NEW r \in Requests, Sound(a), ProposeRed(a, r)
  PROVE  Sound(a)'
  BY RiskOfRequest, NoRequestIsNone
     DEF TypeOK, Sound, ProposeRed, Insert, Log, Agrees, Honest, Trail,
         ClearedTrail, NeedsApproval, CoroutineHoldsClaim, RowFits, External,
         Red, None, Callers, Channels, PCs

LEMMA ProposeGreenSound ==
  ASSUME TypeOK, NEW a \in Actions, NEW r \in Requests, Sound(a), ProposeGreen(a, r)
  PROVE  Sound(a)'
  BY RiskOfRequest, NoRequestIsNone
     DEF TypeOK, Sound, ProposeGreen, Insert, Log, Goto, Agrees, Honest, Trail,
         ClearedTrail, NeedsApproval, CoroutineHoldsClaim, RowFits, External,
         Red, Green, Yellow, None, Callers, Channels, PCs

LEMMA ProposeYellowSound ==
  ASSUME TypeOK, NEW a \in Actions, NEW r \in Requests, Sound(a), ProposeYellow(a, r)
  PROVE  Sound(a)'
  BY RiskOfRequest, NoRequestIsNone
     DEF TypeOK, Sound, ProposeYellow, Insert, Log, Agrees, Honest, Trail,
         ClearedTrail, NeedsApproval, CoroutineHoldsClaim, RowFits, External,
         Red, Yellow, None, Callers, Channels, PCs

\* An expiry, whichever transaction runs it, on one stale approval.
LEMMA ExpirySound ==
  ASSUME TypeOK, NEW a \in Actions, Sound(a), Stale(a),
         approval'[a] = "expired",
         status'[a] = Transitioned(a, "awaiting_approval", "cancelled"),
         audit'[a] = audit[a] \union {"approval_expired"},
         request'[a] = request[a], risk'[a] = risk[a], channel'[a] = channel[a],
         pc'[a] = pc[a], effects'[a] = effects[a]
  PROVE  Sound(a)'
  BY DEF TypeOK, Sound, Stale, Transitioned, Agrees, Honest, Trail,
         ClearedTrail, NeedsApproval, CoroutineHoldsClaim, RowFits, External,
         Red, None

\* A decision, on the approval decided.
LEMMA DecisionSound ==
  ASSUME TypeOK, NEW a \in Actions, NEW d \in {"approved", "rejected"},
         NEW c \in Channels, Sound(a), Resolve(a, d, c)
  PROVE  Sound(a)'
<1>1. /\ approval[a] = "pending" /\ status[a] = "awaiting_approval"
      /\ request[a] # NoRequest /\ effects[a] = 0
      /\ audit[a] = {"approval_requested"}
      /\ \A e \in Callers : pc[a][e] = "idle"
  BY DEF TypeOK, Sound, Resolve, Resolvable, Agrees, Honest, Trail,
         CoroutineHoldsClaim, RowFits, Callers, Channels, PCs
<1>2. risk[a] = Yellow /\ NeedsApproval(a)
  <2>1. request[a] \in Requests /\ risk[a] = EffectiveRisk(request[a])
    BY <1>1 DEF TypeOK, Sound, RowFits
  <2>2. risk[a] = Yellow
    BY <1>1 DEF Sound, RowFits, None
  <2> QED
    BY <2>1, <2>2, RiskOfRequest DEF NeedsApproval
<1>3. /\ approval'[a] = d /\ status'[a] = d
      /\ audit'[a] = {"approval_requested", DecisionEvent(d)}
      /\ channel'[a] = c /\ request'[a] = request[a] /\ risk'[a] = risk[a]
      /\ effects'[a] = 0
  BY <1>1 DEF TypeOK, Resolve, Transitioned
<1>4. \A e \in Callers : pc'[a][e] = IF d = "approved" /\ e = c THEN "ready" ELSE "idle"
  BY <1>1 DEF TypeOK, Resolve, Goto, Callers, Channels
<1>5. Agrees(a)' /\ Honest(a)'
  BY <1>2, <1>3 DEF Agrees, Honest, NeedsApproval
<1>6. audit'[a] = Trail(a)'
  BY <1>2, <1>3 DEF Trail, ClearedTrail, NeedsApproval, DecisionEvent, Yellow, Red
<1>7. CoroutineHoldsClaim(a)'
  BY <1>3, <1>4 DEF CoroutineHoldsClaim
<1>8. RowFits(a)'
  <2>1. d = "approved" /\ request[a].type \in WebOnlyApprovalActions => c = "web"
    BY DEF Resolve, Resolvable
  <2> QED
    BY <1>1, <1>2, <1>3, <2>1 DEF Sound, RowFits, Yellow, Red
<1> QED
  BY <1>3, <1>5, <1>6, <1>7, <1>8 DEF Sound

LEMMA ClaimSound ==
  ASSUME TypeOK, NEW a \in Actions, NEW c \in Callers, Sound(a), Claim(a, c)
  PROVE  Sound(a)'
  BY DEF TypeOK, Sound, Claim, Goto, Agrees, Honest, Trail, ClearedTrail,
         NeedsApproval, CoroutineHoldsClaim, RowFits, External, PCs

\* Marking failed, from a coroutine that claimed or is about to claim.
LEMMA MarkFailedSound ==
  ASSUME TypeOK, NEW a \in Actions, NEW c \in Callers, Sound(a),
         pc[a][c] # "idle",
         pc[a][c] = "recording" => External(a) \/ effects[a] = 0,
         MarkFailed(a, c)
  PROVE  Sound(a)'
  BY DEF TypeOK, Sound, MarkFailed, Log, Goto, Agrees, Honest, Trail,
         ClearedTrail, NeedsApproval, CoroutineHoldsClaim, RowFits, External,
         PCs

LEMMA SideEffectSound ==
  ASSUME TypeOK, NEW a \in Actions, NEW c \in Callers, Sound(a), SideEffect(a, c)
  PROVE  Sound(a)'
  BY DEF TypeOK, Sound, SideEffect, Goto, Agrees, Honest, Trail, ClearedTrail,
         NeedsApproval, CoroutineHoldsClaim, RowFits, External, PCs

LEMMA RecordSucceedsSound ==
  ASSUME TypeOK, NEW a \in Actions, NEW c \in Callers, Sound(a),
         RecordSucceeds(a, c)
  PROVE  Sound(a)'
  BY DEF TypeOK, Sound, RecordSucceeds, Log, Goto, Agrees, Honest, Trail,
         ClearedTrail, NeedsApproval, CoroutineHoldsClaim, RowFits, External,
         PCs

LEMMA AbandonedSound ==
  ASSUME TypeOK, NEW a \in Actions, NEW c \in Callers, Sound(a), Abandoned(a, c)
  PROVE  Sound(a)'
  BY DEF TypeOK, Sound, Abandoned, Goto, Agrees, Honest, Trail, ClearedTrail,
         NeedsApproval, CoroutineHoldsClaim, RowFits, External, PCs

LEMMA CrashSound ==
  ASSUME NEW a \in Actions, Sound(a), Crash
  PROVE  Sound(a)'
  BY DEF Sound, Crash, Agrees, Honest, Trail, ClearedTrail, NeedsApproval,
         CoroutineHoldsClaim, RowFits, External

-----------------------------------------------------------------------------
(* Type correctness.                                                       *)

LEMMA InitTyped == Init => TypeOK
<1> SUFFICES ASSUME Init
             PROVE  TypeOK
  OBVIOUS
<1>1. listening \in BOOLEAN
  BY ZenonT(20) DEF Init
<1> QED
  BY <1>1, ExpiryAgeAssumption, MaxInterruptionsAssumption
     DEF Init, TypeOK, NoRequest, Statuses, ApprovalStatuses, PCs, Callers

LEMMA NextTyped ==
  ASSUME TypeOK, [Next]_vars
  PROVE  TypeOK'
<1> USE DEF TypeOK
<1>1. ASSUME NEW a \in Actions, Propose(a)
      PROVE  TypeOK'
  <2>1. PICK r \in Requests : ProposeRed(a, r) \/ ProposeGreen(a, r) \/ ProposeYellow(a, r)
    BY <1>1 DEF Propose
  <2>2. CASE ProposeRed(a, r)
    BY <2>2 DEF ProposeRed, Insert, Log, Risks, Statuses, ApprovalStatuses, AuditEvents
  <2>3. CASE ProposeGreen(a, r)
    BY <2>3 DEF ProposeGreen, Insert, Log, Goto, Risks, Statuses,
                ApprovalStatuses, AuditEvents, PCs
  <2>4. CASE ProposeYellow(a, r)
    BY <2>4 DEF ProposeYellow, Insert, Log, Risks, Statuses, ApprovalStatuses, AuditEvents
  <2> QED
    BY <2>1, <2>2, <2>3, <2>4
<1>2. ASSUME NEW a \in Actions, Decide(a)
      PROVE  TypeOK'
  <2>1. PICK d \in {"approved", "rejected"}, c \in Channels : Resolve(a, d, c)
    BY <1>2 DEF Decide
  <2>2. pc' \in [Actions -> [Callers -> PCs]]
    <3>1. c \in Callers /\ "ready" \in PCs
      BY DEF Callers, PCs
    <3>2. \/ pc' = [pc EXCEPT ![a][c] = "ready"]
          \/ pc' = pc
      BY <2>1 DEF Resolve, Goto
    <3>3. CASE pc' = [pc EXCEPT ![a][c] = "ready"]
      BY <3>1, <3>3
    <3> QED
      BY <3>2, <3>3
  <2>3. status' \in [Actions -> Statuses] /\ approval' \in [Actions -> ApprovalStatuses]
    BY <2>1 DEF Resolve, Transitioned, Statuses, ApprovalStatuses
  <2>4. audit' \in [Actions -> SUBSET AuditEvents]
    <3>1. DecisionEvent(d) \in AuditEvents /\ "approval_expired" \in AuditEvents
      BY DEF DecisionEvent, AuditEvents
    <3> QED
      BY <2>1, <3>1 DEF Resolve
  <2> QED
    BY <2>1, <2>2, <2>3, <2>4 DEF Resolve
<1>3. ASSUME NEW a \in Actions, NEW c \in Callers, Execute(a, c)
      PROVE  TypeOK'
  <2>1. CASE Claim(a, c)
    BY <2>1 DEF Claim, Goto, Statuses, PCs
  <2>2. CASE MarkFailed(a, c)
    BY <2>2 DEF MarkFailed, Log, Goto, Statuses, AuditEvents, PCs
  <2>3. CASE SideEffect(a, c)
    BY <2>3 DEF SideEffect, Goto, PCs
  <2>4. CASE RecordSucceeds(a, c)
    BY <2>4 DEF RecordSucceeds, Log, Goto, Statuses, AuditEvents, PCs
  <2> QED
    BY <1>3, <2>1, <2>2, <2>3, <2>4 DEF Execute, CheckFails, CallRaises, RecordFails
<1>4. ASSUME NEW a \in Actions, NEW c \in Callers, Abandoned(a, c)
      PROVE  TypeOK'
  BY <1>4, MaxInterruptionsAssumption DEF Abandoned, Interrupt, Goto, PCs
<1>5. ASSUME ExpireStale
      PROVE  TypeOK'
  BY <1>5 DEF ExpireStale, Transitioned, Statuses, ApprovalStatuses, AuditEvents
<1>6. ASSUME Tick
      PROVE  TypeOK'
  BY <1>6, ExpiryAgeAssumption DEF Tick
<1>7. ASSUME Crash
      PROVE  TypeOK'
  <2>1. listening' \in BOOLEAN
    BY <1>7, ZenonT(20) DEF Crash
  <2> QED
    BY <1>7, <2>1, MaxInterruptionsAssumption DEF Crash, Interrupt, PCs
<1>8. ASSUME Listen
      PROVE  TypeOK'
  BY <1>8 DEF Listen
<1>9. ASSUME UNCHANGED vars
      PROVE  TypeOK'
  BY <1>9 DEF vars
<1> QED
  BY <1>1, <1>2, <1>3, <1>4, <1>5, <1>6, <1>7, <1>8, <1>9 DEF Next

-----------------------------------------------------------------------------
(* The inductive invariant.                                                *)

LEMMA InitSound == Init => \A a \in Actions : Sound(a)
  BY DEF Init, Sound, Agrees, Honest, Trail, CoroutineHoldsClaim, RowFits,
         NoRequest, None, Red, Callers, Channels, WebOnlyApprovalActions,
         NeedsApproval, External, ExternalTypes

\* A row no step of a transaction names is untouched, unless it expires.
LEMMA OthersUntouched ==
  ASSUME TypeOK, NEW a \in Actions, NEW b \in Actions, a # b,
         Propose(a) \/ (\E c \in Callers : Execute(a, c) \/ Abandoned(a, c))
  PROVE  Untouched(b)
  BY DEF TypeOK, Untouched, Propose, ProposeRed, ProposeGreen, ProposeYellow,
         Insert, Log, Goto, Execute, Claim, CheckFails, SideEffect, CallRaises,
         RecordSucceeds, RecordFails, MarkFailed, Abandoned

LEMMA NextSound ==
  ASSUME TypeOK, \A a \in Actions : Sound(a), [Next]_vars
  PROVE  \A a \in Actions : Sound(a)'
<1> SUFFICES ASSUME NEW b \in Actions
             PROVE  Sound(b)'
  OBVIOUS
<1>1. ASSUME NEW a \in Actions, Propose(a)
      PROVE  Sound(b)'
  <2>1. CASE a # b
    BY <1>1, <2>1, OthersUntouched, UntouchedStaysSound
  <2>2. CASE a = b
    BY <1>1, <2>2, ProposeRedSound, ProposeGreenSound, ProposeYellowSound DEF Propose
  <2> QED
    BY <2>1, <2>2
<1>2. ASSUME NEW a \in Actions, Decide(a)
      PROVE  Sound(b)'
  <2>1. PICK d \in {"approved", "rejected"}, c \in Channels : Resolve(a, d, c)
    BY <1>2 DEF Decide
  <2>2. CASE a = b
    BY <2>1, <2>2, DecisionSound
  <2>3. CASE a # b /\ Stale(b)
    <3>1. pc'[b] = pc[b] /\ channel'[b] = channel[b]
      BY <2>1, <2>3 DEF TypeOK, Resolve, Goto
    <3> QED
      BY <2>1, <2>3, <3>1, ExpirySound DEF Resolve
  <2>4. CASE a # b /\ ~Stale(b)
    <3>1. Untouched(b)
      BY <2>1, <2>4 DEF TypeOK, Resolve, Goto, Untouched
    <3> QED
      BY <3>1, UntouchedStaysSound
  <2> QED
    BY <2>2, <2>3, <2>4
<1>3. ASSUME NEW a \in Actions, NEW c \in Callers, Execute(a, c)
      PROVE  Sound(b)'
  <2>1. CASE a # b
    BY <1>3, <2>1, OthersUntouched, UntouchedStaysSound
  <2>2. CASE a = b
    <3>1. CASE Claim(b, c)
      BY <3>1, ClaimSound
    <3>2. CASE CheckFails(b, c)
      BY <3>2, MarkFailedSound DEF CheckFails
    <3>3. CASE SideEffect(b, c)
      BY <3>3, SideEffectSound
    <3>4. CASE CallRaises(b, c)
      BY <3>4, MarkFailedSound DEF CallRaises
    <3>5. CASE RecordSucceeds(b, c)
      BY <3>5, RecordSucceedsSound
    <3>6. CASE RecordFails(b, c)
      <4>1. External(b) \/ effects[b] = 0
        BY <3>6 DEF RecordFails, Sound, CoroutineHoldsClaim
      <4> QED
        BY <3>6, <4>1, MarkFailedSound DEF RecordFails
    <3> QED
      BY <1>3, <2>2, <3>1, <3>2, <3>3, <3>4, <3>5, <3>6 DEF Execute
  <2> QED
    BY <2>1, <2>2
<1>4. ASSUME NEW a \in Actions, NEW c \in Callers, Abandoned(a, c)
      PROVE  Sound(b)'
  <2>1. CASE a # b
    BY <1>4, <2>1, OthersUntouched, UntouchedStaysSound
  <2>2. CASE a = b
    BY <1>4, <2>2, AbandonedSound
  <2> QED
    BY <2>1, <2>2
<1>5. ASSUME ExpireStale
      PROVE  Sound(b)'
  <2>1. CASE Stale(b)
    BY <1>5, <2>1, ExpirySound DEF ExpireStale
  <2>2. CASE ~Stale(b)
    <3>1. Untouched(b)
      BY <1>5, <2>2 DEF ExpireStale, Untouched
    <3> QED
      BY <3>1, UntouchedStaysSound
  <2> QED
    BY <2>1, <2>2
<1>6. ASSUME Tick
      PROVE  Sound(b)'
  BY <1>6, UntouchedStaysSound DEF Tick, Untouched
<1>7. ASSUME Crash
      PROVE  Sound(b)'
  BY <1>7, CrashSound
<1>8. ASSUME Listen \/ UNCHANGED vars
      PROVE  Sound(b)'
  BY <1>8, UntouchedStaysSound DEF Listen, vars, Untouched
<1> QED
  BY <1>1, <1>2, <1>3, <1>4, <1>5, <1>6, <1>7, <1>8 DEF Next

LEMMA IInvIsSound == IInv <=> TypeOK /\ \A a \in Actions : Sound(a)
  BY DEF IInv, Sound, EffectOnce, ApprovalActionAgree, OutcomeIsHonest,
         AuditTellsStatus

\* The strengthening: type correctness, the agreement of the two tables, the
\* audit trail and the place of every coroutine hold together, always.
THEOREM InductiveInvariant == Spec => []IInv
<1>1. Init => IInv
  BY InitTyped, InitSound, IInvIsSound
<1>2. IInv /\ [Next]_vars => IInv'
  <2> SUFFICES ASSUME IInv, [Next]_vars
               PROVE  IInv'
    OBVIOUS
  <2>1. TypeOK /\ \A a \in Actions : Sound(a)
    BY IInvIsSound
  <2>2. TypeOK' /\ \A a \in Actions : Sound(a)'
    BY <2>1, NextTyped, NextSound
  <2> QED
    BY <2>2 DEF IInv, Sound, EffectOnce, ApprovalActionAgree, OutcomeIsHonest,
                AuditTellsStatus
<1> QED
  BY <1>1, <1>2, PTL DEF Spec

\* Every row and coroutine is well typed.
THEOREM TypeCorrect == Spec => []TypeOK
<1>1. IInv => TypeOK
  BY DEF IInv
<1> QED
  BY <1>1, InductiveInvariant, PTL

\* A row's effect implies the authority its type asks for.
LEMMA SoundIsAuthorised == IInv => EffectIsAuthorised
<1> SUFFICES ASSUME IInv, NEW a \in Actions, effects[a] > 0
             PROVE  /\ request[a].type \notin RedTypes
                    /\ NeedsApproval(a) => approval[a] = "approved"
                    /\ request[a].type \in WebOnlyApprovalActions => channel[a] = "web"
  BY DEF EffectIsAuthorised
<1>1. /\ TypeOK /\ Agrees(a) /\ Honest(a) /\ RowFits(a)
  BY DEF IInv, ApprovalActionAgree, OutcomeIsHonest
<1>2. status[a] \in {"executing", "succeeded", "failed"}
  BY <1>1 DEF TypeOK, Honest, Statuses
<1>3. request[a] \in Requests /\ risk[a] = EffectiveRisk(request[a]) /\ risk[a] # Red
  BY <1>1, <1>2 DEF TypeOK, RowFits
<1>4. request[a].type \notin RedTypes
  BY <1>3, RiskOfRequest
<1>5. NeedsApproval(a) => approval[a] = "approved"
  BY <1>1, <1>2 DEF Agrees
<1>6. request[a].type \in WebOnlyApprovalActions => NeedsApproval(a)
  BY DEF WebOnlyApprovalActions, NeedsApproval, YellowTypes
<1> QED
  BY <1>1, <1>4, <1>5, <1>6 DEF RowFits

\* No effect without the user's authority where the policy asks for it: the
\* reason the pipeline exists.
THEOREM EffectsAreAuthorised == Spec => []EffectIsAuthorised
  BY SoundIsAuthorised, InductiveInvariant, PTL

\* No action's effect happens twice.
THEOREM EffectsHappenOnce == Spec => []EffectOnce
<1>1. IInv => EffectOnce
  BY DEF IInv
<1> QED
  BY <1>1, InductiveInvariant, PTL

\* The two tables, the effects and the audit log tell one story.
THEOREM RecordsAgree == Spec => []RecordsAreHonest
<1>1. IInv => RecordsAreHonest
  BY DEF IInv, RecordsAreHonest
<1> QED
  BY <1>1, InductiveInvariant, PTL

-----------------------------------------------------------------------------
(* Action properties.                                                      *)

\* Only resolve makes a pending approval approved, and never a stale one.
THEOREM StaleIsNeverApproved == Spec => NoStaleApproval
<1>1. ASSUME TypeOK, [Next]_vars
      PROVE  [\A a \in Actions :
                approval[a] = "pending" /\ approval'[a] = "approved"
                  => age[a] <= ExpiryAge]_vars
  <2> SUFFICES ASSUME NEW a \in Actions, Next, approval[a] = "pending",
                      approval'[a] = "approved"
               PROVE  age[a] <= ExpiryAge
    BY <1>1
  <2>1. CASE \E b \in Actions : Decide(b)
    <3>1. PICK b \in Actions, d \in {"approved", "rejected"}, c \in Channels : Resolve(b, d, c)
      BY <2>1 DEF Decide
    <3>2. a = b
      BY <3>1, <1>1 DEF Resolve, TypeOK
    <3> QED
      BY <3>1, <3>2, <1>1, ExpiryAgeAssumption DEF Resolve, Resolvable, Stale, TypeOK
  <2>2. CASE \E b \in Actions : Propose(b)
    BY <2>2, <1>1 DEF Propose, ProposeRed, ProposeGreen, ProposeYellow, Insert,
                TypeOK, None
  <2>3. CASE ~ (\E b \in Actions : Decide(b) \/ Propose(b))
    BY <2>3, <1>1 DEF Next, Execute, Claim, CheckFails, SideEffect, CallRaises,
                RecordSucceeds, RecordFails, MarkFailed, Abandoned,
                ExpireStale, Tick, Crash, Listen, TypeOK
  <2> QED
    BY <2>1, <2>2, <2>3
<1> QED
  BY <1>1, TypeCorrect, PTL DEF Spec, NoStaleApproval

\* Nothing moves an action out of a final status.
THEOREM FinalStatusesStay == Spec => FinalIsFinal
<1>1. ASSUME IInv, [Next]_vars
      PROVE  [\A a \in Actions : status[a] \in Final => status'[a] = status[a]]_vars
  <2> SUFFICES ASSUME NEW a \in Actions, Next, status[a] \in Final
               PROVE  status'[a] = status[a]
    BY <1>1
  <2>1. /\ TypeOK /\ Agrees(a)
        /\ \A c \in Callers : pc[a][c] = "idle"
    <3>1. TypeOK /\ Agrees(a) /\ CoroutineHoldsClaim(a)
      BY <1>1 DEF IInv, ApprovalActionAgree
    <3>2. \A c \in Callers : pc[a][c] \in PCs
      BY <3>1 DEF TypeOK
    <3> QED
      BY <3>1, <3>2 DEF CoroutineHoldsClaim, Final, PCs
  <2>2. approval[a] # "pending" /\ status[a] \notin {"none", "approved"}
    BY <2>1 DEF Agrees, Final
  <2>3. CASE \E b \in Actions : Propose(b)
    BY <2>1, <2>2, <2>3 DEF Propose, ProposeRed, ProposeGreen, ProposeYellow,
                            Insert, TypeOK
  <2>4. CASE \E b \in Actions : Decide(b)
    <3>1. PICK b \in Actions, d \in {"approved", "rejected"}, c \in Channels : Resolve(b, d, c)
      BY <2>4 DEF Decide
    <3>2. a # b /\ ~Stale(a)
      BY <2>2, <3>1 DEF Resolve, Resolvable, Stale
    <3> QED
      BY <2>1, <3>1, <3>2 DEF Resolve, Transitioned
  <2>5. CASE \E b \in Actions, c \in Callers : Execute(b, c) \/ Abandoned(b, c)
    <3>1. PICK b \in Actions, c \in Callers : Execute(b, c) \/ Abandoned(b, c)
      BY <2>5
    <3>2. pc[b][c] # "idle"
      BY <3>1 DEF Execute, Claim, CheckFails, SideEffect, CallRaises,
                  RecordSucceeds, RecordFails, Abandoned
    <3>3. a # b
      BY <2>1, <3>2
    <3> QED
      BY <2>1, <3>1, <3>3, OthersUntouched DEF Untouched
  <2>6. CASE ExpireStale \/ Tick \/ Crash \/ Listen
    BY <2>2, <2>6 DEF ExpireStale, Tick, Crash, Listen, Stale
  <2> QED
    BY <2>3, <2>4, <2>5, <2>6 DEF Next
<1> QED
  BY <1>1, InductiveInvariant, PTL DEF Spec, FinalIsFinal

\* Both together: decided in time, and for good.
THEOREM DecisionsStay == Spec => DecidedStays
  BY StaleIsNeverApproved, FinalStatusesStay, PTL DEF DecidedStays

-----------------------------------------------------------------------------
(* The pipeline implements the gate.                                       *)

\* A step that changes one row moves at most that row's gate.
LEMMA OneGateMoves ==
  ASSUME NEW a \in Actions, \A b \in Actions : b # a => status'[b] = status[b]
  PROVE  [b \in Actions |-> GateOf(b)]'
           = [[b \in Actions |-> GateOf(b)] EXCEPT ![a] = GateOf(a)']
  BY DEF GateOf

LEMMA NoGateMoves ==
  ASSUME \A b \in Actions : GateOf(b)' = GateOf(b)
  PROVE  [b \in Actions |-> GateOf(b)]' = [b \in Actions |-> GateOf(b)]
  OBVIOUS

\* Deciding one request while others expire, in one transaction.
LEMMA SettlesTogether ==
  ASSUME NEW S \in SUBSET Actions, NEW T \in SUBSET S, S # {},
         \A a, b \in T : a = b,
         \A a \in S : GateOf(a) = "waiting",
         \A a \in T : GateOf(a)' = "cleared",
         \A a \in S \ T : GateOf(a)' = "closed",
         \A a \in Actions \ S : GateOf(a)' = GateOf(a),
         UNCHANGED effects
  PROVE  Gate!Next
<1>1. [a \in Actions |-> GateOf(a)]' =
        [a \in Actions |-> IF a \in T THEN "cleared" ELSE IF a \in S THEN "closed"
                            ELSE [b \in Actions |-> GateOf(b)][a]]
  OBVIOUS
<1>2. Gate!Settle(S)
  BY <1>1 DEF Gate!Settle
<1> QED
  BY <1>2 DEF Gate!Next

LEMMA GateStep ==
  ASSUME IInv, [Next]_vars
  PROVE  [Gate!Next]_(Gate!gateVars)
<1> DEFINE G == [b \in Actions |-> GateOf(b)]
<1>0. TypeOK /\ \A a \in Actions : Sound(a)
  BY IInvIsSound
<1>1. ASSUME NEW a \in Actions, Propose(a)
      PROVE  Gate!Next
  <2>1. /\ status[a] = "none" /\ UNCHANGED effects
        /\ status'[a] \in {"rejected", "approved", "awaiting_approval"}
        /\ \A b \in Actions : b # a => status'[b] = status[b]
    BY <1>0, <1>1 DEF TypeOK, Propose, ProposeRed, ProposeGreen, ProposeYellow, Insert
  <2>2. GateOf(a) = "none" /\ GateOf(a)' \in {"waiting", "cleared", "closed"}
    BY <2>1 DEF GateOf
  <2>3. Gate!Submit(a)
    BY <2>1, <2>2, OneGateMoves DEF Gate!Submit
  <2> QED
    BY <2>3 DEF Gate!Next
<1>2. ASSUME NEW a \in Actions, Decide(a)
      PROVE  Gate!Next
  <2>1. PICK d \in {"approved", "rejected"}, c \in Channels : Resolve(a, d, c)
    BY <1>2 DEF Decide
  <2> DEFINE S == {a} \union StaleOnes
             T == IF d = "approved" THEN {a} ELSE {}
  <2>2. S \in SUBSET Actions /\ T \in SUBSET S /\ S # {} /\ \A x, y \in T : x = y
    BY DEF StaleOnes
  <2>3. \A b \in S : approval[b] = "pending" /\ status[b] = "awaiting_approval"
    BY <1>0, <2>1 DEF StaleOnes, Stale, Sound, Agrees, Resolve, Resolvable
  <2>4. /\ status'[a] = d
        /\ \A b \in S \ {a} : status'[b] = "cancelled"
        /\ \A b \in Actions \ S : status'[b] = status[b]
    BY <2>1, <2>3 DEF Resolve, Transitioned, StaleOnes
  <2>5. \A b \in S : GateOf(b) = "waiting"
    BY <2>3 DEF GateOf
  <2>6. /\ \A b \in T : GateOf(b)' = "cleared"
        /\ \A b \in S \ T : GateOf(b)' = "closed"
        /\ \A b \in Actions \ S : GateOf(b)' = GateOf(b)
    BY <2>4 DEF GateOf
  <2>7. UNCHANGED effects
    BY <2>1 DEF Resolve
  <2> QED
    BY <2>2, <2>5, <2>6, <2>7, SettlesTogether
<1>3. ASSUME ExpireStale
      PROVE  Gate!Next
  <2>1. StaleOnes \in SUBSET Actions /\ StaleOnes # {}
    BY <1>3 DEF ExpireStale, StaleOnes
  <2>2. \A b \in StaleOnes : status[b] = "awaiting_approval"
    BY <1>0 DEF StaleOnes, Stale, Sound, Agrees
  <2>3. /\ \A b \in StaleOnes : status'[b] = "cancelled"
        /\ \A b \in Actions \ StaleOnes : status'[b] = status[b]
    BY <1>3, <2>2 DEF ExpireStale, Transitioned, StaleOnes
  <2>4. /\ \A b \in StaleOnes : GateOf(b) = "waiting" /\ GateOf(b)' = "closed"
        /\ \A b \in Actions \ StaleOnes : GateOf(b)' = GateOf(b)
    BY <2>2, <2>3 DEF GateOf
  <2> HIDE DEF StaleOnes
  <2>5. {} \in SUBSET StaleOnes /\ UNCHANGED effects
    BY <1>3 DEF ExpireStale
  <2> QED
    BY <2>1, <2>4, <2>5, SettlesTogether
<1>4. ASSUME NEW a \in Actions, NEW c \in Callers, Execute(a, c)
      PROVE  [Gate!Next]_(Gate!gateVars)
  <2>1. /\ \A b \in Actions : b # a => status'[b] = status[b]
        /\ status[a] \in {"approved", "executing"}
        /\ pc[a][c] \in {"calling", "recording"} => status[a] = "executing"
    BY <1>0, <1>4, OthersUntouched
       DEF Untouched, Execute, Claim, CheckFails, SideEffect, CallRaises,
           RecordSucceeds, RecordFails, Sound, CoroutineHoldsClaim
  <2>2. GateOf(a) = "cleared"
    BY <2>1 DEF GateOf
  <2>3. CASE MarkFailed(a, c)
    <3>1. GateOf(a)' = "closed" /\ UNCHANGED effects
      BY <1>0, <2>3 DEF MarkFailed, TypeOK, GateOf
    <3>2. Gate!Close(a)
      BY <2>1, <2>2, <3>1, OneGateMoves DEF Gate!Close
    <3> QED
      BY <3>2 DEF Gate!Next
  <2>4. CASE Claim(a, c)
    <3>1. GateOf(a)' = "cleared" /\ UNCHANGED effects
      BY <1>0, <2>4 DEF Claim, TypeOK, GateOf
    <3>2. \A b \in Actions : GateOf(b)' = GateOf(b)
      BY <2>1, <2>2, <3>1 DEF GateOf
    <3> QED
      BY <3>1, <3>2, NoGateMoves DEF Gate!gateVars
  <2>5. CASE SideEffect(a, c)
    <3>0. effects[a] = 0
      BY <1>0, <2>5 DEF SideEffect, Sound, CoroutineHoldsClaim
    <3>1. GateOf(a)' = "cleared" /\ effects[a] = 0 /\ effects' = [effects EXCEPT ![a] = 1]
      BY <2>2, <2>5, <3>0 DEF SideEffect, GateOf
    <3>2. Gate!Perform(a)
      BY <2>1, <2>2, <3>1, OneGateMoves DEF Gate!Perform
    <3> QED
      BY <3>2 DEF Gate!Next
  <2>6. CASE RecordSucceeds(a, c)
    <3>1. GateOf(a)' = "closed"
      BY <1>0, <2>6 DEF RecordSucceeds, TypeOK, GateOf
    <3>2. CASE External(a)
      <4>1. UNCHANGED effects
        BY <1>0, <2>6, <3>2 DEF RecordSucceeds, TypeOK
      <4>2. Gate!Close(a)
        BY <2>1, <2>2, <3>1, <4>1, OneGateMoves DEF Gate!Close
      <4> QED
        BY <4>2 DEF Gate!Next
    <3>3. CASE ~External(a)
      <4>0. effects[a] = 0
        BY <1>0, <2>6, <3>3 DEF RecordSucceeds, Sound, CoroutineHoldsClaim
      <4>1. effects[a] = 0 /\ effects' = [effects EXCEPT ![a] = 1]
        BY <2>6, <3>3, <4>0 DEF RecordSucceeds
      <4>2. Gate!Perform(a)
        BY <2>1, <2>2, <3>1, <4>1, OneGateMoves DEF Gate!Perform
      <4> QED
        BY <4>2 DEF Gate!Next
    <3> QED
      BY <3>2, <3>3
  <2> QED
    BY <1>4, <2>3, <2>4, <2>5, <2>6 DEF Execute, CheckFails, CallRaises, RecordFails
<1>5. CASE \/ \E a \in Actions, c \in Callers : Abandoned(a, c)
           \/ Tick \/ Crash \/ Listen \/ UNCHANGED vars
  <2>1. UNCHANGED <<status, effects>>
    BY <1>5 DEF Abandoned, Tick, Crash, Listen, vars
  <2>2. \A b \in Actions : GateOf(b)' = GateOf(b)
    BY <2>1 DEF GateOf
  <2> QED
    BY <2>1, <2>2, NoGateMoves DEF Gate!gateVars
<1> QED
  BY <1>1, <1>2, <1>3, <1>4, <1>5 DEF Next

\* The pipeline implements its abstract specification: nothing is performed
\* except behind a cleared gate, once, and no closed gate is reopened.
THEOREM PipelineImplementsGate == Spec => ImplementsGate
<1>1. Init => Gate!Init
  BY DEF Init, Gate!Init, GateOf
<1> QED
  BY <1>1, GateStep, InductiveInvariant, PTL DEF Spec, ImplementsGate, Gate!Spec
=============================================================================
