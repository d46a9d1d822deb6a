---------------------------- MODULE CompanyProofs ----------------------------
(***************************************************************************)
(* Proofs about what the company says, its calendar and the company as a   *)
(* whole, for any constants; OfficeProofs and SearchProofs treat the other *)
(* components.                                                             *)
(*                                                                         *)
(* A behaviour follows one component and the others stand still, so each   *)
(* component's invariant holds in all of them.                             *)
(* The lemmas are laid out and named as in OfficeProofs.                   *)
(***************************************************************************)
EXTENDS MCCompany, OfficeProofs

-----------------------------------------------------------------------------
(* The realtime connection.                                                *)

EventRow == [kind : {"created", "done", "error", "call"}, called : BOOLEAN, end : Endings,
             sees : Nat]
Sent == {"create", "result"}

\* What is still to come, after the a-th of what is on its way.
DoneAfter(s, a) == \E b \in 1 .. Len(s) : b > a /\ s[b].kind = "done"
CalledAfter(s, a) == \E b \in 1 .. Len(s) : b > a /\ s[b].kind = "done" /\ s[b].called
Refused(s) == \E b \in 1 .. Len(s) : s[b].kind = "error"
Unsuccessful(e) == e.kind = "done" /\ e.end # "said"
Failed(s, n) == \E b \in 1 .. Len(s) : Unsuccessful(s[b]) /\ s[b].sees = n
CreateAfter(s, a) == \E b \in 1 .. Len(s) : b > a /\ s[b] = "create"

CallsNow == response.on /\ response.called

\* What a response says was given when it began, and no response before saw more.
SaysWhatItSaw ==
  /\ results.spoken <= results.given
  /\ response.on => results.spoken <= response.sees /\ response.sees <= results.given

\* What OpenAI's events announce is still to come, in their order.
EventsFollow ==
  \A a \in 1 .. Len(incoming) :
    /\ incoming[a].kind = "created" => response.on \/ DoneAfter(incoming, a)
    /\ incoming[a].kind = "call" => CallsNow \/ CalledAfter(incoming, a)

\* A tool's result is asked about once the response that called it is done.
ResultsAreAsked ==
  /\ running => CallsNow \/ CalledAfter(incoming, 0)
  /\ \A a \in 1 .. Len(outgoing) : outgoing[a] = "result" =>
       CallsNow \/ CalledAfter(incoming, 0) \/ CreateAfter(outgoing, a)

\* A request is owed only while a response is active, and one that seems active
\* will be done, but on a new connection to which the gate came from the old one.
GateIsTrue ==
  /\ gate.pending => gate.active
  /\ gate.active => \/ response.on \/ DoneAfter(incoming, 0)
                    \/ /\ incoming = <<>> /\ outgoing = <<>> /\ ~running /\ sleeping = 0
                       /\ results.given = 0

Unsaid == results.given # results.spoken /\ results.given \notin results.dropped

\* Whatever is unsaid will be asked for, or is about to be said.
UnsaidIsAsked ==
  Unsaid => \/ CreateAfter(outgoing, 0) \/ Refused(incoming) \/ CalledAfter(incoming, 0)
            \/ Failed(incoming, results.given) \/ gate.pending \/ sleeping > 0 \/ CallsNow
            \/ response.on /\ response.sees = results.given

RealtimeInv ==
  /\ RealtimeTypeOK /\ SaysWhatItSaw /\ EventsFollow /\ ResultsAreAsked /\ GateIsTrue
  /\ UnsaidIsAsked

\* Of the channel from OpenAI: one more event at its end, ...
LEMMA EventAppended ==
  ASSUME NEW s \in Seq(EventRow), NEW e \in EventRow
  PROVE  /\ Append(s, e) \in Seq(EventRow) /\ Len(Append(s, e)) = Len(s) + 1 /\ Len(s) \in Nat
         /\ \A a \in 1 .. Len(s) : Append(s, e)[a] = s[a]
         /\ Append(s, e)[Len(s) + 1] = e
         /\ \A a \in Nat : /\ DoneAfter(s, a) => DoneAfter(Append(s, e), a)
                           /\ CalledAfter(s, a) => CalledAfter(Append(s, e), a)
         /\ Refused(s) => Refused(Append(s, e))
         /\ \A n \in Nat : Failed(s, n) => Failed(Append(s, e), n)
         /\ e.kind = "done" => \A a \in 0 .. Len(s) : DoneAfter(Append(s, e), a)
         /\ e.kind = "done" /\ e.called => \A a \in 0 .. Len(s) : CalledAfter(Append(s, e), a)
         /\ e.kind = "error" => Refused(Append(s, e))
         /\ Unsuccessful(e) => Failed(Append(s, e), e.sees)
<1> DEFINE t == Append(s, e)
<1>1. /\ t \in Seq(EventRow) /\ Len(t) = Len(s) + 1 /\ Len(s) \in Nat
      /\ \A a \in 1 .. Len(s) : t[a] = s[a]
      /\ t[Len(s) + 1] = e
  BY AppendHas
<1> HIDE DEF t
<1>2. Len(s) + 1 \in 1 .. Len(t) /\ \A a \in 1 .. Len(s) : a \in 1 .. Len(t)
  BY <1>1
<1>3. \A a \in Nat : (DoneAfter(s, a) => DoneAfter(t, a)) /\ (CalledAfter(s, a) => CalledAfter(t, a))
  BY <1>1, <1>2 DEF DoneAfter, CalledAfter
<1>4. (Refused(s) => Refused(t)) /\ (\A n \in Nat : Failed(s, n) => Failed(t, n))
  BY <1>1, <1>2 DEF Refused, Failed
<1>5. \A a \in 0 .. Len(s) : Len(s) + 1 > a
  BY <1>1
<1>6. /\ e.kind = "done" => \A a \in 0 .. Len(s) : DoneAfter(t, a)
      /\ e.kind = "done" /\ e.called => \A a \in 0 .. Len(s) : CalledAfter(t, a)
  BY <1>1, <1>2, <1>5 DEF DoneAfter, CalledAfter
<1>7. (e.kind = "error" => Refused(t)) /\ (Unsuccessful(e) => Failed(t, e.sees))
  BY <1>1, <1>2 DEF Refused, Failed
<1> QED  BY <1>1, <1>3, <1>4, <1>6, <1>7 DEF t

\* ... and one less at its head.
LEMMA EventHandled ==
  ASSUME NEW s \in Seq(EventRow), s # <<>>
  PROVE  /\ Tail(s) \in Seq(EventRow) /\ Head(s) \in EventRow /\ Head(s) = s[1] /\ 1 \in 1 .. Len(s)
         /\ \A a \in 1 .. Len(Tail(s)) : Tail(s)[a] = s[a + 1] /\ a + 1 \in 1 .. Len(s)
         /\ \A a \in Nat : /\ DoneAfter(s, a + 1) => DoneAfter(Tail(s), a)
                           /\ CalledAfter(s, a + 1) => CalledAfter(Tail(s), a)
         /\ DoneAfter(s, 0) => DoneAfter(Tail(s), 0) \/ Head(s).kind = "done"
         /\ CalledAfter(s, 0) => CalledAfter(Tail(s), 0) \/ (Head(s).kind = "done" /\ Head(s).called)
         /\ Refused(s) => Refused(Tail(s)) \/ Head(s).kind = "error"
         /\ \A n \in Nat : Failed(s, n) =>
              Failed(Tail(s), n) \/ (Unsuccessful(Head(s)) /\ Head(s).sees = n)
<1> DEFINE t == Tail(s)
           n == Len(s)
<1>1. /\ t \in Seq(EventRow) /\ Head(s) \in EventRow /\ Head(s) = s[1] /\ n \in Nat \ {0}
      /\ Len(t) = n - 1 /\ \A a \in 1 .. n - 1 : t[a] = s[a + 1]
  BY TailHas
<1> HIDE DEF t
<1>2. \A a \in 1 .. Len(t) : t[a] = s[a + 1] /\ a + 1 \in 1 .. n
  BY <1>1
<1>3. ASSUME NEW b \in 1 .. n  PROVE b = 1 \/ (b - 1 \in 1 .. Len(t) /\ t[b - 1] = s[b])
  <2>1. CASE b # 1
    <3>1. b - 1 \in 1 .. n - 1 /\ (b - 1) + 1 = b
      BY <1>1, <2>1
    <3> QED  BY <1>1, <3>1
  <2> QED  BY <2>1
<1>4. ASSUME NEW a \in Nat
      PROVE  /\ DoneAfter(s, a + 1) => DoneAfter(t, a)
             /\ CalledAfter(s, a + 1) => CalledAfter(t, a)
  <2>1. \A b \in 1 .. n : b > a + 1 => b # 1 /\ b - 1 > a
    BY <1>1
  <2> QED  BY <1>3, <2>1 DEF DoneAfter, CalledAfter
<1>5. \A b \in 1 .. n : b # 1 => b - 1 > 0
  BY <1>1
<1>6. /\ DoneAfter(s, 0) => DoneAfter(t, 0) \/ Head(s).kind = "done"
      /\ CalledAfter(s, 0) => CalledAfter(t, 0) \/ (Head(s).kind = "done" /\ Head(s).called)
  BY <1>1, <1>3, <1>5 DEF DoneAfter, CalledAfter
<1>7. /\ Refused(s) => Refused(t) \/ Head(s).kind = "error"
      /\ \A m \in Nat : Failed(s, m) =>
           Failed(t, m) \/ (Unsuccessful(Head(s)) /\ Head(s).sees = m)
  BY <1>1, <1>3 DEF Refused, Failed
<1>8. 1 \in 1 .. n
  BY <1>1
<1> QED  BY <1>1, <1>2, <1>4, <1>6, <1>7, <1>8 DEF t

\* Of the channel to OpenAI: one more message at its end, ...
LEMMA MessageSent ==
  ASSUME NEW s \in Seq(Sent), NEW e \in Sent
  PROVE  /\ Append(s, e) \in Seq(Sent) /\ Len(Append(s, e)) = Len(s) + 1 /\ Len(s) \in Nat
         /\ \A a \in 1 .. Len(s) : Append(s, e)[a] = s[a]
         /\ Append(s, e)[Len(s) + 1] = e
         /\ \A a \in Nat : CreateAfter(s, a) => CreateAfter(Append(s, e), a)
         /\ e = "create" => \A a \in 0 .. Len(s) : CreateAfter(Append(s, e), a)
<1> DEFINE t == Append(s, e)
<1>1. /\ t \in Seq(Sent) /\ Len(t) = Len(s) + 1 /\ Len(s) \in Nat
      /\ \A a \in 1 .. Len(s) : t[a] = s[a]
      /\ t[Len(s) + 1] = e
  BY AppendHas
<1> HIDE DEF t
<1>2. /\ Len(s) + 1 \in 1 .. Len(t) /\ \A a \in 1 .. Len(s) : a \in 1 .. Len(t)
      /\ \A a \in 0 .. Len(s) : Len(s) + 1 > a
  BY <1>1
<1>3. \A a \in Nat : CreateAfter(s, a) => CreateAfter(t, a)
  BY <1>1, <1>2 DEF CreateAfter
<1>4. e = "create" => \A a \in 0 .. Len(s) : CreateAfter(t, a)
  BY <1>1, <1>2 DEF CreateAfter
<1> QED  BY <1>1, <1>3, <1>4 DEF t

\* ... and one less at its head.
LEMMA MessageRead ==
  ASSUME NEW s \in Seq(Sent), s # <<>>
  PROVE  /\ Tail(s) \in Seq(Sent) /\ Head(s) \in Sent /\ Head(s) = s[1] /\ 1 \in 1 .. Len(s)
         /\ \A a \in 1 .. Len(Tail(s)) : Tail(s)[a] = s[a + 1] /\ a + 1 \in 1 .. Len(s)
         /\ \A a \in Nat : CreateAfter(s, a + 1) => CreateAfter(Tail(s), a)
         /\ CreateAfter(s, 0) => CreateAfter(Tail(s), 0) \/ Head(s) = "create"
<1> DEFINE t == Tail(s)
           n == Len(s)
<1>1. /\ t \in Seq(Sent) /\ Head(s) \in Sent /\ Head(s) = s[1] /\ n \in Nat \ {0}
      /\ Len(t) = n - 1 /\ \A a \in 1 .. n - 1 : t[a] = s[a + 1]
  BY TailHas
<1> HIDE DEF t
<1>2. 1 \in 1 .. n /\ \A a \in 1 .. Len(t) : t[a] = s[a + 1] /\ a + 1 \in 1 .. n
  BY <1>1
<1>3. ASSUME NEW b \in 1 .. n  PROVE b = 1 \/ (b - 1 \in 1 .. Len(t) /\ t[b - 1] = s[b])
  <2>1. CASE b # 1
    <3>1. b - 1 \in 1 .. n - 1 /\ (b - 1) + 1 = b
      BY <1>1, <2>1
    <3> QED  BY <1>1, <3>1
  <2> QED  BY <2>1
<1>4. ASSUME NEW a \in Nat, CreateAfter(s, a + 1)  PROVE CreateAfter(t, a)
  <2>1. \A b \in 1 .. n : b > a + 1 => b # 1 /\ b - 1 > a
    BY <1>1
  <2> QED  BY <1>3, <1>4, <2>1 DEF CreateAfter
<1>5. CreateAfter(s, 0) => CreateAfter(t, 0) \/ Head(s) = "create"
  <2>1. \A b \in 1 .. n : b # 1 => b - 1 > 0
    BY <1>1
  <2> QED  BY <1>1, <1>3, <2>1 DEF CreateAfter
<1> QED  BY <1>1, <1>2, <1>4, <1>5 DEF t

\* What the types say, in the form the steps need, ...
LEMMA RealtimeFacts ==
  ASSUME RealtimeTypeOK
  PROVE  /\ response \in [on : BOOLEAN, called : BOOLEAN, sees : Nat]
         /\ outgoing \in Seq(Sent) /\ incoming \in Seq(EventRow)
         /\ gate \in [active : BOOLEAN, pending : BOOLEAN] /\ running \in BOOLEAN
         /\ attempts \in 0 .. RETRIES /\ attempts \in Nat /\ RETRIES \in Nat /\ sleeping \in Nat
         /\ results \in [given : Nat, spoken : Nat, dropped : SUBSET Nat]
         /\ budget \in [turns : Nat, calls : Nat, failures : Nat, drops : Nat]
         /\ results.given \in Nat /\ results.spoken \in Nat /\ results.dropped \in SUBSET Nat
BY RealtimeAssumption DEF RealtimeTypeOK, Sent, EventRow

\* ... and what it takes to keep them.
LEMMA RealtimeTyped ==
  ASSUME response' \in [on : BOOLEAN, called : BOOLEAN, sees : Nat],
         outgoing' \in Seq(Sent), incoming' \in Seq(EventRow),
         gate' \in [active : BOOLEAN, pending : BOOLEAN], running' \in BOOLEAN,
         attempts' \in 0 .. RETRIES, sleeping' \in Nat,
         results' \in [given : Nat, spoken : Nat, dropped : SUBSET Nat],
         budget' \in [turns : Nat, calls : Nat, failures : Nat, drops : Nat]
  PROVE  RealtimeTypeOK'
BY DEF RealtimeTypeOK, Sent, EventRow

\* An event of a kind.
LEMMA EventIs ==
  ASSUME NEW k \in {"created", "done", "error", "call"}
  PROVE  /\ Event(k) \in EventRow /\ Event(k).kind = k /\ Event(k).called = FALSE
BY DEF Event, EventRow, Endings

LEMMA RealtimeStart ==
  ASSUME RealtimeInit  PROVE RealtimeInv
<1>1. /\ response = Quiet /\ outgoing = <<>> /\ incoming = <<>>
      /\ gate = [active |-> FALSE, pending |-> FALSE] /\ running = FALSE /\ attempts = 0 /\ sleeping = 0
      /\ results = [given |-> 0, spoken |-> 0, dropped |-> {}]
      /\ budget = [turns |-> MaxTurns, calls |-> MaxToolCalls, failures |-> MaxFailures, drops |-> MaxDrops]
  BY DEF RealtimeInit
<1>2. RealtimeTypeOK
  <2>1. outgoing \in Seq({"create", "result"})
    BY <1>1, EmptySeq
  <2> DEFINE T == [kind : {"created", "done", "error", "call"}, called : BOOLEAN, end : Endings,
             sees : Nat]
  <2>2. incoming \in Seq(T)
    BY <1>1, EmptySeq
  <2>3. {RETRIES, MaxTurns, MaxToolCalls, MaxFailures, MaxDrops} \subseteq Nat
    BY RealtimeAssumption
  <2>4. /\ response \in [on : BOOLEAN, called : BOOLEAN, sees : Nat]
        /\ gate \in [active : BOOLEAN, pending : BOOLEAN]
        /\ results \in [given : Nat, spoken : Nat, dropped : SUBSET Nat]
    BY <1>1 DEF Quiet
  <2>6. running \in BOOLEAN
    BY <1>1
  <2>7. RETRIES \in Nat
    BY <2>3
  <2>8. attempts \in 0 .. RETRIES /\ sleeping \in Nat
    BY <1>1, <2>7
  <2>5. budget \in [turns : Nat, calls : Nat, failures : Nat, drops : Nat]
    BY <1>1, <2>3
  <2> QED  BY <2>1, <2>2, <2>4, <2>5, <2>6, <2>8 DEF RealtimeTypeOK
<1>3. Len(incoming) = 0 /\ Len(outgoing) = 0
  BY <1>1, EmptySeq
<1>4. SaysWhatItSaw /\ EventsFollow /\ ResultsAreAsked /\ GateIsTrue /\ UnsaidIsAsked
  BY <1>1, <1>3 DEF SaysWhatItSaw, EventsFollow, ResultsAreAsked, GateIsTrue, UnsaidIsAsked, Unsaid, Quiet
<1> QED  BY <1>2, <1>4 DEF RealtimeInv

\* What is left of the bounds.
LEMMA LessBudget ==
  ASSUME RealtimeTypeOK
  PROVE  /\ budget.turns > 0 =>
              [budget EXCEPT !.turns = @ - 1] \in [turns : Nat, calls : Nat, failures : Nat, drops : Nat]
         /\ budget.calls > 0 =>
              [budget EXCEPT !.calls = @ - 1] \in [turns : Nat, calls : Nat, failures : Nat, drops : Nat]
         /\ budget.drops > 0 =>
              [budget EXCEPT !.drops = @ - 1] \in [turns : Nat, calls : Nat, failures : Nat, drops : Nat]
<1>1. budget \in [turns : Nat, calls : Nat, failures : Nat, drops : Nat]
  BY RealtimeFacts
<1> DEFINE a == budget.turns - 1
           b == budget.calls - 1
           c == budget.drops - 1
<1>2. /\ budget.turns > 0 => a \in Nat
      /\ budget.calls > 0 => b \in Nat
      /\ budget.drops > 0 => c \in Nat
  BY <1>1
<1>3. /\ [budget EXCEPT !.turns = @ - 1] = [budget EXCEPT !.turns = a]
      /\ [budget EXCEPT !.calls = @ - 1] = [budget EXCEPT !.calls = b]
      /\ [budget EXCEPT !.drops = @ - 1] = [budget EXCEPT !.drops = c]
  BY <1>1
<1> HIDE DEF a, b, c
<1> QED  BY <1>1, <1>2, <1>3

\* The steps of the connection, one lemma each.
LEMMA AlexSpeaksStep ==
  ASSUME RealtimeInv, AlexSpeaks  PROVE RealtimeInv'
<1> USE RealtimeFacts DEF RealtimeInv
<1>1. /\ budget.turns > 0 /\ ~response.on /\ budget' = [budget EXCEPT !.turns = @ - 1]
      /\ response' = [on |-> TRUE, called |-> FALSE, sees |-> results.given]
      /\ incoming' = Append(incoming, Event("created"))
      /\ UNCHANGED <<outgoing, gate, running, attempts, sleeping, results>>
  BY DEF AlexSpeaks, Begin
<1> DEFINE e == Event("created")
<1>2. e \in EventRow /\ e.kind = "created"
  BY EventIs
<1> HIDE DEF e
<1>3. /\ incoming' \in Seq(EventRow) /\ Len(incoming') = Len(incoming) + 1 /\ Len(incoming) \in Nat
      /\ \A a \in 1 .. Len(incoming) : incoming'[a] = incoming[a]
      /\ incoming'[Len(incoming) + 1] = e
      /\ \A a \in Nat : CalledAfter(incoming, a) => CalledAfter(incoming', a)
  BY <1>1, <1>2, EventAppended DEF e
<1>4. /\ response' \in [on : BOOLEAN, called : BOOLEAN, sees : Nat]
      /\ response'.on /\ response'.sees = results.given
  BY <1>1
<1>5. RealtimeTypeOK'
  <2>1. budget' \in [turns : Nat, calls : Nat, failures : Nat, drops : Nat]
    BY <1>1, LessBudget
  <2> QED  BY <1>1, <1>3, <1>4, <2>1, RealtimeTyped
<1>6. SaysWhatItSaw' /\ GateIsTrue' /\ UnsaidIsAsked'
  <2>1. results' = results /\ gate' = gate
    BY <1>1
  <2>2. results.spoken <= results.given /\ results.given <= results.given /\ (gate.pending => gate.active)
    BY DEF SaysWhatItSaw, GateIsTrue
  <2> QED  BY <1>4, <2>1, <2>2 DEF SaysWhatItSaw, GateIsTrue, UnsaidIsAsked
<1>7. EventsFollow'
  <2> SUFFICES ASSUME NEW a \in 1 .. Len(incoming'), incoming'[a].kind = "call"  PROVE CalledAfter(incoming', a)
    BY <1>4 DEF EventsFollow
  <2>1. a \in 1 .. Len(incoming) /\ a \in Nat
    BY <1>2, <1>3
  <2> QED  BY <1>1, <1>3, <2>1 DEF EventsFollow, CallsNow
<1>8. ResultsAreAsked'
  BY <1>1, <1>3 DEF ResultsAreAsked, CallsNow
<1> QED  BY <1>5, <1>6, <1>7, <1>8

LEMMA ModelCallsStep ==
  ASSUME RealtimeInv, ModelCalls  PROVE RealtimeInv'
<1> USE RealtimeFacts DEF RealtimeInv
<1>1. /\ response.on /\ ~response.called /\ budget.calls > 0 /\ budget' = [budget EXCEPT !.calls = @ - 1]
      /\ response' = [response EXCEPT !.called = TRUE]
      /\ incoming' = Append(incoming, Event("call"))
      /\ UNCHANGED <<outgoing, gate, running, attempts, sleeping, results>>
  BY DEF ModelCalls
<1> DEFINE e == Event("call")
<1>2. e \in EventRow
  BY EventIs
<1> HIDE DEF e
<1>3. incoming' \in Seq(EventRow)
  BY <1>1, <1>2, EventAppended DEF e
<1>4. /\ response' \in [on : BOOLEAN, called : BOOLEAN, sees : Nat]
      /\ response'.on /\ response'.called /\ response'.sees = response.sees
  BY <1>1
<1>5. RealtimeTypeOK'
  <2>1. budget' \in [turns : Nat, calls : Nat, failures : Nat, drops : Nat]
    BY <1>1, LessBudget
  <2> QED  BY <1>1, <1>3, <1>4, <2>1, RealtimeTyped
<1>6. results' = results /\ gate' = gate
  BY <1>1
<1>7. SaysWhatItSaw' /\ GateIsTrue'
  BY <1>1, <1>4, <1>6 DEF SaysWhatItSaw, GateIsTrue
<1>8. CallsNow'
  BY <1>4 DEF CallsNow
<1>9. EventsFollow' /\ ResultsAreAsked' /\ UnsaidIsAsked'
  BY <1>4, <1>8 DEF EventsFollow, ResultsAreAsked, UnsaidIsAsked
<1> QED  BY <1>5, <1>7, <1>9

LEMMA ResponseEndsStep ==
  ASSUME RealtimeInv, ResponseEnds  PROVE RealtimeInv'
<1> USE RealtimeFacts DEF RealtimeInv
<1>1. /\ response.on /\ response' = Quiet
      /\ UNCHANGED <<outgoing, gate, running, attempts, sleeping>>
  BY DEF ResponseEnds
<1>2. /\ response' \in [on : BOOLEAN, called : BOOLEAN, sees : Nat] /\ ~response'.on
  BY <1>1 DEF Quiet
<1>3. PICK e \in EventRow :
        /\ incoming' = Append(incoming, e) /\ e.kind = "done" /\ (response.called => e.called)
        /\ e.sees = response.sees
        /\ \/ results' = [results EXCEPT !.spoken = response.sees] /\ budget' = budget
           \/ /\ Unsuccessful(e) /\ results' = results /\ budget.failures > 0
              /\ budget' = [budget EXCEPT !.failures = @ - 1]
  <2>1. PICK end \in Endings :
          /\ incoming' = Append(incoming, [kind |-> "done", called |-> response.called,
                                           end |-> end, sees |-> response.sees])
          /\ IF end = "said"
               THEN /\ results' = [results EXCEPT !.spoken = response.sees]
                    /\ UNCHANGED budget
               ELSE /\ budget.failures > 0
                    /\ budget' = [budget EXCEPT !.failures = @ - 1]
                    /\ UNCHANGED results
    BY DEF ResponseEnds
  <2> DEFINE e == [kind |-> "done", called |-> response.called, end |-> end,
                   sees |-> response.sees]
  <2>2. response.called \in BOOLEAN /\ response.sees \in Nat
    OBVIOUS
  <2>3. /\ e \in EventRow /\ e.kind = "done" /\ e.called = response.called /\ e.end = end
        /\ e.sees = response.sees
    BY <2>1, <2>2 DEF EventRow
  <2> HIDE DEF e
  <2>4. incoming' = Append(incoming, e)
    BY <2>1 DEF e
  <2>5. end # "said" => Unsuccessful(e)
    BY <2>3 DEF Unsuccessful
  <2> QED  BY <2>1, <2>3, <2>4, <2>5
<1>4. /\ incoming' \in Seq(EventRow) /\ Len(incoming') = Len(incoming) + 1 /\ Len(incoming) \in Nat
      /\ \A a \in 1 .. Len(incoming) : incoming'[a] = incoming[a]
      /\ incoming'[Len(incoming) + 1] = e
      /\ \A a \in Nat : CalledAfter(incoming, a) => CalledAfter(incoming', a)
      /\ Refused(incoming) => Refused(incoming')
      /\ \A n \in Nat : Failed(incoming, n) => Failed(incoming', n)
      /\ \A a \in 0 .. Len(incoming) : DoneAfter(incoming', a)
      /\ e.called => \A a \in 0 .. Len(incoming) : CalledAfter(incoming', a)
      /\ Unsuccessful(e) => Failed(incoming', e.sees)
  BY <1>3, EventAppended
<1>5. results' \in [given : Nat, spoken : Nat, dropped : SUBSET Nat] /\ results'.given = results.given /\ results'.dropped = results.dropped
  BY <1>1, <1>3
<1>6. RealtimeTypeOK'
  <2>1. budget' \in [turns : Nat, calls : Nat, failures : Nat, drops : Nat]
    BY <1>3
  <2> QED  BY <1>1, <1>2, <1>4, <1>5, <2>1, RealtimeTyped
<1>7. SaysWhatItSaw'
  BY <1>1, <1>2, <1>3, <1>5 DEF SaysWhatItSaw
<1>8. GateIsTrue'
  BY <1>1, <1>4 DEF GateIsTrue
<1>9. \A a \in 0 .. Len(incoming) : CallsNow => CalledAfter(incoming', a)
  BY <1>3, <1>4 DEF CallsNow
<1>10. EventsFollow'
  <2> SUFFICES ASSUME NEW a \in 1 .. Len(incoming')
               PROVE  /\ incoming'[a].kind = "created" => DoneAfter(incoming', a)
                      /\ incoming'[a].kind = "call" => CalledAfter(incoming', a)
    BY DEF EventsFollow
  <2>1. CASE a = Len(incoming) + 1
    BY <1>3, <1>4, <2>1
  <2>2. CASE a # Len(incoming) + 1
    <3>1. a \in 1 .. Len(incoming) /\ a \in Nat /\ a \in 0 .. Len(incoming)
      BY <1>4, <2>2
    <3> QED  BY <1>4, <1>9, <3>1 DEF EventsFollow
  <2> QED  BY <2>1, <2>2
<1>11. ResultsAreAsked'
  <2>1. 0 \in 0 .. Len(incoming)
    BY <1>4
  <2> QED  BY <1>1, <1>4, <1>9, <2>1 DEF ResultsAreAsked
<1>12. UnsaidIsAsked'
  <2> SUFFICES ASSUME Unsaid'
               PROVE  \/ CreateAfter(outgoing, 0) \/ Refused(incoming') \/ CalledAfter(incoming', 0)
                      \/ Failed(incoming', results.given) \/ gate.pending \/ sleeping > 0
    BY <1>1, <1>5 DEF UnsaidIsAsked
  <2>1. 0 \in 0 .. Len(incoming)
    BY <1>4
  <2>2. CASE Unsuccessful(e) /\ results' = results
    <3>1. CASE response.sees = results.given
      BY <1>3, <1>4, <2>2, <3>1
    <3>2. CASE response.sees # results.given
      <4>1. Unsaid /\ results.given \in Nat
        BY <2>2 DEF Unsaid
      <4> QED  BY <1>4, <1>9, <2>1, <3>2, <4>1 DEF UnsaidIsAsked
    <3> QED  BY <3>1, <3>2
  <2>3. CASE results' = [results EXCEPT !.spoken = response.sees]
    <3>1. results'.spoken = response.sees
      BY <1>3, <2>3
    <3>2. response.sees # results.given /\ results.given \notin results.dropped
      BY <1>5, <3>1 DEF Unsaid
    <3>3. results.spoken # results.given
      BY <1>1, <3>2 DEF SaysWhatItSaw
    <3>4. Unsaid /\ results.given \in Nat
      BY <3>2, <3>3 DEF Unsaid
    <3> QED  BY <1>4, <1>9, <2>1, <3>2, <3>4 DEF UnsaidIsAsked
  <2> QED  BY <1>3, <2>2, <2>3
<1> QED  BY <1>6, <1>7, <1>8, <1>10, <1>11, <1>12

\* OpenAI reads a result, begins a response, or refuses to.
LEMMA OpenAIReadsStep ==
  ASSUME RealtimeInv, OpenAIReads  PROVE RealtimeInv'
<1> USE RealtimeFacts DEF RealtimeInv
<1>1. outgoing # <<>> /\ outgoing' = Tail(outgoing) /\ UNCHANGED <<gate, running, attempts, sleeping, budget>>
  BY DEF OpenAIReads
<1>2. /\ outgoing' \in Seq(Sent) /\ Head(outgoing) = outgoing[1] /\ 1 \in 1 .. Len(outgoing)
      /\ \A a \in 1 .. Len(outgoing') : outgoing'[a] = outgoing[a + 1] /\ a + 1 \in 1 .. Len(outgoing)
      /\ \A a \in Nat : CreateAfter(outgoing, a + 1) => CreateAfter(outgoing', a)
      /\ CreateAfter(outgoing, 0) => CreateAfter(outgoing', 0) \/ Head(outgoing) = "create"
  BY <1>1, MessageRead
<1>3. CASE Head(outgoing) = "result" /\ results' = [results EXCEPT !.given = @ + 1] /\ UNCHANGED <<response, incoming>>
  <2>1. /\ results' \in [given : Nat, spoken : Nat, dropped : SUBSET Nat] /\ results'.given = results.given + 1
        /\ results'.spoken = results.spoken
    <3>1. results \in [given : Nat, spoken : Nat, dropped : SUBSET Nat]
      OBVIOUS
    <3> QED  BY ONLY <1>3, <3>1
  <2>2. RealtimeTypeOK'
    BY ONLY RealtimeInv, RealtimeFacts, <1>1, <1>2, <1>3, <2>1, RealtimeTyped DEF RealtimeInv
  <2>3. SaysWhatItSaw'
    <3>1. /\ results.spoken <= results.given /\ results.given \in Nat /\ results.spoken \in Nat
          /\ response.on => results.spoken <= response.sees /\ response.sees <= results.given
          /\ response.sees \in Nat
      BY DEF SaysWhatItSaw
    <3> QED  BY ONLY <1>3, <2>1, <3>1 DEF SaysWhatItSaw
  <2>4. EventsFollow'
    <3>1. EventsFollow
      OBVIOUS
    <3> QED  BY ONLY <1>3, <3>1 DEF EventsFollow, CallsNow
  <2>5. ResultsAreAsked'
    <3>1. ResultsAreAsked
      OBVIOUS
    <3>2. \A a \in 1 .. Len(outgoing') : a \in Nat
      BY <1>2, LenProperties
    <3> QED  BY ONLY <1>1, <1>2, <1>3, <3>1, <3>2 DEF ResultsAreAsked, CallsNow
  <2>6. GateIsTrue'
    BY <1>1, <1>3 DEF GateIsTrue
  <2>7. UnsaidIsAsked'
    <3>1. CallsNow \/ CalledAfter(incoming, 0) \/ CreateAfter(outgoing, 1)
      BY <1>2, <1>3 DEF ResultsAreAsked
    <3>2. CreateAfter(outgoing, 1) => CreateAfter(outgoing', 0)
      <4>1. 0 \in Nat /\ 0 + 1 = 1
        OBVIOUS
      <4> QED  BY <1>2, <4>1
    <3> QED  BY <1>3, <3>1, <3>2 DEF UnsaidIsAsked, CallsNow
  <2> QED  BY <2>2, <2>3, <2>4, <2>5, <2>6, <2>7
<1>4. CASE Head(outgoing) = "create" /\ ~response.on /\ Begin /\ results' = results
  <2> DEFINE e == Event("created")
  <2>1. /\ response' = [on |-> TRUE, called |-> FALSE, sees |-> results.given]
        /\ incoming' = Append(incoming, e)
    BY <1>4 DEF Begin
  <2>2. e \in EventRow /\ e.kind = "created"
    BY EventIs
  <2> HIDE DEF e
  <2>3. /\ incoming' \in Seq(EventRow) /\ Len(incoming') = Len(incoming) + 1 /\ Len(incoming) \in Nat
        /\ \A a \in 1 .. Len(incoming) : incoming'[a] = incoming[a]
        /\ incoming'[Len(incoming) + 1] = e
        /\ \A a \in Nat : CalledAfter(incoming, a) => CalledAfter(incoming', a)
    BY <2>1, <2>2, EventAppended
  <2>4. response' \in [on : BOOLEAN, called : BOOLEAN, sees : Nat] /\ response'.on /\ response'.sees = results.given
    BY <2>1
  <2>5. RealtimeTypeOK'
    BY <1>1, <1>2, <1>4, <2>3, <2>4, RealtimeTyped
  <2>6. SaysWhatItSaw' /\ GateIsTrue' /\ UnsaidIsAsked'
    <3>1. results.spoken <= results.given /\ results.given <= results.given /\ (gate.pending => gate.active)
      BY DEF SaysWhatItSaw, GateIsTrue
    <3> QED  BY <1>1, <1>4, <2>4, <3>1 DEF SaysWhatItSaw, GateIsTrue, UnsaidIsAsked
  <2>7. EventsFollow'
    <3> SUFFICES ASSUME NEW a \in 1 .. Len(incoming'), incoming'[a].kind = "call"  PROVE CalledAfter(incoming', a)
      BY <2>4 DEF EventsFollow
    <3>1. a \in 1 .. Len(incoming) /\ a \in Nat
      BY <2>2, <2>3
    <3> QED  BY <1>4, <2>3, <3>1 DEF EventsFollow, CallsNow
  <2>8. ResultsAreAsked'
    BY <1>1, <1>2, <1>4, <2>3 DEF ResultsAreAsked, CallsNow
  <2> QED  BY <2>5, <2>6, <2>7, <2>8
<1>5. CASE /\ Head(outgoing) = "create" /\ response.on /\ incoming' = Append(incoming, Event("error"))
           /\ UNCHANGED <<response, results>>
  <2> DEFINE e == Event("error")
  <2>1. incoming' = Append(incoming, e) /\ UNCHANGED <<response, results>> /\ response.on
    BY <1>5
  <2>2. e \in EventRow /\ e.kind = "error"
    BY EventIs
  <2> HIDE DEF e
  <2>3. /\ incoming' \in Seq(EventRow) /\ Len(incoming') = Len(incoming) + 1 /\ Len(incoming) \in Nat
        /\ \A a \in 1 .. Len(incoming) : incoming'[a] = incoming[a]
        /\ incoming'[Len(incoming) + 1] = e
        /\ \A a \in Nat : CalledAfter(incoming, a) => CalledAfter(incoming', a)
        /\ Refused(incoming')
    BY <2>1, <2>2, EventAppended
  <2>4. RealtimeTypeOK'
    BY <1>1, <1>2, <2>1, <2>3, RealtimeTyped
  <2>5. SaysWhatItSaw' /\ GateIsTrue' /\ UnsaidIsAsked'
    BY <1>1, <2>1, <2>3 DEF SaysWhatItSaw, GateIsTrue, UnsaidIsAsked
  <2>6. EventsFollow'
    <3> SUFFICES ASSUME NEW a \in 1 .. Len(incoming'), incoming'[a].kind = "call"
                 PROVE  CallsNow \/ CalledAfter(incoming', a)
      BY <2>1 DEF EventsFollow, CallsNow
    <3>1. a \in 1 .. Len(incoming) /\ a \in Nat
      BY <2>2, <2>3
    <3> QED  BY <2>3, <3>1 DEF EventsFollow
  <2>7. ResultsAreAsked'
    BY <1>1, <1>2, <1>5, <2>1, <2>3 DEF ResultsAreAsked, CallsNow
  <2> QED  BY <2>4, <2>5, <2>6, <2>7
<1> QED  BY <1>3, <1>4, <1>5 DEF OpenAIReads

LEMMA ToolReturnsStep ==
  ASSUME RealtimeInv, ToolReturns  PROVE RealtimeInv'
<1> USE RealtimeFacts DEF RealtimeInv
<1>1. /\ running /\ running' = FALSE /\ outgoing' = Append(outgoing, "result")
      /\ UNCHANGED <<response, incoming, gate, attempts, sleeping, results, budget>>
  BY DEF ToolReturns
<1>2. "result" \in Sent
  BY DEF Sent
<1>3. /\ outgoing' \in Seq(Sent) /\ Len(outgoing') = Len(outgoing) + 1 /\ Len(outgoing) \in Nat
      /\ \A a \in 1 .. Len(outgoing) : outgoing'[a] = outgoing[a]
      /\ \A a \in Nat : CreateAfter(outgoing, a) => CreateAfter(outgoing', a)
  BY <1>1, <1>2, MessageSent
<1>4. RealtimeTypeOK'
  BY <1>1, <1>3, RealtimeTyped
<1>5. SaysWhatItSaw' /\ EventsFollow'
  BY <1>1 DEF SaysWhatItSaw, EventsFollow, CallsNow
<1>6. CallsNow \/ CalledAfter(incoming, 0)
  BY <1>1 DEF ResultsAreAsked
<1>7. ResultsAreAsked'
  BY <1>1, <1>6 DEF ResultsAreAsked, CallsNow
<1>8. GateIsTrue'
  BY <1>1 DEF GateIsTrue
<1>9. UnsaidIsAsked'
  BY <1>1, <1>3 DEF UnsaidIsAsked, Unsaid, CallsNow
<1> QED  BY <1>4, <1>5, <1>7, <1>8, <1>9

\* A request on a gate: sent when the gate is open, or owed.
LEMMA RequestIs ==
  ASSUME RealtimeTypeOK, NEW g \in [active : BOOLEAN, pending : BOOLEAN], Request(g)
  PROVE  /\ gate' \in [active : BOOLEAN, pending : BOOLEAN] /\ gate'.active = g.active
         /\ gate'.pending = g.active /\ outgoing' \in Seq(Sent)
         /\ g.active => outgoing' = outgoing
         /\ ~g.active => /\ Len(outgoing') = Len(outgoing) + 1 /\ Len(outgoing) \in Nat
                         /\ \A a \in 1 .. Len(outgoing) : outgoing'[a] = outgoing[a]
                         /\ outgoing'[Len(outgoing) + 1] = "create"
                         /\ \A a \in 0 .. Len(outgoing) : CreateAfter(outgoing', a)
<1>1. gate' = [g EXCEPT !.pending = g.active]
  BY DEF Request
<1>2. CASE g.active
  BY <1>1, <1>2, RealtimeFacts DEF Request
<1>3. CASE ~g.active
  <2>1. outgoing' = Append(outgoing, "create") /\ "create" \in Sent /\ outgoing \in Seq(Sent)
    BY <1>3, RealtimeFacts DEF Request, Sent
  <2>2. /\ outgoing' \in Seq(Sent) /\ Len(outgoing') = Len(outgoing) + 1 /\ Len(outgoing) \in Nat
        /\ \A a \in 1 .. Len(outgoing) : outgoing'[a] = outgoing[a]
        /\ outgoing'[Len(outgoing) + 1] = "create"
        /\ \A a \in 0 .. Len(outgoing) : CreateAfter(outgoing', a)
    BY <2>1, MessageSent
  <2> QED  BY <1>1, <1>3, <2>2
<1> QED  BY <1>2, <1>3

LEMMA RetryFiresStep ==
  ASSUME RealtimeInv, RetryFires  PROVE RealtimeInv'
<1> USE RealtimeFacts DEF RealtimeInv
<1>1. /\ sleeping > 0 /\ sleeping' = sleeping - 1 /\ Request(gate)
      /\ UNCHANGED <<response, incoming, running, attempts, results, budget>>
  BY DEF RetryFires
<1>2. /\ gate' \in [active : BOOLEAN, pending : BOOLEAN] /\ gate'.active = gate.active
      /\ gate'.pending = gate.active /\ outgoing' \in Seq(Sent)
      /\ gate.active => outgoing' = outgoing
      /\ ~gate.active => /\ Len(outgoing') = Len(outgoing) + 1 /\ Len(outgoing) \in Nat
                         /\ \A a \in 1 .. Len(outgoing) : outgoing'[a] = outgoing[a]
                         /\ outgoing'[Len(outgoing) + 1] = "create"
                         /\ \A a \in 0 .. Len(outgoing) : CreateAfter(outgoing', a)
  BY <1>1, RequestIs
<1>3. sleeping' \in Nat
  BY <1>1
<1>4. RealtimeTypeOK'
  BY <1>1, <1>2, <1>3, RealtimeTyped
<1>5. SaysWhatItSaw' /\ EventsFollow'
  BY <1>1 DEF SaysWhatItSaw, EventsFollow, CallsNow
<1>6. gate.active => response.on \/ DoneAfter(incoming, 0)
  BY <1>1 DEF GateIsTrue
<1>7. GateIsTrue'
  BY <1>1, <1>2, <1>6 DEF GateIsTrue
<1>8. CASE gate.active
  <2>1. ResultsAreAsked'
    BY <1>1, <1>2, <1>8 DEF ResultsAreAsked, CallsNow
  <2>2. UnsaidIsAsked'
    BY <1>2, <1>8 DEF UnsaidIsAsked
  <2> QED  BY <1>4, <1>5, <1>7, <2>1, <2>2
<1>9. CASE ~gate.active
  <2>1. 0 \in 0 .. Len(outgoing) /\ \A a \in 1 .. Len(outgoing) : a \in 0 .. Len(outgoing)
    BY <1>2, <1>9
  <2>2. ResultsAreAsked'
    <3> SUFFICES ASSUME NEW a \in 1 .. Len(outgoing'), outgoing'[a] = "result"  PROVE CreateAfter(outgoing', a)
      BY <1>1 DEF ResultsAreAsked, CallsNow
    <3>1. a \in 1 .. Len(outgoing)
      BY <1>2, <1>9
    <3> QED  BY <1>2, <1>9, <2>1, <3>1
  <2>3. UnsaidIsAsked'
    BY <1>2, <1>9, <2>1 DEF UnsaidIsAsked
  <2> QED  BY <1>4, <1>5, <1>7, <2>2, <2>3
<1> QED  BY <1>8, <1>9

LEMMA DropStep ==
  ASSUME RealtimeInv, ConnectionDrops  PROVE RealtimeInv'
<1> USE RealtimeFacts DEF RealtimeInv
<1>1. /\ budget.drops > 0 /\ budget' = [budget EXCEPT !.drops = @ - 1] /\ response' = Quiet
      /\ outgoing' = <<>> /\ incoming' = <<>> /\ running' = FALSE /\ sleeping' = 0
      /\ results' = [given |-> 0, spoken |-> 0, dropped |-> {}] /\ UNCHANGED <<gate, attempts>>
  BY DEF ConnectionDrops
<1>2. /\ response' \in [on : BOOLEAN, called : BOOLEAN, sees : Nat] /\ ~response'.on
      /\ results' \in [given : Nat, spoken : Nat, dropped : SUBSET Nat]
      /\ results'.given = 0 /\ results'.spoken = 0
  BY <1>1 DEF Quiet
<1>3. /\ outgoing' \in Seq(Sent) /\ incoming' \in Seq(EventRow) /\ Len(incoming') = 0 /\ Len(outgoing') = 0
  BY <1>1, EmptySeq
<1>4. RealtimeTypeOK'
  <2>1. budget' \in [turns : Nat, calls : Nat, failures : Nat, drops : Nat]
    BY <1>1, LessBudget
  <2>2. sleeping' \in Nat /\ running' \in BOOLEAN
    BY <1>1
  <2> QED  BY <1>1, <1>2, <1>3, <2>1, <2>2, RealtimeTyped
<1>5. SaysWhatItSaw' /\ UnsaidIsAsked'
  BY <1>2 DEF SaysWhatItSaw, UnsaidIsAsked, Unsaid
<1>6. EventsFollow' /\ ResultsAreAsked'
  BY <1>1, <1>3 DEF EventsFollow, ResultsAreAsked
<1>7. GateIsTrue'
  BY <1>1, <1>2 DEF GateIsTrue
<1> QED  BY <1>4, <1>5, <1>6, <1>7

\* What the gate becomes when the reader handles an event.
LEMMA ObservedIs ==
  ASSUME RealtimeTypeOK, NEW e \in EventRow
  PROVE  /\ Observed(e) \in [active : BOOLEAN, pending : BOOLEAN]
         /\ e.kind = "created" => Observed(e).active /\ Observed(e).pending = gate.pending
         /\ e.kind = "done" => ~Observed(e).active /\ Observed(e).pending = gate.pending
         /\ e.kind = "error" => Observed(e).active = gate.active /\ Observed(e).pending
         /\ e.kind = "call" => Observed(e) = gate
<1>1. gate \in [active : BOOLEAN, pending : BOOLEAN] /\ e.kind \in {"created", "done", "error", "call"}
  BY RealtimeFacts DEF EventRow
<1>2. CASE e.kind = "created"
  <2>1. Observed(e) = [gate EXCEPT !.active = TRUE]
    BY <1>2 DEF Observed
  <2> QED  BY <1>1, <1>2, <2>1
<1>3. CASE e.kind = "done"
  <2>1. Observed(e) = [gate EXCEPT !.active = FALSE]
    BY <1>3 DEF Observed
  <2> QED  BY <1>1, <1>3, <2>1
<1>4. CASE e.kind = "error"
  <2>1. Observed(e) = [gate EXCEPT !.pending = TRUE]
    BY <1>4 DEF Observed
  <2> QED  BY <1>1, <1>4, <2>1
<1>5. CASE e.kind = "call"
  <2>1. Observed(e) = gate
    BY <1>5 DEF Observed
  <2> QED  BY <1>1, <1>5, <2>1
<1> QED  BY <1>1, <1>2, <1>3, <1>4, <1>5

\* What the reader does with an event: it asks for a response, or leaves what was
\* sent as it is; a failed response that is not asked about is tried again, or
\* given up.
LEMMA HandledAs ==
  ASSUME RealtimeInv, HandleEvent, NEW e, e = Head(incoming)
  PROVE  /\ ~running /\ incoming # <<>> /\ incoming' = Tail(incoming) /\ e \in EventRow
         /\ UNCHANGED <<response, budget>>
         /\ \/ Request(Observed(e)) /\ e.kind \in {"done", "error"}
            \/ /\ gate' = Observed(e) /\ outgoing' = outgoing
               /\ e.kind = "done" => ~e.called /\ ~gate.pending
               /\ e.kind = "error" => gate.active
               /\ Unsuccessful(e) => sleeping' > 0 \/ e.sees \in results'.dropped
         /\ running' = (e.kind = "call") /\ attempts' \in 0 .. RETRIES
         /\ sleeping' \in Nat /\ sleeping' >= sleeping
         /\ results' \in [given : Nat, spoken : Nat, dropped : SUBSET Nat] /\ results'.given = results.given
         /\ results'.spoken = results.spoken
         /\ results.dropped \subseteq results'.dropped
<1> USE RealtimeFacts DEF RealtimeInv
<1> DEFINE g == Observed(e)
           isDone == e.kind = "done"
           isAsked == (isDone /\ e.called) \/ (e.kind \in {"done", "error"} /\ Due(g))
           fails == isDone /\ e.end # "said" /\ ~isAsked
           retries == fails /\ e.end = "limit" /\ attempts < RETRIES
<1>1. /\ ~running /\ incoming # <<>> /\ incoming' = Tail(incoming) /\ UNCHANGED <<response, budget>>
      /\ IF isAsked THEN Request(g) ELSE gate' = g /\ UNCHANGED outgoing
      /\ running' = (e.kind = "call")
      /\ attempts' = IF retries THEN attempts + 1 ELSE IF isDone THEN 0 ELSE attempts
      /\ sleeping' = IF retries THEN sleeping + 1 ELSE sleeping
      /\ results' = IF fails /\ ~retries
                    THEN [results EXCEPT !.dropped = @ \union {e.sees}] ELSE results
  BY DEF HandleEvent, NeedsFollowUp
<1>2. incoming \in Seq(EventRow)
  OBVIOUS
<1>3. e \in EventRow
  BY <1>1, <1>2, EventHandled
<1>4. /\ g \in [active : BOOLEAN, pending : BOOLEAN]
      /\ e.kind = "done" => ~g.active /\ g.pending = gate.pending
      /\ e.kind = "error" => g.active = gate.active /\ g.pending
  BY <1>3, ObservedIs
<1>5. /\ isAsked => e.kind \in {"done", "error"}
      /\ ~isAsked /\ e.kind = "done" => ~e.called /\ ~gate.pending
      /\ ~isAsked /\ e.kind = "error" => gate.active
      /\ ~isAsked /\ Unsuccessful(e) => fails
  BY <1>3, <1>4 DEF Due, Unsuccessful
<1>6. (retries => attempts < RETRIES) /\ e.sees \in Nat
  BY <1>3 DEF EventRow
<1> HIDE DEF g, isAsked, fails, retries, isDone
<1>7. attempts' \in 0 .. RETRIES
  BY <1>1, <1>6
<1>8. sleeping' \in Nat /\ sleeping' >= sleeping /\ (retries => sleeping' > 0)
  <2>1. /\ sleeping \in Nat
        /\ sleeping' = IF retries THEN sleeping + 1 ELSE sleeping
    BY <1>1
  <2> QED  BY ONLY <2>1
<1>9. /\ results' \in [given : Nat, spoken : Nat, dropped : SUBSET Nat] /\ results'.given = results.given
      /\ results'.spoken = results.spoken
      /\ results.dropped \subseteq results'.dropped
      /\ fails /\ ~retries => e.sees \in results'.dropped
  BY <1>1, <1>6
<1>10. CASE isAsked
  BY <1>1, <1>3, <1>5, <1>7, <1>8, <1>9, <1>10 DEF g
<1>11. CASE ~isAsked
  <2>1. /\ gate' = g /\ outgoing' = outgoing
        /\ e.kind = "done" => ~e.called /\ ~gate.pending
        /\ e.kind = "error" => gate.active
        /\ Unsuccessful(e) => sleeping' > 0 \/ e.sees \in results'.dropped
    BY <1>1, <1>5, <1>6, <1>8, <1>9, <1>11
  <2> QED  BY <1>1, <1>3, <1>7, <1>8, <1>9, <2>1 DEF g
<1> QED  BY <1>10, <1>11

LEMMA HandleStep ==
  ASSUME RealtimeInv, HandleEvent  PROVE RealtimeInv'
<1> USE RealtimeFacts DEF RealtimeInv
<1> DEFINE e == Head(incoming)
           g == Observed(e)
<1>1. /\ ~running /\ incoming # <<>> /\ incoming' = Tail(incoming) /\ e \in EventRow
      /\ UNCHANGED <<response, budget>>
      /\ \/ Request(g) /\ e.kind \in {"done", "error"}
         \/ /\ gate' = g /\ outgoing' = outgoing
            /\ e.kind = "done" => ~e.called /\ ~gate.pending
            /\ e.kind = "error" => gate.active
            /\ Unsuccessful(e) => sleeping' > 0 \/ e.sees \in results'.dropped
      /\ running' = (e.kind = "call") /\ attempts' \in 0 .. RETRIES
      /\ sleeping' \in Nat /\ sleeping' >= sleeping
      /\ results' \in [given : Nat, spoken : Nat, dropped : SUBSET Nat] /\ results'.given = results.given
      /\ results'.spoken = results.spoken
      /\ results.dropped \subseteq results'.dropped
  BY HandledAs
<1>2. /\ g \in [active : BOOLEAN, pending : BOOLEAN]
      /\ e.kind = "created" => g.active /\ g.pending = gate.pending
      /\ e.kind = "done" => ~g.active /\ g.pending = gate.pending
      /\ e.kind = "error" => g.active = gate.active /\ g.pending
      /\ e.kind = "call" => g = gate
  BY <1>1, ObservedIs
<1>3. /\ incoming' \in Seq(EventRow) /\ e = incoming[1] /\ 1 \in 1 .. Len(incoming)
      /\ \A a \in 1 .. Len(incoming') : incoming'[a] = incoming[a + 1] /\ a + 1 \in 1 .. Len(incoming)
      /\ \A a \in Nat : /\ DoneAfter(incoming, a + 1) => DoneAfter(incoming', a)
                        /\ CalledAfter(incoming, a + 1) => CalledAfter(incoming', a)
      /\ DoneAfter(incoming, 0) => DoneAfter(incoming', 0) \/ e.kind = "done"
      /\ CalledAfter(incoming, 0) => CalledAfter(incoming', 0) \/ (e.kind = "done" /\ e.called)
      /\ Refused(incoming) => Refused(incoming') \/ e.kind = "error"
      /\ \A n \in Nat : Failed(incoming, n) => Failed(incoming', n) \/ (Unsuccessful(e) /\ e.sees = n)
  BY <1>1, EventHandled
<1> HIDE DEF e, g
<1>4. e.kind \in {"created", "done", "error", "call"}
  BY <1>1 DEF EventRow
<1>5. SaysWhatItSaw'
  BY <1>1 DEF SaysWhatItSaw
<1>6. EventsFollow'
  <2> SUFFICES ASSUME NEW a \in 1 .. Len(incoming')
               PROVE  /\ incoming'[a].kind = "created" => response.on \/ DoneAfter(incoming', a)
                      /\ incoming'[a].kind = "call" => CallsNow \/ CalledAfter(incoming', a)
    BY <1>1 DEF EventsFollow, CallsNow
  <2>1. incoming'[a] = incoming[a + 1] /\ a + 1 \in 1 .. Len(incoming) /\ a \in Nat
    <3>1. incoming' \in Seq(EventRow)
      BY <1>3
    <3>2. a \in Nat
      BY ONLY <3>1, a \in 1 .. Len(incoming')
    <3>3. \A b \in 1 .. Len(incoming') : incoming'[b] = incoming[b + 1] /\ b + 1 \in 1 .. Len(incoming)
      BY <1>3
    <3> QED  BY ONLY <3>2, <3>3, a \in 1 .. Len(incoming')
  <2>2. /\ incoming[a + 1].kind = "created" => response.on \/ DoneAfter(incoming, a + 1)
        /\ incoming[a + 1].kind = "call" => CallsNow \/ CalledAfter(incoming, a + 1)
    BY <2>1 DEF EventsFollow
  <2>3. /\ DoneAfter(incoming, a + 1) => DoneAfter(incoming', a)
        /\ CalledAfter(incoming, a + 1) => CalledAfter(incoming', a)
    BY <1>3, <2>1
  <2> QED  BY <2>1, <2>2, <2>3
\* Where there is a created or a call at the head, what it announces is still to come.
<1>7. /\ e.kind = "created" => response.on \/ DoneAfter(incoming', 0)
      /\ e.kind = "call" => CallsNow \/ CalledAfter(incoming', 0)
  <2>1. 0 \in Nat /\ 0 + 1 = 1
    OBVIOUS
  <2> QED  BY <1>3, <2>1 DEF EventsFollow
<1>8. running' => CallsNow \/ CalledAfter(incoming', 0)
  BY <1>1, <1>7
<1>9. gate.active => response.on \/ DoneAfter(incoming, 0)
  BY <1>1 DEF GateIsTrue
<1>10. CASE Request(g) /\ e.kind \in {"done", "error"}
  <2>1. /\ gate' \in [active : BOOLEAN, pending : BOOLEAN] /\ gate'.active = g.active
        /\ gate'.pending = g.active /\ outgoing' \in Seq(Sent)
        /\ g.active => outgoing' = outgoing
        /\ ~g.active => /\ Len(outgoing') = Len(outgoing) + 1 /\ Len(outgoing) \in Nat
                        /\ \A a \in 1 .. Len(outgoing) : outgoing'[a] = outgoing[a]
                        /\ outgoing'[Len(outgoing) + 1] = "create"
                        /\ \A a \in 0 .. Len(outgoing) : CreateAfter(outgoing', a)
    BY <1>2, <1>10, RequestIs
  <2>2. RealtimeTypeOK'
    <3>1. running' \in BOOLEAN
      BY <1>1
    <3> QED  BY <1>1, <1>3, <2>1, <3>1, RealtimeTyped
  <2>3. GateIsTrue'
    BY <1>1, <1>2, <1>3, <1>9, <1>10, <2>1 DEF GateIsTrue
  <2>4. CASE g.active
    <3>1. ResultsAreAsked'
      <4>1. response' = response /\ outgoing' = outgoing
        BY <1>1, <2>1, <2>4
      <4>2. ASSUME NEW a \in 1 .. Len(outgoing), outgoing[a] = "result"
            PROVE  CallsNow \/ CalledAfter(incoming', 0) \/ CreateAfter(outgoing, a)
        <5>1. CallsNow \/ CalledAfter(incoming, 0) \/ CreateAfter(outgoing, a)
          BY <4>2 DEF ResultsAreAsked
        <5>2. CalledAfter(incoming, 0) => CalledAfter(incoming', 0) \/ (e.kind = "done" /\ e.called)
          BY <1>3
        <5>3. ~(e.kind = "done" /\ e.called)
          BY <1>2, <2>4
        <5> QED  BY <5>1, <5>2, <5>3
      <4> QED  BY ONLY <1>8, <4>1, <4>2 DEF ResultsAreAsked, CallsNow
    <3>2. UnsaidIsAsked'
      BY <2>1, <2>4 DEF UnsaidIsAsked
    <3> QED  BY <1>5, <1>6, <2>2, <2>3, <3>1, <3>2
  <2>5. CASE ~g.active
    <3>1. 0 \in 0 .. Len(outgoing) /\ \A a \in 1 .. Len(outgoing) : a \in 0 .. Len(outgoing)
      BY <2>1, <2>5
    <3>2. ResultsAreAsked'
      <4>1. ASSUME NEW a \in 1 .. Len(outgoing'), outgoing'[a] = "result"  PROVE CreateAfter(outgoing', a)
        <5>1. a \in 1 .. Len(outgoing)
          <6>1. Len(outgoing') = Len(outgoing) + 1 /\ Len(outgoing) \in Nat /\ a # Len(outgoing) + 1
            BY <2>1, <2>5, <4>1
          <6> QED  BY ONLY a \in 1 .. Len(outgoing'), <6>1
        <5>2. \A b \in 0 .. Len(outgoing) : CreateAfter(outgoing', b)
          BY <2>1, <2>5
        <5> QED  BY ONLY <3>1, <5>1, <5>2
      <4>2. response' = response
        BY <1>1
      <4> QED  BY ONLY <1>8, <4>1, <4>2 DEF ResultsAreAsked, CallsNow
    <3>3. UnsaidIsAsked'
      BY <2>1, <2>5, <3>1 DEF UnsaidIsAsked
    <3> QED  BY <1>5, <1>6, <2>2, <2>3, <3>2, <3>3
  <2> QED  BY <2>4, <2>5
<1>11. CASE /\ gate' = g /\ outgoing' = outgoing
            /\ e.kind = "done" => ~e.called /\ ~gate.pending
            /\ e.kind = "error" => gate.active
            /\ Unsuccessful(e) => sleeping' > 0 \/ e.sees \in results'.dropped
  <2>1. RealtimeTypeOK'
    <3>1. running' \in BOOLEAN
      BY <1>1
    <3> QED  BY <1>1, <1>2, <1>3, <1>11, <3>1, RealtimeTyped
  <2>2. ResultsAreAsked'
    BY <1>1, <1>3, <1>8, <1>11 DEF ResultsAreAsked, CallsNow
  <2>3. GateIsTrue'
    <3>1. gate.pending => gate.active
      BY DEF GateIsTrue
    <3>2. gate'.pending => gate'.active
      BY <1>2, <1>4, <1>11, <3>1
    <3>3. gate'.active => response'.on \/ DoneAfter(incoming', 0)
      BY <1>1, <1>2, <1>3, <1>4, <1>7, <1>9, <1>11
    <3> QED  BY <3>2, <3>3 DEF GateIsTrue
  <2>4. UnsaidIsAsked'
    <3> SUFFICES ASSUME Unsaid'
                 PROVE  \/ CreateAfter(outgoing, 0) \/ Refused(incoming') \/ CalledAfter(incoming', 0)
                        \/ Failed(incoming', results.given) \/ gate'.pending \/ sleeping' > 0 \/ CallsNow
                        \/ response.on /\ response.sees = results.given
      BY <1>1, <1>11 DEF UnsaidIsAsked, CallsNow
    <3>1. results.given \notin results'.dropped /\ Unsaid /\ results.given \in Nat
      BY <1>1 DEF Unsaid
    <3>2. \/ CreateAfter(outgoing, 0) \/ Refused(incoming) \/ CalledAfter(incoming, 0)
          \/ Failed(incoming, results.given) \/ gate.pending \/ sleeping > 0 \/ CallsNow
          \/ response.on /\ response.sees = results.given
      BY <3>1 DEF UnsaidIsAsked
    <3>3. sleeping > 0 => sleeping' > 0
      BY <1>1
    <3>4. gate.pending => gate'.pending
      BY <1>2, <1>4, <1>11
    <3>5. e.kind = "error" => gate'.pending
      BY <1>2, <1>11
    <3> QED  BY <1>3, <1>11, <3>1, <3>2, <3>3, <3>4, <3>5
  <2> QED  BY <1>5, <1>6, <2>1, <2>2, <2>3, <2>4
<1> QED  BY <1>1, <1>10, <1>11

LEMMA RealtimeStep ==
  ASSUME RealtimeInv, [RealtimeNext]_realtimeVars  PROVE RealtimeInv'
<1>1. CASE UNCHANGED realtimeVars
  BY <1>1 DEF realtimeVars, RealtimeInv, RealtimeTypeOK, SaysWhatItSaw, EventsFollow, ResultsAreAsked,
              GateIsTrue, UnsaidIsAsked, Unsaid, CallsNow
<1> QED  BY <1>1, AlexSpeaksStep, OpenAIReadsStep, ModelCallsStep, ResponseEndsStep, HandleStep,
            ToolReturnsStep, RetryFiresStep, DropStep DEF RealtimeNext

LEMMA RealtimeShows ==
  ASSUME RealtimeInv  PROVE RealtimeTypeOK /\ NoResultIsLeftUnsaid
<1> SUFFICES ASSUME AtRest, Unsaid  PROVE FALSE
  BY DEF RealtimeInv, NoResultIsLeftUnsaid, Unsaid
<1>1. ~response.on /\ outgoing = <<>> /\ incoming = <<>> /\ sleeping = 0
  BY DEF AtRest
<1>2. Len(incoming) = 0 /\ Len(outgoing) = 0
  BY <1>1, EmptySeq
<1>3. ~CreateAfter(outgoing, 0) /\ ~Refused(incoming) /\ ~CalledAfter(incoming, 0) /\ ~Failed(incoming, results.given)
  BY <1>2 DEF CreateAfter, Refused, CalledAfter, Failed
<1>4. ~DoneAfter(incoming, 0) /\ ~CallsNow
  BY <1>1, <1>2 DEF DoneAfter, CallsNow
<1>5. gate.pending
  BY <1>1, <1>3, <1>4 DEF RealtimeInv, UnsaidIsAsked
<1>6. results.given = 0
  BY <1>1, <1>4, <1>5 DEF RealtimeInv, GateIsTrue
<1>7. results.spoken = 0
  BY <1>6, RealtimeFacts DEF RealtimeInv, SaysWhatItSaw
<1> QED  BY <1>6, <1>7 DEF Unsaid

-----------------------------------------------------------------------------
(* New mail.                                                               *)

\* What was announced, or is about to be, the watcher knows; and what is about
\* to be was not announced before.
HeardIsKnown ==
  \A e \in Mail \ forgotten :
    /\ heard[e] > 0 \/ e \in check.found => e \in Known(InboxOf[e])
    /\ e \in check.found => heard[e] = 0
    /\ heard[e] <= 1

CursorsArePast ==
  /\ check.started <= clock
  /\ check.listed => check.inbox > 0 /\ check.started > 0
  /\ \A i \in 1 .. Len(Inboxes) : watchers[i].until <= clock

CheckIsOfInbox == \A e \in check.left \union check.found : InboxOf[e] = check.inbox

\* What a check in progress does not take is within reach of the next.
ComesNext(e) ==
  InboxOf[e] = check.inbox /\ check.listed =>
    e \in check.left \/ dates[e] >= check.started - OVERLAP

NextReaches ==
  \A e \in unread \ (forgotten \union crowdedOut) :
    e \notin Known(InboxOf[e]) => dates[e] >= Since(InboxOf[e]) /\ ComesNext(e)

MailInv ==
  NewMailTypeOK /\ HeardIsKnown /\ CursorsArePast /\ CheckIsOfInbox /\ NextReaches

\* What the constants are.
LEMMA MailFacts ==
  /\ Len(Inboxes) \in Nat /\ InboxOf \in [Mail -> 1 .. Len(Inboxes)]
  /\ OVERLAP \in Nat /\ OVERLAP > 0 /\ LIST_LIMIT \in Nat /\ ANNOUNCED_LIMIT \in Nat
  /\ MaxClock \in Nat /\ MaxClock > 0 /\ MaxMailFailures \in Nat
BY NewMailAssumption

\* What a watcher knows it remembers, or has had to forget.
LEMMA RememberHas ==
  ASSUME NEW s \in Seq(Mail), NEW e \in Mail
  PROVE  /\ Remember(s, e) \in Seq(Mail) /\ PushedOut(s, e) \subseteq Mail
         /\ ToSet(s) \union {e} \subseteq ToSet(Remember(s, e)) \union PushedOut(s, e)
<1> DEFINE longer == Append(s, e)
<1>1. /\ longer \in Seq(Mail) /\ Len(longer) = Len(s) + 1 /\ Len(s) \in Nat
      /\ ToSet(longer) = ToSet(s) \union {e}
  BY AppendHas
<1>2. longer # <<>>
  BY <1>1, EmptySeq
<1>3. /\ Head(longer) \in Mail /\ Tail(longer) \in Seq(Mail)
      /\ ToSet(longer) = ToSet(Tail(longer)) \union {Head(longer)}
  BY <1>1, <1>2, TailHas
<1>4. Len(longer) > ANNOUNCED_LIMIT <=> Len(s) >= ANNOUNCED_LIMIT
  BY <1>1, MailFacts
<1> HIDE DEF longer
<1>5. CASE Len(s) >= ANNOUNCED_LIMIT
  <2>1. Remember(s, e) = Tail(longer) /\ PushedOut(s, e) = {Head(longer)}
    BY <1>4, <1>5 DEF Remember, PushedOut, longer
  <2> QED  BY <1>1, <1>3, <2>1
<1>6. CASE ~(Len(s) >= ANNOUNCED_LIMIT)
  <2>1. Remember(s, e) = longer /\ PushedOut(s, e) = {}
    BY <1>4, <1>6 DEF Remember, PushedOut, longer
  <2> QED  BY <1>1, <2>1
<1> QED  BY <1>5, <1>6

LEMMA MailStart ==
  ASSUME NewMailInit  PROVE MailInv
<1>1. NewMailTypeOK
  <2>1. check \in [inbox : 0 .. Len(Inboxes), listed : BOOLEAN, started : 0 .. MaxClock,
                   left : SUBSET Mail, found : SUBSET Mail]
    BY MailFacts DEF NewMailInit, NoCheck
  <2>2. watchers \in [1 .. Len(Inboxes) -> [until : 1 .. MaxClock, announced : Seq(Mail)]]
    BY MailFacts, EmptySeq DEF NewMailInit
  <2>3. dates \in [Mail -> 0 .. MaxClock]
    BY MailFacts DEF NewMailInit
  <2>4. heard \in [Mail -> 0 .. 2]
    BY DEF NewMailInit
  <2> QED  BY <2>1, <2>2, <2>3, <2>4, MailFacts DEF NewMailInit, NewMailTypeOK
<1> QED  BY <1>1 DEF NewMailInit, MailInv, HeardIsKnown, CursorsArePast, CheckIsOfInbox, NextReaches,
                     ComesNext, NoCheck

CheckRecord == [inbox : 0 .. Len(Inboxes), listed : BOOLEAN, started : 0 .. MaxClock,
                left : SUBSET Mail, found : SUBSET Mail]

\* A check begins with nothing listed.
LEMMA CheckOfIs ==
  \A i \in Nat \ {0} : /\ CheckOf(i) \in CheckRecord /\ ~CheckOf(i).listed /\ CheckOf(i).started = 0
                       /\ CheckOf(i).left = {} /\ CheckOf(i).found = {}
<1> SUFFICES ASSUME NEW i \in Nat \ {0}
             PROVE  /\ CheckOf(i) \in CheckRecord /\ ~CheckOf(i).listed /\ CheckOf(i).started = 0
                    /\ CheckOf(i).left = {} /\ CheckOf(i).found = {}
  OBVIOUS
<1>1. CASE i > Len(Inboxes)
  BY <1>1, MailFacts DEF CheckOf, NoCheck, CheckRecord
<1>2. CASE ~(i > Len(Inboxes))
  <2>1. CheckOf(i) = [inbox |-> i, listed |-> FALSE, started |-> 0, left |-> {}, found |-> {}]
    BY <1>2 DEF CheckOf, NoCheck
  <2>2. i \in 0 .. Len(Inboxes)
    BY <1>2, MailFacts
  <2> QED  BY <2>1, <2>2, MailFacts DEF CheckRecord
<1> QED  BY <1>1, <1>2

\* The steps of mail and of a check, one lemma each.
LEMMA MailTickStep ==
  ASSUME MailInv, MailTick \/ AlexReads \/ VoiceConnects  PROVE MailInv'
<1> USE DEF MailInv
<1>1. NewMailTypeOK'
  <2>1. clock' \in 1 .. MaxClock
    BY MailFacts DEF NewMailTypeOK, MailTick, AlexReads, VoiceConnects
  <2>2. unread' \subseteq Mail
    BY DEF NewMailTypeOK, MailTick, AlexReads, VoiceConnects
  <2>3. listening' \in BOOLEAN
    <3>1. listening' = TRUE \/ listening' = listening
      BY DEF MailTick, AlexReads, VoiceConnects
    <3> QED  BY <3>1 DEF NewMailTypeOK
  <2>4. UNCHANGED <<dates, check, watchers, crowdedOut, forgotten, heard, mishaps>>
    BY DEF MailTick, AlexReads, VoiceConnects
  <2> QED  BY <2>1, <2>2, <2>3, <2>4 DEF NewMailTypeOK
<1>2. clock' >= clock /\ unread' \subseteq unread /\ clock \in Nat /\ clock' \in Nat
      /\ UNCHANGED <<dates, check, watchers, crowdedOut, forgotten, heard>>
  BY <1>1, MailFacts DEF NewMailTypeOK, MailTick, AlexReads, VoiceConnects
<1>3. HeardIsKnown' /\ CheckIsOfInbox'
  BY <1>2 DEF HeardIsKnown, CheckIsOfInbox, Known
<1>4. CursorsArePast'
  BY <1>2 DEF CursorsArePast, NewMailTypeOK
<1>5. NextReaches'
  BY <1>2 DEF NextReaches, ComesNext, Known, Since
<1> QED  BY <1>1, <1>3, <1>4, <1>5

LEMMA MailArrivesStep ==
  ASSUME MailInv, MailArrives  PROVE MailInv'
<1> USE MailFacts DEF MailInv
<1>1. PICK e \in Mail, skew \in 0 .. OVERLAP :
        /\ clock - skew > 0
        /\ dates' = [dates EXCEPT ![e] = clock - skew]
        /\ unread' = unread \union {e}
        /\ UNCHANGED <<clock, listening, check, watchers, crowdedOut, forgotten, heard, mishaps>>
  BY DEF MailArrives
<1>2. clock \in 1 .. MaxClock /\ dates \in [Mail -> 0 .. MaxClock] /\ unread \subseteq Mail
  BY DEF NewMailTypeOK
<1>3. clock - skew \in 0 .. MaxClock
  BY <1>1, <1>2
<1>4. dates' \in [Mail -> 0 .. MaxClock]
  BY <1>1, <1>2, <1>3
<1>5. NewMailTypeOK'
  BY <1>1, <1>2, <1>4 DEF NewMailTypeOK
<1>6. HeardIsKnown' /\ CheckIsOfInbox' /\ CursorsArePast'
  BY <1>1 DEF HeardIsKnown, CheckIsOfInbox, CursorsArePast, Known
<1>7. NextReaches'
  <2> SUFFICES ASSUME NEW f \in unread' \ (forgotten \union crowdedOut),
                      f \notin Known(InboxOf[f])
               PROVE  /\ dates'[f] >= Since(InboxOf[f])
                      /\ (InboxOf[f] = check.inbox /\ check.listed =>
                            f \in check.left \/ dates'[f] >= check.started - OVERLAP)
    BY <1>1 DEF NextReaches, ComesNext, Known, Since
  <2>1. CASE f = e
    <3>1. dates'[f] = clock - skew /\ InboxOf[f] \in 1 .. Len(Inboxes)
      BY <1>1, <1>2, <2>1
    <3>2. watchers[InboxOf[f]].until <= clock /\ check.started <= clock
      BY <3>1 DEF CursorsArePast
    <3>3. watchers[InboxOf[f]].until \in Nat /\ check.started \in Nat
      BY <3>1 DEF NewMailTypeOK
    <3>4. /\ Since(InboxOf[f]) = watchers[InboxOf[f]].until - OVERLAP
          /\ skew \in 0 .. OVERLAP /\ clock \in Nat /\ OVERLAP \in Nat
      BY <1>2 DEF Since
    <3> QED  BY ONLY <3>1, <3>2, <3>3, <3>4
  <2>2. CASE f # e
    BY <1>1, <1>2, <2>2 DEF NextReaches, ComesNext
  <2> QED  BY <2>1, <2>2
<1> QED  BY <1>5, <1>6, <1>7

\* A check ends, fails or is cut: what it had found is gone with it.
LEMMA CheckLeftStep ==
  ASSUME MailInv, StartCheck \/ CheckFails \/ VoiceDisconnects  PROVE MailInv'
<1> USE MailFacts DEF MailInv
<1>1. check.inbox \in 0 .. Len(Inboxes) /\ mishaps \in 0 .. MaxMailFailures
  BY DEF NewMailTypeOK
<1>2. /\ check' \in CheckRecord /\ ~check'.listed /\ check'.started = 0
      /\ check'.left = {} /\ check'.found = {}
  <2>1. CASE VoiceDisconnects
    BY <2>1 DEF VoiceDisconnects, NoCheck, CheckRecord
  <2>2. CASE StartCheck
    BY <2>2, CheckOfIs DEF StartCheck
  <2>3. CASE CheckFails
    <3>1. check.inbox + 1 \in Nat \ {0} /\ check' = CheckOf(check.inbox + 1)
      BY <1>1, <2>3 DEF CheckFails
    <3> QED  BY <3>1, CheckOfIs
  <2> QED  BY <2>1, <2>2, <2>3
<1>3. UNCHANGED <<clock, dates, unread, watchers, crowdedOut, forgotten, heard>>
  BY DEF StartCheck, CheckFails, VoiceDisconnects
<1>4. listening' \in BOOLEAN /\ mishaps' \in 0 .. MaxMailFailures
  <2>1. listening' = FALSE \/ listening' = listening
    BY DEF StartCheck, CheckFails, VoiceDisconnects
  <2>2. mishaps' = mishaps \/ (mishaps' = mishaps + 1 /\ mishaps < MaxMailFailures)
    BY DEF StartCheck, CheckFails, VoiceDisconnects
  <2>3. listening' \in BOOLEAN
    BY <2>1 DEF NewMailTypeOK
  <2> QED  BY <1>1, <2>2, <2>3
<1>5. NewMailTypeOK'
  BY <1>2, <1>3, <1>4 DEF NewMailTypeOK, CheckRecord
<1>6. HeardIsKnown'
  BY <1>2, <1>3 DEF HeardIsKnown, Known
<1>7. CheckIsOfInbox' /\ NextReaches'
  BY <1>2, <1>3 DEF CheckIsOfInbox, NextReaches, ComesNext, Known, Since
<1>8. CursorsArePast'
  BY <1>2, <1>3 DEF CursorsArePast, NewMailTypeOK
<1> QED  BY <1>5, <1>6, <1>7, <1>8

LEMMA ListNewStep ==
  ASSUME MailInv, ListNew  PROVE MailInv'
<1> USE MailFacts DEF MailInv
<1> DEFINE all == Matching(check.inbox)
<1>1. PICK page \in SUBSET all :
        /\ check' = [check EXCEPT !.listed = TRUE, !.started = clock, !.left = page]
        /\ crowdedOut' = crowdedOut \union (all \ page)
  BY DEF ListNew
<1>2. check.inbox > 0 /\ ~check.listed
      /\ UNCHANGED <<clock, dates, unread, listening, watchers, forgotten, heard, mishaps>>
  BY DEF ListNew
<1>3. /\ check \in CheckRecord /\ clock \in 1 .. MaxClock /\ unread \subseteq Mail
      /\ dates \in [Mail -> 0 .. MaxClock]
  BY DEF NewMailTypeOK, CheckRecord
<1>4. /\ all \subseteq unread
      /\ \A e \in all : InboxOf[e] = check.inbox
      /\ \A e \in unread : InboxOf[e] = check.inbox /\ dates[e] >= Since(check.inbox) => e \in all
  BY DEF Matching
<1> HIDE DEF all
<1>5. page \subseteq Mail
  BY <1>1, <1>3, <1>4
<1>6. /\ check'.inbox = check.inbox /\ check'.listed /\ check'.started = clock
      /\ check'.left = page /\ check'.found = check.found
      /\ check' \in CheckRecord
  <2> DEFINE a == [check EXCEPT !.listed = TRUE]
             b == [a EXCEPT !.started = clock]
             c == [b EXCEPT !.left = page]
  <2>1. /\ a \in CheckRecord /\ a.inbox = check.inbox /\ a.listed = TRUE /\ a.found = check.found
    BY <1>3 DEF CheckRecord
  <2> HIDE DEF a
  <2>2. /\ b \in CheckRecord /\ b.inbox = a.inbox /\ b.listed = a.listed /\ b.found = a.found
        /\ b.started = clock
    <3>1. clock \in 0 .. MaxClock
      BY <1>3
    <3> QED  BY <2>1, <3>1 DEF CheckRecord
  <2> HIDE DEF b
  <2>3. /\ c \in CheckRecord /\ c.inbox = b.inbox /\ c.listed = b.listed /\ c.found = b.found
        /\ c.started = b.started /\ c.left = page
    BY <1>5, <2>2 DEF CheckRecord
  <2> HIDE DEF c
  <2>4. check' = c
    BY <1>1 DEF a, b, c
  <2> QED  BY <2>1, <2>2, <2>3, <2>4
<1>7. NewMailTypeOK'
  BY <1>1, <1>2, <1>3, <1>4, <1>6 DEF NewMailTypeOK, CheckRecord
<1>8. HeardIsKnown' /\ CheckIsOfInbox'
  BY <1>1, <1>2, <1>4, <1>6 DEF HeardIsKnown, CheckIsOfInbox, Known
<1>9. CursorsArePast'
  BY <1>2, <1>3, <1>6 DEF CursorsArePast
<1>10. NextReaches'
  <2> SUFFICES ASSUME NEW e \in unread \ (forgotten \union crowdedOut'), e \notin Known(InboxOf[e])
               PROVE  /\ dates[e] >= Since(InboxOf[e])
                      /\ InboxOf[e] = check.inbox => e \in page
    BY <1>2, <1>6 DEF NextReaches, ComesNext, Known, Since
  <2>1. e \in unread \ (forgotten \union crowdedOut) /\ (e \in all => e \in page)
    BY <1>1
  <2>2. dates[e] >= Since(InboxOf[e])
    BY <2>1 DEF NextReaches
  <2> QED  BY <1>4, <2>1, <2>2
<1> QED  BY <1>7, <1>8, <1>9, <1>10

LEMMA FetchNewStep ==
  ASSUME MailInv, FetchNew  PROVE MailInv'
<1> USE MailFacts DEF MailInv
<1> DEFINE i == check.inbox
           seq == watchers[i].announced
<1>1. PICK e \in check.left :
        /\ check' = [check EXCEPT !.left = @ \ {e},
                                  !.found = IF e \in Known(i) \/ e \in NoReplyMail THEN @
                                            ELSE @ \union {e}]
        /\ watchers' = IF e \in Known(i) THEN watchers
                       ELSE [watchers EXCEPT ![i].announced = Remember(@, e)]
        /\ forgotten' = IF e \in Known(i) THEN forgotten ELSE forgotten \union PushedOut(seq, e)
        /\ UNCHANGED <<clock, dates, unread, listening, crowdedOut, heard, mishaps>>
  BY DEF FetchNew
<1>2. /\ check \in CheckRecord /\ e \in Mail /\ InboxOf[e] = i /\ i \in 1 .. Len(Inboxes)
      /\ check.left \subseteq Mail /\ check.found \subseteq Mail
      /\ watchers \in [1 .. Len(Inboxes) -> [until : 1 .. MaxClock, announced : Seq(Mail)]]
      /\ forgotten \subseteq Mail
  BY DEF NewMailTypeOK, CheckRecord, CheckIsOfInbox
<1> DEFINE found == IF e \in Known(i) \/ e \in NoReplyMail THEN check.found ELSE check.found \union {e}
<1>3. /\ check' \in CheckRecord /\ check'.inbox = i /\ check'.listed = check.listed
      /\ check'.started = check.started /\ check'.left = check.left \ {e} /\ check'.found = found
  <2> DEFINE a == [check EXCEPT !.left = @ \ {e}]
             b == [a EXCEPT !.found = found]
  <2>1. found \subseteq Mail
    BY <1>2
  <2> HIDE DEF found
  <2>2. /\ a \in CheckRecord /\ a.inbox = check.inbox /\ a.listed = check.listed
        /\ a.started = check.started /\ a.left = check.left \ {e}
    BY <1>2 DEF CheckRecord
  <2> HIDE DEF a
  <2>3. /\ b \in CheckRecord /\ b.inbox = a.inbox /\ b.listed = a.listed
        /\ b.started = a.started /\ b.left = a.left /\ b.found = found
    BY <2>1, <2>2 DEF CheckRecord
  <2> HIDE DEF b
  <2>4. check' = b
    BY <1>1 DEF a, b, found
  <2> QED  BY <2>2, <2>3, <2>4
<1>4. /\ watchers' \in [1 .. Len(Inboxes) -> [until : 1 .. MaxClock, announced : Seq(Mail)]]
      /\ \A j \in 1 .. Len(Inboxes) : watchers'[j].until = watchers[j].until
      /\ forgotten \subseteq forgotten' /\ forgotten' \subseteq Mail
      /\ \A j \in 1 .. Len(Inboxes) : Known(j) \subseteq Known(j)' \union forgotten'
      /\ \A j \in 1 .. Len(Inboxes) : j = i => e \in Known(j)' \union forgotten'
  <2>1. CASE e \in Known(i)
    BY <1>1, <1>2, <2>1 DEF Known
  <2>2. CASE e \notin Known(i)
    <3> DEFINE later == Remember(seq, e)
    <3>1. seq \in Seq(Mail)
      BY <1>2
    <3>2. /\ later \in Seq(Mail) /\ PushedOut(seq, e) \subseteq Mail
          /\ ToSet(seq) \union {e} \subseteq ToSet(later) \union PushedOut(seq, e)
      BY <1>2, <3>1, RememberHas
    <3>3. watchers' = [watchers EXCEPT ![i].announced = later]
          /\ forgotten' = forgotten \union PushedOut(seq, e)
      BY <1>1, <2>2
    <3> HIDE DEF later
    <3>4. /\ watchers' \in [1 .. Len(Inboxes) -> [until : 1 .. MaxClock, announced : Seq(Mail)]]
          /\ \A j \in 1 .. Len(Inboxes) : watchers'[j].until = watchers[j].until
          /\ \A j \in 1 .. Len(Inboxes) :
               watchers'[j].announced = IF j = i THEN later ELSE watchers[j].announced
      BY <1>2, <3>2, <3>3
    <3>5. \A j \in 1 .. Len(Inboxes) :
            /\ Known(j) = ToSet(watchers[j].announced)
            /\ Known(j)' = IF j = i THEN ToSet(later) ELSE ToSet(watchers[j].announced)
      BY <3>4 DEF Known
    <3>6. \A j \in 1 .. Len(Inboxes) :
            /\ Known(j) \subseteq Known(j)' \union forgotten'
            /\ j = i => e \in Known(j)' \union forgotten'
      BY <3>2, <3>3, <3>5
    <3>7. forgotten \subseteq forgotten' /\ forgotten' \subseteq Mail
      BY <1>2, <3>2, <3>3
    <3> QED  BY <3>4, <3>6, <3>7
  <2> QED  BY <2>1, <2>2
<1>5. found \subseteq check.found \union {e} /\ (e \notin check.found /\ e \in found => e \notin Known(i))
  OBVIOUS
<1>6. UNCHANGED <<clock, dates, unread, listening, crowdedOut, heard, mishaps>>
  BY <1>1
<1> HIDE DEF found, i, seq
<1>7. NewMailTypeOK'
  BY <1>3, <1>4, <1>6 DEF NewMailTypeOK, CheckRecord
<1>8. HeardIsKnown'
  <2> SUFFICES ASSUME NEW f \in Mail \ forgotten'
               PROVE  /\ heard[f] > 0 \/ f \in found => f \in Known(InboxOf[f])'
                      /\ f \in found => heard[f] = 0
                      /\ heard[f] <= 1
    BY <1>3, <1>6 DEF HeardIsKnown, Known
  <2>1. /\ f \in Mail \ forgotten /\ InboxOf[f] \in 1 .. Len(Inboxes) /\ heard[f] \in 0 .. 2
    BY <1>4 DEF NewMailTypeOK
  <2>2. /\ heard[f] > 0 \/ f \in check.found => f \in Known(InboxOf[f])
        /\ f \in check.found => heard[f] = 0
        /\ heard[f] <= 1
    BY <2>1 DEF HeardIsKnown
  <2>3. f \in Known(InboxOf[f]) => f \in Known(InboxOf[f])'
    BY <1>4, <2>1 DEF Known
  <2>4. f = e => f \in Known(InboxOf[f])'
    BY <1>2, <1>4
  <2>5. f \in found /\ f \notin check.found => f \notin Known(InboxOf[f])
    BY <1>2, <1>5
  <2> QED  BY <1>5, <2>1, <2>2, <2>3, <2>4, <2>5
<1>9. CheckIsOfInbox'
  BY <1>2, <1>3, <1>5 DEF CheckIsOfInbox
<1>10. CursorsArePast'
  BY <1>2, <1>3, <1>4, <1>6 DEF CursorsArePast, i
<1>11. NextReaches'
  <2> SUFFICES ASSUME NEW f \in unread \ (forgotten' \union crowdedOut), f \notin Known(InboxOf[f])'
               PROVE  /\ dates[f] >= Since(InboxOf[f])'
                      /\ InboxOf[f] = i /\ check.listed =>
                           f \in check.left \ {e} \/ dates[f] >= check.started - OVERLAP
    BY <1>3, <1>6 DEF NextReaches, ComesNext, Known, Since
  <2>1. f \in Mail /\ InboxOf[f] \in 1 .. Len(Inboxes)
    BY DEF NewMailTypeOK
  <2>2. f \in unread \ (forgotten \union crowdedOut) /\ f \notin Known(InboxOf[f])
    BY <1>4, <2>1 DEF Known
  <2>3. f # e
    BY <1>2, <1>4
  <2>4. dates[f] >= Since(InboxOf[f]) /\ ComesNext(f)
    BY <2>2 DEF NextReaches
  <2>5. Since(InboxOf[f])' = Since(InboxOf[f])
    BY <1>4, <2>1 DEF Since
  <2> QED  BY <1>2, <2>3, <2>4, <2>5 DEF ComesNext, i
<1> QED  BY <1>7, <1>8, <1>9, <1>10, <1>11

LEMMA FinishCheckStep ==
  ASSUME MailInv, FinishCheck  PROVE MailInv'
<1> USE MailFacts DEF MailInv
<1> DEFINE i == check.inbox
<1>1. /\ check.listed /\ check.left = {}
      /\ watchers' = [watchers EXCEPT ![i].until = check.started]
      /\ heard' = [e \in Mail |-> IF e \in check.found /\ heard[e] < 2 THEN heard[e] + 1 ELSE heard[e]]
      /\ check' = CheckOf(i + 1)
      /\ UNCHANGED <<clock, dates, unread, listening, crowdedOut, forgotten, mishaps>>
  BY DEF FinishCheck, Covered
<1>2. /\ check \in CheckRecord /\ clock \in 1 .. MaxClock /\ i \in 0 .. Len(Inboxes)
      /\ watchers \in [1 .. Len(Inboxes) -> [until : 1 .. MaxClock, announced : Seq(Mail)]]
      /\ heard \in [Mail -> 0 .. 2]
  BY DEF NewMailTypeOK, CheckRecord
<1>3. /\ i \in 1 .. Len(Inboxes) /\ check.started \in 1 .. MaxClock /\ check.started <= clock
  BY <1>1, <1>2 DEF CheckRecord, CursorsArePast
<1> DEFINE start == check.started
<1>4. /\ check' \in CheckRecord /\ ~check'.listed /\ check'.started = 0
      /\ check'.left = {} /\ check'.found = {}
  <2>1. i + 1 \in Nat \ {0}
    BY <1>2
  <2> QED  BY <1>1, <2>1, CheckOfIs
<1>5. /\ watchers' \in [1 .. Len(Inboxes) -> [until : 1 .. MaxClock, announced : Seq(Mail)]]
      /\ \A j \in 1 .. Len(Inboxes) : watchers'[j].until = IF j = i THEN start ELSE watchers[j].until
      /\ \A j \in 1 .. Len(Inboxes) : watchers'[j].announced = watchers[j].announced
  <2> HIDE DEF i, start
  <2>1. watchers' = [watchers EXCEPT ![i].until = start] /\ start \in 1 .. MaxClock
    BY <1>1, <1>3 DEF i, start
  <2> QED  BY <1>2, <1>3, <2>1 DEF i
<1>6. /\ heard' \in [Mail -> 0 .. 2]
      /\ \A e \in Mail : heard'[e] = IF e \in check.found /\ heard[e] < 2 THEN heard[e] + 1 ELSE heard[e]
  BY <1>1, <1>2
<1>7. \A j \in 1 .. Len(Inboxes) : Known(j)' = Known(j)
  BY <1>5 DEF Known
<1>8. UNCHANGED <<clock, dates, unread, listening, crowdedOut, forgotten, mishaps>>
  BY <1>1
<1>9. NewMailTypeOK'
  BY <1>4, <1>5, <1>6, <1>8 DEF NewMailTypeOK, CheckRecord
<1>10. HeardIsKnown'
  <2> SUFFICES ASSUME NEW f \in Mail \ forgotten
               PROVE  (heard'[f] > 0 => f \in Known(InboxOf[f])) /\ heard'[f] <= 1
    BY <1>4, <1>7, <1>8 DEF HeardIsKnown
  <2>1. heard[f] \in 0 .. 2
    BY <1>2
  <2>2. /\ heard[f] > 0 \/ f \in check.found => f \in Known(InboxOf[f])
        /\ f \in check.found => heard[f] = 0
        /\ heard[f] <= 1
    BY DEF HeardIsKnown
  <2> QED  BY <1>6, <2>1, <2>2
<1>11. CheckIsOfInbox' /\ CursorsArePast'
  <2>1. \A j \in 1 .. Len(Inboxes) : watchers'[j].until <= clock
    BY <1>3, <1>5 DEF CursorsArePast
  <2> QED  BY <1>2, <1>4, <1>8, <2>1 DEF CheckIsOfInbox, CursorsArePast
<1>12. NextReaches'
  <2> SUFFICES ASSUME NEW f \in unread \ (forgotten \union crowdedOut), f \notin Known(InboxOf[f])
               PROVE  dates[f] >= watchers'[InboxOf[f]].until - OVERLAP
    BY <1>4, <1>7, <1>8 DEF NextReaches, ComesNext, Since, NewMailTypeOK
  <2>1. InboxOf[f] \in 1 .. Len(Inboxes)
    BY DEF NewMailTypeOK
  <2>2. dates[f] >= Since(InboxOf[f]) /\ ComesNext(f)
    BY DEF NextReaches
  <2> QED  BY <1>1, <1>5, <2>1, <2>2 DEF Since, ComesNext
<1> QED  BY <1>9, <1>10, <1>11, <1>12

LEMMA MailStep ==
  ASSUME MailInv, [NewMailNext]_newMailVars  PROVE MailInv'
<1>1. CASE UNCHANGED newMailVars
  BY <1>1 DEF newMailVars, MailInv, NewMailTypeOK, HeardIsKnown, CursorsArePast, CheckIsOfInbox,
              NextReaches, ComesNext, Known, Since
<1> QED  BY <1>1, MailTickStep, MailArrivesStep, CheckLeftStep, ListNewStep, FetchNewStep,
            FinishCheckStep DEF NewMailNext

LEMMA MailShows ==
  ASSUME MailInv  PROVE NewMailTypeOK /\ MailIsReached
BY DEF MailInv, MailIsReached, HeardIsKnown, NextReaches

-----------------------------------------------------------------------------
(* A voice connection.                                                     *)

TurnRecord == [phase : {"idle", "asking", "calling"}, rounds : 0 .. MAX_TOOL_ROUNDS,
               calls : Seq([id : Nat])]
ItemRecord == [kind : {"user", "assistant", "call", "output"}, id : Nat]
SentMail == [to : Letters \cup Addresses, text : Texts \cup {"reply"}, answered : BOOLEAN, nr : Nat]

\* In conversation h, in which n calls were made and those in waiting have not
\* run, every call is there once, and its output once and after it, unless it waits.
CallsAreNamed(h, n) == \A k \in 1 .. Len(h) : h[k].kind \in {"call", "output"} => h[k].id \in 1 .. n
NoneTwice(h) ==
  \A k, l \in 1 .. Len(h) : h[k].kind \in {"call", "output"} /\ h[k] = h[l] => k = l
OutputsFollow(h) ==
  \A l \in 1 .. Len(h) : h[l].kind = "output" => \E k \in 1 .. l - 1 : h[k] = Item("call", h[l].id)
CallsReturn(h, waiting_) ==
  \A k \in 1 .. Len(h) : h[k].kind = "call" =>
    h[k].id \in waiting_ \/ \E l \in 1 .. Len(h) : h[l] = Item("output", h[k].id)
WaitingAreCalls(h, waiting_) ==
  \A id \in waiting_ : /\ \E k \in 1 .. Len(h) : h[k] = Item("call", id)
                       /\ \A l \in 1 .. Len(h) : h[l] # Item("output", id)
Paired(h, waiting_, n) ==
  /\ CallsAreNamed(h, n) /\ NoneTwice(h) /\ OutputsFollow(h)
  /\ CallsReturn(h, waiting_) /\ WaitingAreCalls(h, waiting_)

IdsOf(calls_) == {calls_[k].id : k \in 1 .. Len(calls_)}
Distinct(calls_) == \A k, l \in 1 .. Len(calls_) : calls_[k].id = calls_[l].id => k = l

HistoryIsPaired ==
  /\ Paired(history, IdsOf(turn.calls), counts.calls)
  /\ Distinct(turn.calls)
  /\ turn.calls = <<>> <=> turn.phase # "calling"

\* What Gmail is known to have sent is noted, and once.
Answered == {m \in outbox : m.answered /\ m.text # "reply"}
AnsweredIsNoted ==
  \A m \in outbox : m.answered =>
    /\ m.text = "reply" => m.to \in session.replied
    /\ m.text # "reply" => <<m.to, m.text>> \in session.newEmails
AnsweredOnce ==
  \A m, n \in outbox : m.answered /\ n.answered /\ m.to = n.to /\ m.text = n.text => m = n
NotedAreFew ==
  /\ IsFiniteSet(outbox) /\ IsFiniteSet(session.newEmails)
  /\ \A m \in outbox : m.nr < Cardinality(outbox)
  /\ Cardinality(Answered) <= Cardinality(session.newEmails)
  /\ Cardinality(session.newEmails) <= NEW_EMAILS_PER_SESSION
SentIsFound == \A m \in outbox : m.text # "reply" => m.to \in emailed

SessionInv ==
  /\ VoiceSessionTypeOK /\ HistoryIsPaired
  /\ AnsweredIsNoted /\ AnsweredOnce /\ NotedAreFew /\ SentIsFound

\* What the constants are.
LEMMA SessionFacts ==
  /\ MAX_TOOL_ROUNDS \in Nat /\ MAX_HISTORY_ITEMS \in Nat /\ NEW_EMAILS_PER_SESSION \in Nat
  /\ MaxUtterances \in Nat /\ MaxLost \in Nat /\ "reply" \notin Texts
  /\ Acquainted \subseteq Addresses
BY VoiceSessionAssumption

LEMMA SessionStart ==
  ASSUME VoiceSessionInit  PROVE SessionInv
<1> USE SessionFacts
<1>1. VoiceSessionTypeOK
  BY EmptySeq DEF VoiceSessionInit, VoiceSessionTypeOK, NoTurn, NewSession
<1>2. HistoryIsPaired
  <2>1. Len(history) = 0 /\ turn.calls = <<>> /\ Len(turn.calls) = 0 /\ turn.phase = "idle"
        /\ IdsOf(turn.calls) = {}
    BY EmptySeq DEF VoiceSessionInit, NoTurn, IdsOf
  <2> QED
    BY <2>1 DEF HistoryIsPaired, Paired, CallsAreNamed, NoneTwice, OutputsFollow, CallsReturn,
                WaitingAreCalls, Distinct
<1>3. NotedAreFew
  <2>1. outbox = {} /\ session.newEmails = {} /\ Answered = {}
    BY DEF VoiceSessionInit, NewSession, Answered
  <2> QED  BY <2>1, FS_EmptySet DEF NotedAreFew
<1> QED  BY <1>1, <1>2, <1>3 DEF VoiceSessionInit, SessionInv, AnsweredIsNoted, AnsweredOnce, SentIsFound

\* Pairing is about calls and outputs: what Alex and the model say leaves it alone.
LEMMA OthersArePaired ==
  ASSUME NEW h \in Seq(ItemRecord), NEW W \in SUBSET Nat, NEW n \in Nat, NEW x \in ItemRecord,
         x.kind \in {"user", "assistant"}, Paired(h, W, n)
  PROVE  Append(h, x) \in Seq(ItemRecord) /\ Paired(Append(h, x), W, n)
<1> DEFINE g == Append(h, x)
<1>1. /\ g \in Seq(ItemRecord) /\ Len(g) = Len(h) + 1 /\ Len(h) \in Nat
      /\ \A a \in 1 .. Len(h) : g[a] = h[a]
      /\ g[Len(h) + 1] = x
  BY AppendHas
<1> HIDE DEF g
<1>2. \A a \in 1 .. Len(g) : a \in 1 .. Len(h) \/ a = Len(h) + 1
  BY <1>1
<1>3. \A id : x # Item("call", id) /\ x # Item("output", id)
  BY DEF Item
<1>4. 1 .. Len(h) \subseteq 1 .. Len(g)
  BY <1>1
<1>5. CallsAreNamed(g, n)
  BY <1>1, <1>2 DEF Paired, CallsAreNamed
<1>6. NoneTwice(g)
  BY <1>1, <1>2 DEF Paired, NoneTwice
<1>7. OutputsFollow(g)
  <2> SUFFICES ASSUME NEW l \in 1 .. Len(g), g[l].kind = "output"
               PROVE  \E k \in 1 .. l - 1 : g[k] = Item("call", g[l].id)
    BY DEF OutputsFollow
  <2>1. l \in 1 .. Len(h) /\ g[l] = h[l]
    BY <1>1, <1>2
  <2>2. PICK k \in 1 .. l - 1 : h[k] = Item("call", h[l].id)
    BY <2>1 DEF Paired, OutputsFollow
  <2>3. k \in 1 .. Len(h)
    BY <1>1, <2>1
  <2> QED  BY <1>1, <2>1, <2>2, <2>3
<1>8. CallsReturn(g, W)
  <2> SUFFICES ASSUME NEW k \in 1 .. Len(g), g[k].kind = "call", g[k].id \notin W
               PROVE  \E l \in 1 .. Len(g) : g[l] = Item("output", g[k].id)
    BY DEF CallsReturn
  <2>1. k \in 1 .. Len(h) /\ g[k] = h[k]
    BY <1>1, <1>2
  <2>2. PICK l \in 1 .. Len(h) : h[l] = Item("output", h[k].id)
    BY <2>1 DEF Paired, CallsReturn
  <2> QED  BY <1>1, <1>4, <2>1, <2>2
<1>9. WaitingAreCalls(g, W)
  BY <1>1, <1>2, <1>3, <1>4 DEF Paired, WaitingAreCalls
<1> QED  BY <1>1, <1>5, <1>6, <1>7, <1>8, <1>9 DEF Paired, g

\* The output of a call that waits is the last, and the call waits no longer.
LEMMA OutputIsPaired ==
  ASSUME NEW h \in Seq(ItemRecord), NEW W \in SUBSET Nat, NEW n \in Nat, NEW id \in W, Paired(h, W, n)
  PROVE  /\ Append(h, Item("output", id)) \in Seq(ItemRecord)
         /\ Paired(Append(h, Item("output", id)), W \ {id}, n)
<1> DEFINE x == Item("output", id)
           g == Append(h, x)
<1>1. x \in ItemRecord /\ x.kind = "output" /\ x.id = id
  BY DEF Item, ItemRecord
<1>2. /\ g \in Seq(ItemRecord) /\ Len(g) = Len(h) + 1 /\ Len(h) \in Nat
      /\ \A a \in 1 .. Len(h) : g[a] = h[a]
      /\ g[Len(h) + 1] = x
  BY <1>1, AppendHas
<1>3. \A i, j \in Nat : Item("output", i) = Item("output", j) => i = j
  BY DEF Item
<1>4. \A i \in Nat : x # Item("call", i)
  BY <1>1 DEF Item
<1>5. PICK c \in 1 .. Len(h) : h[c] = Item("call", id)
  BY DEF Paired, WaitingAreCalls
<1>6. \A l \in 1 .. Len(h) : h[l] # x
  BY DEF Paired, WaitingAreCalls
<1>7. id \in 1 .. n
  BY <1>5 DEF Paired, CallsAreNamed, Item
<1> HIDE DEF g, x
<1>8. /\ \A a \in 1 .. Len(g) : a \in 1 .. Len(h) \/ a = Len(h) + 1
      /\ 1 .. Len(h) \subseteq 1 .. Len(g) /\ Len(h) + 1 \in 1 .. Len(g)
  BY <1>2
<1>9. CallsAreNamed(g, n)
  BY <1>1, <1>2, <1>7, <1>8 DEF Paired, CallsAreNamed
<1>10. NoneTwice(g)
  BY <1>2, <1>6, <1>8 DEF Paired, NoneTwice
<1>11. OutputsFollow(g)
  <2> SUFFICES ASSUME NEW l \in 1 .. Len(g), g[l].kind = "output"
               PROVE  \E k \in 1 .. l - 1 : g[k] = Item("call", g[l].id)
    BY DEF OutputsFollow
  <2>1. CASE l \in 1 .. Len(h)
    <3>1. PICK k \in 1 .. l - 1 : h[k] = Item("call", h[l].id)
      BY <1>2, <2>1 DEF Paired, OutputsFollow
    <3>2. k \in 1 .. Len(h)
      BY <1>2, <2>1
    <3> QED  BY <1>2, <2>1, <3>1, <3>2
  <2>2. CASE l = Len(h) + 1
    <3>1. c \in 1 .. l - 1 /\ g[c] = Item("call", g[l].id)
      BY <1>1, <1>2, <1>5, <2>2
    <3> QED  BY <3>1
  <2> QED  BY <1>8, <2>1, <2>2
<1>12. CallsReturn(g, W \ {id})
  <2> SUFFICES ASSUME NEW k \in 1 .. Len(g), g[k].kind = "call", g[k].id \notin W \ {id}
               PROVE  \E l \in 1 .. Len(g) : g[l] = Item("output", g[k].id)
    BY DEF CallsReturn
  <2>1. k \in 1 .. Len(h) /\ g[k] = h[k]
    BY <1>1, <1>2, <1>8
  <2>2. CASE g[k].id = id
    BY <1>2, <1>8, <2>2 DEF x
  <2>3. CASE g[k].id # id
    <3>1. PICK l \in 1 .. Len(h) : h[l] = Item("output", h[k].id)
      BY <2>1, <2>3 DEF Paired, CallsReturn
    <3> QED  BY <1>2, <1>8, <2>1, <3>1
  <2> QED  BY <2>2, <2>3
<1>13. WaitingAreCalls(g, W \ {id})
  <2> SUFFICES ASSUME NEW i \in W \ {id}
               PROVE  /\ \E k \in 1 .. Len(g) : g[k] = Item("call", i)
                      /\ \A l \in 1 .. Len(g) : g[l] # Item("output", i)
    BY DEF WaitingAreCalls
  <2>1. PICK k \in 1 .. Len(h) : h[k] = Item("call", i)
    BY DEF Paired, WaitingAreCalls
  <2>2. g[k] = Item("call", i) /\ k \in 1 .. Len(g)
    BY <1>2, <1>8, <2>1
  <2>3. x # Item("output", i)
    BY <1>3 DEF x
  <2>4. \A l \in 1 .. Len(g) : g[l] # Item("output", i)
    BY <1>2, <1>8, <2>3 DEF Paired, WaitingAreCalls
  <2> QED  BY <2>2, <2>4
<1> QED  BY <1>2, <1>9, <1>10, <1>11, <1>12, <1>13 DEF Paired, g, x

\* When nothing waits, new calls with new names may be added, and wait.
LEMMA CallsArePaired ==
  ASSUME NEW h \in Seq(ItemRecord), NEW n \in Nat, NEW m \in Nat, NEW cs \in Seq([id : Nat]),
         Len(cs) = m, \A k \in 1 .. m : cs[k].id = n + k, Paired(h, {}, n)
  PROVE  /\ h \o Asked(cs) \in Seq(ItemRecord)
         /\ Paired(h \o Asked(cs), IdsOf(cs), n + m) /\ Distinct(cs)
<1> DEFINE q == Asked(cs)
           g == h \o q
<1>1. /\ q \in Seq(ItemRecord) /\ Len(q) = m
      /\ \A k \in 1 .. m : q[k] = Item("call", n + k)
  <2>1. q = [k \in 1 .. m |-> Item("call", cs[k].id)]
    BY DEF Asked
  <2>2. \A k \in 1 .. m : Item("call", cs[k].id) = Item("call", n + k) /\ Item("call", n + k) \in ItemRecord
    BY DEF Item, ItemRecord
  <2>3. q \in [1 .. m -> ItemRecord]
    BY <2>1, <2>2
  <2> HIDE DEF q
  <2>4. q \in Seq(ItemRecord)
    BY <2>3
  <2>5. Len(q) = m
    BY <2>3, <2>4, LenProperties
  <2> QED  BY <2>1, <2>2, <2>4, <2>5
<1> HIDE DEF q
<1>2. /\ g \in Seq(ItemRecord) /\ Len(g) = Len(h) + m /\ Len(h) \in Nat
      /\ \A a \in 1 .. Len(g) : g[a] = IF a <= Len(h) THEN h[a] ELSE q[a - Len(h)]
  <2>1. g \in Seq(ItemRecord) /\ Len(g) = Len(h) + Len(q) /\ Len(h) \in Nat
        /\ \A a \in 1 .. Len(h) + Len(q) : g[a] = IF a <= Len(h) THEN h[a] ELSE q[a - Len(h)]
    BY <1>1, ConcatProperties, LenProperties
  <2> QED  BY <1>1, <2>1
<1> HIDE DEF g
<1>3. /\ \A k \in 1 .. m : Item("call", n + k).kind = "call" /\ Item("call", n + k).id = n + k
      /\ \A i, j \in Nat : Item("call", i) # Item("output", j)
  BY DEF Item
\* An item of the longer conversation is one of the shorter, or a new call.
<1>4. \A a \in 1 .. Len(g) :
        \/ a \in 1 .. Len(h) /\ g[a] = h[a]
        \/ /\ a \notin 1 .. Len(h) /\ a - Len(h) \in 1 .. m
           /\ g[a] = Item("call", n + (a - Len(h)))
           /\ g[a].kind = "call" /\ g[a].id = n + (a - Len(h))
  <2> SUFFICES ASSUME NEW a \in 1 .. Len(g)
               PROVE  \/ a \in 1 .. Len(h) /\ g[a] = h[a]
                      \/ /\ a \notin 1 .. Len(h) /\ a - Len(h) \in 1 .. m
                         /\ g[a] = Item("call", n + (a - Len(h)))
                         /\ g[a].kind = "call" /\ g[a].id = n + (a - Len(h))
    OBVIOUS
  <2>1. CASE a <= Len(h)
    BY <1>2, <2>1
  <2>2. CASE ~(a <= Len(h))
    <3> DEFINE k == a - Len(h)
    <3>1. k \in 1 .. m /\ a \notin 1 .. Len(h) /\ g[a] = q[k]
      BY <1>2, <2>2
    <3> HIDE DEF k
    <3>2. g[a] = Item("call", n + k) /\ g[a].kind = "call" /\ g[a].id = n + k
      BY <1>1, <1>3, <3>1
    <3> QED  BY <3>1, <3>2 DEF k
  <2> QED  BY <2>1, <2>2
<1>5. /\ 1 .. Len(h) \subseteq 1 .. Len(g) /\ \A a \in 1 .. Len(h) : g[a] = h[a]
      /\ \A k \in 1 .. m : Len(h) + k \in 1 .. Len(g) /\ g[Len(h) + k] = Item("call", n + k)
      /\ IdsOf(cs) = {n + k : k \in 1 .. m}
  <2>1. \A k \in 1 .. m : Len(h) + k \in 1 .. Len(g) /\ Len(h) + k - Len(h) = k
                          /\ ~(Len(h) + k <= Len(h))
    BY <1>2
  <2>2. 1 .. Len(h) \subseteq 1 .. Len(g) /\ \A a \in 1 .. Len(h) : g[a] = h[a]
    BY <1>2
  <2>3. IdsOf(cs) = {n + k : k \in 1 .. m}
    BY DEF IdsOf
  <2>4. ASSUME NEW k \in 1 .. m PROVE g[Len(h) + k] = Item("call", n + k)
    <3> DEFINE a == Len(h) + k
    <3>2. a \in 1 .. Len(g) /\ ~(a <= Len(h)) /\ a - Len(h) = k
      <4>1. Len(g) = Len(h) + m /\ Len(h) \in Nat /\ m \in Nat
        BY <1>2
      <4> QED  BY ONLY k \in 1 .. m, <4>1
    <3> HIDE DEF a
    <3>4. \A b \in 1 .. Len(g) : g[b] = IF b <= Len(h) THEN h[b] ELSE q[b - Len(h)]
      BY <1>2
    <3>3. g[a] = q[a - Len(h)]
      BY ONLY <3>2, <3>4
    <3>1. g[Len(h) + k] = q[Len(h) + k - Len(h)]
      BY <3>3 DEF a
    <3> QED  BY <1>1, <2>1, <3>1
  <2> QED  BY <2>1, <2>2, <2>3, <2>4
<1>6. CallsAreNamed(g, n + m)
  <2> SUFFICES ASSUME NEW k \in 1 .. Len(g), g[k].kind \in {"call", "output"} PROVE g[k].id \in 1 .. n + m
    BY DEF CallsAreNamed
  <2>1. CASE k \in 1 .. Len(h)
    <3>1. h[k].id \in 1 .. n
      BY <1>5, <2>1 DEF Paired, CallsAreNamed
    <3> QED  BY <1>5, <2>1, <3>1
  <2>2. CASE k \notin 1 .. Len(h)
    BY <1>2, <1>4, <2>2
  <2> QED  BY <2>1, <2>2
<1>7. NoneTwice(g)
  <2> SUFFICES ASSUME NEW k \in 1 .. Len(g), NEW l \in 1 .. Len(g),
                      g[k].kind \in {"call", "output"}, g[k] = g[l]
               PROVE  k = l
    BY DEF NoneTwice
  <2>1. \A a \in 1 .. Len(h) : h[a].kind \in {"call", "output"} => h[a].id \in 1 .. n
    BY DEF Paired, CallsAreNamed
  <2>2. CASE k \in 1 .. Len(h) /\ l \in 1 .. Len(h)
    BY <1>5, <2>2 DEF Paired, NoneTwice
  <2>3. CASE k \in 1 .. Len(h) /\ l \notin 1 .. Len(h)
    <3>1. h[k].id \in 1 .. n /\ h[k].id = n + (l - Len(h)) /\ l - Len(h) \in 1 .. m
      BY <1>4, <1>5, <2>1, <2>3
    <3> QED  BY <1>2, <3>1
  <2>4. CASE k \notin 1 .. Len(h) /\ l \in 1 .. Len(h)
    <3>1. h[l].id \in 1 .. n /\ h[l].id = n + (k - Len(h)) /\ k - Len(h) \in 1 .. m
      BY <1>4, <1>5, <2>1, <2>4
    <3> QED  BY <1>2, <3>1
  <2>5. CASE k \notin 1 .. Len(h) /\ l \notin 1 .. Len(h)
    <3>1. n + (k - Len(h)) = n + (l - Len(h))
      BY <1>4, <2>5
    <3> QED  BY <1>2, <3>1
  <2> QED  BY <2>2, <2>3, <2>4, <2>5
<1>8. OutputsFollow(g)
  <2> SUFFICES ASSUME NEW l \in 1 .. Len(g), g[l].kind = "output"
               PROVE  \E k \in 1 .. l - 1 : g[k] = Item("call", g[l].id)
    BY DEF OutputsFollow
  <2>1. l \in 1 .. Len(h) /\ g[l] = h[l]
    BY <1>4
  <2>2. PICK k \in 1 .. l - 1 : h[k] = Item("call", h[l].id)
    BY <2>1 DEF Paired, OutputsFollow
  <2>3. k \in 1 .. Len(h)
    BY <1>2, <2>1
  <2> QED  BY <1>5, <2>1, <2>2, <2>3
<1>9. CallsReturn(g, IdsOf(cs))
  <2> SUFFICES ASSUME NEW k \in 1 .. Len(g), g[k].kind = "call", g[k].id \notin IdsOf(cs)
               PROVE  \E l \in 1 .. Len(g) : g[l] = Item("output", g[k].id)
    BY DEF CallsReturn
  <2>1. k \in 1 .. Len(h) /\ g[k] = h[k]
    BY <1>4, <1>5
  <2>2. PICK l \in 1 .. Len(h) : h[l] = Item("output", h[k].id)
    BY <2>1 DEF Paired, CallsReturn
  <2> QED  BY <1>5, <2>1, <2>2
<1>10. WaitingAreCalls(g, IdsOf(cs))
  <2> SUFFICES ASSUME NEW a \in 1 .. m
               PROVE  /\ \E k \in 1 .. Len(g) : g[k] = Item("call", n + a)
                      /\ \A l \in 1 .. Len(g) : g[l] # Item("output", n + a)
    BY <1>5 DEF WaitingAreCalls
  <2>1. g[Len(h) + a] = Item("call", n + a) /\ Len(h) + a \in 1 .. Len(g)
    BY <1>5
  <2>2. \A l \in 1 .. Len(h) : h[l] # Item("output", n + a)
    <3> SUFFICES ASSUME NEW l \in 1 .. Len(h), h[l] = Item("output", n + a) PROVE FALSE
      OBVIOUS
    <3>1. h[l].kind = "output" /\ h[l].id = n + a
      BY DEF Item
    <3> QED  BY <3>1 DEF Paired, CallsAreNamed
  <2>3. \A l \in 1 .. Len(g) : l \notin 1 .. Len(h) => g[l].kind = "call"
    BY <1>4
  <2>4. Item("output", n + a).kind # "call"
    BY DEF Item
  <2>5. \A l \in 1 .. Len(g) : g[l] # Item("output", n + a)
    BY <1>5, <2>2, <2>3, <2>4
  <2> QED  BY <2>1, <2>5
<1>11. Distinct(cs)
  BY DEF Distinct
<1> QED  BY <1>2, <1>6, <1>7, <1>8, <1>9, <1>10, <1>11 DEF Paired, g, q

\* The steps that only add to the conversation, or forget it, leave what was
\* sent and noted as it is.
LEMMA SentStays ==
  ASSUME SessionInv, UNCHANGED <<session, outbox, emailed>>
  PROVE  (AnsweredIsNoted /\ AnsweredOnce /\ NotedAreFew /\ SentIsFound)'
BY DEF SessionInv, AnsweredIsNoted, AnsweredOnce, NotedAreFew, SentIsFound, Answered

\* What the invariant says, in the form the steps need.
LEMMA SessionTyped ==
  ASSUME SessionInv
  PROVE  /\ turn \in TurnRecord /\ history \in Seq(ItemRecord)
         /\ session \in [emails : SUBSET Letters, replied : SUBSET Letters,
                         newEmails : SUBSET (Addresses \X Texts)]
         /\ outbox \subseteq SentMail /\ emailed \subseteq Addresses
         /\ counts \in [utterances : 0 .. MaxUtterances, calls : Nat, lost : 0 .. MaxLost]
         /\ IdsOf(turn.calls) \in SUBSET Nat /\ turn.calls \in Seq([id : Nat])
<1>1. /\ turn \in TurnRecord /\ history \in Seq(ItemRecord)
      /\ session \in [emails : SUBSET Letters, replied : SUBSET Letters,
                      newEmails : SUBSET (Addresses \X Texts)]
      /\ outbox \subseteq SentMail /\ emailed \subseteq Addresses
      /\ counts \in [utterances : 0 .. MaxUtterances, calls : Nat, lost : 0 .. MaxLost]
  BY DEF SessionInv, VoiceSessionTypeOK, TurnRecord, ItemRecord, SentMail
<1>2. turn.calls \in Seq([id : Nat])
  BY <1>1 DEF TurnRecord
<1>3. \A k \in 1 .. Len(turn.calls) : turn.calls[k] \in [id : Nat]
  BY <1>2, ElementOfSeq
<1> QED  BY <1>1, <1>2, <1>3 DEF IdsOf

CountRecord == [utterances : 0 .. MaxUtterances, calls : Nat, lost : 0 .. MaxLost]

\* What the counters become.
LEMMA CountsMove ==
  ASSUME NEW c \in CountRecord
  PROVE  /\ c.utterances < MaxUtterances =>
              /\ [c EXCEPT !.utterances = @ + 1] \in CountRecord
              /\ [c EXCEPT !.utterances = @ + 1].calls = c.calls
         /\ \A n \in Nat : /\ [c EXCEPT !.calls = @ + n] \in CountRecord
                           /\ [c EXCEPT !.calls = @ + n].calls = c.calls + n
         /\ c.lost < MaxLost => /\ [c EXCEPT !.lost = @ + 1] \in CountRecord
                                /\ [c EXCEPT !.lost = @ + 1].calls = c.calls
<1> USE SessionFacts DEF CountRecord
<1>1. c.utterances < MaxUtterances => c.utterances + 1 \in 0 .. MaxUtterances
  OBVIOUS
<1>2. c.lost < MaxLost => c.lost + 1 \in 0 .. MaxLost
  OBVIOUS
<1>3. \A n \in Nat : c.calls + n \in Nat
  OBVIOUS
<1>4. \A n \in Nat : /\ [c EXCEPT !.calls = @ + n] \in CountRecord
                     /\ [c EXCEPT !.calls = @ + n].calls = c.calls + n
  BY <1>3
<1>5. \A n \in 0 .. MaxUtterances : /\ [c EXCEPT !.utterances = n] \in CountRecord
                                    /\ [c EXCEPT !.utterances = n].calls = c.calls
  OBVIOUS
<1>6. \A n \in 0 .. MaxLost : /\ [c EXCEPT !.lost = n] \in CountRecord
                              /\ [c EXCEPT !.lost = n].calls = c.calls
  OBVIOUS
<1>7. /\ [c EXCEPT !.utterances = @ + 1] = [c EXCEPT !.utterances = c.utterances + 1]
      /\ [c EXCEPT !.lost = @ + 1] = [c EXCEPT !.lost = c.lost + 1]
  OBVIOUS
<1> QED  BY Zenon, <1>1, <1>2, <1>4, <1>5, <1>6, <1>7

\* A turn that is over waits for no call.
LEMMA NoCallsWait ==
  /\ NoTurn \in TurnRecord /\ NoTurn.calls = <<>> /\ NoTurn.phase = "idle"
  /\ <<>> \in Seq([id : Nat]) /\ IdsOf(<<>>) = {} /\ Distinct(<<>>)
<1>1. Len(<<>>) = 0 /\ <<>> \in Seq([id : Nat])
  BY EmptySeq
<1> QED  BY <1>1, SessionFacts DEF NoTurn, TurnRecord, IdsOf, Distinct

\* The steps of a turn, one lemma each.
LEMMA HeardStep ==
  ASSUME SessionInv, UtteranceIsHeard  PROVE SessionInv'
<1> USE SessionFacts, SessionTyped
<1> DEFINE x == Item("user", counts.utterances)
<1>1. /\ turn.phase = "idle" /\ counts.utterances < MaxUtterances
      /\ counts' = [counts EXCEPT !.utterances = @ + 1]
      /\ history' = Append(history, x)
      /\ turn' = [NoTurn EXCEPT !.phase = "asking"]
      /\ UNCHANGED <<session, outbox, emailed>>
  BY DEF UtteranceIsHeard
<1>2. turn' \in TurnRecord /\ turn'.calls = <<>> /\ turn'.phase = "asking"
  BY <1>1, NoCallsWait DEF TurnRecord
<1>3. counts' \in [utterances : 0 .. MaxUtterances, calls : Nat, lost : 0 .. MaxLost]
      /\ counts'.calls = counts.calls
  <2>1. counts \in CountRecord
    BY DEF CountRecord
  <2>2. counts' \in CountRecord /\ counts'.calls = counts.calls
    BY Zenon, <1>1, <2>1, CountsMove
  <2> QED  BY <2>2 DEF CountRecord
<1>4. x \in ItemRecord /\ x.kind = "user"
  BY DEF ItemRecord, Item
<1>5. turn.calls = <<>> /\ Paired(history, {}, counts.calls)
  BY <1>1, NoCallsWait DEF SessionInv, HistoryIsPaired
<1> HIDE DEF x
<1>6. history' \in Seq(ItemRecord) /\ Paired(history', {}, counts.calls)
  BY <1>1, <1>4, <1>5, OthersArePaired
<1>7. HistoryIsPaired'
  BY <1>2, <1>3, <1>6, NoCallsWait DEF HistoryIsPaired
<1>8. VoiceSessionTypeOK'
  BY <1>1, <1>2, <1>3, <1>6 DEF VoiceSessionTypeOK, TurnRecord, ItemRecord, SentMail
<1> QED  BY <1>1, <1>7, <1>8, SentStays DEF SessionInv

LEMMA AnswersStep ==
  ASSUME SessionInv, ModelAnswers \/ TurnFails  PROVE SessionInv'
<1> USE SessionFacts, SessionTyped
<1>1. /\ turn.phase = "asking" /\ turn' = NoTurn /\ UNCHANGED <<session, outbox, emailed, counts>>
      /\ history' = history \/ history' = Append(history, Item("assistant", 0))
  BY DEF ModelAnswers, TurnFails
<1>2. turn' \in TurnRecord /\ turn'.calls = <<>> /\ turn'.phase = "idle"
  BY <1>1, NoCallsWait
<1>3. Item("assistant", 0) \in ItemRecord /\ Item("assistant", 0).kind = "assistant"
  BY DEF ItemRecord, Item
<1>4. turn.calls = <<>> /\ Paired(history, {}, counts.calls)
  BY <1>1, NoCallsWait DEF SessionInv, HistoryIsPaired
<1>5. history' \in Seq(ItemRecord) /\ Paired(history', {}, counts.calls)
  <2>1. CASE history' = history
    BY <1>4, <2>1
  <2>2. CASE history' = Append(history, Item("assistant", 0))
    <3>1. {} \in SUBSET Nat /\ counts.calls \in Nat /\ history \in Seq(ItemRecord)
      OBVIOUS
    <3> HIDE SessionTyped
    <3> QED  BY <1>3, <1>4, <2>2, <3>1, OthersArePaired
  <2> QED  BY <1>1, <2>1, <2>2
<1>6. HistoryIsPaired'
  BY <1>1, <1>2, <1>5, NoCallsWait DEF HistoryIsPaired
<1>7. VoiceSessionTypeOK'
  BY <1>1, <1>2, <1>5 DEF VoiceSessionTypeOK, TurnRecord, ItemRecord, SentMail
<1> QED  BY <1>1, <1>6, <1>7, SentStays DEF SessionInv

LEMMA ForgottenStep ==
  ASSUME SessionInv, FallAsleep \/ Reconnect  PROVE SessionInv'
<1> USE SessionFacts, SessionTyped
<1>1. turn.phase = "idle" /\ UNCHANGED <<turn, emailed>> /\ history' = <<>>
  BY DEF FallAsleep, Reconnect
<1>2. /\ session' \in [emails : SUBSET Letters, replied : SUBSET Letters,
                       newEmails : SUBSET (Addresses \X Texts)]
      /\ outbox' \subseteq SentMail
      /\ counts' \in [utterances : 0 .. MaxUtterances, calls : Nat, lost : 0 .. MaxLost]
  <2>1. CASE FallAsleep
    BY <2>1 DEF FallAsleep
  <2>2. CASE Reconnect
    BY <2>2 DEF Reconnect, NewSession
  <2> QED  BY <2>1, <2>2
<1>3. turn.calls = <<>>
  BY <1>1 DEF SessionInv, HistoryIsPaired
<1>4. history' \in Seq(ItemRecord) /\ Len(history') = 0
  BY <1>1, EmptySeq
<1>5. \A n : Paired(history', {}, n)
  BY <1>4 DEF Paired, CallsAreNamed, NoneTwice, OutputsFollow, CallsReturn, WaitingAreCalls
<1>6. HistoryIsPaired'
  BY <1>1, <1>3, <1>5, NoCallsWait DEF HistoryIsPaired
<1>7. VoiceSessionTypeOK'
  BY <1>1, <1>2, <1>4 DEF VoiceSessionTypeOK, TurnRecord, ItemRecord, SentMail
<1>8. CASE FallAsleep
  BY <1>6, <1>7, <1>8, SentStays DEF SessionInv, FallAsleep
<1>9. CASE Reconnect
  <2>1. outbox' = {} /\ session'.newEmails = {} /\ Answered' = {}
    BY <1>9 DEF Reconnect, NewSession, Answered
  <2>2. NotedAreFew'
    BY <2>1, FS_EmptySet DEF NotedAreFew
  <2> QED  BY <1>6, <1>7, <2>1, <2>2 DEF SessionInv, AnsweredIsNoted, AnsweredOnce, SentIsFound
<1> QED  BY <1>8, <1>9

LEMMA AsksStep ==
  ASSUME SessionInv, ModelAsks  PROVE SessionInv'
<1> USE SessionFacts, SessionTyped
<1>1. PICK n \in 1 .. 2 :
        LET new == [k \in 1 .. n |-> [id |-> counts.calls + k]]
        IN  /\ history' = history \o Asked(new)
            /\ turn' = [phase |-> "calling", rounds |-> turn.rounds + 1, calls |-> new]
            /\ counts' = [counts EXCEPT !.calls = @ + n]
  BY DEF ModelAsks
<1>2. /\ turn.phase = "asking" /\ turn.rounds < MAX_TOOL_ROUNDS
      /\ UNCHANGED <<session, outbox, emailed>>
  BY DEF ModelAsks
<1> DEFINE new == [k \in 1 .. n |-> [id |-> counts.calls + k]]
<1>3. /\ new \in Seq([id : Nat]) /\ Len(new) = n /\ \A k \in 1 .. n : new[k].id = counts.calls + k
      /\ new # <<>>
  <2>1. new \in [1 .. n -> [id : Nat]]
    OBVIOUS
  <2>2. \A k \in 1 .. n : new[k].id = counts.calls + k
    OBVIOUS
  <2> HIDE DEF new
  <2>3. new \in Seq([id : Nat])
    <3>1. n \in Nat
      OBVIOUS
    <3> HIDE SessionTyped, SessionFacts
    <3> QED  BY <2>1, <3>1, SeqDef
  <2>4. Len(new) = n
    BY <2>1, <2>3, LenProperties
  <2> QED  BY <2>2, <2>3, <2>4, EmptySeq
<1>4. /\ history' = history \o Asked(new)
      /\ turn' = [phase |-> "calling", rounds |-> turn.rounds + 1, calls |-> new]
      /\ counts' = [counts EXCEPT !.calls = @ + n]
  BY <1>1
<1> HIDE DEF new
<1>5. turn' \in TurnRecord /\ turn'.calls = new /\ turn'.phase = "calling"
  <2>1. turn.rounds + 1 \in 0 .. MAX_TOOL_ROUNDS
    BY <1>2 DEF TurnRecord
  <2> QED  BY ONLY <1>3, <1>4, <2>1 DEF TurnRecord
<1>6. /\ counts' \in [utterances : 0 .. MaxUtterances, calls : Nat, lost : 0 .. MaxLost]
      /\ counts'.calls = counts.calls + n /\ counts.calls \in Nat
  <2>1. counts \in CountRecord /\ n \in Nat /\ counts.calls \in Nat
    BY DEF CountRecord
  <2>2. counts' \in CountRecord /\ counts'.calls = counts.calls + n
    BY Zenon, <1>4, <2>1, CountsMove
  <2> QED  BY <2>1, <2>2 DEF CountRecord
<1>7. Paired(history, {}, counts.calls)
  BY <1>2, NoCallsWait DEF SessionInv, HistoryIsPaired
<1>8. /\ history' \in Seq(ItemRecord) /\ Paired(history', IdsOf(new), counts.calls + n)
      /\ Distinct(new)
  <2>1. history \in Seq(ItemRecord) /\ n \in Nat
    OBVIOUS
  <2> QED  BY ONLY <1>3, <1>4, <1>6, <1>7, <2>1, CallsArePaired
<1>9. HistoryIsPaired'
  BY <1>3, <1>5, <1>6, <1>8 DEF HistoryIsPaired
<1>10. VoiceSessionTypeOK'
  BY <1>2, <1>5, <1>6, <1>8 DEF VoiceSessionTypeOK, TurnRecord, ItemRecord, SentMail
<1> QED  BY <1>2, <1>9, <1>10, SentStays DEF SessionInv

SessionRecord == [emails : SUBSET Letters, replied : SUBSET Letters,
                  newEmails : SUBSET (Addresses \X Texts)]

\* One email more: it is new to the session, which notes it if Gmail answers.
LEMMA SendStep ==
  ASSUME SessionInv, NEW request \in ToolCalls, NEW answered \in BOOLEAN, SendEmail(request, answered)
  PROVE  /\ session' \in SessionRecord /\ outbox' \subseteq SentMail /\ emailed' \subseteq Addresses
         /\ (AnsweredIsNoted /\ AnsweredOnce /\ NotedAreFew /\ SentIsFound)'
<1> USE SessionFacts
<1> DEFINE body == IF request.tool = "new" THEN request.text ELSE "reply"
           m == [to |-> request.about, text |-> body, answered |-> answered, nr |-> Cardinality(outbox)]
           isNew == request.tool = "new"
           pair == <<request.about, body>>
<1>1. /\ MaySend(request) /\ outbox' = outbox \union {m}
      /\ emailed' = IF isNew THEN emailed \union {request.about} ELSE emailed
      /\ session' = IF ~answered THEN session
                    ELSE IF request.tool = "reply"
                      THEN [session EXCEPT !.replied = @ \union {request.about}]
                    ELSE [session EXCEPT !.newEmails = @ \union {<<request.about, request.text>>}]
  BY DEF SendEmail
<1>2. /\ session \in SessionRecord /\ outbox \subseteq SentMail /\ emailed \subseteq Addresses
  BY SessionTyped DEF SessionRecord
<1>3. \/ /\ request.tool = "reply" /\ request.about \in Letters /\ body = "reply" /\ ~isNew
         /\ request.about \notin session.replied
      \/ /\ isNew /\ request.tool # "reply" /\ request.about \in Addresses
         /\ request.text \in Texts /\ body = request.text /\ body # "reply"
         /\ pair \notin session.newEmails
         /\ Cardinality(session.newEmails) < NEW_EMAILS_PER_SESSION
  <2>1. MaySend(request)
    BY <1>1
  <2>2. CASE request.tool = "reply"
    <3>1. request.about \in Letters
      BY <2>2 DEF ToolCalls
    <3> QED  BY <2>1, <2>2, <3>1 DEF MaySend, CanReply
  <2>3. CASE request.tool = "new"
    <3>1. request.about \in Addresses /\ request.text \in Texts
      BY <2>3 DEF ToolCalls
    <3> QED  BY <2>1, <2>3, <3>1 DEF MaySend, CanSend
  <2> QED  BY <2>1, <2>2, <2>3 DEF MaySend
<1>4. /\ IsFiniteSet(outbox) /\ IsFiniteSet(session.newEmails)
      /\ \A n \in outbox : n.nr < Cardinality(outbox)
      /\ Cardinality(Answered) <= Cardinality(session.newEmails)
      /\ Cardinality(session.newEmails) <= NEW_EMAILS_PER_SESSION
  BY DEF SessionInv, NotedAreFew
<1>5. Cardinality(outbox) \in Nat /\ Cardinality(session.newEmails) \in Nat
  BY <1>4, FS_CardinalityType
<1>6. /\ m.to = request.about /\ m.text = body /\ m.answered = answered /\ m.nr = Cardinality(outbox)
      /\ m \in SentMail
  <2>1. request.about \in Letters \union Addresses /\ body \in Texts \union {"reply"}
    BY <1>3
  <2> HIDE DEF body
  <2> QED  BY <1>5, <2>1 DEF SentMail
<1> HIDE DEF body, m
<1>7. m \notin outbox
  BY <1>4, <1>5, <1>6
<1>8. /\ IsFiniteSet(outbox') /\ Cardinality(outbox') = Cardinality(outbox) + 1
  BY <1>1, <1>4, <1>7, FS_AddElement
<1>9. /\ session' \in SessionRecord
      /\ session.replied \subseteq session'.replied /\ session.newEmails \subseteq session'.newEmails
      /\ answered /\ ~isNew => request.about \in session'.replied
      /\ answered /\ isNew => session'.newEmails = session.newEmails \union {pair}
      /\ ~answered \/ ~isNew => session'.newEmails = session.newEmails
  <2>1. CASE ~answered
    BY <1>1, <1>2, <2>1
  <2>2. CASE answered /\ ~isNew
    <3>1. session' = [session EXCEPT !.replied = @ \union {request.about}] /\ request.about \in Letters
      BY <1>1, <1>3, <2>2
    <3> QED  BY <1>2, <2>2, <3>1 DEF SessionRecord
  <2>3. CASE answered /\ isNew
    <3>1. session' = [session EXCEPT !.newEmails = @ \union {pair}] /\ pair \in Addresses \X Texts
      BY <1>1, <1>3, <2>3
    <3> HIDE DEF pair
    <3> QED  BY <1>2, <2>3, <3>1 DEF SessionRecord
  <2> QED  BY <2>1, <2>2, <2>3
<1>10. outbox' \subseteq SentMail /\ emailed' \subseteq Addresses
  <2>1. isNew => request.about \in Addresses
    BY <1>3
  <2> QED  BY <1>1, <1>2, <1>6, <2>1
<1>11. AnsweredIsNoted'
  <2> SUFFICES ASSUME NEW n \in outbox', n.answered
               PROVE  /\ n.text = "reply" => n.to \in session'.replied
                      /\ n.text # "reply" => <<n.to, n.text>> \in session'.newEmails
    BY DEF AnsweredIsNoted
  <2>1. CASE n \in outbox
    BY <1>9, <2>1 DEF SessionInv, AnsweredIsNoted
  <2>2. CASE n = m
    <3>1. n.text = body /\ n.to = request.about /\ answered
      BY <1>6, <2>2
    <3> QED  BY <1>3, <1>9, <3>1
  <2> QED  BY <1>1, <2>1, <2>2
<1>12. AnsweredOnce'
  <2>1. \A n \in outbox : n.answered /\ answered => ~(n.to = request.about /\ n.text = body)
    BY <1>3 DEF SessionInv, AnsweredIsNoted
  <2>2. \A n \in outbox' : n \in outbox \/ n = m
    BY <1>1
  <2>3. \A n, k \in outbox : n.answered /\ k.answered /\ n.to = k.to /\ n.text = k.text => n = k
    BY DEF SessionInv, AnsweredOnce
  <2> QED  BY <1>6, <2>1, <2>2, <2>3 DEF AnsweredOnce
<1>13. NotedAreFew'
  <2>1. \A n \in outbox' : n.nr < Cardinality(outbox')
    <3> SUFFICES ASSUME NEW n \in outbox' PROVE n.nr < Cardinality(outbox) + 1
      BY <1>8
    <3>1. n \in outbox => n.nr < Cardinality(outbox) /\ n.nr \in Nat
      BY <1>2, <1>4 DEF SentMail
    <3>2. n = m => n.nr = Cardinality(outbox)
      BY <1>6
    <3> QED  BY <1>1, <1>5, <3>1, <3>2
  <2>2. Answered \subseteq outbox /\ IsFiniteSet(Answered)
    BY <1>4, FS_Subset DEF Answered
  <2>3. Cardinality(Answered) \in Nat
    BY <2>2, FS_CardinalityType
  <2>4. CASE answered /\ isNew
    <3>1. Answered' = Answered \union {m} /\ m \notin Answered
      BY <1>1, <1>3, <1>6, <1>7, <2>4 DEF Answered
    <3>2. Cardinality(Answered') = Cardinality(Answered) + 1
      BY <2>2, <3>1, FS_AddElement
    <3>3. session'.newEmails = session.newEmails \union {pair} /\ pair \notin session.newEmails
      BY <1>3, <1>9, <2>4
    <3> HIDE DEF pair
    <3>4. /\ IsFiniteSet(session'.newEmails)
          /\ Cardinality(session'.newEmails) = Cardinality(session.newEmails) + 1
      BY <1>4, <3>3, FS_AddElement
    <3>5. Cardinality(session.newEmails) < NEW_EMAILS_PER_SESSION
      BY <1>3, <2>4
    <3> QED  BY <1>4, <1>5, <1>8, <2>1, <2>3, <3>2, <3>4, <3>5 DEF NotedAreFew
  <2>5. CASE ~(answered /\ isNew)
    <3>1. Answered' = Answered
      BY <1>1, <1>3, <1>6, <2>5 DEF Answered
    <3>2. session'.newEmails = session.newEmails
      BY <1>9, <2>5
    <3> QED  BY <1>4, <1>8, <2>1, <3>1, <3>2 DEF NotedAreFew
  <2> QED  BY <2>4, <2>5
<1>14. SentIsFound'
  <2> SUFFICES ASSUME NEW n \in outbox', n.text # "reply" PROVE n.to \in emailed'
    BY DEF SentIsFound
  <2>1. CASE n \in outbox
    BY <1>1, <2>1 DEF SessionInv, SentIsFound
  <2>2. CASE n = m
    BY <1>1, <1>3, <1>6, <2>2
  <2> QED  BY <1>1, <2>1, <2>2
<1> QED  BY <1>9, <1>10, <1>11, <1>12, <1>13, <1>14

\* The next call waits no longer.
LEMMA NextCall ==
  ASSUME NEW cs \in Seq([id : Nat]), cs # <<>>, Distinct(cs)
  PROVE  /\ Head(cs).id \in IdsOf(cs) /\ Head(cs).id \in Nat
         /\ Tail(cs) \in Seq([id : Nat]) /\ IdsOf(Tail(cs)) = IdsOf(cs) \ {Head(cs).id}
         /\ Distinct(Tail(cs))
         /\ Len(cs) > 1 <=> Tail(cs) # <<>>
<1>1. /\ Head(cs) \in [id : Nat] /\ Head(cs) = cs[1] /\ Tail(cs) \in Seq([id : Nat])
      /\ Len(Tail(cs)) = Len(cs) - 1 /\ Len(cs) \in Nat \ {0}
      /\ \A a \in 1 .. Len(cs) - 1 : Tail(cs)[a] = cs[a + 1]
  BY TailHas
<1> DEFINE t == Tail(cs)
<1>2. \A k \in 1 .. Len(cs) : k = 1 \/ (k - 1 \in 1 .. Len(cs) - 1 /\ (k - 1) + 1 = k)
  BY <1>1
<1>3. \A k \in 1 .. Len(cs) - 1 : k + 1 \in 1 .. Len(cs) /\ k + 1 # 1
  BY <1>1
<1>4. Len(cs) > 1 <=> t # <<>>
  <2>1. Len(t) = 0 <=> t = <<>>
    BY <1>1, EmptySeq
  <2>2. Len(t) = Len(cs) - 1
    BY <1>1
  <2> HIDE DEF t
  <2> QED  BY <1>1, <2>1, <2>2
<1> HIDE DEF t
<1>5. Head(cs).id \in IdsOf(cs) /\ 1 \in 1 .. Len(cs)
  BY <1>1 DEF IdsOf
<1>6. IdsOf(t) = IdsOf(cs) \ {Head(cs).id}
  <2>1. ASSUME NEW i \in IdsOf(t) PROVE i \in IdsOf(cs) /\ i # Head(cs).id
    <3>1. PICK k \in 1 .. Len(cs) - 1 : i = cs[k + 1].id
      BY <1>1 DEF IdsOf, t
    <3> QED  BY <1>1, <1>3, <1>5, <3>1 DEF IdsOf, Distinct
  <2>2. ASSUME NEW i \in IdsOf(cs), i # Head(cs).id PROVE i \in IdsOf(t)
    <3>1. PICK k \in 1 .. Len(cs) : i = cs[k].id
      BY DEF IdsOf
    <3>2. k # 1
      BY <1>1, <2>2, <3>1
    <3>3. k - 1 \in 1 .. Len(t) /\ t[k - 1] = cs[k]
      BY <1>1, <1>2, <3>2 DEF t
    <3> QED  BY <3>1, <3>3 DEF IdsOf
  <2> QED  BY <2>1, <2>2
<1>7. Distinct(t)
  <2> SUFFICES ASSUME NEW k \in 1 .. Len(t), NEW l \in 1 .. Len(t), t[k].id = t[l].id PROVE k = l
    BY DEF Distinct
  <2>1. k + 1 \in 1 .. Len(cs) /\ l + 1 \in 1 .. Len(cs) /\ cs[k + 1].id = cs[l + 1].id
    BY <1>1, <1>3 DEF t
  <2>2. k + 1 = l + 1
    BY <2>1 DEF Distinct
  <2> QED  BY <2>2
<1> QED  BY <1>1, <1>4, <1>5, <1>6, <1>7 DEF t

LEMMA RunToolStep ==
  ASSUME SessionInv, RunTool  PROVE SessionInv'
<1> USE SessionFacts
<1>1. PICK request \in ToolCalls, answered \in BOOLEAN :
        /\ \/ answered /\ ListEmails(request)
           \/ SendEmail(request, answered)
           \/ answered /\ RefuseTool
        /\ answered \/ counts.lost < MaxLost
        /\ counts' = [counts EXCEPT !.lost = IF answered THEN @ ELSE @ + 1]
  BY DEF RunTool
<1> DEFINE id == Head(turn.calls).id
           next == IF Len(turn.calls) > 1 THEN "calling" ELSE "asking"
<1>2. /\ turn.phase = "calling" /\ history' = Append(history, Item("output", id))
      /\ turn' = [turn EXCEPT !.calls = Tail(@), !.phase = next]
  BY DEF RunTool
<1>3. /\ turn \in TurnRecord /\ history \in Seq(ItemRecord) /\ counts \in CountRecord
      /\ turn.calls \in Seq([id : Nat]) /\ IdsOf(turn.calls) \in SUBSET Nat
      /\ session \in SessionRecord /\ outbox \subseteq SentMail /\ emailed \subseteq Addresses
  BY SessionTyped DEF CountRecord, SessionRecord
<1>4. /\ Paired(history, IdsOf(turn.calls), counts.calls) /\ Distinct(turn.calls)
      /\ turn.calls # <<>>
  BY <1>2 DEF SessionInv, HistoryIsPaired
<1>5. /\ id \in IdsOf(turn.calls) /\ Tail(turn.calls) \in Seq([id : Nat])
      /\ IdsOf(Tail(turn.calls)) = IdsOf(turn.calls) \ {id} /\ Distinct(Tail(turn.calls))
      /\ Len(turn.calls) > 1 <=> Tail(turn.calls) # <<>>
  BY <1>3, <1>4, NextCall
<1>6. turn' \in TurnRecord /\ turn'.calls = Tail(turn.calls) /\ turn'.phase = next
  <2> DEFINE rest == Tail(turn.calls)
  <2>1. next \in {"idle", "asking", "calling"} /\ rest \in Seq([id : Nat])
    BY <1>5
  <2>2. turn' = [turn EXCEPT !.calls = rest, !.phase = next]
    BY <1>2
  <2> HIDE DEF next, rest
  <2>3. turn' \in TurnRecord /\ turn'.calls = rest /\ turn'.phase = next
    BY <1>3, <2>1, <2>2 DEF TurnRecord
  <2> QED  BY <2>3 DEF rest
<1>7. counts' \in CountRecord /\ counts'.calls = counts.calls
  <2>1. CASE answered
    <3>1. counts' = [counts EXCEPT !.lost = counts.lost]
      BY <1>1, <2>1
    <3> QED  BY <1>3, <3>1 DEF CountRecord
  <2>2. CASE ~answered
    <3>1. counts.lost < MaxLost /\ counts' = [counts EXCEPT !.lost = @ + 1]
      BY <1>1, <2>2
    <3> QED  BY Zenon, <1>3, <3>1, CountsMove
  <2> QED  BY <2>1, <2>2
<1>8. /\ history' \in Seq(ItemRecord)
      /\ Paired(history', IdsOf(Tail(turn.calls)), counts.calls)
  <2> HIDE DEF id
  <2>1. counts.calls \in Nat
    BY <1>3 DEF CountRecord
  <2>2. /\ Append(history, Item("output", id)) \in Seq(ItemRecord)
        /\ Paired(Append(history, Item("output", id)), IdsOf(turn.calls) \ {id}, counts.calls)
    BY <1>3, <1>4, <1>5, <2>1, OutputIsPaired
  <2> QED  BY <1>2, <1>5, <2>2
<1>9. HistoryIsPaired'
  <2>1. turn'.calls = <<>> <=> turn'.phase # "calling"
    BY <1>5, <1>6
  <2> HIDE DEF next, id
  <2> QED  BY <1>5, <1>6, <1>7, <1>8, <2>1 DEF HistoryIsPaired
<1>10. /\ session' \in SessionRecord /\ outbox' \subseteq SentMail /\ emailed' \subseteq Addresses
       /\ (AnsweredIsNoted /\ AnsweredOnce /\ NotedAreFew /\ SentIsFound)'
  <2>1. CASE SendEmail(request, answered)
    BY <2>1, SendStep
  <2>2. CASE ListEmails(request)
    <3> DEFINE seen == session.emails \union IF request.tool = "search" THEN request.about
                                              ELSE request.about \ NoReplyLetters
    <3>1. UNCHANGED <<outbox, emailed>> /\ session' = [session EXCEPT !.emails = seen]
      BY <2>2 DEF ListEmails
    <3>2. request.about \subseteq Letters
      BY <2>2 DEF ListEmails, ToolCalls
    <3>3. seen \subseteq Letters
      BY <1>3, <3>2 DEF SessionRecord
    <3> HIDE DEF seen
    <3>4. session' \in SessionRecord /\ session'.replied = session.replied
          /\ session'.newEmails = session.newEmails
      BY <1>3, <3>1, <3>3 DEF SessionRecord
    <3>5. Answered' = Answered
      BY <3>1 DEF Answered
    <3> QED  BY <1>3, <3>1, <3>4, <3>5
             DEF SessionInv, AnsweredIsNoted, AnsweredOnce, NotedAreFew, SentIsFound
  <2>3. CASE RefuseTool
    BY <1>3, <2>3, SentStays DEF RefuseTool
  <2> QED  BY <1>1, <2>1, <2>2, <2>3
<1>11. VoiceSessionTypeOK'
  BY <1>6, <1>7, <1>8, <1>10
  DEF VoiceSessionTypeOK, TurnRecord, ItemRecord, SentMail, CountRecord, SessionRecord
<1> QED  BY <1>9, <1>10, <1>11 DEF SessionInv

LEMMA SessionStep ==
  ASSUME SessionInv, [VoiceSessionNext]_voiceSessionVars  PROVE SessionInv'
<1>1. CASE UNCHANGED voiceSessionVars
  BY <1>1 DEF voiceSessionVars, SessionInv, VoiceSessionTypeOK, HistoryIsPaired, AnsweredIsNoted,
              AnsweredOnce, NotedAreFew, SentIsFound, Answered
<1> QED  BY <1>1, HeardStep, AnswersStep, ForgottenStep, AsksStep, RunToolStep DEF VoiceSessionNext

\* What the model is sent is the whole conversation while it fits.
LEMMA InputIsWhole ==
  ASSUME SessionInv, Len(history) <= MAX_HISTORY_ITEMS
  PROVE  Len(Input) = Len(history) /\ \A k \in 1 .. Len(history) : Input[k] = history[k]
<1>1. history \in Seq(ItemRecord) /\ Len(history) \in Nat /\ MAX_HISTORY_ITEMS \in Nat
  BY SessionTyped, SessionFacts, LenProperties
<1>2. Input = SubSeq(history, 1, Len(history))
  <2>1. ~(Len(history) > MAX_HISTORY_ITEMS)
    BY <1>1
  <2> QED  BY <2>1 DEF Input
<1>3. \A k \in 1 .. Len(history) : k \in DOMAIN history
  BY <1>1, LenProperties
<1> QED  BY <1>1, <1>2, <1>3, SubSeqProperties

\* A set whose members are the same has one at most.
LEMMA OneOrNone ==
  ASSUME NEW S, \A a, b \in S : a = b
  PROVE  /\ IsFiniteSet(S) /\ Cardinality(S) = IF S = {} THEN 0 ELSE 1
<1>1. CASE S = {}
  BY <1>1, FS_EmptySet
<1>2. CASE S # {}
  <2>1. PICK a \in S : TRUE
    BY <1>2
  <2>2. S = {a}
    BY <2>1
  <2> QED  BY <1>2, <2>2, FS_Singleton
<1> QED  BY <1>1, <1>2

LEMMA SessionShows ==
  ASSUME SessionInv  PROVE VoiceSessionTypeOK /\ MailIsSentOnce /\ InputIsPaired
<1> USE SessionFacts
<1>1. InputIsPaired
  <2> SUFFICES ASSUME turn.phase = "asking", Len(history) <= MAX_HISTORY_ITEMS,
                      NEW id \in 1 .. counts.calls
               PROVE  LET Shown(kind) == {k \in 1 .. Len(Input) : Input[k] = Item(kind, id)}
                      IN  /\ Cardinality(Shown("call")) = Cardinality(Shown("output"))
                          /\ \A o \in Shown("output") : \E c \in Shown("call") : c < o
    BY DEF InputIsPaired
  <2> DEFINE Shown(kind) == {k \in 1 .. Len(Input) : Input[k] = Item(kind, id)}
             Had(kind) == {k \in 1 .. Len(history) : history[k] = Item(kind, id)}
  <2>1. Shown("call") = Had("call") /\ Shown("output") = Had("output")
    BY InputIsWhole
  <2>2. Paired(history, {}, counts.calls) /\ Len(history) \in Nat
    BY SessionTyped, NoCallsWait, LenProperties DEF SessionInv, HistoryIsPaired
  <2>3. /\ Item("call", id).kind = "call" /\ Item("call", id).id = id
        /\ Item("output", id).kind = "output" /\ Item("output", id).id = id
    BY DEF Item
  <2>4. /\ \A a, b \in Had("call") : a = b
        /\ \A a, b \in Had("output") : a = b
    BY <2>2, <2>3 DEF Paired, NoneTwice
  <2>5. \A o \in Had("output") : \E c \in Had("call") : c < o
    <3> SUFFICES ASSUME NEW o \in Had("output") PROVE \E c \in Had("call") : c < o
      OBVIOUS
    <3>1. o \in 1 .. Len(history) /\ history[o].kind = "output" /\ history[o].id = id
      BY <2>3
    <3>2. PICK c \in 1 .. o - 1 : history[c] = Item("call", id)
      BY <2>2, <3>1 DEF Paired, OutputsFollow
    <3>3. c \in Had("call") /\ c < o
      BY <2>2, <3>1, <3>2
    <3> QED  BY <3>3
  <2>6. Had("call") # {} => Had("output") # {}
    <3> SUFFICES ASSUME NEW c \in Had("call") PROVE Had("output") # {}
      OBVIOUS
    <3>1. c \in 1 .. Len(history) /\ history[c].kind = "call" /\ history[c].id = id
      BY <2>3
    <3>2. PICK l \in 1 .. Len(history) : history[l] = Item("output", id)
      BY <2>2, <3>1 DEF Paired, CallsReturn
    <3> QED  BY <3>2
  <2> HIDE DEF Had, Shown
  <2>7. Had("call") = {} <=> Had("output") = {}
    BY <2>5, <2>6
  <2>8. /\ Cardinality(Had("call")) = IF Had("call") = {} THEN 0 ELSE 1
        /\ Cardinality(Had("output")) = IF Had("output") = {} THEN 0 ELSE 1
    BY <2>4, OneOrNone
  <2>9. Cardinality(Shown("call")) = Cardinality(Shown("output"))
    BY <2>1, <2>7, <2>8
  <2>10. \A o \in Shown("output") : \E c \in Shown("call") : c < o
    BY <2>1, <2>5
  <2> QED  BY <2>9, <2>10 DEF Shown
<1>2. /\ outbox \subseteq SentMail /\ IsFiniteSet(outbox)
  BY SessionTyped DEF SessionInv, NotedAreFew
\* A set of emails is those that were answered and those that were lost.
<1>3. ASSUME NEW S \in SUBSET outbox
      PROVE  /\ Cardinality(S) = Cardinality({m \in S : m.answered}) + Lost(S)
             /\ Cardinality({m \in S : m.answered}) \in Nat /\ Lost(S) \in Nat
  <2> DEFINE A == {m \in S : m.answered}
             L == {m \in S : ~m.answered}
  <2>1. IsFiniteSet(S)
    BY <1>2, FS_Subset
  <2>2. IsFiniteSet(A) /\ IsFiniteSet(L)
    BY <2>1, FS_Subset
  <2>3. S = A \union L /\ A \cap L = {}
    OBVIOUS
  <2> HIDE DEF A, L
  <2>4. Cardinality(A \union L) = Cardinality(A) + Cardinality(L) - Cardinality(A \cap L)
    BY <2>2, FS_Union
  <2>5. Cardinality(A) \in Nat /\ Cardinality(L) \in Nat /\ Cardinality(A \cap L) = 0
    BY <2>2, <2>3, FS_CardinalityType, FS_EmptySet
  <2>6. Cardinality(S) = Cardinality(A) + Cardinality(L)
    BY <2>3, <2>4, <2>5
  <2> QED  BY <2>5, <2>6 DEF Lost, A, L
<1>4. ASSUME NEW m \in outbox
      PROVE  LET same == {n \in outbox : n.to = m.to /\ n.text = m.text}
             IN  Cardinality(same) <= 1 + Lost(same)
  <2> DEFINE same == {n \in outbox : n.to = m.to /\ n.text = m.text}
             A == {n \in same : n.answered}
  <2>1. \A a, b \in A : a = b
    BY DEF SessionInv, AnsweredOnce
  <2>2. Cardinality(A) <= 1
    <3> HIDE DEF A
    <3> QED  BY <2>1, OneOrNone
  <2>3. same \in SUBSET outbox
    OBVIOUS
  <2> HIDE DEF same
  <2>4. Cardinality(same) = Cardinality(A) + Lost(same) /\ Cardinality(A) \in Nat /\ Lost(same) \in Nat
    BY <1>3, <2>3
  <2> HIDE DEF A
  <2>5. Cardinality(same) <= 1 + Lost(same)
    BY <2>2, <2>4
  <2> QED  BY <2>5 DEF same
<1>5. LET new == {m \in outbox : m.text # "reply"}
      IN  /\ Cardinality(new) <= NEW_EMAILS_PER_SESSION + Lost(new)
          /\ \A m \in new : m.to \in emailed
  <2> DEFINE new == {m \in outbox : m.text # "reply"}
             A == {m \in new : m.answered}
  <2>1. A = Answered
    BY DEF Answered
  <2>2. Cardinality(A) <= NEW_EMAILS_PER_SESSION
    <3>1. /\ Cardinality(Answered) <= Cardinality(session.newEmails)
          /\ Cardinality(session.newEmails) <= NEW_EMAILS_PER_SESSION
          /\ IsFiniteSet(session.newEmails) /\ IsFiniteSet(Answered)
      BY <1>2, FS_Subset DEF SessionInv, NotedAreFew, Answered
    <3>2. Cardinality(session.newEmails) \in Nat /\ Cardinality(Answered) \in Nat
      BY <3>1, FS_CardinalityType
    <3> HIDE DEF A
    <3>3. Cardinality(Answered) <= NEW_EMAILS_PER_SESSION
      BY <3>1, <3>2
    <3> QED  BY <2>1, <3>3
  <2>3. new \in SUBSET outbox
    OBVIOUS
  <2>4. \A m \in new : m.to \in emailed
    BY DEF SessionInv, SentIsFound
  <2> HIDE DEF new
  <2>5. Cardinality(new) = Cardinality(A) + Lost(new) /\ Cardinality(A) \in Nat /\ Lost(new) \in Nat
    BY <1>3, <2>3
  <2> HIDE DEF A
  <2>6. Cardinality(new) <= NEW_EMAILS_PER_SESSION + Lost(new)
    BY <2>2, <2>5
  <2> QED  BY <2>4, <2>6 DEF new
<1> QED  BY <1>1, <1>4, <1>5 DEF SessionInv, MailIsSentOnce

-----------------------------------------------------------------------------
(* Tasks on the calendar.                                                  *)

\* A task has no event but i, which stands at the time unless Alex moved it.
Stands(t, i, time) ==
  \A j \in EventIds : google[j].of = t => j = i /\ (j \notin shifted => google[j].time = time)

OneStory(t) == Stands(t, booking[t].event, booking[t].time)

\* What the carrier of a task's action knows of it: before Google what the row
\* says, after it what Google did.
CarriesTruth(t, c) ==
  /\ carrying[c].step = "call" =>
       /\ carrying[c].event = booking[t].event
       /\ carrying[c].kind = "move" <=> booking[t].event # NoEvent
  /\ carrying[c].step = "record" =>
       /\ carrying[c].event # NoEvent /\ Stands(t, carrying[c].event, carrying[c].time)
       /\ booking[t].event = IF carrying[c].kind = "move" THEN carrying[c].event ELSE NoEvent

ErrandsAreAbout ==
  \A c \in Carriers : carrying[c].step # "idle" =>
    carrying[c].task \in Booking /\ carrying[c].time \in Times

\* An event that a row or an action names is that task's, or deleted.
EventsAreOwned ==
  /\ \A i \in EventIds : /\ google[i].of = "deleted" => google[i] = Gone
                         /\ google[i].of = NoTask => google[i] = NotYet
  /\ \A t \in Booking : booking[t].event # NoEvent => google[booking[t].event].of \in {t, "deleted"}
  /\ \A c \in Carriers : carrying[c].step \in {"call", "record"} /\ carrying[c].event # NoEvent =>
       google[carrying[c].event].of \in {carrying[c].task, "deleted"}

Story(t) ==
  /\ \A c, d \in Under(t) : c = d
  /\ (\A c \in Under(t) : carrying[c].step = "call") => OneStory(t)
  /\ \A c \in Under(t) : CarriesTruth(t, c)

StoryIsOne == \A t \in Booking \ tangled : Story(t)

CalendarInv == TaskCalendarTypeOK /\ ErrandsAreAbout /\ EventsAreOwned /\ StoryIsOne

EventRecord == [of : Booking \union {NoTask, "deleted"}, time : Times \union {NoTime}]

\* What the invariant says, in the form the steps need.
LEMMA CalendarTyped ==
  ASSUME CalendarInv
  PROVE  /\ booking \in [Booking -> Row] /\ google \in [EventIds -> EventRecord]
         /\ carrying \in [Carriers -> Errand] /\ shown \subseteq EventIds /\ tangled \subseteq Booking
         /\ promised \subseteq Booking /\ shifted \subseteq EventIds
         /\ NoTask \notin Booking /\ "deleted" \notin Booking /\ NoEvent \notin EventIds
         /\ MaxEvents \in Nat /\ EventIds \subseteq Nat
BY TaskCalendarAssumption DEF CalendarInv, TaskCalendarTypeOK, EventRecord, NoEvent, EventIds

LEMMA CalendarStart ==
  ASSUME TaskCalendarInit  PROVE CalendarInv
<1> USE TaskCalendarAssumption
<1>1. TaskCalendarTypeOK
  <2>1. booking \in [Booking -> Row]
    BY DEF TaskCalendarInit, Row
  <2>2. google \in [EventIds -> EventRecord]
    BY DEF TaskCalendarInit, EventRecord, NotYet
  <2>3. carrying \in [Carriers -> Errand]
    <3>1. NoErrand \in Errand
      BY DEF NoErrand, Errand
    <3> QED  BY <3>1 DEF TaskCalendarInit
  <2> QED  BY <2>1, <2>2, <2>3 DEF TaskCalendarInit, TaskCalendarTypeOK, EventRecord
<1>2. \A c \in Carriers : carrying[c].step = "idle"
  BY DEF TaskCalendarInit, NoErrand
<1>3. \A i \in EventIds : google[i].of = NoTask /\ google[i] = NotYet
  BY DEF TaskCalendarInit, NotYet
<1>4. NoTask # "deleted" /\ NoTask \notin Booking
  BY DEF NoTask
<1>5. \A t \in Booking : booking[t].event = NoEvent /\ Under(t) = {} /\ OneStory(t)
  BY <1>2, <1>3, <1>4 DEF TaskCalendarInit, Under, OneStory, Stands
<1> QED  BY <1>1, <1>2, <1>3, <1>4, <1>5 DEF CalendarInv, ErrandsAreAbout, EventsAreOwned, StoryIsOne, Story

\* A task's story goes on when its row keeps event and time, it gets no event and
\* none that counts is moved, and nobody else comes between it and Google.
LEMMA StoryGoesOn ==
  ASSUME CalendarInv, NEW u \in Booking \ tangled,
         booking'[u].event = booking[u].event, booking'[u].time = booking[u].time,
         \A i \in EventIds : google'[i].of = u =>
           /\ google[i].of = u
           /\ i \notin shifted' => i \notin shifted /\ google'[i].time = google[i].time,
         \A d \in Carriers :
           \/ carrying'[d] = carrying[d]
           \/ carrying[d].task # u /\ carrying'[d].task # u
           \/ carrying[d].step # "record" /\ carrying'[d].step \notin {"call", "record"}
  PROVE  Story(u)'
<1>1. /\ \A c, d \in Under(u) : c = d
      /\ (\A c \in Under(u) : carrying[c].step = "call") => OneStory(u)
      /\ \A c \in Under(u) : CarriesTruth(u, c)
  BY DEF CalendarInv, StoryIsOne, Story
<1>2. \A c \in Under(u)' : carrying'[c] = carrying[c] /\ c \in Under(u)
  BY DEF Under
<1>3. \A i, time : Stands(u, i, time) => Stands(u, i, time)'
  BY DEF Stands
<1>4. OneStory(u) => OneStory(u)'
  BY <1>3 DEF OneStory
<1>5. ASSUME NEW c \in Under(u)'  PROVE CarriesTruth(u, c)'
  <2>1. CarriesTruth(u, c) /\ carrying'[c] = carrying[c]
    BY <1>1, <1>2, <1>5
  <2>2. CASE carrying[c].step = "record"
    <3>1. /\ carrying[c].event # NoEvent /\ Stands(u, carrying[c].event, carrying[c].time)
          /\ booking[u].event = IF carrying[c].kind = "move" THEN carrying[c].event ELSE NoEvent
      BY <2>1, <2>2 DEF CarriesTruth
    <3>2. \A j \in EventIds : google'[j].of = u =>
            j = carrying'[c].event /\ (j \notin shifted' => google'[j].time = carrying'[c].time)
      BY <2>1, <3>1 DEF Stands
    <3> QED  BY <2>1, <2>2, <3>1, <3>2 DEF CarriesTruth, Stands
  <2>3. CASE carrying[c].step # "record"
    BY <2>1, <2>3 DEF CarriesTruth
  <2> QED  BY <2>2, <2>3
<1>6. (\A c \in Under(u)' : carrying'[c].step = "call") => \A c \in Under(u) : carrying[c].step = "call"
  <2> SUFFICES ASSUME \A c \in Under(u)' : carrying'[c].step = "call", NEW c \in Under(u)
               PROVE  carrying[c].step = "call"
    OBVIOUS
  <2>1. c \in Carriers /\ carrying[c].task = u /\ carrying[c].step \in {"call", "record"}
    BY DEF Under
  <2>2. carrying'[c] = carrying[c] => c \in Under(u)'
    BY <2>1 DEF Under
  <2> QED  BY <2>1, <2>2
<1> QED  BY <1>1, <1>2, <1>4, <1>5, <1>6 DEF Story

\* A step that leaves the rows' events and times, the calendar and what is under
\* way with Google keeps the story.
LEMMA StoryStays ==
  ASSUME CalendarInv, google' = google, tangled' = tangled, shifted' = shifted,
         booking' \in [Booking -> Row],
         \A t \in Booking : booking'[t].event = booking[t].event /\ booking'[t].time = booking[t].time,
         carrying' \in [Carriers -> Errand],
         \A c \in Carriers :
           \/ carrying'[c] = carrying[c]
           \/ carrying[c].step \notin {"record"} /\ carrying'[c].step \in {"idle", "approval", "check"}
  PROVE  EventsAreOwned' /\ StoryIsOne'
<1> USE CalendarTyped
<1>1. EventsAreOwned'
  BY DEF CalendarInv, EventsAreOwned
<1>2. ASSUME NEW u \in Booking \ tangled  PROVE Story(u)'
  BY StoryGoesOn
<1> QED  BY <1>1, <1>2 DEF StoryIsOne

\* A carrier at rest.
LEMMA NoErrandIs == NoErrand \in Errand /\ NoErrand.step = "idle"
BY DEF NoErrand, Errand

\* What moves a carrier and neither row nor event, ...
LEMMA ErrandStays ==
  ASSUME CalendarInv, NEW c \in Carriers,
         \/ \E k \in {"schedule", "move"}, t \in Booking, time \in Times, o \in BOOLEAN :
              Wanted(c, k, t, time, o)
         \/ AlexDecides(c) \/ CallFails(c)
  PROVE  CalendarInv'
<1> USE CalendarTyped
<1>1. UNCHANGED <<booking, promised, google, shown, tangled, shifted>>
  BY DEF Wanted, AlexDecides, CallFails
<1>2. PICK e \in Errand : /\ carrying' = [carrying EXCEPT ![c] = e]
                          /\ carrying[c].step \in {"idle", "approval", "call"}
                          /\ e.step \in {"idle", "approval", "check"}
                          /\ e.step # "idle" => e.task \in Booking /\ e.time \in Times
  <2>1. ASSUME NEW k \in {"schedule", "move"}, NEW t \in Booking, NEW time \in Times,
               NEW o \in BOOLEAN, Wanted(c, k, t, time, o)
        PROVE  \E e \in Errand : /\ carrying' = [carrying EXCEPT ![c] = e]
                                 /\ carrying[c].step \in {"idle", "approval", "call"}
                                 /\ e.step \in {"idle", "approval", "check"}
                                 /\ e.step # "idle" => e.task \in Booking /\ e.time \in Times
    <3> DEFINE s == IF k = "move" /\ t \in promised THEN "approval" ELSE "check"
               e == [step |-> s, kind |-> k, task |-> t, time |-> time, override |-> o, event |-> NoEvent]
    <3>1. s \in {"approval", "check"}
      OBVIOUS
    <3>2. carrying' = [carrying EXCEPT ![c] = e] /\ carrying[c] = NoErrand
      BY <2>1 DEF Wanted
    <3> HIDE DEF s
    <3>3. e \in Errand /\ e.step = s /\ e.task = t /\ e.time = time
      BY <3>1 DEF Errand
    <3> HIDE DEF e
    <3> QED  BY <3>1, <3>2, <3>3, NoErrandIs
  <2>2. CASE carrying' = [carrying EXCEPT ![c] = NoErrand]
             /\ carrying[c].step \in {"idle", "approval", "call"}
    BY <2>2, NoErrandIs
  <2>3. CASE carrying' = [carrying EXCEPT ![c].step = "check"] /\ carrying[c].step = "approval"
    <3> DEFINE e == [carrying[c] EXCEPT !.step = "check"]
    <3>1. carrying' = [carrying EXCEPT ![c] = e]
      BY <2>3
    <3>2. carrying[c].task \in Booking /\ carrying[c].time \in Times
      BY <2>3 DEF CalendarInv, ErrandsAreAbout
    <3>3. e \in Errand /\ e.step = "check" /\ e.task = carrying[c].task /\ e.time = carrying[c].time
      BY DEF Errand
    <3> HIDE DEF e
    <3> QED  BY <2>3, <3>1, <3>2, <3>3
  <2>4. AlexDecides(c) \/ CallFails(c) =>
          \/ carrying' = [carrying EXCEPT ![c] = NoErrand] /\ carrying[c].step \in {"idle", "approval", "call"}
          \/ carrying' = [carrying EXCEPT ![c].step = "check"] /\ carrying[c].step = "approval"
    BY DEF AlexDecides, CallFails, GoTo, EndErrand
  <2> QED  BY <2>1, <2>2, <2>3, <2>4
<1>3. /\ carrying' \in [Carriers -> Errand] /\ carrying'[c] = e
      /\ \A d \in Carriers : d # c => carrying'[d] = carrying[d]
  BY <1>2
<1>4. TaskCalendarTypeOK'
  BY <1>1, <1>3 DEF CalendarInv, TaskCalendarTypeOK
<1>5. ErrandsAreAbout'
  BY <1>2, <1>3 DEF CalendarInv, ErrandsAreAbout
<1>6. \A d \in Carriers :
        \/ carrying'[d] = carrying[d]
        \/ carrying[d].step \notin {"record"} /\ carrying'[d].step \in {"idle", "approval", "check"}
  BY <1>2, <1>3
<1>7. EventsAreOwned' /\ StoryIsOne'
  BY <1>1, <1>3, <1>6, StoryStays
<1> QED  BY <1>4, <1>5, <1>7 DEF CalendarInv

\* ... and what moves neither event nor carrier.
LEMMA RowsStay ==
  ASSUME CalendarInv,
         ListEvents \/ \E t \in Booking : Promise(t) \/ \E s \in {"completed"} : Progress(t, s)
  PROVE  CalendarInv'
<1> USE CalendarTyped
<1>1. UNCHANGED <<google, carrying, tangled, shifted>>
  BY DEF ListEvents, Promise, Progress
<1>2. /\ shown' \subseteq EventIds /\ promised' \subseteq Booking
      /\ booking' \in [Booking -> Row]
      /\ \A t \in Booking : booking'[t].event = booking[t].event /\ booking'[t].time = booking[t].time
  <2>1. CASE ListEvents
    BY <2>1 DEF ListEvents, Existing
  <2>2. CASE \E t \in Booking : Promise(t)
    BY <2>2 DEF Promise
  <2>3. ASSUME NEW t \in Booking, Progress(t, "completed")
        PROVE  /\ shown' = shown /\ promised' = promised
               /\ booking' \in [Booking -> Row]
               /\ \A u \in Booking : booking'[u].event = booking[u].event /\ booking'[u].time = booking[u].time
    <3>1. booking' = [booking EXCEPT ![t].status = "completed"]
      BY <2>3 DEF Progress
    <3>2. [booking[t] EXCEPT !.status = "completed"] \in Row
      BY DEF Row
    <3> QED  BY <2>3, <3>1, <3>2 DEF Progress, Row
  <2> QED  BY <2>1, <2>2, <2>3
<1>3. TaskCalendarTypeOK' /\ ErrandsAreAbout'
  BY <1>1, <1>2 DEF CalendarInv, TaskCalendarTypeOK, ErrandsAreAbout
<1>4. EventsAreOwned' /\ StoryIsOne'
  BY <1>1, <1>2, StoryStays
<1> QED  BY <1>3, <1>4 DEF CalendarInv

\* The steps of a carrier and of Google, one lemma each.
LEMMA CheckErrandStep ==
  ASSUME CalendarInv, NEW c \in Carriers, CheckErrand(c)  PROVE CalendarInv'
<1> USE CalendarTyped
<1> DEFINE e == carrying[c]
           t == e.task
<1>1. /\ e.step = "check" /\ UNCHANGED <<booking, promised, google, shown, shifted>>
      /\ t \in Booking /\ e.time \in Times /\ e \in Errand
  BY DEF CheckErrand, CalendarInv, ErrandsAreAbout
<1>2. CASE ~MayCarryOut(e)
  <2>1. carrying' = [carrying EXCEPT ![c] = NoErrand] /\ tangled' = tangled
    BY <1>2 DEF CheckErrand, EndErrand
  <2>2. /\ carrying' \in [Carriers -> Errand] /\ carrying'[c].step = "idle"
        /\ \A d \in Carriers : d # c => carrying'[d] = carrying[d]
    BY <2>1, NoErrandIs
  <2>3. TaskCalendarTypeOK' /\ ErrandsAreAbout'
    BY <1>1, <2>1, <2>2 DEF CalendarInv, TaskCalendarTypeOK, ErrandsAreAbout
  <2>4. \A d \in Carriers :
          \/ carrying'[d] = carrying[d]
          \/ carrying[d].step \notin {"record"} /\ carrying'[d].step \in {"idle", "approval", "check"}
    BY <1>1, <2>2
  <2>5. EventsAreOwned' /\ StoryIsOne'
    BY <1>1, <2>1, <2>2, <2>4, StoryStays
  <2> QED  BY <2>3, <2>5 DEF CalendarInv
<1>3. CASE MayCarryOut(e)
  <2> DEFINE n == booking[t].event
             x == [e EXCEPT !.step = "call", !.event = n]
  <2>1. /\ carrying' = [carrying EXCEPT ![c].step = "call", ![c].event = n]
        /\ tangled' = IF Under(t) # {} THEN tangled \union {t} ELSE tangled
        /\ e.kind = "move" <=> n # NoEvent
    BY <1>3 DEF CheckErrand, MayCarryOut
  <2>2. n \in EventIds \union {NoEvent}
    BY <1>1 DEF Row
  <2>3. /\ x \in Errand /\ x.step = "call" /\ x.event = n /\ x.task = t /\ x.kind = e.kind
        /\ x.time = e.time
    <3> HIDE DEF n
    <3> QED  BY <1>1, <2>2 DEF Errand
  <2>4. carrying' = [carrying EXCEPT ![c] = x]
    BY <2>1
  <2>5. /\ carrying' \in [Carriers -> Errand] /\ carrying'[c] = x
        /\ \A d \in Carriers : d # c => carrying'[d] = carrying[d]
    <3> HIDE DEF x
    <3> QED  BY <2>3, <2>4
  <2> HIDE DEF x
  <2>6. tangled \subseteq tangled' /\ tangled' \subseteq Booking
    BY <1>1, <2>1
  <2>7. TaskCalendarTypeOK' /\ ErrandsAreAbout'
    BY <1>1, <2>3, <2>5, <2>6 DEF CalendarInv, TaskCalendarTypeOK, ErrandsAreAbout
  <2>8. EventsAreOwned'
    BY <1>1, <2>3, <2>5 DEF CalendarInv, EventsAreOwned
  <2>9. c \notin Under(t) /\ Under(t)' = Under(t) \union {c}
    BY <1>1, <2>3, <2>5 DEF Under
  <2>10. ASSUME NEW u \in Booking \ tangled'  PROVE Story(u)'
    <3>1. u \in Booking \ tangled
      BY <2>6
    <3>2. CASE u = t
      <4>1. Under(u) = {} /\ Under(u)' = {c}
        BY <2>1, <2>9, <2>10, <3>2
      <4>2. OneStory(u)
        BY <3>1, <4>1 DEF CalendarInv, StoryIsOne, Story
      <4>3. OneStory(u)'
        BY <1>1, <4>2 DEF OneStory, Stands
      <4>4. CarriesTruth(u, c)'
        BY <1>1, <2>1, <2>3, <2>5, <3>2 DEF CarriesTruth
      <4> QED  BY <4>1, <4>3, <4>4 DEF Story
    <3>3. CASE u # t
      <4>1. \A d \in Carriers : carrying'[d] = carrying[d] \/ (carrying[d].task # u /\ carrying'[d].task # u)
        BY <2>3, <2>5, <3>3
      <4> HIDE DEF n, t, e
      <4> QED  BY <1>1, <3>1, <4>1, StoryGoesOn
    <3> QED  BY <3>2, <3>3
  <2>11. StoryIsOne'
    BY <2>10 DEF StoryIsOne
  <2> QED  BY <2>7, <2>8, <2>11 DEF CalendarInv
<1> QED  BY <1>2, <1>3

\* What Google does for carrier c, and what c then knows.
LEMMA GoogleDoes ==
  ASSUME CalendarInv, NEW c \in Carriers, carrying[c].step = "call",
         NEW i \in EventIds,
         \/ carrying[c].kind = "schedule" /\ google[i] = NotYet
         \/ carrying[c].kind = "move" /\ i = carrying[c].event /\ i \in Existing,
         google' = [google EXCEPT ![i] = [of |-> carrying[c].task, time |-> carrying[c].time]],
         shifted' \in {shifted, shifted \ {i}}, UNCHANGED <<booking, promised, shown>>,
         \/ /\ carrying' = [carrying EXCEPT ![c].step = "record", ![c].event = i]
            /\ tangled' = tangled
         \/ /\ carrying' = [carrying EXCEPT ![c] = NoErrand]
            /\ tangled' = tangled \union {carrying[c].task}
  PROVE  CalendarInv'
<1> USE CalendarTyped
<1> DEFINE e == carrying[c]
           t == e.task
           done == [e EXCEPT !.step = "record", !.event = i]
<1>1. e \in Errand /\ t \in Booking /\ e.time \in Times
  BY DEF CalendarInv, ErrandsAreAbout
<1>2. PICK x \in {done, NoErrand} :
        carrying' = [carrying EXCEPT ![c] = x] /\ (x # done => tangled' = tangled \union {t})
  <2>1. CASE carrying' = [carrying EXCEPT ![c].step = "record", ![c].event = i]
    <3>1. carrying' = [carrying EXCEPT ![c] = done]
      BY <2>1
    <3> QED  BY <3>1
  <2>2. CASE carrying' = [carrying EXCEPT ![c] = NoErrand] /\ tangled' = tangled \union {t}
    BY <2>2
  <2> QED  BY <2>1, <2>2
<1>3. /\ done \in Errand /\ done.step = "record" /\ done.event = i /\ done.task = t
      /\ done.kind = e.kind /\ done.time = e.time
  BY <1>1 DEF Errand
<1>4. /\ NoErrand \in Errand /\ NoErrand.step = "idle" /\ NoErrand.task = NoTask
  BY DEF NoErrand, Errand
<1> HIDE DEF done
<1>5. /\ carrying' \in [Carriers -> Errand] /\ carrying'[c] = x
      /\ \A d \in Carriers : d # c => carrying'[d] = carrying[d]
  BY <1>2, <1>3, <1>4
<1>6. /\ google' \in [EventIds -> EventRecord] /\ google'[i].of = t /\ google'[i].time = e.time
      /\ \A j \in EventIds : j # i => google'[j] = google[j]
  <2> DEFINE ev == [of |-> t, time |-> e.time]
  <2>1. ev \in EventRecord /\ ev.of = t /\ ev.time = e.time
    BY <1>1 DEF EventRecord
  <2>2. google' = [google EXCEPT ![i] = ev]
    OBVIOUS
  <2> HIDE DEF ev, e, t
  <2> QED  BY <2>1, <2>2
<1>7. google[i].of \in {NoTask, t} /\ NoTask # "deleted"
  <2>1. CASE google[i] = NotYet
    <3>1. NotYet.of = NoTask
      BY DEF NotYet
    <3>2. NoTask # "deleted"
      BY DEF NoTask
    <3> QED  BY <2>1, <3>1, <3>2
  <2>2. CASE e.kind = "move" /\ i = e.event /\ i \in Existing
    BY <2>2 DEF CalendarInv, EventsAreOwned, Existing, NoTask
  <2> QED  BY <2>1, <2>2 DEF NoTask
<1>8. \A u \in Booking, j \in EventIds : u # t /\ google'[j].of = u =>
        /\ google[j].of = u
        /\ j \notin shifted' => j \notin shifted /\ google'[j].time = google[j].time
  BY <1>1, <1>6, <1>7
<1>9. TaskCalendarTypeOK' /\ ErrandsAreAbout'
  <2>1. tangled' \subseteq Booking
    BY <1>1
  <2>2. TaskCalendarTypeOK'
    BY <1>5, <1>6, <2>1 DEF CalendarInv, TaskCalendarTypeOK, EventRecord
  <2>3. ErrandsAreAbout'
    BY <1>1, <1>3, <1>4, <1>5 DEF CalendarInv, ErrandsAreAbout
  <2> QED  BY <2>2, <2>3
<1>10. EventsAreOwned'
  <2>1. \A j \in EventIds : /\ google'[j].of = google[j].of \/ (j = i /\ google'[j].of = t)
                            /\ google'[j].of = "deleted" => google'[j] = Gone
                            /\ google'[j].of = NoTask => google'[j] = NotYet
    BY <1>1, <1>6 DEF CalendarInv, EventsAreOwned
  <2>2. \A u \in Booking : booking[u].event \in EventIds \union {NoEvent}
    BY DEF Row
  <2>3. \A d \in Carriers : carrying[d].event \in EventIds \union {NoEvent}
    BY DEF Errand
  <2>4. \A u \in Booking : booking[u].event # NoEvent => google'[booking[u].event].of \in {u, "deleted"}
    <3> SUFFICES ASSUME NEW u \in Booking, booking[u].event # NoEvent
                 PROVE  google'[booking[u].event].of \in {u, "deleted"}
      OBVIOUS
    <3>1. google[booking[u].event].of \in {u, "deleted"} /\ booking[u].event \in EventIds
      BY <2>2 DEF CalendarInv, EventsAreOwned
    <3>2. CASE booking[u].event = i
      BY <1>6, <1>7, <3>1, <3>2
    <3>3. CASE booking[u].event # i
      BY <1>6, <3>1, <3>3
    <3> QED  BY <3>2, <3>3
  <2>5. \A d \in Carriers : carrying'[d].step \in {"call", "record"} /\ carrying'[d].event # NoEvent =>
          google'[carrying'[d].event].of \in {carrying'[d].task, "deleted"}
    <3> SUFFICES ASSUME NEW d \in Carriers, carrying'[d].step \in {"call", "record"},
                        carrying'[d].event # NoEvent
                 PROVE  google'[carrying'[d].event].of \in {carrying'[d].task, "deleted"}
      OBVIOUS
    <3>1. CASE d = c
      BY <1>3, <1>4, <1>5, <1>6, <3>1
    <3>2. CASE d # c
      <4>1. carrying'[d] = carrying[d]
        BY <1>5, <3>2
      <4>2. google[carrying[d].event].of \in {carrying[d].task, "deleted"}
        BY <4>1 DEF CalendarInv, EventsAreOwned
      <4>3. carrying[d].task \in Booking
        BY <4>1 DEF CalendarInv, ErrandsAreAbout
      <4>4. carrying[d].event \in EventIds
        BY <2>3, <4>1
      <4>5. CASE carrying[d].event = i
        BY <1>6, <1>7, <4>1, <4>2, <4>3, <4>5
      <4>6. CASE carrying[d].event # i
        BY <1>6, <4>1, <4>2, <4>4, <4>6
      <4> QED  BY <4>5, <4>6
    <3> QED  BY <3>1, <3>2
  <2> QED  BY <2>1, <2>4, <2>5 DEF EventsAreOwned
<1>11. ASSUME NEW u \in Booking \ tangled'  PROVE Story(u)'
  <2>1. u \in Booking \ tangled
    BY <1>11
  <2>2. CASE u # t
    <3>1. \A d \in Carriers : carrying'[d] = carrying[d] \/ (carrying[d].task # u /\ carrying'[d].task # u)
      BY <1>3, <1>4, <1>5, <2>1, <2>2
    <3>2. \A j \in EventIds : google'[j].of = u =>
            /\ google[j].of = u
            /\ j \notin shifted' => j \notin shifted /\ google'[j].time = google[j].time
      <4> HIDE DEF e, t
      <4> QED  BY <1>8, <2>1, <2>2
    <3> HIDE DEF e, t
    <3> QED  BY <2>1, <3>1, <3>2, StoryGoesOn
  <2>3. CASE u = t
    <3>1. x = done
      BY <1>2, <1>11, <2>3
    <3>2. Under(u) = {c}
      <4>1. c \in Under(u)
        BY <2>3 DEF Under
      <4> QED  BY <2>1, <4>1 DEF CalendarInv, StoryIsOne, Story
    <3>3. Under(u)' = {c}
      BY <1>3, <1>5, <2>3, <3>1, <3>2 DEF Under
    <3>4. OneStory(u) /\ CarriesTruth(u, c)
      BY <2>1, <3>2 DEF CalendarInv, StoryIsOne, Story
    <3>5. booking[u].event = IF e.kind = "move" THEN i ELSE NoEvent
      BY <3>4 DEF CarriesTruth, Errand
    <3>6. \A j \in EventIds : google[j].of = u => j = i
      BY <3>4, <3>5 DEF OneStory, Stands
    <3>7. /\ carrying'[c].event = i /\ carrying'[c].time = e.time
          /\ carrying'[c].step = "record" /\ carrying'[c].kind = e.kind
      BY <1>3, <1>5, <3>1
    <3>8. \A j \in EventIds : google'[j].of = u =>
            j = carrying'[c].event /\ (j \notin shifted' => google'[j].time = carrying'[c].time)
      <4> HIDE DEF e, t
      <4> QED  BY <1>6, <3>6, <3>7
    <3>9. CarriesTruth(u, c)'
      <4>1. i # NoEvent /\ booking'[u].event = booking[u].event
        OBVIOUS
      <4> QED  BY <3>5, <3>7, <3>8, <4>1 DEF CarriesTruth, Stands
    <3>10. ~ \A d \in Under(u)' : carrying'[d].step = "call"
      BY <1>3, <1>5, <3>1, <3>3
    <3> QED  BY <3>3, <3>9, <3>10 DEF Story
  <2> QED  BY <2>2, <2>3
<1> QED  BY <1>9, <1>10, <1>11 DEF CalendarInv, StoryIsOne

LEMMA InsertStep ==
  ASSUME CalendarInv, NEW c \in Carriers, Insert(c)  PROVE CalendarInv'
<1>1. /\ carrying[c].step = "call" /\ carrying[c].kind = "schedule"
      /\ UNCHANGED <<booking, promised, shown, shifted>>
  BY DEF Insert
<1>2. PICK i \in EventIds :
        /\ google[i] = NotYet
        /\ google' = [google EXCEPT ![i] = [of |-> carrying[c].task, time |-> carrying[c].time]]
        /\ \/ /\ carrying' = [carrying EXCEPT ![c].step = "record", ![c].event = i]
              /\ tangled' = tangled
           \/ /\ carrying' = [carrying EXCEPT ![c] = NoErrand]
              /\ tangled' = tangled \union {carrying[c].task}
  BY Zenon DEF Insert, EndErrand
<1> QED  BY <1>1, <1>2, GoogleDoes

LEMMA PatchStep ==
  ASSUME CalendarInv, NEW c \in Carriers, Patch(c)  PROVE CalendarInv'
<1> USE CalendarTyped
<1> DEFINE e == carrying[c]
           i == e.event
<1>1. e.step = "call" /\ e.kind = "move" /\ UNCHANGED <<booking, promised, shown>> /\ e \in Errand
  BY DEF Patch
<1>2. CASE i \notin Existing
  <2>1. CallFails(c)
    BY <1>1, <1>2 DEF Patch, CallFails
  <2> QED  BY <2>1, ErrandStays
<1>3. CASE i \in Existing
  <2> DEFINE ev == [of |-> e.task, time |-> e.time]
             a == [e EXCEPT !.step = "record"]
             b == [a EXCEPT !.event = i]
  <2>1. i \in EventIds /\ google[i] # Gone /\ google[i] # NotYet
    BY <1>3 DEF Existing
  <2>2. google[i].of = e.task
    <3>1. i # NoEvent
      BY <2>1
    <3>2. google[i].of \in {e.task, "deleted"}
      BY <1>1, <3>1 DEF CalendarInv, EventsAreOwned
    <3>3. google[i].of # "deleted"
      BY <2>1 DEF CalendarInv, EventsAreOwned
    <3> QED  BY <3>2, <3>3
  <2>3. [google[i] EXCEPT !.time = e.time] = ev
    <3>1. google[i] \in EventRecord
      BY <2>1
    <3> QED  BY <2>2, <3>1 DEF EventRecord
  <2>4. google' = [google EXCEPT ![i] = ev]
    <3>1. google' = [google EXCEPT ![i] = [google[i] EXCEPT !.time = e.time]]
      BY <1>3 DEF Patch
    <3> QED  BY <2>3, <3>1
  <2>5. b = a
    <3>1. a \in Errand /\ a.event = i
      BY <1>1 DEF Errand
    <3> QED  BY <3>1 DEF Errand
  <2>6. [carrying EXCEPT ![c].step = "record", ![c].event = i] = [carrying EXCEPT ![c] = b]
    OBVIOUS
  <2>7. [carrying EXCEPT ![c].step = "record"] = [carrying EXCEPT ![c] = a]
    OBVIOUS
  <2>8. \/ /\ carrying' = [carrying EXCEPT ![c].step = "record"]
           /\ tangled' = tangled
        \/ /\ carrying' = [carrying EXCEPT ![c] = NoErrand]
           /\ tangled' = tangled \union {carrying[c].task}
    BY <1>3 DEF Patch, GoTo, EndErrand
  <2>81. shifted' = shifted \ {i}
    BY <1>3 DEF Patch
  <2>9. [carrying EXCEPT ![c].step = "record"] = [carrying EXCEPT ![c].step = "record", ![c].event = i]
    BY <2>5, <2>6, <2>7
  <2>10. \/ /\ carrying' = [carrying EXCEPT ![c].step = "record", ![c].event = i]
            /\ tangled' = tangled
         \/ /\ carrying' = [carrying EXCEPT ![c] = NoErrand]
            /\ tangled' = tangled \union {carrying[c].task}
    BY <2>8, <2>9
  <2> HIDE CalendarTyped
  <2> QED  BY <1>1, <1>3, <2>1, <2>4, <2>81, <2>10, GoogleDoes, Zenon
<1> QED  BY <1>2, <1>3

\* An errand that leaves after Google did it, the calendar as it is.
LEMMA ErrandEnds ==
  ASSUME CalendarInv, NEW c \in Carriers, carrying[c].step = "record",
         carrying' = [carrying EXCEPT ![c] = NoErrand], UNCHANGED <<promised, google, shown, shifted>>
  PROVE  /\ carrying' \in [Carriers -> Errand] /\ carrying'[c] = NoErrand
         /\ \A d \in Carriers : d # c => carrying'[d] = carrying[d]
         /\ ErrandsAreAbout'
         /\ \A d \in Carriers : carrying'[d].step \in {"call", "record"} /\ carrying'[d].event # NoEvent =>
              google[carrying'[d].event].of \in {carrying'[d].task, "deleted"}
         /\ NoErrand.task = NoTask /\ NoErrand.step = "idle"
<1> USE CalendarTyped
<1>1. NoErrand \in Errand /\ NoErrand.task = NoTask /\ NoErrand.step = "idle"
  BY DEF NoErrand, Errand
<1>2. /\ carrying' \in [Carriers -> Errand] /\ carrying'[c] = NoErrand
      /\ \A d \in Carriers : d # c => carrying'[d] = carrying[d]
  BY <1>1
<1>3. ErrandsAreAbout'
  BY <1>1, <1>2 DEF CalendarInv, ErrandsAreAbout
<1>4. \A d \in Carriers : carrying'[d].step \in {"call", "record"} /\ carrying'[d].event # NoEvent =>
        google[carrying'[d].event].of \in {carrying'[d].task, "deleted"}
  BY <1>1, <1>2 DEF CalendarInv, EventsAreOwned
<1> QED  BY <1>1, <1>2, <1>3, <1>4

LEMMA CutOffErrandStep ==
  ASSUME CalendarInv, NEW c \in Carriers, CutOffErrand(c)  PROVE CalendarInv'
<1> USE CalendarTyped
<1> DEFINE t == carrying[c].task
<1>1. /\ carrying[c].step = "record" /\ UNCHANGED <<booking, promised, google, shown, shifted>>
      /\ carrying' = [carrying EXCEPT ![c] = NoErrand] /\ tangled' = tangled \union {t}
      /\ t \in Booking
  BY DEF CutOffErrand, EndErrand, CalendarInv, ErrandsAreAbout
<1>2. /\ carrying' \in [Carriers -> Errand] /\ carrying'[c] = NoErrand
      /\ \A d \in Carriers : d # c => carrying'[d] = carrying[d]
      /\ ErrandsAreAbout'
      /\ \A d \in Carriers : carrying'[d].step \in {"call", "record"} /\ carrying'[d].event # NoEvent =>
           google[carrying'[d].event].of \in {carrying'[d].task, "deleted"}
      /\ NoErrand.task = NoTask /\ NoErrand.step = "idle"
  BY <1>1, ErrandEnds
<1>3. TaskCalendarTypeOK'
  BY <1>1, <1>2 DEF CalendarInv, TaskCalendarTypeOK
<1>4. EventsAreOwned'
  BY <1>1, <1>2 DEF CalendarInv, EventsAreOwned
<1>5. ASSUME NEW u \in Booking \ tangled'  PROVE Story(u)'
  <2>1. u \in Booking \ tangled /\ u # t
    BY <1>1, <1>5
  <2>2. \A d \in Carriers : carrying'[d] = carrying[d] \/ (carrying[d].task # u /\ carrying'[d].task # u)
    BY <1>2, <2>1
  <2> HIDE DEF t
  <2> QED  BY <1>1, <2>1, <2>2, StoryGoesOn
<1> QED  BY <1>2, <1>3, <1>4, <1>5 DEF CalendarInv, StoryIsOne

LEMMA RecordErrandStep ==
  ASSUME CalendarInv, NEW c \in Carriers, RecordErrand(c)  PROVE CalendarInv'
<1> USE CalendarTyped
<1> DEFINE e == carrying[c]
           t == e.task
           moved == [booking[t] EXCEPT !.time = e.time]
           put == [status |-> IF booking[t].status = "todo" THEN "scheduled" ELSE booking[t].status,
                   event |-> e.event, time |-> e.time]
           nowRow == IF e.kind = "move" THEN moved ELSE put
<1>1. /\ e.step = "record" /\ UNCHANGED <<promised, google, shown, tangled, shifted>>
      /\ carrying' = [carrying EXCEPT ![c] = NoErrand]
      /\ booking' = [booking EXCEPT ![t] = nowRow]
      /\ t \in Booking /\ e \in Errand /\ e.time \in Times
  BY DEF RecordErrand, Recorded, EndErrand, CalendarInv, ErrandsAreAbout
<1>2. /\ carrying' \in [Carriers -> Errand] /\ carrying'[c] = NoErrand
      /\ \A d \in Carriers : d # c => carrying'[d] = carrying[d]
      /\ ErrandsAreAbout'
      /\ \A d \in Carriers : carrying'[d].step \in {"call", "record"} /\ carrying'[d].event # NoEvent =>
           google[carrying'[d].event].of \in {carrying'[d].task, "deleted"}
      /\ NoErrand.task = NoTask /\ NoErrand.step = "idle"
  BY <1>1, ErrandEnds
<1>3. /\ nowRow \in Row /\ nowRow.time = e.time
      /\ nowRow.event = IF e.kind = "move" THEN booking[t].event ELSE e.event
  <2>1. moved \in Row /\ moved.time = e.time /\ moved.event = booking[t].event
    BY <1>1 DEF Row
  <2>2. put \in Row /\ put.time = e.time /\ put.event = e.event
    BY <1>1 DEF Row, Errand
  <2> HIDE DEF moved, put
  <2> QED  BY <2>1, <2>2
<1> HIDE DEF nowRow
<1>4. /\ booking' \in [Booking -> Row] /\ booking'[t] = nowRow
      /\ \A u \in Booking : u # t => booking'[u] = booking[u]
  <2> HIDE DEF t, e
  <2> QED  BY <1>1, <1>3
<1>5. TaskCalendarTypeOK'
  BY <1>1, <1>2, <1>4 DEF CalendarInv, TaskCalendarTypeOK
<1>6. EventsAreOwned'
  <2>1. \A u \in Booking : booking'[u].event # NoEvent => google[booking'[u].event].of \in {u, "deleted"}
    <3> SUFFICES ASSUME NEW u \in Booking, booking'[u].event # NoEvent
                 PROVE  google[booking'[u].event].of \in {u, "deleted"}
      OBVIOUS
    <3>1. booking'[u].event = booking[u].event \/ (u = t /\ booking'[u].event = e.event)
      BY <1>3, <1>4
    <3>2. CASE booking'[u].event = booking[u].event
      BY <3>2 DEF CalendarInv, EventsAreOwned
    <3>3. CASE u = t /\ booking'[u].event = e.event
      BY <1>1, <3>3 DEF CalendarInv, EventsAreOwned
    <3> QED  BY <3>1, <3>2, <3>3
  <2> QED  BY <1>1, <1>2, <2>1 DEF CalendarInv, EventsAreOwned
<1>7. ASSUME NEW u \in Booking \ tangled'  PROVE Story(u)'
  <2>1. u \in Booking \ tangled
    BY <1>1, <1>7
  <2>2. CASE u # t
    <3>1. \A d \in Carriers : carrying'[d] = carrying[d] \/ (carrying[d].task # u /\ carrying'[d].task # u)
      BY <1>2, <2>1, <2>2
    <3>2. booking'[u] = booking[u]
      BY <1>4, <2>1, <2>2
    <3> HIDE DEF t, e
    <3> QED  BY <1>1, <2>1, <3>1, <3>2, StoryGoesOn
  <2>3. CASE u = t
    <3>1. Under(u) = {c}
      <4>1. c \in Under(u)
        BY <1>1, <2>3 DEF Under
      <4> QED  BY <2>1, <4>1 DEF CalendarInv, StoryIsOne, Story
    <3>2. Under(u)' = {}
      BY <1>2, <3>1 DEF Under
    <3>3. /\ e.event # NoEvent /\ Stands(u, e.event, e.time)
          /\ booking[u].event = IF e.kind = "move" THEN e.event ELSE NoEvent
      BY <1>1, <2>1, <3>1 DEF CalendarInv, StoryIsOne, Story, CarriesTruth
    <3>4. booking'[u].event = e.event /\ booking'[u].time = e.time
      BY <1>3, <1>4, <2>3, <3>3
    <3>5. OneStory(u)'
      BY <1>1, <3>3, <3>4 DEF OneStory, Stands
    <3> QED  BY <3>2, <3>5 DEF Story
  <2> QED  BY <2>2, <2>3
<1> QED  BY <1>2, <1>5, <1>6, <1>7 DEF CalendarInv, StoryIsOne

\* An event is gone, or was moved by Alex: the rows are not told.
LEMMA EventTouched ==
  ASSUME CalendarInv, NEW i \in Existing, NEW row,
         \/ row = Gone /\ shifted' = shifted
         \/ row \in EventRecord /\ row.of = google[i].of /\ shifted' = shifted \union {i},
         google' = [google EXCEPT ![i] = row], shown' \subseteq EventIds,
         UNCHANGED <<booking, promised, carrying, tangled>>
  PROVE  CalendarInv'
<1> USE CalendarTyped
<1>1. i \in EventIds /\ google[i] # Gone /\ google[i] # NotYet
  BY DEF Existing
<1>2. Gone \in EventRecord /\ Gone.of = "deleted" /\ "deleted" # NoTask
  BY DEF Gone, EventRecord, NoTask
<1>3. row \in EventRecord /\ shifted' \subseteq EventIds
  BY <1>1, <1>2
<1>4. /\ google' \in [EventIds -> EventRecord] /\ google'[i] = row
      /\ \A j \in EventIds : j # i => google'[j] = google[j]
  BY <1>1, <1>3
<1>5. TaskCalendarTypeOK' /\ ErrandsAreAbout'
  BY <1>3, <1>4 DEF CalendarInv, TaskCalendarTypeOK, ErrandsAreAbout, EventRecord
<1>6. google[i].of # "deleted" /\ google[i].of # NoTask
  BY <1>1 DEF CalendarInv, EventsAreOwned
<1>7. EventsAreOwned'
  <2>1. \A j \in EventIds : google'[j].of \in {google[j].of, "deleted"}
    BY <1>2, <1>4
  <2>2. \A u \in Booking : booking[u].event \in EventIds \union {NoEvent}
    BY DEF Row
  <2>3. \A d \in Carriers : carrying[d].event \in EventIds \union {NoEvent}
    BY DEF Errand
  <2>4. \A u \in Booking : booking[u].event # NoEvent => google'[booking[u].event].of \in {u, "deleted"}
    BY <2>1, <2>2 DEF CalendarInv, EventsAreOwned
  <2>5. \A d \in Carriers : carrying[d].step \in {"call", "record"} /\ carrying[d].event # NoEvent =>
          google'[carrying[d].event].of \in {carrying[d].task, "deleted"}
    BY <2>1, <2>3 DEF CalendarInv, EventsAreOwned
  <2>6. \A j \in EventIds : /\ google'[j].of = "deleted" => google'[j] = Gone
                            /\ google'[j].of = NoTask => google'[j] = NotYet
    BY <1>2, <1>4, <1>6 DEF CalendarInv, EventsAreOwned
  <2> QED  BY <2>4, <2>5, <2>6 DEF EventsAreOwned
<1>8. ASSUME NEW u \in Booking \ tangled'  PROVE Story(u)'
  <2>1. u \in Booking \ tangled
    BY <1>8
  <2>2. \A j \in EventIds : google'[j].of = u =>
          /\ google[j].of = u
          /\ j \notin shifted' => j \notin shifted /\ google'[j].time = google[j].time
    <3>1. Gone.of # u
      BY <1>2, <2>1
    <3> QED  BY <1>4, <3>1
  <2> QED  BY <2>1, <2>2, StoryGoesOn
<1> QED  BY <1>5, <1>7, <1>8 DEF CalendarInv, StoryIsOne

LEMMA TouchedStep ==
  ASSUME CalendarInv, NEW i \in EventIds,
         DeleteEvent(i) \/ RemovedInGoogle(i) \/ \E time \in Times : MovedInGoogle(i, time)
  PROVE  CalendarInv'
<1> USE CalendarTyped
<1>1. CASE google' = google
  <2>1. /\ UNCHANGED <<booking, promised, carrying, tangled>> /\ shown' \subseteq EventIds
        /\ shifted' = shifted
    <3>1. CASE DeleteEvent(i)
      BY <3>1 DEF DeleteEvent
    <3>2. CASE RemovedInGoogle(i)
      BY <3>2 DEF RemovedInGoogle
    <3>3. CASE \E time \in Times : MovedInGoogle(i, time)
      <4>1. PICK time \in Times : MovedInGoogle(i, time)
        BY <3>3
      <4>2. google[i] \in EventRecord /\ google[i].time # time
        BY <4>1 DEF MovedInGoogle
      <4>3. google'[i].time = time
        BY <4>1, <4>2 DEF MovedInGoogle, EventRecord
      <4> QED  BY <1>1, <4>2, <4>3
    <3> QED  BY <3>1, <3>2, <3>3
  <2>2. TaskCalendarTypeOK' /\ ErrandsAreAbout'
    BY <1>1, <2>1 DEF CalendarInv, TaskCalendarTypeOK, ErrandsAreAbout
  <2>3. EventsAreOwned' /\ StoryIsOne'
    BY <1>1, <2>1, StoryStays
  <2> QED  BY <2>2, <2>3 DEF CalendarInv
<1>2. CASE google' # google
  <2>1. CASE DeleteEvent(i) \/ RemovedInGoogle(i)
    <3>1. /\ i \in Existing /\ google' = [google EXCEPT ![i] = Gone] /\ shifted' = shifted
          /\ shown' \subseteq EventIds /\ UNCHANGED <<booking, promised, carrying, tangled>>
      BY <1>2, <2>1 DEF DeleteEvent, RemovedInGoogle
    <3> QED  BY <3>1, EventTouched
  <2>2. CASE \E time \in Times : MovedInGoogle(i, time)
    <3>1. PICK time \in Times : MovedInGoogle(i, time)
      BY <2>2
    <3> DEFINE row == [google[i] EXCEPT !.time = time]
    <3>2. row \in EventRecord /\ row.of = google[i].of
      BY DEF EventRecord
    <3>3. google' = [google EXCEPT ![i] = row]
      BY <3>1 DEF MovedInGoogle
    <3>4. /\ i \in Existing /\ shifted' = shifted \union {i}
          /\ shown' \subseteq EventIds /\ UNCHANGED <<booking, promised, carrying, tangled>>
      BY <3>1 DEF MovedInGoogle
    <3> HIDE DEF row
    <3> QED  BY <3>2, <3>3, <3>4, EventTouched
  <2> QED  BY <2>1, <2>2
<1> QED  BY <1>1, <1>2

LEMMA CalendarStep ==
  ASSUME CalendarInv, TaskCalendarNext \/ UNCHANGED taskCalendarVars  PROVE CalendarInv'
<1>1. CASE UNCHANGED taskCalendarVars
  BY <1>1 DEF taskCalendarVars, CalendarInv, TaskCalendarTypeOK, ErrandsAreAbout, EventsAreOwned,
     StoryIsOne, Story, OneStory, Stands, CarriesTruth, Under
<1>2. ASSUME NEW c \in Carriers,
             \/ \E k \in {"schedule", "move"}, t \in Booking, time \in Times, o \in BOOLEAN :
                  Wanted(c, k, t, time, o)
             \/ AlexDecides(c) \/ CheckErrand(c) \/ Insert(c) \/ Patch(c) \/ CallFails(c)
             \/ RecordErrand(c) \/ CutOffErrand(c)
      PROVE  CalendarInv'
  BY <1>2, ErrandStays, CheckErrandStep, InsertStep, PatchStep, RecordErrandStep, CutOffErrandStep, Zenon
<1>3. CASE ListEvents \/ \E t \in Booking : Promise(t) \/ \E s \in {"completed"} : Progress(t, s)
  BY <1>3, RowsStay
<1>4. CASE \E i \in EventIds : \/ DeleteEvent(i) \/ RemovedInGoogle(i)
                               \/ \E time \in Times : MovedInGoogle(i, time)
  BY <1>4, TouchedStep
<1> QED  BY <1>1, <1>2, <1>3, <1>4, Zenon DEF TaskCalendarNext

LEMMA CalendarShows ==
  ASSUME CalendarInv  PROVE TaskCalendarTypeOK /\ RowTellsEvent
<1> USE CalendarTyped
<1>1. ASSUME NEW t \in Booking \ tangled, Under(t) = {}
      PROVE  /\ EventsOf(t) = {booking[t].event} \cap Existing
             /\ booking[t].event \in Existing \ shifted =>
                  google[booking[t].event].time = booking[t].time
  <2> DEFINE n == booking[t].event
  <2>1. \A j \in EventIds : google[j].of = t => j = n /\ (j \notin shifted => google[j].time = booking[t].time)
    BY <1>1 DEF CalendarInv, StoryIsOne, Story, OneStory, Stands
  <2>2. n \in Existing => n \in EventIds /\ google[n].of = t
    <3> SUFFICES ASSUME n \in Existing PROVE n \in EventIds /\ google[n].of = t
      OBVIOUS
    <3>1. n \in EventIds /\ google[n] # Gone /\ n # NoEvent
      BY DEF Existing
    <3>2. google[n].of \in {t, "deleted"} /\ google[n].of # "deleted"
      BY <3>1 DEF CalendarInv, EventsAreOwned
    <3> QED  BY <3>1, <3>2
  <2> HIDE DEF n
  <2>3. EventsOf(t) = {n} \cap Existing
    BY <2>1, <2>2 DEF EventsOf, Existing
  <2> QED  BY <2>1, <2>2, <2>3 DEF n
<1> QED  BY <1>1 DEF CalendarInv, RowTellsEvent

-----------------------------------------------------------------------------
(* Working time.                                                           *)

\* s is the first K of parts put together.
Puts(s, parts, K) ==
  /\ \A i \in 1 .. Len(s) : \E k \in 1 .. K : \E a \in 1 .. Len(parts[k]) : s[i] = parts[k][a]
  /\ \A k \in 1 .. K : \A a \in 1 .. Len(parts[k]) : \E i \in 1 .. Len(s) : s[i] = parts[k][a]
  /\ \A i, j \in 1 .. Len(s) : i < j =>
       \E k, l \in 1 .. K : \E a \in 1 .. Len(parts[k]), b \in 1 .. Len(parts[l]) :
         s[i] = parts[k][a] /\ s[j] = parts[l][b] /\ (k < l \/ (k = l /\ a < b))

\* One more part put to the end.
LEMMA PutsGoesOn ==
  ASSUME NEW T, NEW K \in Nat \ {0}, NEW parts, \A k \in 1 .. K : parts[k] \in Seq(T),
         NEW s \in Seq(T), Puts(s, parts, K - 1)
  PROVE  s \o parts[K] \in Seq(T) /\ Puts(s \o parts[K], parts, K)
<1> DEFINE p == parts[K]
           r == s \o p
<1>1. p \in Seq(T) /\ Len(p) \in Nat /\ Len(s) \in Nat
  BY LenProperties
<1>2. /\ r \in Seq(T) /\ Len(r) = Len(s) + Len(p)
      /\ \A i \in 1 .. Len(s) + Len(p) : r[i] = IF i <= Len(s) THEN s[i] ELSE p[i - Len(s)]
  BY <1>1, ConcatProperties
<1> HIDE DEF r
<1>3. \A i \in 1 .. Len(s) : i \in 1 .. Len(r) /\ r[i] = s[i]
  BY <1>1, <1>2
<1>4. ASSUME NEW a \in 1 .. Len(p)
      PROVE  Len(s) + a \in 1 .. Len(r) /\ r[Len(s) + a] = p[a]
  <2> DEFINE n == Len(s) + a
  <2>1. n \in 1 .. Len(s) + Len(p) /\ ~(n <= Len(s)) /\ n - Len(s) = a
    BY ONLY <1>1, a \in 1 .. Len(p)
  <2> HIDE DEF n
  <2>2. r[n] = p[a] /\ n \in 1 .. Len(r)
    BY ONLY <1>2, <2>1
  <2> QED  BY <2>2 DEF n
<1>5. \A i \in 1 .. Len(r) : i \in 1 .. Len(s) \/ (i - Len(s) \in 1 .. Len(p) /\ r[i] = p[i - Len(s)] /\ i > Len(s))
  BY <1>1, <1>2
<1>6. \A k \in 1 .. K - 1 : k \in 1 .. K /\ k < K
  OBVIOUS
<1>7. \A k \in 1 .. K : k \in 1 .. K - 1 \/ k = K
  OBVIOUS
<1>8. K \in 1 .. K
  OBVIOUS
<1>9. ASSUME NEW i \in 1 .. Len(r)
      PROVE  \E k \in 1 .. K : \E a \in 1 .. Len(parts[k]) : r[i] = parts[k][a]
  <2>1. CASE i \in 1 .. Len(s)
    <3>1. PICK k \in 1 .. K - 1 : \E a \in 1 .. Len(parts[k]) : s[i] = parts[k][a]
      BY <2>1 DEF Puts
    <3>2. r[i] = s[i] /\ k \in 1 .. K
      BY <2>1, <1>3, <1>6
    <3> QED  BY <3>1, <3>2
  <2>2. CASE i \notin 1 .. Len(s)
    BY <2>2, <1>5, <1>8
  <2> QED  BY <2>1, <2>2
<1>10. ASSUME NEW k \in 1 .. K, NEW a \in 1 .. Len(parts[k])
       PROVE  \E i \in 1 .. Len(r) : r[i] = parts[k][a]
  <2>1. CASE k \in 1 .. K - 1
    <3>1. PICK i \in 1 .. Len(s) : s[i] = parts[k][a]
      BY <2>1 DEF Puts
    <3> QED  BY <3>1, <1>3
  <2>2. CASE k = K
    BY <2>2, <1>4
  <2> QED  BY <2>1, <2>2, <1>7
<1>11. ASSUME NEW i \in 1 .. Len(r), NEW j \in 1 .. Len(r), i < j
       PROVE  \E k, l \in 1 .. K : \E a \in 1 .. Len(parts[k]), b \in 1 .. Len(parts[l]) :
                r[i] = parts[k][a] /\ r[j] = parts[l][b] /\ (k < l \/ (k = l /\ a < b))
  <2>1. CASE j \in 1 .. Len(s)
    <3>1. i \in 1 .. Len(s)
      BY <1>11, <2>1, <1>1, <1>2
    <3>4. \A x, y \in 1 .. Len(s) : x < y =>
            \E k, l \in 1 .. K - 1 : \E a \in 1 .. Len(parts[k]), b \in 1 .. Len(parts[l]) :
              s[x] = parts[k][a] /\ s[y] = parts[l][b] /\ (k < l \/ (k = l /\ a < b))
      BY ONLY Puts(s, parts, K - 1) DEF Puts
    <3>2. PICK k \in 1 .. K - 1, l \in 1 .. K - 1 :
            \E a \in 1 .. Len(parts[k]), b \in 1 .. Len(parts[l]) :
              s[i] = parts[k][a] /\ s[j] = parts[l][b] /\ (k < l \/ (k = l /\ a < b))
      BY ONLY i < j, <2>1, <3>1, <3>4
    <3>3. r[i] = s[i] /\ r[j] = s[j] /\ k \in 1 .. K /\ l \in 1 .. K
      BY <2>1, <3>1, <1>3, <1>6
    <3> QED  BY <3>2, <3>3
  <2>2. CASE j \notin 1 .. Len(s) /\ i \in 1 .. Len(s)
    <3>1. PICK k \in 1 .. K - 1 : \E a \in 1 .. Len(parts[k]) : s[i] = parts[k][a]
      BY <2>2 DEF Puts
    <3>2. j - Len(s) \in 1 .. Len(p) /\ r[j] = p[j - Len(s)]
      BY <2>2, <1>5
    <3>3. r[i] = s[i] /\ k \in 1 .. K /\ k < K
      BY <2>2, <1>3, <1>6
    <3> QED  BY <3>1, <3>2, <3>3, <1>8
  <2>3. CASE j \notin 1 .. Len(s) /\ i \notin 1 .. Len(s)
    <3>1. j - Len(s) \in 1 .. Len(p) /\ r[j] = p[j - Len(s)] /\ i - Len(s) \in 1 .. Len(p) /\ r[i] = p[i - Len(s)]
      BY <2>3, <1>5
    <3>2. i - Len(s) < j - Len(s)
      BY <1>11, <1>1
    <3> QED  BY <3>1, <3>2, <1>8
  <2> QED  BY <2>1, <2>2, <2>3
<1> QED  BY <1>2, <1>9, <1>10, <1>11 DEF Puts, r

\* FlattenSeq has what its parts have, in their order.
LEMMA Flattens ==
  ASSUME NEW T, NEW parts \in Seq(Seq(T))
  PROVE  FlattenSeq(parts) \in Seq(T) /\ Puts(FlattenSeq(parts), parts, Len(parts))
<1> DEFINE K == Len(parts)
<1>1. K \in Nat /\ \A k \in 1 .. K : parts[k] \in Seq(T)
  BY LenProperties, ElementOfSeq
<1>2. CASE K = 0
  <2>1. parts = <<>>
    BY <1>2, EmptySeq
  <2>2. FlattenSeq(parts) = <<>>
    BY <1>2, <2>1 DEF FlattenSeq
  <2>3. <<>> \in Seq(T) /\ Len(<<>>) = 0
    BY EmptySeq
  <2>4. Puts(<<>>, parts, 0)
    BY <2>3 DEF Puts
  <2> QED  BY <1>2, <2>2, <2>3, <2>4
<1>3. CASE K # 0
  <2> DEFINE step == [d \in (1 .. K) \X Seq(T) |-> d[2] \o parts[d[1]]]
             Defines(of) == of = [n \in 1 .. K |-> IF n = 1 THEN parts[n] ELSE of[n - 1] \o parts[n]]
  <2>1. step \in [(1 .. K) \X Seq(T) -> Seq(T)]
    <3>1. \A n \in 1 .. K : \A s \in Seq(T) : s \o parts[n] \in Seq(T)
      BY <1>1, ConcatProperties
    <3> HIDE DEF K
    <3> QED  BY <3>1
  <2>2. PICK f : Iterated(f, Seq(T), K, step, <<>>)
    <3>1. <<>> \in Seq(T)
      BY EmptySeq
    <3> HIDE DEF step, K
    <3> QED  BY <1>1, <2>1, <3>1, Iterates
  <2>3. f \in [0 .. K -> Seq(T)] /\ f[0] = <<>> /\ \A n \in 1 .. K : f[n] = step[<<n, f[n - 1]>>]
    BY <2>2 DEF Iterated
  <2>4. ASSUME NEW n \in 1 .. K PROVE f[n] = f[n - 1] \o parts[n] /\ f[n - 1] \in Seq(T)
    <3>1. n - 1 \in 0 .. K
      BY <1>1
    <3>2. f[n - 1] \in Seq(T)
      BY <2>3, <3>1
    <3>3. step[<<n, f[n - 1]>>] = f[n - 1] \o parts[n]
      BY <3>2
    <3> HIDE DEF step
    <3> QED  BY <2>3, <3>2, <3>3
  <2> DEFINE g == [n \in 1 .. K |-> f[n]]
  <2>5. Defines(g)
    <3>1. ASSUME NEW n \in 1 .. K
          PROVE  g[n] = IF n = 1 THEN parts[n] ELSE g[n - 1] \o parts[n]
      <4>1. CASE n = 1
        <5>1. f[1] = <<>> \o parts[1]
          <6>1. f[1] = f[1 - 1] \o parts[1]
            BY <4>1, <2>4
          <6>2. f[1 - 1] = <<>>
            BY <2>3
          <6> QED  BY <6>1, <6>2
        <5>2. parts[1] \in Seq(T)
          BY <1>1, <4>1
        <5>3. <<>> \o parts[1] = parts[1]
          BY <5>2, ConcatEmptySeq
        <5> QED  BY <4>1, <5>1, <5>3
      <4>2. CASE n # 1
        <5>1. n - 1 \in 1 .. K
          BY <4>2, <1>1
        <5> QED  BY <4>2, <5>1, <2>4
      <4> QED  BY <4>1, <4>2
    <3> QED  BY <3>1, Zenon
  <2> DEFINE h == CHOOSE of : Defines(of)
  <2>6. Defines(h)
    <3> HIDE DEF Defines
    <3> QED  BY <2>5
  <2>7. FlattenSeq(parts) = h[K]
    BY <1>3, Zenon DEF FlattenSeq
  <2> HIDE DEF h
  <2>8. ASSUME NEW n \in 1 .. K
        PROVE  h[n] \in Seq(T) /\ Puts(h[n], parts, n)
    <3> DEFINE Bad == {k \in 1 .. K : ~ (h[k] \in Seq(T) /\ Puts(h[k], parts, k))}
    <3>1. ASSUME Bad # {} PROVE FALSE
      <4>1. PICK k \in Bad : \A j \in Bad : k <= j
        <5>1. Bad \in SUBSET Nat
          BY <1>1
        <5> QED  BY <3>1, <5>1, Smallest
      <4>2. \A j \in 1 .. K : h[j] = IF j = 1 THEN parts[j] ELSE h[j - 1] \o parts[j]
        BY <2>6
      <4>3. k \in Nat \ {0} /\ k \in 1 .. K /\ \A j \in 1 .. k : parts[j] \in Seq(T)
        BY <4>1, <1>1
      <4>4. CASE k = 1
        <5>1. <<>> \in Seq(T) /\ Len(<<>>) = 0
          BY EmptySeq
        <5>2. Puts(<<>>, parts, k - 1)
          BY <4>4, <5>1 DEF Puts
        <5>3. <<>> \o parts[k] = h[k]
          <6>1. <<>> \o parts[k] = parts[k]
            BY <4>3, ConcatEmptySeq
          <6> QED  BY <4>2, <4>3, <4>4, <6>1
        <5>4. <<>> \o parts[k] \in Seq(T) /\ Puts(<<>> \o parts[k], parts, k)
          BY <4>3, <5>1, <5>2, PutsGoesOn
        <5> QED  BY <4>1, <5>3, <5>4
      <4>5. CASE k # 1
        <5>1. k - 1 \in 1 .. K /\ k - 1 < k
          BY <4>3, <4>5, <1>1
        <5>2. h[k - 1] \in Seq(T) /\ Puts(h[k - 1], parts, k - 1)
          BY <4>1, <5>1, <4>3
        <5>3. h[k - 1] \o parts[k] \in Seq(T) /\ Puts(h[k - 1] \o parts[k], parts, k)
          BY <4>3, <5>2, PutsGoesOn
        <5> QED  BY <4>1, <4>2, <4>3, <4>5, <5>3
      <4> QED  BY <4>4, <4>5
    <3> QED  BY <3>1
  <2>9. K \in 1 .. K
    BY <1>1, <1>3
  <2> QED  BY <2>7, <2>8, <2>9
<1> QED  BY <1>2, <1>3

Intervals == Nat \X Nat
Clear(i, b) == i[2] <= b[1] \/ b[2] <= i[1]
Inside(i, o) == o[1] <= i[1] /\ i[2] <= o[2]

\* Intervals in order and apart.
Neat(s) ==
  /\ s \in Seq(Intervals) /\ \A i \in 1 .. Len(s) : s[i][1] < s[i][2]
  /\ \A i, j \in 1 .. Len(s) : i < j => s[i][2] <= s[j][1]

\* result is what one interval leaves of the time that is not busy, ...
LeavesOf(result, interval, busy) ==
  /\ Neat(result)
  /\ \A i \in 1 .. Len(result) : Inside(result[i], interval) /\ \A b \in busy : Clear(result[i], b)
  /\ \A x \in Intervals : x[1] < x[2] /\ Inside(x, interval) /\ (\A b \in busy : Clear(x, b)) =>
       \E i \in 1 .. Len(result) : Inside(x, result[i])

\* ... and what several leave.
Leaves(result, intervals, busy) ==
  /\ Neat(result)
  /\ \A i \in 1 .. Len(result) :
       /\ \E k \in 1 .. Len(intervals) : Inside(result[i], intervals[k])
       /\ \A b \in busy : Clear(result[i], b)
  /\ \A x \in Intervals : x[1] < x[2] /\ (\A b \in busy : Clear(x, b)) =>
       \A k \in 1 .. Len(intervals) :
         Inside(x, intervals[k]) => \E i \in 1 .. Len(result) : Inside(x, result[i])

\* What lies inside an interval is where that is.
LEMMA InsideGoesOn ==
  ASSUME NEW x \in Intervals, NEW y \in Intervals, NEW z \in Intervals, Inside(x, y)
  PROVE  /\ Inside(y, z) => Inside(x, z)
         /\ Clear(y, z) => Clear(x, z)
         /\ \A n \in Nat : x[2] - x[1] >= n => y[2] - y[1] >= n
<1>1. /\ x[1] \in Nat /\ x[2] \in Nat /\ y[1] \in Nat /\ y[2] \in Nat /\ z[1] \in Nat /\ z[2] \in Nat
      /\ y[1] <= x[1] /\ x[2] <= y[2]
  BY DEF Intervals, Inside
<1> QED  BY <1>1 DEF Inside, Clear

\* An item that is kept or not.
LEMMA KeptIs ==
  ASSUME NEW T, NEW x, NEW c \in BOOLEAN, c => x \in T
  PROVE  /\ Kept(c, x) \in Seq(T)
         /\ \A a \in 1 .. Len(Kept(c, x)) : c /\ Kept(c, x)[a] = x /\ a = 1
         /\ c => 1 \in 1 .. Len(Kept(c, x)) /\ Kept(c, x)[1] = x
<1>1. CASE c
  <2>1. Kept(c, x) = <<x>>
    BY <1>1 DEF Kept
  <2>2. x \in T
    BY <1>1
  <2>3. <<x>> \in Seq(T) /\ Len(<<x>>) = 1 /\ <<x>>[1] = x
    BY <2>2
  <2>4. Kept(c, x) \in Seq(T) /\ Len(Kept(c, x)) = 1 /\ Kept(c, x)[1] = x
    BY <2>1, <2>3
  <2>5. 1 .. Len(Kept(c, x)) = {1}
    BY <2>4
  <2> QED  BY <1>1, <2>4, <2>5
<1>2. CASE ~ c
  <2>1. Kept(c, x) = <<>>
    BY <1>2 DEF Kept
  <2>2. <<>> \in Seq(T) /\ Len(<<>>) = 0
    BY EmptySeq
  <2> QED  BY <1>2, <2>1, <2>2
<1> QED  BY <1>1, <1>2

\* Lists that are neat and follow each other are neat together.
LEMMA NeatTogether ==
  ASSUME NEW K \in Nat, NEW parts \in [1 .. K -> Seq(Intervals)], \A k \in 1 .. K : Neat(parts[k]),
         \A k, l \in 1 .. K : k < l =>
           \A a \in 1 .. Len(parts[k]), b \in 1 .. Len(parts[l]) : parts[k][a][2] <= parts[l][b][1]
  PROVE  Neat(FlattenSeq(parts)) /\ Puts(FlattenSeq(parts), parts, K)
<1> DEFINE r == FlattenSeq(parts)
<1>1. parts \in Seq(Seq(Intervals)) /\ Len(parts) = K
  OBVIOUS
<1>2. r \in Seq(Intervals) /\ Puts(r, parts, K)
  BY <1>1, Flattens
<1> HIDE DEF r
<1>3. ASSUME NEW i \in 1 .. Len(r) PROVE r[i][1] < r[i][2]
  <2>1. PICK k \in 1 .. K : \E a \in 1 .. Len(parts[k]) : r[i] = parts[k][a]
    BY <1>2 DEF Puts
  <2> QED  BY <2>1 DEF Neat
<1>4. ASSUME NEW i \in 1 .. Len(r), NEW j \in 1 .. Len(r), i < j PROVE r[i][2] <= r[j][1]
  <2>1. PICK k \in 1 .. K, l \in 1 .. K :
          \E a \in 1 .. Len(parts[k]), b \in 1 .. Len(parts[l]) :
            r[i] = parts[k][a] /\ r[j] = parts[l][b] /\ (k < l \/ (k = l /\ a < b))
    BY <1>2, <1>4 DEF Puts
  <2>2. PICK a \in 1 .. Len(parts[k]), b \in 1 .. Len(parts[l]) :
          r[i] = parts[k][a] /\ r[j] = parts[l][b] /\ (k < l \/ (k = l /\ a < b))
    BY <2>1
  <2>3. CASE k < l
    BY <2>2, <2>3
  <2>4. CASE k = l /\ a < b
    BY <2>2, <2>4 DEF Neat
  <2> QED  BY <2>2, <2>3, <2>4
<1> QED  BY <1>2, <1>3, <1>4 DEF Neat, r

\* One thing or nothing, after one another.
LEMMA NeatKept ==
  ASSUME NEW c \in BOOLEAN, NEW x, c => x \in Intervals /\ x[1] < x[2]
  PROVE  Neat(Kept(c, x))
<1>1. /\ Kept(c, x) \in Seq(Intervals)
      /\ \A a \in 1 .. Len(Kept(c, x)) : c /\ Kept(c, x)[a] = x /\ a = 1
  BY KeptIs
<1> QED  BY <1>1 DEF Neat

\* What is sorted has all that there is, in order.
LEMMA Sorts ==
  ASSUME NEW S \in SUBSET Intervals, IsFiniteSet(S), \A b \in S : b[1] < b[2]
  PROVE  /\ InOrder(S) \in Seq(Intervals) /\ Len(InOrder(S)) \in Nat
         /\ \A n \in 1 .. Len(InOrder(S)) : InOrder(S)[n] \in S
         /\ \A b \in S : \E n \in 1 .. Len(InOrder(S)) : InOrder(S)[n] = b
         /\ \A m, n \in 1 .. Len(InOrder(S)) : m < n => InOrder(S)[m][1] <= InOrder(S)[n][1]
<1> DEFINE before == {d \in S \X S : Earlier(d[1], d[2])}
           N == Cardinality(S)
<1>1. \A x, y \in S : <<x, y>> \in before <=> Earlier(x, y)
  OBVIOUS
<1> HIDE DEF before
<1>2. \A x \in S : x = <<x[1], x[2]>> /\ x[1] \in Nat /\ x[2] \in Nat
  BY DEF Intervals
<1>3. \A x \in S : <<x, x>> \notin before
  BY <1>1, <1>2 DEF Earlier
<1>4. ASSUME NEW x \in S, NEW y \in S, NEW z \in S, <<x, y>> \in before, <<y, z>> \in before
      PROVE  <<x, z>> \in before
  <2>1. Earlier(x, y) /\ Earlier(y, z)
    BY <1>1, <1>4
  <2>2. Earlier(x, z)
    BY <2>1, <1>2 DEF Earlier
  <2> QED  BY <2>2, <1>1
<1>5. ASSUME NEW x \in S, NEW y \in S PROVE x = y \/ <<x, y>> \in before \/ <<y, x>> \in before
  <2>1. x = y \/ Earlier(x, y) \/ Earlier(y, x)
    BY <1>2 DEF Earlier
  <2> QED  BY <2>1, <1>1
<1>6. IsOrder(before, S) /\ IsTotal(before, S)
  BY <1>3, <1>4, <1>5 DEF IsOrder, IsTotal
<1>7. /\ N \in Nat
      /\ \E s \in [1 .. N -> S] : Ascends(s, before)
      /\ \A s \in [1 .. N -> S] : Ascends(s, before) => \A x \in S : \E a \in 1 .. N : s[a] = x
  BY <1>6, Listing
<1> DEFINE Sorted(s) == \A i, j \in DOMAIN s : i < j => Earlier(s[i], s[j])
<1>8. ASSUME NEW s \in [1 .. N -> S] PROVE Ascends(s, before) <=> Sorted(s)
  <2>1. DOMAIN s = 1 .. N /\ \A i \in 1 .. N : s[i] \in S
    OBVIOUS
  <2> QED  BY <1>1, <2>1 DEF Ascends
<1> DEFINE q == CHOOSE s \in [1 .. N -> S] : Sorted(s)
<1>9. q \in [1 .. N -> S] /\ Sorted(q)
  <2>1. \E s \in [1 .. N -> S] : Sorted(s)
    BY <1>7, <1>8
  <2> HIDE DEF Sorted
  <2> QED  BY <2>1
<1>10. InOrder(S) = q
  BY Zenon DEF InOrder
<1> HIDE DEF q, N
<1>11. Len(q) = N
  BY <1>7, <1>9
<1>12. \A b \in S : \E n \in 1 .. N : q[n] = b
  BY <1>7, <1>8, <1>9
<1>13. ASSUME NEW m \in 1 .. N, NEW n \in 1 .. N, m < n PROVE q[m][1] <= q[n][1]
  <2>1. q[m] \in S /\ q[n] \in S /\ Earlier(q[m], q[n])
    BY <1>9, <1>13
  <2> QED  BY <2>1, <1>2 DEF Earlier
<1>14. q \in Seq(Intervals)
  <2>1. q \in [1 .. N -> Intervals]
    BY <1>9
  <2> QED  BY <1>7, <2>1
<1> QED  BY <1>7, <1>9, <1>10, <1>11, <1>12, <1>13, <1>14

\* The cursor of _subtract.
CursorOf(c, interval, busy) ==
  /\ c \in [0 .. Len(busy) -> Nat] /\ c[0] = interval[1]
  /\ \A n \in 1 .. Len(busy) :
       c[n] = IF Passes(interval, busy[n], c[n - 1]) THEN c[n - 1] ELSE Later(c[n - 1], busy[n][2])

\* The cursor of _subtract goes on as its definition says, ...
LEMMA CursorIs ==
  ASSUME NEW interval \in Intervals, NEW busy \in Seq(Intervals)
  PROVE  CursorOf(Cursors(interval, busy), interval, busy)
<1> DEFINE K == Len(busy)
           CursorOn(n, cursor) ==
             IF Passes(interval, busy[n], cursor) THEN cursor ELSE Later(cursor, busy[n][2])
           step == [d \in (1 .. K) \X Nat |-> CursorOn(d[1], d[2])]
           Defines(cursor) == cursor = [n \in 0 .. K |->
               IF n = 0 THEN interval[1]
               ELSE IF Passes(interval, busy[n], cursor[n - 1]) THEN cursor[n - 1]
               ELSE Later(cursor[n - 1], busy[n][2])]
<1>1. K \in Nat /\ interval[1] \in Nat /\ \A n \in 1 .. K : busy[n][2] \in Nat
  BY LenProperties, ElementOfSeq DEF Intervals
<1>2. \A n \in 1 .. K : \A c \in Nat : CursorOn(n, c) \in Nat
  BY <1>1 DEF Later
<1>3. step \in [(1 .. K) \X Nat -> Nat]
  <2> HIDE DEF CursorOn, K
  <2> QED  BY <1>2
<1>4. PICK f : Iterated(f, Nat, K, step, interval[1])
  <2> HIDE DEF step, K
  <2> QED  BY <1>1, <1>3, Iterates
<1>5. f \in [0 .. K -> Nat] /\ f[0] = interval[1] /\ \A n \in 1 .. K : f[n] = step[<<n, f[n - 1]>>]
  BY <1>4 DEF Iterated
<1>6. ASSUME NEW n \in 1 .. K PROVE f[n] = CursorOn(n, f[n - 1])
  <2>1. f[n - 1] \in Nat
    <3>1. n - 1 \in 0 .. K
      BY <1>1
    <3> QED  BY <1>5, <3>1
  <2>2. step[<<n, f[n - 1]>>] = CursorOn(n, f[n - 1])
    BY <2>1
  <2> HIDE DEF CursorOn, step
  <2> QED  BY <1>5, <2>2
<1>7. Defines(f)
  <2>1. \A n \in 0 .. K : f[n] = IF n = 0 THEN interval[1]
               ELSE IF Passes(interval, busy[n], f[n - 1]) THEN f[n - 1]
               ELSE Later(f[n - 1], busy[n][2])
    BY <1>1, <1>5, <1>6
  <2> QED  BY <1>5, <2>1
<1> DEFINE g == CHOOSE cursor : Defines(cursor)
<1>8. Defines(g)
  <2> HIDE DEF Defines
  <2> QED  BY <1>7
<1>9. Cursors(interval, busy) = g
  BY Zenon DEF Cursors
<1> HIDE DEF g
<1>10. DOMAIN g = 0 .. K /\ g[0] = interval[1] /\ \A n \in 1 .. K : g[n] = CursorOn(n, g[n - 1])
  <2>1. \A n \in 0 .. K : g[n] = IF n = 0 THEN interval[1]
               ELSE IF Passes(interval, busy[n], g[n - 1]) THEN g[n - 1]
               ELSE Later(g[n - 1], busy[n][2])
    BY <1>8
  <2>2. DOMAIN g = 0 .. K
    BY <1>8
  <2>3. g[0] = interval[1]
    BY <1>1, <2>1
  <2>4. ASSUME NEW n \in 1 .. K PROVE g[n] = CursorOn(n, g[n - 1])
    <3>1. n \in 0 .. K /\ n # 0
      BY <1>1
    <3> QED  BY <2>1, <3>1
  <2> QED  BY <2>2, <2>3, <2>4
<1>11. ASSUME NEW n \in 0 .. K PROVE g[n] \in Nat
  <2> DEFINE Bad == {k \in 0 .. K : g[k] \notin Nat}
  <2>1. ASSUME Bad # {} PROVE FALSE
    <3>1. PICK k \in Bad : \A j \in Bad : k <= j
      <4>1. Bad \in SUBSET Nat
        BY <1>1
      <4> QED  BY <2>1, <4>1, Smallest
    <3>2. k # 0
      BY <1>1, <1>10, <3>1
    <3>3. k \in 1 .. K /\ k - 1 \in 0 .. K /\ k - 1 \notin Bad
      BY <1>1, <3>1, <3>2
    <3>4. g[k - 1] \in Nat /\ g[k] = CursorOn(k, g[k - 1])
      BY <3>3, <1>10
    <3>5. g[k] \in Nat
      <4> HIDE DEF CursorOn
      <4> QED  BY <3>3, <3>4, <1>2
    <3> QED  BY <3>1, <3>5
  <2> QED  BY <2>1
<1>12. g \in [0 .. K -> Nat]
  <2>1. g = [n \in 0 .. K |-> g[n]]
    BY <1>8
  <2> QED  BY <2>1, <1>11
<1> QED  BY <1>9, <1>10, <1>12 DEF CursorOf

\* How far the cursor has come: it never goes back, and past whatever busy time it
\* has met, unless that or the cursor lies behind the interval.
LEMMA CursorGoesOn ==
  ASSUME NEW interval \in Intervals, NEW busy \in Seq(Intervals), NEW c, CursorOf(c, interval, busy)
  PROVE  \A n \in 0 .. Len(busy) :
           /\ \A m \in 0 .. n : c[m] <= c[n]
           /\ \A m \in 1 .. n : busy[m][2] <= c[n] \/ interval[2] <= busy[m][1] \/ interval[2] <= c[n]
<1> DEFINE K == Len(busy)
           Good(n) == /\ \A m \in 0 .. n : c[m] <= c[n]
                      /\ \A m \in 1 .. n : busy[m][2] <= c[n] \/ interval[2] <= busy[m][1] \/ interval[2] <= c[n]
           Bad == {n \in 0 .. K : ~ Good(n)}
<1>1. /\ K \in Nat /\ interval[1] \in Nat /\ interval[2] \in Nat
      /\ \A n \in 1 .. K : busy[n][1] \in Nat /\ busy[n][2] \in Nat
  BY LenProperties, ElementOfSeq DEF Intervals
<1>2. \A n \in 0 .. K : c[n] \in Nat
  BY DEF CursorOf
<1>3. ASSUME NEW n \in 1 .. K
      PROVE  /\ c[n - 1] <= c[n]
             /\ busy[n][2] <= c[n] \/ interval[2] <= busy[n][1] \/ interval[2] <= c[n]
  <2>1. c[n] = IF Passes(interval, busy[n], c[n - 1]) THEN c[n - 1] ELSE Later(c[n - 1], busy[n][2])
    BY DEF CursorOf
  <2>2. c[n - 1] \in Nat /\ c[n] \in Nat
    <3>1. n - 1 \in 0 .. K /\ n \in 0 .. K
      BY <1>1
    <3> QED  BY <3>1, <1>2
  <2>3. busy[n][1] \in Nat /\ busy[n][2] \in Nat
    BY <1>1
  <2> QED  BY <1>1, <2>1, <2>2, <2>3 DEF Passes, Later
<1>4. ASSUME Bad # {} PROVE FALSE
  <2>1. PICK n \in Bad : \A j \in Bad : n <= j
    <3>1. Bad \in SUBSET Nat
      BY <1>1
    <3> QED  BY <1>4, <3>1, Smallest
  <2>2. CASE n = 0
    <3>1. c[0] \in Nat
      BY <1>1, <1>2
    <3>2. Good(0)
      BY <3>1
    <3> QED  BY <2>1, <2>2, <3>2
  <2>3. CASE n # 0
    <3>1. n \in 1 .. K /\ n - 1 \in 0 .. K /\ n \in 0 .. K /\ n - 1 < n
      BY <1>1, <2>1, <2>3
    <3>2. n - 1 \notin Bad
      BY <2>1, <3>1
    <3>3. Good(n - 1)
      BY <3>1, <3>2
    <3>4. c[n - 1] \in Nat /\ c[n] \in Nat /\ c[n - 1] <= c[n]
      BY <3>1, <1>2, <1>3
    <3>5. ASSUME NEW m \in 0 .. n PROVE c[m] <= c[n]
      <4>1. CASE m = n
        BY <4>1, <3>4
      <4>2. CASE m # n
        <5>1. m \in 0 .. n - 1 /\ m \in 0 .. K
          BY <4>2, <3>1
        <5>2. c[m] <= c[n - 1] /\ c[m] \in Nat
          BY <5>1, <3>3, <1>2
        <5> QED  BY <5>2, <3>4
      <4> QED  BY <4>1, <4>2
    <3>6. ASSUME NEW m \in 1 .. n
          PROVE  busy[m][2] <= c[n] \/ interval[2] <= busy[m][1] \/ interval[2] <= c[n]
      <4>1. CASE m = n
        BY <4>1, <3>1, <1>3
      <4>2. CASE m # n
        <5>1. m \in 1 .. n - 1 /\ m \in 1 .. K
          BY <4>2, <3>1
        <5>2. busy[m][2] <= c[n - 1] \/ interval[2] <= busy[m][1] \/ interval[2] <= c[n - 1]
          BY <5>1, <3>3
        <5>3. busy[m][1] \in Nat /\ busy[m][2] \in Nat
          BY <5>1, <1>1
        <5> QED  BY <5>2, <5>3, <3>4, <1>1
      <4> QED  BY <4>1, <4>2
    <3>7. Good(n)
      BY <3>5, <3>6
    <3> QED  BY <2>1, <3>7
  <2> QED  BY <2>2, <2>3
<1>5. Bad = {}
  BY <1>4
<1> QED  BY <1>5

\* What is left in front of a busy time, or at the end, if there is any.
GapIsLeft(interval, busy, n) ==
  LET cursor == Cursors(interval, busy)[n - 1]
  IN  IF n > Len(busy) THEN cursor < interval[2]
      ELSE ~Passes(interval, busy[n], cursor) /\ busy[n][1] > cursor
GapEnd(interval, busy, n) == IF n > Len(busy) THEN interval[2] ELSE busy[n][1]

\* ... and so does the gap it leaves.
LEMMA GapIs ==
  ASSUME NEW interval \in Intervals, NEW busy \in Seq(Intervals), NEW n \in 1 .. Len(busy) + 1
  PROVE  /\ Gap(interval, busy, n) = Kept(GapIsLeft(interval, busy, n),
                                          <<Cursors(interval, busy)[n - 1], GapEnd(interval, busy, n)>>)
         /\ GapIsLeft(interval, busy, n) \in BOOLEAN
<1>1. CASE n > Len(busy)
  BY <1>1 DEF Gap, GapIsLeft, GapEnd
<1>2. CASE ~ (n > Len(busy))
  BY <1>2 DEF Gap, GapIsLeft, GapEnd
<1> QED  BY <1>1, <1>2

\* One interval of _subtract leaves what is free of it, and all of that.
LEMMA CarveLeaves ==
  ASSUME NEW interval \in Intervals, interval[1] < interval[2],
         NEW B \in SUBSET Intervals, \A b \in B : b[1] < b[2],
         NEW busy \in Seq(Intervals),
         \A n \in 1 .. Len(busy) : busy[n] \in B,
         \A b \in B : \E n \in 1 .. Len(busy) : busy[n] = b,
         \A m, n \in 1 .. Len(busy) : m < n => busy[m][1] <= busy[n][1]
  PROVE  LeavesOf(Carve(interval, busy), interval, B)
<1> DEFINE N == Len(busy)
           c == Cursors(interval, busy)
           left(n) == GapIsLeft(interval, busy, n)
           end(n) == GapEnd(interval, busy, n)
           parts == [n \in 1 .. N + 1 |-> Gap(interval, busy, n)]
<1>1. /\ N \in Nat /\ interval[1] \in Nat /\ interval[2] \in Nat
      /\ \A n \in 1 .. N : busy[n][1] \in Nat /\ busy[n][2] \in Nat /\ busy[n][1] < busy[n][2]
  BY LenProperties, ElementOfSeq DEF Intervals
<1>2. CursorOf(c, interval, busy)
  BY CursorIs
<1>3. /\ \A n \in 0 .. N : c[n] \in Nat
      /\ c[0] = interval[1]
      /\ \A n \in 1 .. N : c[n] = IF Passes(interval, busy[n], c[n - 1]) THEN c[n - 1] ELSE Later(c[n - 1], busy[n][2])
  BY <1>2 DEF CursorOf
<1>4. \A n \in 0 .. N :
        /\ \A m \in 0 .. n : c[m] <= c[n]
        /\ \A m \in 1 .. n : busy[m][2] <= c[n] \/ interval[2] <= busy[m][1] \/ interval[2] <= c[n]
  <2> HIDE DEF c
  <2> QED  BY <1>2, CursorGoesOn
<1> HIDE DEF c
<1>5. \A n \in 1 .. N + 1 : n - 1 \in 0 .. N /\ c[n - 1] \in Nat
  BY <1>1, <1>3
<1>6. ASSUME NEW n \in 1 .. N + 1, left(n)
      PROVE  interval[1] <= c[n - 1] /\ c[n - 1] < end(n) /\ end(n) <= interval[2] /\ end(n) \in Nat
  <2>1. c[n - 1] \in Nat /\ c[0] <= c[n - 1]
    <3>1. n - 1 \in 0 .. N /\ 0 \in 0 .. n - 1
      BY <1>5
    <3> QED  BY <3>1, <1>4, <1>5
  <2>2. CASE n > N
    BY <1>1, <1>3, <1>6, <2>1, <2>2 DEF GapIsLeft, GapEnd, c
  <2>3. CASE ~ (n > N)
    <3>1. n \in 1 .. N
      BY <1>1, <2>3
    <3>2. busy[n][1] \in Nat /\ busy[n][2] \in Nat
      BY <3>1, <1>1
    <3>3. ~ Passes(interval, busy[n], c[n - 1]) /\ busy[n][1] > c[n - 1] /\ end(n) = busy[n][1]
      BY <1>6, <2>3 DEF GapIsLeft, GapEnd, c
    <3>4. busy[n][1] < interval[2]
      BY <3>2, <3>3, <1>1 DEF Passes
    <3> HIDE DEF end, left
    <3> QED  BY <1>1, <1>3, <2>1, <3>2, <3>3, <3>4
  <2> QED  BY <2>2, <2>3
<1>7. ASSUME NEW n \in 1 .. N, left(n) PROVE end(n) < busy[n][2] /\ busy[n][2] <= c[n]
  <2>1. ~ (n > N) /\ n \in 1 .. N + 1 /\ n \in 0 .. N
    BY <1>1
  <2>2. busy[n][1] \in Nat /\ busy[n][2] \in Nat /\ busy[n][1] < busy[n][2]
    BY <1>1
  <2>3. ~ Passes(interval, busy[n], c[n - 1]) /\ end(n) = busy[n][1]
    BY <1>7, <2>1 DEF GapIsLeft, GapEnd, c
  <2>4. c[n] = Later(c[n - 1], busy[n][2])
    BY <1>3, <2>3
  <2>5. c[n - 1] \in Nat /\ c[n] \in Nat
    BY <2>1, <1>3, <1>5
  <2> HIDE DEF end, left
  <2> QED  BY <2>2, <2>3, <2>4, <2>5 DEF Later
<1>8. ASSUME NEW n \in 1 .. N + 1
      PROVE  /\ parts[n] = Kept(left(n), <<c[n - 1], end(n)>>) /\ left(n) \in BOOLEAN
             /\ left(n) => <<c[n - 1], end(n)>> \in Intervals /\ c[n - 1] < end(n)
  <2>1. Gap(interval, busy, n) = Kept(left(n), <<c[n - 1], end(n)>>) /\ left(n) \in BOOLEAN
    BY GapIs DEF c
  <2>2. parts[n] = Gap(interval, busy, n)
    OBVIOUS
  <2>3. left(n) => <<c[n - 1], end(n)>> \in Intervals /\ c[n - 1] < end(n)
    <3> HIDE DEF left, end
    <3> QED  BY <1>5, <1>6 DEF Intervals
  <2> HIDE DEF left, end, parts
  <2> QED  BY <2>1, <2>2, <2>3
<1>9. Carve(interval, busy) = FlattenSeq(parts)
  BY DEF Carve
<1>10. DOMAIN parts = 1 .. N + 1
  OBVIOUS
<1>11. parts = [n \in 1 .. N + 1 |-> parts[n]]
  OBVIOUS
<1> HIDE DEF left, end, parts
<1>12. ASSUME NEW n \in 1 .. N + 1
       PROVE  /\ Neat(parts[n]) /\ parts[n] \in Seq(Intervals)
              /\ \A a \in 1 .. Len(parts[n]) : left(n) /\ parts[n][a] = <<c[n - 1], end(n)>> /\ a = 1
              /\ left(n) => 1 \in 1 .. Len(parts[n]) /\ parts[n][1] = <<c[n - 1], end(n)>>
  <2> DEFINE x == <<c[n - 1], end(n)>>
  <2>1. parts[n] = Kept(left(n), x) /\ left(n) \in BOOLEAN /\ (left(n) => x \in Intervals /\ x[1] < x[2])
    BY <1>8
  <2> HIDE DEF x
  <2>2. Neat(Kept(left(n), x))
    BY <2>1, NeatKept
  <2>3. /\ Kept(left(n), x) \in Seq(Intervals)
        /\ \A a \in 1 .. Len(Kept(left(n), x)) : left(n) /\ Kept(left(n), x)[a] = x /\ a = 1
        /\ left(n) => 1 \in 1 .. Len(Kept(left(n), x)) /\ Kept(left(n), x)[1] = x
    BY <2>1, KeptIs
  <2> QED  BY <2>1, <2>2, <2>3 DEF x
<1>13. ASSUME NEW k \in 1 .. N + 1, NEW l \in 1 .. N + 1, k < l, left(k), left(l)
       PROVE  end(k) <= c[l - 1]
  <2>1. k \in 1 .. N /\ k \in 0 .. l - 1 /\ l - 1 \in 0 .. N
    BY <1>1, <1>13
  <2>2. end(k) < busy[k][2] /\ busy[k][2] <= c[k]
    BY <1>7, <1>13, <2>1
  <2>3. c[k] <= c[l - 1]
    BY <1>4, <2>1
  <2>4. end(k) \in Nat /\ busy[k][2] \in Nat /\ c[k] \in Nat /\ c[l - 1] \in Nat
    BY <1>1, <1>3, <1>5, <1>6, <1>13, <2>1
  <2> QED  BY <2>2, <2>3, <2>4
<1> DEFINE r == FlattenSeq(parts)
<1>14. Neat(r) /\ Puts(r, parts, N + 1)
  <2>1. N + 1 \in Nat /\ parts \in [1 .. N + 1 -> Seq(Intervals)]
    BY <1>1, <1>11, <1>12
  <2>2. ASSUME NEW k \in 1 .. N + 1, NEW l \in 1 .. N + 1, k < l,
               NEW a \in 1 .. Len(parts[k]), NEW b \in 1 .. Len(parts[l])
        PROVE  parts[k][a][2] <= parts[l][b][1]
    <3>1. left(k) /\ parts[k][a] = <<c[k - 1], end(k)>>
      BY <1>12
    <3>2. left(l) /\ parts[l][b] = <<c[l - 1], end(l)>>
      BY <1>12
    <3>3. parts[k][a][2] = end(k) /\ parts[l][b][1] = c[l - 1]
      BY <3>1, <3>2
    <3> QED  BY <2>2, <3>1, <3>2, <3>3, <1>13
  <2> QED  BY <1>12, <2>1, <2>2, NeatTogether
<1> HIDE DEF r
<1>15. ASSUME NEW i \in 1 .. Len(r)
       PROVE  Inside(r[i], interval) /\ \A b \in B : Clear(r[i], b)
  <2>1. PICK n \in 1 .. N + 1 : \E a \in 1 .. Len(parts[n]) : r[i] = parts[n][a]
    BY <1>14 DEF Puts
  <2>2. left(n) /\ r[i] = <<c[n - 1], end(n)>>
    BY <1>12, <2>1
  <2>3. interval[1] <= c[n - 1] /\ c[n - 1] < end(n) /\ end(n) <= interval[2] /\ end(n) \in Nat
    BY <1>6, <2>2
  <2>4. ASSUME NEW b \in B PROVE end(n) <= b[1] \/ b[2] <= c[n - 1]
    <3>1. PICK k \in 1 .. N : busy[k] = b
      OBVIOUS
    <3>2. busy[k][1] \in Nat /\ busy[k][2] \in Nat
      BY <1>1
    <3>3. CASE k < n
      <4>1. k \in 1 .. n - 1 /\ n - 1 \in 0 .. N
        BY <3>3, <1>1
      <4>2. busy[k][2] <= c[n - 1] \/ interval[2] <= busy[k][1] \/ interval[2] <= c[n - 1]
        BY <4>1, <1>4
      <4>3. c[n - 1] \in Nat /\ interval[2] \in Nat
        BY <1>1, <1>5, <4>1
      <4> QED  BY ONLY <2>3, <3>1, <3>2, <4>2, <4>3
    <3>4. CASE ~ (k < n)
      <4>1. n \in 1 .. N /\ ~ (n > N)
        BY <3>4, <1>1
      <4>2. end(n) = busy[n][1]
        BY <4>1 DEF end, GapEnd
      <4>3. busy[n][1] <= busy[k][1]
        <5>1. CASE n = k
          BY <5>1, <3>2
        <5>2. CASE n # k
          <6>1. n < k
            BY <5>2, <3>4, <4>1
          <6> QED  BY <6>1, <4>1
        <5> QED  BY <5>1, <5>2
      <4> QED  BY <4>2, <4>3, <3>1
    <3> QED  BY <3>3, <3>4
  <2> QED  BY <2>2, <2>3, <2>4 DEF Inside, Clear
<1>16. ASSUME NEW x \in Intervals, x[1] < x[2], Inside(x, interval), \A b \in B : Clear(x, b)
       PROVE  \E i \in 1 .. Len(r) : Inside(x, r[i])
  <2> DEFINE Past == {n \in 0 .. N : c[n] > x[1]}
  <2>1. x[1] \in Nat /\ x[2] \in Nat /\ interval[1] <= x[1] /\ x[2] <= interval[2]
    BY <1>16 DEF Intervals, Inside
  <2>2. ASSUME NEW n \in 1 .. N + 1, left(n), c[n - 1] <= x[1], x[2] <= end(n)
        PROVE  \E i \in 1 .. Len(r) : Inside(x, r[i])
    <3>1. 1 \in 1 .. Len(parts[n]) /\ parts[n][1] = <<c[n - 1], end(n)>>
      BY <1>12, <2>2
    <3>2. PICK i \in 1 .. Len(r) : r[i] = parts[n][1]
      BY <1>14, <3>1 DEF Puts
    <3>3. r[i][1] = c[n - 1] /\ r[i][2] = end(n)
      BY <3>1, <3>2
    <3> QED  BY <2>2, <3>3 DEF Inside
  <2>3. CASE Past = {}
    <3>1. N + 1 \in 1 .. N + 1 /\ N + 1 > N /\ N + 1 - 1 = N /\ N \in 0 .. N
      BY <1>1
    <3>2. c[N] <= x[1] /\ c[N] \in Nat
      BY <2>1, <2>3, <3>1, <1>3
    <3>3. left(N + 1) /\ end(N + 1) = interval[2]
      BY <1>1, <1>16, <2>1, <3>1, <3>2 DEF left, end, GapIsLeft, GapEnd, c
    <3> QED  BY <2>1, <2>2, <3>1, <3>2, <3>3
  <2>4. CASE Past # {}
    <3>1. PICK n \in Past : \A j \in Past : n <= j
      <4>1. Past \in SUBSET Nat
        BY <1>1
      <4> QED  BY <2>4, <4>1, Smallest
    <3>2. n # 0
      BY <3>1, <1>3, <1>1, <2>1
    <3>3. n \in 1 .. N /\ n - 1 \in 0 .. N /\ n \in 0 .. N /\ n \in 1 .. N + 1 /\ n - 1 < n /\ ~ (n > N)
      BY <3>1, <3>2, <1>1
    <3>4. c[n - 1] \in Nat /\ c[n] \in Nat /\ c[n] > x[1] /\ c[n - 1] <= x[1]
      <4>1. n - 1 \notin Past
        BY <3>1, <3>3
      <4> QED  BY <4>1, <3>1, <3>3, <1>3, <2>1
    <3>5. busy[n][1] \in Nat /\ busy[n][2] \in Nat /\ busy[n] \in B
      BY <3>3, <1>1
    <3>6. ~ Passes(interval, busy[n], c[n - 1]) /\ c[n] = Later(c[n - 1], busy[n][2])
      <4>1. c[n] # c[n - 1]
        BY <3>4, <2>1
      <4> QED  BY <4>1, <3>3, <1>3
    <3>7. busy[n][2] > x[1]
      BY <3>4, <3>5, <3>6, <2>1 DEF Later
    <3>8. x[2] <= busy[n][1]
      BY <3>5, <3>7, <1>16, <2>1 DEF Clear
    <3>9. busy[n][1] > c[n - 1]
      BY <3>4, <3>5, <3>8, <1>16, <2>1
    <3>10. left(n) /\ end(n) = busy[n][1]
      BY <3>3, <3>6, <3>9 DEF left, end, GapIsLeft, GapEnd, c
    <3> QED  BY <2>2, <3>3, <3>4, <3>8, <3>10
  <2> QED  BY <2>3, <2>4
<1> QED  BY <1>9, <1>14, <1>15, <1>16 DEF LeavesOf, r

\* What is carved out of intervals in order is in order.
LEMMA SubtractLeaves ==
  ASSUME NEW intervals, Neat(intervals),
         NEW B \in SUBSET Intervals, IsFiniteSet(B), \A b \in B : b[1] < b[2]
  PROVE  Leaves(Subtract(intervals, B), intervals, B)
<1> DEFINE K == Len(intervals)
           busy == InOrder(B)
           parts == [k \in 1 .. K |-> Carve(intervals[k], busy)]
           r == FlattenSeq(parts)
<1>1. /\ intervals \in Seq(Intervals) /\ K \in Nat /\ DOMAIN intervals = 1 .. K
      /\ \A k \in 1 .. K : intervals[k] \in Intervals /\ intervals[k][1] < intervals[k][2]
      /\ \A k, l \in 1 .. K : k < l => intervals[k][2] <= intervals[l][1]
  BY LenProperties, ElementOfSeq DEF Neat
<1>2. /\ busy \in Seq(Intervals) /\ Len(busy) \in Nat
      /\ \A n \in 1 .. Len(busy) : busy[n] \in B
      /\ \A b \in B : \E n \in 1 .. Len(busy) : busy[n] = b
      /\ \A m, n \in 1 .. Len(busy) : m < n => busy[m][1] <= busy[n][1]
  BY Sorts
<1> HIDE DEF busy
<1>4. ASSUME NEW k \in 1 .. K PROVE LeavesOf(parts[k], intervals[k], B)
  <2>1. LeavesOf(Carve(intervals[k], busy), intervals[k], B)
    BY <1>1, <1>2, CarveLeaves
  <2> QED  BY <2>1
<1>5. Subtract(intervals, B) = r
  BY <1>1 DEF Subtract, busy
<1>6. parts = [k \in 1 .. K |-> parts[k]]
  OBVIOUS
<1> HIDE DEF parts
<1>7. parts \in [1 .. K -> Seq(Intervals)] /\ \A k \in 1 .. K : Neat(parts[k])
  BY <1>4, <1>6 DEF LeavesOf, Neat
<1>8. ASSUME NEW k \in 1 .. K, NEW a \in 1 .. Len(parts[k])
      PROVE  /\ parts[k][a] \in Intervals
             /\ intervals[k][1] <= parts[k][a][1] /\ parts[k][a][2] <= intervals[k][2]
  BY <1>4, <1>7, ElementOfSeq DEF LeavesOf, Inside
<1>9. ASSUME NEW k \in 1 .. K, NEW l \in 1 .. K, k < l,
             NEW a \in 1 .. Len(parts[k]), NEW b \in 1 .. Len(parts[l])
      PROVE  parts[k][a][2] <= parts[l][b][1]
  <2>1. parts[k][a][2] <= intervals[k][2] /\ intervals[l][1] <= parts[l][b][1] /\ intervals[k][2] <= intervals[l][1]
    BY <1>1, <1>8, <1>9
  <2>2. /\ parts[k][a][2] \in Nat /\ parts[l][b][1] \in Nat
        /\ intervals[k][2] \in Nat /\ intervals[l][1] \in Nat
    BY <1>1, <1>8 DEF Intervals
  <2> DEFINE before == parts[k][a][2]
             closes == intervals[k][2]
             opens == intervals[l][1]
             after == parts[l][b][1]
  <2>3. /\ before <= closes /\ opens <= after /\ closes <= opens
        /\ before \in Nat /\ after \in Nat /\ closes \in Nat /\ opens \in Nat
    BY <2>1, <2>2
  <2> HIDE DEF before, closes, opens, after
  <2>4. before <= after
    BY ONLY <2>3
  <2> QED  BY <2>4 DEF before, after
<1>10. Neat(r) /\ Puts(r, parts, K)
  BY <1>1, <1>7, <1>9, NeatTogether
<1> HIDE DEF r
<1>11. ASSUME NEW i \in 1 .. Len(r)
       PROVE  /\ \E k \in 1 .. K : Inside(r[i], intervals[k])
              /\ \A b \in B : Clear(r[i], b)
  <2>1. PICK k \in 1 .. K : \E a \in 1 .. Len(parts[k]) : r[i] = parts[k][a]
    BY <1>10 DEF Puts
  <2>2. Inside(r[i], intervals[k]) /\ \A b \in B : Clear(r[i], b)
    BY <1>4, <2>1 DEF LeavesOf
  <2> QED  BY <2>2
<1>12. ASSUME NEW x \in Intervals, x[1] < x[2], \A b \in B : Clear(x, b),
              NEW k \in 1 .. K, Inside(x, intervals[k])
       PROVE  \E i \in 1 .. Len(r) : Inside(x, r[i])
  <2>1. PICK a \in 1 .. Len(parts[k]) : Inside(x, parts[k][a])
    BY <1>4, <1>12 DEF LeavesOf
  <2>2. PICK i \in 1 .. Len(r) : r[i] = parts[k][a]
    BY <1>10 DEF Puts
  <2> QED  BY <2>1, <2>2
<1> QED  BY <1>5, <1>10, <1>11, <1>12 DEF Leaves

\* Days and times of the day.
LEMMA DaysAre ==
  ASSUME NEW D \in Nat \ {0}, NEW m \in Nat, NEW d \in Nat
  PROVE  /\ d * D \in Nat /\ m \div D \in Nat
         /\ (m \div D) * D <= m /\ m < (m \div D) * D + D
         /\ d * D <= m => d <= m \div D
         /\ m < d * D + D => m \div D <= d
         /\ \A e \in Nat : d < e => d * D + D <= e * D
<1>1. d * D \in Nat /\ m \div D \in Nat
  OBVIOUS
<1> DEFINE q == m \div D
<1>2. q * D <= m /\ m < q * D + D
  BY Z3
<1>3. ASSUME NEW a \in Nat, NEW b \in Nat, a < b PROVE a * D + D <= b * D
  <2>1. b - a - 1 \in Nat
    BY <1>3
  <2>2. (b - a - 1) * D \in Nat
    BY <2>1
  <2>3. (b - a - 1) * D = b * D - a * D - D
    BY Z3
  <2>4. a * D \in Nat /\ b * D \in Nat
    OBVIOUS
  <2> QED  BY <2>2, <2>3, <2>4
<1>4. q \in Nat /\ q * D \in Nat
  BY <1>1
<1> HIDE DEF q
<1>5. ASSUME d * D <= m PROVE d <= q
  <2>1. CASE q < d
    <3>1. q * D + D <= d * D
      BY <1>3, <1>4, <2>1
    <3> QED  BY <1>1, <1>2, <1>4, <1>5, <3>1
  <2> QED  BY <1>4, <2>1
<1>6. ASSUME m < d * D + D PROVE q <= d
  <2>1. CASE d < q
    <3>1. d * D + D <= q * D
      BY <1>3, <1>4, <2>1
    <3> QED  BY <1>1, <1>2, <1>4, <1>6, <3>1
  <2> QED  BY <1>4, <2>1
<1> QED  BY <1>1, <1>2, <1>3, <1>5, <1>6 DEF q

\* A time of a worked day.
LEMMA AtIs ==
  ASSUME NEW w, WeekType(w), NEW d \in w.days, WorkingTimeAssumption
  PROVE  /\ d \in Nat /\ d \in 0 .. LastDay
         /\ w.from \in Nat /\ w.to \in Nat /\ w.from < w.to /\ w.to <= DayLength
         /\ At(d, w.from) = d * DayLength + w.from /\ At(d, w.to) = d * DayLength + w.to
         /\ At(d, w.from) \in Nat /\ At(d, w.to) \in Nat /\ At(d, w.from) < At(d, w.to)
         /\ \A p \in w.protected :
              /\ p[1] \in Nat /\ p[2] \in Nat /\ p[1] < p[2] /\ p[2] < DayLength
              /\ At(d, p[1]) = d * DayLength + p[1] /\ At(d, p[2]) = d * DayLength + p[2]
              /\ At(d, p[1]) \in Nat /\ At(d, p[2]) \in Nat /\ At(d, p[1]) < At(d, p[2])
<1>1. DayLength \in Nat \ {0} /\ LastDay \in Nat
  BY DEF WorkingTimeAssumption
<1>2. d \in 0 .. LastDay /\ d \in Nat
  BY <1>1 DEF WeekType
<1>3. w.from \in Nat /\ w.to \in Nat /\ w.from < w.to /\ w.to <= DayLength
  BY <1>1 DEF WeekType
<1>4. d * DayLength \in Nat
  BY <1>1, <1>2
<1>5. ASSUME NEW p \in w.protected
      PROVE  p[1] \in Nat /\ p[2] \in Nat /\ p[1] < p[2] /\ p[2] < DayLength
  <2>1. p \in (0 .. DayLength - 1) \X (0 .. DayLength - 1) /\ p[1] < p[2]
    BY DEF WeekType
  <2>2. p[1] \in 0 .. DayLength - 1 /\ p[2] \in 0 .. DayLength - 1
    BY <2>1
  <2> QED  BY <1>1, <2>1, <2>2
<1>6. ASSUME NEW t \in Nat PROVE At(d, t) = d * DayLength + t /\ At(d, t) \in Nat
  BY <1>4 DEF At
<1>7. ASSUME NEW t \in Nat, NEW u \in Nat, t < u PROVE At(d, t) < At(d, u)
  BY <1>4, <1>7 DEF At
<1> QED  BY <1>2, <1>3, <1>5, <1>6, <1>7

\* What _clip leaves of an interval is what it has in common with another.
LEMMA ClipIs ==
  ASSUME NEW o \in Intervals, NEW s \in Nat, NEW e \in Nat
  PROVE  /\ Neat(Clip(o, s, e)) /\ Clip(o, s, e) \in Seq(Intervals)
         /\ \A a \in 1 .. Len(Clip(o, s, e)) :
              /\ Clip(o, s, e)[a] \in Intervals /\ Clip(o, s, e)[a][1] < Clip(o, s, e)[a][2]
              /\ Inside(Clip(o, s, e)[a], o) /\ Inside(Clip(o, s, e)[a], <<s, e>>)
         /\ \A x \in Intervals : x[1] < x[2] /\ Inside(x, o) /\ Inside(x, <<s, e>>) =>
              \E a \in 1 .. Len(Clip(o, s, e)) : Inside(x, Clip(o, s, e)[a])
         /\ Later(o[1], s) < Sooner(o[2], e) =>
              \E a \in 1 .. Len(Clip(o, s, e)) : Clip(o, s, e)[a] = <<Later(o[1], s), Sooner(o[2], e)>>
<1> DEFINE lo == Later(o[1], s)
           hi == Sooner(o[2], e)
           q == Clip(o, s, e)
<1>1. /\ o[1] \in Nat /\ o[2] \in Nat /\ lo \in Nat /\ hi \in Nat
      /\ o[1] <= lo /\ s <= lo /\ hi <= o[2] /\ hi <= e
  BY DEF Intervals, Later, Sooner
<1>2. \A m, n \in Nat : o[1] <= m /\ s <= m /\ n <= o[2] /\ n <= e => lo <= m /\ n <= hi
  BY <1>1 DEF Later, Sooner
<1>3. q = Kept(lo < hi, <<lo, hi>>)
  BY DEF Clip
<1> HIDE DEF lo, hi, q
<1>4. (lo < hi) \in BOOLEAN /\ <<lo, hi>> \in Intervals /\ <<lo, hi>>[1] = lo /\ <<lo, hi>>[2] = hi
  BY <1>1 DEF Intervals
<1>5. Neat(q)
  BY <1>3, <1>4, NeatKept
<1>6. /\ q \in Seq(Intervals)
      /\ \A a \in 1 .. Len(q) : lo < hi /\ q[a] = <<lo, hi>> /\ a = 1
      /\ lo < hi => 1 \in 1 .. Len(q) /\ q[1] = <<lo, hi>>
  BY <1>3, <1>4, KeptIs
<1>7. ASSUME NEW a \in 1 .. Len(q)
      PROVE  q[a] \in Intervals /\ q[a][1] < q[a][2] /\ Inside(q[a], o) /\ Inside(q[a], <<s, e>>)
  BY <1>1, <1>4, <1>6 DEF Inside
<1>8. ASSUME NEW x \in Intervals, x[1] < x[2], Inside(x, o), Inside(x, <<s, e>>)
      PROVE  \E a \in 1 .. Len(q) : Inside(x, q[a])
  <2>1. x[1] \in Nat /\ x[2] \in Nat
    BY DEF Intervals
  <2>2. lo <= x[1] /\ x[2] <= hi
    BY <1>2, <1>8, <2>1 DEF Inside
  <2>3. 1 \in 1 .. Len(q) /\ q[1] = <<lo, hi>>
    BY <1>1, <1>6, <1>8, <2>1, <2>2
  <2>4. Inside(x, q[1])
    BY <2>2, <2>3 DEF Inside
  <2> QED  BY <2>3, <2>4
<1> QED  BY <1>5, <1>6, <1>7, <1>8 DEF q, lo, hi

\* The working hours of a day, and its protected times.
HoursOf(w, d) == <<At(d, w.from), At(d, w.to)>>
KeptFree(d, p) == <<At(d, p[1]), At(d, p[2])>>

\* Windows has the working hours between two times, day after day.
LEMMA WindowsAre ==
  ASSUME WorkingTimeAssumption, NEW w, WeekType(w), NEW s \in Nat, NEW e \in Nat
  PROVE  /\ Neat(Windows(w, s, e))
         /\ \A i \in 1 .. Len(Windows(w, s, e)) :
              /\ Inside(Windows(w, s, e)[i], <<s, e>>)
              /\ \E d \in w.days : Inside(Windows(w, s, e)[i], HoursOf(w, d))
         /\ \A x \in Intervals : \A d \in WorkDays(w, s, e) :
              x[1] < x[2] /\ Inside(x, HoursOf(w, d)) /\ Inside(x, <<s, e>>) =>
                \E i \in 1 .. Len(Windows(w, s, e)) : Inside(x, Windows(w, s, e)[i])
<1> DEFINE K == LastDay + 1
           days == WorkDays(w, s, e)
           parts == [k \in 1 .. K |-> IF k - 1 \in days THEN Clip(<<At(k - 1, w.from), At(k - 1, w.to)>>, s, e)
                                      ELSE <<>>]
           r == FlattenSeq(parts)
<1>1. K \in Nat /\ DayLength \in Nat \ {0} /\ LastDay \in Nat
  BY DEF WorkingTimeAssumption
<1>2. days \subseteq w.days
  BY DEF WorkDays
<1>3. \A d \in w.days : HoursOf(w, d) \in Intervals /\ d \in 0 .. LastDay
  BY AtIs DEF HoursOf, Intervals
<1>4. Windows(w, s, e) = r
  BY DEF Windows
<1> HIDE DEF days
<1>5. ASSUME NEW k \in 1 .. K, k - 1 \in days PROVE parts[k] = Clip(HoursOf(w, k - 1), s, e)
  BY <1>5 DEF HoursOf
<1>6. ASSUME NEW k \in 1 .. K, k - 1 \notin days PROVE parts[k] = <<>>
  BY <1>6
<1>7. parts = [k \in 1 .. K |-> parts[k]]
  OBVIOUS
<1> HIDE DEF parts
<1>8. ASSUME NEW k \in 1 .. K
      PROVE  /\ Neat(parts[k]) /\ parts[k] \in Seq(Intervals)
             /\ \A a \in 1 .. Len(parts[k]) :
                  /\ k - 1 \in days /\ parts[k][a] \in Intervals
                  /\ Inside(parts[k][a], HoursOf(w, k - 1)) /\ Inside(parts[k][a], <<s, e>>)
  <2>1. CASE k - 1 \in days
    BY <1>2, <1>3, <1>5, <2>1, ClipIs
  <2>2. CASE k - 1 \notin days
    <3>1. parts[k] = <<>> /\ <<>> \in Seq(Intervals) /\ Len(<<>>) = 0
      BY <1>6, <2>2, EmptySeq
    <3> QED  BY <3>1 DEF Neat
  <2> QED  BY <2>1, <2>2
<1>9. ASSUME NEW k \in 1 .. K, NEW l \in 1 .. K, k < l,
             NEW a \in 1 .. Len(parts[k]), NEW b \in 1 .. Len(parts[l])
      PROVE  parts[k][a][2] <= parts[l][b][1]
  <2> DEFINE d == k - 1
             f == l - 1
  <2>1. d \in w.days /\ f \in w.days
    BY <1>2, <1>8
  <2>2. d \in Nat /\ f \in Nat /\ d < f
    BY <1>1, <1>9
  <2>3. parts[k][a] \in Intervals /\ Inside(parts[k][a], HoursOf(w, d))
    BY <1>8
  <2>4. parts[l][b] \in Intervals /\ Inside(parts[l][b], HoursOf(w, f))
    BY <1>8
  <2> HIDE DEF d, f
  <2>5. /\ At(d, w.to) = d * DayLength + w.to /\ w.to <= DayLength /\ w.to \in Nat
        /\ At(f, w.from) = f * DayLength + w.from /\ w.from \in Nat
    BY <2>1, AtIs
  <2>6. d * DayLength + DayLength <= f * DayLength /\ d * DayLength \in Nat /\ f * DayLength \in Nat
    BY <1>1, <2>2, DaysAre
  <2>7. parts[k][a][2] <= At(d, w.to) /\ At(f, w.from) <= parts[l][b][1]
    BY <2>3, <2>4 DEF Inside, HoursOf
  <2>8. parts[k][a][2] \in Nat /\ parts[l][b][1] \in Nat
    BY <2>3, <2>4 DEF Intervals
  <2> DEFINE m == d * DayLength
             n == f * DayLength
             before == parts[k][a][2]
             closes == w.to
             opens == w.from
             after == parts[l][b][1]
  <2>9. /\ m + DayLength <= n /\ m \in Nat /\ n \in Nat /\ closes <= DayLength
        /\ DayLength \in Nat /\ closes \in Nat /\ opens \in Nat
        /\ before <= m + closes /\ n + opens <= after /\ before \in Nat /\ after \in Nat
    BY <1>1, <2>5, <2>6, <2>7, <2>8
  <2> HIDE DEF m, n, before, closes, opens, after
  <2>10. before <= after
    BY ONLY <2>9
  <2> QED  BY <2>10 DEF before, after
<1>10. Neat(r) /\ Puts(r, parts, K)
  <2>1. parts \in [1 .. K -> Seq(Intervals)]
    BY <1>7, <1>8
  <2> HIDE DEF K
  <2> QED  BY <1>1, <1>8, <1>9, <2>1, NeatTogether
<1> HIDE DEF r
<1>11. ASSUME NEW i \in 1 .. Len(r)
       PROVE  Inside(r[i], <<s, e>>) /\ \E d \in w.days : Inside(r[i], HoursOf(w, d))
  <2>1. PICK k \in 1 .. K : \E a \in 1 .. Len(parts[k]) : r[i] = parts[k][a]
    BY <1>10 DEF Puts
  <2>2. k - 1 \in w.days /\ Inside(r[i], HoursOf(w, k - 1)) /\ Inside(r[i], <<s, e>>)
    BY <1>2, <1>8, <2>1
  <2> QED  BY <2>2
<1>12. ASSUME NEW x \in Intervals, NEW d \in days, x[1] < x[2], Inside(x, HoursOf(w, d)), Inside(x, <<s, e>>)
       PROVE  \E i \in 1 .. Len(r) : Inside(x, r[i])
  <2>1. d \in w.days /\ d \in 0 .. LastDay /\ HoursOf(w, d) \in Intervals
    BY <1>2, <1>3
  <2>2. d + 1 \in 1 .. K /\ (d + 1) - 1 = d
    BY <1>1, <2>1
  <2> DEFINE k == d + 1
  <2>3. parts[k] = Clip(HoursOf(w, d), s, e)
    BY <1>5, <2>2
  <2>4. PICK a \in 1 .. Len(parts[k]) : Inside(x, parts[k][a])
    BY <1>12, <2>1, <2>3, ClipIs
  <2>5. PICK i \in 1 .. Len(r) : r[i] = parts[k][a]
    BY <1>10, <2>2 DEF Puts
  <2> QED  BY <2>4, <2>5
<1> QED  BY <1>4, <1>10, <1>11, <1>12 DEF days

\* Between two times, the protected times of protected_intervals are clear exactly
\* where those of every worked day are.
LEMMA ProtectedAre ==
  ASSUME WorkingTimeAssumption, NEW w, WeekType(w), NEW s \in Nat, NEW e \in Nat
  PROVE  /\ Protected(w, s, e) \in SUBSET Intervals /\ IsFiniteSet(Protected(w, s, e))
         /\ \A b \in Protected(w, s, e) : b[1] < b[2]
         /\ \A x \in Intervals : x[1] < x[2] /\ Inside(x, <<s, e>>) =>
              ((\A b \in Protected(w, s, e) : Clear(x, b))
                 <=> \A d \in w.days : \A p \in w.protected : Clear(x, KeptFree(d, p)))
<1> DEFINE P == Protected(w, s, e)
<1>1. DayLength \in Nat \ {0}
  BY DEF WorkingTimeAssumption
<1>2. \A d \in w.days : \A p \in w.protected : KeptFree(d, p) \in Intervals
  BY AtIs DEF KeptFree, Intervals
<1>3. \A b : b \in P <=> \E d \in WorkDays(w, s, e) : \E p \in w.protected :
                           \E a \in 1 .. Len(Clip(KeptFree(d, p), s, e)) : b = Clip(KeptFree(d, p), s, e)[a]
  <2>1. ASSUME NEW d \in WorkDays(w, s, e), NEW p \in w.protected
        PROVE  \A b : b \in ToSet(Clip(KeptFree(d, p), s, e)) <=>
                        \E a \in 1 .. Len(Clip(KeptFree(d, p), s, e)) : b = Clip(KeptFree(d, p), s, e)[a]
    <3>1. d \in w.days
      BY DEF WorkDays
    <3>2. Clip(KeptFree(d, p), s, e) \in Seq(Intervals)
      BY <1>2, <3>1, ClipIs
    <3>3. DOMAIN Clip(KeptFree(d, p), s, e) = 1 .. Len(Clip(KeptFree(d, p), s, e))
      BY <3>2, LenProperties
    <3> QED  BY <3>3 DEF ToSet
  <2>2. P = UNION {UNION {ToSet(Clip(KeptFree(d, p), s, e)) : p \in w.protected} : d \in WorkDays(w, s, e)}
    BY DEF Protected, KeptFree
  <2>3. \A b : b \in P <=> \E d \in WorkDays(w, s, e) : \E p \in w.protected :
                           b \in ToSet(Clip(KeptFree(d, p), s, e))
    <3> HIDE DEF P
    <3> QED  BY <2>2
  <2> HIDE DEF P
  <2> QED  BY <2>1, <2>3
<1> HIDE DEF P
<1>4. ASSUME NEW b \in P
      PROVE  /\ b \in Intervals /\ b[1] < b[2] /\ Inside(b, <<s, e>>)
             /\ \E d \in w.days : \E p \in w.protected : Inside(b, KeptFree(d, p))
  <2>1. PICK d \in WorkDays(w, s, e), p \in w.protected :
          \E a \in 1 .. Len(Clip(KeptFree(d, p), s, e)) : b = Clip(KeptFree(d, p), s, e)[a]
    BY <1>3
  <2>2. d \in w.days
    BY DEF WorkDays
  <2>3. b \in Intervals /\ b[1] < b[2] /\ Inside(b, KeptFree(d, p)) /\ Inside(b, <<s, e>>)
    BY <1>2, <2>1, <2>2, ClipIs
  <2> QED  BY <2>2, <2>3
<1>5. IsFiniteSet(P)
  <2>1. IsFiniteSet(0 .. e)
    BY FS_Interval
  <2>2. IsFiniteSet((0 .. e) \X (0 .. e))
    BY <2>1, FS_Product
  <2>3. P \subseteq (0 .. e) \X (0 .. e)
    <3> SUFFICES ASSUME NEW b \in P PROVE b \in (0 .. e) \X (0 .. e)
      OBVIOUS
    <3>1. b = <<b[1], b[2]>> /\ b[1] \in Nat /\ b[2] \in Nat /\ b[1] < b[2] /\ b[2] <= e
      BY <1>4 DEF Intervals, Inside
    <3>2. b[1] \in 0 .. e /\ b[2] \in 0 .. e
      BY <3>1
    <3> QED  BY <3>1, <3>2
  <2> QED  BY <2>2, <2>3, FS_Subset
<1>6. ASSUME NEW x \in Intervals, x[1] < x[2],
             \A d \in w.days : \A p \in w.protected : Clear(x, KeptFree(d, p)), NEW b \in P
      PROVE  Clear(x, b)
  <2>1. PICK d \in w.days, p \in w.protected : Inside(b, KeptFree(d, p))
    BY <1>4
  <2>2. Clear(x, KeptFree(d, p)) /\ KeptFree(d, p) \in Intervals /\ b \in Intervals
    BY <1>2, <1>4, <1>6
  <2> QED  BY <2>1, <2>2 DEF Clear, Inside, Intervals
<1>7. ASSUME NEW x \in Intervals, x[1] < x[2], Inside(x, <<s, e>>), \A b \in P : Clear(x, b),
             NEW d \in w.days, NEW p \in w.protected
      PROVE  Clear(x, KeptFree(d, p))
  <2> DEFINE o == KeptFree(d, p)
  <2>1. /\ x[1] \in Nat /\ x[2] \in Nat /\ o \in Intervals /\ o[1] \in Nat /\ o[2] \in Nat
        /\ s <= x[1] /\ x[2] <= e
    BY <1>2, <1>7 DEF Intervals, Inside
  <2>2. /\ d \in Nat /\ p[1] \in Nat /\ p[2] \in Nat /\ p[2] < DayLength
        /\ o[1] = d * DayLength + p[1] /\ o[2] = d * DayLength + p[2] /\ o[1] < o[2]
    BY AtIs DEF KeptFree
  <2> HIDE DEF o
  <2>3. ASSUME ~ Clear(x, o) PROVE FALSE
    <3>1. o[1] < x[2] /\ x[1] < o[2]
      BY <2>1, <2>3 DEF Clear
    <3>2. Later(o[1], s) < Sooner(o[2], e)
      BY <1>7, <2>1, <2>2, <3>1 DEF Later, Sooner
    <3>3. d * DayLength \in Nat
      BY <1>1, <2>2
    <3>4. d * DayLength <= e /\ s < d * DayLength + DayLength
      BY <1>1, <2>1, <2>2, <3>1, <3>3
    <3>5. d <= e \div DayLength
      BY <1>1, <2>2, <3>4, DaysAre
    <3>6. s \div DayLength <= d
      BY <1>1, <2>2, <3>4, DaysAre
    <3>7. d \in WorkDays(w, s, e)
      BY <3>5, <3>6 DEF WorkDays
    <3>8. PICK a \in 1 .. Len(Clip(o, s, e)) : Clip(o, s, e)[a] = <<Later(o[1], s), Sooner(o[2], e)>>
      BY <2>1, <3>2, ClipIs
    <3> DEFINE b == <<Later(o[1], s), Sooner(o[2], e)>>
    <3>9. b \in P
      BY <1>3, <3>7, <3>8 DEF o
    <3>10. Clear(x, b)
      BY <1>7, <3>9
    <3>11. x[2] <= Later(o[1], s) \/ Sooner(o[2], e) <= x[1]
      BY <3>10 DEF Clear
    <3> QED  BY <1>7, <2>1, <3>1, <3>11 DEF Later, Sooner
  <2> QED  BY <2>3 DEF o
<1> QED  BY <1>4, <1>5, <1>6, <1>7 DEF P

\* working_time_problem sees none in what lies in the hours of a worked day and
\* clear of its protected times.
LEMMA NoProblemIs ==
  ASSUME WorkingTimeAssumption, NEW w, WeekType(w), NEW x \in Intervals, x[1] < x[2]
  PROVE  ~ Problem(w, x[1], x[2])
           <=> /\ \E d \in w.days : Inside(x, HoursOf(w, d))
               /\ \A d \in w.days : \A p \in w.protected : Clear(x, KeptFree(d, p))
<1> DEFINE onDay == x[1] \div DayLength
           P == Protected(w, x[1], x[2])
<1>1. x[1] \in Nat /\ x[2] \in Nat /\ x = <<x[1], x[2]>>
  BY DEF Intervals
<1>2. DayLength \in Nat \ {0}
  BY DEF WorkingTimeAssumption
<1>3. P \in SUBSET Intervals /\ ((\A b \in P : Clear(x, b))
                               <=> \A d \in w.days : \A p \in w.protected : Clear(x, KeptFree(d, p)))
  <2>1. Inside(x, <<x[1], x[2]>>)
    BY <1>1 DEF Inside
  <2> QED  BY <1>1, <2>1, ProtectedAre
<1>4. (\A b \in P : Clear(x, b)) <=> ~ \E p \in P : x[1] < p[2] /\ p[1] < x[2]
  <2>1. \A b \in P : b[1] \in Nat /\ b[2] \in Nat
    BY <1>3 DEF Intervals
  <2> HIDE DEF P
  <2> QED  BY <1>1, <2>1 DEF Clear
<1>5. ASSUME NEW d \in w.days, Inside(x, HoursOf(w, d)) PROVE d = onDay
  <2>1. /\ d \in Nat /\ w.from \in Nat /\ w.to \in Nat /\ w.to <= DayLength
        /\ At(d, w.from) = d * DayLength + w.from /\ At(d, w.to) = d * DayLength + w.to
    BY AtIs
  <2>2. At(d, w.from) <= x[1] /\ x[2] <= At(d, w.to)
    BY <1>5 DEF Inside, HoursOf
  <2> DEFINE m == d * DayLength
  <2>3. m \in Nat
    BY <1>2, <2>1
  <2>4. m <= x[1] /\ x[1] < m + DayLength
    <3>1. m + w.from <= x[1] /\ x[2] <= m + w.to
      BY <2>1, <2>2
    <3> HIDE DEF m
    <3> QED  BY <1>1, <1>2, <2>1, <2>3, <3>1
  <2>5. d <= onDay /\ onDay <= d /\ onDay \in Nat
    BY <1>1, <1>2, <2>1, <2>4, DaysAre
  <2> QED  BY <2>1, <2>5
<1>6. Problem(w, x[1], x[2])
        <=> \/ onDay \notin w.days \/ x[1] < At(onDay, w.from) \/ x[2] > At(onDay, w.to)
            \/ \E p \in P : x[1] < p[2] /\ p[1] < x[2]
  BY DEF Problem
<1>7. ASSUME onDay \in w.days
      PROVE  Inside(x, HoursOf(w, onDay)) <=> ~ (x[1] < At(onDay, w.from) \/ x[2] > At(onDay, w.to))
  <2>1. At(onDay, w.from) \in Nat /\ At(onDay, w.to) \in Nat
    BY <1>7, AtIs
  <2> HIDE DEF onDay
  <2> QED  BY <1>1, <2>1 DEF Inside, HoursOf
<1> HIDE DEF onDay, P
<1>8. (\E d \in w.days : Inside(x, HoursOf(w, d)))
        <=> ~ (onDay \notin w.days \/ x[1] < At(onDay, w.from) \/ x[2] > At(onDay, w.to))
  BY <1>5, <1>7
<1> QED  BY <1>3, <1>4, <1>6, <1>8

\* find_free_blocks offers blocks in order and apart that can be booked and are long
\* enough, and every time that could be booked lies in one of them.
LEMMA FreeBlocksAre ==
  ASSUME WorkingTimeAssumption, NEW w, WeekType(w), NEW o \in Intervals,
         NEW B \in SUBSET Intervals, IsFiniteSet(B), \A b \in B : b[1] < b[2]
  PROVE  LET F == FreeBlocks(w, o[1], o[2], B)
             bookable(x) == ~ Problem(w, x[1], x[2]) /\ \A b \in B : Clear(x, b)
         IN  /\ Neat(F)
             /\ \A i \in 1 .. Len(F) : Inside(F[i], o) /\ bookable(F[i])
             /\ \A x \in Intervals :
                  x[1] < x[2] /\ x[2] - x[1] >= MIN_MINUTES /\ Inside(x, o) /\ bookable(x) =>
                    \E i \in 1 .. Len(F) : Inside(x, F[i])
<1> DEFINE V == Windows(w, o[1], o[2])
           P == Protected(w, o[1], o[2])
           W == WorkWindows(w, o[1], o[2])
           free == Subtract(W, B)
           long(k) == free[k][2] - free[k][1] >= MIN_MINUTES
           parts == [k \in 1 .. Len(free) |-> Kept(long(k), free[k])]
           F == FlattenSeq(parts)
           raw(x) == \A d \in w.days : \A p \in w.protected : Clear(x, KeptFree(d, p))
<1>1. o[1] \in Nat /\ o[2] \in Nat /\ DayLength \in Nat \ {0} /\ MIN_MINUTES \in Nat
  BY DEF WorkingTimeAssumption, Intervals
<1>2. /\ Neat(V)
      /\ \A i \in 1 .. Len(V) :
           Inside(V[i], <<o[1], o[2]>>) /\ \E d \in w.days : Inside(V[i], HoursOf(w, d))
      /\ \A x \in Intervals : \A d \in WorkDays(w, o[1], o[2]) :
           x[1] < x[2] /\ Inside(x, HoursOf(w, d)) /\ Inside(x, <<o[1], o[2]>>) =>
             \E i \in 1 .. Len(V) : Inside(x, V[i])
  BY <1>1, WindowsAre
<1>3. /\ P \in SUBSET Intervals /\ IsFiniteSet(P) /\ \A b \in P : b[1] < b[2]
      /\ \A x \in Intervals : x[1] < x[2] /\ Inside(x, <<o[1], o[2]>>) =>
           ((\A b \in P : Clear(x, b)) <=> raw(x))
  BY <1>1, ProtectedAre
<1>4. \A x : Inside(x, <<o[1], o[2]>>) <=> Inside(x, o)
  BY DEF Inside
<1>5. W = Subtract(V, P)
  BY DEF WorkWindows
<1> HIDE DEF V, P, W
<1>6. Leaves(W, V, P)
  BY <1>2, <1>3, <1>5, SubtractLeaves
<1>7. Leaves(free, W, B)
  BY <1>6, SubtractLeaves DEF Leaves
<1>8. FreeBlocks(w, o[1], o[2], B) = F
  <2>1. DOMAIN free = 1 .. Len(free)
    BY <1>7, LenProperties DEF Leaves, Neat
  <2>2. FreeBlocks(w, o[1], o[2], B) = FlattenSeq([k \in DOMAIN free |-> Kept(long(k), free[k])])
    BY Zenon DEF FreeBlocks, W
  <2> HIDE DEF free
  <2> QED  BY <2>1, <2>2
<1> HIDE DEF free
<1>9. /\ free \in Seq(Intervals) /\ Len(free) \in Nat
      /\ \A k \in 1 .. Len(free) : free[k] \in Intervals /\ free[k][1] < free[k][2]
      /\ \A k, l \in 1 .. Len(free) : k < l => free[k][2] <= free[l][1]
  BY <1>7, LenProperties, ElementOfSeq DEF Leaves, Neat
<1>10. \A k \in 1 .. Len(free) : parts[k] = Kept(long(k), free[k]) /\ long(k) \in BOOLEAN
  OBVIOUS
<1>11. parts = [k \in 1 .. Len(free) |-> parts[k]]
  OBVIOUS
<1> HIDE DEF parts, long
<1>12. ASSUME NEW k \in 1 .. Len(free)
       PROVE  /\ Neat(parts[k]) /\ parts[k] \in Seq(Intervals)
              /\ \A a \in 1 .. Len(parts[k]) : long(k) /\ parts[k][a] = free[k]
              /\ long(k) => 1 \in 1 .. Len(parts[k]) /\ parts[k][1] = free[k]
  <2>1. Neat(Kept(long(k), free[k]))
    BY <1>9, <1>10, NeatKept
  <2>2. /\ Kept(long(k), free[k]) \in Seq(Intervals)
        /\ \A a \in 1 .. Len(Kept(long(k), free[k])) : long(k) /\ Kept(long(k), free[k])[a] = free[k] /\ a = 1
        /\ long(k) => 1 \in 1 .. Len(Kept(long(k), free[k])) /\ Kept(long(k), free[k])[1] = free[k]
    BY <1>9, <1>10, KeptIs
  <2> QED  BY <1>10, <2>1, <2>2
<1>13. Neat(F) /\ Puts(F, parts, Len(free))
  <2>1. parts \in [1 .. Len(free) -> Seq(Intervals)]
    BY <1>11, <1>12
  <2>2. \A k, l \in 1 .. Len(free) : k < l =>
          \A a \in 1 .. Len(parts[k]), b \in 1 .. Len(parts[l]) : parts[k][a][2] <= parts[l][b][1]
    BY <1>9, <1>12
  <2> QED  BY <1>9, <1>12, <2>1, <2>2, NeatTogether
<1> HIDE DEF F
<1>14. ASSUME NEW i \in 1 .. Len(F)
       PROVE  Inside(F[i], o) /\ ~ Problem(w, F[i][1], F[i][2]) /\ \A b \in B : Clear(F[i], b)
  <2>1. PICK k \in 1 .. Len(free) : F[i] = free[k]
    <3>1. PICK k \in 1 .. Len(free) : \E a \in 1 .. Len(parts[k]) : F[i] = parts[k][a]
      BY <1>13 DEF Puts
    <3> QED  BY <1>12, <3>1
  <2> DEFINE x == F[i]
  <2>2. x \in Intervals /\ x[1] \in Nat /\ x[2] \in Nat /\ x[1] < x[2]
    BY <1>9, <2>1 DEF Intervals
  <2>3. (\A b \in B : Clear(x, b)) /\ \E j \in 1 .. Len(W) : Inside(x, W[j])
    BY <1>7, <2>1 DEF Leaves
  <2> HIDE DEF x
  <2>4. PICK j \in 1 .. Len(W) : Inside(x, W[j])
    BY <2>3
  <2>5. /\ W[j] \in Intervals /\ \A b \in P : Clear(W[j], b)
        /\ \E v \in 1 .. Len(V) : Inside(W[j], V[v])
    BY <1>6, ElementOfSeq DEF Leaves, Neat
  <2>6. PICK v \in 1 .. Len(V) : Inside(W[j], V[v])
    BY <2>5
  <2>7. PICK d \in w.days : Inside(V[v], HoursOf(w, d)) /\ Inside(V[v], o)
    BY <1>2, <1>4
  <2>8. V[v] \in Intervals /\ HoursOf(w, d) \in Intervals
    BY <1>2, AtIs, ElementOfSeq DEF Neat, HoursOf, Intervals
  <2>9. Inside(x, HoursOf(w, d)) /\ Inside(x, o)
    BY <2>2, <2>4, <2>5, <2>6, <2>7, <2>8, InsideGoesOn
  <2>10. \A b \in P : Clear(x, b)
    BY <1>3, <2>2, <2>4, <2>5, InsideGoesOn
  <2>11. raw(x)
    BY <1>3, <1>4, <2>2, <2>9, <2>10
  <2>12. ~ Problem(w, x[1], x[2])
    <3> HIDE DEF raw
    <3> QED  BY <2>2, <2>9, <2>11, NoProblemIs DEF raw
  <2> QED  BY <2>3, <2>9, <2>12 DEF x
<1>15. ASSUME NEW x \in Intervals, x[1] < x[2], x[2] - x[1] >= MIN_MINUTES, Inside(x, o),
              ~ Problem(w, x[1], x[2]), \A b \in B : Clear(x, b)
       PROVE  \E i \in 1 .. Len(F) : Inside(x, F[i])
  <2>1. raw(x) /\ \E d \in w.days : Inside(x, HoursOf(w, d))
    BY <1>15, NoProblemIs
  <2>2. PICK d \in w.days : Inside(x, HoursOf(w, d))
    BY <2>1
  <2>3. x[1] \in Nat /\ x[2] \in Nat /\ o[1] <= x[1] /\ x[2] <= o[2]
    BY <1>15 DEF Intervals, Inside
  <2>4. d \in WorkDays(w, o[1], o[2])
    <3> DEFINE m == d * DayLength
    <3>1. /\ d \in Nat /\ w.from \in Nat /\ w.to \in Nat /\ w.to <= DayLength
          /\ At(d, w.from) = m + w.from /\ At(d, w.to) = m + w.to
      BY AtIs
    <3>2. m \in Nat
      BY <1>1, <3>1
    <3>3. m <= o[2] /\ o[1] < m + DayLength
      <4>1. m + w.from <= x[1] /\ x[2] <= m + w.to
        BY <2>2, <3>1 DEF Inside, HoursOf
      <4> HIDE DEF m
      <4> QED  BY <1>1, <1>15, <2>3, <3>1, <3>2, <4>1
    <3>4. d <= o[2] \div DayLength
      BY <1>1, <3>1, <3>3, DaysAre
    <3>5. o[1] \div DayLength <= d
      BY <1>1, <3>1, <3>3, DaysAre
    <3> QED  BY <3>4, <3>5 DEF WorkDays
  <2>5. PICK v \in 1 .. Len(V) : Inside(x, V[v])
    BY <1>2, <1>4, <1>15, <2>2, <2>4
  <2>6. \A b \in P : Clear(x, b)
    BY <1>3, <1>4, <1>15, <2>1
  <2>7. PICK j \in 1 .. Len(W) : Inside(x, W[j])
    BY <1>6, <1>15, <2>5, <2>6 DEF Leaves
  <2>8. PICK k \in 1 .. Len(free) : Inside(x, free[k])
    BY <1>7, <1>15, <2>7 DEF Leaves
  <2>9. long(k)
    BY <1>1, <1>9, <1>15, <2>8, InsideGoesOn DEF long
  <2>10. 1 \in 1 .. Len(parts[k]) /\ parts[k][1] = free[k]
    BY <1>12, <2>9
  <2>11. PICK i \in 1 .. Len(F) : F[i] = parts[k][1]
    BY <1>13, <2>10 DEF Puts
  <2> QED  BY <2>8, <2>10, <2>11
<1> QED  BY <1>8, <1>13, <1>14, <1>15 DEF F

\* What a question is about, and that the answer is find_free_blocks'.
WorkingTimeInv ==
  /\ week \in Weeks /\ busyTimes \in BusyTimes /\ askedFor \in Spans
  /\ answer.given => answer.blocks = FreeBlocks(week, askedFor[1], askedFor[2], busyTimes)

LEMMA WorkingTimeStart == WorkingTimeInit => WorkingTimeInv
BY DEF WorkingTimeInit, WorkingTimeInv

LEMMA WorkingTimeStep == WorkingTimeInv /\ [FindFreeBlocks]_workingTimeVars => WorkingTimeInv'
<1> SUFFICES ASSUME WorkingTimeInv, [FindFreeBlocks]_workingTimeVars PROVE WorkingTimeInv'
  OBVIOUS
<1>1. CASE FindFreeBlocks
  BY <1>1 DEF FindFreeBlocks, WorkingTimeInv
<1>2. CASE UNCHANGED workingTimeVars
  BY <1>2 DEF workingTimeVars, WorkingTimeInv
<1> QED  BY <1>1, <1>2

LEMMA WorkingTimeShows == WorkingTimeInv => BlocksAreBookable
<1> SUFFICES ASSUME WorkingTimeInv, answer.given PROVE BlocksAreBookable
  BY DEF BlocksAreBookable
<1> DEFINE F == answer.blocks
           o == askedFor
           B == busyTimes
           bookable(x) == ~ Problem(week, x[1], x[2]) /\ \A b \in B : Clear(x, b)
<1>1. WeekType(week) /\ DayLength \in Nat \ {0} /\ LastDay \in Nat /\ B \subseteq Spans /\ o \in Spans
  BY WorkingTimeAssumption DEF WorkingTimeAssumption, WorkingTimeInv
<1>2. Horizon \subseteq Nat /\ IsFiniteSet(Horizon)
  <2>1. DayLength * (LastDay + 1) \in Nat
    BY <1>1
  <2> QED  BY <2>1, FS_Interval DEF Horizon
<1>3. Spans \subseteq Intervals /\ IsFiniteSet(Spans) /\ \A b \in Spans : b[1] < b[2]
  <2>1. IsFiniteSet(Horizon \X Horizon)
    BY <1>2, FS_Product
  <2>2. Spans \subseteq Horizon \X Horizon
    BY DEF Spans
  <2> QED  BY <1>2, <2>1, <2>2, FS_Subset DEF Spans, Intervals
<1>4. o \in Intervals /\ B \in SUBSET Intervals /\ IsFiniteSet(B) /\ \A b \in B : b[1] < b[2]
  BY <1>1, <1>3, FS_Subset
<1>5. F = FreeBlocks(week, o[1], o[2], B)
  BY DEF WorkingTimeInv
<1> HIDE DEF F, o, B
<1>6. /\ Neat(F)
      /\ \A i \in 1 .. Len(F) : Inside(F[i], o) /\ bookable(F[i])
      /\ \A x \in Intervals : x[1] < x[2] /\ x[2] - x[1] >= MIN_MINUTES /\ Inside(x, o) /\ bookable(x) =>
           \E i \in 1 .. Len(F) : Inside(x, F[i])
  BY <1>1, <1>4, <1>5, FreeBlocksAre, WorkingTimeAssumption
<1>7. DOMAIN F = 1 .. Len(F) /\ Len(F) \in Nat /\ ToSet(F) = {F[i] : i \in 1 .. Len(F)}
  BY <1>6, LenProperties DEF Neat, ToSet
<1>8. \A i \in DOMAIN F \ {1} : F[i - 1][2] <= F[i][1]
  <2> SUFFICES ASSUME NEW i \in DOMAIN F \ {1} PROVE F[i - 1][2] <= F[i][1]
    OBVIOUS
  <2>1. i \in 1 .. Len(F) /\ i - 1 \in 1 .. Len(F) /\ i - 1 < i
    BY <1>7
  <2> QED  BY <1>6, <2>1 DEF Neat
<1>9. \A x \in ToSet(F) :
        o[1] <= x[1] /\ x[2] <= o[2] /\ ~ Problem(week, x[1], x[2])
        /\ \A b \in B : x[2] <= b[1] \/ b[2] <= x[1]
  BY <1>6, <1>7 DEF Inside, Clear
<1>10. ASSUME NEW x \in Spans, o[1] <= x[1], x[2] <= o[2], x[2] - x[1] >= MIN_MINUTES,
              ~ Problem(week, x[1], x[2]), \A b \in B : x[2] <= b[1] \/ b[2] <= x[1]
       PROVE  \E f \in ToSet(F) : f[1] <= x[1] /\ x[2] <= f[2]
  <2>1. x \in Intervals /\ x[1] < x[2]
    BY <1>3
  <2>2. Inside(x, o) /\ bookable(x)
    BY <1>10 DEF Inside, Clear
  <2>3. PICK i \in 1 .. Len(F) : Inside(x, F[i])
    BY <1>6, <1>10, <2>1, <2>2
  <2> QED  BY <1>7, <2>3 DEF Inside
<1> QED  BY <1>8, <1>9, <1>10 DEF BlocksAreBookable, F, o, B

-----------------------------------------------------------------------------
(* The company.                                                            *)

\* A step of the company is a step of each component, or leaves it alone.
LEMMA ComponentsFollow ==
  ASSUME [Next]_companyVars
  PROVE  /\ [PlanningNext]_planningVars /\ [SearchNext]_<<searchVars, switches>>
         /\ [GraphNext]_graphVars /\ [HiringNext]_hiringVars
         /\ [ReviewNext]_reviewVars /\ [OrgNext]_orgVars /\ [TaskCalendarNext]_taskCalendarVars
         /\ [DayNext]_dayVars /\ [ProductionNext]_productionVars /\ [PurchasesNext]_purchaseVars
         /\ [SpendingNext]_spendingVars /\ [RealtimeNext]_realtimeVars
         /\ [NewMailNext]_newMailVars /\ [VoiceSessionNext]_voiceSessionVars
         /\ [FindFreeBlocks]_workingTimeVars
<1>1. CASE UNCHANGED companyVars
  BY <1>1 DEF companyVars
<1>2. CASE Next
  <2> USE DEF Rest
  <2>1. CASE part = "planning" /\ PlanningNext /\ Rest("planning")
    BY <2>1
  <2>2. CASE part = "search" /\ SearchNext /\ Rest("search")
    BY <2>2
  <2>3. CASE part = "day" /\ (DayNext \/ (Flip /\ UNCHANGED dayVars)) /\ Rest("day")
    <3>1. DayNext => UNCHANGED switches
      BY DEF DayNext
    <3> QED  BY <2>3, <3>1 DEF SearchNext
  <2>4. CASE part = "reviews" /\ ReviewNext /\ Rest("reviews")
    BY <2>4
  <2>5. CASE part = "tasks" /\ GraphNext /\ Rest("tasks")
    BY <2>5
  <2>6. CASE part = "calendar" /\ TaskCalendarNext /\ Rest("calendar")
    BY <2>6
  <2>7. CASE part = "free time" /\ FindFreeBlocks /\ Rest("free time")
    BY <2>7
  <2>8. CASE part = "chart" /\ OrgNext /\ Rest("chart")
    BY <2>8
  <2>9. CASE part = "hiring" /\ HiringNext /\ Rest("hiring")
    BY <2>9
  <2>10. CASE part = "production" /\ ProductionNext /\ Rest("production")
    BY <2>10
  <2>11. CASE part = "purchases" /\ PurchasesNext /\ Rest("purchases")
    BY <2>11
  <2>12. CASE part = "spending" /\ SpendingNext /\ Rest("spending")
    BY <2>12
  <2>13. CASE part = "realtime" /\ RealtimeNext /\ Rest("realtime")
    BY <2>13
  <2>14. CASE part = "mail" /\ NewMailNext /\ Rest("mail")
    BY <2>14
  <2>15. CASE part = "voice" /\ VoiceSessionNext /\ Rest("voice")
    BY <2>15
  <2> QED  BY <1>2, <2>1, <2>2, <2>3, <2>4, <2>5, <2>6, <2>7, <2>8, <2>9, <2>10, <2>11, <2>12,
              <2>13, <2>14, <2>15 DEF Next
<1> QED  BY <1>1, <1>2

\* What ended stays as it ended: a planning run whoever ends it again, a search
\* whichever caller comes late; and a task's completion tells all that it changed
\* (complete_cycle, fail_stale, advance, complete_task).
THEOREM EndsStay == Spec => EndsAreKept
<1> DEFINE Runs == [\A i \in DOMAIN runs : runs[i].status # "running" => runs'[i] = runs[i]]_runs
           Overs == [\A s \in Searches :
                       Over(s) => search'[s] = search[s] /\ Len(rounds'[s]) = Len(rounds[s])]_<<search, rounds>>
           Told == [\A t \in Tasks :
                      task[t] # "completed" /\ task'[t] = "completed" =>
                        /\ Unblocked(t) = {d \in OpenTasks : WaitsFor(d) # {} /\ WaitsFor(d)' = {}}
                        /\ \A f \in Followups : followup[f].of = t => followup'[f].status # "pending"]_graphVars
<1>1. Init => PlanningInv /\ SearchInv /\ GraphTypeOK
  <2>1. GraphInit => GraphTypeOK
    BY DEF GraphInit, GraphTypeOK, Exists, Statuses
  <2> QED  BY <2>1, PlanningStart, SearchStart DEF Init
<1>2. ASSUME PlanningInv, SearchInv, GraphTypeOK, [Next]_companyVars
      PROVE  PlanningInv' /\ SearchInv' /\ GraphTypeOK'
  BY <1>2, ComponentsFollow, PlanningStep, SearchStep, SearchStays, TypeStep
<1>3. ASSUME PlanningInv, [Next]_companyVars PROVE Runs
  BY <1>3, ComponentsFollow, EndedRunStep
<1>4. ASSUME SearchInv, [Next]_companyVars PROVE Overs
  BY <1>4, ComponentsFollow, OverStep DEF searchVars
<1>5. ASSUME GraphTypeOK, [Next]_companyVars PROVE Told
  BY <1>5, ComponentsFollow, CompletionTells
<1> QED
  BY <1>1, <1>2, <1>3, <1>4, <1>5, PTL
  DEF Spec, EndsAreKept, RunsStayEnded, OverStays, CompletionTellsTruth

\* What a plan keeps is within its caps and asks for no two overlapping blocks, days
\* stay within theirs, one post has one open ticket, the team runs on a valid
\* roster, and an employee's record is posted once and once more for each posting
\* whose note was not written, in every state of the company
\* (validate_cycle_actions, hire_action_handler, follow_up_on_hires).
THEOREM PlansAndHires == Spec => []PlanningAndHiring
<1>1. Init => PlanningInv /\ HiringInv
  BY PlanningStart, HiringStart DEF Init
<1>2. PlanningInv /\ HiringInv /\ [Next]_companyVars => PlanningInv' /\ HiringInv'
  BY ComponentsFollow, PlanningStep, HiringStep
<1>3. PlanningInv /\ HiringInv => PlanningAndHiring
  BY PlanningShows, HiringShows DEF PlanningAndHiring
<1> QED  BY <1>1, <1>2, <1>3, PTL DEF Spec

\* No round reviews a pair again within the interval, and nobody ends up
\* reporting into a loop as long as Alex builds one reorganisation at a time
\* (run_review_round, _refuse_cycles).
THEOREM PeopleKept == Spec => []PeopleAreKept
<1>1. Init => ReviewInv /\ OrgInv
  BY ReviewStart, OrgStart DEF Init
<1>2. ReviewInv /\ OrgInv /\ [Next]_companyVars => ReviewInv' /\ OrgInv'
  BY ComponentsFollow, ReviewStep, OrgStep
<1>3. ReviewInv /\ OrgInv => PeopleAreKept
  BY ReviewShows, OrgShows DEF PeopleAreKept
<1> QED  BY <1>1, <1>2, <1>3, PTL DEF Spec

\* Work adds up: a search is charged what its rounds spent and decided as they
\* came out, a week has its one episode, Alex is told of a day what is on record,
\* and open tasks can go on, in every state of the company (ProductSearchService,
\* ProductionService.run, run_accountability, add_dependency_in).
THEOREM WorkIsKept == Spec => []WorkAddsUp
<1> DEFINE Inv == SearchInv /\ ProductionInv /\ DayInv /\ GraphTypeOK /\ NoCircle(edge)
<1>1. Init => Inv
  BY SearchStart, ProductionStart, DayStart, GraphStart DEF Init
<1>2. Inv /\ [Next]_companyVars => Inv'
  <2> SUFFICES ASSUME Inv, [Next]_companyVars  PROVE Inv'
    OBVIOUS
  <2>1. SearchInv' /\ ProductionInv' /\ DayInv' /\ GraphTypeOK'
    BY ComponentsFollow, SearchStep, SearchStays, ProductionStep, DayStep, TypeStep
  <2>2. NoCircle(edge')
    BY ComponentsFollow, AcyclicStep
  <2>3. NoCircle(edge)'
    BY <2>2 DEF NoCircle
  <2> QED  BY <2>1, <2>3
<1>3. Inv => WorkAddsUp
  BY SearchesAreSound, ProductionShows, DayShows, WorkCanGoOn DEF WorkAddsUp
<1> QED  BY <1>1, <1>2, <1>3, PTL DEF Spec

\* At rest, every tool result has been spoken but what a response that failed and
\* was given up had seen; no email is announced twice, and one that no check has
\* taken is within reach of the next; a mail goes out once, and once more for each
\* send whose answer was lost; and the model is shown each call with its output, in
\* every state of the company (ResponseGate, SessionBridge, NewEmailWatcher,
\* VoiceTurn.respond, app/gmail.py).
THEOREM NothingIsLost == Spec => []NothingSaidIsLost
<1>1. Init => RealtimeInv /\ MailInv /\ SessionInv
  BY RealtimeStart, MailStart, SessionStart DEF Init
<1>2. RealtimeInv /\ MailInv /\ SessionInv /\ [Next]_companyVars
        => RealtimeInv' /\ MailInv' /\ SessionInv'
  BY ComponentsFollow, RealtimeStep, MailStep, SessionStep
<1>3. RealtimeInv /\ MailInv /\ SessionInv => NothingSaidIsLost
  BY RealtimeShows, MailShows, SessionShows DEF NothingSaidIsLost
<1> QED  BY <1>1, <1>2, <1>3, PTL DEF Spec

\* What is asked for and approved stays within a month's limit and a run's, but for
\* requests the turn of a month overtakes; and once the day's ceiling is reached the
\* work that asks the gate spends at most MAX_CALLS calls for every such coroutine
\* and every one of CACHE_SECONDS + 1 seconds, in every state of the company
\* (card_purchase_handler, SpendGate.allowed).  Of connections that stay open and
\* of work that never asks it bounds nothing.
THEOREM MoneyKept == Spec => []MoneyIsKept
<1>1. Init => PurchasesInv /\ SpendingInv
  BY PurchasesStart, SpendingStart DEF Init
<1>2. PurchasesInv /\ SpendingInv /\ [Next]_companyVars => PurchasesInv' /\ SpendingInv'
  BY ComponentsFollow, PurchasesStep, SpendingStep
<1>3. PurchasesInv /\ SpendingInv => MoneyIsKept
  BY PurchasesShow, SpendingShows DEF MoneyIsKept
<1> QED  BY <1>1, <1>2, <1>3, PTL DEF Spec

\* A task's row and its event tell one story, unless its actions overlapped or
\* Alex moved the event himself, and the free blocks are those that can be booked,
\* in every state of the company, whatever the working week and the calendar
\* (record_schedule_task, find_free_blocks, working_time_problem).
THEOREM CalendarKept == Spec => []CalendarIsKept
<1>1. Init => CalendarInv /\ WorkingTimeInv
  BY CalendarStart, WorkingTimeStart DEF Init
<1>2. CalendarInv /\ WorkingTimeInv /\ [Next]_companyVars => CalendarInv' /\ WorkingTimeInv'
  BY ComponentsFollow, CalendarStep, WorkingTimeStep
<1>3. CalendarInv /\ WorkingTimeInv => CalendarIsKept
  BY CalendarShows, WorkingTimeShows DEF CalendarIsKept
<1> QED  BY <1>1, <1>2, <1>3, PTL DEF Spec

\* Every component's rows are of their types.
THEOREM TypesAreKept == Spec => []CompanyTypeOK
<1> DEFINE WorkInv == PlanningInv /\ SearchInv /\ DayInv /\ ProductionInv
           PeopleInv == ReviewInv /\ OrgInv /\ HiringInv /\ GraphTypeOK
           MoneyInv == PurchasesInv /\ SpendingInv /\ CalendarInv
           TalkInv == RealtimeInv /\ MailInv /\ SessionInv
<1>1. Init => WorkInv /\ PeopleInv /\ MoneyInv /\ TalkInv
  <2> SUFFICES ASSUME Init PROVE WorkInv /\ PeopleInv /\ MoneyInv /\ TalkInv
    OBVIOUS
  <2>1. WorkInv
    BY PlanningStart, SearchStart, DayStart, ProductionStart DEF Init
  <2>2. PeopleInv
    BY ReviewStart, OrgStart, HiringStart, GraphStart DEF Init
  <2>3. MoneyInv
    BY PurchasesStart, SpendingStart, CalendarStart DEF Init
  <2>4. TalkInv
    BY RealtimeStart, MailStart, SessionStart DEF Init
  <2> QED  BY <2>1, <2>2, <2>3, <2>4
<1>2. WorkInv /\ PeopleInv /\ MoneyInv /\ TalkInv /\ [Next]_companyVars => WorkInv' /\ PeopleInv' /\ MoneyInv' /\ TalkInv'
  <2> SUFFICES ASSUME WorkInv, PeopleInv, MoneyInv, TalkInv, [Next]_companyVars
               PROVE  WorkInv' /\ PeopleInv' /\ MoneyInv' /\ TalkInv'
    OBVIOUS
  <2>1. WorkInv'
    BY ComponentsFollow, PlanningStep, SearchStep, SearchStays, DayStep, ProductionStep
  <2>2. PeopleInv'
    BY ComponentsFollow, ReviewStep, OrgStep, HiringStep, TypeStep
  <2>3. MoneyInv'
    BY ComponentsFollow, PurchasesStep, SpendingStep, CalendarStep
  <2>4. TalkInv'
    BY ComponentsFollow, RealtimeStep, MailStep, SessionStep
  <2> QED  BY <2>1, <2>2, <2>3, <2>4
<1>3. WorkInv /\ PeopleInv /\ MoneyInv /\ TalkInv => CompanyTypeOK
  <2> SUFFICES ASSUME WorkInv, PeopleInv, MoneyInv, TalkInv PROVE CompanyTypeOK
    OBVIOUS
  <2>1. PlanningTypeOK /\ SearchTypeOK /\ DayTypeOK /\ ProductionTypeOK
    BY PlanningShows, SearchTypesAreOK, DayShows, ProductionShows
  <2>2. ReviewTypeOK /\ OrgTypeOK /\ HiringTypeOK /\ GraphTypeOK
    BY ReviewShows, OrgShows, HiringShows
  <2>3. PurchasesTypeOK /\ SpendingTypeOK /\ TaskCalendarTypeOK
    BY PurchasesShow, SpendingShows, CalendarShows
  <2>4. RealtimeTypeOK /\ NewMailTypeOK /\ VoiceSessionTypeOK
    BY RealtimeShows, MailShows, SessionShows
  <2> QED  BY <2>1, <2>2, <2>3, <2>4 DEF CompanyTypeOK
<1> HIDE DEF WorkInv, PeopleInv, MoneyInv, TalkInv
<1> QED  BY <1>1, <1>2, <1>3, PTL DEF Spec

=============================================================================
