------------------------------ MODULE Realtime -------------------------------
(***************************************************************************)
(* Turn-taking on one OpenAI Realtime connection (app/realtime.py,         *)
(* app/realtime_session.py, VOICE_MODE=realtime).                          *)
(*                                                                         *)
(* The API allows one response at a time.  Its own voice detection starts  *)
(* one when Alex stops speaking, and Gary asks for one after a tool call,  *)
(* so that the result is spoken.  The two travel in opposite directions    *)
(* over the connection, each in order; the reader handles one event at a   *)
(* time and is held up while a tool runs; a retry after a rate limit       *)
(* sleeps beside it.                                                       *)
(***************************************************************************)
EXTENDS Integers, Sequences

CONSTANTS
    RETRIES,        \* REALTIME_RATE_LIMIT_RETRIES
    MaxTurns,       \* bound on what Alex says
    MaxToolCalls,   \* bound on the tool calls the model makes
    MaxFailures,    \* bound on the responses that do not come to their end
    MaxDrops        \* bound on the connections lost

ASSUME RealtimeAssumption ==
    {RETRIES, MaxTurns, MaxToolCalls, MaxFailures, MaxDrops} \subseteq Nat

Quiet == [on |-> FALSE, called |-> FALSE, sees |-> 0]

VARIABLES
    response,   \* the response that is active at OpenAI, and whether it called a tool
    outgoing,   \* what Gary sent and OpenAI has not read
    incoming,   \* the events OpenAI sent and the reader has not handled
    gate,       \* ResponseGate: [active, pending]
    running,    \* the tool call that holds up the reader
    attempts,   \* rate_limit_retries
    sleeping,   \* retries waiting for their delay
    results,    \* tool results: how many were given and spoken, and what the
                \* responses that were given up had seen of them
    budget      \* what is left of the bounds

realtimeVars ==
    <<response, outgoing, incoming, gate, running, attempts, sleeping, results, budget>>

\* How a response ends: it said what it saw, OpenAI's rate limit failed it, or
\* it failed otherwise, was cancelled or remained incomplete.
Endings == {"said", "limit", "cut"}

Event(kind) == [kind |-> kind, called |-> FALSE, end |-> "said", sees |-> 0]

RealtimeInit ==
    /\ response = Quiet
    /\ outgoing = <<>> /\ incoming = <<>>
    /\ gate = [active |-> FALSE, pending |-> FALSE]
    /\ running = FALSE
    /\ attempts = 0
    /\ sleeping = 0
    /\ results = [given |-> 0, spoken |-> 0, dropped |-> {}]
    /\ budget = [turns |-> MaxTurns, calls |-> MaxToolCalls,
                 failures |-> MaxFailures, drops |-> MaxDrops]

(***************************************************************************)
(* OpenAI, as the code relies on it.                                       *)
(***************************************************************************)
Begin ==
    /\ response' = [on |-> TRUE, called |-> FALSE, sees |-> results.given]
    /\ incoming' = Append(incoming, Event("created"))

AlexSpeaks ==
    /\ budget.turns > 0 /\ ~response.on
    /\ budget' = [budget EXCEPT !.turns = @ - 1]
    /\ Begin
    /\ UNCHANGED <<outgoing, gate, running, attempts, sleeping, results>>

\* A result joins the conversation; a request begins a response, or is
\* refused while one is active.
OpenAIReads ==
    /\ outgoing # <<>>
    /\ outgoing' = Tail(outgoing)
    /\ \/ /\ Head(outgoing) = "result"
          /\ results' = [results EXCEPT !.given = @ + 1]
          /\ UNCHANGED <<response, incoming>>
       \/ /\ Head(outgoing) = "create" /\ ~response.on
          /\ Begin
          /\ UNCHANGED results
       \/ /\ Head(outgoing) = "create" /\ response.on
          /\ incoming' = Append(incoming, Event("error"))
          /\ UNCHANGED <<response, results>>
    /\ UNCHANGED <<gate, running, attempts, sleeping, budget>>

ModelCalls ==
    /\ response.on /\ ~response.called /\ budget.calls > 0
    /\ budget' = [budget EXCEPT !.calls = @ - 1]
    /\ response' = [response EXCEPT !.called = TRUE]
    /\ incoming' = Append(incoming, Event("call"))
    /\ UNCHANGED <<outgoing, gate, running, attempts, sleeping, results>>

ResponseEnds ==
    /\ response.on
    /\ response' = Quiet
    /\ \E end \in Endings :
         /\ incoming' = Append(incoming, [kind |-> "done", called |-> response.called,
                                          end |-> end, sees |-> response.sees])
         /\ IF end = "said"
              THEN /\ results' = [results EXCEPT !.spoken = response.sees]
                   /\ UNCHANGED budget
              ELSE /\ budget.failures > 0
                   /\ budget' = [budget EXCEPT !.failures = @ - 1]
                   /\ UNCHANGED results
    /\ UNCHANGED <<outgoing, gate, running, attempts, sleeping>>

(***************************************************************************)
(* The session's reader: forward_events handles one event to its end.      *)
(***************************************************************************)
\* ResponseGate.observe.
Observed(event) ==
    CASE event.kind = "created" -> [gate EXCEPT !.active = TRUE]
      [] event.kind = "done"    -> [gate EXCEPT !.active = FALSE]
      [] event.kind = "error"   -> [gate EXCEPT !.pending = TRUE]
      [] OTHER                  -> gate

\* request_response on a gate: sent, or owed until the active one is done.
Request(g) ==
    /\ gate' = [g EXCEPT !.pending = g.active]
    /\ outgoing' = IF g.active THEN outgoing ELSE Append(outgoing, "create")

Due(g) == g.pending /\ ~g.active

\* Mutant of NeedsFollowUp: only a response that came to its end is gone on with.
FollowsUpWhenSaid(event) == event.kind = "done" /\ event.called /\ event.end = "said"

NeedsFollowUp(event) == event.kind = "done" /\ event.called

HandleEvent ==
    /\ ~running /\ incoming # <<>>
    /\ incoming' = Tail(incoming)
    /\ LET event == Head(incoming)
           g == Observed(event)
           ended == event.kind = "done"
           asks == NeedsFollowUp(event) \/ (event.kind \in {"done", "error"} /\ Due(g))
           fails == ended /\ event.end # "said" /\ ~asks
           retries == fails /\ event.end = "limit" /\ attempts < RETRIES
       IN  /\ IF asks THEN Request(g) ELSE gate' = g /\ UNCHANGED outgoing
           /\ running' = (event.kind = "call")
           /\ attempts' = IF retries THEN attempts + 1 ELSE IF ended THEN 0 ELSE attempts
           /\ sleeping' = IF retries THEN sleeping + 1 ELSE sleeping
           \* Given up: out of retries, or not the rate limit's doing.
           /\ results' = IF fails /\ ~retries
                           THEN [results EXCEPT !.dropped = @ \union {event.sees}] ELSE results
    /\ UNCHANGED <<response, budget>>

\* send_tool_result: the tool is done and its result is written back.
ToolReturns ==
    /\ running
    /\ running' = FALSE
    /\ outgoing' = Append(outgoing, "result")
    /\ UNCHANGED <<response, incoming, gate, attempts, sleeping, results, budget>>

RetryFires ==
    /\ sleeping > 0
    /\ sleeping' = sleeping - 1
    /\ Request(gate)
    /\ UNCHANGED <<response, incoming, running, attempts, results, budget>>

\* The connection is lost and the next audio opens another, with a new
\* conversation; the gate and the count of retries belong to the session.  A
\* retry of the old connection does nothing when it wakes.
ConnectionDrops ==
    /\ budget.drops > 0
    /\ budget' = [budget EXCEPT !.drops = @ - 1]
    /\ response' = Quiet
    /\ outgoing' = <<>> /\ incoming' = <<>>
    /\ running' = FALSE
    /\ sleeping' = 0
    /\ results' = [given |-> 0, spoken |-> 0, dropped |-> {}]
    /\ UNCHANGED <<gate, attempts>>

RealtimeNext ==
    \/ AlexSpeaks \/ OpenAIReads \/ ModelCalls \/ ResponseEnds
    \/ HandleEvent \/ ToolReturns \/ RetryFires \/ ConnectionDrops

(***************************************************************************)
(* Properties.                                                             *)
(***************************************************************************)
RealtimeTypeOK ==
    /\ response \in [on : BOOLEAN, called : BOOLEAN, sees : Nat]
    /\ outgoing \in Seq({"create", "result"})
    /\ incoming \in Seq([kind : {"created", "done", "error", "call"},
                         called : BOOLEAN, end : Endings, sees : Nat])
    /\ gate \in [active : BOOLEAN, pending : BOOLEAN]
    /\ running \in BOOLEAN
    /\ attempts \in 0 .. RETRIES
    /\ sleeping \in Nat
    /\ results \in [given : Nat, spoken : Nat, dropped : SUBSET Nat]
    /\ budget \in [turns : Nat, calls : Nat, failures : Nat, drops : Nat]

AtRest == ~response.on /\ outgoing = <<>> /\ incoming = <<>> /\ ~running /\ sleeping = 0

\* "Queued rather than lost": when nothing is active, under way or waiting to
\* be tried again, every tool result has been spoken, however the model's own
\* responses, refusals, rate limits and lost connections fall between the
\* tool and its answer.  What is left unsaid is only what the session gives up:
\* all the results a response had seen that ran out of retries, or that failed
\* for another reason, and with nothing owed after it.
NoResultIsLeftUnsaid ==
    AtRest => results.given = results.spoken \/ results.given \in results.dropped
=============================================================================
