------------------------------ MODULE Spending -------------------------------
(***************************************************************************)
(* What thinking costs, and the ceiling on it (gary/finance/usage.py,      *)
(* pricing.py).                                                            *)
(*                                                                         *)
(* What thinks does not all stand under the gate alike.  A scheduled or    *)
(* management cycle, a specialist's run, a round of reviews and a turn of  *)
(* the voice ask once, and then record the few calls they make.  A         *)
(* Realtime connection asks when it opens and records every response until *)
(* it closes.  Replanning after a missed block, a cycle Alex asks for and  *)
(* the command line's conversation record their calls and never ask.       *)
(*                                                                         *)
(* The gate reads the ledger at most once per CACHE_SECONDS, so it may     *)
(* allow work the ledger would refuse; and it counts only calls that have  *)
(* a price or report their cost.  Prices are read when the server starts:  *)
(* the costs command line changes the file, and the server sees it after a *)
(* restart.                                                                *)
(*                                                                         *)
(* Time is counted in ticks of a second; a day has DAY of them, and a call *)
(* takes at least one.                                                     *)
(***************************************************************************)
EXTENDS Integers, FiniteSets

CONSTANTS
    Thinkers,           \* coroutines that spend
    Sessions,           \* those that ask once and go on: Realtime connections
    Unasked,            \* those that never ask
    MAX_CALLS,          \* calls any other may record for one answer of the gate
    Models,             \* the models they use
    ModelOf,            \* which thinker uses which
    CallSizes,          \* what a provider reports of a call: its tokens, and
                        \* the cost it charges, Unstated when it names none
    Rates,              \* the rates a price may have
    CEILING,            \* the daily ceiling, 0 for none
    CACHE_SECONDS,
    REQUIRE_PRICED,     \* refuse work while a model in use has no price
    DAY,                \* bound: ticks in a day
    MaxMoment,          \* bound on the ticks
    MaxReloads          \* bound on the restarts of the server

Unstated == -1

ASSUME SpendingAssumption ==
    /\ ModelOf \in [Thinkers -> Models] /\ IsFiniteSet(Thinkers)
    /\ Sessions \subseteq Thinkers /\ Unasked \subseteq Thinkers /\ MAX_CALLS \in Nat
    /\ CallSizes \subseteq [input : Nat, cached : Nat, audio : Nat, output : Nat,
                            reported : Nat \union {Unstated}]
    /\ Rates \subseteq [input : Nat, cached : Nat, audio : Nat, output : Nat]
    /\ \A S \in {CallSizes, Rates} : IsFiniteSet(S) /\ S # {}
    /\ CEILING \in Nat /\ CACHE_SECONDS \in Nat /\ DAY \in Nat \ {0}
    /\ REQUIRE_PRICED \in BOOLEAN
    /\ MaxMoment \in Nat /\ MaxReloads \in Nat

VARIABLES
    moment,      \* ticks since the start
    ledger,     \* the rows since midnight: what they add up to, what of it was
                \* recorded by work that asks after the ceiling was reached, and
                \* whether one has no cost
    thinking,   \* who is at work, since when, and the calls it recorded
    cache,      \* the gate's last answer and its time
    table,      \* the price file: the models that have a rate
    loaded,     \* the price table the server read
    restarts

spendingVars == <<moment, ledger, thinking, cache, table, loaded, restarts>>

(***************************************************************************)
(* A call's cost.                                                          *)
(***************************************************************************)
AtMost(a, b) == IF a <= b THEN a ELSE b
AtLeastZero(a) == IF a >= 0 THEN a ELSE 0

\* usage_from_openai: audio is taken out of the input, and what was cached
\* cannot be more than the text that is left.
TokensOf(call) ==
    LET text == AtLeastZero(call.input - call.audio)
    IN  [text |-> text, cached |-> AtMost(call.cached, text),
         audio |-> call.audio, output |-> call.output]

\* Mutant of PriceOf: cached tokens are charged as text as well.
CachedTwice(call, rate) ==
    LET t == TokensOf(call)
    IN  t.text * rate.input + t.cached * rate.cached + t.audio * rate.audio + t.output * rate.output

\* PriceTable.cost: cached tokens are part of the text.
PriceOf(call, rate) ==
    LET t == TokensOf(call)
    IN  AtLeastZero(t.text - t.cached) * rate.input + t.cached * rate.cached
          + t.audio * rate.audio + t.output * rate.output

\* totals_since: what a provider says it charged is believed over the price.
HasCost(call, model) == call.reported # Unstated \/ model \in DOMAIN loaded
CostOf(call, model) ==
    IF call.reported # Unstated THEN call.reported ELSE PriceOf(call, loaded[model])

(***************************************************************************)
(* The gate.                                                               *)
(***************************************************************************)
NoAnswer == [at |-> 0, known |-> FALSE, allowed |-> FALSE]

Unpriced == {m \in Models : (\E w \in Thinkers : ModelOf[w] = m) /\ m \notin DOMAIN loaded}

Within == CEILING > 0 => ledger.cost < CEILING

Answer ==
    [at |-> moment, known |-> TRUE,
     allowed |-> Within /\ ~(REQUIRE_PRICED /\ Unpriced # {})]

Current == cache.known /\ moment - cache.at < CACHE_SECONDS

State == IF Current THEN cache ELSE Answer

NothingSpent == [cost |-> 0, late |-> 0, unpriced |-> 0]
NotThinking == [on |-> FALSE, since |-> 0, made |-> 0]

\* The server starts in the middle of a day.
SpendingInit ==
    /\ moment = 0
    /\ \E spent \in {0, CEILING} : ledger = [NothingSpent EXCEPT !.cost = spent]
    /\ thinking = [w \in Thinkers |-> NotThinking]
    /\ cache = NoAnswer
    /\ \E priced \in SUBSET Models : table \in [priced -> Rates]
    /\ loaded = table
    /\ restarts = 0

Asking == Thinkers \ (Sessions \union Unasked)

BeginThinking(w) ==
    thinking' = [thinking EXCEPT ![w] = [on |-> TRUE, since |-> moment, made |-> 0]]

\* spend_stop, and the runner's own question: what is refused does not start.
AskGate(w) ==
    /\ w \notin Unasked /\ ~thinking[w].on
    /\ cache' = State
    /\ IF State.allowed THEN BeginThinking(w) ELSE UNCHANGED thinking
    /\ UNCHANGED <<moment, ledger, table, loaded, restarts>>

\* replan_after_missed_block, a cycle asked for in talk, the command line.
GoAhead(w) ==
    /\ w \in Unasked /\ ~thinking[w].on
    /\ BeginThinking(w)
    /\ UNCHANGED <<moment, ledger, cache, table, loaded, restarts>>

\* What the row adds.  (late is the specification's own account.)
RowAdded(w, call) ==
    IF ~HasCost(call, ModelOf[w]) THEN [ledger EXCEPT !.unpriced = 1]
    ELSE LET cost == CostOf(call, ModelOf[w])
         IN  [ledger EXCEPT !.cost = @ + cost,
                            !.late = IF w \in Asking /\ ~Within THEN @ + cost ELSE @]

\* Mutant of RecordUsage: one answer of the gate lasts for any number of calls.
RecordUncounted(w, call) ==
    /\ thinking[w].on /\ thinking[w].since < moment
    /\ ledger' \in {ledger, RowAdded(w, call)}
    /\ UNCHANGED <<moment, thinking, cache, table, loaded, restarts>>

\* UsageLedger.record.  A call that reports nothing leaves no row; a row that
\* cannot be written is logged and lost.
RecordUsage(w, call) ==
    /\ thinking[w].on /\ thinking[w].since < moment
    /\ IF w \in Asking
         THEN /\ thinking[w].made < MAX_CALLS
              /\ thinking' = [thinking EXCEPT ![w].made = @ + 1]
         ELSE thinking' = [thinking EXCEPT ![w].since = moment]
    /\ ledger' \in {ledger, RowAdded(w, call)}
    /\ UNCHANGED <<moment, cache, table, loaded, restarts>>

\* The work is done, or the connection closed.
StopThinking(w) ==
    /\ thinking[w].on
    /\ thinking' = [thinking EXCEPT ![w] = NotThinking]
    /\ UNCHANGED <<moment, ledger, cache, table, loaded, restarts>>

\* A second passes; at midnight the day's sum starts again.
SecondPasses ==
    /\ moment < MaxMoment
    /\ moment' = moment + 1
    /\ ledger' = IF (moment + 1) % DAY = 0 THEN NothingSpent ELSE ledger
    /\ UNCHANGED <<thinking, cache, table, loaded, restarts>>

\* The costs command line sets or removes a price in the file.
SetPrice(m, rate) ==
    /\ table' = [n \in DOMAIN table \union {m} |-> IF n = m THEN rate ELSE table[n]]
    /\ UNCHANGED <<moment, ledger, thinking, cache, loaded, restarts>>

RemovePrice(m) ==
    /\ m \in DOMAIN table
    /\ table' = [n \in DOMAIN table \ {m} |-> table[n]]
    /\ UNCHANGED <<moment, ledger, thinking, cache, loaded, restarts>>

RestartServer ==
    /\ restarts < MaxReloads
    /\ restarts' = restarts + 1
    /\ loaded' = table
    /\ cache' = NoAnswer
    /\ thinking' = [w \in Thinkers |-> NotThinking]
    /\ UNCHANGED <<moment, ledger, table>>

SpendingNext ==
    \/ \E w \in Thinkers : \/ AskGate(w) \/ GoAhead(w) \/ StopThinking(w)
                            \/ \E call \in CallSizes : RecordUsage(w, call)
    \/ SecondPasses
    \/ \E m \in Models : RemovePrice(m) \/ \E rate \in Rates : SetPrice(m, rate)
    \/ RestartServer

(***************************************************************************)
(* Properties.                                                             *)
(***************************************************************************)
SpendingTypeOK ==
    /\ moment \in 0 .. MaxMoment
    /\ ledger \in [cost : Nat, late : Nat, unpriced : 0 .. 1]
    /\ thinking \in [Thinkers -> [on : BOOLEAN, since : 0 .. MaxMoment, made : 0 .. MAX_CALLS]]
    /\ cache \in [at : 0 .. MaxMoment, known : BOOLEAN, allowed : BOOLEAN]
    /\ DOMAIN table \subseteq Models /\ DOMAIN loaded \subseteq Models

Costs ==
    {PriceOf(call, rate) : call \in CallSizes, rate \in Rates}
      \union {call.reported : call \in {c \in CallSizes : c.reported # Unstated}}

Dearest == CHOOSE c \in Costs : \A d \in Costs : d <= c

\* The ceiling is a bound on what is begun, not on what is spent, and only on
\* work that asks.  Once the day has reached it, whoever spent the money, such
\* work spends no more than it was allowed before: what was under way, and what
\* the gate's last answer lets begin for CACHE_SECONDS.  (A connection that is
\* open and work that never asks go on spending; nothing bounds them.)
OvershootIsBounded ==
    ledger.late <= Dearest * (Cardinality(Asking) * MAX_CALLS * (CACHE_SECONDS + 1))

\* Every token a provider reports is charged once, as what it is: at a rate of
\* one for everything a call costs its tokens, whatever of it was cached or heard.
TokensAreChargedOnce ==
    \A call \in CallSizes :
        call.audio <= call.input =>
            PriceOf(call, [input |-> 1, cached |-> 1, audio |-> 1, output |-> 1])
                = call.input + call.output

SpendingIsSound == OvershootIsBounded /\ TokensAreChargedOnce
=============================================================================
