---------------------------- MODULE ProductSearch ----------------------------
(***************************************************************************)
(* The search for a product to build: ProductSearchService.                *)
(*                                                                         *)
(* advance() is one step of a search: it reads the two switches, then in   *)
(* one transaction takes in the round that ended, decides whether to go    *)
(* on and claims the next round, and after it delegates that round and     *)
(* attaches the assignment, each a transaction of its own.  It is called   *)
(* by the server's loop, by the callback of an assignment that ended, by   *)
(* start(), and by the command line, which is another process.             *)
(* An assignment is here what module AgentTeam makes of it: a row and the  *)
(* process whose coroutine carries it, from the moment a round names it.   *)
(***************************************************************************)
EXTENDS Switches, Integers, FiniteSets, SequencesExt

CONSTANTS Limits,         \* max_rounds of each search that may be started
          Ideas,          \* names of ideas
          Reports,        \* what a completed assignment may report
          MAX_ROUND_ATTEMPTS,  \* 2 in the code
          Callers,        \* who calls advance()
          Loop,           \* the server's loop among them
          Cli,            \* the command line among them
          MayExit,        \* the processes that may stop
          MaxExits        \* bound on their stops

CONVERGED_GAIN == 1            \* 0.3, on scores of at least that step
MAX_CONSECUTIVE_FAILURES == 2

\* A report: the slate in the order Susan returned it, with GaryCorp's score of
\* each idea, and whether open questions are left.
ReportType(r) ==
  /\ r.slate \in Seq([name : Ideas, score : Nat])
  /\ r.questions \in BOOLEAN

ASSUME SearchAssumption ==
  /\ IsFiniteSet(Callers) /\ Limits \in Seq(Nat \ {0}) /\ {MaxExits, MAX_ROUND_ATTEMPTS} \subseteq Nat
  /\ None \notin Ideas /\ \A r \in Reports : ReportType(r)
  /\ {Loop, Cli} \subseteq Callers /\ Loop # Cli
  /\ MayExit \subseteq {"server", "cli"}

Searches == DOMAIN Limits
Attempts(s) == Limits[s] * MAX_ROUND_ATTEMPTS
Rounds == UNION {1 .. Attempts(s) : s \in Searches}

VARIABLES
  search,   \* product_searches
  rounds,   \* product_search_rounds of each search, by round number
  at,       \* where each caller stands
  told,     \* how often the end of each search was announced
  exits

searchVars == <<search, rounds, at, told, exits>>

Search == [status : {None, "running", "completed", "failed", "stopped"},
           done : Nat, best : Ideas \union {None}, score : Nat]
Process(c) == IF c = Cli THEN "cli" ELSE "server"

\* by: the process whose coroutine carries it, None if none does.
Work == [status : {None, "queued", "running", "completed", "failed"},
         by : {None, "server", "cli"}]
NoWork == [status |-> None, by |-> None]
Round == [status : {"running", "completed", "failed", "abandoned"},
          work : Work, top : Ideas \union {None}]
NewRound == [status |-> "running", work |-> NoWork, top |-> None]

\* may: what the switches it read allow.
Caller == [step : {"idle", "switches", "step", "delegate", "abandon", "attach", "restart", "tell"},
           s : {0} \union Searches, round : Nat, may : {"nothing", "restart", "claim"}]
Idle == [step |-> "idle", s |-> 0, round |-> 0, may |-> "nothing"]

SearchTypeOK ==
  /\ search \in [Searches -> Search]
  /\ \A s \in Searches : rounds[s] \in Seq(Round)
  /\ at \in [Callers -> Caller]
  /\ told \in [Searches -> Nat] /\ exits \in 0 .. MaxExits

SearchInit ==
  /\ search = [s \in Searches |-> [status |-> None, done |-> 0, best |-> None, score |-> 0]]
  /\ rounds = [s \in Searches |-> <<>>]
  /\ at = [c \in Callers |-> Idle]
  /\ told = [s \in Searches |-> 0] /\ exits = 0

Running(s) == search[s].status = "running"
Over(s) == search[s].status \in {"completed", "failed", "stopped"}

-----------------------------------------------------------------------------
(* Ranking and deciding.                                                   *)

\* rank_ideas: the best score first; among equals the order of the report.
Leads(slate, i) ==
  \A j \in DOMAIN slate : \/ slate[j].score < slate[i].score
                          \/ slate[j].score = slate[i].score /\ j >= i
Leader(slate) == slate[CHOOSE i \in DOMAIN slate : Leads(slate, i)]

\* decide: row has counted the round, and still names the leader before it.
Decide(row, max, r) ==
  \/ r.slate = <<>>
  \/ row.done >= max
  \/ ~r.questions
  \/ /\ row.done >= 2
     /\ row.best = Leader(r.slate).name
     /\ Leader(r.slate).score - row.score < CONVERGED_GAIN

-----------------------------------------------------------------------------
(* Starting and stopping a search.                                         *)

NextSearch == CHOOSE s \in Searches : search[s].status = None /\ \A t \in 1 .. s - 1 : search[t].status # None

Free == {s \in Searches : search[s].status = None}

\* _create refuses while a search runs.
MayStart == Free # {} /\ \A s \in Searches : ~Running(s)

\* start: the row, and then one advance of it by the caller.
Start(c) ==
  /\ at[c].step = "idle" /\ c # Loop /\ MayStart
  /\ search' = [search EXCEPT ![NextSearch].status = "running"]
  /\ at' = [at EXCEPT ![c] = [Idle EXCEPT !.step = "switches", !.s = NextSearch]]
  /\ UNCHANGED <<rounds, told, exits>>

Stop(s) ==
  /\ Running(s)
  /\ search' = [search EXCEPT ![s].status = "stopped"]
  /\ UNCHANGED <<rounds, at, told, exits>>

-----------------------------------------------------------------------------
(* advance().                                                              *)

\* _active_ids, or the search the command line drives.
Advance(c, s) ==
  /\ at[c].step = "idle" /\ Running(s)
  /\ at' = [at EXCEPT ![c] = [Idle EXCEPT !.step = "switches", !.s = s]]
  /\ UNCHANGED <<search, rounds, told, exits>>

\* _can_spend and _paused_now, asked before the transaction.
ReadSwitches(c) ==
  /\ at[c].step = "switches"
  /\ at' = [at EXCEPT ![c].step = "step", ![c].may =
             IF ~spending THEN "nothing" ELSE IF paused THEN "restart" ELSE "claim"]
  /\ UNCHANGED <<search, rounds, told, exits>>

OpenRounds(s) == {n \in DOMAIN rounds[s] : rounds[s][n].status = "running"}
OpenRound(s) == CHOOSE n \in OpenRounds(s) : \A m \in OpenRounds(s) : m <= n

\* _fail_round: how many rounds up to the last one failed in a row, abandoned
\* ones left out.
Ran(rs) == {n \in DOMAIN rs : rs[n].status # "abandoned"}
LastTwoFailed(rs) ==
  \E last \in SUBSET Ran(rs) :
    /\ Cardinality(last) = MAX_CONSECUTIVE_FAILURES
    /\ \A n \in last : rs[n].status = "failed" /\ \A m \in Ran(rs) \ last : m < n

\* What _step goes on with after the rounds rs and the row of the search.
Outcome(c, s, row, rs) ==
  LET n == Len(rs) + 1
      end(status) == /\ search' = [search EXCEPT ![s] = [row EXCEPT !.status = status]]
                     /\ rounds' = [rounds EXCEPT ![s] = rs]
                     /\ at' = [at EXCEPT ![c] = [Idle EXCEPT !.step = "tell", !.s = s]]
      rest == /\ search' = [search EXCEPT ![s] = row]
              /\ rounds' = [rounds EXCEPT ![s] = rs] IN
  IF row.status # "running" THEN end(row.status)
  ELSE IF at[c].may # "claim" THEN rest /\ at' = [at EXCEPT ![c] = Idle]
  ELSE IF row.done >= Limits[s] THEN end("completed")
  ELSE IF Len(rs) >= Attempts(s) THEN end("failed")
  ELSE /\ search' = [search EXCEPT ![s] = row]
       /\ rounds' = [rounds EXCEPT ![s] =
            Append(rs, NewRound)]
       /\ at' = [at EXCEPT ![c] = [Idle EXCEPT !.step = "delegate", !.s = s, !.round = n]]

\* _take_in_round: the round, the count, the slate, and whether that was enough.
TakeIn(c, s, n, r) ==
  LET top == IF r.slate = <<>> THEN None ELSE Leader(r.slate).name
      counted == [search[s] EXCEPT !.done = @ + 1]
      row == [counted EXCEPT
                !.best = IF top = None THEN @ ELSE top,
                !.score = IF top = None THEN @ ELSE Leader(r.slate).score,
                !.status = IF Decide(counted, Limits[s], r) THEN "completed" ELSE @]
  IN Outcome(c, s, row, [rounds[s] EXCEPT ![n].status = "completed", ![n].top = top])

\* _fail_round.
Fail(c, s, n) ==
  LET rs == [rounds[s] EXCEPT ![n].status = "failed"]
      row == IF LastTwoFailed(rs) THEN [search[s] EXCEPT !.status = "failed"] ELSE search[s]
  IN Outcome(c, s, row, rs)

\* Mutant of StillRuns: a search that ran when the caller looked still does.
TakenToRun(s) == search[s].status # None

\* _step reads the search again in its transaction.
StillRuns(s) == Running(s)

\* _step: one transaction.
Step(c) ==
  LET s == at[c].s
      n == OpenRound(s)
      w == rounds[s][n].work.status IN
  /\ at[c].step = "step"
  /\ \/ /\ ~StillRuns(s)
        /\ at' = [at EXCEPT ![c] = Idle] /\ UNCHANGED <<search, rounds>>
     \/ /\ StillRuns(s) /\ OpenRounds(s) = {}
        /\ Outcome(c, s, search[s], rounds[s])
     \/ /\ StillRuns(s) /\ OpenRounds(s) # {} /\ w = None
        /\ rounds' = [rounds EXCEPT ![s][n].status = "abandoned"]
        /\ at' = [at EXCEPT ![c] = Idle] /\ UNCHANGED search
     \/ /\ StillRuns(s) /\ OpenRounds(s) # {}
        /\ \/ /\ w = "queued"
              /\ at' = [at EXCEPT ![c] = IF at[c].may = "nothing" THEN Idle
                                       ELSE [Idle EXCEPT !.step = "restart", !.s = s, !.round = n]]
              /\ UNCHANGED <<search, rounds>>
           \/ /\ w = "running"
              /\ at' = [at EXCEPT ![c] = Idle] /\ UNCHANGED <<search, rounds>>
           \/ w = "completed" /\ \E r \in Reports : TakeIn(c, s, n, r)
           \/ w = "failed" /\ Fail(c, s, n)
  /\ UNCHANGED <<told, exits>>

\* _delegate_round: the assignment is created and its coroutine scheduled, or
\* the team refuses it.
Delegate(c) ==
  /\ at[c].step = "delegate"
  /\ \E next \in {"attach", "abandon"} : at' = [at EXCEPT ![c].step = next]
  /\ UNCHANGED <<search, rounds, told, exits>>

\* _attach_assignment, whatever has become of the round and of the search.
Attach(c) ==
  /\ at[c].step = "attach"
  /\ rounds' = [rounds EXCEPT ![at[c].s][at[c].round].work =
                  [status |-> "queued", by |-> Process(c)]]
  /\ at' = [at EXCEPT ![c] = Idle]
  /\ UNCHANGED <<search, told, exits>>

Abandon(c) ==
  /\ at[c].step = "abandon"
  /\ rounds' = [rounds EXCEPT ![at[c].s][at[c].round].status = "abandoned"]
  /\ at' = [at EXCEPT ![c] = Idle]
  /\ UNCHANGED <<search, told, exits>>

\* restart_queued: a coroutine of this process carries the row, if it is
\* still queued.
Restart(c) ==
  LET s == at[c].s
      n == at[c].round IN
  /\ at[c].step = "restart"
  /\ rounds' = IF rounds[s][n].work.status = "queued"
               THEN [rounds EXCEPT ![s][n].work.by = Process(c)] ELSE rounds
  /\ at' = [at EXCEPT ![c] = Idle]
  /\ UNCHANGED <<search, told, exits>>

\* The caller whose step ended the search has the result: the server says it,
\* start() drops it and the command line prints it.
Tell(c) ==
  /\ at[c].step = "tell"
  /\ told' = [told EXCEPT ![at[c].s] = @ + 1]
  /\ at' = [at EXCEPT ![c] = Idle]
  /\ UNCHANGED <<search, rounds, exits>>

-----------------------------------------------------------------------------
(* The assignments, and processes that stop.                               *)

\* The open rounds of searches that run: what becomes of the assignment of an
\* abandoned round, or of a search that is over, is never read.
Open(s, n) == Running(s) /\ n \in OpenRounds(s)

\* The coroutine passes the gate and claims the row, or leaves it queued.
RunStarts(s, n) ==
  LET w == rounds[s][n].work IN
  /\ Open(s, n) /\ w.status = "queued" /\ w.by # None
  /\ rounds' = [rounds EXCEPT ![s][n].work = IF spending THEN [w EXCEPT !.status = "running"]
                                                         ELSE [w EXCEPT !.by = None]]
  /\ UNCHANGED <<search, at, told, exits>>

Ended(status) == [status |-> status, by |-> None]

RunEnds(s, n) ==
  LET w == rounds[s][n].work IN
  /\ Open(s, n) /\ w.status = "running" /\ w.by # None
  /\ \E status \in {"completed", "failed"} : rounds' = [rounds EXCEPT ![s][n].work = Ended(status)]
  /\ UNCHANGED <<search, at, told, exits>>

\* A process stops with its coroutines.  The server's next start fails every
\* row that runs and takes up those queued (recover_interrupted); nobody does
\* that for the command line.
Exit(p) ==
  /\ exits < MaxExits /\ p \in MayExit
  /\ exits' = exits + 1
  /\ at' = [c \in Callers |-> IF Process(c) = p THEN Idle ELSE at[c]]
  /\ rounds' = [s \in Searches |-> [n \in DOMAIN rounds[s] |->
       LET w == rounds[s][n].work IN
       IF ~Open(s, n) THEN rounds[s][n]
       ELSE [rounds[s][n] EXCEPT !.work =
               IF p = "cli" THEN (IF w.by = p THEN [w EXCEPT !.by = None] ELSE w)
               ELSE IF w.status = "running" THEN Ended("failed")
               ELSE IF w.status = "queued" THEN [w EXCEPT !.by = p] ELSE w]]]
  /\ UNCHANGED <<search, told>>

CallerStep(c) ==
  \/ ReadSwitches(c) \/ Step(c) \/ Delegate(c) \/ Attach(c) \/ Abandon(c) \/ Restart(c) \/ Tell(c)

Drive ==
  \/ \E c \in Callers : Start(c) \/ CallerStep(c) \/ \E s \in Searches : Advance(c, s)
  \/ \E s \in Searches : Stop(s)
  \/ \E s \in Searches, n \in Rounds : RunStarts(s, n) \/ RunEnds(s, n)
  \/ \E p \in MayExit : Exit(p)

SearchNext == (Drive /\ UNCHANGED switches) \/ (Flip /\ UNCHANGED searchVars)

-----------------------------------------------------------------------------
(* Properties.                                                             *)

Completed(rs) == {n \in DOMAIN rs : rs[n].status = "completed"}
Topped(rs) == {n \in Completed(rs) : rs[n].top # None}
LastTop(rs) == IF Topped(rs) = {} THEN None ELSE rs[Max(Topped(rs))].top

\* A search counts each round it took in once and never more than it may have;
\* it leads with the idea of the last one that had any; it has at most one round
\* open; and it fails only after two failures in a row or when its attempts are
\* used up.  Several callers advance it, each from switches read before its
\* transaction, and a round may be abandoned while its delegation is under way.
SearchAddsUp ==
  \A s \in Searches :
    /\ search[s].done = Cardinality(Completed(rounds[s])) /\ search[s].done <= Limits[s]
    /\ search[s].best = LastTop(rounds[s])
    /\ Cardinality(OpenRounds(s)) <= 1
    /\ search[s].status = "failed" => LastTwoFailed(rounds[s]) \/ Len(rounds[s]) = Attempts(s)

\* The end of a search is told by one caller at most, the one whose transaction
\* brought it about, and a search that Alex stopped by none (_finish).
ToldOnce ==
  \A s \in Searches :
    told[s] + Cardinality({c \in Callers : at[c].step = "tell" /\ at[c].s = s})
      <= IF search[s].status \in {"completed", "failed"} THEN 1 ELSE 0

SearchIsSound == SearchAddsUp /\ ToldOnce

\* What is over stays as it ended: no late caller counts a report into it,
\* changes its idea or claims a round of it (advance, stop).
OverStays ==
  [][\A s \in Searches :
       Over(s) => search'[s] = search[s] /\ Len(rounds'[s]) = Len(rounds[s])]_<<search, rounds>>

\* Once the company runs and may spend, a search comes to its end, wherever the
\* server stopped, whatever round could not be delegated and whichever
\* assignment was left queued at the closed gate (run_product_search_loop).
SearchEnds == OpenForGood => \A s \in Searches : Running(s) ~> Over(s)
=============================================================================
