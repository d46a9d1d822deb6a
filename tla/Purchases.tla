------------------------------ MODULE Purchases ------------------------------
(***************************************************************************)
(* Catherine's card and the purchases she asks for.                        *)
(*                                                                         *)
(* A request leaves a specialist's run through the tool gateway            *)
(* (gary/agents/gateway.py), which counts every call before it is made and *)
(* never takes one back; it becomes a card_purchase action, checked against*)
(* the card and the month (gary/finance/purchases.py) when it is proposed  *)
(* and again when it is executed after Alex's approval.  Alex changes the  *)
(* card on a web page meanwhile (gary/finance/cards.py): the row is one    *)
(* transaction, the encrypted number a file beside it.                     *)
(*                                                                         *)
(* Time is the calendar month.  A request may be approved for 72 hours, so *)
(* in the month it was made or in the next.  It is dated before the        *)
(* database lets it in and checked after, so the month may turn between.   *)
(***************************************************************************)
EXTENDS Integers, Sequences, FiniteSets

CONSTANTS
    Amounts,            \* what is asked for, in cents
    PER_PURCHASE,       \* the limit on one purchase
    MONTHLY,            \* the limit on a calendar month
    Buyers,             \* Catherine's runs: [id, review], review when a review asked for it
    MAX_REQUESTS,       \* requests one run may make
    MAX_TOOL_CALLS,     \* calls of any tool one run may make
    Cards,              \* cards Alex may enter: [id, last], last the month it is good for
    MaxMonth,           \* bound on the months that pass
    MaxRemovals,        \* bound on the removals under way at once
    MaxCrashes          \* bound on the stops of the server

ASSUME PurchasesAssumption ==
    /\ Amounts \subseteq Nat \ {0}
    /\ \A r \in Buyers : r.review \in BOOLEAN
    /\ PER_PURCHASE \in Nat /\ MONTHLY \in Nat
    /\ PER_PURCHASE > 0 /\ PER_PURCHASE <= MONTHLY
    /\ MAX_REQUESTS \in Nat /\ MAX_TOOL_CALLS \in Nat
    /\ MaxMonth \in Nat \ {0} /\ MaxRemovals \in Nat /\ MaxCrashes \in Nat

NoCard == [id |-> "none", last |-> 0]

VARIABLES
    month,      \* the calendar month
    card,       \* the row of the current card, with its status
    vault,      \* the card whose number the file holds
    erasing,    \* removals that have committed and not yet deleted the file
    purchases,  \* the card_purchase actions, in the order they were proposed
    calls,      \* per run: the calls of any tool, and those of this one
    asking,     \* calls between the gateway's count and the proposal, with
                \* the month they are dated, 0 before they are
    ended,      \* runs that were stopped, or died with the server
    crashes     \* stops of the server so far

purchaseVars == <<month, card, vault, erasing, purchases, calls, asking, ended, crashes>>

PurchasesInit ==
    /\ month = 1
    /\ card = [of |-> NoCard, status |-> "removed"]
    /\ vault = NoCard
    /\ erasing = 0
    /\ purchases = <<>>
    /\ calls = [r \in Buyers |-> [tools |-> 0, asks |-> 0]]
    /\ asking = {}
    /\ ended = {}
    /\ crashes = 0

Requests == DOMAIN purchases

(***************************************************************************)
(* The checks.                                                             *)
(***************************************************************************)
Counted == {"awaiting_approval", "approved", "executing", "succeeded"}

\* What those of the requests that are in S add up to.
AmountOf(requests, S) ==
    LET upTo[n \in 0 .. Len(requests)] ==
          IF n = 0 THEN 0
          ELSE IF n \in S THEN upTo[n - 1] + requests[n].amount ELSE upTo[n - 1]
    IN  upTo[Len(requests)]

\* Mutant of Committed: a request counts only once Alex has approved it.
ApprovedOnly(m, own) ==
    {i \in Requests : /\ purchases[i].month >= m /\ i # own
                      /\ purchases[i].status \in Counted \ {"awaiting_approval"}}

\* The month's requests that still count, leaving one out.
Committed(m, own) ==
    {i \in Requests : purchases[i].month >= m /\ purchases[i].status \in Counted /\ i # own}

MayBuy(amount, own) ==
    /\ card.status = "active"
    /\ month <= card.of.last
    /\ amount <= PER_PURCHASE
    /\ AmountOf(purchases, Committed(month, own)) + amount <= MONTHLY

(***************************************************************************)
(* A run asks.  The gateway counts the call and then awaits; what happens  *)
(* to the run meanwhile does not stop a call that is under way.            *)
(***************************************************************************)
\* Mutant of CallTool: a run that has used a budget up may call once more.
CallToolPastBudget(r, amount) ==
    /\ r \notin ended
    /\ calls[r].tools <= MAX_TOOL_CALLS
    /\ calls[r].asks <= MAX_REQUESTS
    /\ calls' = [calls EXCEPT ![r].tools = @ + 1, ![r].asks = @ + 1]
    /\ asking' = asking \union {[run |-> r, call |-> calls[r].asks, amount |-> amount,
                                  dated |-> 0]}
    /\ UNCHANGED <<month, card, vault, erasing, purchases, ended, crashes>>

\* ToolGateway.call: both budgets are looked at and charged in one go.
CallTool(r, amount) ==
    /\ r \notin ended
    /\ calls[r].tools < MAX_TOOL_CALLS
    /\ calls[r].asks < MAX_REQUESTS
    /\ calls' = [calls EXCEPT ![r].tools = @ + 1, ![r].asks = @ + 1]
    /\ asking' = asking \union {[run |-> r, call |-> calls[r].asks, amount |-> amount,
                                  dated |-> 0]}
    /\ UNCHANGED <<month, card, vault, erasing, purchases, ended, crashes>>

CallOther(r) ==
    /\ r \notin ended
    /\ calls[r].tools < MAX_TOOL_CALLS
    /\ calls' = [calls EXCEPT ![r].tools = @ + 1]
    /\ UNCHANGED <<month, card, vault, erasing, purchases, asking, ended, crashes>>

\* The run is told to stop: no further call, and no word to one under way.
\* (One that has no call left has nothing to be stopped from.)
StopRun(r) ==
    /\ r \notin ended /\ calls[r].tools < MAX_TOOL_CALLS
    /\ ended' = ended \union {r}
    /\ UNCHANGED <<month, card, vault, erasing, purchases, calls, asking, crashes>>

\* request_card_purchase: a review's run is refused; for any other propose
\* reads the clock, and then waits for the database.
DateRequest(a) ==
    /\ a \in asking /\ a.dated = 0
    /\ asking' = (asking \ {a})
                    \union (IF a.run.review THEN {} ELSE {[a EXCEPT !.dated = month]})
    /\ UNCHANGED <<month, card, vault, erasing, purchases, calls, ended, crashes>>

\* What does not pass the check, which reads the clock again, is refused; the
\* rest waits for Alex.
ProposePurchase(a) ==
    /\ a \in asking /\ a.dated > 0
    /\ asking' = asking \ {a}
    /\ purchases' =
         IF MayBuy(a.amount, 0)
           THEN Append(purchases, [amount |-> a.amount, month |-> a.dated, checked |-> month,
                                   run |-> a.run, status |-> "awaiting_approval",
                                   approved |-> 0, server |-> 0])
           ELSE purchases
    /\ UNCHANGED <<month, card, vault, erasing, calls, ended, crashes>>

(***************************************************************************)
(* Alex decides, on the web page only.  Deciding first expires what has    *)
(* waited for 72 hours.                                                    *)
(***************************************************************************)
Fresh(i) == month <= purchases[i].month + 1

ApprovePurchase(i) ==
    /\ purchases[i].status = "awaiting_approval"
    /\ Fresh(i)
    /\ purchases' = [purchases EXCEPT ![i].status = "approved", ![i].approved = month,
                                       ![i].server = crashes]
    /\ UNCHANGED <<month, card, vault, erasing, calls, asking, ended, crashes>>

\* A refusal, or an expiry after the 72 hours whatever the month.
RefusePurchase(i) ==
    /\ purchases[i].status = "awaiting_approval"
    /\ purchases' = [purchases EXCEPT ![i].status = "cancelled"]
    /\ UNCHANGED <<month, card, vault, erasing, calls, asking, ended, crashes>>

\* What was approved is carried out by the request that approved it, and by
\* nobody after a stop.
CarriesOn(i) == purchases[i].server = crashes

\* The claim and the second check are one transaction.
ClaimPurchase(i) ==
    /\ purchases[i].status = "approved"
    /\ CarriesOn(i)
    /\ purchases' = [purchases EXCEPT ![i].status =
                        IF MayBuy(purchases[i].amount, i) THEN "executing" ELSE "failed"]
    /\ UNCHANGED <<month, card, vault, erasing, calls, asking, ended, crashes>>

\* record: nothing is charged.  The card named is the one found now.
RecordPurchase(i) ==
    /\ purchases[i].status = "executing"
    /\ CarriesOn(i)
    /\ purchases' = [purchases EXCEPT ![i].status = "succeeded"]
    /\ UNCHANGED <<month, card, vault, erasing, calls, asking, ended, crashes>>

(***************************************************************************)
(* Alex's card.                                                            *)
(***************************************************************************)
\* A stop loses what is under way and the runs that had begun.
Dies ==
    /\ crashes < MaxCrashes
    /\ crashes' = crashes + 1
    /\ asking' = {}
    /\ erasing' = 0
    /\ ended' = ended \union {r \in Buyers : calls[r].tools > 0}

\* The file is written inside the transaction; a stop before the commit
\* leaves the file and loses the row.
AddCard(c) ==
    /\ month <= c.last
    /\ vault' = c
    /\ \/ /\ card' = [of |-> c, status |-> "active"]
          /\ UNCHANGED <<asking, erasing, ended, crashes>>
       \/ Dies /\ UNCHANGED card
    /\ UNCHANGED <<month, purchases, calls>>

SetFrozen ==
    /\ card.status # "removed"
    /\ card' = [card EXCEPT !.status = IF card.status = "active" THEN "frozen" ELSE "active"]
    /\ UNCHANGED <<month, vault, erasing, purchases, calls, asking, ended, crashes>>

\* The row is removed and committed; the file goes afterwards.
RemoveCard ==
    /\ card.status # "removed"
    /\ erasing < MaxRemovals
    /\ card' = [card EXCEPT !.status = "removed"]
    /\ erasing' = erasing + 1
    /\ UNCHANGED <<month, vault, purchases, calls, asking, ended, crashes>>

DeleteNumber ==
    /\ erasing > 0
    /\ erasing' = erasing - 1
    /\ vault' = NoCard
    /\ UNCHANGED <<month, card, purchases, calls, asking, ended, crashes>>

NextMonth ==
    /\ month < MaxMonth
    /\ month' = month + 1
    /\ UNCHANGED <<card, vault, erasing, purchases, calls, asking, ended, crashes>>

ServerDies ==
    /\ Dies
    /\ UNCHANGED <<month, card, vault, purchases, calls>>

PurchasesNext ==
    \/ \E r \in Buyers : \/ CallOther(r) \/ StopRun(r)
                        \/ \E amount \in Amounts : CallTool(r, amount)
    \/ \E a \in asking : DateRequest(a) \/ ProposePurchase(a)
    \/ \E i \in Requests : \/ ApprovePurchase(i) \/ RefusePurchase(i)
                           \/ ClaimPurchase(i) \/ RecordPurchase(i)
    \/ \E c \in Cards : AddCard(c)
    \/ SetFrozen \/ RemoveCard \/ DeleteNumber
    \/ NextMonth \/ ServerDies

(***************************************************************************)
(* Properties.                                                             *)
(***************************************************************************)
PurchasesTypeOK ==
    /\ month \in 1 .. MaxMonth
    /\ card \in [of : Cards \union {NoCard}, status : {"active", "frozen", "removed"}]
    /\ vault \in Cards \union {NoCard}
    /\ erasing \in 0 .. MaxRemovals
    /\ purchases \in Seq([amount : Amounts, month : 1 .. MaxMonth, checked : 1 .. MaxMonth,
                          run : Buyers, status : Counted \union {"failed", "cancelled"}, approved : 0 .. MaxMonth,
                          server : 0 .. MaxCrashes])
    /\ calls \in [Buyers -> [tools : 0 .. MAX_TOOL_CALLS, asks : 0 .. MAX_REQUESTS]]
    /\ ended \subseteq Buyers /\ crashes \in 0 .. MaxCrashes
    /\ asking \subseteq [run : Buyers, call : 0 .. MAX_REQUESTS, amount : Amounts,
                        dated : 0 .. MaxMonth]

\* Requests the month turned over: dated in one and checked against the next,
\* where nothing dated in the old one is counted.
Straddling == {i \in Requests : purchases[i].checked # purchases[i].month}

\* What was asked for in one month and not refused stays within the month's
\* limit, however requests of several runs, approvals and months interleave.
\* Only requests that waited for the database at the turn of the month come on
\* top of it.
MonthIsCapped ==
    \A m \in 1 .. month :
        AmountOf(purchases,
                 {i \in Requests \ Straddling :
                     purchases[i].month = m /\ purchases[i].status \in Counted})
            <= MONTHLY

\* A month counts what was asked for in it, not what was approved in it, so
\* the turn of a month lets two months' limits be approved in one, and no more.
ApprovalsAreCapped ==
    \A m \in 1 .. month :
        AmountOf(purchases,
                 {i \in Requests \ Straddling :
                     purchases[i].approved = m /\ purchases[i].status \in Counted})
            <= 2 * MONTHLY

\* No run asks more often than it may, and a review's run never does, though
\* calls overlap and a stop forgets those under way.
RunsAskWithinBudget ==
    \A r \in Buyers :
        Cardinality({i \in Requests : purchases[i].run = r})
            <= IF r.review THEN 0 ELSE MAX_REQUESTS

\* When Alex has taken the card away and no removal is still under way, its
\* number is gone too, unless the server stopped in between.
RemovedCardIsErased ==
    card.status = "removed" /\ erasing = 0 /\ crashes = 0 => vault = NoCard

PurchasesAreSound ==
    MonthIsCapped /\ ApprovalsAreCapped /\ RunsAskWithinBudget /\ RemovedCardIsErased
=============================================================================
