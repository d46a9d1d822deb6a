------------------------------- MODULE Reviews -------------------------------
(***************************************************************************)
(* Performance reviews: Gary reviews his people and Alex, his people       *)
(* review him.                                                             *)
(*                                                                         *)
(* A review is read, judged by a model and stored, with nothing held in    *)
(* between.  The daily round decides who is due when it begins and then    *)
(* goes through them one at a time, while Gary's own tool may write a      *)
(* review of anybody at any moment.                                        *)
(***************************************************************************)
EXTENDS Integers, Sequences, FiniteSets

CONSTANTS Staff,             \* the employees, in the order of the roster
          Gary, Alex,        \* GARY_ACTOR, USER_ACTOR
          Interval,          \* REVIEW_INTERVAL_DAYS
          RoundLimit,        \* MAX_REVIEWS_PER_ROUND
          MaxReviews, MaxReviewDay  \* bounds on rows and days

Employees == {Staff[i] : i \in DOMAIN Staff}
People == Employees \union {Gary, Alex}

ASSUME ReviewAssumption ==
  /\ {Interval, RoundLimit, MaxReviews, MaxReviewDay} \subseteq Nat
  /\ Gary # Alex /\ {Gary, Alex} \cap Employees = {}
  /\ Staff \in Seq(Employees) /\ \A i, j \in DOMAIN Staff : i # j => Staff[i] # Staff[j]

VARIABLES
  rows,       \* performance_reviews
  worked,     \* who has enough of a record
  today,
  round,      \* the places of the pairs a round has still to go through
  judging     \* the review being judged by the round and by the tool

reviewVars == <<rows, worked, today, round, judging>>

Pair == People \X People        \* subject and reviewer
Nobody == <<Alex, Alex>>
Writers == {"round", "tool"}

\* The order of a round: the employees, Alex, then whoever owes Gary one.
Places == 1 .. 2 * Len(Staff) + 1
PairAt(k) ==
  IF k <= Len(Staff) THEN <<Staff[k], Gary>>
  ELSE IF k = Len(Staff) + 1 THEN <<Alex, Gary>>
  ELSE <<Gary, Staff[k - (Len(Staff) + 1)]>>

ReviewTypeOK ==
  /\ \A i \in DOMAIN rows :
       rows[i] \in [pair : Pair, by : Writers, day : 0 .. MaxReviewDay, answered : BOOLEAN]
  /\ worked \subseteq Employees \union {Alex} /\ today \in 0 .. MaxReviewDay
  /\ round \subseteq Places /\ judging \in [Writers -> Pair]

ReviewInit ==
  /\ rows = <<>> /\ worked = {} /\ today = 0 /\ round = {}
  /\ judging = [w \in Writers |-> Nobody]

-----------------------------------------------------------------------------
(* Who is due.                                                             *)

\* Mutant of ReviewedRecently: only the subject's own reviewer counts, so an
\* upward review is owed every day.
GaryReviewed(pair) ==
  \E i \in DOMAIN rows : rows[i].pair = pair /\ pair[2] = Gary /\ rows[i].day >= today - Interval

ReviewedRecently(pair) == \E i \in DOMAIN rows : rows[i].pair = pair /\ rows[i].day >= today - Interval

Owed(pair) ==
  /\ (IF pair[1] = Gary THEN pair[2] ELSE pair[1]) \in worked
  /\ ~ReviewedRecently(pair)

\* run_all_due: the first RoundLimit of those that are owed.
OwedPlaces == {k \in Places : Owed(PairAt(k))}
Planned == {k \in OwedPlaces : Cardinality({j \in OwedPlaces : j < k}) < RoundLimit}

-----------------------------------------------------------------------------
(* run: facts, judgment, record.                                           *)

\* Gary does not review himself and nobody but him reviews anybody else; of Gary
\* there is always something to say.
Allowed(pair) ==
  /\ (pair[1] = Gary) <=> (pair[2] # Gary)
  /\ pair[1] # Gary => pair[1] \in worked

RoundBegins ==
  /\ round = {} /\ judging["round"] = Nobody /\ Planned # {}
  /\ round' = Planned
  /\ UNCHANGED <<rows, worked, today, judging>>

RoundJudges ==
  \E k \in round :
    /\ \A j \in round : k <= j
    /\ judging["round"] = Nobody /\ round' = round \ {k}
    /\ judging' = IF Allowed(PairAt(k)) THEN [judging EXCEPT !["round"] = PairAt(k)] ELSE judging
    /\ UNCHANGED <<rows, worked, today>>

\* performance_write_review: Gary is the reviewer.
ToolJudges(subject) ==
  /\ judging["tool"] = Nobody /\ Allowed(<<subject, Gary>>)
  /\ judging' = [judging EXCEPT !["tool"] = <<subject, Gary>>]
  /\ UNCHANGED <<rows, worked, today, round>>

\* The judgment is stored, or it fails: the model, or validate_judgment.
Judged(w) ==
  /\ judging[w] # Nobody /\ judging' = [judging EXCEPT ![w] = Nobody]
  /\ \/ /\ Len(rows) < MaxReviews
        /\ rows' = Append(rows, [pair |-> judging[w], by |-> w, day |-> today, answered |-> FALSE])
     \/ UNCHANGED rows
  /\ UNCHANGED <<worked, today, round>>

\* acknowledge: a review of Gary, once.
Acknowledge(i) ==
  /\ rows[i].pair[1] = Gary /\ ~rows[i].answered
  /\ rows' = [rows EXCEPT ![i].answered = TRUE]
  /\ UNCHANGED <<worked, today, round, judging>>

Works(p) ==
  /\ p \notin worked /\ worked' = worked \union {p}
  /\ UNCHANGED <<rows, today, round, judging>>

ReviewDayPasses ==
  /\ today < MaxReviewDay /\ today' = today + 1
  /\ UNCHANGED <<rows, worked, round, judging>>

\* The server stops; the day's report was not recorded, so the next pass begins
\* the round again.
ReviewsCutOff ==
  /\ <<round, judging>> # <<{}, [w \in Writers |-> Nobody]>>
  /\ round' = {} /\ judging' = [w \in Writers |-> Nobody]
  /\ UNCHANGED <<rows, worked, today>>

ReviewNext ==
  \/ RoundBegins \/ RoundJudges \/ ReviewDayPasses \/ ReviewsCutOff
  \/ \E p \in People : ToolJudges(p)
  \/ \E w \in Writers : Judged(w)
  \/ \E i \in DOMAIN rows : Acknowledge(i)
  \/ \E p \in Employees \union {Alex} : Works(p)

-----------------------------------------------------------------------------
(* Properties.                                                             *)

\* No two reviews of one pair that the rounds wrote lie within the interval, however
\* often a round is cut off, begun again or overtaken by another (run_review_round:
\* "a subject ... reviewed inside REVIEW_INTERVAL_DAYS, is not reviewed again").
ReviewsAreSpaced ==
  \A i, j \in DOMAIN rows :
    (i < j /\ rows[i].pair = rows[j].pair /\ rows[i].by = "round" /\ rows[j].by = "round")
      => rows[j].day - rows[i].day > Interval
=============================================================================
