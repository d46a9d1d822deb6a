--------------------------- MODULE UnattendedProofs ---------------------------
(***************************************************************************)
(* Proofs about what works while Alex does nothing, for any inbox, events, *)
(* clocks and bounds.                                                      *)
(*                                                                         *)
(* A behaviour follows one component and the others stand still, so the    *)
(* invariant of the whole says of the part that runs what its own          *)
(* invariant says: OperatingInv, LoopInv, SearchInv, VoiceInv.             *)
(***************************************************************************)
EXTENDS MCUnattended, SearchProofs

-----------------------------------------------------------------------------
(* Mailed commands.                                                        *)

done == ToSet(applied)
todo == ToSet(poll.todo)
InTime == {p \in MailIds \X MailIds : Earlier(p[1], p[2])}

OperatingTypes ==
  /\ OperatingTypeOK
  /\ poll \in [at : {"asleep", "apply", "advance", "tell"}, todo : Seq(MailIds)]
  /\ paused \in BOOLEAN

\* Ids are given in the order of arrival; a pass holds messages in the order of
\* their dates; what was carried out are commands.
Messages ==
  /\ \A i \in Here : 1 .. i - 1 \subseteq Here
  /\ todo \subseteq Here /\ Ascends(poll.todo, InTime)
  /\ done \subseteq {i \in Here : IsCommand(i)}

\* Where the head of the pass stands.
Stage ==
  /\ poll.at = "advance" => /\ Head(poll.todo) \in done
                            /\ cursor < mail[Head(poll.todo)].date
                            /\ paused = (mail[Head(poll.todo)].does = "pause")
  /\ poll.at = "tell" => mail[Head(poll.todo)].date <= cursor

\* A pass holds every message past the cursor that Gmail would still list and that
\* was carried out already, or came before one it holds.
Whole ==
  poll.at # "asleep" =>
    \A j \in Listed :
      (cursor < mail[j].date /\ (j \in done \/ \E k \in todo : j < k)) => j \in todo

\* Of one millisecond, what was carried out came first, of all that can still be.
FirstOfDate ==
  \A i \in done : \A j \in 1 .. i - 1 :
    mail[j].date = mail[i].date => j \notin Listed /\ j \notin todo

\* The newest of what was carried out.
NewestOf(D) == {i \in D : \A j \in D : mail[j].date <= mail[i].date}

OperatingInv ==
  OperatingTypes /\ Messages /\ Stage /\ Whole /\ FirstOfDate /\ NewestCommandHolds

LEMMA Dated ==
  ASSUME OperatingTypes
  PROVE  /\ MailIds \subseteq Nat /\ IsFiniteSet(MailIds) /\ cursor \in Nat
         /\ \A i \in MailIds : mail[i].date \in Nat
         /\ Here \subseteq MailIds /\ Listed \subseteq Here
<1>1. MailIds \subseteq Nat /\ IsFiniteSet(MailIds)
  BY OperatingAssumption, FS_Interval DEF MailIds
<1>2. \A i \in MailIds : mail[i].date \in Nat
  BY OperatingAssumption DEF OperatingTypes, OperatingTypeOK, Message, NoMail
<1>3. cursor \in Nat
  BY OperatingAssumption DEF OperatingTypes, OperatingTypeOK
<1> QED  BY <1>1, <1>2, <1>3 DEF Here, Listed

\* Messages have an order: by date, and by arrival among those of one date.
LEMMA MailOrder ==
  ASSUME OperatingTypes, NEW S \in SUBSET MailIds
  PROVE  IsOrder(InTime, S) /\ IsTotal(InTime, S)
<1>1. \A i, j \in S : <<i, j>> \in InTime <=> Earlier(i, j)
  BY DEF InTime
<1>2. \A i \in S : i \in Nat /\ mail[i].date \in Nat
  BY Dated
<1>3. \A i, j \in S : i = j \/ Earlier(i, j) \/ Earlier(j, i)
  BY <1>2 DEF Earlier
<1>4. \A i \in S : <<i, i>> \notin InTime
  BY <1>1, <1>2 DEF Earlier
<1>5. \A i, j, k \in S : Earlier(i, j) /\ Earlier(j, k) => Earlier(i, k)
  BY <1>2 DEF Earlier
<1> QED  BY <1>1, <1>3, <1>4, <1>5 DEF IsOrder, IsTotal

\* What a pass reads: all that is listed past the cursor, oldest first.
LEMMA FetchedHas ==
  ASSUME OperatingTypes
  PROVE  /\ Fetched(cursor) \in Seq(MailIds)
         /\ ToSet(Fetched(cursor)) = {i \in Listed : mail[i].date > cursor}
         /\ Ascends(Fetched(cursor), InTime)
<1> DEFINE S == {i \in Listed : mail[i].date > cursor}
           s == Fetched(cursor)
<1>1. S \subseteq MailIds /\ IsFiniteSet(S)
  BY Dated, FS_Subset
<1>2. IsOrder(InTime, S) /\ IsTotal(InTime, S)
  BY <1>1, MailOrder
<1>3. /\ Cardinality(S) \in Nat
      /\ \E r \in [1 .. Cardinality(S) -> S] : Ascends(r, InTime)
      /\ \A r \in [1 .. Cardinality(S) -> S] :
           Ascends(r, InTime) => \A x \in S : \E a \in 1 .. Cardinality(S) : r[a] = x
  BY <1>1, <1>2, Listing
<1>4. \A r \in [1 .. Cardinality(S) -> S] :
        Ascends(r, InTime) <=> \A a, b \in DOMAIN r : a < b => Earlier(r[a], r[b])
  BY <1>1 DEF Ascends, InTime
<1>5. s = CHOOSE r \in [1 .. Cardinality(S) -> S] : \A a, b \in DOMAIN r : a < b => Earlier(r[a], r[b])
  BY DEF Fetched, OldestFirst
<1> HIDE DEF S, s
<1>6. s \in [1 .. Cardinality(S) -> S] /\ Ascends(s, InTime)
  BY <1>3, <1>4, <1>5
<1>7. s \in Seq(MailIds) /\ ToSet(s) = S
  <2>1. s \in Seq(S)
    BY <1>3, <1>6, SeqDef
  <2>2. s \in Seq(MailIds)
    BY <2>1, <1>1, SeqMonotonic
  <2>3. \A x \in S : \E a \in 1 .. Cardinality(S) : s[a] = x
    BY <1>3, <1>6
  <2> QED  BY <1>6, <2>2, <2>3 DEF ToSet
<1> QED  BY <1>6, <1>7 DEF S, s

\* The head of a pass, and what is left of the pass behind it.
Behind == NextMail(poll.todo)

LEMMA PassHead ==
  ASSUME OperatingTypes, Messages, poll.at # "asleep"
  PROVE  /\ Head(poll.todo) \in todo /\ Head(poll.todo) \in Here /\ Head(poll.todo) \in MailIds
         /\ \A i \in todo : i = Head(poll.todo) \/ Earlier(Head(poll.todo), i)
         /\ Behind \in [at : {"asleep", "apply"}, todo : Seq(MailIds)]
         /\ Behind.at = "asleep" <=> Behind.todo = <<>>
         /\ ToSet(Behind.todo) \subseteq todo
         /\ todo \subseteq ToSet(Behind.todo) \union {Head(poll.todo)}
         /\ Ascends(Behind.todo, InTime)
<1> DEFINE s == poll.todo
<1>1. s \in Seq(MailIds) /\ s # <<>>
  BY DEF OperatingTypes, OperatingTypeOK
<1>2. /\ Head(s) \in MailIds /\ Head(s) \in ToSet(s) /\ Head(s) = s[1] /\ Tail(s) \in Seq(MailIds)
      /\ Len(Tail(s)) = Len(s) - 1 /\ Len(s) \in Nat \ {0}
      /\ \A a \in 1 .. Len(s) - 1 : Tail(s)[a] = s[a + 1]
      /\ ToSet(s) = ToSet(Tail(s)) \union {Head(s)}
  BY <1>1, TailHas
<1>3. DOMAIN s = 1 .. Len(s) /\ DOMAIN Tail(s) = 1 .. Len(s) - 1
  BY <1>1, <1>2, LenProperties
<1>4. \A a, b \in 1 .. Len(s) : a < b => <<s[a], s[b]>> \in InTime
  BY <1>3 DEF Messages, Ascends
<1>5. Ascends(Tail(s), InTime)
  <2> SUFFICES ASSUME NEW a \in 1 .. Len(s) - 1, NEW b \in 1 .. Len(s) - 1, a < b
               PROVE  <<Tail(s)[a], Tail(s)[b]>> \in InTime
    BY <1>3 DEF Ascends
  <2>1. a + 1 \in 1 .. Len(s) /\ b + 1 \in 1 .. Len(s) /\ a + 1 < b + 1
    BY <1>2
  <2> QED  BY <2>1, <1>2, <1>4
<1>6. \A i \in todo : i = Head(s) \/ Earlier(Head(s), i)
  <2> SUFFICES ASSUME NEW i \in ToSet(s), i # Head(s) PROVE Earlier(Head(s), i)
    BY DEF todo
  <2>1. PICK a \in 1 .. Len(s) : i = s[a]
    BY <1>3 DEF ToSet
  <2>2. <<s[1], s[a]>> \in InTime
    BY <2>1, <1>2, <1>4
  <2> QED  BY <2>1, <2>2, <1>2 DEF InTime
<1>7. Ascends(<<>>, InTime)
  BY DEF Ascends
<1>8. ToSet(<<>>) = {} /\ <<>> \in Seq(MailIds)
  BY EmptyHas, EmptySeq
<1>9. Head(s) \in todo /\ todo = ToSet(Tail(s)) \union {Head(s)} /\ Head(s) \in Here
  BY <1>2 DEF todo, Messages
<1>10. CASE Tail(s) = <<>>
  <2>1. Behind = [at |-> "asleep", todo |-> <<>>]
    BY <1>10 DEF Behind, NextMail, Asleep
  <2> QED  BY <2>1, <1>2, <1>6, <1>7, <1>8, <1>9, <1>10
<1>11. CASE Tail(s) # <<>>
  <2>1. Behind = [at |-> "apply", todo |-> Tail(s)]
    BY <1>11 DEF Behind, NextMail
  <2> QED  BY <2>1, <1>2, <1>5, <1>6, <1>9, <1>11
<1> QED  BY <1>10, <1>11

\* What stays as it is while no message arrives.
LEMMA MailStays ==
  ASSUME mail' = mail
  PROVE  /\ Here' = Here /\ Listed' = Listed /\ InTime' = InTime
         /\ \A i : IsCommand(i)' = IsCommand(i)
         /\ \A i, j : Earlier(i, j)' = Earlier(i, j)
  BY DEF Here, Listed, Earlier, InTime, IsCommand

-----------------------------------------------------------------------------
(* Every step of the pass keeps the invariant.                             *)

LEMMA ReadingStep ==
  ASSUME OperatingInv, Poll
  PROVE  OperatingInv'
<1> USE DEF OperatingInv
<1>1. mail' = mail /\ paused' = paused /\ cursor' = cursor /\ stops' = stops /\ applied' = applied
      /\ poll' = [at |-> "apply", todo |-> Fetched(cursor)] /\ Fetched(cursor) # <<>>
  BY DEF Poll
<1>2. /\ Here' = Here /\ Listed' = Listed /\ InTime' = InTime
      /\ \A i : IsCommand(i)' = IsCommand(i)
  BY <1>1, MailStays
<1>3. /\ Fetched(cursor) \in Seq(MailIds)
      /\ ToSet(Fetched(cursor)) = {i \in Listed : mail[i].date > cursor}
      /\ Ascends(Fetched(cursor), InTime)
  BY FetchedHas
<1>4. done' = done /\ todo' = {i \in Listed : mail[i].date > cursor}
  BY <1>1, <1>3 DEF done, todo
<1>5. OperatingTypes'
  BY <1>1, <1>3 DEF OperatingTypes, OperatingTypeOK
<1>6. Messages'
  BY <1>1, <1>2, <1>3, <1>4 DEF Messages, Listed
<1>7. Stage'
  BY <1>1 DEF Stage
<1>8. Whole'
  <2>1. \A i \in MailIds : mail[i].date \in Nat /\ cursor \in Nat /\ Listed \subseteq MailIds
    BY Dated
  <2> QED  BY <1>1, <1>2, <1>4, <2>1 DEF Whole
<1>9. FirstOfDate'
  BY <1>1, <1>2, <1>4 DEF FirstOfDate
<1>10. NewestCommandHolds'
  BY <1>1, <1>2 DEF NewestCommandHolds
<1> QED  BY <1>5, <1>6, <1>7, <1>8, <1>9, <1>10

\* A step that ends the pass, or takes its head off, with the cursor past it.
LEMMA PassShrinks ==
  ASSUME OperatingInv, mail' = mail, applied' = applied, poll.at # "asleep",
         cursor' \in 0 .. MaxDate, cursor <= cursor', stops' \in 0 .. MaxStops, paused' \in BOOLEAN,
         poll' = Asleep \/ (poll' = Behind /\ mail[Head(poll.todo)].date <= cursor')
  PROVE  OperatingTypes' /\ Messages' /\ Stage' /\ Whole' /\ FirstOfDate'
<1> USE DEF OperatingInv
<1> DEFINE h == Head(poll.todo)
<1>1. /\ Here' = Here /\ Listed' = Listed /\ InTime' = InTime
      /\ \A i : IsCommand(i)' = IsCommand(i)
  BY MailStays
<1>2. /\ h \in MailIds
      /\ Behind \in [at : {"asleep", "apply"}, todo : Seq(MailIds)]
      /\ Behind.at = "asleep" <=> Behind.todo = <<>>
      /\ ToSet(Behind.todo) \subseteq todo /\ todo \subseteq ToSet(Behind.todo) \union {h}
      /\ Ascends(Behind.todo, InTime)
  BY PassHead
<1>3. /\ Asleep \in [at : {"asleep", "apply"}, todo : Seq(MailIds)]
      /\ Asleep.at = "asleep" /\ Asleep.todo = <<>> /\ ToSet(Asleep.todo) = {}
      /\ Ascends(Asleep.todo, InTime)
  BY EmptyHas, EmptySeq DEF Asleep, Ascends
<1>4. /\ poll' \in [at : {"asleep", "apply"}, todo : Seq(MailIds)]
      /\ poll'.at = "asleep" <=> poll'.todo = <<>>
      /\ todo' \subseteq todo /\ Ascends(poll'.todo, InTime)
  BY <1>2, <1>3 DEF todo
<1>5. done' = done
  BY DEF done
<1>6. OperatingTypes'
  BY <1>4 DEF OperatingTypes, OperatingTypeOK
<1>7. Messages'
  BY <1>1, <1>4, <1>5 DEF Messages
<1>8. Stage'
  BY <1>4 DEF Stage
<1>9. Whole'
  <2> SUFFICES ASSUME poll'.at # "asleep", NEW j \in Listed, cursor' < mail[j].date,
                      j \in done \/ \E k \in todo' : j < k
               PROVE  j \in todo'
    BY <1>1, <1>5 DEF Whole
  <2>1. poll' = Behind /\ mail[h].date <= cursor'
    BY <1>3
  <2>2. /\ mail[j].date \in Nat /\ mail[h].date \in Nat /\ cursor \in Nat /\ cursor' \in Nat
    BY <1>2, Dated, OperatingAssumption
  <2>3. cursor < mail[j].date /\ j # h
    BY <2>1, <2>2
  <2>4. j \in todo
    BY <1>4, <2>3 DEF Whole
  <2> QED  BY <1>2, <2>1, <2>3, <2>4 DEF todo
<1>10. FirstOfDate'
  BY <1>1, <1>4, <1>5 DEF FirstOfDate
<1> QED  BY <1>6, <1>7, <1>8, <1>9, <1>10

LEMMA SkipReadStep ==
  ASSUME OperatingInv, SkipRead
  PROVE  OperatingInv'
<1> USE DEF OperatingInv
<1>1. mail' = mail /\ paused' = paused /\ cursor' = cursor /\ stops' = stops /\ applied' = applied
      /\ poll' = Behind /\ mail[Head(poll.todo)].date <= cursor /\ poll.at = "apply"
  BY DEF SkipRead, AlreadyRead, Behind
<1>2. cursor \in 0 .. MaxDate /\ cursor <= cursor /\ stops \in 0 .. MaxStops /\ paused \in BOOLEAN
  BY OperatingAssumption DEF OperatingTypes, OperatingTypeOK
<1>3. OperatingTypes' /\ Messages' /\ Stage' /\ Whole' /\ FirstOfDate'
  BY <1>1, <1>2, PassShrinks
<1>4. NewestCommandHolds'
  BY <1>1, MailStays DEF NewestCommandHolds
<1> QED  BY <1>3, <1>4

LEMMA TellStep ==
  ASSUME OperatingInv, TellAlex \/ ServerStops
  PROVE  OperatingInv'
<1> USE DEF OperatingInv
<1>1. mail' = mail /\ paused' = paused /\ cursor' = cursor /\ applied' = applied
  BY DEF TellAlex, ServerStops
<1>2. cursor \in 0 .. MaxDate /\ cursor <= cursor /\ paused \in BOOLEAN
  BY OperatingAssumption DEF OperatingTypes, OperatingTypeOK
<1>3. OperatingTypes' /\ Messages' /\ Stage' /\ Whole' /\ FirstOfDate'
  <2>1. CASE TellAlex
    <3>1. stops' \in 0 .. MaxStops /\ poll.at # "asleep"
      BY <2>1 DEF TellAlex, OperatingTypes, OperatingTypeOK
    <3>2. poll' = Asleep \/ (poll' = Behind /\ mail[Head(poll.todo)].date <= cursor)
      BY <2>1 DEF TellAlex, Stage, Behind
    <3> QED  BY <1>1, <1>2, <3>1, <3>2, PassShrinks
  <2>2. CASE ServerStops
    <3>1. stops' \in 0 .. MaxStops
      BY <2>2, OperatingAssumption DEF ServerStops, OperatingTypes, OperatingTypeOK
    <3>2. poll.at # "asleep" /\ poll' = Asleep
      BY <2>2 DEF ServerStops, OperatingTypes, OperatingTypeOK, Asleep
    <3> QED  BY <1>1, <1>2, <3>1, <3>2, PassShrinks
  <2> QED  BY <2>1, <2>2
<1>4. NewestCommandHolds'
  BY <1>1, MailStays DEF NewestCommandHolds
<1> QED  BY <1>3, <1>4

\* What the cursor has passed without its being done can only have been older than
\* every message that still waits to be done again.
LEMMA RefuseStep ==
  ASSUME OperatingInv, Refuse
  PROVE  OperatingInv'
<1> USE DEF OperatingInv
<1> DEFINE h == Head(poll.todo)
<1>1. /\ mail' = mail /\ paused' = paused /\ stops' = stops /\ applied' = applied
      /\ poll' = Behind /\ poll.at = "apply"
      /\ ~ (mail[h].date <= cursor) /\ ~IsCommand(h) /\ cursor' = Past(mail[h].date)
  BY DEF Refuse, AlreadyRead, Behind
<1>2. /\ h \in todo /\ h \in Here /\ h \in MailIds
      /\ \A i \in todo : i = h \/ Earlier(h, i)
  BY <1>1, PassHead
<1>3. /\ MailIds \subseteq Nat /\ cursor \in Nat /\ \A i \in MailIds : mail[i].date \in Nat
      /\ Here \subseteq MailIds
  BY Dated
<1>dated. mail[h].date \in Nat
  BY <1>2, <1>3
<1>4. cursor < mail[h].date /\ cursor' = mail[h].date
  <2>1. cursor < mail[h].date
    BY <1>1, <1>3, <1>dated
  <2> QED  BY <1>1, <2>1 DEF Past
<1>5. cursor' \in 0 .. MaxDate /\ cursor <= cursor'
  <2>1. mail[h] \in Message \union {NoMail}
    BY <1>2 DEF OperatingTypes, OperatingTypeOK
  <2>2. mail[h].date \in 0 .. MaxDate
    BY <2>1, OperatingAssumption DEF Message, NoMail
  <2> QED  BY <1>3, <1>4, <1>dated, <2>2
<1>6. stops' \in 0 .. MaxStops /\ paused' \in BOOLEAN
  BY <1>1 DEF OperatingTypes, OperatingTypeOK
<1>7. OperatingTypes' /\ Messages' /\ Stage' /\ Whole' /\ FirstOfDate'
  BY <1>1, <1>3, <1>4, <1>5, <1>6, PassShrinks
<1>8. NewestCommandHolds'
  <2> DEFINE N == NewestOf(done)
  <2>1. Listed' = Listed
    BY <1>1, MailStays
  <2> SUFFICES ASSUME N # {}, N \subseteq Listed, \A i \in N : mail[i].date <= cursor'
               PROVE  \E i \in N : paused = (mail[i].does = "pause")
    BY <1>1, <2>1 DEF NewestCommandHolds, NewestOf, done
  <2>2. N \subseteq done /\ done \subseteq Here
    BY DEF NewestOf, Messages
  <2>3. ASSUME NEW i \in N, cursor < mail[i].date PROVE FALSE
    <3>1. i \in todo
      BY <1>1, <2>2, <2>3 DEF Whole
    <3>2. i # h
      BY <1>1, <2>2 DEF Messages
    <3>3. Earlier(h, i) /\ mail[i].date <= mail[h].date
      BY <3>1, <3>2, <1>2, <1>4
    <3>4. h \in 1 .. i - 1 /\ mail[h].date = mail[i].date
      <4>1. i \in MailIds /\ i \in Nat /\ h \in Nat
        BY <1>2, <1>3, <2>2
      <4>2. mail[i].date \in Nat
        BY <4>1, <1>3
      <4>3. mail[h].date = mail[i].date /\ h < i
        BY <3>3, <1>dated, <4>2 DEF Earlier
      <4>4. h # 0
        BY <1>2 DEF MailIds
      <4> QED  BY <4>1, <4>3, <4>4
    <3> QED  BY <3>4, <1>2, <2>2 DEF FirstOfDate
  <2>4. ASSUME NEW i \in N PROVE mail[i].date <= cursor
    <3>1. mail[i].date \in Nat /\ ~ (cursor < mail[i].date)
      BY <1>3, <2>2, <2>3
    <3> QED  BY <3>1, <1>3
  <2> QED  BY <2>4 DEF NewestCommandHolds, NewestOf, done
<1> QED  BY <1>7, <1>8

LEMMA SetPausedStep ==
  ASSUME OperatingInv, SetPaused
  PROVE  OperatingInv'
<1> USE DEF OperatingInv
<1> DEFINE h == Head(poll.todo)
<1>1. /\ mail' = mail /\ cursor' = cursor /\ stops' = stops
      /\ poll' = [poll EXCEPT !.at = "advance"] /\ poll.at = "apply"
      /\ ~ (mail[h].date <= cursor) /\ IsCommand(h)
      /\ paused' = (mail[h].does = "pause")
      /\ applied' = IF h \in done THEN applied ELSE Append(applied, h)
  BY DEF SetPaused, AlreadyRead, done
<1>2. /\ h \in todo /\ h \in Here /\ h \in MailIds
      /\ \A i \in todo : i = h \/ Earlier(h, i)
  BY <1>1, PassHead
<1>3. /\ MailIds \subseteq Nat /\ cursor \in Nat /\ \A i \in MailIds : mail[i].date \in Nat
      /\ Here \subseteq MailIds
  BY Dated
<1>4. cursor < mail[h].date
  BY <1>1, <1>2, <1>3
<1>5. /\ Here' = Here /\ Listed' = Listed /\ InTime' = InTime
      /\ \A i : IsCommand(i)' = IsCommand(i)
  BY <1>1, MailStays
<1>6. applied' \in Seq(MailIds) /\ done' = done \union {h}
  <2>1. applied \in Seq(MailIds)
    BY DEF OperatingTypes, OperatingTypeOK
  <2>2. Append(applied, h) \in Seq(MailIds) /\ ToSet(Append(applied, h)) = done \union {h}
    BY <1>2, <2>1, AppendHas DEF done
  <2>3. CASE h \in done
    BY <1>1, <2>1, <2>3 DEF done
  <2>4. CASE h \notin done
    BY <1>1, <2>2, <2>4 DEF done
  <2> QED  BY <2>3, <2>4
<1>7. /\ poll'.todo = poll.todo /\ poll'.at = "advance" /\ todo' = todo
      /\ poll' \in [at : {"asleep", "apply", "advance", "tell"}, todo : Seq(MailIds)]
  BY <1>1 DEF OperatingTypes, todo
<1>8. OperatingTypes'
  BY <1>1, <1>6, <1>7 DEF OperatingTypes, OperatingTypeOK
<1>9. Messages'
  BY <1>1, <1>2, <1>5, <1>6, <1>7 DEF Messages
<1>10. Stage'
  BY <1>1, <1>4, <1>6, <1>7 DEF Stage
<1>11. Whole'
  BY <1>1, <1>2, <1>5, <1>6, <1>7 DEF Whole
<1>12. FirstOfDate'
  <2> SUFFICES ASSUME NEW j \in 1 .. h - 1, mail[j].date = mail[h].date
               PROVE  j \notin Listed /\ j \notin todo
    BY <1>1, <1>5, <1>6, <1>7 DEF FirstOfDate
  <2>1. j < h /\ j \in Nat /\ h \in Nat
    <3>1. h \in Nat
      BY <1>2, <1>3
    <3>2. j \in 1 .. h - 1
      OBVIOUS
    <3> QED  BY ONLY <3>1, <3>2
  <2>2. ~Earlier(h, j)
    BY <1>2, <1>3, <2>1 DEF Earlier
  <2>3. j \notin todo
    BY <1>2, <2>1, <2>2
  <2> QED  BY <1>1, <1>2, <1>4, <2>1, <2>3 DEF Whole
<1>13. NewestCommandHolds'
  <2> SUFFICES ASSUME NEW i \in NewestOf(done \union {h}), mail[i].date <= cursor PROVE FALSE
    BY <1>1, <1>5, <1>6 DEF NewestCommandHolds, NewestOf, done
  <2>1. mail[h].date <= mail[i].date /\ i \in MailIds
    BY <1>2, <1>3 DEF NewestOf, Messages
  <2>2. mail[h].date \in Nat /\ mail[i].date \in Nat
    BY <2>1, <1>2, <1>3
  <2> QED  BY <2>1, <2>2, <1>3, <1>4
<1> QED  BY <1>8, <1>9, <1>10, <1>11, <1>12, <1>13

LEMMA AdvanceCursorStep ==
  ASSUME OperatingInv, AdvanceCursor
  PROVE  OperatingInv'
<1> USE DEF OperatingInv
<1> DEFINE h == Head(poll.todo)
<1>1. /\ mail' = mail /\ paused' = paused /\ stops' = stops /\ applied' = applied
      /\ poll' = [poll EXCEPT !.at = "tell"] /\ poll.at = "advance"
      /\ cursor' = Past(mail[h].date)
  BY DEF AdvanceCursor
<1>2. h \in todo /\ h \in Here /\ h \in MailIds
  BY <1>1, PassHead
<1>3. /\ MailIds \subseteq Nat /\ cursor \in Nat /\ \A i \in MailIds : mail[i].date \in Nat
      /\ Here \subseteq MailIds /\ Listed \subseteq Here
  BY Dated
<1>4. h \in done /\ cursor < mail[h].date /\ paused = (mail[h].does = "pause")
  BY <1>1 DEF Stage
<1>5. cursor' = mail[h].date
  BY <1>1, <1>4 DEF Past
<1>6. /\ Here' = Here /\ Listed' = Listed /\ InTime' = InTime
      /\ \A i : IsCommand(i)' = IsCommand(i)
  BY <1>1, MailStays
<1>7. /\ poll'.todo = poll.todo /\ poll'.at = "tell" /\ todo' = todo /\ done' = done
      /\ poll' \in [at : {"asleep", "apply", "advance", "tell"}, todo : Seq(MailIds)]
  BY <1>1 DEF OperatingTypes, todo, done
<1>8. OperatingTypes'
  BY <1>1, <1>2, <1>5, <1>7, OperatingAssumption DEF OperatingTypes, OperatingTypeOK, Message, NoMail
<1>9. Messages'
  BY <1>6, <1>7 DEF Messages
<1>10. Stage'
  BY <1>1, <1>2, <1>3, <1>5, <1>7 DEF Stage
<1>11. Whole'
  <2> SUFFICES ASSUME NEW j \in Listed, cursor' < mail[j].date,
                      j \in done \/ \E k \in todo : j < k
               PROVE  j \in todo
    BY <1>1, <1>6, <1>7 DEF Whole
  <2>1. mail[h].date \in Nat /\ mail[j].date \in Nat
    BY <1>2, <1>3
  <2>2. cursor < mail[j].date
    BY <1>3, <1>4, <1>5, <2>1
  <2> QED  BY <1>1, <2>2 DEF Whole
<1>12. FirstOfDate'
  BY <1>1, <1>6, <1>7 DEF FirstOfDate
<1>13. NewestCommandHolds'
  <2> SUFFICES ASSUME NewestOf(done) # {}, \A i \in NewestOf(done) : mail[i].date <= cursor'
               PROVE  h \in NewestOf(done)
    BY <1>1, <1>4, <1>6 DEF NewestCommandHolds, NewestOf, done
  <2>1. PICK i \in NewestOf(done) : mail[i].date <= mail[h].date
    BY <1>5
  <2>2. i \in done /\ done \subseteq MailIds /\ \A j \in done : mail[j].date <= mail[i].date
    BY <1>3 DEF NewestOf, Messages
  <2>3. ASSUME NEW j \in done PROVE mail[j].date <= mail[h].date
    <3>1. /\ mail[j].date \in Nat /\ mail[h].date \in Nat /\ mail[i].date \in Nat
          /\ mail[j].date <= mail[i].date
      BY <1>2, <1>3, <2>2
    <3> QED  BY <2>1, <3>1
  <2> QED  BY <1>4, <2>3 DEF NewestOf
<1> QED  BY <1>8, <1>9, <1>10, <1>11, <1>12, <1>13

\* A message that comes hides no other that was hidden before it, and what is
\* listed still was listed before.
LEMMA ArrivalStep ==
  ASSUME OperatingInv, NEW i \in MailIds, NEW m \in Message, Arrive(i, m)
  PROVE  OperatingInv'
<1> USE DEF OperatingInv
<1>1. /\ mail[i] = NoMail /\ \A j \in 1 .. i - 1 : j \in Here
      /\ mail' = [mail EXCEPT ![i] = m]
      /\ paused' = paused /\ cursor' = cursor /\ stops' = stops /\ applied' = applied /\ poll' = poll
  BY DEF Arrive
<1>2. /\ MailIds \subseteq Nat /\ IsFiniteSet(MailIds) /\ cursor \in Nat
      /\ \A j \in MailIds : mail[j].date \in Nat
      /\ Here \subseteq MailIds /\ Listed \subseteq Here
  BY Dated
<1>3. mail \in [MailIds -> Message \union {NoMail}] /\ m # NoMail /\ i \notin Here
  BY <1>1, OperatingAssumption DEF OperatingTypes, OperatingTypeOK, Message, NoMail, Here
<1>4. /\ mail' \in [MailIds -> Message \union {NoMail}] /\ mail'[i] = m
      /\ \A j \in MailIds : j # i => mail'[j] = mail[j]
  BY <1>1, <1>3
<1>5. Here' = Here \union {i}
  BY <1>3, <1>4 DEF Here
<1>6. \A j \in Here : mail'[j] = mail[j]
  BY <1>2, <1>3, <1>4
<1>7. Listed' \subseteq Listed \union {i}
  <2> SUFFICES ASSUME NEW j \in Here, j \in Listed' PROVE j \in Listed
    BY <1>5 DEF Listed
  <2> DEFINE A == {k \in Here : Earlier(j, k)}
             B == {k \in Here' : Earlier(j, k)'}
  <2>1. A \subseteq B
    BY <1>5, <1>6 DEF Earlier
  <2>2. B \subseteq MailIds
    BY <1>2, <1>5
  <2>3. IsFiniteSet(B)
    BY <1>2, <2>2, FS_Subset
  <2>4. IsFiniteSet(A) /\ Cardinality(A) <= Cardinality(B)
    BY <2>1, <2>3, FS_Subset
  <2>5. Cardinality(A) \in Nat /\ Cardinality(B) \in Nat
    BY <2>3, <2>4, FS_CardinalityType
  <2>6. Cardinality(B) < CommandLimit
    BY DEF Listed
  <2>7. Cardinality(A) < CommandLimit
    <3> HIDE DEF A, B
    <3> QED  BY <2>4, <2>5, <2>6, OperatingAssumption
  <2> QED  BY <2>7 DEF Listed
<1>8. done' = done /\ todo' = todo /\ done \subseteq Here /\ todo \subseteq Here
  BY <1>1 DEF done, todo, Messages
<1>9. OperatingTypes'
  BY <1>1, <1>4 DEF OperatingTypes, OperatingTypeOK
<1>10. Messages'
  <2>1. \A k \in Here' : 1 .. k - 1 \subseteq Here'
    BY <1>1, <1>5 DEF Messages
  <2>2. \A j \in done : IsCommand(j)'
    BY <1>6, <1>8 DEF Messages, IsCommand
  <2>3. Ascends(poll.todo, InTime')
    <3>1. poll.todo \in Seq(MailIds) /\ \A a \in DOMAIN poll.todo : poll.todo[a] \in Here
      BY <1>8 DEF OperatingTypes, OperatingTypeOK, todo, ToSet
    <3>2. \A j, k \in Here : Earlier(j, k) => Earlier(j, k)'
      BY <1>6 DEF Earlier
    <3>3. \A j, k \in Here : <<j, k>> \in InTime => <<j, k>> \in InTime'
      BY <1>2, <3>2 DEF InTime
    <3> QED  BY <3>1, <3>3 DEF Ascends, Messages
  <2> QED  BY <1>1, <1>5, <1>8, <2>1, <2>2, <2>3 DEF Messages
<1>11. Stage'
  <2>1. CASE poll.at = "asleep"
    BY <1>1, <2>1 DEF Stage
  <2>2. CASE poll.at # "asleep"
    <3>1. Head(poll.todo) \in Here
      BY <2>2, PassHead
    <3> QED  BY <1>1, <1>6, <1>8, <3>1 DEF Stage
  <2> QED  BY <2>1, <2>2
<1>12. Whole'
  <2> SUFFICES ASSUME poll.at # "asleep", NEW j \in Listed', cursor < mail'[j].date,
                      j \in done \/ \E k \in todo : j < k
               PROVE  j \in todo
    BY <1>1, <1>8 DEF Whole
  <2>1. j \in Here
    <3>1. ASSUME NEW k \in todo, j < k, j = i PROVE FALSE
      <4>1. k \in Here /\ k \in Nat /\ i \in 1 .. MaxMail
        BY <1>2, <1>8 DEF MailIds
      <4>2. i \in 1 .. k - 1
        BY <3>1, <4>1
      <4> QED  BY <1>3, <4>1, <4>2 DEF Messages
    <3> QED  BY <1>7, <1>8, <1>2, <3>1
  <2>2. j \in Listed /\ mail'[j] = mail[j]
    BY <1>3, <1>6, <1>7, <2>1
  <2> QED  BY <2>2 DEF Whole
<1>13. FirstOfDate'
  <2> SUFFICES ASSUME NEW n \in done, NEW j \in 1 .. n - 1, mail'[j].date = mail'[n].date
               PROVE  j \notin Listed' /\ j \notin todo
    BY <1>8 DEF FirstOfDate
  <2>1. n \in Here /\ j \in Here
    BY <1>8 DEF Messages
  <2>2. mail[j].date = mail[n].date
    BY <1>6, <2>1
  <2> QED  BY <1>3, <1>7, <2>1, <2>2 DEF FirstOfDate
<1>14. NewestCommandHolds'
  <2>1. NewestOf(done)' = NewestOf(done) /\ NewestOf(done) \subseteq done
    BY <1>6, <1>8 DEF NewestOf
  <2> SUFFICES ASSUME NewestOf(done) # {}, NewestOf(done) \subseteq Listed',
                      \A k \in NewestOf(done) : mail'[k].date <= cursor
               PROVE  \E k \in NewestOf(done) : paused = (mail'[k].does = "pause")
    BY <1>1, <2>1 DEF NewestCommandHolds, NewestOf, done
  <2>2. NewestOf(done) \subseteq Listed
    BY <1>3, <1>7, <1>8, <2>1
  <2>3. \A k \in NewestOf(done) : mail'[k] = mail[k]
    BY <1>6, <1>8, <2>1
  <2>4. \E k \in NewestOf(done) : paused = (mail[k].does = "pause")
    BY <2>2, <2>3 DEF NewestCommandHolds, NewestOf, done
  <2> QED  BY <2>3, <2>4
<1> QED  BY <1>9, <1>10, <1>11, <1>12, <1>13, <1>14

LEMMA OperatingStart ==
  ASSUME OperatingInit, SwitchesInit
  PROVE  OperatingInv
<1>1. mail \in [MailIds -> Message \union {NoMail}] /\ Here = {} /\ Listed = {}
  <2>1. mail = [i \in MailIds |-> NoMail]
    BY Zenon DEF OperatingInit
  <2>2. mail \in [MailIds -> Message \union {NoMail}] /\ \A i \in MailIds : mail[i] = NoMail
    BY <2>1
  <2>3. Here = {}
    BY <2>2 DEF Here
  <2> QED  BY <2>2, <2>3 DEF Listed
<1>2. poll = [at |-> "asleep", todo |-> <<>>] /\ applied = <<>> /\ <<>> \in Seq(MailIds)
  BY EmptySeq DEF OperatingInit, Asleep
<1>3. done = {} /\ todo = {}
  BY <1>2, EmptyHas DEF done, todo
<1>4. OperatingTypes
  <2>1. cursor = 0 /\ stops = 0 /\ paused \in BOOLEAN
    BY Zenon DEF OperatingInit, SwitchesInit
  <2>2. 0 \in 0 .. MaxDate /\ 0 \in 0 .. MaxStops
    BY OperatingAssumption
  <2> QED  BY <1>1, <1>2, <2>1, <2>2 DEF OperatingTypes, OperatingTypeOK
<1>5. Messages
  BY <1>1, <1>2, <1>3 DEF Messages, Ascends
<1>6. Stage /\ Whole /\ FirstOfDate /\ NewestCommandHolds
  BY <1>2, <1>3 DEF Stage, Whole, FirstOfDate, NewestCommandHolds, done
<1> QED  BY <1>4, <1>5, <1>6 DEF OperatingInv

LEMMA OperatingStep ==
  ASSUME OperatingInv, OperatingNext
  PROVE  OperatingInv'
<1>1. CASE \E i \in MailIds, m \in Message : Arrive(i, m)
  BY <1>1, ArrivalStep
<1>2. CASE Poll
  BY <1>2, ReadingStep
<1>3. CASE SkipRead
  BY <1>3, SkipReadStep
<1>4. CASE Refuse
  BY <1>4, RefuseStep
<1>5. CASE SetPaused
  BY <1>5, SetPausedStep
<1>6. CASE AdvanceCursor
  BY <1>6, AdvanceCursorStep
<1>7. CASE TellAlex \/ ServerStops
  BY <1>7, TellStep
<1> QED  BY <1>1, <1>2, <1>3, <1>4, <1>5, <1>6, <1>7 DEF OperatingNext, PassStep

\* A command that the cursor passes while the pass still holds it was carried out
\* or shares its millisecond: the pass holds its messages oldest first.
PassedOver(i) == IsCommand(i) /\ cursor < mail[i].date /\ mail[i].date <= cursor'
DealtWith(i) == i \in done \/ \E j \in Here : j < i /\ mail[j].date = mail[i].date

LEMMA NothingIsPassedOver ==
  ASSUME OperatingInv, OperatingNext, NEW i \in todo, PassedOver(i)
  PROVE  DealtWith(i)
<1> DEFINE h == Head(poll.todo)
<1>1. /\ cursor \in Nat /\ MailIds \subseteq Nat /\ Here \subseteq MailIds
      /\ \A k \in MailIds : mail[k].date \in Nat
  BY Dated DEF OperatingInv
<1>2. i \in Here /\ i \in MailIds /\ mail[i].date \in Nat
  BY <1>1 DEF OperatingInv, Messages
<1>3. cursor' # cursor
  BY <1>1, <1>2 DEF PassedOver
<1>4. CASE Refuse \/ AdvanceCursor
  <2>1. /\ poll.at # "asleep" /\ cursor' = Past(mail[h].date)
        /\ h \in done \/ ~IsCommand(h)
    BY <1>4 DEF Refuse, AdvanceCursor, OperatingInv, Stage
  <2>2. h \in Here /\ h \in MailIds /\ (i = h \/ Earlier(h, i))
    BY <2>1, PassHead DEF OperatingInv
  <2>3. mail[h].date \in Nat
    BY <1>1, <2>2
  <2>4. CASE i = h
    BY <2>1, <2>4 DEF PassedOver, DealtWith
  <2>5. CASE i # h
    <3>1. cursor' = mail[h].date
      BY <1>3, <2>1 DEF Past
    <3>2. mail[i].date <= mail[h].date
      BY <3>1 DEF PassedOver
    <3>3. Earlier(h, i)
      BY <2>2, <2>5
    <3>4. mail[h].date = mail[i].date /\ h < i
      BY <3>2, <3>3, <1>2, <2>3 DEF Earlier
    <3> QED  BY <2>2, <3>4 DEF DealtWith
  <2> QED  BY <2>4, <2>5
<1>5. CASE \E k \in MailIds, m \in Message : Arrive(k, m)
  BY <1>3, <1>5 DEF Arrive
<1>6. CASE Poll \/ SkipRead \/ SetPaused \/ TellAlex \/ ServerStops
  BY <1>3, <1>6 DEF Poll, SkipRead, SetPaused, TellAlex, ServerStops
<1> QED  BY <1>4, <1>5, <1>6 DEF OperatingNext, PassStep

-----------------------------------------------------------------------------
(* The management loop.                                                    *)

waiting == ToSet(queue)

\* A cycle waits once, and the loop's neither before it is decided nor while one of
\* its own runs; what the scheduler has in hand it has not begun today, and what it
\* has begun has started.
Queue ==
  /\ IsInjective(queue)
  /\ loop # "busy" => Own \notin waiting /\ running # Own
  /\ running = Own => Own \notin waiting
  /\ \A t \in Scheduled :
       /\ ranToday[t] <= 1
       /\ Daily(t) \in waiting \/ t \in scheduler.due => ranToday[t] = 0
       /\ ~(Daily(t) \in waiting /\ t \in scheduler.due)
       /\ t \notin started => ranToday[t] = 0

\* What a cycle costs today was taken from today's budget, but for the one that
\* waited for the lock at midnight.
Awaited == IF Own \in waiting THEN 1 ELSE 0
Spent == ranToday["management"] + Awaited <= budget + MaxPerDay * restarts.today + 1

\* Nothing is new while a cycle runs, and nothing is in between while none does.
Placed ==
  \A e \in Events :
    IF running = NoCycle THEN event[e] \notin {"during", "reading"} ELSE event[e] # "new"

\* What woke the loop is read by the cycle it woke, unless it was read before.
Woken ==
  restarts.all = 0 =>
    \A e \in Events \ Standing :
      /\ woke[e] <= 1
      /\ woke[e] = 1 => \/ event[e] = "read"
                        \/ /\ loop = "busy" /\ event[e] # "not yet"
                           /\ running = Own => event[e] = "reading"

\* The gap that was measured lasts: only a management cycle ends it.
Apart ==
  /\ since <= rest
  /\ loop = "triggers" \/ Own \in waiting => rest >= MinGap

LoopInv ==
  LoopTypeOK /\ Queue /\ Spent /\ Placed /\ Woken /\ Apart

LEMMA LoopNumbers ==
  /\ {MinGap, EventGap, MaxServerStops, LongAgo} \subseteq Nat /\ MaxPerDay \in Nat \ {0}
  /\ MinGap <= LongAgo
  /\ "management" \in Counted /\ Scheduled \subseteq Counted /\ "management" \notin Scheduled
  /\ \A a, b \in Nat : a * b \in Nat /\ a * (b + 1) = a * b + a /\ a * 0 = 0
<1>1. {MinGap, EventGap, MaxServerStops, LongAgo} \subseteq Nat /\ MaxPerDay \in Nat \ {0} /\ MinGap <= LongAgo
  BY ManagementAssumption
<1>2. "management" \in Counted /\ Scheduled \subseteq Counted /\ "management" \notin Scheduled
  BY ManagementAssumption DEF Counted
<1>3. \A a, b \in Nat : a * b \in Nat /\ a * (b + 1) = a * b + a /\ a * 0 = 0
  OBVIOUS
<1> QED  BY <1>1, <1>2, <1>3

\* The three kinds of cycle are told apart by whose they are.
LEMMA WhoseCycle ==
  /\ Own \in Cycles /\ Own.by = "loop" /\ Own.type = "management" /\ NoCycle # Own /\ NoCycle \notin Cycles
  /\ NoCycle.by \notin Askers
  /\ \A t \in Scheduled : /\ Daily(t) \in Cycles /\ Daily(t) # Own /\ Daily(t).type = t
                          /\ Daily(t).by = "scheduler"
  /\ \A a \in Askers, t \in Requests : /\ Cycle(a, t) \in Cycles /\ Cycle(a, t).by = a
                                       /\ Cycle(a, t) # Own
  /\ \A c \in Cycles : IF c.by \in Askers THEN c # Own /\ \A t \in Scheduled : c # Daily(t)
                                           ELSE c = Own \/ \E t \in Scheduled : c = Daily(t)
<1>1. "loop" \notin Askers /\ "scheduler" \notin Askers /\ None \notin Askers
      /\ None # "loop" /\ None # "scheduler"
  BY ManagementAssumption DEF None
<1>2. Own.by = "loop" /\ Own.type = "management" /\ NoCycle.by = None
  BY DEF Own, NoCycle, Cycle
<1>3. \A t \in Scheduled : Daily(t).type = t /\ Daily(t).by = "scheduler" /\ Daily(t) \in Cycles
  BY DEF Daily, Cycle, Cycles
<1>4. \A a \in Askers, t \in Requests : Cycle(a, t) \in Cycles /\ Cycle(a, t).by = a
  BY DEF Cycle, Cycles
<1>5. Own \in Cycles /\ \A c \in Cycles : c.by \in Askers \union {"loop", "scheduler"}
  BY <1>2, <1>3 DEF Cycles
<1>6. NoCycle # Own /\ NoCycle \notin Cycles
  BY <1>1, <1>2, <1>5
<1>7. \A c \in Cycles : c.by \notin Askers => c = Own \/ \E t \in Scheduled : c = Daily(t)
  BY DEF Cycles
<1> QED  BY <1>1, <1>2, <1>3, <1>4, <1>5, <1>6, <1>7

LEMMA QueueShrinks ==
  ASSUME LoopTypeOK, IsInjective(queue), queue # <<>>
  PROVE  /\ Head(queue) \in Cycles /\ Head(queue) \in waiting
         /\ Tail(queue) \in Seq(Cycles) /\ IsInjective(Tail(queue))
         /\ ToSet(Tail(queue)) = waiting \ {Head(queue)}
<1>1. queue \in Seq(Cycles)
  BY DEF LoopTypeOK
<1>2. /\ Head(queue) \in Cycles /\ Head(queue) \in waiting /\ Head(queue) = queue[1]
      /\ Tail(queue) \in Seq(Cycles)
      /\ Len(Tail(queue)) = Len(queue) - 1 /\ Len(queue) \in Nat \ {0}
      /\ \A a \in 1 .. Len(queue) - 1 : Tail(queue)[a] = queue[a + 1]
      /\ waiting = ToSet(Tail(queue)) \union {Head(queue)}
  BY <1>1, TailHas DEF waiting
<1>3. DOMAIN queue = 1 .. Len(queue) /\ DOMAIN Tail(queue) = 1 .. Len(queue) - 1
  BY <1>1, <1>2, LenProperties
<1>4. \A a, b \in 1 .. Len(queue) : queue[a] = queue[b] => a = b
  BY <1>3 DEF IsInjective
<1>5. \A a \in 1 .. Len(queue) - 1 : a + 1 \in 1 .. Len(queue) /\ a + 1 # 1
  BY <1>2
<1>6. IsInjective(Tail(queue))
  <2> SUFFICES ASSUME NEW a \in 1 .. Len(queue) - 1, NEW b \in 1 .. Len(queue) - 1,
                      queue[a + 1] = queue[b + 1]
               PROVE  a = b
    BY <1>2, <1>3 DEF IsInjective
  <2>1. a + 1 = b + 1
    BY <1>4, <1>5
  <2> QED  BY <2>1, <1>2
<1>7. Head(queue) \notin ToSet(Tail(queue))
  <2> SUFFICES ASSUME NEW a \in 1 .. Len(queue) - 1, queue[a + 1] = queue[1] PROVE FALSE
    BY <1>2, <1>3 DEF ToSet
  <2> QED  BY <1>2, <1>4, <1>5
<1> QED  BY <1>2, <1>6, <1>7

LEMMA QueueGrows ==
  ASSUME LoopTypeOK, IsInjective(queue), NEW t \in Cycles, t \notin waiting
  PROVE  /\ Append(queue, t) \in Seq(Cycles) /\ IsInjective(Append(queue, t))
         /\ ToSet(Append(queue, t)) = waiting \union {t}
<1> DEFINE q == Append(queue, t)
<1>1. queue \in Seq(Cycles)
  BY DEF LoopTypeOK
<1>2. /\ q \in Seq(Cycles) /\ Len(q) = Len(queue) + 1 /\ Len(queue) \in Nat
      /\ \A a \in 1 .. Len(queue) : q[a] = queue[a]
      /\ q[Len(queue) + 1] = t /\ ToSet(q) = waiting \union {t}
  BY <1>1, AppendHas DEF waiting
<1> HIDE DEF q
<1>3. DOMAIN queue = 1 .. Len(queue) /\ DOMAIN q = 1 .. Len(queue) + 1
  BY <1>1, <1>2, LenProperties
<1>4. \A a \in 1 .. Len(queue) : queue[a] # t
  BY <1>3 DEF waiting, ToSet
<1>5. IsInjective(q)
  <2> SUFFICES ASSUME NEW a \in 1 .. Len(queue) + 1, NEW b \in 1 .. Len(queue) + 1, q[a] = q[b]
               PROVE  a = b
    BY <1>3 DEF IsInjective
  <2>1. CASE a \in 1 .. Len(queue) /\ b \in 1 .. Len(queue)
    BY <2>1, <1>2, <1>3 DEF IsInjective
  <2>2. CASE a = Len(queue) + 1 \/ b = Len(queue) + 1
    BY <2>2, <1>2, <1>4
  <2> QED  BY <2>1, <2>2, <1>2
<1> QED  BY <1>2, <1>5 DEF q

LEMMA LoopStart ==
  ASSUME LoopInit
  PROVE  LoopInv
<1>1. LongAgo \in 0 .. LongAgo /\ LongAgo >= MinGap /\ 0 \in 0 .. MaxPerDay
      /\ MaxPerDay * 0 = 0 /\ 0 \in 0 .. MaxServerStops
  BY LoopNumbers
<1>b. event \in [Events -> Stands] /\ \A e \in Events : event[e] = "not yet"
  <2>1. event = [e \in Events |-> "not yet"]
    BY Zenon DEF LoopInit
  <2> QED  BY <2>1 DEF Stands
<1>c. woke \in [Events -> 0 .. 2] /\ \A e \in Events : woke[e] = 0
  <2>1. woke = [e \in Events |-> 0]
    BY Zenon DEF LoopInit
  <2> QED  BY <2>1
<1>d. ranToday \in [Counted -> Nat] /\ \A t \in Counted : ranToday[t] = 0
  <2>1. ranToday = [t \in Counted |-> 0]
    BY Zenon DEF LoopInit
  <2> QED  BY <2>1
<1>e. /\ since = LongAgo /\ rest = LongAgo /\ budget = 0 /\ loop = "asleep"
      /\ queue = <<>> /\ running = NoCycle /\ started = {} /\ scheduler = SchedulerAsleep
      /\ restarts = [today |-> 0, all |-> 0]
  BY Zenon DEF LoopInit
<1>2. queue = <<>> /\ queue \in Seq(Cycles) /\ waiting = {} /\ IsInjective(queue)
  <2>1. <<>> \in Seq(Cycles) /\ IsInjective(<<>>)
    BY EmptySeq DEF IsInjective
  <2> QED  BY <1>e, <2>1, EmptyHas DEF waiting
<1>3. LoopTypeOK
  BY <1>1, <1>2, <1>b, <1>c, <1>d, <1>e DEF LoopTypeOK, SchedulerAsleep
<1>4. Queue
  <2>1. scheduler.due = {} /\ running # Own
    BY <1>e, WhoseCycle DEF SchedulerAsleep
  <2> QED  BY <1>2, <1>d, <1>e, <2>1, LoopNumbers DEF Queue
<1>5. Spent
  BY <1>1, <1>2, <1>d, <1>e, LoopNumbers DEF Spent, Awaited
<1>6. Placed
  BY <1>b, <1>e DEF Placed
<1>8. Woken
  <2>1. ASSUME NEW e \in Events \ Standing PROVE woke[e] <= 1 /\ woke[e] # 1
    <3>1. woke[e] = 0
      BY <1>c
    <3> QED  BY <3>1
  <2> QED  BY <2>1, Zenon DEF Woken
<1>7. Apart
  BY <1>1, <1>2, <1>e DEF Apart
<1> QED  BY <1>3, <1>4, <1>5, <1>6, <1>7, <1>8 DEF LoopInv

\* Waking and measuring.
LEMMA LoopLooksStep ==
  ASSUME LoopInv, LoopWakes \/ LoopMeasures
  PROVE  LoopInv'
<1> USE DEF LoopInv
<1>1. /\ UNCHANGED <<event, since, rest, budget, queue, running, ranToday, started, woke, restarts, scheduler>>
      /\ loop # "busy" /\ loop' \in {"asleep", "gap", "triggers"}
      /\ loop' = "triggers" => since >= MinGap
  BY DEF LoopWakes, LoopMeasures, GapIsOver
<1>2. waiting' = waiting
  BY <1>1 DEF waiting
<1>3. LoopTypeOK'
  BY <1>1 DEF LoopTypeOK
<1>4. Queue'
  BY <1>1, <1>2 DEF Queue
<1>5. Spent' /\ Placed'
  BY <1>1, <1>2 DEF Spent, Awaited, Placed
<1>6. Woken'
  BY <1>1 DEF Woken
<1>7. Apart'
  <2>1. since \in Nat /\ rest \in Nat /\ MinGap \in Nat
    BY LoopNumbers DEF LoopTypeOK
  <2> QED  BY <1>1, <1>2, <2>1 DEF Apart
<1> QED  BY <1>3, <1>4, <1>5, <1>6, <1>7

\* Deciding: what is a reason now was none before, since what it was a reason of
\* has read it.
LEMMA LoopDecidesStep ==
  ASSUME LoopInv, LoopDecides
  PROVE  LoopInv'
<1> USE DEF LoopInv
<1>1. loop = "triggers" /\ UNCHANGED <<event, since, rest, running, ranToday, started, restarts, scheduler>>
  BY DEF LoopDecides
<1>2. CASE Reasons = {} \/ budget >= MaxPerDay
  <2>1. loop' = "asleep" /\ UNCHANGED <<budget, queue, woke>>
    BY <1>2 DEF LoopDecides
  <2>2. waiting' = waiting
    BY <2>1 DEF waiting
  <2>3. LoopTypeOK' /\ Queue'
    BY <1>1, <2>1, <2>2 DEF LoopTypeOK, Queue
  <2>4. Spent' /\ Placed' /\ Woken' /\ Apart'
    BY <1>1, <2>1, <2>2 DEF Spent, Awaited, Placed, Woken, Apart
  <2> QED  BY <2>3, <2>4
<1>3. CASE ~ (Reasons = {} \/ budget >= MaxPerDay)
  <2>1. /\ loop' = "busy" /\ budget' = budget + 1 /\ queue' = Append(queue, Own)
        /\ woke' = [e \in Events |-> IF e \in Reasons /\ woke[e] < 2 THEN woke[e] + 1 ELSE woke[e]]
    BY <1>3 DEF LoopDecides
  <2>2. Own \notin waiting /\ running # Own /\ Own \in Cycles
    BY <1>1, WhoseCycle DEF Queue
  <2>3. queue' \in Seq(Cycles) /\ IsInjective(queue') /\ waiting' = waiting \union {Own}
    BY <2>1, <2>2, QueueGrows DEF Queue, waiting
  <2>4. budget \in Nat /\ MaxPerDay \in Nat /\ budget' \in 0 .. MaxPerDay
    BY <1>3, <2>1, LoopNumbers DEF LoopTypeOK
  <2>5. woke' \in [Events -> 0 .. 2]
    BY <2>1 DEF LoopTypeOK
  <2>6. LoopTypeOK'
    BY <1>1, <2>1, <2>3, <2>4, <2>5 DEF LoopTypeOK
  <2>7. Queue'
    <3>1. \A t \in Scheduled : Daily(t) \in waiting' <=> Daily(t) \in waiting
      BY <2>3, WhoseCycle
    <3> QED  BY <1>1, <2>1, <2>2, <2>3, <3>1 DEF Queue
  <2>8. Spent'
    <3>1. /\ ranToday["management"] \in Nat /\ restarts.today \in Nat
          /\ MaxPerDay * restarts.today \in Nat
      BY LoopNumbers DEF LoopTypeOK
    <3>2. ranToday["management"] + 0 <= budget + MaxPerDay * restarts.today + 1
      BY <2>2 DEF Spent, Awaited
    <3>3. ranToday["management"] + 1 <= budget + 1 + MaxPerDay * restarts.today + 1
      BY <2>4, <3>1, <3>2
    <3> QED  BY <1>1, <2>1, <2>3, <3>3 DEF Spent, Awaited
  <2>9. Placed'
    BY <1>1 DEF Placed
  <2>10. Woken'
    <3> SUFFICES ASSUME restarts.all = 0, NEW e \in Events \ Standing
                 PROVE  /\ woke'[e] <= 1
                        /\ woke'[e] = 1 => event[e] = "read" \/ event[e] # "not yet"
      BY <1>1, <2>1, <2>2 DEF Woken
    <3>1. woke[e] \in 0 .. 2 /\ woke[e] <= 1 /\ (woke[e] = 1 => event[e] = "read")
      BY <1>1 DEF Woken, LoopTypeOK
    <3>2. e \in Reasons <=> event[e] \in {"new", "during", "reading"}
      BY DEF Reasons
    <3>6. e \in Events
      OBVIOUS
    <3>7. woke'[e] = IF e \in Reasons /\ woke[e] < 2 THEN woke[e] + 1 ELSE woke[e]
      BY <2>1, <3>6, Zenon
    <3>5. (e \notin Reasons => woke'[e] = woke[e]) /\ (e \in Reasons /\ woke[e] = 0 => woke'[e] = 1)
          /\ (e \in Reasons => woke[e] # 1)
      BY <3>1, <3>2, <3>7
    <3>3. CASE e \in Reasons
      <4>1. woke'[e] = 1
        BY <3>1, <3>3, <3>5
      <4>2. event[e] # "not yet"
        BY <3>2, <3>3
      <4>3. 1 <= 1
        OBVIOUS
      <4> QED  BY <4>1, <4>2, <4>3, Zenon
    <3>4. CASE e \notin Reasons
      BY <3>1, <3>4, <3>5
    <3> QED  BY <3>3, <3>4
  <2>11. Apart'
    BY <1>1, <2>1, <2>3 DEF Apart
  <2> QED  BY <2>6, <2>7, <2>8, <2>9, <2>10, <2>11
<1> QED  BY <1>2, <1>3

\* The scheduler reads and looks: what it has in hand has not started today.
LEMMA SchedulerLooksStep ==
  ASSUME LoopInv, SchedulerReads \/ SchedulerLooks
  PROVE  LoopInv'
<1> USE DEF LoopInv
<1>1. UNCHANGED <<event, since, rest, budget, loop, queue, running, ranToday, started, woke, restarts>>
  BY DEF SchedulerReads, SchedulerLooks
<1>2. waiting' = waiting
  BY <1>1 DEF waiting
<1>3. /\ scheduler' \in [at : {"asleep", "looks", "works"}, due : SUBSET Scheduled]
      /\ \A t \in scheduler'.due : t \in scheduler.due \/ (t \notin started /\ Daily(t) \notin waiting)
  <2>1. CASE SchedulerReads
    <3>1. PICK due \in SUBSET NotStarted : scheduler' = [at |-> "looks", due |-> due]
      BY <2>1 DEF SchedulerReads
    <3>2. due \subseteq Scheduled /\ \A t \in due : t \notin started
      BY <3>1 DEF NotStarted
    <3>3. \A t \in Scheduled : Daily(t) \notin waiting
      BY <2>1, WhoseCycle DEF SchedulerReads, Busy, waiting
    <3> QED  BY <3>1, <3>2, <3>3
  <2>2. CASE SchedulerLooks
    <3>1. scheduler \in [at : {"asleep", "looks", "works"}, due : SUBSET Scheduled]
      BY DEF LoopTypeOK
    <3>2. scheduler' = SchedulerAsleep \/ scheduler' = [scheduler EXCEPT !.at = "works"]
      BY <2>2 DEF SchedulerLooks
    <3>3. CASE scheduler' = SchedulerAsleep
      BY <3>3 DEF SchedulerAsleep
    <3>4. CASE scheduler' = [scheduler EXCEPT !.at = "works"]
      BY <3>1, <3>4
    <3> QED  BY <3>2, <3>3, <3>4
  <2> QED  BY <2>1, <2>2
<1>4. LoopTypeOK'
  BY <1>1, <1>3 DEF LoopTypeOK
<1>5. Queue'
  BY <1>1, <1>2, <1>3 DEF Queue
<1>6. Spent' /\ Placed' /\ Woken' /\ Apart'
  BY <1>1, <1>2 DEF Spent, Awaited, Placed, Woken, Apart
<1> QED  BY <1>4, <1>5, <1>6

\* The scheduler waits for the lock with what it found due.
LEMMA SchedulerDueStep ==
  ASSUME LoopInv, NEW d \in Scheduled, SchedulerDue(d)
  PROVE  LoopInv'
<1> USE DEF LoopInv
<1>1. /\ d \in scheduler.due /\ queue' = Append(queue, Daily(d))
      /\ UNCHANGED <<event, since, rest, budget, loop, running, ranToday, started, woke, restarts>>
  BY DEF SchedulerDue
<1>2. Daily(d) \in Cycles /\ Daily(d) \notin waiting /\ Daily(d) # Own
  BY WhoseCycle DEF SchedulerDue, Busy, waiting
<1>3. queue' \in Seq(Cycles) /\ IsInjective(queue') /\ waiting' = waiting \union {Daily(d)}
  BY <1>1, <1>2, QueueGrows DEF Queue, waiting
<1>4. /\ scheduler' \in [at : {"asleep", "looks", "works"}, due : SUBSET Scheduled]
      /\ scheduler'.due = scheduler.due \ {d}
  <2>1. scheduler \in [at : {"asleep", "looks", "works"}, due : SUBSET Scheduled]
    BY DEF LoopTypeOK
  <2>2. scheduler' = IF scheduler.due = {d} THEN SchedulerAsleep
                     ELSE [scheduler EXCEPT !.due = scheduler.due \ {d}]
    BY DEF SchedulerDue
  <2>3. CASE scheduler.due = {d}
    BY <2>2, <2>3 DEF SchedulerAsleep
  <2>4. CASE scheduler.due # {d}
    BY <2>1, <2>2, <2>4
  <2> QED  BY <2>3, <2>4
<1>5. LoopTypeOK'
  BY <1>1, <1>3, <1>4 DEF LoopTypeOK
<1>6. Queue'
  <2>1. Own \in waiting' <=> Own \in waiting
    BY <1>2, <1>3
  <2>2. ASSUME NEW t \in Scheduled
        PROVE  /\ Daily(t) \in waiting' \/ t \in scheduler'.due => ranToday[t] = 0
               /\ ~(Daily(t) \in waiting' /\ t \in scheduler'.due)
    <3>1. CASE t = d
      BY <1>1, <1>4, <3>1 DEF Queue
    <3>2. CASE t # d
      <4>1. Daily(t) # Daily(d)
        BY <3>2, WhoseCycle
      <4> QED  BY <1>3, <1>4, <4>1 DEF Queue
    <3> QED  BY <3>1, <3>2
  <2> QED  BY <1>1, <1>3, <2>1, <2>2 DEF Queue
<1>7. Spent' /\ Placed' /\ Woken' /\ Apart'
  BY <1>1, <1>2, <1>3 DEF Spent, Awaited, Placed, Woken, Apart
<1> QED  BY <1>5, <1>6, <1>7

\* A conversation or a connection waits for the lock.
LEMMA CallerWaitsStep ==
  ASSUME LoopInv, NEW a \in Askers, NEW d \in Requests, Replan(a, d)
  PROVE  LoopInv'
<1> USE DEF LoopInv
<1>1. /\ queue' = Append(queue, Cycle(a, d))
      /\ UNCHANGED <<event, since, rest, budget, loop, scheduler, running, ranToday, started, woke, restarts>>
  BY DEF Replan
<1>2. /\ Cycle(a, d) \in Cycles /\ Cycle(a, d) \notin waiting /\ Cycle(a, d) # Own
      /\ \A t \in Scheduled : Cycle(a, d) # Daily(t)
  BY WhoseCycle DEF Replan, Busy, waiting
<1>3. queue' \in Seq(Cycles) /\ IsInjective(queue') /\ waiting' = waiting \union {Cycle(a, d)}
  BY <1>1, <1>2, QueueGrows DEF Queue, waiting
<1>4. LoopTypeOK'
  BY <1>1, <1>3 DEF LoopTypeOK
<1>5. Queue'
  <2>1. Own \in waiting' <=> Own \in waiting
    BY <1>2, <1>3
  <2>2. \A t \in Scheduled : Daily(t) \in waiting' <=> Daily(t) \in waiting
    BY <1>2, <1>3
  <2> QED  BY <1>1, <1>3, <2>1, <2>2 DEF Queue
<1>6. Spent' /\ Placed' /\ Woken' /\ Apart'
  BY <1>1, <1>2, <1>3 DEF Spent, Awaited, Placed, Woken, Apart
<1> QED  BY <1>4, <1>5, <1>6

\* A refused caller leaves the queue.
LEMMA RefusedStep ==
  ASSUME LoopInv, Refused
  PROVE  LoopInv'
<1> USE DEF LoopInv
<1> DEFINE h == Head(queue)
<1>1. /\ queue # <<>> /\ queue' = Tail(queue)
      /\ UNCHANGED <<event, since, rest, budget, loop, running, ranToday, started, woke, restarts, scheduler>>
      /\ h.by \in Askers
  BY DEF Refused
<1>2. /\ queue' \in Seq(Cycles) /\ IsInjective(queue') /\ waiting' = waiting \ {h} /\ h \in Cycles
  BY <1>1, QueueShrinks DEF Queue, waiting
<1>3. h # Own
  BY <1>1, <1>2, WhoseCycle
<1> HIDE DEF h
<1>4. LoopTypeOK'
  BY <1>1, <1>2 DEF LoopTypeOK
<1>5. Queue'
  BY <1>1, <1>2, <1>3 DEF Queue
<1>6. Spent' /\ Placed' /\ Woken' /\ Apart'
  BY <1>1, <1>2, <1>3 DEF Spent, Awaited, Placed, Woken, Apart
<1> QED  BY <1>4, <1>5, <1>6

\* A cycle begins: its wait is over, its run is counted, its context is read.
LEMMA BeginStep ==
  ASSUME LoopInv, Begin
  PROVE  LoopInv'
<1> USE DEF LoopInv
<1> DEFINE h == Head(queue)
           Begun(t) == h.by \notin Askers /\ h.type = t
<1>1. /\ running = NoCycle /\ queue # <<>> /\ running' = h /\ queue' = Tail(queue)
      /\ UNCHANGED <<since, rest, budget, loop, woke, restarts, scheduler>>
  BY DEF Begin
<1>2. /\ h \in Cycles /\ h \in waiting /\ h # NoCycle
      /\ queue' \in Seq(Cycles) /\ IsInjective(queue') /\ waiting' = waiting \ {h}
  BY <1>1, QueueShrinks, WhoseCycle DEF Queue, waiting
<1>3. /\ ranToday' \in [Counted -> Nat]
      /\ \A t \in Counted : /\ Begun(t) => ranToday'[t] = ranToday[t] + 1
                            /\ ~Begun(t) => ranToday'[t] = ranToday[t]
  <2>1. ranToday' = [t \in Counted |-> IF Begun(t) THEN ranToday[t] + 1 ELSE ranToday[t]]
    BY Zenon DEF Begin
  <2>2. ranToday \in [Counted -> Nat]
    BY DEF LoopTypeOK
  <2> HIDE DEF h, Begun, LoopInv
  <2> QED  BY <2>1, <2>2
<1>4. /\ event' \in [Events -> Stands]
      /\ \A e \in Events : /\ event[e] \in {"new", "passed"} => event'[e] = "reading"
                           /\ event[e] \notin {"new", "passed"} => event'[e] = event[e]
  <2>1. event' = [e \in Events |-> IF event[e] \in {"new", "passed"} THEN "reading" ELSE event[e]]
    BY Zenon DEF Begin
  <2>2. event \in [Events -> Stands]
    BY DEF LoopTypeOK
  <2> HIDE DEF h, LoopInv
  <2> QED  BY <2>1, <2>2 DEF Stands
<1>a. \A t \in Scheduled : Begun(t) <=> h = Daily(t)
  BY <1>2, LoopNumbers, WhoseCycle
<1>b. Begun("management") <=> h = Own
  BY <1>2, LoopNumbers, WhoseCycle
<1>c. started' \subseteq Scheduled /\ started \subseteq started' /\ \A t \in Scheduled : h = Daily(t) => t \in started'
  <2>1. started' = started \union ({h.type} \cap Scheduled)
    BY DEF Begin
  <2> QED  BY <2>1, WhoseCycle DEF LoopTypeOK
<1> HIDE DEF h, Begun
<1>5. LoopTypeOK'
  BY <1>1, <1>2, <1>3, <1>4, <1>c DEF LoopTypeOK
<1>6. Queue'
  <2>1. ASSUME NEW t \in Scheduled
        PROVE  /\ ranToday'[t] <= 1
               /\ Daily(t) \in waiting' \/ t \in scheduler'.due => ranToday'[t] = 0
               /\ ~(Daily(t) \in waiting' /\ t \in scheduler'.due)
               /\ t \notin started' => ranToday'[t] = 0
    <3>1. /\ t \in Counted /\ ranToday[t] <= 1
          /\ Daily(t) \in waiting \/ t \in scheduler.due => ranToday[t] = 0
          /\ ~(Daily(t) \in waiting /\ t \in scheduler.due)
          /\ t \notin started => ranToday[t] = 0
      BY LoopNumbers DEF Queue
    <3>2. CASE h = Daily(t)
      <4>1. ranToday'[t] = ranToday[t] + 1 /\ ranToday[t] = 0
        BY <1>2, <1>3, <1>a, <3>1, <3>2
      <4>2. Daily(t) \notin waiting' /\ t \notin scheduler'.due /\ t \in started'
        BY <1>1, <1>2, <1>c, <3>1, <3>2
      <4> QED  BY <4>1, <4>2
    <3>3. CASE h # Daily(t)
      <4>1. ranToday'[t] = ranToday[t]
        BY <1>3, <1>a, <3>1, <3>3
      <4> QED  BY <1>1, <1>2, <1>c, <3>1, <4>1
    <3> QED  BY <3>2, <3>3
  <2>2. loop' # "busy" => Own \notin waiting' /\ running' # Own
    BY <1>1, <1>2 DEF Queue
  <2>3. running' = Own => Own \notin waiting'
    BY <1>1, <1>2
  <2> QED  BY <1>2, <2>1, <2>2, <2>3 DEF Queue
<1>7. Spent'
  <2>1. /\ ranToday["management"] \in Nat /\ budget \in Nat /\ restarts.today \in Nat
        /\ MaxPerDay * restarts.today \in Nat /\ "management" \in Counted
    BY LoopNumbers DEF LoopTypeOK
  <2>2. ranToday'["management"] + Awaited' = ranToday["management"] + Awaited
    BY <1>2, <1>3, <1>b, <2>1 DEF Awaited
  <2>3. ranToday["management"] + Awaited <= budget + MaxPerDay * restarts.today + 1
    BY DEF Spent
  <2> QED  BY <1>1, <2>2, <2>3 DEF Spent
<1>8. Placed'
  BY <1>1, <1>2, <1>4 DEF Placed
<1>9. Woken'
  <2> SUFFICES ASSUME restarts.all = 0, NEW e \in Events \ Standing
               PROVE  /\ woke[e] <= 1
                      /\ woke[e] = 1 => \/ event'[e] = "read"
                                        \/ /\ loop = "busy" /\ event'[e] # "not yet"
                                           /\ running' = Own => event'[e] = "reading"
    BY <1>1 DEF Woken
  <2>1. /\ woke[e] <= 1
        /\ woke[e] = 1 => event[e] = "read" \/ (loop = "busy" /\ event[e] # "not yet")
    BY DEF Woken
  <2>2. event[e] \in {"not yet", "new", "read", "passed"}
    BY <1>1 DEF Placed, LoopTypeOK, Stands
  <2>3. event[e] \in {"new", "passed"} => event'[e] = "reading"
    BY <1>4
  <2>4. event[e] = "read" => event'[e] = "read"
    BY <1>4
  <2> QED  BY <2>1, <2>2, <2>3, <2>4
<1>10. Apart'
  BY <1>1, <1>2 DEF Apart
<1> QED  BY <1>5, <1>6, <1>7, <1>8, <1>9, <1>10

\* A cycle ends: what it read is read, and time is measured from here.
LEMMA FinishStep ==
  ASSUME LoopInv, Finish
  PROVE  LoopInv'
<1> USE DEF LoopInv
<1>1. /\ running # NoCycle /\ running' = NoCycle /\ since' = 0
      /\ rest' = IF running = Own THEN 0 ELSE rest
      /\ loop' = IF running = Own THEN "asleep" ELSE loop
      /\ UNCHANGED <<budget, queue, ranToday, started, woke, restarts, scheduler>>
  BY DEF Finish, BackToSleep
<1>2. waiting' = waiting /\ NoCycle # Own
  BY <1>1, WhoseCycle DEF waiting
<1>3. /\ event' \in [Events -> Stands]
      /\ \A e \in Events : /\ event[e] = "reading" => event'[e] = "read"
                           /\ event[e] = "during" => event'[e] = "passed"
                           /\ event[e] \notin {"reading", "during"} => event'[e] = event[e]
  <2>1. event' = [e \in Events |-> IF event[e] = "reading" THEN "read"
                                   ELSE IF event[e] = "during" THEN "passed" ELSE event[e]]
    BY Zenon DEF Finish
  <2>2. event \in [Events -> Stands]
    BY DEF LoopTypeOK
  <2> HIDE DEF LoopInv
  <2> QED  BY <2>1, <2>2 DEF Stands
<1>4. since' \in 0 .. LongAgo /\ rest' \in 0 .. LongAgo /\ rest' \in Nat
  BY <1>1, LoopNumbers DEF LoopTypeOK
<1>5. LoopTypeOK'
  BY <1>1, <1>3, <1>4 DEF LoopTypeOK
<1>6. Queue'
  BY <1>1, <1>2 DEF Queue
<1>7. Spent'
  BY <1>1, <1>2 DEF Spent, Awaited
<1>8. Placed'
  BY <1>1, <1>3 DEF Placed
<1>9. Woken'
  <2> SUFFICES ASSUME restarts.all = 0, NEW e \in Events \ Standing
               PROVE  /\ woke[e] <= 1
                      /\ woke[e] = 1 => \/ event'[e] = "read"
                                        \/ loop' = "busy" /\ event'[e] # "not yet"
    BY <1>1, <1>2 DEF Woken
  <2>1. /\ woke[e] <= 1
        /\ woke[e] = 1 => \/ event[e] = "read"
                          \/ /\ loop = "busy" /\ event[e] # "not yet"
                             /\ running = Own => event[e] = "reading"
    BY DEF Woken
  <2>2. event[e] = "read" => event'[e] = "read"
    BY <1>3
  <2>3. event[e] = "reading" => event'[e] = "read"
    BY <1>3
  <2>4. event[e] # "not yet" => event'[e] # "not yet"
    BY <1>3
  <2>5. running # Own => loop' = loop
    BY <1>1
  <2> QED  BY <2>1, <2>2, <2>3, <2>4, <2>5
<1>10. Apart'
  BY <1>1, <1>2, <1>4 DEF Apart, Queue
<1> QED  BY <1>5, <1>6, <1>7, <1>8, <1>9, <1>10

\* A cycle is cut off: what it read is new again.
LEMMA CutOffStep ==
  ASSUME LoopInv, CutOff
  PROVE  LoopInv'
<1> USE DEF LoopInv
<1>1. /\ running.by \in Askers /\ running' = NoCycle
      /\ UNCHANGED <<since, rest, budget, loop, scheduler, queue, ranToday, started, woke, restarts>>
  BY DEF CutOff
<1>2. waiting' = waiting /\ NoCycle # Own /\ running # Own /\ running # NoCycle
  BY <1>1, WhoseCycle DEF waiting, LoopTypeOK
<1>3. /\ event' \in [Events -> Stands]
      /\ \A e \in Events : /\ event'[e] \notin {"reading", "during"}
                           /\ event[e] = "read" => event'[e] = "read"
                           /\ event[e] # "not yet" => event'[e] # "not yet"
  <2>1. event' = [e \in Events |-> IF event[e] \in {"reading", "during"} THEN "new" ELSE event[e]]
    BY Zenon DEF CutOff, Unread
  <2>2. event \in [Events -> Stands]
    BY DEF LoopTypeOK
  <2> HIDE DEF LoopInv
  <2> QED  BY <2>1, <2>2 DEF Stands
<1>4. LoopTypeOK'
  BY <1>1, <1>3 DEF LoopTypeOK
<1>5. Queue'
  BY <1>1, <1>2 DEF Queue
<1>6. Spent' /\ Apart'
  BY <1>1, <1>2 DEF Spent, Awaited, Apart
<1>7. Placed'
  BY <1>1, <1>3 DEF Placed
<1>8. Woken'
  <2> SUFFICES ASSUME restarts.all = 0, NEW e \in Events \ Standing
               PROVE  /\ woke[e] <= 1
                      /\ woke[e] = 1 => event'[e] = "read" \/ (loop = "busy" /\ event'[e] # "not yet")
    BY <1>1, <1>2 DEF Woken
  <2>1. /\ woke[e] <= 1
        /\ woke[e] = 1 => event[e] = "read" \/ (loop = "busy" /\ event[e] # "not yet")
    BY DEF Woken
  <2> QED  BY <1>3, <2>1
<1> QED  BY <1>4, <1>5, <1>6, <1>7, <1>8

\* Time passes, and a day ends.
LEMMA TimeStep ==
  ASSUME LoopInv, Tick \/ Midnight
  PROVE  LoopInv'
<1> USE DEF LoopInv
<1>1. UNCHANGED <<event, loop, queue, running, woke, scheduler>> /\ restarts'.all = restarts.all
  <2>1. CASE Tick
    BY <2>1 DEF Tick
  <2>2. CASE Midnight
    BY <2>2 DEF Midnight, LoopTypeOK
  <2> QED  BY <2>1, <2>2
<1>2. waiting' = waiting
  BY <1>1 DEF waiting
<1>3. /\ since \in Nat /\ rest \in Nat /\ MinGap \in Nat /\ LongAgo \in Nat
      /\ since <= LongAgo /\ rest <= LongAgo
  BY LoopNumbers DEF LoopTypeOK
<1>4. Placed' /\ Woken'
  BY <1>1 DEF Placed, Woken
<1>5. CASE Tick
  <2>1. /\ since' = Later(since) /\ rest' = Later(rest) /\ UNCHANGED <<budget, ranToday, started, restarts>>
    BY <1>5 DEF Tick
  <2>2. since <= rest => since' <= rest'
    BY <1>3, <2>1 DEF Later
  <2>3. since' \in 0 .. LongAgo /\ rest' \in 0 .. LongAgo /\ rest' >= rest
    BY <1>3, <2>1 DEF Later
  <2>4. LoopTypeOK' /\ Queue' /\ Spent'
    BY <1>1, <1>2, <2>1, <2>3 DEF LoopTypeOK, Queue, Spent, Awaited
  <2>5. Apart'
    BY <1>1, <1>2, <1>3, <2>2, <2>3 DEF Apart
  <2> QED  BY <1>4, <2>4, <2>5
<1>6. CASE Midnight
  <2>1. budget' = 0 /\ started' = {} /\ UNCHANGED <<since, rest>>
    BY <1>6 DEF Midnight
  <2>2. ranToday' \in [Counted -> Nat] /\ \A t \in Counted : ranToday'[t] = 0
    <3>1. ranToday' = [t \in Counted |-> 0]
      BY <1>6, Zenon DEF Midnight
    <3> QED  BY <3>1
  <2>3. restarts' \in [today : Nat, all : 0 .. MaxServerStops] /\ restarts'.today = 0
    <3>1. restarts' = [restarts EXCEPT !.today = 0]
      BY <1>6, Zenon DEF Midnight
    <3> QED  BY <3>1 DEF LoopTypeOK
  <2>4. LoopTypeOK'
    BY <1>1, <2>1, <2>2, <2>3, LoopNumbers DEF LoopTypeOK
  <2>5. Queue'
    BY <1>1, <1>2, <2>1, <2>2, LoopNumbers DEF Queue
  <2>6. Spent'
    BY <1>2, <2>1, <2>2, <2>3, LoopNumbers DEF Spent, Awaited
  <2>7. Apart'
    BY <1>1, <1>2, <2>1 DEF Apart
  <2> QED  BY <1>4, <2>4, <2>5, <2>6, <2>7
<1> QED  BY <1>5, <1>6

\* An event happens, in a cycle or outside of one.
LEMMA HappensStep ==
  ASSUME LoopInv, NEW i \in Events, Happens(i)
  PROVE  LoopInv'
<1> USE DEF LoopInv
<1>1. /\ event[i] = "not yet"
      /\ UNCHANGED <<since, rest, budget, loop, queue, running, ranToday, started, woke, restarts, scheduler>>
  BY DEF Happens
<1>2. /\ event' \in [Events -> Stands]
      /\ event'[i] = IF running = NoCycle THEN "new" ELSE "during"
      /\ \A e \in Events : e # i => event'[e] = event[e]
  <2>1. event' = [event EXCEPT ![i] = IF running = NoCycle THEN "new" ELSE "during"]
    BY DEF Happens
  <2>2. event \in [Events -> Stands]
    BY DEF LoopTypeOK
  <2> HIDE DEF LoopInv
  <2> QED  BY <2>1, <2>2 DEF Stands
<1>3. waiting' = waiting
  BY <1>1 DEF waiting
<1>4. LoopTypeOK' /\ Queue' /\ Spent' /\ Apart'
  BY <1>1, <1>2, <1>3 DEF LoopTypeOK, Queue, Spent, Awaited, Apart
<1>5. Placed'
  BY <1>1, <1>2 DEF Placed
<1>6. Woken'
  <2> SUFFICES ASSUME restarts.all = 0, NEW e \in Events \ Standing
               PROVE  /\ woke[e] <= 1
                      /\ woke[e] = 1 => /\ event'[e] = event[e]
    BY <1>1 DEF Woken
  <2>1. woke[e] <= 1 /\ (woke[e] = 1 => event[e] # "not yet")
    BY DEF Woken
  <2> QED  BY <1>1, <1>2, <2>1
<1> QED  BY <1>4, <1>5, <1>6

\* The server restarts: the budget is forgotten, and the restart is counted.
LEMMA ServerRestartsStep ==
  ASSUME LoopInv, ServerRestarts
  PROVE  LoopInv'
<1> USE DEF LoopInv
<1>1. /\ restarts.all < MaxServerStops /\ budget' = 0 /\ loop' = "asleep" /\ queue' = <<>>
      /\ running' = NoCycle /\ scheduler' = SchedulerAsleep
      /\ UNCHANGED <<since, rest, ranToday, started, woke>>
  BY DEF ServerRestarts
<1>2. /\ restarts' \in [today : Nat, all : 0 .. MaxServerStops]
      /\ restarts'.today = restarts.today + 1 /\ restarts'.all # 0
  <2>1. restarts' = [today |-> restarts.today + 1, all |-> restarts.all + 1]
    BY Zenon DEF ServerRestarts
  <2>2. restarts.today \in Nat /\ restarts.all \in 0 .. MaxServerStops /\ MaxServerStops \in Nat
    BY LoopNumbers DEF LoopTypeOK
  <2>3. restarts'.today = restarts.today + 1 /\ restarts'.all = restarts.all + 1
    BY <2>1
  <2>4. restarts.today + 1 \in Nat /\ restarts.all + 1 \in 0 .. MaxServerStops /\ restarts.all + 1 # 0
    BY <1>1, <2>2
  <2> QED  BY <2>1, <2>3, <2>4
<1>3. /\ event' \in [Events -> Stands]
      /\ \A e \in Events : event'[e] \notin {"reading", "during"}
  <2>1. event' = [e \in Events |-> IF event[e] \in {"reading", "during"} THEN "new" ELSE event[e]]
    BY Zenon DEF ServerRestarts, Unread
  <2>2. event \in [Events -> Stands]
    BY DEF LoopTypeOK
  <2> HIDE DEF LoopInv
  <2> QED  BY <2>1, <2>2 DEF Stands
<1>4. waiting' = {} /\ queue' \in Seq(Cycles) /\ IsInjective(queue')
  <2>1. <<>> \in Seq(Cycles) /\ IsInjective(<<>>)
    BY EmptySeq DEF IsInjective
  <2> QED  BY <1>1, <2>1, EmptyHas DEF waiting
<1>5. LoopTypeOK'
  BY <1>1, <1>2, <1>3, <1>4, LoopNumbers DEF LoopTypeOK, SchedulerAsleep
<1>6. Queue'
  <2>1. running' # Own /\ scheduler'.due = {}
    BY <1>1, WhoseCycle DEF SchedulerAsleep
  <2> QED  BY <1>1, <1>4, <2>1 DEF Queue
<1>7. Spent'
  <2>1. /\ ranToday["management"] \in Nat /\ restarts.today \in Nat /\ MaxPerDay \in Nat
        /\ budget \in Nat /\ budget <= MaxPerDay
    BY LoopNumbers DEF LoopTypeOK
  <2>2. /\ MaxPerDay * restarts.today \in Nat
        /\ MaxPerDay * (restarts.today + 1) = MaxPerDay * restarts.today + MaxPerDay
    BY <2>1, LoopNumbers
  <2>3. ranToday["management"] <= budget + MaxPerDay * restarts.today + 1
    BY <2>1, <2>2 DEF Spent, Awaited
  <2>4. ranToday["management"] <= MaxPerDay * (restarts.today + 1) + 1
    BY <2>1, <2>2, <2>3
  <2>5. Awaited' = 0
    BY <1>4 DEF Awaited
  <2>6. ranToday["management"] + 0 <= 0 + MaxPerDay * (restarts.today + 1) + 1
    BY <2>1, <2>2, <2>4
  <2>7. ranToday' = ranToday /\ budget' = 0 /\ restarts'.today = restarts.today + 1
    BY <1>1, <1>2
  <2> HIDE DEF LoopInv
  <2> QED  BY <2>5, <2>6, <2>7 DEF Spent
<1>8. Placed'
  BY <1>1, <1>3 DEF Placed
<1>9. Woken'
  BY <1>2 DEF Woken
<1>10. Apart'
  BY <1>1, <1>4 DEF Apart
<1> QED  BY <1>5, <1>6, <1>7, <1>8, <1>9, <1>10

LEMMA LoopStays ==
  ASSUME LoopInv, UNCHANGED loopVars
  PROVE  LoopInv'
<1>1. UNCHANGED <<event, since, rest, budget, loop, queue, running, ranToday, started, woke, restarts, scheduler>>
  BY DEF loopVars
<1>2. waiting' = waiting
  BY <1>1 DEF waiting
<1> QED  BY <1>1, <1>2 DEF LoopInv, LoopTypeOK, Queue, Spent, Awaited, Placed, Woken, Apart

LEMMA ManagementStep ==
  ASSUME LoopInv, LoopNext
  PROVE  LoopInv'
<1>1. CASE LoopStep
  BY <1>1, LoopLooksStep, LoopDecidesStep DEF LoopStep
<1>2. CASE LockStep
  BY <1>2, RefusedStep, BeginStep, FinishStep DEF LockStep
<1>3. CASE SchedulerStep
  BY <1>3, SchedulerLooksStep, SchedulerDueStep DEF SchedulerStep
<1>8. CASE CutOff \/ \E a \in Askers, t \in Requests : Replan(a, t)
  BY <1>8, CutOffStep, CallerWaitsStep
<1>4. CASE Tick \/ Midnight
  BY <1>4, TimeStep
<1>5. CASE ServerRestarts
  BY <1>5, ServerRestartsStep
<1>6. CASE \E e \in Events : Happens(e)
  BY <1>6, HappensStep
<1>7. CASE Flip /\ UNCHANGED loopVars
  BY <1>7, LoopStays
<1> QED  BY <1>1, <1>2, <1>3, <1>4, <1>5, <1>6, <1>7, <1>8 DEF LoopNext, LoopActs

\* The bounds the runs check follow from the invariant.
LEMMA LoopIsSound ==
  ASSUME LoopInv
  PROVE  ManagementIsSound
<1> USE DEF LoopInv
<1>1. DayKeepsBudget
  <2>1. /\ ranToday["management"] \in Nat /\ restarts.today \in Nat /\ MaxPerDay \in Nat
        /\ budget \in Nat /\ budget <= MaxPerDay /\ Awaited \in Nat
    BY LoopNumbers DEF LoopTypeOK, Awaited
  <2>2. /\ MaxPerDay * restarts.today \in Nat
        /\ MaxPerDay * (restarts.today + 1) = MaxPerDay * restarts.today + MaxPerDay
        /\ 1 + restarts.today = restarts.today + 1
    BY <2>1, LoopNumbers
  <2>3. ranToday["management"] <= MaxPerDay * (1 + restarts.today) + 1
    BY <2>1, <2>2 DEF Spent
  <2> QED  BY <2>3 DEF DayKeepsBudget, Queue
<1>2. WakesOnce
  <2> SUFFICES ASSUME NEW e \in Events \ Standing PROVE woke[e] <= 1 + restarts.all
    BY DEF WakesOnce
  <2>1. woke[e] \in 0 .. 2 /\ restarts.all \in Nat
    BY LoopNumbers DEF LoopTypeOK
  <2>2. restarts.all = 0 => woke[e] <= 1
    BY DEF Woken
  <2> QED  BY <2>1, <2>2
<1> QED  BY <1>1, <1>2 DEF ManagementIsSound

\* A management cycle begins at the gap's distance from the one before.
LEMMA GapIsKept ==
  ASSUME LoopInv, LoopNext, running' = Own, running # Own
  PROVE  rest >= MinGap
<1>1. CASE Begin
  <2>1. queue # <<>> /\ Head(queue) = Own
    BY <1>1 DEF Begin
  <2>2. Own \in waiting
    BY <2>1, QueueShrinks DEF LoopInv, Queue
  <2> QED  BY <2>2 DEF LoopInv, Apart
<1>2. CASE ~Begin
  <2>1. running' \in {running, NoCycle}
    BY <1>2 DEF LoopNext, LoopActs, LoopStep, LockStep, SchedulerStep, LoopWakes, LoopMeasures, LoopDecides,
                Refused, Finish, CutOff, Replan, Tick, Midnight, ServerRestarts, SchedulerReads,
                SchedulerLooks, SchedulerDue, Happens, loopVars
  <2> QED  BY <2>1, WhoseCycle
<1> QED  BY <1>1, <1>2

-----------------------------------------------------------------------------
(* The voice client.                                                       *)

Announcing == [announcements : 0 .. MaxAnnouncements, losses : 0 .. MaxLosses]

\* What is held was announced: what can still be held is bounded by both.
VoiceInv ==
  /\ VoiceTypeOK
  /\ left \in Announcing
  /\ held + left.announcements <= MaxAnnouncements

LEMMA VoiceNumbers ==
  /\ IDLE \in Nat /\ FOLLOWUP \in Nat /\ MAX_SESSION \in Nat /\ SILENCE \in Nat /\ MAX_UTTERANCE \in Nat
  /\ PRE_ROLL \in Nat
  /\ QUEUE \in Nat /\ Speech \in Nat /\ MaxCheck \in Nat /\ MaxAsked \in Nat /\ MaxAnnouncements \in Nat
  /\ MaxLosses \in Nat /\ SILENCE > 0 /\ MAX_UTTERANCE > 0 /\ QUEUE > 0
  /\ FOLLOWUP <= IDLE /\ MaxCheck < IDLE /\ IDLE <= MAX_SESSION
BY VoiceAssumption

OpenSession == [active : BOOLEAN, idle : -1 .. IDLE, hard : -1 .. MAX_SESSION]
Speaking == Unfinished \union PreRolls

LEMMA SpokenForANumber ==
  ASSUME NEW n \in Nat, NEW m \in Nat
  PROVE  n + Speech * m \in Nat
BY VoiceNumbers

LEMMA AsleepIsASession ==
  AsleepSession \in OpenSession /\ Nothing \in Speaking
<1>1. Nothing \in Speaking
  BY DEF Speaking, PreRolls
<1> QED  BY <1>1, VoiceNumbers DEF AsleepSession, OpenSession

LEMMA VoiceStart ==
  ASSUME VoiceInit
  PROVE  VoiceInv
<1>1. session \in OpenSession /\ utterance \in Speaking
  BY AsleepIsASession DEF VoiceInit
<1>2. audio \in Seq(BOOLEAN) /\ Len(audio) <= QUEUE
  BY VoiceNumbers DEF VoiceInit
<1>3. checking \in -1 .. MaxCheck /\ talking \in Nat /\ held \in 0 .. MaxAnnouncements
      /\ asked \in 0 .. MaxAsked /\ left \in Announcing /\ held + left.announcements <= MaxAnnouncements
  BY VoiceNumbers DEF VoiceInit, Announcing
<1> QED  BY <1>1, <1>2, <1>3 DEF VoiceInv, VoiceTypeOK, OpenSession, Speaking

LEMMA VoiceStays ==
  ASSUME VoiceInv, UNCHANGED voiceVars
  PROVE  VoiceInv'
BY DEF VoiceInv, VoiceTypeOK, voiceVars

LEMMA TickStep ==
  ASSUME VoiceInv, NEW loud \in BOOLEAN, VoiceTick(loud)
  PROVE  VoiceInv'
<1> USE VoiceNumbers DEF VoiceInv, VoiceTypeOK
<1>1. audio' \in Seq(BOOLEAN) /\ Len(audio') <= QUEUE
  <2>1. CASE Len(audio) < QUEUE
    <3>1. audio' = Append(audio, loud)
      BY <2>1 DEF VoiceTick
    <3> QED  BY <2>1, <3>1
  <2>2. CASE ~(Len(audio) < QUEUE)
    BY <2>2 DEF VoiceTick
  <2> QED  BY <2>1, <2>2
<1>2. talking' \in Nat
  <2>1. talking' = Larger(0, talking - 1) /\ talking \in Nat
    BY DEF VoiceTick
  <2> HIDE DEF VoiceInv, VoiceTypeOK
  <2> QED  BY <2>1 DEF Larger
<1>4. checking' \in -1 .. MaxCheck
  <2>1. checking >= 0 => checking < MaxCheck
    <3>1. IF checking < 0 THEN audio = <<>> ELSE checking < MaxCheck
      BY DEF VoiceTick, KeepsPace
    <3>2. checking \in Int /\ MaxCheck \in Int
      OBVIOUS
    <3> HIDE DEF VoiceInv, VoiceTypeOK
    <3> QED  BY <3>1, <3>2
  <2>2. checking' = IF checking >= 0 THEN checking + 1 ELSE -1
    BY DEF VoiceTick
  <2> QED  BY <2>1, <2>2
<1>3. session' \in OpenSession
  <2>1. CASE session.active
    <3>1. session' = [session EXCEPT !.idle = Larger(-1, session.idle - 1),
                                     !.hard = Larger(-1, session.hard - 1)]
      BY <2>1 DEF VoiceTick
    <3>2. Larger(-1, session.idle - 1) \in -1 .. IDLE /\ Larger(-1, session.hard - 1) \in -1 .. MAX_SESSION
      BY DEF Larger
    <3> QED  BY <3>1, <3>2 DEF OpenSession
  <2>2. CASE ~session.active
    BY <2>2 DEF VoiceTick, OpenSession
  <2> QED  BY <2>1, <2>2
<1> QED  BY <1>1, <1>2, <1>3, <1>4 DEF VoiceTick, OpenSession

\* What is collected of an utterance that goes on.
LEMMA CollectedIs ==
  ASSUME VoiceTypeOK, NEW loud \in BOOLEAN, ~Complete(Collected(loud))
  PROVE  Collected(loud) \in Speaking
<1>1. CASE utterance.blocks = 0 /\ ~loud
  BY <1>1, AsleepIsASession DEF Collected
<1>2. CASE ~(utterance.blocks = 0 /\ ~loud)
  <2> DEFINE b == utterance.blocks + 1
             q == IF loud THEN 0 ELSE utterance.quiet + 1
  <2>1. Collected(loud) = [blocks |-> b, quiet |-> q]
    BY <1>2 DEF Collected
  <2>2. b \in Nat /\ q \in Nat
    <3>1. utterance.blocks \in Nat /\ utterance.quiet \in Nat
      BY VoiceNumbers DEF VoiceTypeOK, Unfinished, PreRolls, Nothing
    <3> QED  BY <3>1
  <2> HIDE DEF b, q
  <2>3. q < SILENCE /\ b < MAX_UTTERANCE
    BY <2>1, <2>2, VoiceNumbers DEF Complete
  <2>4. b \in 0 .. MAX_UTTERANCE - 1 /\ q \in 0 .. SILENCE - 1
    BY <2>2, <2>3, VoiceNumbers
  <2> QED  BY <2>1, <2>4 DEF Speaking, Unfinished
<1> QED  BY <1>1, <1>2

LEMMA HearStep ==
  ASSUME VoiceInv, HearBlock
  PROVE  VoiceInv'
<1> USE VoiceNumbers DEF VoiceInv
<1>1. audio' \in Seq(BOOLEAN) /\ Len(audio') <= QUEUE /\ Head(audio) \in BOOLEAN /\ UNCHANGED left
  BY DEF HearBlock, VoiceTypeOK
<1>2. CASE talking > 0 /\ HearGary
  <2> DEFINE n == Larger(session.idle, FOLLOWUP)
  <2>3. n \in -1 .. IDLE
    BY DEF Larger, VoiceTypeOK
  <2>4. session' = IF session.active THEN [session EXCEPT !.idle = n] ELSE session
    BY <1>2 DEF HearGary
  <2> HIDE DEF n
  <2>1. session' \in OpenSession
    BY <2>3, <2>4 DEF VoiceTypeOK, OpenSession
  <2> QED  BY <1>1, <1>2, <2>1 DEF HearGary, VoiceTypeOK, OpenSession
<1>3. CASE talking = 0 /\ session.active /\ HearAlex(Head(audio))
  <2> DEFINE u == Collected(Head(audio))
             s == IF Complete(u) THEN [session EXCEPT !.idle = Larger(@, IDLE)] ELSE session
  <2>1. /\ asked' = IF Complete(u) THEN Smaller(asked + 1, MaxAsked) ELSE asked
        /\ session' = IF Expired(s) THEN AsleepSession ELSE s
        /\ utterance' = IF Complete(u) \/ Expired(s) THEN Nothing ELSE u
        /\ talking' = IF Expired(s) THEN talking + Speech * held ELSE talking
        /\ held' = IF Expired(s) THEN 0 ELSE held
        /\ UNCHANGED checking
    BY <1>3 DEF HearAlex
  <2>2. s \in OpenSession
    <3> DEFINE n == Larger(session.idle, IDLE)
    <3>1. n \in -1 .. IDLE
      BY DEF Larger, VoiceTypeOK
    <3>2. s = IF Complete(u) THEN [session EXCEPT !.idle = n] ELSE session
      OBVIOUS
    <3> HIDE DEF n, s, u
    <3> QED  BY <3>1, <3>2 DEF VoiceTypeOK, OpenSession
  <2>3. ~Complete(u) => u \in Speaking
    BY <1>1, CollectedIs
  <2> HIDE DEF u, s
  <2>4. session' \in OpenSession /\ utterance' \in Speaking
    BY <2>1, <2>2, <2>3, AsleepIsASession
  <2>5. asked' \in 0 .. MaxAsked
    BY <2>1 DEF VoiceTypeOK, Smaller
  <2>6. talking' \in Nat
    <3> DEFINE t == talking + Speech * held
    <3>1. talking \in Nat /\ held \in Nat
      BY DEF VoiceTypeOK
    <3>2. t \in Nat
      BY <3>1, SpokenForANumber
    <3>3. talking' = IF Expired(s) THEN t ELSE talking
      BY <2>1
    <3> HIDE DEF t
    <3> QED  BY ONLY <3>1, <3>2, <3>3
  <2>7. held' \in 0 .. MaxAnnouncements /\ held' + left.announcements <= MaxAnnouncements
    BY <2>1 DEF VoiceTypeOK, Announcing
  <2> QED  BY <1>1, <2>1, <2>4, <2>5, <2>6, <2>7 DEF VoiceTypeOK, OpenSession, Speaking
<1>4. CASE talking = 0 /\ ~session.active /\ ListenForWake(Head(audio))
  <2>1. checking' \in -1 .. MaxCheck
    <3>1. checking' = 0 \/ checking' = -1
      BY <1>4 DEF ListenForWake
    <3> HIDE DEF VoiceInv
    <3> QED  BY <3>1
  <2> QED  BY <1>1, <1>4, <2>1 DEF ListenForWake, VoiceTypeOK
<1> QED  BY <1>2, <1>3, <1>4 DEF HearBlock

LEMMA CheckStep ==
  ASSUME VoiceInv, NEW woken \in BOOLEAN, CheckEnds(woken)
  PROVE  VoiceInv'
<1> USE VoiceNumbers DEF VoiceInv
<1>1. session' \in OpenSession
  BY DEF CheckEnds, VoiceTypeOK, OpenSession
<1>2. utterance' \in Speaking
  <2>1. CASE woken
    BY <2>1 DEF CheckEnds, Speaking
  <2>2. CASE ~woken
    BY <2>2 DEF CheckEnds, VoiceTypeOK, Speaking
  <2> QED  BY <2>1, <2>2
<1> QED  BY <1>1, <1>2 DEF CheckEnds, VoiceTypeOK, OpenSession, Speaking

LEMMA ReplyStep ==
  ASSUME VoiceInv, Reply \/ NoReply
  PROVE  VoiceInv'
<1> USE VoiceNumbers DEF VoiceInv
<1>1. session' \in OpenSession
  <2>1. session' = session \/ session' = [session EXCEPT !.idle = FOLLOWUP]
    BY DEF Reply, NoReply
  <2>2. FOLLOWUP \in -1 .. IDLE
    OBVIOUS
  <2>3. session \in OpenSession
    BY DEF VoiceTypeOK, OpenSession
  <2> HIDE DEF VoiceInv
  <2>4. [session EXCEPT !.idle = FOLLOWUP] \in OpenSession
    BY <2>2, <2>3 DEF OpenSession
  <2> QED  BY <2>1, <2>3, <2>4
<1>2. asked' \in 0 .. MaxAsked /\ talking' \in Nat
  <2>1. asked > 0 /\ asked' = asked - 1 /\ (talking' = talking + Speech \/ talking' = talking)
    BY DEF Reply, NoReply
  <2>2. asked \in 0 .. MaxAsked /\ talking \in Nat
    BY DEF VoiceTypeOK
  <2> HIDE DEF VoiceInv
  <2> QED  BY <2>1, <2>2
<1>3. UNCHANGED <<audio, utterance, checking, held, left>>
  BY DEF Reply, NoReply
<1> QED  BY <1>1, <1>2, <1>3 DEF VoiceTypeOK, OpenSession

LEMMA AnnounceStep ==
  ASSUME VoiceInv, Announce
  PROVE  VoiceInv'
<1> USE VoiceNumbers DEF VoiceInv
<1>1. left' \in Announcing /\ left'.announcements = left.announcements - 1
  BY DEF Announce, Announcing
<1>2. left.announcements \in Nat /\ left.announcements > 0
  BY DEF Announce, Announcing
<1>3. talking' \in Nat /\ held' \in 0 .. MaxAnnouncements /\ held' + left'.announcements <= MaxAnnouncements
  <2>1. \/ held' = held + 1 /\ talking' = talking
        \/ talking' = talking + Speech /\ held' = held
    BY DEF Announce
  <2>2. held \in 0 .. MaxAnnouncements /\ talking \in Nat /\ held + left.announcements <= MaxAnnouncements
    BY DEF VoiceTypeOK
  <2> HIDE DEF VoiceInv
  <2> QED  BY <1>1, <1>2, <2>1, <2>2
<1> QED  BY <1>1, <1>3 DEF Announce, VoiceTypeOK

LEMMA ReconnectStep ==
  ASSUME VoiceInv, Reconnect
  PROVE  VoiceInv'
<1> USE VoiceNumbers DEF VoiceInv
<1>1. left' \in Announcing /\ left'.announcements = left.announcements /\ left.announcements <= MaxAnnouncements
  BY DEF Reconnect, Announcing
<1>2. session' \in OpenSession /\ utterance' \in Speaking
  BY AsleepIsASession DEF Reconnect
<1>3. left.announcements \in Nat
  BY DEF Announcing
<1>4. /\ held' = 0 /\ asked' = 0 /\ checking' = -1 /\ UNCHANGED <<audio, talking>>
  BY DEF Reconnect
<1>5. audio' \in Seq(BOOLEAN) /\ Len(audio') <= QUEUE /\ talking' \in Nat
  BY <1>4 DEF VoiceTypeOK
<1>6. checking' \in -1 .. MaxCheck /\ held' \in 0 .. MaxAnnouncements /\ asked' \in 0 .. MaxAsked
      /\ held' + left'.announcements <= MaxAnnouncements
  BY <1>1, <1>3, <1>4
<1> QED  BY <1>1, <1>2, <1>5, <1>6 DEF VoiceTypeOK, OpenSession, Speaking

LEMMA VoiceStep ==
  ASSUME VoiceInv, VoiceNext
  PROVE  VoiceInv'
BY TickStep, HearStep, CheckStep, ReplyStep, AnnounceStep, ReconnectStep DEF VoiceNext

-----------------------------------------------------------------------------
(* The whole: one component runs, the others stand still.                  *)

UnattendedInv ==
  /\ part = "mail" => OperatingInv
  /\ part = "search" => SearchInv
  /\ part = "loop" => LoopInv
  /\ part = "voice" => VoiceInv

LEMMA OperatingStays ==
  ASSUME OperatingInv, UNCHANGED <<operatingVars, switches>>
  PROVE  OperatingInv'
<1>1. UNCHANGED <<mail, cursor, poll, applied, stops, paused>>
  BY DEF operatingVars, switches
<1>2. Here' = Here /\ Listed' = Listed /\ done' = done /\ todo' = todo
  <2>1. Here' = Here /\ done' = done /\ todo' = todo
    BY <1>1, Zenon DEF Here, done, todo
  <2>2. \A i : {j \in Here : Earlier(i, j)}' = {j \in Here : Earlier(i, j)}
    BY <1>1, <2>1 DEF Earlier
  <2> QED  BY <2>1, <2>2, Zenon DEF Listed
<1>3. InTime' = InTime
  BY <1>1 DEF InTime, Earlier
<1>4. (OperatingTypes /\ Messages)'
  BY <1>1, <1>2, <1>3, Zenon DEF OperatingInv, OperatingTypes, OperatingTypeOK, Messages, Here, done, todo, IsCommand, Ascends
<1>5. (Stage /\ Whole)'
  BY <1>1, <1>2 DEF OperatingInv, Stage, Whole
<1>6. (FirstOfDate /\ NewestCommandHolds)'
  BY <1>1, <1>2, Zenon DEF OperatingInv, FirstOfDate, NewestCommandHolds
<1> QED  BY <1>4, <1>5, <1>6 DEF OperatingInv

LEMMA UnattendedStart ==
  ASSUME Init
  PROVE  UnattendedInv
BY OperatingStart, SearchStart, LoopStart, VoiceStart DEF Init, UnattendedInv

LEMMA UnattendedStep ==
  ASSUME UnattendedInv, [Next]_partVars
  PROVE  UnattendedInv'
<1>1. CASE UNCHANGED partVars
  <2>1. /\ UNCHANGED part /\ UNCHANGED <<operatingVars, switches>>
        /\ UNCHANGED searchVars /\ UNCHANGED loopVars /\ UNCHANGED voiceVars
    BY <1>1 DEF partVars
  <2> QED  BY <2>1, OperatingStays, SearchStays, LoopStays, VoiceStays DEF UnattendedInv
<1>2. CASE Next
  <2>1. UNCHANGED part
    BY <1>2 DEF Next
  <2>2. CASE part = "mail" /\ MailRuns
    BY <2>1, <2>2, OperatingStep DEF MailRuns, UnattendedInv
  <2>3. CASE part = "search" /\ SearchRuns
    BY <2>1, <2>3, SearchStep DEF SearchRuns, UnattendedInv
  <2>4. CASE part = "loop" /\ LoopRuns
    BY <2>1, <2>4, ManagementStep DEF LoopRuns, UnattendedInv
  <2>5. CASE part = "voice" /\ VoiceRuns
    BY <2>1, <2>5, VoiceStep DEF VoiceRuns, UnattendedInv
  <2> QED  BY <1>2, <2>2, <2>3, <2>4, <2>5 DEF Next
<1> QED  BY <1>1, <1>2

LEMMA UnattendedFollows ==
  ASSUME UnattendedInv
  PROVE  UnattendedTypeOK /\ UnattendedIsSound
<1>1. OperatingInv => OperatingTypeOK /\ NewestCommandHolds
  BY DEF OperatingInv, OperatingTypes
<1>2. SearchInv => SearchTypeOK
  BY SearchTypesAreOK
<1>3. LoopInv => LoopTypeOK /\ ManagementIsSound
  BY LoopIsSound DEF LoopInv
<1>4. VoiceInv => VoiceTypeOK
  BY DEF VoiceInv
<1> QED  BY <1>1, <1>2, <1>3, <1>4 DEF UnattendedInv, UnattendedTypeOK, UnattendedIsSound

LEMMA UnattendedSteps ==
  ASSUME UnattendedInv, [Next]_partVars
  PROVE  /\ [\A i \in ToSet(poll.todo) :
               (IsCommand(i) /\ cursor < mail[i].date /\ mail[i].date <= cursor')
                 => i \in ToSet(applied) \/ \E j \in Here : j < i /\ mail[j].date = mail[i].date]_operatingVars
         /\ [running' = Own /\ running # Own => rest >= MinGap]_loopVars
<1>1. part # "mail" => UNCHANGED operatingVars
  BY DEF Next, partVars, SearchRuns, LoopRuns, VoiceRuns
<1>2. part # "loop" => UNCHANGED loopVars
  BY DEF Next, partVars, MailRuns, SearchRuns, VoiceRuns
<1>3. ASSUME part = "mail", operatingVars' # operatingVars, NEW i \in ToSet(poll.todo),
             IsCommand(i), cursor < mail[i].date, mail[i].date <= cursor'
      PROVE  i \in ToSet(applied) \/ \E j \in Here : j < i /\ mail[j].date = mail[i].date
  <2>1. OperatingInv /\ OperatingNext
    BY <1>3 DEF UnattendedInv, Next, MailRuns, partVars
  <2>2. i \in todo /\ PassedOver(i)
    BY <1>3 DEF todo, PassedOver
  <2> QED  BY <2>1, <2>2, NothingIsPassedOver DEF DealtWith, done
<1>4. ASSUME part = "loop", loopVars' # loopVars, running' = Own, running # Own
      PROVE  rest >= MinGap
  <2>1. LoopInv /\ LoopNext
    BY <1>4 DEF UnattendedInv, Next, LoopRuns, partVars
  <2> QED  BY <1>4, <2>1, GapIsKept
<1> QED  BY <1>1, <1>2, <1>3, <1>4

\* Commands, searches, the management loop and the voice client keep to their
\* types: the queue of blocks, the utterance and the clocks are bounded, the loop's
\* budget is never overdrawn, and whatever Whisper or the inbox does there is no
\* other state.
THEOREM UnattendedTyped == Spec => []UnattendedTypeOK
<1>1. UnattendedInv /\ [Next]_partVars => UnattendedInv'
  BY UnattendedStep
<1>2. Init => UnattendedInv
  BY UnattendedStart
<1>3. UnattendedInv => UnattendedTypeOK
  BY UnattendedFollows
<1> QED  BY <1>1, <1>2, <1>3, PTL DEF Spec

\* The newest of Alex's commands that was carried out is what holds, whichever
\* pass was cut off or failed between the switch, the mail and the cursor; and the
\* loop's own management cycles stay within the day's budget, which each start of
\* the server renews, and an event wakes it once for each start.
THEOREM UnattendedSound == Spec => []UnattendedIsSound
<1>1. UnattendedInv /\ [Next]_partVars => UnattendedInv'
  BY UnattendedStep
<1>2. Init => UnattendedInv
  BY UnattendedStart
<1>3. UnattendedInv => UnattendedIsSound
  BY UnattendedFollows
<1> QED  BY <1>1, <1>2, <1>3, PTL DEF Spec

\* The cursor passes over no command that the pass still holds, since it holds
\* them oldest first; and a management cycle begins at MIN_GAP_MINUTES from the
\* one before, although it waits for the lock after the gap was looked at.
THEOREM UnattendedKept == Spec => StepsAreKept
<1>1. UnattendedInv /\ [Next]_partVars => UnattendedInv'
  BY UnattendedStep
<1>2. Init => UnattendedInv
  BY UnattendedStart
<1>3. UnattendedInv /\ [Next]_partVars
        => /\ [\A i \in ToSet(poll.todo) :
                 (IsCommand(i) /\ cursor < mail[i].date /\ mail[i].date <= cursor')
                   => i \in ToSet(applied)
                      \/ \E j \in Here : j < i /\ mail[j].date = mail[i].date]_operatingVars
           /\ [running' = Own /\ running # Own => rest >= MinGap]_loopVars
  BY UnattendedSteps
<1> QED  BY <1>1, <1>2, <1>3, PTL DEF Spec, StepsAreKept, NoCommandIsPassedOver, ManagementGapKept
=============================================================================
