----------------------------- MODULE SearchProofs -----------------------------
(***************************************************************************)
(* Proofs about the product search, for any limits, reports and callers.   *)
(*                                                                         *)
(* First what is true of finite orders and of sequences, whatever they are *)
(* of, which the proofs of other components use as well.                   *)
(***************************************************************************)
EXTENDS ProductSearch, FiniteSetTheorems, SequenceTheorems, WellFoundedInduction, TLAPS

-----------------------------------------------------------------------------
(* Orders.                                                                 *)

\* Of any natural numbers there is a smallest.
LEMMA Smallest ==
  ASSUME NEW S \in SUBSET Nat, S # {}
  PROVE  \E m \in S : \A k \in S : m <= k
<1>1. PICK m \in S : \A k \in S : <<k, m>> \notin OpToRel(<, Nat)
  BY NatLessThanWellFounded, WFMin, Zenon
<1>2. \A k \in S : ~ (k < m)
  BY <1>1 DEF OpToRel
<1> QED  BY <1>2

\* before is a strict order of S.
IsOrder(before, S) ==
  /\ \A x \in S : <<x, x>> \notin before
  /\ \A x, y, z \in S : <<x, y>> \in before /\ <<y, z>> \in before => <<x, z>> \in before

IsTotal(before, S) == \A x, y \in S : x = y \/ <<x, y>> \in before \/ <<y, x>> \in before

Below(before, S, x) == {y \in S : <<y, x>> \in before}

\* What comes later has more before it.
LEMMA BelowGrows ==
  ASSUME NEW S, IsFiniteSet(S), NEW before, IsOrder(before, S),
         NEW x \in S, NEW y \in S, <<x, y>> \in before
  PROVE  /\ Cardinality(Below(before, S, x)) \in Nat
         /\ Cardinality(Below(before, S, y)) \in Nat
         /\ Cardinality(Below(before, S, x)) < Cardinality(Below(before, S, y))
<1> DEFINE X == Below(before, S, x)
           Y == Below(before, S, y)
<1>1. X \subseteq Y /\ x \in Y /\ x \notin X /\ Y \subseteq S
  BY DEF Below, IsOrder
<1>2. IsFiniteSet(Y)
  BY <1>1, FS_Subset
<1>3. IsFiniteSet(X) /\ Cardinality(X) <= Cardinality(Y) /\ (Cardinality(Y) = Cardinality(X) => Y = X)
  BY <1>1, <1>2, FS_Subset
<1>4. Cardinality(X) \in Nat /\ Cardinality(Y) \in Nat
  BY <1>2, <1>3, FS_CardinalityType
<1> HIDE DEF X, Y
<1>5. Cardinality(X) < Cardinality(Y)
  BY <1>1, <1>3, <1>4
<1> QED  BY <1>4, <1>5 DEF X, Y

\* A finite set that is not empty has a first element.
LEMMA First ==
  ASSUME NEW S, IsFiniteSet(S), S # {}, NEW before, IsOrder(before, S)
  PROVE  \E x \in S : \A y \in S : <<y, x>> \notin before
<1> DEFINE size(x) == Cardinality(Below(before, S, x))
           Sizes == {size(x) : x \in S}
<1>1. \A x \in S : size(x) \in Nat
  <2> SUFFICES ASSUME NEW x \in S PROVE size(x) \in Nat
    OBVIOUS
  <2>1. IsFiniteSet(Below(before, S, x))
    BY FS_Subset DEF Below
  <2> QED  BY <2>1, FS_CardinalityType
<1>2. Sizes \in SUBSET Nat /\ Sizes # {}
  BY <1>1
<1>3. PICK m \in Sizes : \A k \in Sizes : m <= k
  BY <1>2, Smallest
<1>4. PICK x \in S : m = size(x)
  BY <1>3
<1>5. ASSUME NEW y \in S, <<y, x>> \in before PROVE FALSE
  <2>1. size(y) \in Nat /\ size(x) \in Nat /\ size(y) < size(x)
    BY <1>5, BelowGrows
  <2>2. size(x) <= size(y)
    BY <1>3, <1>4
  <2> HIDE DEF size
  <2> QED  BY <2>1, <2>2
<1> QED  BY <1>5

Ascends(s, before) == \A a, b \in DOMAIN s : a < b => <<s[a], s[b]>> \in before

\* A finite set can be listed in a total order, and such a list has all of it.
LEMMA Listing ==
  ASSUME NEW S, IsFiniteSet(S), NEW before, IsOrder(before, S), IsTotal(before, S)
  PROVE  /\ Cardinality(S) \in Nat
         /\ \E s \in [1 .. Cardinality(S) -> S] : Ascends(s, before)
         /\ \A s \in [1 .. Cardinality(S) -> S] :
              Ascends(s, before) => \A x \in S : \E a \in 1 .. Cardinality(S) : s[a] = x
<1> DEFINE n == Cardinality(S)
           rank == [x \in S |-> Cardinality(Below(before, S, x)) + 1]
<1>1. n \in Nat
  BY FS_CardinalityType
<1>2. rank \in [S -> 1 .. n]
  <2> SUFFICES ASSUME NEW x \in S PROVE Cardinality(Below(before, S, x)) + 1 \in 1 .. n
    OBVIOUS
  <2>1. Below(before, S, x) \in SUBSET S /\ x \notin Below(before, S, x)
    BY DEF Below, IsOrder
  <2>2. /\ IsFiniteSet(Below(before, S, x)) /\ Cardinality(Below(before, S, x)) <= n
        /\ n = Cardinality(Below(before, S, x)) => S = Below(before, S, x)
    BY <2>1, FS_Subset
  <2>3. Cardinality(Below(before, S, x)) \in Nat
    BY <2>2, FS_CardinalityType
  <2> HIDE DEF n
  <2> QED  BY <1>1, <2>1, <2>2, <2>3
<1>3. ASSUME NEW x \in S, NEW y \in S, <<x, y>> \in before
      PROVE  rank[x] < rank[y] /\ rank[x] \in Nat /\ rank[y] \in Nat
  BY <1>3, BelowGrows
<1>4. IsFiniteSet(1 .. n) /\ Cardinality(1 .. n) = n
  BY <1>1, FS_Interval
<1>5. rank \in Injection(S, 1 .. n)
  <2>1. \A x, y \in S : rank[x] = rank[y] => x = y
    <3> SUFFICES ASSUME NEW x \in S, NEW y \in S, rank[x] = rank[y], x # y PROVE FALSE
      OBVIOUS
    <3>1. <<x, y>> \in before \/ <<y, x>> \in before
      BY DEF IsTotal
    <3>2. rank[x] < rank[y] \/ rank[y] < rank[x]
      BY <3>1, <1>3
    <3>3. rank[x] \in Nat /\ rank[y] \in Nat
      BY <3>1, <1>3
    <3> HIDE DEF rank
    <3> QED  BY <3>2, <3>3
  <2> HIDE DEF rank
  <2> QED  BY <1>2, <2>1 DEF Injection, IsInjective
<1>6. rank \in Surjection(S, 1 .. n)
  <2> HIDE DEF rank
  <2> QED  BY <1>4, <1>5, FS_Injection
<1>7. \E s \in [1 .. n -> S] : Ascends(s, before)
  <2> DEFINE s == [k \in 1 .. n |-> CHOOSE x \in S : rank[x] = k]
  <2> HIDE DEF rank
  <2>1. \A k \in 1 .. n : \E x \in S : rank[x] = k
    BY <1>6 DEF Surjection
  <2>2. s \in [1 .. n -> S] /\ \A k \in 1 .. n : rank[s[k]] = k
    BY <2>1
  <2> HIDE DEF s
  <2>3. ASSUME NEW a \in 1 .. n, NEW b \in 1 .. n, a < b PROVE <<s[a], s[b]>> \in before
    <3>1. s[a] \in S /\ s[b] \in S /\ rank[s[a]] = a /\ rank[s[b]] = b
      BY <2>2
    <3>2. s[a] # s[b]
      BY <3>1, <2>3, <1>1
    <3>3. <<s[b], s[a]>> \notin before
      BY <3>1, <2>3, <1>3, <1>1
    <3> QED  BY <3>1, <3>2, <3>3 DEF IsTotal
  <2>4. Ascends(s, before)
    BY <2>2, <2>3 DEF Ascends
  <2> QED  BY <2>2, <2>4
<1>8. ASSUME NEW s \in [1 .. n -> S], Ascends(s, before), NEW x \in S
      PROVE  \E a \in 1 .. n : s[a] = x
  <2> HIDE DEF n
  <2>1. \A a, b \in 1 .. n : s[a] = s[b] => a = b
    <3> SUFFICES ASSUME NEW a \in 1 .. n, NEW b \in 1 .. n, s[a] = s[b], a < b PROVE FALSE
      BY <1>1
    <3>1. <<s[a], s[b]>> \in before
      BY <1>8 DEF Ascends
    <3> QED  BY <3>1 DEF IsOrder
  <2>2. s \in Injection(1 .. n, S)
    BY <2>1 DEF Injection, IsInjective
  <2>3. s \in Surjection(1 .. n, S)
    BY <2>2, <1>4, FS_Injection DEF n
  <2> QED  BY <2>3 DEF Surjection
<1> QED  BY <1>1, <1>7, <1>8

-----------------------------------------------------------------------------
(* Sequences.                                                              *)

\* What a list has, with its first element taken off.
LEMMA TailHas ==
  ASSUME NEW S, NEW s \in Seq(S), s # <<>>
  PROVE  /\ Head(s) \in S /\ Head(s) \in ToSet(s) /\ Head(s) = s[1] /\ Tail(s) \in Seq(S)
         /\ Len(Tail(s)) = Len(s) - 1 /\ Len(s) \in Nat \ {0}
         /\ \A a \in 1 .. Len(s) - 1 : Tail(s)[a] = s[a + 1]
         /\ ToSet(s) = ToSet(Tail(s)) \union {Head(s)}
<1>1. Len(s) \in Nat \ {0} /\ Head(s) = s[1] /\ Head(s) \in S
  BY EmptySeq, HeadTailProperties
<1>2. Tail(s) \in Seq(S) /\ Len(Tail(s)) = Len(s) - 1 /\ \A a \in 1 .. Len(s) - 1 : Tail(s)[a] = s[a + 1]
  BY HeadTailProperties
<1>3. ToSet(s) = {s[a] : a \in 1 .. Len(s)} /\ ToSet(Tail(s)) = {Tail(s)[a] : a \in 1 .. Len(s) - 1}
  BY <1>2, LenProperties DEF ToSet
<1>4. ASSUME NEW x \in ToSet(s), x # Head(s) PROVE x \in ToSet(Tail(s))
  <2>1. PICK a \in 1 .. Len(s) : x = s[a]
    BY <1>3
  <2>2. a - 1 \in 1 .. Len(s) - 1 /\ Tail(s)[a - 1] = x
    BY <2>1, <1>1, <1>2, <1>4
  <2> QED  BY <2>2, <1>3
<1>5. ASSUME NEW x \in ToSet(Tail(s)) PROVE x \in ToSet(s)
  <2>1. PICK a \in 1 .. Len(s) - 1 : x = Tail(s)[a]
    BY <1>3
  <2>2. a + 1 \in 1 .. Len(s) /\ s[a + 1] = x
    BY <2>1, <1>1, <1>2
  <2> QED  BY <2>2, <1>3
<1>6. Head(s) \in ToSet(s)
  BY <1>1, <1>3
<1> QED  BY <1>1, <1>2, <1>4, <1>5, <1>6

\* What a list has, with one more at its end.
LEMMA AppendHas ==
  ASSUME NEW S, NEW s \in Seq(S), NEW x \in S
  PROVE  /\ Append(s, x) \in Seq(S) /\ Len(Append(s, x)) = Len(s) + 1 /\ Len(s) \in Nat
         /\ \A a \in 1 .. Len(s) : Append(s, x)[a] = s[a]
         /\ Append(s, x)[Len(s) + 1] = x
         /\ ToSet(Append(s, x)) = ToSet(s) \union {x}
<1>1. /\ Append(s, x) \in Seq(S) /\ Len(Append(s, x)) = Len(s) + 1 /\ Len(s) \in Nat
      /\ \A a \in 1 .. Len(s) : Append(s, x)[a] = s[a]
      /\ Append(s, x)[Len(s) + 1] = x
  BY AppendProperties, LenProperties
<1>2. ToSet(s) = {s[a] : a \in 1 .. Len(s)}
      /\ ToSet(Append(s, x)) = {Append(s, x)[a] : a \in 1 .. Len(s) + 1}
  BY <1>1, LenProperties DEF ToSet
<1>3. 1 .. Len(s) + 1 = (1 .. Len(s)) \union {Len(s) + 1}
  BY <1>1
<1> QED  BY <1>1, <1>2, <1>3

LEMMA EmptyHas == ToSet(<<>>) = {}
  BY DEF ToSet
-----------------------------------------------------------------------------
(* Product searches.                                                       *)

SearchTypes ==
  /\ search \in [Searches -> Search] /\ rounds \in [Searches -> Seq(Round)]
  /\ at \in [Callers -> Caller] /\ told \in [Searches -> Nat] /\ exits \in 0 .. MaxExits

\* The idea that leads is that of the last round that had one.
Led(best, rs) ==
  \/ Topped(rs) = {} /\ best = None
  \/ \E n \in Topped(rs) : best = rs[n].top /\ \A m \in Topped(rs) : m <= n

\* What the row of a search tells of its rounds: only the last one is open, and
\* only while the search may go on.
Sums(s, row, rs) ==
  /\ row.done = Cardinality(Completed(rs)) /\ row.done <= Limits[s]
  /\ Led(row.best, rs) /\ Len(rs) <= Attempts(s)
  /\ \A n \in DOMAIN rs :
       rs[n].status = "running" =>
         n = Len(rs) /\ row.done < Limits[s] /\ row.status \notin {None, "completed", "failed"}
  /\ row.status = "failed" => LastTwoFailed(rs) \/ Len(rs) = Attempts(s)

AddedUp == \A s \in Searches : Sums(s, search[s], rounds[s])

\* A round that is being delegated belongs to one caller, has no assignment yet
\* and is open or was given up.
Delegates(c) == at[c].step \in {"delegate", "attach", "abandon"}
Called ==
  /\ \A c \in Callers : at[c].step # "idle" => at[c].s \in Searches
  /\ \A c \in Callers :
       Delegates(c) \/ at[c].step = "restart" => at[c].round \in DOMAIN rounds[at[c].s]
  /\ \A c \in Callers : Delegates(c) =>
       /\ rounds[at[c].s][at[c].round].work = NoWork
       /\ rounds[at[c].s][at[c].round].status \in {"running", "abandoned"}
  /\ \A c, d \in Callers : Delegates(c) /\ Delegates(d) /\ c # d =>
       at[c].s # at[d].s \/ at[c].round # at[d].round

Tellers(s) == {c \in Callers : at[c].step = "tell" /\ at[c].s = s}
Ends(s) == IF search[s].status \in {"completed", "failed"} THEN 1 ELSE 0
Announced == \A s \in Searches : told[s] + Cardinality(Tellers(s)) <= Ends(s)

SearchInv == SearchTypes /\ AddedUp /\ Called /\ Announced

LEMMA SearchNumbers ==
  /\ \A s \in Searches : Limits[s] \in Nat \ {0} /\ Attempts(s) \in Nat
  /\ Searches \subseteq Nat \ {0} /\ MAX_ROUND_ATTEMPTS \in Nat /\ MaxExits \in Nat
<1>1. Limits \in Seq(Nat \ {0}) /\ MAX_ROUND_ATTEMPTS \in Nat /\ MaxExits \in Nat
  BY SearchAssumption
<1>2. Limits \in [1 .. Len(Limits) -> Nat \ {0}] /\ DOMAIN Limits = 1 .. Len(Limits) /\ Len(Limits) \in Nat
  BY <1>1, LenProperties
<1>3. \A a, b \in Nat : a * b \in Nat
  OBVIOUS
<1> QED  BY <1>1, <1>2, <1>3 DEF Searches, Attempts

\* The leader of a slate is one of its ideas.
LEMMA LeaderIs ==
  ASSUME NEW r \in Reports, r.slate # <<>>
  PROVE  /\ Leader(r.slate) \in [name : Ideas, score : Nat]
         /\ Leader(r.slate).name \in Ideas /\ Leader(r.slate).score \in Nat
<1> DEFINE slate == r.slate
           S == 1 .. Len(slate)
           Scored == [name : Ideas, score : Nat]
           Better(i, j) == \/ slate[i].score > slate[j].score
                           \/ slate[i].score = slate[j].score /\ i < j
           before == {p \in S \X S : Better(p[1], p[2])}
<1>1. slate \in Seq(Scored)
  BY SearchAssumption DEF ReportType
<1>2. /\ Len(slate) \in Nat \ {0} /\ DOMAIN slate = S /\ IsFiniteSet(S) /\ S # {}
      /\ \A i \in S : slate[i] \in Scored /\ slate[i].score \in Nat /\ i \in Nat
  <2>1. Len(slate) \in Nat \ {0}
    BY <1>1, EmptySeq
  <2>2. DOMAIN slate = S /\ slate \in [S -> Scored]
    BY <1>1, LenProperties
  <2>3. IsFiniteSet(S) /\ S # {}
    <3>1. 1 \in S
      BY <2>1
    <3>2. Len(slate) \in Int /\ 1 \in Int
      BY <2>1
    <3>3. IsFiniteSet(S)
      BY <3>2, FS_Interval
    <3> QED  BY <3>1, <3>3
  <2>4. S \subseteq Nat
    BY <2>1
  <2> HIDE DEF slate, S
  <2>5. \A i \in S : slate[i] \in Scored
    BY <2>2
  <2> QED  BY <2>1, <2>2, <2>3, <2>4, <2>5
<1> HIDE DEF slate
<1>3. IsOrder(before, S)
  <2> HIDE DEF S, Better
  <2>1. ASSUME NEW i \in S, NEW j \in S PROVE <<i, j>> \in before <=> Better(i, j)
    OBVIOUS
  <2>2. ASSUME NEW i \in S, NEW j \in S, NEW k \in S
        PROVE  ~Better(i, i) /\ (Better(i, j) /\ Better(j, k) => Better(i, k))
    <3>1. /\ slate[i].score \in Nat /\ slate[j].score \in Nat /\ slate[k].score \in Nat
          /\ i \in Nat /\ j \in Nat /\ k \in Nat
      BY <1>2
    <3> QED  BY <3>1 DEF Better
  <2> HIDE DEF before
  <2> QED  BY <2>1, <2>2 DEF IsOrder
<1>4. PICK i \in S : \A j \in S : ~Better(j, i)
  <2> HIDE DEF S, Better
  <2>1. \E i \in S : \A j \in S : <<j, i>> \notin before
    <3> HIDE DEF before
    <3> QED  BY <1>2, <1>3, First
  <2> QED  BY <2>1
<1>5. Leads(slate, i)
  <2> SUFFICES ASSUME NEW j \in S
               PROVE  \/ slate[j].score < slate[i].score
                      \/ slate[j].score = slate[i].score /\ j >= i
    BY <1>2 DEF Leads
  <2>1. ~Better(j, i)
    BY <1>4
  <2>2. slate[i].score \in Nat /\ slate[j].score \in Nat /\ i \in Nat /\ j \in Nat
    BY <1>2
  <2> QED  BY <2>1, <2>2
<1>6. Leader(slate) \in Scored
  <2>1. (CHOOSE k \in DOMAIN slate : Leads(slate, k)) \in S
    BY <1>2, <1>5
  <2> QED  BY <1>2, <2>1 DEF Leader
<1> QED  BY <1>6 DEF slate

\* Nothing is open.
NoneOpen(rs) == \A n \in 1 .. Len(rs) : rs[n].status # "running"

\* What a row tells of its rounds does not depend on their assignments, nor on a
\* round that was open and is given up.
LEMMA SumsKeep ==
  ASSUME NEW s \in Searches, NEW row \in Search, NEW rs \in Seq(Round), NEW rt \in Seq(Round),
         Sums(s, row, rs), Len(rt) = Len(rs),
         \A n \in 1 .. Len(rs) : /\ rt[n].status = "completed" <=> rs[n].status = "completed"
                                 /\ rt[n].status = "running" => rs[n].status = "running"
                                 /\ rt[n].top = rs[n].top,
         row.status = "failed" => \A n \in 1 .. Len(rs) : rt[n].status = rs[n].status
  PROVE  Sums(s, row, rt)
<1>1. DOMAIN rs = 1 .. Len(rs) /\ DOMAIN rt = 1 .. Len(rs)
  BY LenProperties
<1>2. Completed(rt) = Completed(rs)
  BY <1>1 DEF Completed
<1>3. Topped(rt) = Topped(rs) /\ \A n \in Topped(rs) : rt[n].top = rs[n].top
  BY <1>1, <1>2 DEF Topped, Completed
<1>4. Led(row.best, rt)
  BY <1>3 DEF Sums, Led
<1>5. ASSUME row.status = "failed", LastTwoFailed(rs) PROVE LastTwoFailed(rt)
  <2>1. \A n \in DOMAIN rs : rt[n].status = rs[n].status
    BY <1>1, <1>5
  <2>2. Ran(rt) = Ran(rs) /\ Ran(rs) \subseteq DOMAIN rs
    BY <1>1, <2>1 DEF Ran
  <2>3. PICK last \in SUBSET Ran(rs) :
          /\ Cardinality(last) = MAX_CONSECUTIVE_FAILURES
          /\ \A n \in last : rs[n].status = "failed" /\ \A m \in Ran(rs) \ last : m < n
    BY <1>5 DEF LastTwoFailed
  <2>4. \A n \in last : rt[n].status = "failed"
    BY <2>1, <2>2, <2>3
  <2> QED  BY <2>2, <2>3, <2>4 DEF LastTwoFailed
<1>6. \A n \in DOMAIN rt :
        rt[n].status = "running" =>
          n = Len(rt) /\ row.done < Limits[s] /\ row.status \notin {None, "completed", "failed"}
  BY <1>1 DEF Sums
<1>7. row.status = "failed" => LastTwoFailed(rt) \/ Len(rt) = Attempts(s)
  BY <1>5 DEF Sums
<1> QED  BY <1>2, <1>4, <1>6, <1>7 DEF Sums

\* A round is claimed.
LEMMA SumsClaim ==
  ASSUME NEW s \in Searches, NEW row \in Search, NEW rs \in Seq(Round),
         Sums(s, row, rs), NoneOpen(rs), row.status = "running",
         row.done < Limits[s], Len(rs) < Attempts(s)
  PROVE  LET rt == Append(rs, NewRound) IN
         /\ rt \in Seq(Round) /\ Len(rt) = Len(rs) + 1 /\ rt[Len(rs) + 1] = NewRound
         /\ \A n \in 1 .. Len(rs) : rt[n] = rs[n]
         /\ Sums(s, row, rt)
<1> DEFINE rt == Append(rs, NewRound)
<1>1. NewRound \in Round /\ NewRound.status = "running" /\ NewRound.top = None
  BY DEF NewRound, Round, NoWork, Work
<1>2. /\ rt \in Seq(Round) /\ Len(rt) = Len(rs) + 1 /\ Len(rs) \in Nat
      /\ \A n \in 1 .. Len(rs) : rt[n] = rs[n]
      /\ rt[Len(rs) + 1] = NewRound
  BY <1>1, AppendHas
<1> HIDE DEF rt
<1>3. DOMAIN rs = 1 .. Len(rs) /\ DOMAIN rt = (1 .. Len(rs)) \union {Len(rs) + 1}
      /\ Len(rs) + 1 \notin 1 .. Len(rs)
  <2>1. DOMAIN rs = 1 .. Len(rs) /\ DOMAIN rt = 1 .. Len(rs) + 1
    BY <1>2, LenProperties
  <2> QED  BY <1>2, <2>1
<1>4. Completed(rt) = Completed(rs) /\ Completed(rs) \subseteq 1 .. Len(rs)
  BY <1>1, <1>2, <1>3 DEF Completed
<1>5. Topped(rt) = Topped(rs) /\ Topped(rs) \subseteq 1 .. Len(rs)
  BY <1>2, <1>4 DEF Topped
<1>6. Led(row.best, rt)
  BY <1>2, <1>5 DEF Sums, Led
<1>7. Len(rt) <= Attempts(s)
  BY <1>2, SearchNumbers
<1>8. \A n \in DOMAIN rt :
        rt[n].status = "running" =>
          n = Len(rt) /\ row.done < Limits[s] /\ row.status \notin {None, "completed", "failed"}
  BY <1>2, <1>3 DEF NoneOpen, None
<1> QED  BY <1>2, <1>4, <1>6, <1>7, <1>8 DEF Sums, rt

\* A search ends as its rounds stand.
LEMMA SumsEnd ==
  ASSUME NEW s \in Searches, NEW row \in Search, NEW end \in Search, NEW rs \in Seq(Round),
         Sums(s, row, rs), NoneOpen(rs), end.done = row.done, end.best = row.best,
         end.status = "failed" => LastTwoFailed(rs) \/ Len(rs) = Attempts(s)
  PROVE  Sums(s, end, rs)
<1>1. DOMAIN rs = 1 .. Len(rs)
  BY LenProperties
<1> QED  BY <1>1 DEF Sums, NoneOpen

\* The open round is taken in.
LEMMA SumsTakeIn ==
  ASSUME NEW s \in Searches, NEW row \in Search, NEW next \in Search,
         NEW rs \in Seq(Round), NEW rt \in Seq(Round), NEW n \in 1 .. Len(rs),
         Sums(s, row, rs), rs[n].status = "running", Len(rt) = Len(rs),
         rt[n].status = "completed", \A m \in 1 .. Len(rs) : m # n => rt[m] = rs[m],
         next.done = row.done + 1, next.status \in {"running", "completed"},
         next.best = IF rt[n].top = None THEN row.best ELSE rt[n].top
  PROVE  Sums(s, next, rt) /\ NoneOpen(rt)
<1>1. DOMAIN rs = 1 .. Len(rs) /\ DOMAIN rt = 1 .. Len(rs) /\ Len(rs) \in Nat
  BY LenProperties
<1>2. n = Len(rs) /\ row.done < Limits[s]
  BY <1>1 DEF Sums
<1>3. \A m \in 1 .. Len(rs) : m <= n
  <2> SUFFICES ASSUME NEW m \in 1 .. Len(rs) PROVE m <= n
    OBVIOUS
  <2>1. m <= Len(rs)
    BY <1>1
  <2> QED  BY <2>1, <1>2
<1>4. Completed(rt) = Completed(rs) \union {n} /\ n \notin Completed(rs) /\ Completed(rs) \subseteq 1 .. Len(rs)
  BY <1>1 DEF Completed
<1>5. next.done = Cardinality(Completed(rt)) /\ next.done <= Limits[s]
  <2>1. IsFiniteSet(1 .. Len(rs))
    BY <1>1, FS_Interval
  <2>2. IsFiniteSet(Completed(rs))
    BY <2>1, <1>4, FS_Subset
  <2>3. Cardinality(Completed(rt)) = Cardinality(Completed(rs)) + 1
    BY <2>2, <1>4, FS_AddElement
  <2>4. row.done \in Nat /\ Limits[s] \in Nat
    BY SearchNumbers DEF Search
  <2> QED  BY <1>2, <2>3, <2>4 DEF Sums
<1>6. Led(next.best, rt)
  <2>1. CASE rt[n].top = None
    <3>1. Topped(rt) = Topped(rs) /\ \A m \in Topped(rs) : rt[m] = rs[m]
      BY <1>4, <2>1 DEF Topped
    <3> QED  BY <2>1, <3>1 DEF Sums, Led
  <2>2. CASE rt[n].top # None
    <3>1. n \in Topped(rt) /\ Topped(rt) \subseteq 1 .. Len(rs)
      BY <1>4, <2>2 DEF Topped
    <3> QED  BY <1>3, <2>2, <3>1 DEF Led
  <2> QED  BY <2>1, <2>2
<1>7. NoneOpen(rt)
  <2>1. ASSUME NEW m \in 1 .. Len(rs), m # n PROVE rt[m].status # "running"
    BY <2>1, <1>1, <1>2 DEF Sums
  <2>2. rt[n].status # "running"
    OBVIOUS
  <2> QED  BY <2>1, <2>2 DEF NoneOpen
<1> QED  BY <1>1, <1>5, <1>6, <1>7 DEF Sums, NoneOpen

\* The open round failed.
LEMMA SumsFail ==
  ASSUME NEW s \in Searches, NEW row \in Search, NEW next \in Search,
         NEW rs \in Seq(Round), NEW rt \in Seq(Round), NEW n \in 1 .. Len(rs),
         Sums(s, row, rs), rs[n].status = "running", Len(rt) = Len(rs), rt[n].status = "failed",
         \A m \in 1 .. Len(rs) : m # n => rt[m] = rs[m],
         next.done = row.done, next.best = row.best, next.status \in {"running", "failed"},
         next.status = "failed" => LastTwoFailed(rt)
  PROVE  Sums(s, next, rt) /\ NoneOpen(rt)
<1>1. DOMAIN rs = 1 .. Len(rs) /\ DOMAIN rt = 1 .. Len(rs) /\ Len(rs) \in Nat
  BY LenProperties
<1>2. n = Len(rs)
  BY <1>1 DEF Sums
<1>3. Completed(rt) = Completed(rs) /\ n \notin Completed(rs) /\ Completed(rs) \subseteq 1 .. Len(rs)
  BY <1>1 DEF Completed
<1>4. Topped(rt) = Topped(rs) /\ \A m \in Topped(rs) : rt[m] = rs[m]
  BY <1>3 DEF Topped
<1>5. Led(next.best, rt)
  BY <1>4 DEF Sums, Led
<1>6. NoneOpen(rt)
  BY <1>1, <1>2 DEF Sums, NoneOpen
<1> QED  BY <1>1, <1>3, <1>5, <1>6 DEF Sums, NoneOpen

-----------------------------------------------------------------------------
(* The callers.                                                            *)

\* One caller goes on from where it stands to x.
Goes(c, x) ==
  /\ at' \in [Callers -> Caller] /\ at'[c] = x
  /\ \A d \in Callers : d # c => at'[d] = at[d]

LEMMA CallerGoes ==
  ASSUME SearchTypes, NEW c \in Callers, NEW x \in Caller, at' = [at EXCEPT ![c] = x]
  PROVE  Goes(c, x)
BY DEF SearchTypes, Goes

LEMMA IdleIs == Idle \in Caller /\ Idle.step = "idle"
  BY DEF Idle, Caller

\* What is told of an end is told once.
LEMMA TellingStep ==
  ASSUME SearchTypes, Announced, NEW c \in Callers, NEW x \in Caller, Goes(c, x),
         at[c].step # "tell", told' = told, \A s \in Searches : Ends(s)' >= Ends(s),
         x.step = "tell" => x.s \in Searches /\ Ends(x.s) = 0 /\ Ends(x.s)' = 1
  PROVE  Announced'
<1> SUFFICES ASSUME NEW s \in Searches
             PROVE  told[s] + Cardinality(Tellers(s)') <= Ends(s)'
  BY DEF Announced
<1>1. IsFiniteSet(Tellers(s)) /\ Cardinality(Tellers(s)) \in Nat
  <2>1. IsFiniteSet(Callers) /\ Tellers(s) \in SUBSET Callers
    BY SearchAssumption DEF Tellers
  <2> QED  BY <2>1, FS_Subset, FS_CardinalityType
<1>2. told[s] \in Nat /\ Ends(s) \in Nat /\ Ends(s)' \in Nat
  BY DEF SearchTypes, Ends
<1>3. told[s] + Cardinality(Tellers(s)) <= Ends(s) /\ Ends(s)' >= Ends(s)
  BY DEF Announced
<1>4. c \notin Tellers(s) /\ \A d \in Callers : d # c => (d \in Tellers(s)' <=> d \in Tellers(s))
  BY DEF Tellers, Goes
<1>5. c \in Tellers(s)' <=> x.step = "tell" /\ x.s = s
  BY DEF Tellers, Goes
<1>6. Tellers(s) \subseteq Callers /\ Tellers(s)' \subseteq Callers
  BY DEF Tellers
<1>7. CASE x.step = "tell" /\ x.s = s
  <2>1. Tellers(s)' = Tellers(s) \union {c}
    BY <1>4, <1>5, <1>6, <1>7
  <2>2. Cardinality(Tellers(s)') = Cardinality(Tellers(s)) + 1
    <3>1. Cardinality(Tellers(s) \union {c}) = Cardinality(Tellers(s)) + 1
      BY <1>1, <1>4, FS_AddElement
    <3> QED  BY <2>1, <3>1
  <2>3. Ends(s) = 0 /\ Ends(s)' = 1
    BY <1>7
  <2> QED  BY <1>1, <1>2, <1>3, <2>2, <2>3
<1>8. CASE ~ (x.step = "tell" /\ x.s = s)
  <2>1. Tellers(s)' = Tellers(s)
    BY <1>4, <1>5, <1>6, <1>8
  <2> QED  BY <1>1, <1>2, <1>3, <2>1
<1> QED  BY <1>7, <1>8

\* A caller goes on without a change of rows.
LEMMA QuietStep ==
  ASSUME SearchInv, NEW c \in Callers, NEW x \in Caller, at' = [at EXCEPT ![c] = x],
         UNCHANGED <<search, rounds, told, exits>>,
         at[c].step # "tell", x.step \notin {"tell", "delegate"},
         x.step # "idle" => x.s \in Searches,
         x.step = "restart" => x.round \in DOMAIN rounds[x.s],
         x.step \in {"attach", "abandon"} =>
           at[c].step = "delegate" /\ x.s = at[c].s /\ x.round = at[c].round
  PROVE  SearchInv'
<1> USE DEF SearchInv
<1>1. Goes(c, x)
  BY CallerGoes
<1>2. SearchTypes' /\ AddedUp'
  BY <1>1 DEF SearchTypes, AddedUp, Goes
<1>3. Called'
  <2>1. \A d \in Callers : at'[d].step # "idle" => at'[d].s \in Searches
    BY <1>1 DEF Called, Goes
  <2>2. \A d \in Callers :
          Delegates(d)' => Delegates(d) /\ at'[d].s = at[d].s /\ at'[d].round = at[d].round
    BY <1>1 DEF Goes, Delegates
  <2>3. \A d \in Callers :
          Delegates(d)' \/ at'[d].step = "restart" => at'[d].round \in DOMAIN rounds[at'[d].s]
    BY <1>1, <2>2 DEF Called, Goes
  <2>4. \A d \in Callers : Delegates(d)' =>
          /\ rounds[at'[d].s][at'[d].round].work = NoWork
          /\ rounds[at'[d].s][at'[d].round].status \in {"running", "abandoned"}
    BY <2>2 DEF Called
  <2>5. \A d, e \in Callers : Delegates(d)' /\ Delegates(e)' /\ d # e =>
          at'[d].s # at'[e].s \/ at'[d].round # at'[e].round
    <3>1. \A d, e \in Callers : Delegates(d) /\ Delegates(e) /\ d # e =>
            at[d].s # at[e].s \/ at[d].round # at[e].round
      BY DEF Called
    <3> QED  BY <2>2, <3>1
  <2> QED  BY <2>1, <2>3, <2>4, <2>5 DEF Called
<1>4. \A s \in Searches : Ends(s)' >= Ends(s)
  BY DEF Ends
<1>5. Announced'
  BY <1>1, <1>4, TellingStep
<1> QED  BY <1>2, <1>3, <1>5

\* A transaction of a caller leaves a search w with the rounds ss: the search as
\* it was claimed goes on, its end is told by this caller, or nobody goes on.
LEMMA SettleStep ==
  ASSUME SearchInv, NEW c \in Callers, NEW s \in Searches, NEW w \in Search,
         NEW ss \in Seq(Round), NEW x \in Caller,
         search' = [search EXCEPT ![s] = w], rounds' = [rounds EXCEPT ![s] = ss],
         at' = [at EXCEPT ![c] = x], UNCHANGED <<told, exits>>,
         at[c].step = "step", Running(s), Sums(s, w, ss), Len(rounds[s]) <= Len(ss),
         \A n \in 1 .. Len(rounds[s]) : rounds[s][n].work = NoWork => ss[n] = rounds[s][n],
         \/ x.step = "idle" /\ w.status = "running"
         \/ x.step = "tell" /\ x.s = s /\ w.status \in {"completed", "failed"}
         \/ /\ x.step = "delegate" /\ x.s = s /\ w.status = "running"
            /\ x.round = Len(rounds[s]) + 1 /\ x.round \in 1 .. Len(ss) /\ ss[x.round] = NewRound
  PROVE  SearchInv'
<1> USE DEF SearchInv
<1>1. Goes(c, x)
  BY CallerGoes
<1>2. /\ search' \in [Searches -> Search] /\ search'[s] = w
      /\ \A t \in Searches : t # s => search'[t] = search[t]
  BY DEF SearchTypes
<1>3. /\ rounds' \in [Searches -> Seq(Round)] /\ rounds'[s] = ss
      /\ \A t \in Searches : t # s => rounds'[t] = rounds[t]
  BY DEF SearchTypes
<1>4. SearchTypes'
  BY <1>1, <1>2, <1>3 DEF SearchTypes, Goes
<1>5. AddedUp'
  BY <1>2, <1>3 DEF AddedUp
<1>6. rounds[s] \in Seq(Round) /\ DOMAIN rounds[s] = 1 .. Len(rounds[s]) /\ Len(rounds[s]) \in Nat
      /\ DOMAIN ss = 1 .. Len(ss) /\ Len(ss) \in Nat
  <2>1. rounds[s] \in Seq(Round)
    BY DEF SearchTypes
  <2> QED  BY <2>1, LenProperties
<1>7. \A n \in DOMAIN rounds[s] : n \in DOMAIN ss
  BY <1>6
<1>8. \A d \in Callers : d # c /\ (Delegates(d) \/ at[d].step = "restart") =>
        at[d].s \in Searches /\ at[d].round \in DOMAIN rounds[at[d].s]
        /\ at[d].round \in DOMAIN rounds'[at[d].s]
  BY <1>3, <1>7 DEF Called, Delegates
<1>9. \A d \in Callers : d # c /\ Delegates(d) =>
        rounds'[at[d].s][at[d].round] = rounds[at[d].s][at[d].round]
  BY <1>3, <1>6, <1>8 DEF Called
<1>10. NewRound.work = NoWork /\ NewRound.status = "running"
  BY DEF NewRound
<1>11. Called'
  <2>1. \A d \in Callers : at'[d].step # "idle" => at'[d].s \in Searches
    BY <1>1 DEF Called, Goes
  <2>2. \A d \in Callers : d # c => (Delegates(d)' <=> Delegates(d)) /\ at'[d] = at[d]
    BY <1>1 DEF Goes, Delegates
  <2>3. Delegates(c)' => x.step = "delegate"
    BY <1>1 DEF Goes, Delegates
  <2>4. at'[c] = x /\ at'[c].step # "restart"
    BY <1>1 DEF Goes
  <2>5. \A d \in Callers :
          Delegates(d)' \/ at'[d].step = "restart" => at'[d].round \in DOMAIN rounds'[at'[d].s]
    <3> SUFFICES ASSUME NEW d \in Callers, Delegates(d)' \/ at'[d].step = "restart"
                 PROVE  at'[d].round \in DOMAIN rounds'[at'[d].s]
      OBVIOUS
    <3>1. CASE d = c
      BY <1>3, <1>6, <2>3, <2>4, <3>1
    <3>2. CASE d # c
      BY <1>8, <2>2, <3>2
    <3> QED  BY <3>1, <3>2
  <2>6. \A d \in Callers : Delegates(d)' =>
          /\ rounds'[at'[d].s][at'[d].round].work = NoWork
          /\ rounds'[at'[d].s][at'[d].round].status \in {"running", "abandoned"}
    <3> SUFFICES ASSUME NEW d \in Callers, Delegates(d)'
                 PROVE  /\ rounds'[at'[d].s][at'[d].round].work = NoWork
                        /\ rounds'[at'[d].s][at'[d].round].status \in {"running", "abandoned"}
      OBVIOUS
    <3>1. CASE d = c
      BY <1>3, <1>10, <2>3, <2>4, <3>1
    <3>2. CASE d # c
      <4>1. Delegates(d) /\ at'[d] = at[d]
        BY <2>2, <3>2
      <4>2. rounds'[at[d].s][at[d].round] = rounds[at[d].s][at[d].round]
        BY <1>9, <3>2, <4>1
      <4> QED  BY <4>1, <4>2 DEF Called
    <3> QED  BY <3>1, <3>2
  <2>7. \A d, e \in Callers : Delegates(d)' /\ Delegates(e)' /\ d # e =>
          at'[d].s # at'[e].s \/ at'[d].round # at'[e].round
    <3>1. ASSUME NEW d \in Callers, d # c, Delegates(d), Delegates(c)', at[d].s = x.s, at[d].round = x.round
          PROVE  FALSE
      <4>1. x.s = s /\ x.round = Len(rounds[s]) + 1
        BY <2>3, <3>1
      <4>2. at[d].round \in 1 .. Len(rounds[s])
        BY <1>6, <1>8, <3>1, <4>1
      <4> QED  BY <1>6, <3>1, <4>1, <4>2
    <3>2. \A d, e \in Callers : Delegates(d) /\ Delegates(e) /\ d # e =>
            at[d].s # at[e].s \/ at[d].round # at[e].round
      BY DEF Called
    <3> QED  BY <2>2, <2>4, <3>1, <3>2
  <2> QED  BY <2>1, <2>5, <2>6, <2>7 DEF Called
<1>12. /\ \A t \in Searches : Ends(t)' >= Ends(t)
       /\ x.step = "tell" => x.s \in Searches /\ Ends(x.s) = 0 /\ Ends(x.s)' = 1
  <2>1. Ends(s) = 0 /\ Ends(s)' \in {0, 1}
    BY DEF Ends, Running
  <2>2. \A t \in Searches : t # s => Ends(t)' = Ends(t)
    BY <1>2 DEF Ends
  <2>3. \A t \in Searches : Ends(t) \in {0, 1}
    BY DEF Ends
  <2>4. x.step = "tell" => x.s = s /\ Ends(s)' = 1
    BY <1>2 DEF Ends
  <2> QED  BY <2>1, <2>2, <2>3, <2>4
<1>13. Announced'
  BY <1>1, <1>12, TellingStep
<1> QED  BY <1>4, <1>5, <1>11, <1>13

-----------------------------------------------------------------------------
(* The steps.                                                              *)

\* A caller has no more to do; one delegates the round n; a round goes on.
Rests == \E c \in Callers : at[c].step # "tell" /\ at' = [at EXCEPT ![c] = Idle]
Holds(c, s, n) == Delegates(c) /\ at[c].s = s /\ at[c].round = n
Follows(old, r) ==
  /\ r.top = old.top
  /\ r.status # old.status => r.status = "abandoned" /\ old.status \in {"running", "abandoned"}

LEMMA WorkGoes ==
  ASSUME NEW old \in Round, NEW work \in Work
  PROVE  LET r == [old EXCEPT !.work = work] IN r \in Round /\ Follows(old, r) /\ r.work = work
<1> DEFINE r == [old EXCEPT !.work = work]
<1>1. r \in Round /\ r.work = work
  BY DEF Round
<1>2. r.top = old.top /\ r.status = old.status
  BY DEF Round
<1> HIDE DEF r
<1>3. Follows(old, r)
  BY <1>2 DEF Follows
<1> QED  BY <1>1, <1>3 DEF r

\* One open or unread round changes: its assignment goes on, or it is given up.
LEMMA RoundStep ==
  ASSUME SearchInv, NEW s \in Searches, NEW n \in 1 .. Len(rounds[s]), NEW r \in Round,
         rounds' = [rounds EXCEPT ![s] = [rounds[s] EXCEPT ![n] = r]],
         UNCHANGED <<search, told, exits>>,
         at' = at \/ Rests, Follows(rounds[s][n], r),
         r.work = NoWork \/ \A d \in Callers : at'[d] = at[d] => ~Holds(d, s, n)
  PROVE  SearchInv'
<1> USE DEF SearchInv
<1> DEFINE rs == rounds[s]
           rt == [rounds[s] EXCEPT ![n] = r]
<1>1. rs \in Seq(Round) /\ Len(rs) \in Nat /\ DOMAIN rs = 1 .. Len(rs)
  <2>1. rs \in Seq(Round)
    BY DEF SearchTypes
  <2> QED  BY <2>1, LenProperties
<1>2. /\ rt \in Seq(Round) /\ Len(rt) = Len(rs) /\ DOMAIN rt = 1 .. Len(rs)
      /\ rt[n] = r /\ \A m \in 1 .. Len(rs) : m # n => rt[m] = rs[m]
  <2>1. /\ rt \in Seq(Round) /\ Len(rt) = Len(rs)
        /\ \A m \in 1 .. Len(rs) : rt[m] = IF m = n THEN r ELSE rs[m]
    BY <1>1, ExceptSeq
  <2> HIDE DEF rt
  <2> QED  BY <2>1, LenProperties
<1>3. /\ rounds' \in [Searches -> Seq(Round)] /\ rounds'[s] = rt
      /\ \A t \in Searches : t # s => rounds'[t] = rounds[t]
  <2>1. rounds \in [Searches -> Seq(Round)] /\ rounds' = [rounds EXCEPT ![s] = rt]
    BY DEF SearchTypes
  <2> HIDE DEF rt
  <2> QED  BY <1>2, <2>1
<1> HIDE DEF rt, rs
<1>4. /\ at' \in [Callers -> Caller]
      /\ \A d \in Callers : at'[d] = at[d] \/ (at'[d] = Idle /\ at[d].step # "tell")
  BY IdleIs DEF SearchTypes, Rests
<1>5. SearchTypes'
  BY <1>3, <1>4 DEF SearchTypes
<1>6. rs[n].status # r.status => search[s].status # "failed"
  BY <1>1 DEF AddedUp, Sums, rs, Follows
<1>7. Sums(s, search[s], rt)
  <2>1. Sums(s, search[s], rs) /\ search[s] \in Search
    BY DEF AddedUp, rs, SearchTypes
  <2>2. \A m \in 1 .. Len(rs) : /\ rt[m].status = "completed" <=> rs[m].status = "completed"
                                /\ rt[m].status = "running" => rs[m].status = "running"
                                /\ rt[m].top = rs[m].top
    BY <1>2 DEF rs, Follows
  <2>3. search[s].status = "failed" => \A m \in 1 .. Len(rs) : rt[m].status = rs[m].status
    BY <1>2, <1>6 DEF rs
  <2> QED  BY <1>1, <1>2, <2>1, <2>2, <2>3, SumsKeep
<1>8. AddedUp'
  BY <1>3, <1>7 DEF AddedUp
<1>9. Called'
  <2>1. \A d \in Callers : at'[d].step # "idle" => at'[d] = at[d]
    BY <1>4, IdleIs
  <2>2. \A d \in Callers : Delegates(d)' => Delegates(d) /\ at'[d] = at[d]
    BY <2>1 DEF Delegates
  <2>3. \A t \in Searches : DOMAIN rounds'[t] = DOMAIN rounds[t]
    BY <1>1, <1>2, <1>3 DEF rs
  <2>4. \A d \in Callers : at'[d].step # "idle" => at'[d].s \in Searches
    BY <2>1 DEF Called
  <2>5. \A d \in Callers :
          Delegates(d)' \/ at'[d].step = "restart" => at'[d].round \in DOMAIN rounds'[at'[d].s]
    <3> SUFFICES ASSUME NEW d \in Callers, Delegates(d)' \/ at'[d].step = "restart"
                 PROVE  at'[d].round \in DOMAIN rounds'[at'[d].s]
      OBVIOUS
    <3>1. at'[d] = at[d] /\ (Delegates(d) \/ at[d].step = "restart") /\ at[d].step # "idle"
      BY <2>1, <2>2 DEF Delegates
    <3>2. at[d].s \in Searches /\ at[d].round \in DOMAIN rounds[at[d].s]
      BY <3>1 DEF Called
    <3> QED  BY <2>3, <3>1, <3>2
  <2>6. ASSUME NEW d \in Callers, Delegates(d)'
        PROVE  /\ rounds'[at'[d].s][at'[d].round].work = NoWork
               /\ rounds'[at'[d].s][at'[d].round].status \in {"running", "abandoned"}
    <3>1. Delegates(d) /\ at'[d] = at[d] /\ at[d].s \in Searches /\ at[d].step # "idle"
      BY <2>2, <2>6 DEF Called, Delegates
    <3>2. /\ rounds[at[d].s][at[d].round].work = NoWork
          /\ rounds[at[d].s][at[d].round].status \in {"running", "abandoned"}
          /\ at[d].round \in DOMAIN rounds[at[d].s]
      BY <3>1 DEF Called
    <3>3. CASE at[d].s = s /\ at[d].round = n
      <4>1. r.work = NoWork /\ r.status \in {"running", "abandoned"}
        BY <3>1, <3>2, <3>3 DEF Holds, Follows
      <4> QED  BY <1>2, <1>3, <3>1, <3>3, <4>1
    <3>4. CASE ~ (at[d].s = s /\ at[d].round = n)
      <4>1. rounds'[at[d].s][at[d].round] = rounds[at[d].s][at[d].round]
        BY <1>1, <1>2, <1>3, <3>1, <3>2, <3>4 DEF rs
      <4> QED  BY <3>1, <3>2, <4>1
    <3> QED  BY <3>3, <3>4
  <2>7. \A d, e \in Callers : Delegates(d)' /\ Delegates(e)' /\ d # e =>
          at'[d].s # at'[e].s \/ at'[d].round # at'[e].round
    <3>1. \A d, e \in Callers : Delegates(d) /\ Delegates(e) /\ d # e =>
            at[d].s # at[e].s \/ at[d].round # at[e].round
      BY DEF Called
    <3> QED  BY <2>2, <3>1
  <2> QED  BY <2>4, <2>5, <2>6, <2>7 DEF Called
<1>10. Announced'
  <2>1. \A t \in Searches : Tellers(t)' = Tellers(t) /\ Ends(t)' = Ends(t)
    <3>1. \A d \in Callers : at'[d].step = "tell" \/ at[d].step = "tell" => at'[d] = at[d]
      BY <1>4, IdleIs
    <3> QED  BY <3>1 DEF Tellers, Ends
  <2> QED  BY <2>1 DEF Announced
<1> QED  BY <1>5, <1>8, <1>9, <1>10

\* What _step goes on with.
LEMMA OutcomeStep ==
  ASSUME SearchInv, NEW c \in Callers, NEW s \in Searches, NEW row \in Search, NEW rs \in Seq(Round),
         at[c].step = "step", Running(s), row.status \in {"running", "completed", "failed"},
         Sums(s, row, rs), NoneOpen(rs), Len(rs) = Len(rounds[s]),
         \A n \in 1 .. Len(rounds[s]) : rounds[s][n].work = NoWork => rs[n] = rounds[s][n],
         Outcome(c, s, row, rs), UNCHANGED <<told, exits>>
  PROVE  SearchInv'
<1> DEFINE tell == [Idle EXCEPT !.step = "tell", !.s = s]
           delegate == [Idle EXCEPT !.step = "delegate", !.s = s, !.round = Len(rs) + 1]
           Ending(status) == /\ search' = [search EXCEPT ![s] = [row EXCEPT !.status = status]]
                             /\ rounds' = [rounds EXCEPT ![s] = rs]
                             /\ at' = [at EXCEPT ![c] = tell]
<1>1. Len(rs) \in Nat
  BY LenProperties
<1>2. /\ tell \in Caller /\ tell.step = "tell" /\ tell.s = s
      /\ delegate \in Caller /\ delegate.step = "delegate" /\ delegate.s = s /\ delegate.round = Len(rs) + 1
  <2> DEFINE asked(step) == [Idle EXCEPT !.step = step]
             named(step) == [asked(step) EXCEPT !.s = s]
  <2>1. ASSUME NEW step \in {"tell", "delegate"}
        PROVE  named(step) \in Caller /\ named(step).step = step /\ named(step).s = s
    <3>1. asked(step) \in Caller /\ asked(step).step = step
      BY IdleIs DEF Caller
    <3> HIDE DEF asked
    <3> QED  BY <3>1 DEF Caller
  <2>2. tell = named("tell") /\ delegate = [named("delegate") EXCEPT !.round = Len(rs) + 1]
    OBVIOUS
  <2> HIDE DEF tell, delegate, named
  <2>3. delegate \in Caller /\ delegate.step = "delegate" /\ delegate.s = s /\ delegate.round = Len(rs) + 1
    BY <1>1, <2>1, <2>2 DEF Caller
  <2> QED  BY <2>1, <2>2, <2>3
<1> HIDE DEF tell, delegate
<1>3. ASSUME NEW status \in {"completed", "failed"}, Ending(status),
             status = "failed" => LastTwoFailed(rs) \/ Len(rs) = Attempts(s)
      PROVE  SearchInv'
  <2> DEFINE w == [row EXCEPT !.status = status]
  <2>1. w \in Search /\ w.done = row.done /\ w.best = row.best /\ w.status = status
    BY DEF Search
  <2>2. search' = [search EXCEPT ![s] = w]
    BY <1>3
  <2> HIDE DEF w
  <2>3. Sums(s, w, rs)
    BY <1>3, <2>1, SumsEnd
  <2>4. Len(rounds[s]) <= Len(rs)
    BY <1>1
  <2> QED  BY <1>2, <1>3, <2>1, <2>2, <2>3, <2>4, SettleStep
<1>4. CASE row.status # "running"
  <2>1. Ending(row.status)
    BY <1>4 DEF Outcome, tell
  <2> QED  BY <1>3, <1>4, <2>1 DEF Sums
<1>5. CASE row.status = "running" /\ at[c].may # "claim"
  <2>1. /\ search' = [search EXCEPT ![s] = row] /\ rounds' = [rounds EXCEPT ![s] = rs]
        /\ at' = [at EXCEPT ![c] = Idle]
    BY <1>5 DEF Outcome
  <2>2. Len(rounds[s]) <= Len(rs)
    BY <1>1
  <2> QED  BY <1>5, <2>1, <2>2, IdleIs, SettleStep
<1>6. CASE row.status = "running" /\ at[c].may = "claim" /\ row.done >= Limits[s]
  <2>1. Ending("completed")
    BY <1>6 DEF Outcome, tell
  <2> QED  BY <1>3, <2>1
<1>7. CASE row.status = "running" /\ at[c].may = "claim" /\ ~ (row.done >= Limits[s]) /\ Len(rs) >= Attempts(s)
  <2>1. Ending("failed")
    BY <1>7 DEF Outcome, tell
  <2>2. Len(rs) = Attempts(s)
    BY <1>1, <1>7, SearchNumbers DEF Sums
  <2> QED  BY <1>3, <2>1, <2>2
<1>8. CASE row.status = "running" /\ at[c].may = "claim" /\ ~ (row.done >= Limits[s]) /\ ~ (Len(rs) >= Attempts(s))
  <2> DEFINE ss == Append(rs, NewRound)
  <2>1. /\ search' = [search EXCEPT ![s] = row] /\ rounds' = [rounds EXCEPT ![s] = ss]
        /\ at' = [at EXCEPT ![c] = delegate]
    BY <1>8 DEF Outcome, delegate
  <2>2. row.done < Limits[s] /\ Len(rs) < Attempts(s)
    <3>1. row.done \in Nat /\ Limits[s] \in Nat /\ Attempts(s) \in Nat
      BY SearchNumbers DEF Search
    <3> QED  BY <1>1, <1>8, <3>1
  <2>3. /\ ss \in Seq(Round) /\ Len(ss) = Len(rs) + 1 /\ ss[Len(rs) + 1] = NewRound
        /\ \A n \in 1 .. Len(rs) : ss[n] = rs[n]
        /\ Sums(s, row, ss)
    BY <1>8, <2>2, SumsClaim
  <2> HIDE DEF ss
  <2>4. Len(rounds[s]) <= Len(ss) /\ delegate.round = Len(rounds[s]) + 1 /\ delegate.round \in 1 .. Len(ss)
        /\ ss[delegate.round] = NewRound
    BY <1>1, <1>2, <2>3
  <2>5. \A n \in 1 .. Len(rounds[s]) : rounds[s][n].work = NoWork => ss[n] = rounds[s][n]
    BY <2>3
  <2> QED  BY <1>2, <1>8, <2>1, <2>3, <2>4, <2>5, SettleStep
<1> QED  BY <1>4, <1>5, <1>6, <1>7, <1>8

\* Where a search has an open round, that is the one a step finds, and the last.
LEMMA OpenRoundIs ==
  ASSUME SearchInv, NEW s \in Searches
  PROVE  /\ rounds[s] \in Seq(Round) /\ DOMAIN rounds[s] = 1 .. Len(rounds[s]) /\ Len(rounds[s]) \in Nat
         /\ OpenRounds(s) # {} => /\ OpenRound(s) \in 1 .. Len(rounds[s])
                                  /\ rounds[s][OpenRound(s)].status = "running"
         /\ OpenRounds(s) = {} => NoneOpen(rounds[s])
<1>1. rounds[s] \in Seq(Round)
  BY DEF SearchInv, SearchTypes
<1>2. DOMAIN rounds[s] = 1 .. Len(rounds[s]) /\ Len(rounds[s]) \in Nat
  BY <1>1, LenProperties
<1>3. ASSUME OpenRounds(s) # {} PROVE OpenRound(s) \in OpenRounds(s)
  <2>1. \A n \in OpenRounds(s) : n = Len(rounds[s])
    BY DEF SearchInv, AddedUp, Sums, OpenRounds
  <2>2. \E n \in OpenRounds(s) : \A m \in OpenRounds(s) : m <= n
    BY <1>2, <1>3, <2>1
  <2> QED  BY <2>2 DEF OpenRound
<1> QED  BY <1>1, <1>2, <1>3 DEF OpenRounds, NoneOpen

\* A round that was carried out is taken in.
LEMMA TakeInStep ==
  ASSUME SearchInv, NEW c \in Callers, NEW s \in Searches, NEW n \in 1 .. Len(rounds[s]),
         NEW r \in Reports, at[c].step = "step", Running(s),
         rounds[s][n].status = "running", rounds[s][n].work # NoWork,
         TakeIn(c, s, n, r), UNCHANGED <<told, exits>>
  PROVE  SearchInv'
<1> DEFINE leader == Leader(r.slate)
           top == IF r.slate = <<>> THEN None ELSE leader.name
           counted == [search[s] EXCEPT !.done = @ + 1]
           row == [counted EXCEPT
                     !.best = IF top = None THEN @ ELSE top,
                     !.score = IF top = None THEN @ ELSE leader.score,
                     !.status = IF Decide(counted, Limits[s], r) THEN "completed" ELSE @]
           rs == [rounds[s] EXCEPT ![n].status = "completed", ![n].top = top]
<1>1. Outcome(c, s, row, rs)
  BY DEF TakeIn
<1>2. top \in Ideas \union {None} /\ (top # None => leader.name = top /\ leader.score \in Nat)
  BY LeaderIs
<1>3. search[s] \in Search /\ search[s].status = "running" /\ Sums(s, search[s], rounds[s])
  BY DEF SearchInv, SearchTypes, Running, AddedUp
<1>4. /\ row \in Search /\ row.done = search[s].done + 1 /\ row.status \in {"running", "completed"}
      /\ row.best = IF top = None THEN search[s].best ELSE top
  <2> HIDE DEF top, leader
  <2>1. counted \in Search /\ counted.done = search[s].done + 1 /\ counted.status = "running"
        /\ counted.best = search[s].best
    BY <1>3 DEF Search
  <2> HIDE DEF counted
  <2> DEFINE led == [counted EXCEPT !.best = IF top = None THEN @ ELSE top]
             scored == [led EXCEPT !.score = IF top = None THEN @ ELSE leader.score]
  <2>2. /\ led \in Search /\ led.done = counted.done /\ led.status = "running"
        /\ led.best = IF top = None THEN search[s].best ELSE top
    BY <1>2, <2>1 DEF Search
  <2>3. row = [scored EXCEPT !.status = IF Decide(counted, Limits[s], r) THEN "completed" ELSE @]
    OBVIOUS
  <2> HIDE DEF led, row
  <2>4. /\ scored \in Search /\ scored.done = led.done /\ scored.status = "running" /\ scored.best = led.best
    BY <1>2, <2>2 DEF Search
  <2> HIDE DEF scored
  <2>5. /\ row \in Search /\ row.done = scored.done /\ row.status \in {"running", "completed"}
        /\ row.best = scored.best
    BY <2>3, <2>4 DEF Search
  <2> QED  BY <2>1, <2>2, <2>4, <2>5
<1> HIDE DEF row, counted, leader
<1>5. /\ rs \in Seq(Round) /\ Len(rs) = Len(rounds[s]) /\ rs[n].status = "completed" /\ rs[n].top = top
      /\ \A m \in 1 .. Len(rounds[s]) : m # n => rs[m] = rounds[s][m]
  <2> HIDE DEF top
  <2>1. rounds[s] \in Seq(Round) /\ rounds[s][n] \in Round
    BY OpenRoundIs, ElementOfSeq
  <2> DEFINE ended == [rounds[s][n] EXCEPT !.status = "completed"]
             x == [ended EXCEPT !.top = top]
  <2>2. ended \in Round /\ ended.status = "completed"
    BY <2>1 DEF Round
  <2>3. rs = [rounds[s] EXCEPT ![n] = x]
    BY OpenRoundIs
  <2> HIDE DEF ended, rs
  <2>4. x \in Round /\ x.status = "completed" /\ x.top = top
    BY <1>2, <2>2 DEF Round
  <2> HIDE DEF x
  <2>5. /\ rs \in Seq(Round) /\ Len(rs) = Len(rounds[s])
        /\ \A m \in 1 .. Len(rounds[s]) : rs[m] = IF m = n THEN x ELSE rounds[s][m]
    BY <2>1, <2>3, <2>4, ExceptSeq
  <2> QED  BY <2>4, <2>5
<1> HIDE DEF rs, top
<1>6. Sums(s, row, rs) /\ NoneOpen(rs)
  BY <1>3, <1>4, <1>5, OpenRoundIs, SumsTakeIn
<1>7. \A m \in 1 .. Len(rounds[s]) : rounds[s][m].work = NoWork => rs[m] = rounds[s][m]
  BY <1>5
<1> QED  BY <1>1, <1>4, <1>5, <1>6, <1>7, OutcomeStep

\* A round that failed is counted among the failures.
LEMMA FailStep ==
  ASSUME SearchInv, NEW c \in Callers, NEW s \in Searches, NEW n \in 1 .. Len(rounds[s]),
         at[c].step = "step", Running(s),
         rounds[s][n].status = "running", rounds[s][n].work # NoWork,
         Fail(c, s, n), UNCHANGED <<told, exits>>
  PROVE  SearchInv'
<1> DEFINE rs == [rounds[s] EXCEPT ![n].status = "failed"]
           row == IF LastTwoFailed(rs) THEN [search[s] EXCEPT !.status = "failed"] ELSE search[s]
<1>1. Outcome(c, s, row, rs)
  BY DEF Fail
<1>2. search[s] \in Search /\ search[s].status = "running" /\ Sums(s, search[s], rounds[s])
  BY DEF SearchInv, SearchTypes, Running, AddedUp
<1>3. /\ rs \in Seq(Round) /\ Len(rs) = Len(rounds[s]) /\ rs[n].status = "failed"
      /\ \A m \in 1 .. Len(rounds[s]) : m # n => rs[m] = rounds[s][m]
  <2>1. rounds[s] \in Seq(Round) /\ rounds[s][n] \in Round
    BY OpenRoundIs, ElementOfSeq
  <2> DEFINE x == [rounds[s][n] EXCEPT !.status = "failed"]
  <2>2. rs = [rounds[s] EXCEPT ![n] = x]
    BY OpenRoundIs
  <2> HIDE DEF rs
  <2>3. x \in Round /\ x.status = "failed"
    BY <2>1 DEF Round
  <2> HIDE DEF x
  <2>4. /\ rs \in Seq(Round) /\ Len(rs) = Len(rounds[s])
        /\ \A m \in 1 .. Len(rounds[s]) : rs[m] = IF m = n THEN x ELSE rounds[s][m]
    BY <2>1, <2>2, <2>3, ExceptSeq
  <2> QED  BY <2>3, <2>4
<1> HIDE DEF rs
<1>4. /\ row \in Search /\ row.done = search[s].done /\ row.best = search[s].best
      /\ row.status \in {"running", "failed"} /\ (row.status = "failed" => LastTwoFailed(rs))
  BY <1>2 DEF Search
<1> HIDE DEF row
<1>5. Sums(s, row, rs) /\ NoneOpen(rs)
  BY <1>2, <1>3, <1>4, OpenRoundIs, SumsFail
<1>6. \A m \in 1 .. Len(rounds[s]) : rounds[s][m].work = NoWork => rs[m] = rounds[s][m]
  BY <1>3
<1> QED  BY <1>1, <1>3, <1>4, <1>5, <1>6, OutcomeStep

LEMMA StepStep ==
  ASSUME SearchInv, NEW c \in Callers, Step(c)
  PROVE  SearchInv'
<1> DEFINE s == at[c].s
           n == OpenRound(s)
           w == rounds[s][n].work.status
<1>1. at[c].step = "step" /\ UNCHANGED <<told, exits>> /\ at[c] \in Caller
  BY DEF Step, SearchInv, SearchTypes
<1>2. s \in Searches
  BY <1>1 DEF SearchInv, Called
<1>3. \/ ~Running(s) /\ at' = [at EXCEPT ![c] = Idle] /\ UNCHANGED <<search, rounds>>
      \/ Running(s) /\ OpenRounds(s) = {} /\ Outcome(c, s, search[s], rounds[s])
      \/ /\ Running(s) /\ OpenRounds(s) # {} /\ w = None
         /\ rounds' = [rounds EXCEPT ![s][n].status = "abandoned"]
         /\ at' = [at EXCEPT ![c] = Idle] /\ UNCHANGED search
      \/ /\ Running(s) /\ OpenRounds(s) # {} /\ w = "queued"
         /\ at' = [at EXCEPT ![c] = IF at[c].may = "nothing" THEN Idle
                                  ELSE [Idle EXCEPT !.step = "restart", !.s = s, !.round = n]]
         /\ UNCHANGED <<search, rounds>>
      \/ /\ Running(s) /\ OpenRounds(s) # {} /\ w = "running"
         /\ at' = [at EXCEPT ![c] = Idle] /\ UNCHANGED <<search, rounds>>
      \/ Running(s) /\ OpenRounds(s) # {} /\ w = "completed" /\ \E r \in Reports : TakeIn(c, s, n, r)
      \/ Running(s) /\ OpenRounds(s) # {} /\ w = "failed" /\ Fail(c, s, n)
  BY DEF Step, StillRuns
<1>4. /\ rounds[s] \in Seq(Round) /\ DOMAIN rounds[s] = 1 .. Len(rounds[s]) /\ Len(rounds[s]) \in Nat
      /\ OpenRounds(s) # {} => n \in 1 .. Len(rounds[s]) /\ rounds[s][n].status = "running"
      /\ OpenRounds(s) = {} => NoneOpen(rounds[s])
  BY <1>2, OpenRoundIs
<1> HIDE DEF s, n
<1>5. search[s] \in Search /\ (Running(s) => search[s].status = "running") /\ Sums(s, search[s], rounds[s])
  BY <1>2 DEF SearchInv, SearchTypes, Running, AddedUp
<1>6. CASE at' = [at EXCEPT ![c] = Idle] /\ UNCHANGED <<search, rounds>>
  BY <1>1, <1>6, IdleIs, QuietStep
<1>7. CASE Running(s) /\ OpenRounds(s) = {} /\ Outcome(c, s, search[s], rounds[s])
  BY <1>1, <1>2, <1>4, <1>5, <1>7, OutcomeStep
<1>8. CASE /\ Running(s) /\ OpenRounds(s) # {} /\ w = None
           /\ rounds' = [rounds EXCEPT ![s][n].status = "abandoned"]
           /\ at' = [at EXCEPT ![c] = Idle] /\ UNCHANGED search
  <2> DEFINE r == [rounds[s][n] EXCEPT !.status = "abandoned"]
  <2>1. rounds[s][n] \in Round
    BY <1>4, <1>8, ElementOfSeq
  <2>2. rounds' = [rounds EXCEPT ![s] = [rounds[s] EXCEPT ![n] = r]]
    BY <1>8
  <2>3. r \in Round /\ Follows(rounds[s][n], r) /\ r.work = rounds[s][n].work
    BY <1>4, <1>8, <2>1 DEF Round, Follows
  <2> HIDE DEF r
  <2>4. r.work = NoWork \/ \A d \in Callers : at'[d] = at[d] => ~Holds(d, s, n)
    BY <2>3 DEF SearchInv, Called, Holds
  <2>5. Rests /\ n \in 1 .. Len(rounds[s]) /\ UNCHANGED <<search, told, exits>>
    BY <1>1, <1>4, <1>8 DEF Rests
  <2> QED  BY <1>2, <2>2, <2>3, <2>4, <2>5, RoundStep
<1>9. CASE /\ Running(s) /\ OpenRounds(s) # {} /\ w = "queued"
           /\ at' = [at EXCEPT ![c] = IF at[c].may = "nothing" THEN Idle
                                    ELSE [Idle EXCEPT !.step = "restart", !.s = s, !.round = n]]
           /\ UNCHANGED <<search, rounds>>
  <2> DEFINE asked == [Idle EXCEPT !.step = "restart"]
             named == [asked EXCEPT !.s = s]
             x == [named EXCEPT !.round = n]
  <2>1. asked \in Caller /\ asked.step = "restart"
    BY IdleIs DEF Caller
  <2>2. x = [Idle EXCEPT !.step = "restart", !.s = s, !.round = n]
    OBVIOUS
  <2>3. n \in Nat /\ n \in DOMAIN rounds[s]
    BY <1>4, <1>9
  <2> HIDE DEF asked
  <2>4. named \in Caller /\ named.step = "restart" /\ named.s = s
    BY <1>2, <2>1 DEF Caller
  <2> HIDE DEF named
  <2>5. x \in Caller /\ x.step = "restart" /\ x.s = s /\ x.round = n
    BY <2>3, <2>4 DEF Caller
  <2> HIDE DEF x
  <2>6. at' = [at EXCEPT ![c] = Idle] \/ at' = [at EXCEPT ![c] = x]
    BY <1>9, <2>2
  <2> QED  BY <1>1, <1>2, <1>6, <1>9, <2>3, <2>5, <2>6, QuietStep
<1>10. CASE /\ Running(s) /\ OpenRounds(s) # {}
            /\ \/ w = "completed" /\ \E r \in Reports : TakeIn(c, s, n, r)
               \/ w = "failed" /\ Fail(c, s, n)
  <2>1. rounds[s][n].work # NoWork
    BY <1>10 DEF NoWork, None
  <2> HIDE DEF w
  <2> QED  BY <1>1, <1>2, <1>4, <1>10, <2>1, TakeInStep, FailStep
<1> QED  BY <1>3, <1>6, <1>7, <1>8, <1>9, <1>10

\* A caller that goes on without reading the rounds.
LEMMA CallerStepStep ==
  ASSUME SearchInv, NEW c \in Callers, CallerStep(c) \/ \E s \in Searches : Advance(c, s)
  PROVE  SearchInv'
<1>1. at[c] \in Caller /\ (at[c].step # "idle" => at[c].s \in Searches)
  BY DEF SearchInv, SearchTypes, Called
<1>2. CASE ReadSwitches(c)
  <2> DEFINE may == IF ~spending THEN "nothing" ELSE IF paused THEN "restart" ELSE "claim"
             stepped == [at[c] EXCEPT !.step = "step"]
             x == [stepped EXCEPT !.may = may]
  <2>1. /\ at[c].step = "switches" /\ UNCHANGED <<search, rounds, told, exits>>
        /\ at' = [at EXCEPT ![c] = x]
    BY <1>2 DEF ReadSwitches
  <2>2. may \in {"nothing", "restart", "claim"}
    OBVIOUS
  <2>3. stepped \in Caller /\ stepped.step = "step" /\ stepped.s = at[c].s
    BY <1>1 DEF Caller
  <2> HIDE DEF may, stepped
  <2>4. x \in Caller /\ x.step = "step" /\ x.s = at[c].s
    BY <2>2, <2>3 DEF Caller
  <2> HIDE DEF x
  <2> QED  BY <1>1, <2>1, <2>4, QuietStep
<1>3. CASE \E s \in Searches : Advance(c, s)
  <2>1. PICK s \in Searches : Advance(c, s)
    BY <1>3
  <2> DEFINE asked == [Idle EXCEPT !.step = "switches"]
             x == [asked EXCEPT !.s = s]
  <2>2. /\ at[c].step = "idle" /\ UNCHANGED <<search, rounds, told, exits>>
        /\ at' = [at EXCEPT ![c] = x]
    BY <2>1 DEF Advance
  <2>3. asked \in Caller /\ asked.step = "switches"
    BY IdleIs DEF Caller
  <2> HIDE DEF asked
  <2>4. x \in Caller /\ x.step = "switches" /\ x.s = s
    BY <2>3 DEF Caller
  <2> HIDE DEF x
  <2> QED  BY <2>2, <2>4, QuietStep
<1>4. CASE Delegate(c)
  <2>1. PICK next \in {"attach", "abandon"} : at' = [at EXCEPT ![c].step = next]
    BY <1>4 DEF Delegate
  <2> DEFINE x == [at[c] EXCEPT !.step = next]
  <2>2. /\ at[c].step = "delegate" /\ UNCHANGED <<search, rounds, told, exits>>
        /\ at' = [at EXCEPT ![c] = x]
    BY <1>4, <2>1 DEF Delegate
  <2>3. x \in Caller /\ x.step = next /\ x.s = at[c].s /\ x.round = at[c].round
    BY <1>1 DEF Caller
  <2> HIDE DEF x
  <2> QED  BY <1>1, <2>2, <2>3, QuietStep
<1>5. ASSUME Delegates(c) \/ at[c].step = "restart"
      PROVE  /\ at[c].s \in Searches /\ at[c].round \in 1 .. Len(rounds[at[c].s])
             /\ rounds[at[c].s][at[c].round] \in Round
             /\ DOMAIN rounds[at[c].s] = 1 .. Len(rounds[at[c].s])
  <2>1. at[c].s \in Searches
    BY <1>1, <1>5 DEF Delegates
  <2>2. rounds[at[c].s] \in Seq(Round) /\ DOMAIN rounds[at[c].s] = 1 .. Len(rounds[at[c].s])
    BY <2>1, OpenRoundIs
  <2>3. at[c].round \in 1 .. Len(rounds[at[c].s])
    BY <1>5, <2>2 DEF SearchInv, Called
  <2> QED  BY <2>1, <2>2, <2>3, ElementOfSeq
<1> DEFINE s == at[c].s
           n == at[c].round
<1>6. CASE Attach(c)
  <2> DEFINE work == [status |-> "queued", by |-> Process(c)]
             r == [rounds[s][n] EXCEPT !.work = work]
  <2>1. /\ at[c].step = "attach" /\ UNCHANGED <<search, told, exits>> /\ at' = [at EXCEPT ![c] = Idle]
        /\ rounds' = [rounds EXCEPT ![s][n].work = work]
    BY <1>6 DEF Attach
  <2>2. s \in Searches /\ n \in 1 .. Len(rounds[s]) /\ rounds[s][n] \in Round
    BY <1>5, <2>1 DEF Delegates
  <2>3. rounds' = [rounds EXCEPT ![s] = [rounds[s] EXCEPT ![n] = r]]
    BY <2>1
  <2>4. work \in Work
    BY DEF Work, Process
  <2> HIDE DEF work
  <2>5. r \in Round /\ Follows(rounds[s][n], r)
    BY <2>2, <2>4, WorkGoes
  <2> HIDE DEF r
  <2>6. \A d \in Callers : at'[d] = at[d] => ~Holds(d, s, n)
    <3>1. at'[c] = Idle /\ Idle # at[c]
      BY <2>1, IdleIs DEF SearchInv, SearchTypes
    <3>2. \A d \in Callers : d # c => ~Holds(d, s, n)
      BY <2>1 DEF SearchInv, Called, Delegates, Holds
    <3> QED  BY <3>1, <3>2
  <2>7. Rests /\ UNCHANGED <<search, told, exits>>
    BY <2>1 DEF Rests
  <2> HIDE DEF s, n
  <2> QED  BY <2>2, <2>3, <2>5, <2>6, <2>7, RoundStep
<1>7. CASE Abandon(c)
  <2> DEFINE r == [rounds[s][n] EXCEPT !.status = "abandoned"]
  <2>1. /\ at[c].step = "abandon" /\ UNCHANGED <<search, told, exits>> /\ at' = [at EXCEPT ![c] = Idle]
        /\ rounds' = [rounds EXCEPT ![s][n].status = "abandoned"]
    BY <1>7 DEF Abandon
  <2>2. s \in Searches /\ n \in 1 .. Len(rounds[s]) /\ rounds[s][n] \in Round
    BY <1>5, <2>1 DEF Delegates
  <2>3. rounds' = [rounds EXCEPT ![s] = [rounds[s] EXCEPT ![n] = r]]
    BY <2>1
  <2>4. rounds[s][n].work = NoWork /\ rounds[s][n].status \in {"running", "abandoned"}
    BY <2>1 DEF SearchInv, Called, Delegates
  <2>5. r \in Round /\ Follows(rounds[s][n], r) /\ r.work = NoWork
    BY <2>2, <2>4 DEF Round, Follows
  <2>6. Rests /\ UNCHANGED <<search, told, exits>>
    BY <2>1 DEF Rests
  <2> HIDE DEF r, s, n
  <2> QED  BY <2>2, <2>3, <2>5, <2>6, RoundStep
<1>8. CASE Restart(c)
  <2>1. /\ at[c].step = "restart" /\ UNCHANGED <<search, told, exits>> /\ at' = [at EXCEPT ![c] = Idle]
        /\ rounds' = IF rounds[s][n].work.status = "queued"
                     THEN [rounds EXCEPT ![s][n].work.by = Process(c)] ELSE rounds
    BY <1>8 DEF Restart
  <2>2. s \in Searches /\ n \in 1 .. Len(rounds[s]) /\ rounds[s][n] \in Round
    BY <1>5, <2>1
  <2>3. CASE rounds[s][n].work.status = "queued"
    <3> DEFINE work == [rounds[s][n].work EXCEPT !.by = Process(c)]
               r == [rounds[s][n] EXCEPT !.work = work]
    <3>1. rounds' = [rounds EXCEPT ![s] = [rounds[s] EXCEPT ![n] = r]]
      BY <2>1, <2>3
    <3>2. work \in Work
      BY <2>2 DEF Round, Work, Process
    <3> HIDE DEF work
    <3>3. r \in Round /\ Follows(rounds[s][n], r)
      BY <2>2, <3>2, WorkGoes
    <3> HIDE DEF r
    <3>4. \A d \in Callers : ~Holds(d, s, n)
      BY <2>3 DEF SearchInv, Called, NoWork, None, Holds
    <3>5. Rests /\ UNCHANGED <<search, told, exits>>
      BY <2>1 DEF Rests
    <3> HIDE DEF s, n
    <3> QED  BY <2>2, <3>1, <3>3, <3>4, <3>5, RoundStep
  <2>4. CASE rounds[s][n].work.status # "queued"
    BY <2>1, <2>4, IdleIs, QuietStep
  <2> QED  BY <2>3, <2>4
<1>9. CASE Tell(c)
  <2>1. /\ at[c].step = "tell" /\ UNCHANGED <<search, rounds, exits>> /\ at' = [at EXCEPT ![c] = Idle]
        /\ told' = [told EXCEPT ![s] = @ + 1]
    BY <1>9 DEF Tell
  <2>2. s \in Searches /\ Goes(c, Idle)
    BY <1>1, <2>1, IdleIs, CallerGoes DEF SearchInv
  <2>3. /\ told' \in [Searches -> Nat] /\ told'[s] = told[s] + 1
        /\ \A t \in Searches : t # s => told'[t] = told[t]
    BY <2>1, <2>2 DEF SearchInv, SearchTypes
  <2>4. SearchTypes' /\ AddedUp'
    BY <2>1, <2>2, <2>3 DEF SearchInv, SearchTypes, AddedUp, Goes
  <2>5. Called'
    <3>1. \A d \in Callers : at'[d].step # "idle" => at'[d] = at[d]
      BY <2>2, IdleIs DEF Goes
    <3>2. \A d \in Callers : (Delegates(d)' => Delegates(d) /\ at'[d] = at[d])
                             /\ (at'[d].step = "restart" => at[d].step = "restart" /\ at'[d] = at[d])
      BY <3>1 DEF Delegates
    <3>3. \A d, e \in Callers : Delegates(d)' /\ Delegates(e)' /\ d # e =>
            at'[d].s # at'[e].s \/ at'[d].round # at'[e].round
      <4>1. \A d, e \in Callers : Delegates(d) /\ Delegates(e) /\ d # e =>
              at[d].s # at[e].s \/ at[d].round # at[e].round
        BY DEF SearchInv, Called
      <4> QED  BY <3>2, <4>1
    <3>4. \A d \in Callers :
            Delegates(d)' \/ at'[d].step = "restart" => at'[d].round \in DOMAIN rounds[at'[d].s]
      BY <3>2 DEF SearchInv, Called
    <3>5. \A d \in Callers : Delegates(d)' =>
            /\ rounds[at'[d].s][at'[d].round].work = NoWork
            /\ rounds[at'[d].s][at'[d].round].status \in {"running", "abandoned"}
      BY <3>2 DEF SearchInv, Called
    <3>6. \A d \in Callers : at'[d].step # "idle" => at'[d].s \in Searches
      BY <3>1 DEF SearchInv, Called
    <3> QED  BY <2>1, <3>3, <3>4, <3>5, <3>6 DEF Called
  <2>6. Announced'
    <3> SUFFICES ASSUME NEW t \in Searches
                 PROVE  told'[t] + Cardinality(Tellers(t)') <= Ends(t)
      BY <2>1 DEF Announced, Ends
    <3>1. IsFiniteSet(Tellers(t)) /\ Cardinality(Tellers(t)) \in Nat
      <4>1. IsFiniteSet(Callers) /\ Tellers(t) \in SUBSET Callers
        BY SearchAssumption DEF Tellers
      <4> QED  BY <4>1, FS_Subset, FS_CardinalityType
    <3>2. Tellers(t)' = Tellers(t) \ {c} /\ (c \in Tellers(t) <=> t = s)
      BY <2>1, <2>2, IdleIs DEF Tellers, Goes
    <3>3. Cardinality(Tellers(t) \ {c}) = IF c \in Tellers(t) THEN Cardinality(Tellers(t)) - 1
                                                              ELSE Cardinality(Tellers(t))
      BY <3>1, FS_RemoveElement
    <3>4. told[t] \in Nat /\ Ends(t) \in Nat /\ told[t] + Cardinality(Tellers(t)) <= Ends(t)
      BY DEF SearchInv, SearchTypes, Announced, Ends
    <3>5. told'[t] = IF t = s THEN told[t] + 1 ELSE told[t]
      BY <2>3
    <3>6. Cardinality(Tellers(t)') = IF t = s THEN Cardinality(Tellers(t)) - 1 ELSE Cardinality(Tellers(t))
      BY <3>2, <3>3
    <3> HIDE DEF s
    <3> QED  BY <3>1, <3>4, <3>5, <3>6
  <2> QED  BY <2>4, <2>5, <2>6 DEF SearchInv
<1> QED  BY <1>2, <1>3, <1>4, <1>6, <1>7, <1>8, <1>9, StepStep DEF CallerStep

\* A search starts, or is stopped by Alex.
LEMMA RowStep ==
  ASSUME SearchInv, NEW s \in Searches, NEW w \in Search, search' = [search EXCEPT ![s] = w],
         UNCHANGED <<rounds, told, exits>>,
         w.done = search[s].done, w.best = search[s].best,
         \/ search[s].status = None /\ w.status = "running"
         \/ search[s].status = "running" /\ w.status = "stopped",
         \/ at' = at
         \/ \E c \in Callers, x \in Caller : /\ at[c].step = "idle" /\ at' = [at EXCEPT ![c] = x]
                                             /\ x.step = "switches" /\ x.s \in Searches
  PROVE  SearchInv'
<1> USE DEF SearchInv
<1>1. /\ at' \in [Callers -> Caller]
      /\ \A d \in Callers : \/ at'[d] = at[d]
                            \/ at[d].step = "idle" /\ at'[d].step = "switches" /\ at'[d].s \in Searches
  BY DEF SearchTypes
<1>2. /\ search' \in [Searches -> Search] /\ search'[s] = w
      /\ \A t \in Searches : t # s => search'[t] = search[t]
  BY DEF SearchTypes
<1>3. SearchTypes'
  BY <1>1, <1>2 DEF SearchTypes
<1>4. AddedUp'
  <2>1. Sums(s, w, rounds[s])
    BY DEF AddedUp, Sums, None
  <2> QED  BY <1>2, <2>1 DEF AddedUp
<1>5. Called'
  <2>1. \A d \in Callers : Delegates(d)' \/ at'[d].step = "restart" => at'[d] = at[d]
    BY <1>1 DEF Delegates
  <2>2. \A d \in Callers : (Delegates(d)' => Delegates(d) /\ at'[d] = at[d])
                           /\ (at'[d].step = "restart" => at[d].step = "restart" /\ at'[d] = at[d])
    BY <2>1 DEF Delegates
  <2>3. \A d, e \in Callers : Delegates(d)' /\ Delegates(e)' /\ d # e =>
          at'[d].s # at'[e].s \/ at'[d].round # at'[e].round
    <3>1. \A d, e \in Callers : Delegates(d) /\ Delegates(e) /\ d # e =>
            at[d].s # at[e].s \/ at[d].round # at[e].round
      BY DEF Called
    <3> QED  BY <2>2, <3>1
  <2>4. \A d \in Callers :
          Delegates(d)' \/ at'[d].step = "restart" => at'[d].round \in DOMAIN rounds[at'[d].s]
    BY <2>2 DEF Called
  <2>5. \A d \in Callers : Delegates(d)' =>
          /\ rounds[at'[d].s][at'[d].round].work = NoWork
          /\ rounds[at'[d].s][at'[d].round].status \in {"running", "abandoned"}
    BY <2>2 DEF Called
  <2>6. \A d \in Callers : at'[d].step # "idle" => at'[d].s \in Searches
    BY <1>1 DEF Called
  <2> QED  BY <2>3, <2>4, <2>5, <2>6 DEF Called
<1>6. Announced'
  <2>1. \A t \in Searches : Tellers(t)' = Tellers(t)
    BY <1>1 DEF Tellers
  <2>2. \A t \in Searches : Ends(t)' = Ends(t)
    BY <1>2 DEF Ends, None
  <2> QED  BY <2>1, <2>2 DEF Announced
<1> QED  BY <1>3, <1>4, <1>5, <1>6

\* The next search to start is one that did not.
LEMMA NextSearchIs ==
  ASSUME Free # {}
  PROVE  NextSearch \in Searches /\ search[NextSearch].status = None
<1>1. Free \in SUBSET Nat
  BY SearchNumbers DEF Free
<1>2. PICK s \in Free : \A t \in Free : s <= t
  BY <1>1, Smallest
<1>3. s \in Searches /\ search[s].status = None
  BY <1>2 DEF Free
<1>4. \A t \in 1 .. s - 1 : search[t].status # None
  <2> SUFFICES ASSUME NEW t \in 1 .. s - 1 PROVE t \notin Free /\ t \in Searches
    BY DEF Free
  <2>1. Searches = 1 .. Len(Limits) /\ Len(Limits) \in Nat
    BY SearchAssumption, LenProperties DEF Searches
  <2>2. s \in Nat /\ t \in Nat /\ t < s
    BY <1>1, <2>1, <1>3
  <2> QED  BY <1>2, <1>3, <2>1, <2>2
<1> QED  BY <1>3, <1>4 DEF NextSearch

LEMMA StartStopStep ==
  ASSUME SearchInv, (\E c \in Callers : Start(c)) \/ (\E s \in Searches : Stop(s))
  PROVE  SearchInv'
<1>1. CASE \E c \in Callers : Start(c)
  <2> DEFINE s == NextSearch
             asked == [Idle EXCEPT !.step = "switches"]
             x == [asked EXCEPT !.s = s]
             w == [search[s] EXCEPT !.status = "running"]
  <2>1. PICK c \in Callers :
          /\ at[c].step = "idle" /\ MayStart /\ UNCHANGED <<rounds, told, exits>>
          /\ search' = [search EXCEPT ![s].status = "running"]
          /\ at' = [at EXCEPT ![c] = [Idle EXCEPT !.step = "switches", !.s = s]]
    BY <1>1 DEF Start
  <2>2. s \in Searches /\ search[s].status = None
    BY <2>1, NextSearchIs DEF MayStart
  <2>3. search' = [search EXCEPT ![s] = w] /\ at' = [at EXCEPT ![c] = x]
    BY <2>1
  <2>4. search[s] \in Search
    BY <2>2 DEF SearchInv, SearchTypes
  <2> HIDE DEF s
  <2>5. w \in Search /\ w.done = search[s].done /\ w.best = search[s].best /\ w.status = "running"
    BY <2>4 DEF Search
  <2>6. asked \in Caller /\ asked.step = "switches"
    BY IdleIs DEF Caller
  <2> HIDE DEF asked, w
  <2>7. x \in Caller /\ x.step = "switches" /\ x.s = s
    BY <2>2, <2>6 DEF Caller
  <2> HIDE DEF x
  <2>8. \E d \in Callers, y \in Caller : /\ at[d].step = "idle" /\ at' = [at EXCEPT ![d] = y]
                                         /\ y.step = "switches" /\ y.s \in Searches
    BY <2>1, <2>2, <2>3, <2>7, Zenon
  <2> QED  BY <2>1, <2>2, <2>3, <2>5, <2>8, RowStep
<1>2. CASE \E s \in Searches : Stop(s)
  <2>1. PICK s \in Searches : Stop(s)
    BY <1>2
  <2> DEFINE w == [search[s] EXCEPT !.status = "stopped"]
  <2>2. /\ search[s].status = "running" /\ search' = [search EXCEPT ![s] = w]
        /\ UNCHANGED <<rounds, at, told, exits>>
    BY <2>1 DEF Stop, Running
  <2>3. search[s] \in Search
    BY DEF SearchInv, SearchTypes
  <2>4. w \in Search /\ w.done = search[s].done /\ w.best = search[s].best /\ w.status = "stopped"
    BY <2>3 DEF Search
  <2> HIDE DEF w
  <2> QED  BY <2>2, <2>4, RowStep
<1> QED  BY <1>1, <1>2

\* The coroutine of an assignment starts or ends.
LEMMA RunStep ==
  ASSUME SearchInv, NEW s \in Searches, NEW n \in Rounds, RunStarts(s, n) \/ RunEnds(s, n)
  PROVE  SearchInv'
<1> DEFINE w == rounds[s][n].work
<1>1. n \in DOMAIN rounds[s] /\ w.status \in {"queued", "running"} /\ UNCHANGED <<search, at, told, exits>>
  BY DEF RunStarts, RunEnds, Open, OpenRounds
<1>2. n \in 1 .. Len(rounds[s]) /\ rounds[s][n] \in Round
  BY <1>1, OpenRoundIs, ElementOfSeq
<1>3. w \in Work
  BY <1>2 DEF Round
<1>4. \A d \in Callers : ~Holds(d, s, n)
  BY <1>1 DEF SearchInv, Called, Holds, NoWork, None
<1>5. PICK v \in Work : rounds' = [rounds EXCEPT ![s][n].work = v]
  <2>1. CASE RunStarts(s, n)
    <3>1. [w EXCEPT !.status = "running"] \in Work /\ [w EXCEPT !.by = None] \in Work
      BY <1>3 DEF Work
    <3>2. \/ rounds' = [rounds EXCEPT ![s][n].work = [w EXCEPT !.status = "running"]]
          \/ rounds' = [rounds EXCEPT ![s][n].work = [w EXCEPT !.by = None]]
      BY <2>1 DEF RunStarts
    <3> QED  BY <3>1, <3>2
  <2>2. CASE RunEnds(s, n)
    <3>1. Ended("completed") \in Work /\ Ended("failed") \in Work
      BY DEF Ended, Work
    <3>2. \E status \in {"completed", "failed"} : rounds' = [rounds EXCEPT ![s][n].work = Ended(status)]
      BY <2>2 DEF RunEnds
    <3> QED  BY <3>1, <3>2
  <2> QED  BY <2>1, <2>2
<1> DEFINE r == [rounds[s][n] EXCEPT !.work = v]
<1>6. rounds' = [rounds EXCEPT ![s] = [rounds[s] EXCEPT ![n] = r]]
  BY <1>5
<1>7. r \in Round /\ Follows(rounds[s][n], r)
  BY <1>2, WorkGoes
<1> HIDE DEF r
<1>8. UNCHANGED <<search, told, exits>> /\ at' = at
  BY <1>1
<1> QED  BY <1>2, <1>4, <1>6, <1>7, <1>8, RoundStep

\* A process stops: its callers and coroutines are gone, and the server takes up
\* what it finds.
LEMMA ExitStep ==
  ASSUME SearchInv, NEW p \in MayExit, Exit(p)
  PROVE  SearchInv'
<1> USE DEF SearchInv
<1> DEFINE old(s, n) == rounds[s][n]
           work(s, n) == IF p = "cli" THEN (IF old(s, n).work.by = p THEN [old(s, n).work EXCEPT !.by = None]
                                                                   ELSE old(s, n).work)
                         ELSE IF old(s, n).work.status = "running" THEN Ended("failed")
                         ELSE IF old(s, n).work.status = "queued" THEN [old(s, n).work EXCEPT !.by = p]
                         ELSE old(s, n).work
           new(s, n) == IF ~Open(s, n) THEN old(s, n) ELSE [old(s, n) EXCEPT !.work = work(s, n)]
<1>1. /\ exits < MaxExits /\ exits' = exits + 1 /\ UNCHANGED <<search, told>>
      /\ at' = [c \in Callers |-> IF Process(c) = p THEN Idle ELSE at[c]]
  BY Zenon DEF Exit
<1>2. rounds' = [s \in Searches |-> [n \in DOMAIN rounds[s] |-> new(s, n)]]
  BY DEF Exit
<1>3. p \in {"server", "cli"}
  BY SearchAssumption
<1>4. ASSUME NEW s \in Searches, NEW n \in 1 .. Len(rounds[s])
      PROVE  /\ new(s, n) \in Round /\ Follows(old(s, n), new(s, n)) /\ new(s, n).status = old(s, n).status
             /\ old(s, n).work = NoWork => new(s, n).work = NoWork
  <2>1. old(s, n) \in Round
    BY OpenRoundIs, ElementOfSeq
  <2> HIDE DEF old
  <2>2. old(s, n).work \in Work
    BY <2>1 DEF Round
  <2>3. work(s, n) \in Work
    <3>1. [old(s, n).work EXCEPT !.by = None] \in Work /\ [old(s, n).work EXCEPT !.by = p] \in Work
      BY <1>3, <2>2 DEF Work
    <3>2. Ended("failed") \in Work
      BY DEF Ended, Work
    <3> QED  BY <2>2, <3>1, <3>2
  <2>4. old(s, n).work = NoWork => work(s, n) = NoWork
    BY <1>3 DEF NoWork, None
  <2> HIDE DEF work
  <2> DEFINE r == [old(s, n) EXCEPT !.work = work(s, n)]
  <2>5. r \in Round /\ Follows(old(s, n), r) /\ r.work = work(s, n)
    BY <2>1, <2>3, WorkGoes
  <2>6. r.status = old(s, n).status
    BY <2>1 DEF Round
  <2>7. new(s, n) = old(s, n) \/ new(s, n) = r
    OBVIOUS
  <2> HIDE DEF r, new
  <2>8. Follows(old(s, n), old(s, n))
    BY DEF Follows
  <2> QED  BY <2>1, <2>4, <2>5, <2>6, <2>7, <2>8
<1>5. ASSUME NEW s \in Searches
      PROVE  /\ rounds'[s] \in Seq(Round) /\ Len(rounds'[s]) = Len(rounds[s])
             /\ DOMAIN rounds'[s] = DOMAIN rounds[s] /\ DOMAIN rounds[s] = 1 .. Len(rounds[s])
             /\ \A n \in 1 .. Len(rounds[s]) : rounds'[s][n] = new(s, n)
  <2>1. DOMAIN rounds[s] = 1 .. Len(rounds[s]) /\ Len(rounds[s]) \in Nat /\ rounds[s] \in Seq(Round)
    BY OpenRoundIs
  <2> HIDE DEF new
  <2>2. rounds'[s] = [n \in DOMAIN rounds[s] |-> new(s, n)]
    BY <1>2
  <2>3. rounds'[s] \in [1 .. Len(rounds[s]) -> Round] /\ \A n \in 1 .. Len(rounds[s]) : rounds'[s][n] = new(s, n)
    BY <1>4, <2>1, <2>2
  <2>4. rounds'[s] \in Seq(Round)
    BY <2>1, <2>3, SeqDef
  <2>5. DOMAIN rounds'[s] = 1 .. Len(rounds[s]) /\ DOMAIN rounds'[s] = 1 .. Len(rounds'[s]) /\ Len(rounds'[s]) \in Nat
    BY <2>3, <2>4, LenProperties
  <2>6. Len(rounds'[s]) = Len(rounds[s])
    BY <2>1, <2>5
  <2> QED  BY <2>1, <2>3, <2>4, <2>5, <2>6
<1>6. \A s \in Searches : \A n \in 1 .. Len(rounds[s]) :
        /\ rounds'[s][n].status = rounds[s][n].status /\ rounds'[s][n].top = rounds[s][n].top
        /\ rounds[s][n].work = NoWork => rounds'[s][n].work = NoWork
  <2> HIDE DEF new
  <2> QED  BY <1>4, <1>5 DEF Follows
<1>7. /\ at' \in [Callers -> Caller]
      /\ \A d \in Callers : at'[d] = at[d] \/ at'[d] = Idle
  BY <1>1, IdleIs DEF SearchTypes
<1>8. SearchTypes'
  <2>1. rounds' \in [Searches -> Seq(Round)]
    <3>1. rounds' = [s \in Searches |-> rounds'[s]]
      BY <1>2
    <3> HIDE DEF new
    <3> QED  BY <1>5, <3>1
  <2>2. exits' \in 0 .. MaxExits
    BY <1>1, SearchNumbers DEF SearchTypes
  <2> QED  BY <1>1, <1>7, <2>1, <2>2 DEF SearchTypes
<1> HIDE DEF new, old
<1>9. AddedUp'
  <2> SUFFICES ASSUME NEW s \in Searches PROVE Sums(s, search[s], rounds'[s])
    BY <1>1 DEF AddedUp
  <2>1. search[s] \in Search /\ rounds[s] \in Seq(Round) /\ Sums(s, search[s], rounds[s])
    BY DEF SearchTypes, AddedUp
  <2>2. \A n \in 1 .. Len(rounds[s]) : /\ rounds'[s][n].status = "completed" <=> rounds[s][n].status = "completed"
                                       /\ rounds'[s][n].status = "running" => rounds[s][n].status = "running"
                                       /\ rounds'[s][n].top = rounds[s][n].top
    BY <1>6
  <2>3. \A n \in 1 .. Len(rounds[s]) : rounds'[s][n].status = rounds[s][n].status
    BY <1>6
  <2> QED  BY <1>5, <2>1, <2>2, <2>3, SumsKeep
<1>10. Called'
  <2>1. \A d \in Callers : at'[d].step # "idle" => at'[d] = at[d]
    BY <1>7, IdleIs
  <2>2. \A d \in Callers : (Delegates(d)' => Delegates(d) /\ at'[d] = at[d])
                           /\ (at'[d].step = "restart" => at[d].step = "restart" /\ at'[d] = at[d])
    BY <2>1 DEF Delegates
  <2>3. \A d, e \in Callers : Delegates(d)' /\ Delegates(e)' /\ d # e =>
          at'[d].s # at'[e].s \/ at'[d].round # at'[e].round
    <3>1. \A d, e \in Callers : Delegates(d) /\ Delegates(e) /\ d # e =>
            at[d].s # at[e].s \/ at[d].round # at[e].round
      BY DEF Called
    <3> QED  BY <2>2, <3>1
  <2>4. \A d \in Callers : Delegates(d) \/ at[d].step = "restart" =>
          at[d].s \in Searches /\ at[d].round \in 1 .. Len(rounds[at[d].s])
    BY <1>5 DEF Called, Delegates
  <2>5. \A d \in Callers :
          Delegates(d)' \/ at'[d].step = "restart" => at'[d].round \in DOMAIN rounds'[at'[d].s]
    BY <1>5, <2>2, <2>4
  <2>6. \A d \in Callers : Delegates(d)' =>
          /\ rounds'[at'[d].s][at'[d].round].work = NoWork
          /\ rounds'[at'[d].s][at'[d].round].status \in {"running", "abandoned"}
    <3>1. \A d \in Callers : Delegates(d) =>
            /\ rounds[at[d].s][at[d].round].work = NoWork
            /\ rounds[at[d].s][at[d].round].status \in {"running", "abandoned"}
      BY DEF Called
    <3>2. ASSUME NEW d \in Callers, Delegates(d)'
          PROVE  /\ rounds'[at'[d].s][at'[d].round].work = NoWork
                 /\ rounds'[at'[d].s][at'[d].round].status \in {"running", "abandoned"}
      <4>1. Delegates(d) /\ at'[d].s = at[d].s /\ at'[d].round = at[d].round
        BY ONLY <2>2, <3>2
      <4>2. at[d].s \in Searches /\ at[d].round \in 1 .. Len(rounds[at[d].s])
        BY ONLY <2>4, <4>1
      <4>3. /\ rounds[at[d].s][at[d].round].work = NoWork
            /\ rounds[at[d].s][at[d].round].status \in {"running", "abandoned"}
        BY ONLY <3>1, <4>1
      <4>4. /\ rounds'[at[d].s][at[d].round].work = NoWork
            /\ rounds'[at[d].s][at[d].round].status = rounds[at[d].s][at[d].round].status
        BY ONLY <1>6, <4>2, <4>3
      <4> QED  BY ONLY <4>1, <4>3, <4>4
    <3> QED  BY <3>2
  <2>7. \A d \in Callers : at'[d].step # "idle" => at'[d].s \in Searches
    BY <2>1 DEF Called
  <2> QED  BY <2>3, <2>5, <2>6, <2>7 DEF Called
<1>11. Announced'
  <2> SUFFICES ASSUME NEW t \in Searches
               PROVE  told[t] + Cardinality(Tellers(t)') <= Ends(t)
    BY <1>1 DEF Announced, Ends
  <2>1. Tellers(t)' \in SUBSET Tellers(t)
    BY <1>7, IdleIs DEF Tellers
  <2>2. IsFiniteSet(Tellers(t))
    BY SearchAssumption, FS_Subset DEF Tellers
  <2>3. /\ Cardinality(Tellers(t)) \in Nat /\ Cardinality(Tellers(t)') \in Nat
        /\ Cardinality(Tellers(t)') <= Cardinality(Tellers(t))
    BY <2>1, <2>2, FS_Subset, FS_CardinalityType
  <2>4. told[t] \in Nat /\ Ends(t) \in Nat /\ told[t] + Cardinality(Tellers(t)) <= Ends(t)
    BY DEF SearchTypes, Announced, Ends
  <2> QED  BY <2>3, <2>4
<1> QED  BY <1>8, <1>9, <1>10, <1>11

LEMMA SearchStart ==
  ASSUME SearchInit
  PROVE  SearchInv
<1>1. search \in [Searches -> Search]
      /\ \A s \in Searches : search[s].status = None /\ search[s].done = 0 /\ search[s].best = None
  <2>1. search = [s \in Searches |-> [status |-> None, done |-> 0, best |-> None, score |-> 0]]
    BY Zenon DEF SearchInit
  <2> QED  BY <2>1 DEF Search
<1>2. rounds \in [Searches -> Seq(Round)] /\ \A s \in Searches : rounds[s] = <<>>
  <2>1. rounds = [s \in Searches |-> <<>>]
    BY Zenon DEF SearchInit
  <2>2. <<>> \in Seq(Round)
    BY EmptySeq
  <2> QED  BY <2>1, <2>2
<1>3. at \in [Callers -> Caller] /\ \A c \in Callers : at[c].step = "idle"
  <2>1. at = [c \in Callers |-> Idle]
    BY Zenon DEF SearchInit
  <2> QED  BY <2>1, IdleIs
<1>4. told \in [Searches -> Nat] /\ \A s \in Searches : told[s] = 0
  <2>1. told = [s \in Searches |-> 0]
    BY Zenon DEF SearchInit
  <2> QED  BY <2>1
<1>5. exits \in 0 .. MaxExits
  <2>1. exits = 0
    BY Zenon DEF SearchInit
  <2> QED  BY <2>1, SearchNumbers
<1>6. SearchTypes
  BY <1>1, <1>2, <1>3, <1>4, <1>5 DEF SearchTypes
<1>7. AddedUp
  <2>1. /\ Completed(<<>>) = {} /\ Topped(<<>>) = {} /\ DOMAIN <<>> = {} /\ Len(<<>>) = 0
        /\ Cardinality({}) = 0
    BY EmptySeq, FS_EmptySet DEF Completed, Topped
  <2> SUFFICES ASSUME NEW s \in Searches PROVE Sums(s, search[s], <<>>)
    BY <1>2 DEF AddedUp
  <2>2. Limits[s] \in Nat /\ Attempts(s) \in Nat
    BY SearchNumbers
  <2>3. search[s].status = None /\ search[s].done = 0 /\ search[s].best = None
    BY <1>1
  <2>4. Led(search[s].best, <<>>)
    BY <2>1, <2>3 DEF Led
  <2>5. search[s].done = Cardinality(Completed(<<>>))
    BY <2>1, <2>3, Zenon
  <2>6. search[s].done <= Limits[s] /\ 0 <= Attempts(s)
    BY <2>2, <2>3
  <2>8. Len(<<>>) <= Attempts(s) /\ \A n \in DOMAIN <<>> : FALSE
    BY <2>1, <2>6, Zenon
  <2>7. search[s].status # "failed"
    BY <2>3 DEF None
  <2> HIDE <1>1, <1>2, <1>3, <1>4
  <2> QED  BY ONLY <2>4, <2>5, <2>6, <2>7, <2>8, Zenon DEF Sums
<1>8. Called
  BY <1>3 DEF Called, Delegates
<1>9. Announced
  <2> SUFFICES ASSUME NEW s \in Searches PROVE told[s] + Cardinality(Tellers(s)) <= Ends(s)
    BY DEF Announced
  <2>1. Tellers(s) = {}
    BY <1>3 DEF Tellers
  <2>2. Cardinality(Tellers(s)) = 0
    BY <2>1, FS_EmptySet
  <2> QED  BY <1>1, <1>4, <2>2 DEF Ends, None
<1> QED  BY <1>6, <1>7, <1>8, <1>9 DEF SearchInv

LEMMA SearchStays ==
  ASSUME SearchInv, UNCHANGED searchVars
  PROVE  SearchInv'
<1>1. UNCHANGED <<search, rounds, at, told, exits>>
  BY DEF searchVars
<1>2. (SearchTypes /\ AddedUp)'
  BY <1>1 DEF SearchInv, SearchTypes, AddedUp
<1>3. Called'
  BY <1>1 DEF SearchInv, Called, Delegates
<1>4. Announced'
  BY <1>1 DEF SearchInv, Announced, Tellers, Ends
<1> QED  BY <1>2, <1>3, <1>4 DEF SearchInv

LEMMA SearchStep ==
  ASSUME SearchInv, SearchNext
  PROVE  SearchInv'
<1>1. CASE \E c \in Callers : CallerStep(c) \/ \E s \in Searches : Advance(c, s)
  BY <1>1, CallerStepStep
<1>2. CASE (\E c \in Callers : Start(c)) \/ (\E s \in Searches : Stop(s))
  BY <1>2, StartStopStep
<1>3. CASE \E s \in Searches, n \in Rounds : RunStarts(s, n) \/ RunEnds(s, n)
  BY <1>3, RunStep
<1>4. CASE \E p \in MayExit : Exit(p)
  BY <1>4, ExitStep
<1>5. CASE Flip /\ UNCHANGED searchVars
  BY <1>5, SearchStays
<1> QED  BY <1>1, <1>2, <1>3, <1>4, <1>5 DEF SearchNext, Drive

-----------------------------------------------------------------------------
(* What the search promises.                                               *)

LEMMA SearchTypesAreOK ==
  ASSUME SearchInv
  PROVE  SearchTypeOK
BY DEF SearchInv, SearchTypes, SearchTypeOK

\* The largest of some numbers, where one is.
LEMMA LargestIs ==
  ASSUME NEW S \in SUBSET Int, NEW n \in S, \A m \in S : m <= n
  PROVE  Max(S) = n
<1>1. \A m \in S : n >= m
  OBVIOUS
<1>2. Max(S) \in S /\ \A m \in S : Max(S) >= m
  BY <1>1 DEF Max
<1>3. Max(S) \in Int /\ n \in Int /\ Max(S) >= n /\ n >= Max(S)
  BY <1>1, <1>2
<1> QED  BY <1>3

LEMMA SearchesAreSound ==
  ASSUME SearchInv
  PROVE  SearchIsSound
<1> USE DEF SearchInv
<1>1. SearchAddsUp
  <2> SUFFICES ASSUME NEW s \in Searches
               PROVE  /\ search[s].done = Cardinality(Completed(rounds[s])) /\ search[s].done <= Limits[s]
                      /\ search[s].best = LastTop(rounds[s])
                      /\ Cardinality(OpenRounds(s)) <= 1
                      /\ search[s].status = "failed" =>
                           LastTwoFailed(rounds[s]) \/ Len(rounds[s]) = Attempts(s)
    BY DEF SearchAddsUp
  <2>1. Sums(s, search[s], rounds[s])
    BY DEF AddedUp
  <2>2. DOMAIN rounds[s] = 1 .. Len(rounds[s]) /\ Len(rounds[s]) \in Nat
    BY OpenRoundIs
  <2>3. search[s].best = LastTop(rounds[s])
    <3>1. CASE Topped(rounds[s]) = {}
      BY <2>1, <3>1 DEF Sums, Led, LastTop
    <3>2. CASE Topped(rounds[s]) # {}
      <4>1. Topped(rounds[s]) \in SUBSET Int
        BY <2>2 DEF Topped, Completed
      <4>2. PICK n \in Topped(rounds[s]) :
              search[s].best = rounds[s][n].top /\ \A m \in Topped(rounds[s]) : m <= n
        BY <2>1, <3>2 DEF Sums, Led
      <4>3. Max(Topped(rounds[s])) = n
        BY <4>1, <4>2, LargestIs
      <4> QED  BY <3>2, <4>2, <4>3 DEF LastTop
    <3> QED  BY <3>1, <3>2
  <2>4. Cardinality(OpenRounds(s)) <= 1
    <3>1. OpenRounds(s) \in SUBSET {Len(rounds[s])}
      BY <2>1 DEF OpenRounds, Sums
    <3>2. IsFiniteSet({Len(rounds[s])}) /\ Cardinality({Len(rounds[s])}) = 1
      BY FS_Singleton
    <3>3. Cardinality(OpenRounds(s)) <= Cardinality({Len(rounds[s])})
      BY <3>1, <3>2, FS_Subset
    <3> QED  BY <3>2, <3>3
  <2> QED  BY <2>1, <2>3, <2>4 DEF Sums
<1>2. ToldOnce
  BY DEF Announced, Tellers, Ends, ToldOnce
<1> QED  BY <1>1, <1>2 DEF SearchIsSound

\* A search that is over is left as it is.
LEMMA OverStep ==
  ASSUME SearchInv, SearchNext, NEW s \in Searches, Over(s)
  PROVE  search'[s] = search[s] /\ Len(rounds'[s]) = Len(rounds[s])
<1> USE DEF SearchInv
<1>1. search \in [Searches -> Search] /\ rounds \in [Searches -> Seq(Round)]
  BY DEF SearchTypes
<1>2. ~Running(s) /\ search[s].status # None
  BY DEF Over, Running, None
<1>3. SUFFICES search'[s] = search[s] /\ DOMAIN rounds'[s] = DOMAIN rounds[s]
  <2>1. SearchInv'
    BY SearchStep
  <2>2. rounds'[s] \in Seq(Round)
    BY <2>1 DEF SearchTypes
  <2>3. /\ DOMAIN rounds'[s] = 1 .. Len(rounds'[s]) /\ Len(rounds'[s]) \in Nat
        /\ DOMAIN rounds[s] = 1 .. Len(rounds[s]) /\ Len(rounds[s]) \in Nat
    BY <1>1, <2>2, LenProperties
  <2>4. \A i, j \in Nat : 1 .. i = 1 .. j => i = j
    <3> SUFFICES ASSUME NEW i \in Nat, NEW j \in Nat, 1 .. i = 1 .. j, i # j PROVE FALSE
      OBVIOUS
    <3>1. i \in 1 .. i <=> i \in 1 .. j
      OBVIOUS
    <3>2. j \in 1 .. j <=> j \in 1 .. i
      OBVIOUS
    <3> QED  BY <3>1, <3>2
  <2>5. 1 .. Len(rounds'[s]) = 1 .. Len(rounds[s])
    BY <1>3, <2>3
  <2> QED  BY <1>3, <2>3, <2>4, <2>5
<1>4. ASSUME NEW c \in Callers, Step(c) PROVE search'[s] = search[s] /\ DOMAIN rounds'[s] = DOMAIN rounds[s]
  <2> DEFINE t == at[c].s
             n == OpenRound(t)
  <2>1. CASE UNCHANGED search /\ (UNCHANGED rounds \/ rounds' = [rounds EXCEPT ![t][n].status = "abandoned"])
    BY <1>1, <2>1
  <2>2. CASE ~ (UNCHANGED search /\ (UNCHANGED rounds \/ rounds' = [rounds EXCEPT ![t][n].status = "abandoned"]))
    <3>1. /\ Running(t)
          /\ \/ Outcome(c, t, search[t], rounds[t])
             \/ \E r \in Reports : TakeIn(c, t, n, r)
             \/ Fail(c, t, n)
      BY <1>4, <2>2 DEF Step, StillRuns
    <3>2. \E row, rs : Outcome(c, t, row, rs)
      BY <3>1 DEF TakeIn, Fail
    <3>3. PICK w, ss : search' = [search EXCEPT ![t] = w] /\ rounds' = [rounds EXCEPT ![t] = ss]
      BY <3>2 DEF Outcome
    <3>4. t # s
      BY <1>2, <3>1
    <3> HIDE DEF t
    <3>5. search'[s] = search[s]
      BY <1>1, <3>3, <3>4
    <3>6. rounds'[s] = rounds[s]
      BY <1>1, <3>3, <3>4
    <3> QED  BY <3>5, <3>6
  <2> QED  BY <2>1, <2>2
<1>5. ASSUME NEW c \in Callers, CallerStep(c), ~Step(c)
      PROVE  search'[s] = search[s] /\ DOMAIN rounds'[s] = DOMAIN rounds[s]
  <2>1. UNCHANGED search
    BY <1>5 DEF CallerStep, ReadSwitches, Delegate, Attach, Abandon, Restart, Tell
  <2>2. CASE ReadSwitches(c) \/ Delegate(c) \/ Tell(c)
    BY <2>1, <2>2 DEF ReadSwitches, Delegate, Tell
  <2>3. CASE Attach(c)
    <3>1. PICK t, n, v : rounds' = [rounds EXCEPT ![t][n].work = v]
      BY <2>3 DEF Attach
    <3> QED  BY <1>1, <2>1, <3>1
  <2>4. CASE Abandon(c)
    <3>1. PICK t, n, v : rounds' = [rounds EXCEPT ![t][n].status = v]
      BY <2>4 DEF Abandon
    <3> QED  BY <1>1, <2>1, <3>1
  <2>5. CASE Restart(c)
    <3>1. CASE UNCHANGED rounds
      BY <2>1, <3>1
    <3>2. CASE ~ UNCHANGED rounds
      <4>1. PICK t, n, v : rounds' = [rounds EXCEPT ![t][n].work.by = v]
        BY <2>5, <3>2 DEF Restart
      <4> QED  BY <1>1, <2>1, <4>1
    <3> QED  BY <3>1, <3>2
  <2> QED  BY <1>5, <2>2, <2>3, <2>4, <2>5 DEF CallerStep
<1>6. CASE \E c \in Callers : Start(c)
  <2>1. UNCHANGED rounds /\ search' = [search EXCEPT ![NextSearch].status = "running"] /\ Free # {}
    BY <1>6 DEF Start, MayStart
  <2>2. NextSearch # s
    BY <1>2, <2>1, NextSearchIs
  <2> QED  BY <1>1, <2>1, <2>2
<1>7. CASE \E t \in Searches : Stop(t)
  <2>1. PICK t \in Searches : Running(t) /\ UNCHANGED rounds /\ search' = [search EXCEPT ![t].status = "stopped"]
    BY <1>7 DEF Stop
  <2> QED  BY <1>1, <1>2, <2>1
<1>8. CASE \E t \in Searches, n \in Rounds : RunStarts(t, n) \/ RunEnds(t, n)
  <2>1. UNCHANGED search /\ \E t, n, v : rounds' = [rounds EXCEPT ![t][n].work = v]
    BY <1>8 DEF RunStarts, RunEnds
  <2> QED  BY <1>1, <2>1
<1>9. CASE \E p \in MayExit : Exit(p)
  BY <1>9 DEF Exit
<1>10. CASE UNCHANGED <<search, rounds>>
  BY <1>10
<1>11. \A c \in Callers, t \in Searches : Advance(c, t) => UNCHANGED <<search, rounds>>
  BY DEF Advance
<1> QED  BY <1>4, <1>5, <1>6, <1>7, <1>8, <1>9, <1>10, <1>11 DEF SearchNext, Drive, searchVars

\* A product search starts with the switches as they are, whatever they are.
SearchSpec == SearchInit /\ [][SearchNext]_<<searchVars, switches>>

\* Whatever callers advance it and whatever processes stop, a search counts each
\* round it took in once and within its limit, leads with the last idea it was
\* given, has one round open at most, fails for a reason, and its end is told by
\* one caller at most (advance, _take_in_round, _fail_round, _finish).
THEOREM SearchSound == SearchSpec => [](SearchTypeOK /\ SearchIsSound)
<1>1. SearchInit => SearchInv
  BY SearchStart
<1>2. SearchInv /\ [SearchNext]_<<searchVars, switches>> => SearchInv'
  BY SearchStep, SearchStays
<1>3. SearchInv => SearchTypeOK /\ SearchIsSound
  BY SearchTypesAreOK, SearchesAreSound
<1> QED  BY <1>1, <1>2, <1>3, PTL DEF SearchSpec

\* No caller that comes late counts a report into a search that is over, changes
\* its idea or claims a round of it (_step reads the row again).
THEOREM SearchOverStays == SearchSpec => OverStays
<1>1. SearchInit => SearchInv
  BY SearchStart
<1>2. SearchInv /\ [SearchNext]_<<searchVars, switches>> => SearchInv'
  BY SearchStep, SearchStays
<1>3. SearchInv /\ [SearchNext]_<<searchVars, switches>> =>
        [\A s \in Searches :
           Over(s) => search'[s] = search[s] /\ Len(rounds'[s]) = Len(rounds[s])]_<<search, rounds>>
  BY OverStep DEF searchVars
<1> QED  BY <1>1, <1>2, <1>3, PTL DEF SearchSpec, OverStays
=============================================================================
