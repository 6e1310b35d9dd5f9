---------------------------- MODULE ServicesProofs ----------------------------
(***************************************************************************)
(* Theorems about services that have no module of proofs of their own, for *)
(* every value of their constants: the rotation of VerifyRate, the         *)
(* decisions of Canon, the pages of ParsePipeline, the marks of            *)
(* TableSources, the watermarks of SyncTables, the queue of Repair.        *)
(***************************************************************************)
EXTENDS VerifyRate, Canon, ParsePipeline, TableSources, SyncTables, Repair,
        FiniteSetTheorems, SequenceTheorems, WellFoundedInduction, TLAPS

-----------------------------------------------------------------------------
(* Finite sets                                                             *)

\* In a finite set that a transitive relation orders, nothing comes after some
\* element.
LEMMA HasLast ==
    ASSUME NEW S, IsFiniteSet(S), S # {},
           NEW R, \A a, b, c \in S : <<a, b>> \in R /\ <<b, c>> \in R => <<a, c>> \in R,
           \A a \in S : <<a, a>> \notin R
    PROVE  \E t \in S : \A u \in S : <<t, u>> \notin R
<1> DEFINE After(t) == {u \in S : <<t, u>> \in R}
           T == {After(t) : t \in S}
<1>1. IsWellFoundedOn(StrictSubsetOrdering(S), SUBSET S)
  BY FS_FiniteSubsetsOfFinite, FS_StrictSubsetOrderingWellFounded
<1>2. T \subseteq SUBSET S /\ T # {}
  <2>1. \A t \in S : After(t) \in T /\ After(t) \in SUBSET S
    OBVIOUS
  <2>2. \A V \in T : V \in SUBSET S
    OBVIOUS
  <2> HIDE DEF After, T
  <2>3. QED
    BY <2>1, <2>2
<1>3. PICK U \in T : \A V \in T : ~ (<<V, U>> \in StrictSubsetOrdering(S))
  <2> HIDE DEF T
  <2>1. QED
    BY <1>1, <1>2, WFMin
<1>4. PICK t \in S : U = After(t)
  OBVIOUS
<1>5. ASSUME NEW u \in S, <<t, u>> \in R
      PROVE  FALSE
  <2>1. After(u) \in T /\ After(u) \subseteq S /\ After(t) \subseteq S
    OBVIOUS
  <2>2. After(u) \subseteq After(t)
    BY <1>5
  <2>3. u \in After(t) /\ u \notin After(u)
    BY <1>5
  <2> HIDE DEF T, After
  <2>4. <<After(u), After(t)>> \in StrictSubsetOrdering(S)
    BY <2>1, <2>2, <2>3 DEF StrictSubsetOrdering
  <2>5. QED
    BY <1>3, <1>4, <2>1, <2>4
<1>6. QED
  BY <1>5

\* A finite set of numbers has a largest and a smallest one.
LEMMA Extremes ==
    ASSUME NEW S \in SUBSET Int, IsFiniteSet(S), S # {}
    PROVE  /\ Max(S) \in S /\ \A x \in S : Max(S) >= x
           /\ Min(S) \in S /\ \A x \in S : Min(S) <= x
<1> DEFINE Up == {x \in S \X S : x[1] < x[2]}
           Down == {x \in S \X S : x[1] > x[2]}
<1>1. \A a, b \in S : (<<a, b>> \in Up <=> a < b) /\ (<<a, b>> \in Down <=> a > b)
  OBVIOUS
<1> HIDE DEF Up, Down
<1>2. /\ \A a, b, c \in S : <<a, b>> \in Up /\ <<b, c>> \in Up => <<a, c>> \in Up
      /\ \A a \in S : <<a, a>> \notin Up
  BY <1>1
<1>3. /\ \A a, b, c \in S : <<a, b>> \in Down /\ <<b, c>> \in Down => <<a, c>> \in Down
      /\ \A a \in S : <<a, a>> \notin Down
  BY <1>1
<1>4. \E t \in S : \A u \in S : <<t, u>> \notin Up
  BY <1>2, HasLast
<1>5. \E t \in S : \A u \in S : <<t, u>> \notin Down
  BY <1>3, HasLast
<1>6. \E t \in S : \A u \in S : t >= u
  <2>1. PICK t \in S : \A u \in S : <<t, u>> \notin Up
    BY <1>4
  <2>2. \A u \in S : ~(t < u)
    BY <1>1, <2>1
  <2>3. QED
    BY <2>2
<1>7. \E t \in S : \A u \in S : t <= u
  <2>1. PICK t \in S : \A u \in S : <<t, u>> \notin Down
    BY <1>5
  <2>2. \A u \in S : ~(t > u)
    BY <1>1, <2>1
  <2>3. QED
    BY <2>2
<1>8. QED
  BY <1>6, <1>7 DEF Max, Min

\* Of two numbers.
LEMMA OfTwo ==
    \A a, b \in Int : /\ Max({a, b}) = IF a >= b THEN a ELSE b
                      /\ Min({a, b}) = IF a <= b THEN a ELSE b
<1> SUFFICES ASSUME NEW a \in Int, NEW b \in Int
             PROVE  /\ Max({a, b}) = IF a >= b THEN a ELSE b
                    /\ Min({a, b}) = IF a <= b THEN a ELSE b
  OBVIOUS
<1>1. IsFiniteSet({a, b})
  <2>1. IsFiniteSet({a} \cup {b})
    BY FS_Singleton, FS_AddElement
  <2>2. QED
    BY <2>1
<1>2. Max({a, b}) \in {a, b} /\ \A x \in {a, b} : Max({a, b}) >= x
  BY <1>1, Extremes
<1>3. Min({a, b}) \in {a, b} /\ \A x \in {a, b} : Min({a, b}) <= x
  BY <1>1, Extremes
<1>4. QED
  BY <1>2, <1>3

\* The sum of what g gives for the elements of S.
AllLinks(g, S) == MapThenSumSet(LAMBDA r : g[r], S)

\* A sum of natural numbers is one, and none of them exceeds it.
LEMMA SumBounds ==
    ASSUME NEW S, IsFiniteSet(S), NEW g \in [S -> Nat]
    PROVE  AllLinks(g, S) \in Nat /\ \A r \in S : g[r] <= AllLinks(g, S)
<1> DEFINE Pick(s) == CHOOSE x \in s : TRUE
           Rec(f, s) == IF s = {} THEN 0 ELSE g[Pick(s)] + f[s \ {Pick(s)}]
           F(f) == [s \in SUBSET S |-> IF s = {} THEN 0 ELSE g[Pick(s)] + f[s \ {Pick(s)}]]
           N == Cardinality(S)
           D(n) == {s \in SUBSET S : Cardinality(s) <= n}
           Adds(f, n) == f \in [D(n) -> Nat] /\ \A s \in D(n) : f[s] = Rec(f, s)
<1>1. N \in Nat
  BY FS_CardinalityType
<1>2. \A s \in SUBSET S : /\ Cardinality(s) \in 0..N
                          /\ s # {} => /\ Pick(s) \in s /\ s \ {Pick(s)} \in SUBSET S
                                       /\ Cardinality(s) > 0
                                       /\ Cardinality(s \ {Pick(s)}) = Cardinality(s) - 1
  <2> TAKE s \in SUBSET S
  <2>1. IsFiniteSet(s) /\ Cardinality(s) \in Nat /\ Cardinality(s) <= N
    BY FS_Subset, FS_CardinalityType
  <2>2. ASSUME s # {}
        PROVE  /\ Pick(s) \in s /\ s \ {Pick(s)} \in SUBSET S /\ Cardinality(s) > 0
               /\ Cardinality(s \ {Pick(s)}) = Cardinality(s) - 1
    <3>1. Pick(s) \in s
      BY <2>2
    <3>2. Cardinality(s) # 0
      BY <2>1, <2>2, FS_EmptySet
    <3> HIDE DEF Pick
    <3>3. Cardinality(s \ {Pick(s)}) = Cardinality(s) - 1
      BY <2>1, <3>1, FS_RemoveElement
    <3>4. QED
      BY <2>1, <3>1, <3>2, <3>3
  <2>3. QED
    BY <1>1, <2>1, <2>2
<1> HIDE DEF Pick, N
<1>2a. \A n : \A s : s \in D(n) <=> s \in SUBSET S /\ Cardinality(s) <= n
  OBVIOUS
<1>2b. IsFiniteSet(0..N) /\ 0..N \in SUBSET Int
  BY <1>1, FS_Interval
<1>2c. \A B : B \subseteq 0..N /\ B # {} => \E n \in B : \A m \in B : n <= m
  <2> TAKE B
  <2> HAVE B \subseteq 0..N /\ B # {}
  <2>1. B \in SUBSET Int /\ IsFiniteSet(B)
    BY <1>2b, FS_Subset
  <2>2. QED
    BY <2>1, Extremes
<1> HIDE DEF D
\* There is such a function: take the first number of elements for which there is none.
<1>3. \A n \in 0..N : \E f : Adds(f, n)
  <2> DEFINE Bad == {n \in 0..N : ~ \E f : Adds(f, n)}
  <2> SUFFICES ASSUME Bad # {} PROVE FALSE
    OBVIOUS
  <2>1. \A n : n \in Bad <=> n \in 0..N /\ ~ \E f : Adds(f, n)
    OBVIOUS
  <2> HIDE DEF Bad
  <2>2. PICK n \in Bad : \A m \in Bad : n <= m
    BY <1>2c, <2>1
  <2>3. n \in 0..N /\ ~ \E f : Adds(f, n)
    BY <2>1
  <2>4. n # 0
    <3> SUFFICES ASSUME n = 0 PROVE FALSE
      OBVIOUS
    <3>1. \A s \in D(0) : s = {}
      <4> SUFFICES ASSUME NEW s \in D(0), s # {} PROVE FALSE
        OBVIOUS
      <4>1. s \in SUBSET S /\ Cardinality(s) <= 0
        BY <1>2a
      <4>2. Cardinality(s) \in 0..N /\ Cardinality(s) > 0
        BY <1>2, <4>1
      <4>3. QED
        BY <1>1, <4>1, <4>2
    <3>2. Adds([s \in D(0) |-> 0], 0)
      BY <3>1
    <3>3. QED
      BY <2>3, <3>2
  <2>5. n - 1 \in 0..N /\ ~(n <= n - 1)
    <3> HIDE DEF Adds
    <3> QED
      BY <1>1, <2>3, <2>4
  <2>6. PICK f : Adds(f, n - 1)
    <3> HIDE DEF Adds
    <3> QED
      BY <2>1, <2>2, <2>5
  <2> DEFINE h == [s \in D(n) |-> Rec(f, s)]
  <2>7. ASSUME NEW s \in D(n), s # {}
        PROVE  s \ {Pick(s)} \in D(n - 1) /\ s \ {Pick(s)} \in D(n) /\ Pick(s) \in S
    <3> HIDE DEF Adds
    <3>1. s \in SUBSET S /\ Cardinality(s) <= n
      BY <1>2a
    <3>2. /\ Pick(s) \in s /\ s \ {Pick(s)} \in SUBSET S /\ Cardinality(s) \in 0..N
          /\ Cardinality(s \ {Pick(s)}) = Cardinality(s) - 1
      BY <1>2, <2>7, <3>1
    <3>3. Cardinality(s \ {Pick(s)}) <= n - 1 /\ Cardinality(s \ {Pick(s)}) <= n
      BY <1>1, <2>3, <3>1, <3>2
    <3>4. QED
      BY <1>2a, <3>1, <3>2, <3>3
  <2>8. \A s \in D(n - 1) : s \in D(n)
    <3> SUFFICES ASSUME NEW s \in D(n - 1) PROVE s \in D(n)
      OBVIOUS
    <3> HIDE DEF Adds
    <3>1. s \in SUBSET S /\ Cardinality(s) <= n - 1
      BY <1>2a
    <3>2. Cardinality(s) \in 0..N
      BY <1>2, <3>1
    <3>3. Cardinality(s) <= n
      BY <1>1, <2>3, <3>1, <3>2
    <3>4. QED
      BY <1>2a, <3>1, <3>3
  <2>9. \A s \in D(n - 1) : f[s] \in Nat /\ f[s] = Rec(f, s)
    BY <2>6
  <2>10. h \in [D(n) -> Nat]
    <3> SUFFICES ASSUME NEW s \in D(n) PROVE Rec(f, s) \in Nat
      OBVIOUS
    <3>1. CASE s = {}
      BY <3>1
    <3>2. CASE s # {}
      <4>1. g[Pick(s)] \in Nat /\ f[s \ {Pick(s)}] \in Nat
        BY <2>7, <2>9, <3>2
      <4>2. QED
        BY <3>2, <4>1
    <3>3. QED
      BY <3>1, <3>2
  <2>11. \A s \in D(n - 1) : h[s] = f[s]
    BY <2>8, <2>9
  <2>12. \A s \in D(n) : h[s] = Rec(h, s)
    BY <2>7, <2>11
  <2>13. Adds(h, n)
    BY <2>10, <2>12
  <2>14. QED
    BY <2>3, <2>13
<1>4. \E f : f = F(f)
  <2>1. PICK f : Adds(f, N)
    <3>1. N \in 0..N
      BY <1>1
    <3>2. QED
      BY <1>3, <3>1
  <2>2. D(N) = SUBSET S
    <3>1. ASSUME NEW s \in SUBSET S PROVE Cardinality(s) <= N
      <4> HIDE DEF Adds, F
      <4>1. Cardinality(s) \in 0..N
        BY <1>2
      <4>2. QED
        BY <1>1, <4>1
    <3>2. QED
      BY <1>2a, <3>1
  <2>3. f = F(f)
    BY <2>1, <2>2
  <2>4. QED
    BY <2>3
<1> DEFINE sum == CHOOSE f : f = F(f)
<1>5. AllLinks(g, S) = sum[S]
  BY Zenon DEF AllLinks, MapThenSumSet, MapThenFoldSet, Pick
<1>6. sum = F(sum)
  <2> HIDE DEF F
  <2>1. QED
    BY <1>4, Zenon
<1>7. \A s \in SUBSET S : sum[s] = Rec(sum, s)
  BY <1>6
<1> HIDE DEF sum
\* Nor is there a first number of elements for which the sums are not as they should be.
<1> DEFINE Fine(s) == sum[s] \in Nat /\ \A r \in s : g[r] <= sum[s]
<1>8. \A s \in SUBSET S : Fine(s)
  <2> DEFINE Bad == {Cardinality(s) : s \in {s \in SUBSET S : ~Fine(s)}}
  <2> SUFFICES ASSUME Bad # {} PROVE FALSE
    OBVIOUS
  <2>1. Bad \subseteq 0..N
    BY <1>2
  <2>2. PICK n \in Bad : \A m \in Bad : n <= m
    <3> HIDE DEF Bad
    <3> QED
      BY <1>2c, <2>1
  <2>3. PICK s \in SUBSET S : ~Fine(s) /\ n = Cardinality(s)
    OBVIOUS
  <2>4. s # {}
    BY <1>7, <2>3
  <2>5. Pick(s) \in s /\ s \ {Pick(s)} \in SUBSET S /\ Cardinality(s \ {Pick(s)}) = Cardinality(s) - 1
        /\ Cardinality(s) \in Nat
    BY <1>1, <1>2, <2>4
  <2>6. Fine(s \ {Pick(s)})
    <3> SUFFICES ASSUME ~Fine(s \ {Pick(s)}) PROVE FALSE
      OBVIOUS
    <3>1. Cardinality(s \ {Pick(s)}) \in Bad
      BY <2>5
    <3> HIDE DEF Bad, Fine
    <3>2. n <= Cardinality(s \ {Pick(s)})
      BY <2>2, <3>1
    <3>3. QED
      BY <2>3, <2>5, <3>2
  <2>7. sum[s] = g[Pick(s)] + sum[s \ {Pick(s)}]
    BY <1>7, <2>4
  <2>8. Fine(s)
    BY <2>5, <2>6, <2>7
  <2>9. QED
    BY <2>3, <2>8
<1>9. QED
  BY <1>5, <1>8

-----------------------------------------------------------------------------
(* VerifyRate                                                              *)

Supply == [buffer : Nat, rest : Nat, exhausted : BOOLEAN]

PageStages == {"call", "turn", "sleep", "take", "put", "ended"}

Producing == [stage : PageStages, turn : Providers, looked : 0..LastProvider, nap : 0..MaxAge,
              left : 0..VerifyLimit, item : Providers]

\* The types.  A call that goes on has some of its limit left.
Rotating ==
    /\ producer \in Producing
    /\ producer.stage \in {"turn", "sleep", "take"} => producer.left > 0
    /\ supply \in [Providers -> Supply]
    /\ served \in [Providers -> SUBSET Providers]
    /\ age \in [Providers -> 0..MaxAge]
    /\ stretch \in [Providers -> 1..MaxStretch]
    /\ budget \in 0..TimeBudget

\* Who is at hand when a token is to be taken has a link.
Stocked == producer.stage \in {"sleep", "take"} => supply[producer.turn].buffer > 0

\* How many turns it is from p to q.
Turns(p, q) == IF p <= q THEN q - p ELSE q - p + LastProvider

\* A provider that had no token since the last one of p has none of its links
\* left, or its turn comes before that of p.
InTurn ==
    \A p \in Providers : \A q \in Providers \ ({p} \cup served[p]) :
      \/ supply[q].exhausted /\ supply[q].buffer = 0
      \/ Turns(producer.turn, q) < Turns(producer.turn, p)

RotationInv == Rotating /\ Stocked /\ InTurn

\* The turn goes on by one, and from the last provider to the first.
LEMMA AdvancedTurn ==
    ASSUME producer.turn \in Providers
    PROVE  Advanced = IF producer.turn = LastProvider THEN 1 ELSE producer.turn + 1
<1>1. LastProvider \in Nat \ {0}
  BY VerifyRateAssumption
<1>2. QED
  BY <1>1 DEF Advanced, Providers

\* One turn on, every other provider is one turn nearer.
LEMMA TurnsAdvanced ==
    ASSUME producer.turn \in Providers, NEW q \in Providers
    PROVE  /\ Advanced \in Providers
           /\ q # producer.turn => Turns(Advanced, q) = Turns(producer.turn, q) - 1
           /\ q # producer.turn => Turns(producer.turn, q) \in 1..LastProvider - 1
           /\ Turns(producer.turn, producer.turn) = 0
           /\ Turns(Advanced, producer.turn) = LastProvider - 1
<1>1. LastProvider \in Nat \ {0}
  BY VerifyRateAssumption
<1>2. QED
  BY <1>1, AdvancedTurn DEF Turns, Providers

\* When the turn goes on, the order of two others stays, and the one that had
\* the turn comes last.
LEMMA TurnsStep ==
    ASSUME producer.turn \in Providers, NEW q \in Providers, NEW r \in Providers \ {q, producer.turn},
           q # producer.turn => Turns(producer.turn, r) < Turns(producer.turn, q)
    PROVE  Turns(Advanced, r) < Turns(Advanced, q)
<1>1. LastProvider \in Nat \ {0}
  BY VerifyRateAssumption
<1>2. QED
  BY <1>1, AdvancedTurn DEF Turns, Providers

\* A page of links.
LEMMA PageTaken ==
    ASSUME NEW r \in Nat
    PROVE  LET n == Min({PageLinks, r}) IN n \in Nat /\ r - n \in Nat
<1>1. PageLinks \in Nat
  BY VerifyRateAssumption
<1>2. Min({PageLinks, r}) = IF PageLinks <= r THEN PageLinks ELSE r
  BY <1>1, OfTwo
<1>3. QED
  BY <1>1, <1>2

\* The longest interval.
LEMMA LongestInterval ==
    LET S == {BaseInterval[p] : p \in Providers}
    IN Max(S) \in Nat /\ \A p \in Providers : BaseInterval[p] <= Max(S)
<1> DEFINE S == {BaseInterval[p] : p \in Providers}
<1>1. IsFiniteSet(Providers) /\ 1 \in Providers
  BY FS_Interval, VerifyRateAssumption DEF Providers
<1>2. IsFiniteSet(S)
  <2> DEFINE f == [p \in Providers |-> BaseInterval[p]]
  <2>1. f \in Surjection(Providers, S)
    BY DEF Surjection
  <2>2. QED
    BY <1>1, <2>1, FS_Surjection
<1>3. S \in SUBSET Nat /\ S # {}
  BY <1>1, VerifyRateAssumption
<1>4. Max(S) \in S /\ \A x \in S : Max(S) >= x
  <2> HIDE DEF S
  <2>1. S \in SUBSET Int
    BY <1>3
  <2>2. QED
    BY <1>2, <1>3, <2>1, Extremes
<1>5. \A p \in Providers : BaseInterval[p] \in S /\ BaseInterval[p] \in Nat
  BY VerifyRateAssumption
<1> HIDE DEF S
<1>6. Max(S) \in Nat /\ \A p \in Providers : BaseInterval[p] <= Max(S)
  BY <1>3, <1>4, <1>5
<1>7. QED
  BY <1>6 DEF S

\* The longest age that is told apart.
LEMMA OldestAge == MaxAge \in Nat
<1>1. \A m, n \in Nat : 1 + m * n \in Nat
  OBVIOUS
<1>2. QED
  BY <1>1, LongestInterval, VerifyRateAssumption DEF MaxAge

LEMMA RotationInit == RateInit => RotationInv
<1> SUFFICES ASSUME RateInit PROVE RotationInv
  OBVIOUS
<1>1. 1 \in Providers /\ Backlog \in [Providers -> Nat]
  BY VerifyRateAssumption DEF Providers
<1>2. producer.turn = 1 /\ producer.item = 1 /\ producer.stage = "call"
  BY DEF RateInit
<1>3. supply \in [Providers -> Supply]
  <2>1. \A p \in Providers : [buffer |-> 0, rest |-> Backlog[p], exhausted |-> FALSE] \in Supply
    BY <1>1 DEF Supply
  <2>2. QED
    BY <2>1, Zenon DEF RateInit
<1>4. producer \in Producing
  BY <1>1, OldestAge, VerifyRateAssumption DEF RateInit, Producing, PageStages
<1>5. /\ age \in [Providers -> 0..MaxAge]
      /\ stretch \in [Providers -> 1..MaxStretch]
      /\ budget \in 0..TimeBudget
  BY OldestAge, VerifyRateAssumption DEF RateInit
<1>6. QED
  BY <1>1, <1>2, <1>3, <1>4, <1>5 DEF RateInit, RotationInv, Rotating, Stocked, InTurn

\* A provider that is out of links stays so, and as long as the turn stays where
\* it is, so does the order.
LEMMA SameTurn ==
    ASSUME RotationInv, UNCHANGED served, Rotating', Stocked',
           producer'.turn = producer.turn,
           \A q \in Providers : supply[q].exhausted /\ supply[q].buffer = 0
                                  => supply'[q].exhausted /\ supply'[q].buffer = 0
    PROVE  RotationInv'
BY DEF RotationInv, InTurn, Turns

LEMMA FetchLinksTurns ==
    ASSUME RotationInv, NEW p \in Providers, FetchLinks(p)
    PROVE  RotationInv'
<1> DEFINE n == Min({PageLinks, supply[p].rest})
<1>1. supply[p] \in Supply
  BY DEF RotationInv, Rotating
<1>2. supply[p].rest \in Nat
  BY <1>1 DEF Supply
<1>3. n \in Nat /\ supply[p].rest - n \in Nat
  BY <1>2, PageTaken
<1> HIDE DEF n
<1>4. supply' = [supply EXCEPT ![p] = [buffer |-> n, rest |-> @.rest - n, exhausted |-> n = 0]]
  BY DEF FetchLinks, n
<1>5. [buffer |-> n, rest |-> supply[p].rest - n, exhausted |-> n = 0] \in Supply
  BY <1>3 DEF Supply
<1>6. supply' \in [Providers -> Supply]
  BY <1>4, <1>5 DEF RotationInv, Rotating
<1>7. UNCHANGED <<producer, served, age, stretch, budget>>
  BY DEF FetchLinks
<1>8. producer.stage = "turn" /\ ~supply[p].exhausted
  BY DEF FetchLinks, Turn
<1>9. Rotating' /\ Stocked'
  BY <1>6, <1>7, <1>8 DEF RotationInv, Rotating, Stocked
<1>10. \A q \in Providers : q # p => supply'[q] = supply[q]
  BY <1>4 DEF RotationInv, Rotating
<1>11. QED
  BY <1>7, <1>8, <1>9, <1>10, SameTurn

LEMMA PassTurns ==
    ASSUME RotationInv, NEW p \in Providers, Pass(p)
    PROVE  RotationInv'
<1>1. p = producer.turn /\ producer.stage = "turn" /\ supply[p].exhausted /\ supply[p].buffer = 0
  BY DEF Pass, Turn, Current
<1>2. UNCHANGED <<supply, served, age, stretch, budget>>
  BY DEF Pass
<1>3. producer \in Producing
  BY DEF RotationInv, Rotating
<1>4. Advanced \in Providers
  BY <1>3, TurnsAdvanced DEF Producing
<1>5. /\ producer' \in Producing /\ producer'.turn = Advanced /\ producer'.left = producer.left
      /\ producer'.stage \in {"turn", "ended"}
  <2>1. producer.looked + 1 \in 0..LastProvider
    BY <1>3, VerifyRateAssumption DEF Producing, Pass, Turn
  <2>2. producer' = [producer EXCEPT !.turn = Advanced, !.looked = producer.looked + 1,
                       !.stage = IF producer.looked + 1 = LastProvider THEN "ended" ELSE producer.stage]
    BY <1>3, Zenon DEF Pass, Producing
  <2>3. QED
    BY <1>1, <1>3, <1>4, <2>1, <2>2 DEF Producing, PageStages
<1>6. Rotating' /\ Stocked'
  BY <1>1, <1>2, <1>5 DEF RotationInv, Rotating, Stocked
<1>7. ASSUME NEW q \in Providers, NEW r \in Providers \ ({q} \cup served'[q])
      PROVE  \/ supply'[r].exhausted /\ supply'[r].buffer = 0
             \/ Turns(producer'.turn, r) < Turns(producer'.turn, q)
  BY <1>1, <1>2, <1>3, <1>5, <1>7, TurnsStep DEF RotationInv, InTurn, Producing
<1>8. QED
  BY <1>6, <1>7 DEF RotationInv, InTurn

LEMMA TakeTokenTurns ==
    ASSUME RotationInv, NEW p \in Providers, TakeToken(p)
    PROVE  RotationInv'
<1>1. p = producer.turn /\ producer.stage = "take" /\ supply[p].buffer > 0
  BY DEF TakeToken, Current, RotationInv, Stocked
<1>2. producer \in Producing /\ supply \in [Providers -> Supply]
  BY DEF RotationInv, Rotating
<1>3. Advanced \in Providers
  BY <1>2, TurnsAdvanced DEF Producing
<1>4. producer' \in Producing /\ producer'.turn = Advanced /\ producer'.stage = "put"
  <2>1. producer.left - 1 \in 0..VerifyLimit
    BY <1>1, <1>2, VerifyRateAssumption DEF Producing, RotationInv, Rotating
  <2>2. producer' = [producer EXCEPT !.stage = "put", !.item = p, !.turn = Advanced,
                                     !.left = producer.left - 1]
    BY <1>2, Zenon DEF TakeToken, Producing
  <2>3. QED
    BY <1>2, <1>3, <2>1, <2>2 DEF Producing, PageStages
<1>5. supply' \in [Providers -> Supply] /\ \A q \in Providers : q # p => supply'[q] = supply[q]
  <2>1. supply[p] \in Supply /\ supply[p].buffer - 1 \in Nat
    BY <1>1, <1>2 DEF Supply
  <2>2. [supply[p] EXCEPT !.buffer = supply[p].buffer - 1] \in Supply
    BY <2>1 DEF Supply
  <2>3. supply' = [supply EXCEPT ![p] = [supply[p] EXCEPT !.buffer = supply[p].buffer - 1]]
    BY <1>2, <2>1, Zenon DEF TakeToken, Supply
  <2>4. QED
    BY <1>2, <2>2, <2>3
<1>6. served' = [q \in Providers |-> IF q = p THEN {} ELSE served[q] \cup {p}]
  BY DEF TakeToken
<1>7. age' \in [Providers -> 0..MaxAge] /\ UNCHANGED <<stretch, budget>>
  BY OldestAge DEF TakeToken, RotationInv, Rotating
<1>8. Rotating' /\ Stocked'
  BY <1>4, <1>5, <1>6, <1>7 DEF RotationInv, Rotating, Stocked
<1>9. ASSUME NEW q \in Providers, NEW r \in Providers \ ({q} \cup served'[q])
      PROVE  \/ supply'[r].exhausted /\ supply'[r].buffer = 0
             \/ Turns(producer'.turn, r) < Turns(producer'.turn, q)
  <2>1. CASE q = p
    <3>1. r # producer.turn
      BY <1>1, <1>9, <2>1
    <3>2. QED
      BY <1>1, <1>2, <1>4, <2>1, <3>1, TurnsStep DEF Producing
  <2>2. CASE q # p
    <3>1. r # p /\ r \notin served[q] \cup {q}
      BY <1>6, <1>9, <2>2
    <3>2. \/ supply'[r].exhausted /\ supply'[r].buffer = 0
          \/ Turns(producer.turn, r) < Turns(producer.turn, q)
      BY <1>5, <3>1 DEF RotationInv, InTurn
    <3>3. QED
      BY <1>1, <1>2, <1>4, <3>1, <3>2, TurnsStep DEF Producing
  <2>3. QED
    BY <2>1, <2>2
<1>10. QED
  BY <1>8, <1>9 DEF RotationInv, InTurn

\* The wait for a provider.
LEMMA WaitBounds ==
    ASSUME Rotating, NEW p \in Providers
    PROVE  /\ IntervalFor(p) \in Nat
           /\ IntervalFor(p) - age[p] <= MaxAge
<1> DEFINE S == {BaseInterval[q] : q \in Providers}
<1>1. /\ BaseInterval[p] \in Nat /\ stretch[p] \in 1..MaxStretch /\ MaxStretch \in Nat
      /\ age[p] \in 0..MaxAge /\ MaxAge \in Nat
  BY VerifyRateAssumption, OldestAge DEF Rotating
<1>2. Max(S) \in Nat /\ BaseInterval[p] <= Max(S)
  BY LongestInterval
<1>3. \A a, b, c, d \in Nat : a <= c /\ b <= d => a * b \in Nat /\ c * d \in Nat /\ a * b <= d * c
  <2>1. \A a, b, c \in Nat : a <= b => a * c <= b * c /\ a * c \in Nat /\ a * c = c * a
    OBVIOUS
  <2>2. ASSUME NEW a \in Nat, NEW b \in Nat, NEW c \in Nat, NEW d \in Nat, a <= c, b <= d
        PROVE  a * b \in Nat /\ c * d \in Nat /\ a * b <= d * c
    <3>1. a * b <= c * b /\ b * c <= d * c
      BY <2>1, <2>2
    <3>2. /\ c * b = b * c /\ d * c = c * d
          /\ a * b \in Nat /\ b * c \in Nat /\ c * d \in Nat
      BY <2>1
    <3>3. QED
      BY <3>1, <3>2
  <2>3. QED
    BY <2>2
<1>4. BaseInterval[p] * stretch[p] \in Nat /\ BaseInterval[p] * stretch[p] <= MaxStretch * Max(S)
  <2>1. stretch[p] \in Nat /\ stretch[p] <= MaxStretch
    BY <1>1
  <2>2. QED
    BY <1>1, <1>2, <1>3, <2>1
<1>5. MaxAge = 1 + MaxStretch * Max(S)
  BY DEF MaxAge
<1> HIDE DEF S
<1>6. IntervalFor(p) \in Nat /\ IntervalFor(p) <= MaxAge
  <2>1. MaxStretch * Max(S) \in Nat
    BY <1>1, <1>2, <1>3
  <2>2. QED
    BY <1>4, <1>5, <2>1 DEF IntervalFor
<1>7. QED
  BY <1>1, <1>6

LEMMA RotationNext == RotationInv /\ [RateNext]_rate => RotationInv'
<1> SUFFICES ASSUME RotationInv, [RateNext]_rate PROVE RotationInv'
  OBVIOUS
<1>1. /\ producer \in Producing
      /\ age \in [Providers -> 0..MaxAge] /\ stretch \in [Providers -> 1..MaxStretch]
      /\ budget \in 0..TimeBudget
  BY DEF RotationInv, Rotating
<1>2. ASSUME UNCHANGED <<supply, served>>, producer' \in Producing, producer'.turn = producer.turn,
             producer'.stage \in {"sleep", "take"} =>
               producer.stage \in {"sleep", "take"} \/ supply[producer.turn].buffer > 0,
             producer'.left = producer.left,
             producer'.stage \in {"turn", "sleep", "take"} => producer.left > 0,
             age' \in [Providers -> 0..MaxAge], stretch' \in [Providers -> 1..MaxStretch],
             budget' \in 0..TimeBudget
      PROVE  RotationInv'
  BY <1>2, SameTurn DEF RotationInv, Rotating, Stocked
<1>3. CASE BeginCall
  <2>1. \E stage \in {"ended", "turn"} : /\ producer' = [producer EXCEPT !.looked = 0, !.stage = stage]
                                         /\ stage = "turn" => producer.left # 0
    BY <1>3 DEF BeginCall
  <2>2. /\ producer' \in Producing /\ producer'.turn = producer.turn /\ producer'.left = producer.left
        /\ producer'.stage \in {"ended", "turn"}
        /\ producer'.stage = "turn" => producer.left > 0
    <3>1. 0 \in 0..LastProvider /\ producer.left \in 0..VerifyLimit
      BY <1>1, VerifyRateAssumption DEF Producing
    <3>2. producer.left # 0 => producer.left > 0
      BY <3>1
    <3>3. QED
      BY <1>1, <2>1, <3>1, <3>2 DEF Producing, PageStages
  <2>3. QED
    BY <1>1, <1>2, <1>3, <2>2 DEF BeginCall
<1>4. CASE Awake
  <2>1. producer' = [producer EXCEPT !.stage = "take"] /\ producer.stage = "sleep"
    BY <1>4 DEF Awake
  <2>2. producer' \in Producing /\ producer'.turn = producer.turn /\ producer'.left = producer.left
    BY <1>1, <2>1 DEF Producing, PageStages
  <2>3. QED
    BY <1>1, <1>2, <1>4, <2>1, <2>2 DEF Awake, RotationInv, Rotating
<1>5. CASE RateTick
  <2>1. Max({0, producer.nap - 1}) \in 0..MaxAge
    <3>1. producer.nap \in 0..MaxAge
      BY <1>1 DEF Producing
    <3>2. QED
      BY <3>1, OfTwo, OldestAge
  <2>2. producer' = [producer EXCEPT !.nap = Max({0, producer.nap - 1})]
    BY <1>1, <1>5, Zenon DEF RateTick, Producing
  <2>3. /\ producer' \in Producing /\ producer'.turn = producer.turn /\ producer'.stage = producer.stage
        /\ producer'.left = producer.left
    BY <1>1, <2>1, <2>2 DEF Producing
  <2>4. age' \in [Providers -> 0..MaxAge]
    <3>1. ASSUME NEW p \in Providers PROVE Min({MaxAge, age[p] + 1}) \in 0..MaxAge
      <4>1. age[p] \in 0..MaxAge
        BY <1>1
      <4>2. age[p] + 1 \in Int /\ MaxAge \in Int
        BY <4>1, OldestAge
      <4>3. Min({MaxAge, age[p] + 1}) = IF MaxAge <= age[p] + 1 THEN MaxAge ELSE age[p] + 1
        BY <4>2, OfTwo
      <4>4. QED
        BY <4>1, <4>3, OldestAge
    <3>2. QED
      BY <1>5, <3>1 DEF RateTick
  <2>5. budget' \in 0..TimeBudget /\ stretch' = stretch /\ UNCHANGED <<supply, served>>
    <3>1. TimeBudget \in Nat /\ budget - 1 \in Int
      BY <1>1, VerifyRateAssumption
    <3>2. Max({0, budget - 1}) = IF 0 >= budget - 1 THEN 0 ELSE budget - 1
      BY <3>1, OfTwo
    <3>3. QED
      BY <1>1, <1>5, <3>1, <3>2 DEF RateTick
  <2>6. QED
    BY <1>1, <1>2, <2>3, <2>4, <2>5 DEF RotationInv, Rotating
<1>6. ASSUME NEW p \in Providers, LookAtWait(p)
      PROVE  RotationInv'
  <2>1. p = producer.turn /\ supply[p].buffer > 0 /\ producer.stage = "turn"
    BY <1>6 DEF LookAtWait, Turn, Current
  <2> DEFINE wait == IntervalFor(p) - age[p]
  <2>2. wait \in Int /\ wait <= MaxAge
    BY <1>1, WaitBounds, OldestAge DEF RotationInv
  <2> HIDE DEF wait
  <2>3. \/ producer' = [producer EXCEPT !.stage = "take"]
        \/ producer' = [producer EXCEPT !.stage = "ended"]
        \/ wait > 0 /\ producer' = [producer EXCEPT !.stage = "sleep", !.nap = wait]
    BY <1>6, <2>2 DEF LookAtWait, wait
  <2>4. wait > 0 => wait \in 0..MaxAge
    BY <2>2, OldestAge
  <2>5. producer' \in Producing /\ producer'.turn = producer.turn /\ producer'.left = producer.left
    BY <1>1, <2>3, <2>4 DEF Producing, PageStages
  <2>6. QED
    BY <1>1, <1>2, <1>6, <2>1, <2>5 DEF LookAtWait, RotationInv, Rotating
<1>7. ASSUME NEW p \in Providers, TokenRefused(p) \/ PutLink(p)
      PROVE  RotationInv'
  <2>1. producer' = [producer EXCEPT !.stage = "call"]
    BY <1>7 DEF TokenRefused, PutLink
  <2>2. /\ producer' \in Producing /\ producer'.turn = producer.turn /\ producer'.stage = "call"
        /\ producer'.left = producer.left
    BY <1>1, <2>1 DEF Producing, PageStages
  <2>3. QED
    BY <1>1, <1>2, <1>7, <2>2 DEF TokenRefused, PutLink
<1>8. CASE UNCHANGED <<supply, served, producer, age, stretch, budget>>
  BY <1>1, <1>2, <1>8 DEF RotationInv, Rotating
<1>9. ASSUME NEW p \in Providers, Answer(p)
      PROVE  RotationInv'
  <2>1. PICK step \in {1, -1, 0} : stretch' = Scaled(p, step)
    BY <1>9 DEF Answer
  <2>2. Min({MaxStretch, Max({1, stretch[p] + step})}) \in 1..MaxStretch
    <3>1. MaxStretch \in Nat \ {0} /\ stretch[p] + step \in Int
      BY <1>1, VerifyRateAssumption
    <3> DEFINE m == Max({1, stretch[p] + step})
    <3>2. m = IF 1 >= stretch[p] + step THEN 1 ELSE stretch[p] + step
      BY <3>1, OfTwo
    <3> HIDE DEF m
    <3>3. m \in Int /\ MaxStretch \in Int /\ m >= 1
      BY <3>1, <3>2
    <3>4. Min({MaxStretch, m}) = IF MaxStretch <= m THEN MaxStretch ELSE m
      BY <3>3, OfTwo, Zenon
    <3>5. Min({MaxStretch, m}) \in 1..MaxStretch
      BY <3>1, <3>3, <3>4
    <3>6. QED
      BY <3>5 DEF m
  <2>3. stretch' \in [Providers -> 1..MaxStretch]
    BY <1>1, <2>1, <2>2 DEF Scaled
  <2>4. QED
    BY <1>1, <1>2, <1>9, <2>3 DEF Answer, RotationInv, Rotating
<1>10. ASSUME NEW p \in Providers, Probe(p)
       PROVE  RotationInv'
  BY <1>8, <1>10 DEF Probe
<1>11. QED
  BY <1>3, <1>4, <1>5, <1>6, <1>7, <1>8, <1>9, <1>10, FetchLinksTurns, PassTurns, TakeTokenTurns
  DEF RateNext, rate

\* Between two links of a provider every other one that has links at hand had its
\* turn, however the answers stretch intervals meanwhile, and no token is taken
\* before the interval in force has passed; for any number of providers, any
\* intervals and backlogs, and any limit, budget and number of threads.
THEOREM KeepsPace == RateSpec => Paced
<1>1. RotationInv /\ [RateNext]_rate =>
        [\A p \in Providers :
           supply'[p].buffer < supply[p].buffer =>
             /\ age[p] >= IntervalFor(p)
             /\ \A q \in Providers \ {p} : supply[q].buffer > 0 => q \in served[p]]_rate
  <2> SUFFICES ASSUME RotationInv, RateNext, NEW p \in Providers, supply'[p].buffer < supply[p].buffer
               PROVE  /\ age[p] >= IntervalFor(p)
                      /\ \A q \in Providers \ {p} : supply[q].buffer > 0 => q \in served[p]
    OBVIOUS
  <2>1. supply \in [Providers -> Supply]
    BY DEF RotationInv, Rotating
  <2>2. ASSUME NEW r \in Providers, FetchLinks(r) PROVE FALSE
    <3>1. supply[r].buffer = 0 /\ supply[r].rest \in Nat
      BY <2>1, <2>2 DEF FetchLinks, Supply
    <3> DEFINE n == Min({PageLinks, supply[r].rest})
    <3>2. n \in Nat
      BY <3>1, PageTaken
    <3> HIDE DEF n
    <3>3. supply' = [supply EXCEPT ![r] = [buffer |-> n, rest |-> supply[r].rest - n, exhausted |-> n = 0]]
      BY <2>1, <2>2 DEF FetchLinks, n
    <3>4. QED
      BY <2>1, <3>1, <3>2, <3>3 DEF Supply
  <2>3. PICK r \in Providers : TakeToken(r)
    <3>1. supply' # supply
      BY <2>1 DEF Supply
    <3>2. QED
      BY <2>2, <3>1 DEF RateNext, BeginCall, Awake, RateTick, Pass, LookAtWait, TokenRefused, PutLink, Probe, Answer
  <2>4. r = producer.turn /\ TokenReady(r)
    BY <2>3 DEF TakeToken, Current
  <2>5. p = r
    BY <2>1, <2>3 DEF TakeToken, Supply
  <2>6. ASSUME NEW q \in Providers \ {p}, supply[q].buffer > 0 PROVE q \in served[p]
    <3>1. producer.turn \in Providers
      BY DEF RotationInv, Rotating, Producing
    <3>2. ~(Turns(producer.turn, q) < Turns(producer.turn, producer.turn))
      BY <3>1, <2>4, <2>5, <2>6, TurnsAdvanced, VerifyRateAssumption DEF Providers
    <3>3. QED
      BY <2>4, <2>5, <2>6, <3>2 DEF RotationInv, InTurn
  <2>7. QED
    BY <2>4, <2>5, <2>6 DEF TokenReady
<1>2. QED
  BY <1>1, RotationInit, RotationNext, PTL DEF RateSpec, Paced

\* The queue and the threads have room for what is put there: the sum over all
\* providers is below the cap, and so is each of them.
Roomy ==
    /\ queued \in [Providers -> 0..QueueCap]
    /\ probing \in [Providers -> 0..ProbeThreads]

LEMMA RoomNext == Roomy /\ [RateNext]_rate => Roomy'
<1> SUFFICES ASSUME Roomy, [RateNext]_rate PROVE Roomy'
  OBVIOUS
<1>1. QueueCap \in Nat /\ ProbeThreads \in Nat
  BY VerifyRateAssumption
<1>2. \A c \in [Providers -> Nat] : \A p \in Providers : SumOf(c) \in Nat /\ c[p] <= SumOf(c)
  <2>1. IsFiniteSet(Providers)
    BY FS_Interval, VerifyRateAssumption DEF Providers
  <2>2. \A c : SumOf(c) = AllLinks(c, Providers)
    BY Zenon DEF SumOf, AllLinks
  <2>3. QED
    BY <2>1, <2>2, SumBounds
<1>3. queued \in [Providers -> Nat] /\ probing \in [Providers -> Nat]
  BY <1>1 DEF Roomy
<1>4. ASSUME NEW p \in Providers, PutLink(p) PROVE Roomy'
  <2>1. SumOf(queued) < QueueCap /\ queued' = [queued EXCEPT ![p] = @ + 1] /\ probing' = probing
    BY <1>4 DEF PutLink
  <2>2. SumOf(queued) \in Nat /\ queued[p] <= SumOf(queued) /\ queued[p] \in Nat
    BY <1>2, <1>3
  <2>3. queued[p] + 1 \in 0..QueueCap
    BY <1>1, <2>1, <2>2
  <2>4. QED
    BY <2>1, <2>3 DEF Roomy
<1>5. ASSUME NEW p \in Providers, Probe(p) PROVE Roomy'
  <2>1. /\ queued[p] > 0 /\ SumOf(probing) < ProbeThreads
        /\ queued' = [queued EXCEPT ![p] = @ - 1] /\ probing' = [probing EXCEPT ![p] = @ + 1]
    BY <1>5 DEF Probe
  <2>2. SumOf(probing) \in Nat /\ probing[p] <= SumOf(probing) /\ probing[p] \in Nat
    BY <1>2, <1>3
  <2>3. probing[p] + 1 \in 0..ProbeThreads /\ queued[p] - 1 \in 0..QueueCap
    <3>1. queued[p] \in 0..QueueCap
      BY DEF Roomy
    <3>2. QED
      BY <1>1, <2>1, <2>2, <3>1
  <2>4. QED
    BY <2>1, <2>3 DEF Roomy
<1>6. ASSUME NEW p \in Providers, Answer(p) PROVE Roomy'
  <2>1. probing[p] > 0 /\ probing' = [probing EXCEPT ![p] = @ - 1] /\ queued' = queued
    BY <1>6 DEF Answer
  <2>2. probing[p] - 1 \in 0..ProbeThreads
    <3>1. probing[p] \in 0..ProbeThreads
      BY DEF Roomy
    <3>2. QED
      BY <1>1, <2>1, <3>1
  <2>3. QED
    BY <2>1, <2>2 DEF Roomy
<1>7. CASE UNCHANGED <<queued, probing>>
  BY <1>7 DEF Roomy
<1>8. CASE BeginCall \/ Awake \/ RateTick
  <2>1. UNCHANGED <<queued, probing>>
    BY <1>8, Zenon DEF BeginCall, Awake, RateTick
  <2>2. QED
    BY <1>7, <2>1
<1>9. ASSUME NEW p \in Providers,
             FetchLinks(p) \/ Pass(p) \/ LookAtWait(p) \/ TakeToken(p) \/ TokenRefused(p)
      PROVE  Roomy'
  <2>1. UNCHANGED <<queued, probing>>
    BY <1>9, Zenon DEF FetchLinks, Pass, LookAtWait, TakeToken, TokenRefused
  <2>2. QED
    BY <1>7, <2>1
<1>10. CASE UNCHANGED rate
  BY <1>7, <1>10, Zenon DEF rate
<1>11. QED
  BY <1>4, <1>5, <1>6, <1>8, <1>9, <1>10, Zenon DEF RateNext

\* Whatever the threads answer, intervals stay between one and the highest factor, the
\* queue and the threads never hold more than their cap, and the limit of a call is
\* not exceeded (concurrent_runner.py:208-270, 326-416, runner.py:299-346).
THEOREM RateTypes == RateSpec => []RateTypeOK
<1>1. RateInit => RotationInv /\ Roomy
  <2>1. RateInit => Roomy
    BY VerifyRateAssumption DEF RateInit, Roomy
  <2>2. QED
    BY <2>1, RotationInit
<1>2. RotationInv /\ Roomy /\ [RateNext]_rate => (RotationInv /\ Roomy)'
  BY RotationNext, RoomNext
<1>3. RotationInv /\ Roomy => RateTypeOK
  BY DEF RotationInv, Rotating, Roomy, Producing, PageStages, RateTypeOK
<1>4. QED
  BY <1>1, <1>2, <1>3, PTL DEF RateSpec

-----------------------------------------------------------------------------
(* Canon                                                                   *)

Answers == [Keys -> Keys \cup {"none", "junk", "typed"}]

Resolving == [stage : {"idle", "scan", "calls", "store", "classify", "storeTyped"},
              done : SUBSET Keys, blocks : SUBSET [name : Blocks, keys : SUBSET Keys],
              singles : SUBSET Keys, flat : Answers, read : SUBSET Keys, tries : Nat]

Merging == [active : BOOLEAN, rows : SUBSET Entries, loaded : [Keys -> Undecided \cup Verdicts]]

Rebuilding == [active : BOOLEAN, keys : SUBSET Keys]

\* The types, and rows that are there have a decision, if only a pending one.
CanonTyped ==
    /\ verdict \in [Keys -> Undecided \cup Verdicts]
    /\ placed \in [Entries -> Keys \cup {"absent", "deleted"}]
    /\ resolve \in Resolving /\ merge \in Merging /\ rebuild \in Rebuilding

\* Rows are of keys that have a decision, if only a pending one; so are those that
\* `canon merge` found, and what it read was a work or junk.
RowsFiled ==
    /\ \A e \in Entries : placed[e] # "absent" => verdict[e[1]] # "none"
    /\ \A e \in merge.rows : placed[e] # "absent" /\ merge.loaded[e[1]] \in Keys \cup {"junk"}

\* Types alone are answers to the second question, and that is asked of keys that
\* have no work.
AskedLast ==
    /\ resolve.stage \in {"calls", "store"} => \A k \in Keys : resolve.flat[k] # "typed"
    /\ resolve.stage \in {"classify", "storeTyped"} =>
         \A k \in Keys : resolve.flat[k] # "none" => resolve.flat[k] \notin Keys /\ verdict[k] \notin Keys
    /\ resolve.stage \in {"idle", "scan"} => resolve.flat = NoResolve.flat
    /\ resolve.stage \notin {"idle", "scan"} => \A k \in resolve.singles : verdict[k] \notin Keys

CanonInv == CanonTyped /\ RowsFiled /\ AskedLast

\* A key is none of the marks.
LEMMA KeysAreNames ==
    ASSUME NEW k \in Keys
    PROVE  k \notin {"none", "pending", "junk", "typed", "absent", "deleted"}
BY CanonAssumption, Zenon

LEMMA KeyOfEntry == \A e \in Entries : e[1] \in Keys
BY CanonAssumption

LEMMA NobodyAsks == NoResolve \in Resolving /\ NoResolve.stage = "idle" /\ NoResolve.singles = {}
                    /\ NoResolve.flat = [k \in Keys |-> "none"]
BY DEF NoResolve, Resolving, Answers

LEMMA CanonFirst == CanonInit => CanonInv
<1> SUFFICES ASSUME CanonInit PROVE CanonInv
  OBVIOUS
<1>1. merge \in Merging /\ merge.rows = {}
  BY DEF CanonInit, NoMerge, Merging, Undecided
<1>2. rebuild \in Rebuilding
  BY DEF CanonInit, NoRebuild, Rebuilding
<1>3. resolve \in Resolving /\ resolve.stage = "idle" /\ resolve.flat = NoResolve.flat
  BY NobodyAsks, Zenon DEF CanonInit
<1>4. CanonTyped
  BY <1>1, <1>2, <1>3 DEF CanonInit, CanonTyped, Undecided
<1>5. RowsFiled
  BY <1>1 DEF CanonInit, RowsFiled
<1>6. AskedLast
  BY <1>3 DEF AskedLast
<1>7. QED
  BY <1>4, <1>5, <1>6 DEF CanonInv

\* A run that goes on with nothing answered, as long as decisions name no more
\* works.
LEMMA ParseEntryFiled ==
    ASSUME CanonInv, NEW e \in Entries, ParseEntry(e)
    PROVE  CanonInv'
<1> DEFINE k == e[1]
<1>1. k \in Keys
  BY KeyOfEntry
<1> HIDE DEF k
<1>2. PICK read \in {verdict[k], "pending"} :
        placed' = [placed EXCEPT ![e] = IF read \in Keys THEN read ELSE k]
  BY DEF ParseEntry, k
<1>3. verdict' = [verdict EXCEPT ![k] = IF verdict[k] = "none" THEN "pending" ELSE verdict[k]]
  BY <1>1, Zenon DEF ParseEntry, CanonInv, CanonTyped, k
<1>4. UNCHANGED <<resolve, merge, rebuild>> /\ placed[e] = "absent"
  BY DEF ParseEntry
<1>5. verdict \in [Keys -> Undecided \cup Verdicts] /\ placed \in [Entries -> Keys \cup {"absent", "deleted"}]
  BY DEF CanonInv, CanonTyped
<1>6. CanonTyped'
  BY <1>1, <1>2, <1>3, <1>4, <1>5 DEF CanonInv, CanonTyped, Undecided
<1>7. \A j \in Keys : /\ verdict[j] # "none" => verdict'[j] = verdict[j]
                      /\ verdict'[j] \in Keys <=> verdict[j] \in Keys
                      /\ verdict'[k] # "none"
  BY <1>1, <1>3, <1>5, KeysAreNames
<1>8. \A f \in Entries : f # e => placed'[f] = placed[f]
  BY <1>2, <1>5
<1>9. RowsFiled'
  <2>1. ASSUME NEW f \in Entries, placed'[f] # "absent" PROVE verdict'[f[1]] # "none"
    <3>1. f[1] \in Keys
      BY KeyOfEntry
    <3>2. CASE f = e
      BY <1>1, <1>7, <3>2 DEF k
    <3>3. CASE f # e
      BY <1>7, <1>8, <2>1, <3>1, <3>3, Zenon DEF CanonInv, RowsFiled
    <3>4. QED
      BY <3>2, <3>3
  <2>2. \A f \in merge.rows : f # e /\ f \in Entries
    BY <1>4 DEF CanonInv, RowsFiled, CanonTyped, Merging
  <2>3. QED
    BY <1>4, <1>8, <2>1, <2>2 DEF CanonInv, RowsFiled
<1>10. AskedLast'
  <2>1. resolve.singles \subseteq Keys
    BY DEF CanonInv, CanonTyped, Resolving
  <2>2. QED
    BY <1>4, <1>7, <2>1 DEF CanonInv, AskedLast
<1>11. QED
  BY <1>6, <1>9, <1>10 DEF CanonInv

\* A step that leaves decisions and rows as they are.
LEMMA Unfiled ==
    ASSUME CanonInv, UNCHANGED <<verdict, placed, merge, rebuild>>, resolve' \in Resolving, AskedLast'
    PROVE  CanonInv'
<1>1. CanonTyped'
  BY DEF CanonInv, CanonTyped
<1>2. RowsFiled'
  BY DEF CanonInv, RowsFiled
<1>3. QED
  BY <1>1, <1>2 DEF CanonInv

\* A step that leaves the run of `canon resolve` and the decisions as they are.
LEMMA Unresolved ==
    ASSUME CanonInv, UNCHANGED <<verdict, resolve>>, merge' \in Merging, rebuild' \in Rebuilding,
           placed' \in [Entries -> Keys \cup {"absent", "deleted"}],
           \A e \in Entries : placed'[e] # "absent" => placed[e] # "absent",
           \A e \in merge'.rows : placed'[e] # "absent" /\ merge'.loaded[e[1]] \in Keys \cup {"junk"}
    PROVE  CanonInv'
<1>1. CanonTyped'
  BY DEF CanonInv, CanonTyped
<1>2. RowsFiled'
  BY DEF CanonInv, RowsFiled
<1>3. AskedLast'
  BY DEF CanonInv, AskedLast
<1>4. QED
  BY <1>1, <1>2, <1>3 DEF CanonInv

\* A step of `canon resolve` that writes decisions, none of them away.
LEMMA Decides ==
    ASSUME CanonInv, UNCHANGED <<placed, merge, rebuild>>, resolve' \in Resolving, AskedLast',
           verdict' \in [Keys -> Undecided \cup Verdicts],
           \A k \in Keys : verdict[k] # "none" => verdict'[k] # "none"
    PROVE  CanonInv'
<1>1. CanonTyped'
  BY DEF CanonInv, CanonTyped
<1>2. RowsFiled'
  BY KeyOfEntry DEF CanonInv, RowsFiled
<1>3. QED
  BY <1>1, <1>2 DEF CanonInv

LEMMA SettleAsked ==
    ASSUME CanonInv, Settle
    PROVE  CanonInv'
<1>1. resolve' = [NoResolve EXCEPT !.stage = "scan"]
  BY DEF Settle
<1>2. resolve' \in Resolving /\ resolve'.stage = "scan" /\ resolve'.flat = NoResolve.flat
  BY <1>1, NobodyAsks DEF Resolving
<1>3. AskedLast'
  BY <1>2 DEF AskedLast, NoResolve
<1>4. verdict' = [k \in Keys |-> IF verdict[k] = "pending" /\ \E j \in Keys : verdict[j] = k
                                 THEN k ELSE verdict[k]]
  BY DEF Settle
<1>5. verdict' \in [Keys -> Undecided \cup Verdicts] /\ \A k \in Keys : verdict[k] # "none" => verdict'[k] # "none"
  BY <1>4, KeysAreNames DEF CanonInv, CanonTyped, Verdicts
<1>6. QED
  BY <1>2, <1>3, <1>5, Decides DEF Settle

LEMMA ScanAsked ==
    ASSUME CanonInv, ScanBlocks
    PROVE  CanonInv'
<1>1. resolve \in Resolving /\ resolve.stage = "scan" /\ verdict \in [Keys -> Undecided \cup Verdicts]
  BY DEF ScanBlocks, CanonInv, CanonTyped
<1>2. PICK sent \in SUBSET Blocks, asked \in SUBSET (Keys \ Decided) :
        resolve' = [resolve EXCEPT !.stage = "calls", !.done = Decided, !.singles = asked,
                      !.blocks = {[name |-> b, keys |-> KeysIn(b)] : b \in sent}]
  BY Zenon DEF ScanBlocks
<1>3. Decided \in SUBSET Keys /\ \A b : KeysIn(b) \in SUBSET Keys
  BY KeyOfEntry DEF Decided, KeysIn, Here
<1>4. {[name |-> b, keys |-> KeysIn(b)] : b \in sent} \in SUBSET [name : Blocks, keys : SUBSET Keys]
  BY <1>3
<1>5. /\ resolve' \in Resolving /\ resolve'.stage = "calls" /\ resolve'.singles = asked
      /\ resolve'.flat = resolve.flat
  <2> DEFINE B == {[name |-> b, keys |-> KeysIn(b)] : b \in sent}
  <2>1. resolve' = [resolve EXCEPT !.stage = "calls", !.done = Decided, !.singles = asked, !.blocks = B]
    BY <1>2
  <2>2. B \in SUBSET [name : Blocks, keys : SUBSET Keys]
    BY <1>4
  <2> HIDE DEF B
  <2>3. asked \in SUBSET Keys
    OBVIOUS
  <2>4. QED
    BY <1>1, <1>3, <2>1, <2>2, <2>3, Zenon DEF Resolving
<1>6. \A k \in asked : verdict[k] \notin Keys
  BY KeysAreNames DEF Decided, Undecided
<1>7. AskedLast'
  <2>1. \A k \in Keys : resolve.flat[k] # "typed"
    BY <1>1, NobodyAsks DEF CanonInv, AskedLast
  <2>2. UNCHANGED verdict
    BY DEF ScanBlocks
  <2>3. QED
    BY <1>5, <1>6, <2>1, <2>2 DEF AskedLast
<1>8. QED
  BY <1>5, <1>7, Unfiled DEF ScanBlocks

LEMMA CallAsked ==
    ASSUME CanonInv, CallBlock
    PROVE  CanonInv'
<1>1. resolve \in Resolving /\ resolve.stage = "calls" /\ UNCHANGED <<verdict, placed, merge, rebuild>>
  BY DEF CallBlock, CanonInv, CanonTyped
<1>2. PICK b \in resolve.blocks : \E answer \in [b.keys -> Keys \cup {"junk", "none"}] :
        \E surer \in SUBSET b.keys :
          resolve' = [resolve EXCEPT !.blocks = @ \ {b},
            !.flat = [k \in Keys |-> IF k \in b.keys /\ answer[k] # "none"
                                         /\ (k \in surer \/ resolve.flat[k] = "none")
                                     THEN answer[k] ELSE resolve.flat[k]]]
  BY DEF CallBlock
<1>3. PICK answer \in [b.keys -> Keys \cup {"junk", "none"}] : \E surer \in SUBSET b.keys :
          resolve' = [resolve EXCEPT !.blocks = @ \ {b},
            !.flat = [k \in Keys |-> IF k \in b.keys /\ answer[k] # "none"
                                         /\ (k \in surer \/ resolve.flat[k] = "none")
                                     THEN answer[k] ELSE resolve.flat[k]]]
  BY <1>2
<1>4. PICK surer \in SUBSET b.keys :
          resolve' = [resolve EXCEPT !.blocks = @ \ {b},
            !.flat = [k \in Keys |-> IF k \in b.keys /\ answer[k] # "none"
                                         /\ (k \in surer \/ resolve.flat[k] = "none")
                                     THEN answer[k] ELSE resolve.flat[k]]]
  BY <1>3
<1> DEFINE F == [k \in Keys |-> IF k \in b.keys /\ answer[k] # "none"
                                    /\ (k \in surer \/ resolve.flat[k] = "none")
                                THEN answer[k] ELSE resolve.flat[k]]
<1>5. resolve.flat \in Answers /\ resolve.blocks \in SUBSET [name : Blocks, keys : SUBSET Keys]
  BY <1>1, Zenon DEF Resolving
<1>6. \A k \in Keys : resolve.flat[k] # "typed"
  BY <1>1 DEF CanonInv, AskedLast
<1>7. F \in Answers /\ \A k \in Keys : F[k] # "typed"
  <2>1. \A k \in Keys : k \in b.keys => answer[k] \in Keys \cup {"junk", "none"}
    OBVIOUS
  <2>2. \A k \in Keys : resolve.flat[k] \in Keys \cup {"none", "junk", "typed"}
    BY <1>5 DEF Answers
  <2>3. \A k \in Keys : F[k] \in Keys \cup {"none", "junk", "typed"} /\ F[k] # "typed"
    BY <2>1, <2>2, <1>6, KeysAreNames
  <2>4. QED
    BY <2>3 DEF Answers
<1>8. resolve' = [resolve EXCEPT !.blocks = @ \ {b}, !.flat = F]
  BY <1>4
<1> HIDE DEF F
<1>9. /\ resolve' \in Resolving /\ resolve'.stage = "calls" /\ resolve'.singles = resolve.singles
      /\ resolve'.flat = F
  <2>1. resolve.blocks \ {b} \in SUBSET [name : Blocks, keys : SUBSET Keys]
    BY <1>5
  <2>2. resolve' = [resolve EXCEPT !.blocks = resolve.blocks \ {b}, !.flat = F]
    BY <1>1, <1>8, Zenon DEF Resolving
  <2>3. QED
    BY <1>1, <1>7, <2>1, <2>2, Zenon DEF Resolving
<1>10. AskedLast'
  BY <1>1, <1>7, <1>9 DEF CanonInv, AskedLast
<1>11. QED
  BY <1>1, <1>9, <1>10, Unfiled

LEMMA ReadAsked ==
    ASSUME CanonInv, ReadRows
    PROVE  CanonInv'
<1>1. /\ resolve \in Resolving /\ UNCHANGED <<verdict, placed, merge, rebuild>>
      /\ resolve.stage \in {"calls", "classify"}
  BY DEF ReadRows, CanonInv, CanonTyped
<1> DEFINE R == {k \in Answered : verdict[k] # "none"}
<1>2. R \in SUBSET Keys
  BY DEF Answered
<1>3. \E stage \in {"store", "storeTyped"} :
        /\ stage = "store" <=> resolve.stage = "calls"
        /\ resolve' = [resolve EXCEPT !.read = R, !.tries = 1, !.stage = stage]
  <2>1. resolve' = [resolve EXCEPT !.read = R, !.tries = 1,
                      !.stage = IF resolve.stage = "calls" THEN "store" ELSE "storeTyped"]
    BY <1>1, Zenon DEF ReadRows, Resolving
  <2>2. QED
    BY <2>1
<1> HIDE DEF R
<1>4. PICK stage \in {"store", "storeTyped"} :
        /\ stage = "store" <=> resolve.stage = "calls"
        /\ resolve' = [resolve EXCEPT !.read = R, !.tries = 1, !.stage = stage]
  BY <1>3
<1>5. /\ resolve' \in Resolving /\ resolve'.stage = stage
      /\ resolve'.flat = resolve.flat /\ resolve'.singles = resolve.singles
  BY <1>1, <1>2, <1>4 DEF Resolving
<1>6. AskedLast'
  BY <1>1, <1>4, <1>5 DEF CanonInv, AskedLast
<1>7. QED
  BY <1>1, <1>5, <1>6, Unfiled

LEMMA ClassifyAsked ==
    ASSUME CanonInv, Classify
    PROVE  CanonInv'
<1>1. /\ resolve \in Resolving /\ UNCHANGED <<verdict, placed, merge, rebuild>>
      /\ resolve.stage = "classify"
  BY DEF Classify, CanonInv, CanonTyped
<1>2. PICK k \in resolve.singles : \E answer \in {"typed", "junk", "none"} :
        resolve' = [resolve EXCEPT !.singles = @ \ {k}, !.flat[k] = answer]
  BY <1>1 DEF Classify
<1>3. PICK answer \in {"typed", "junk", "none"} :
        resolve' = [resolve EXCEPT !.singles = @ \ {k}, !.flat[k] = answer]
  BY <1>2
<1>4. resolve.singles \in SUBSET Keys /\ resolve.flat \in Answers
  BY <1>1, Zenon DEF Resolving
<1> DEFINE F == [resolve.flat EXCEPT ![k] = answer]
<1>5. F \in Answers /\ \A j \in Keys : F[j] = IF j = k THEN answer ELSE resolve.flat[j]
  BY <1>4 DEF Answers
<1>6. resolve' = [resolve EXCEPT !.singles = resolve.singles \ {k}, !.flat = F]
  BY <1>1, <1>3, Zenon DEF Resolving
<1> HIDE DEF F
<1>7. /\ resolve' \in Resolving /\ resolve'.stage = "classify"
      /\ resolve'.singles = resolve.singles \ {k} /\ resolve'.flat = F
  <2>1. resolve.singles \ {k} \in SUBSET Keys
    BY <1>4
  <2>2. QED
    BY <1>1, <1>5, <1>6, <2>1, Zenon DEF Resolving
<1>8. answer \notin Keys /\ verdict[k] \notin Keys
  BY <1>1, KeysAreNames DEF CanonInv, AskedLast
<1>9. AskedLast'
  BY <1>1, <1>5, <1>7, <1>8 DEF CanonInv, AskedLast
<1>10. QED
  BY <1>1, <1>7, <1>9, Unfiled

\* What a chunk leaves of the run, whether it was written or given up.
LEMMA StoredRun ==
    ASSUME CanonInv, resolve.stage \in {"store", "storeTyped"}
    PROVE  /\ Stored \in Resolving /\ Stored.stage = "classify" /\ Stored.flat = NoResolve.flat
           /\ Stored.singles \subseteq resolve.singles
           /\ resolve.stage = "store" => Stored.singles \cap Answered = {}
<1>1. resolve \in Resolving
  BY DEF CanonInv, CanonTyped
<1> DEFINE S == IF resolve.stage = "store" THEN StillSingle(resolve.singles, Answered) ELSE resolve.singles
<1>2. /\ S \subseteq resolve.singles /\ S \in SUBSET Keys
      /\ resolve.stage = "store" => S \cap Answered = {}
  BY <1>1 DEF StillSingle, Resolving
<1>3. Stored = [resolve EXCEPT !.stage = "classify", !.flat = NoResolve.flat, !.tries = 0, !.singles = S]
  BY <1>1, Zenon DEF Stored, Resolving
<1> HIDE DEF S
<1>4. NoResolve.flat \in Answers
  BY NobodyAsks, Zenon DEF Resolving
<1>5. QED
  BY <1>1, <1>2, <1>3, <1>4 DEF Resolving

LEMMA WriteAsked ==
    ASSUME CanonInv, WriteRows
    PROVE  CanonInv'
<1>1. /\ resolve \in Resolving /\ UNCHANGED <<placed, merge, rebuild>>
      /\ resolve.stage \in {"store", "storeTyped"}
      /\ verdict \in [Keys -> Undecided \cup Verdicts]
  BY DEF WriteRows, CanonInv, CanonTyped
<1>2. resolve.flat \in Answers /\ resolve.singles \in SUBSET Keys
  BY <1>1, Zenon DEF Resolving
<1>3. NoResolve.flat = [k \in Keys |-> "none"]
  BY NobodyAsks
<1>4. CASE resolve' = Stored /\ UNCHANGED verdict
  <2>1. AskedLast'
    BY <1>1, <1>2, <1>3, <1>4, StoredRun DEF CanonInv, AskedLast
  <2>2. QED
    BY <1>1, <1>4, <2>1, StoredRun, Unfiled
<1>5. CASE resolve' = Stored /\ verdict' = [k \in Keys |-> IF k \in Answered THEN resolve.flat[k] ELSE verdict[k]]
  <2>1. \A k \in Keys : verdict'[k] = IF resolve.flat[k] # "none" THEN resolve.flat[k] ELSE verdict[k]
    BY <1>5 DEF Answered
  <2>2. \A k \in Keys : verdict'[k] \in Undecided \cup Verdicts
    BY <1>1, <1>2, <2>1 DEF Answers, Verdicts
  <2>3. verdict' \in [Keys -> Undecided \cup Verdicts] /\ \A k \in Keys : verdict[k] # "none" => verdict'[k] # "none"
    BY <1>5, <2>1, <2>2
  <2>4. ASSUME NEW k \in Stored.singles PROVE verdict'[k] \notin Keys
    <3>1. k \in resolve.singles /\ k \in Keys /\ verdict[k] \notin Keys
      BY <1>1, <1>2, StoredRun DEF CanonInv, AskedLast
    <3>2. resolve.stage = "store" => verdict'[k] = verdict[k]
      BY <2>1, <3>1, StoredRun DEF Answered
    <3>3. resolve.stage = "storeTyped" => verdict'[k] \notin Keys
      BY <2>1, <3>1 DEF CanonInv, AskedLast
    <3>4. QED
      BY <1>1, <3>1, <3>2, <3>3
  <2>5. resolve'.stage = "classify" /\ resolve'.flat = [k \in Keys |-> "none"] /\ resolve'.singles = Stored.singles
    BY <1>1, <1>3, <1>5, StoredRun
  <2>6. AskedLast'
    BY <2>4, <2>5 DEF AskedLast
  <2>7. QED
    BY <1>1, <1>5, <2>3, <2>6, StoredRun, Decides
<1>6. CASE /\ resolve' = [resolve EXCEPT !.tries = @ + 1, !.read = {k \in Answered : verdict[k] # "none"}]
           /\ UNCHANGED verdict
  <2> DEFINE R == {k \in Answered : verdict[k] # "none"}
  <2>1. R \in SUBSET Keys /\ resolve.tries + 1 \in Nat
    BY <1>1 DEF Answered, Resolving
  <2>2. resolve' = [resolve EXCEPT !.tries = resolve.tries + 1, !.read = R]
    BY <1>1, <1>6, Zenon DEF Resolving
  <2> HIDE DEF R
  <2>3. /\ resolve' \in Resolving /\ resolve'.stage = resolve.stage
        /\ resolve'.flat = resolve.flat /\ resolve'.singles = resolve.singles
    BY <1>1, <2>1, <2>2 DEF Resolving
  <2>4. AskedLast'
    BY <1>6, <2>3 DEF CanonInv, AskedLast
  <2>5. QED
    BY <1>1, <1>6, <2>3, <2>4, Unfiled
<1>7. QED
  BY <1>4, <1>5, <1>6, Zenon DEF WriteRows

LEMMA MergerFiled ==
    ASSUME CanonInv, Merger
    PROVE  CanonInv'
<1>1. /\ verdict \in [Keys -> Undecided \cup Verdicts] /\ merge \in Merging /\ rebuild \in Rebuilding
      /\ placed \in [Entries -> Keys \cup {"absent", "deleted"}]
  BY DEF CanonInv, CanonTyped
<1>2. merge.rows \in SUBSET Entries /\ merge.loaded \in [Keys -> Undecided \cup Verdicts]
  BY <1>1, Zenon DEF Merging
<1>3. CASE BeginMerge
  <2> DEFINE R == {e \in Here : /\ verdict[e[1]] \in Keys \cup {"junk"}
                                /\ placed[e] # verdict[e[1]]}
  <2>1. R \in SUBSET Entries /\ \A e \in R : placed[e] # "absent" /\ verdict[e[1]] \in Keys \cup {"junk"}
    BY DEF Here
  <2>2. merge' = [active |-> TRUE, loaded |-> verdict, rows |-> R]
    BY <1>3 DEF BeginMerge
  <2> HIDE DEF R
  <2>3. merge' \in Merging /\ merge'.rows = R /\ merge'.loaded = verdict
    BY <1>1, <2>1, <2>2 DEF Merging
  <2>4. QED
    BY <1>1, <1>3, <2>1, <2>3, Unresolved DEF BeginMerge
<1>4. CASE MergeKey
  <2>1. PICK k \in {e[1] : e \in merge.rows} :
         /\ placed' = [e \in Entries |->
                         IF e \notin merge.rows \/ e[1] # k \/ placed[e] = "deleted" THEN placed[e]
                         ELSE IF merge.loaded[k] = "junk" THEN "deleted" ELSE merge.loaded[k]]
         /\ merge' = [merge EXCEPT !.rows = {e \in @ : e[1] # k}]
    BY <1>4 DEF MergeKey
  <2>2. merge.loaded[k] \in Keys \cup {"junk"}
    BY <2>1 DEF CanonInv, RowsFiled
  <2>3. ASSUME NEW e \in Entries
        PROVE  /\ placed'[e] \in Keys \cup {"absent", "deleted"}
               /\ placed'[e] # "absent" <=> placed[e] # "absent"
    <3>1. placed'[e] = IF e \notin merge.rows \/ e[1] # k \/ placed[e] = "deleted" THEN placed[e]
                       ELSE IF merge.loaded[k] = "junk" THEN "deleted" ELSE merge.loaded[k]
      BY <2>1
    <3>2. e \in merge.rows => placed[e] # "absent"
      BY DEF CanonInv, RowsFiled
    <3>3. QED
      BY <1>1, <2>2, <3>1, <3>2, KeysAreNames
  <2>4. placed' \in [Entries -> Keys \cup {"absent", "deleted"}]
    BY <2>1, <2>3
  <2> DEFINE R == {e \in merge.rows : e[1] # k}
  <2>5. R \in SUBSET Entries /\ R \subseteq merge.rows
    BY <1>2
  <2>6. merge' = [merge EXCEPT !.rows = R]
    BY <1>1, <2>1, Zenon DEF Merging
  <2> HIDE DEF R
  <2>7. merge' \in Merging /\ merge'.rows = R /\ merge'.loaded = merge.loaded
    BY <1>1, <2>5, <2>6 DEF Merging
  <2>8. \A e \in R : placed'[e] # "absent" /\ merge.loaded[e[1]] \in Keys \cup {"junk"}
    BY <1>2, <2>3, <2>5 DEF CanonInv, RowsFiled
  <2>9. QED
    BY <1>1, <1>4, <2>3, <2>4, <2>7, <2>8, Unresolved DEF MergeKey
<1>5. CASE EndMerge
  <2>1. merge' \in Merging /\ merge'.rows = {}
    BY <1>5 DEF EndMerge, NoMerge, Merging, Undecided
  <2>2. QED
    BY <1>1, <1>5, <2>1, Unresolved DEF EndMerge
<1>6. QED
  BY <1>3, <1>4, <1>5 DEF Merger

LEMMA RebuilderFiled ==
    ASSUME CanonInv, Rebuilder
    PROVE  CanonInv'
<1>1. /\ merge \in Merging /\ rebuild \in Rebuilding
      /\ placed \in [Entries -> Keys \cup {"absent", "deleted"}]
      /\ \A e \in merge.rows : e \in Entries /\ placed[e] # "absent" /\ merge.loaded[e[1]] \in Keys \cup {"junk"}
  BY DEF CanonInv, CanonTyped, RowsFiled, Merging
<1>2. CASE BeginRebuild
  <2>1. Ruled \in SUBSET Keys
    BY KeyOfEntry DEF Ruled, Here
  <2>2. rebuild' \in Rebuilding
    BY <1>2, <2>1 DEF BeginRebuild, Rebuilding
  <2>3. QED
    BY <1>1, <1>2, <2>2, Unresolved DEF BeginRebuild
<1>3. CASE RebuildKey
  <2>1. PICK k \in rebuild.keys :
         /\ placed' = [e \in Entries |-> IF e[1] = k /\ e \in Here THEN k ELSE placed[e]]
         /\ rebuild' = [rebuild EXCEPT !.keys = @ \ {k}]
    BY <1>3 DEF RebuildKey
  <2>2. rebuild.keys \in SUBSET Keys
    BY <1>1, Zenon DEF Rebuilding
  <2>3. rebuild' \in Rebuilding
    <3>1. rebuild' = [rebuild EXCEPT !.keys = rebuild.keys \ {k}]
      BY <1>1, <2>1, Zenon DEF Rebuilding
    <3>2. QED
      BY <1>1, <2>2, <3>1 DEF Rebuilding
  <2>4. ASSUME NEW e \in Entries
        PROVE  /\ placed'[e] \in Keys \cup {"absent", "deleted"}
               /\ placed'[e] # "absent" <=> placed[e] # "absent"
    <3>1. placed'[e] = IF e[1] = k /\ e \in Here THEN k ELSE placed[e]
      BY <2>1
    <3>2. k # "absent" /\ k \in Keys
      BY <2>2, KeysAreNames
    <3>3. QED
      BY <1>1, <3>1, <3>2 DEF Here
  <2>5. placed' \in [Entries -> Keys \cup {"absent", "deleted"}]
    BY <2>1, <2>4
  <2>6. UNCHANGED merge
    BY <1>3 DEF RebuildKey
  <2>7. QED
    BY <1>1, <1>3, <2>3, <2>4, <2>5, <2>6, Unresolved DEF RebuildKey
<1>4. CASE EndRebuild
  <2>1. rebuild' \in Rebuilding
    BY <1>4 DEF EndRebuild, NoRebuild, Rebuilding
  <2>2. QED
    BY <1>1, <1>4, <2>1, Unresolved DEF EndRebuild
<1>5. QED
  BY <1>2, <1>3, <1>4 DEF Rebuilder

LEMMA CanonGoesOn == CanonInv /\ [CanonNext]_canon => CanonInv'
<1> SUFFICES ASSUME CanonInv, [CanonNext]_canon PROVE CanonInv'
  OBVIOUS
<1>1. CASE EndResolve
  <2>1. resolve' = NoResolve
    BY <1>1 DEF EndResolve
  <2>2. AskedLast'
    BY <2>1, NobodyAsks DEF AskedLast, NoResolve
  <2>3. QED
    BY <1>1, <2>1, <2>2, NobodyAsks, Unfiled DEF EndResolve
<1>2. CASE UNCHANGED canon
  <2>1. resolve' \in Resolving /\ AskedLast'
    BY <1>2 DEF canon, CanonInv, CanonTyped, AskedLast, NoResolve
  <2>2. QED
    BY <1>2, <2>1, Unfiled DEF canon
<1>3. QED
  BY <1>1, <1>2, ParseEntryFiled, SettleAsked, ScanAsked, CallAsked, ReadAsked, WriteAsked, ClassifyAsked,
     MergerFiled, RebuilderFiled DEF CanonNext, Resolver

\* Types of the decisions and of the rows that are filed under them, and that no
\* row is filed under a key that was never recorded.
THEOREM CanonTypes == CanonSpec => []CanonTypeOK
<1>1. CanonInv => CanonTypeOK
  <2> SUFFICES ASSUME CanonInv PROVE CanonTypeOK
    OBVIOUS
  <2>1. resolve.singles \subseteq Keys
    BY DEF CanonInv, CanonTyped, Resolving
  <2>2. QED
    BY <2>1 DEF CanonInv, CanonTyped, RowsFiled, CanonTypeOK, Answered, Here
<1>2. QED
  BY <1>1, CanonFirst, CanonGoesOn, PTL DEF CanonSpec

\* A classification never takes the place of a work, for any keys and blocks and
\* any answers, whoever else writes decisions between two statements of the run.
THEOREM WorksKept == CanonSpec => TypedKeepsIdentity
<1>1. CanonInv /\ [CanonNext]_canon =>
        [\A k \in Keys : verdict[k] \in Keys => verdict'[k] # "typed"]_canon
  <2> SUFFICES ASSUME CanonInv, CanonNext, NEW k \in Keys, verdict[k] \in Keys
               PROVE  verdict'[k] # "typed"
    OBVIOUS
  <2>1. CASE UNCHANGED verdict
    BY <2>1, KeysAreNames
  <2>2. ASSUME NEW e \in Entries, ParseEntry(e) PROVE verdict'[k] # "typed"
    <3>1. verdict'[k] \in {verdict[k], "pending"}
      BY <2>2 DEF ParseEntry, CanonInv, CanonTyped
    <3>2. QED
      BY <3>1, KeysAreNames
  <2>3. CASE Settle
    BY <2>3, KeysAreNames DEF Settle
  <2>4. CASE WriteRows
    <3>1. resolve.stage \in {"store", "storeTyped"} /\ verdict'[k] \in {verdict[k], resolve.flat[k]}
      BY <2>4 DEF WriteRows
    <3>2. verdict'[k] = verdict[k] \/ resolve.flat[k] # "none"
      BY <2>4 DEF WriteRows, Answered
    <3>3. QED
      BY <3>1, <3>2, KeysAreNames DEF CanonInv, AskedLast
  <2>5. QED
    BY <2>1, <2>2, <2>3, <2>4 DEF CanonNext, Resolver, Merger, Rebuilder, ScanBlocks, CallBlock, ReadRows,
       Classify, EndResolve, BeginMerge, MergeKey, EndMerge, BeginRebuild, RebuildKey, EndRebuild
<1>2. QED
  BY <1>1, CanonFirst, CanonGoesOn, PTL DEF CanonSpec, TypedKeepsIdentity

-----------------------------------------------------------------------------
(* ParsePipeline                                                           *)

\* What a process remembers of its run.
Visiting == [stage : {"off", "running", "draining", "stopping"},
             last : (0..LastTime) \X (0..MaxDoc), left : Nat, dry : BOOLEAN, owed : SUBSET Papers]

PipeTyped ==
    /\ paper \in [Papers -> PaperRow]
    /\ clock \in 1..LastTime
    /\ visit \in [Shard -> Visiting]
    /\ where \in [Shard -> [Papers -> Place]]
    /\ trouble \in 0..MaxTrouble

\* What is on its way through process i belongs to it and is not beyond its
\* cursor; what it still owes is due, beyond its cursor, and nowhere on its way.
HandsOut(i) ==
    /\ \A d \in InFlight(i) : Own(i, d) /\ ~ Beyond(d, visit[i].last)
    /\ \A d \in visit[i].owed : d \in Due(i) \ InFlight(i) /\ Beyond(d, visit[i].last)
    /\ visit[i].dry => visit[i].owed = {}
    /\ visit[i].stage = "off" => InFlight(i) = {}

PipeInv == PipeTyped /\ \A i \in Shard : HandsOut(i)

\* The place of a row in the order of the pages.
Position(d) == <<paper[d].ts, d>>

LEMMA PaperRows ==
    ASSUME paper \in [Papers -> PaperRow]
    PROVE  \A d \in Papers : paper[d].ts \in 0..LastTime /\ d \in Nat /\ d > 0 /\ d <= MaxDoc
BY ParsePipelineAssumption DEF PaperRow, Papers

\* Positions are in a linear order.
LEMMA PositionsInOrder ==
    ASSUME paper \in [Papers -> PaperRow]
    PROVE  /\ \A d \in Papers : ~ Beyond(d, Position(d))
           /\ \A d, e \in Papers : d = e \/ Beyond(d, Position(e)) \/ Beyond(e, Position(d))
           /\ \A d, e \in Papers : Beyond(d, Position(e)) => ~ Beyond(e, Position(d))
           /\ \A d, e, f \in Papers : Beyond(d, Position(e)) /\ Beyond(e, Position(f)) => Beyond(d, Position(f))
           /\ \A d, e \in Papers : \A p \in (0..LastTime) \X (0..MaxDoc) :
                Beyond(e, p) /\ ~ Beyond(d, p) => Beyond(e, Position(d))
           /\ \A d, e \in Papers : \A p \in (0..LastTime) \X (0..MaxDoc) :
                Beyond(e, p) /\ ~ Beyond(d, p) => ~ Beyond(d, Position(e))
           /\ \A d \in Papers : Beyond(d, <<0, 0>>) /\ Position(d) \in (0..LastTime) \X (0..MaxDoc)
<1> USE ParsePipelineAssumption
<1> DEFINE ts(d) == paper[d].ts
<1>1. \A d \in Papers : ts(d) \in 0..LastTime /\ d \in Nat /\ d > 0 /\ d <= MaxDoc
  BY PaperRows
<1>2. \A d, e \in Papers : Beyond(d, Position(e)) <=> (ts(d) > ts(e) \/ (ts(d) = ts(e) /\ d > e))
  BY DEF Beyond, Position
<1>3. \A d \in Papers : \A p \in (0..LastTime) \X (0..MaxDoc) :
        Beyond(d, p) <=> (ts(d) > p[1] \/ (ts(d) = p[1] /\ d > p[2]))
  BY DEF Beyond
<1>4. \A d \in Papers : Beyond(d, <<0, 0>>) <=> (ts(d) > 0 \/ (ts(d) = 0 /\ d > 0))
  BY DEF Beyond
<1>5. \A d \in Papers : Position(d) \in (0..LastTime) \X (0..MaxDoc)
  BY <1>1 DEF Position
<1> HIDE DEF ts
<1>6. \A p \in (0..LastTime) \X (0..MaxDoc) : p[1] \in 0..LastTime /\ p[2] \in 0..MaxDoc
  OBVIOUS
<1>7. QED
  BY <1>1, <1>2, <1>3, <1>4, <1>5, <1>6

\* A rank counts the rows of a set up to a row.
LEMMA RankCounts ==
    ASSUME paper \in [Papers -> PaperRow], NEW S \in SUBSET Papers, NEW d \in Papers
    PROVE  /\ IsFiniteSet(S)
           /\ Rank(S, d) = Cardinality({e \in S : ~ Beyond(e, Position(d))})
           /\ Rank(S, d) \in Nat
<1>1. IsFiniteSet(Papers)
  <2>1. 1 \in Int /\ MaxDoc \in Int
    BY ParsePipelineAssumption
  <2>2. QED
    BY <2>1, FS_Interval DEF Papers
<1>2. IsFiniteSet(S) /\ IsFiniteSet({e \in S : ~ Beyond(e, Position(d))})
  BY <1>1, FS_Subset
<1>3. \A e \in S : ~ Beyond(e, Position(d))
        <=> (paper[e].ts < paper[d].ts \/ (paper[e].ts = paper[d].ts /\ e <= d))
  <2>1. \A e \in Papers : paper[e].ts \in Nat /\ e \in Nat
    BY PaperRows, ParsePipelineAssumption
  <2>2. \A e \in S : Beyond(e, Position(d))
          <=> (paper[e].ts > paper[d].ts \/ (paper[e].ts = paper[d].ts /\ e > d))
    BY DEF Beyond, Position
  <2>3. QED
    BY <2>1, <2>2
<1>4. {e \in S : ~ Beyond(e, Position(d))}
        = {e \in S : paper[e].ts < paper[d].ts \/ (paper[e].ts = paper[d].ts /\ e <= d)}
  BY <1>3
<1>5. QED
  BY <1>2, <1>4, FS_CardinalityType DEF Rank

\* It grows with the set and in the order, and is that of the set at its end only.
LEMMA RankGrows ==
    ASSUME paper \in [Papers -> PaperRow], NEW S \in SUBSET Papers, NEW T \in SUBSET S
    PROVE  /\ \A d \in Papers : Rank(T, d) <= Rank(S, d)
           /\ \A d, e \in Papers : ~ Beyond(e, Position(d)) => Rank(S, e) <= Rank(S, d)
           /\ \A d \in Papers : Rank(S, d) = Cardinality(S) => \A e \in S : ~ Beyond(e, Position(d))
<1> DEFINE Upto(U, d) == {e \in U : ~ Beyond(e, Position(d))}
<1>1. \A d \in Papers : Upto(T, d) \subseteq Upto(S, d) /\ Upto(S, d) \subseteq S
  OBVIOUS
<1>2. \A d \in Papers : Rank(S, d) = Cardinality(Upto(S, d)) /\ Rank(T, d) = Cardinality(Upto(T, d))
  BY RankCounts
<1>3. \A d \in Papers : IsFiniteSet(Upto(S, d)) /\ IsFiniteSet(S)
  BY <1>1, RankCounts, FS_Subset
<1>4. \A d, e \in Papers : ~ Beyond(e, Position(d)) => Upto(S, e) \subseteq Upto(S, d)
  <2> SUFFICES ASSUME NEW d \in Papers, NEW e \in Papers, ~ Beyond(e, Position(d)),
                      NEW f \in S, ~ Beyond(f, Position(e))
               PROVE  ~ Beyond(f, Position(d))
    OBVIOUS
  <2>1. f \in Papers
    OBVIOUS
  <2>2. QED
    BY <2>1, PositionsInOrder
<1>5. \A d \in Papers : Upto(S, d) = S => \A e \in S : ~ Beyond(e, Position(d))
  OBVIOUS
<1> HIDE DEF Upto
<1>6. \A d \in Papers : Rank(T, d) <= Rank(S, d)
  BY <1>1, <1>2, <1>3, FS_Subset
<1>7. \A d, e \in Papers : ~ Beyond(e, Position(d)) => Rank(S, e) <= Rank(S, d)
  BY <1>2, <1>3, <1>4, FS_Subset
<1>8. \A d \in Papers : Rank(S, d) = Cardinality(S) => Upto(S, d) = S
  BY <1>1, <1>2, <1>3, FS_Subset
<1>9. QED
  BY <1>5, <1>6, <1>7, <1>8

\* A set of rows has a first and a last one.
LEMMA FirstAndLast ==
    ASSUME paper \in [Papers -> PaperRow], NEW S \in SUBSET Papers, S # {}
    PROVE  /\ \E d \in S : Rank(S, d) = Cardinality(S)
           /\ \E d \in S : Rank(S, d) = 1
<1> DEFINE Up == {x \in S \X S : Beyond(x[2], Position(x[1]))}
           Down == {x \in S \X S : Beyond(x[1], Position(x[2]))}
<1>1. \A a, b \in S : (<<a, b>> \in Up <=> Beyond(b, Position(a))) /\ (<<a, b>> \in Down <=> Beyond(a, Position(b)))
  OBVIOUS
<1> HIDE DEF Up, Down
<1>2. /\ \A a, b, c \in S : <<a, b>> \in Up /\ <<b, c>> \in Up => <<a, c>> \in Up
      /\ \A a \in S : <<a, a>> \notin Up
  BY <1>1, PositionsInOrder
<1>3. /\ \A a, b, c \in S : <<a, b>> \in Down /\ <<b, c>> \in Down => <<a, c>> \in Down
      /\ \A a \in S : <<a, a>> \notin Down
  BY <1>1, PositionsInOrder
<1>4. IsFiniteSet(S)
  BY RankCounts
<1>5. \E t \in S : \A u \in S : <<t, u>> \notin Up
  BY <1>2, <1>4, HasLast
<1>6. \E t \in S : \A u \in S : <<t, u>> \notin Down
  BY <1>3, <1>4, HasLast
<1>7. \E d \in S : Rank(S, d) = Cardinality(S)
  <2>1. PICK t \in S : \A u \in S : <<t, u>> \notin Up
    BY <1>5
  <2>2. {u \in S : ~ Beyond(u, Position(t))} = S
    BY <1>1, <2>1
  <2>3. QED
    BY <2>2, RankCounts
<1>8. \E d \in S : Rank(S, d) = 1
  <2>1. PICK t \in S : \A u \in S : <<t, u>> \notin Down
    BY <1>6
  <2>2. \A u \in S : ~ Beyond(t, Position(u))
    BY <1>1, <2>1
  <2>3. {u \in S : ~ Beyond(u, Position(t))} = {t}
    BY <2>2, PositionsInOrder
  <2>4. Rank(S, t) = Cardinality({t})
    BY <2>3, RankCounts
  <2>5. QED
    BY <2>4, FS_Singleton
<1>9. QED
  BY <1>7, <1>8

\* The next page has the first rows of what is due beyond the cursor: it is empty
\* when nothing is, and what it leaves comes after its end.
LEMMA NextPage ==
    ASSUME PipeTyped, NEW i \in Shard
    PROVE  LET rest == {d \in Due(i) : Beyond(d, visit[i].last)}
               page == PageOf(i)
               end  == CHOOSE d \in page : Rank(page, d) = Cardinality(page)
           IN /\ page \subseteq rest
              /\ page = {} /\ visit[i].left > 0 => rest = {}
              /\ page # {} => /\ end \in page
                              /\ \A d \in page : ~ Beyond(d, Position(end))
                              /\ \A d \in rest \ page : Beyond(d, Position(end))
                              /\ visit[i].left - Cardinality(page) \in Nat
<1> DEFINE rest == {d \in Due(i) : Beyond(d, visit[i].last)}
           left == visit[i].left
           n    == IF left < PageDocs THEN left ELSE PageDocs
           page == PageOf(i)
           end  == CHOOSE d \in page : Rank(page, d) = Cardinality(page)
<1>1. paper \in [Papers -> PaperRow] /\ left \in Nat /\ PageDocs \in Nat \ {0}
  BY ParsePipelineAssumption DEF PipeTyped, Visiting
<1>2. rest \subseteq Papers
  BY DEF Due
<1>3. page = {d \in rest : Rank(rest, d) <= n}
  BY DEF PageOf
<1> HIDE DEF rest, page
<1>4. page = {} /\ left > 0 => rest = {}
  <2> SUFFICES ASSUME left > 0, rest # {} PROVE page # {}
    OBVIOUS
  <2>1. PICK d \in rest : Rank(rest, d) = 1
    BY <1>1, <1>2, FirstAndLast
  <2>2. Rank(rest, d) <= n
    BY <1>1, <2>1
  <2>3. QED
    BY <1>3, <2>2
<1>5. ASSUME page # {}
      PROVE  /\ end \in page
             /\ \A d \in page : ~ Beyond(d, Position(end))
             /\ \A d \in rest \ page : Beyond(d, Position(end))
             /\ left - Cardinality(page) \in Nat
  <2>1. page \subseteq rest /\ page \subseteq Papers
    BY <1>2, <1>3
  <2>2. \E d \in page : Rank(page, d) = Cardinality(page)
    BY <1>1, <1>5, <2>1, FirstAndLast
  <2>3. end \in page /\ Rank(page, end) = Cardinality(page)
    BY <2>2
  <2> HIDE DEF end
  <2>4. \A d \in page : ~ Beyond(d, Position(end))
    BY <1>1, <2>1, <2>3, RankGrows
  <2>5. Rank(rest, end) <= n
    BY <1>3, <2>3
  <2>6. \A d \in rest : ~ Beyond(d, Position(end)) => Rank(rest, d) <= Rank(rest, end)
    BY <1>1, <1>2, <2>1, <2>3, RankGrows
  <2>7. \A d \in rest : Rank(rest, d) \in Nat
    BY <1>1, <1>2, RankCounts
  <2>8. \A d \in rest \ page : Beyond(d, Position(end))
    <3> SUFFICES ASSUME NEW d \in rest, ~ Beyond(d, Position(end)) PROVE d \in page
      OBVIOUS
    <3>1. Rank(rest, d) <= n
      BY <1>1, <2>1, <2>3, <2>5, <2>6, <2>7
    <3>2. QED
      BY <1>3, <3>1
  <2>9. Rank(page, end) <= Rank(rest, end) /\ Rank(page, end) \in Nat /\ Rank(rest, end) \in Nat
    BY <1>1, <1>2, <2>1, <2>3, RankGrows, RankCounts
  <2>10. QED
    BY <1>1, <2>3, <2>4, <2>5, <2>8, <2>9
<1>6. QED
  BY <1>3, <1>4, <1>5 DEF rest, page

\* Invariant at first.
LEMMA PipeFirst == PipeInit => PipeInv
<1> SUFFICES ASSUME PipeInit PROVE PipeInv
  OBVIOUS
<1> USE ParsePipelineAssumption, FirstPapersAssumption
<1>1. NoVisit \in Visiting /\ NoVisit.owed = {} /\ NoVisit.dry = FALSE
  BY DEF NoVisit, Visiting
<1>2. visit \in [Shard -> Visiting]
  BY <1>1 DEF PipeInit
<1>3. PipeTyped
  BY <1>2 DEF PipeInit, PipeTyped, Place
<1>4. \A i \in Shard : InFlight(i) = {} /\ visit[i] = NoVisit
  BY DEF PipeInit, InFlight, At
<1>5. QED
  BY <1>1, <1>3, <1>4 DEF PipeInv, HandsOut

\* A document belongs to one process.
LEMMA OneOwner == \A i, j \in Shard : \A d : Own(i, d) /\ Own(j, d) => i = j
BY DEF Own

\* What a step of process i leaves to the others.
LEMMA OthersHandOut ==
    ASSUME PipeInv, PipeTyped', NEW i \in Shard, NEW j \in Shard, i # j,
           visit'[j] = visit[j], where'[j] = where[j], clock' = clock,
           \A d \in Papers : paper'[d] = paper[d] \/ d \in InFlight(i)
    PROVE  HandsOut(j)'
<1>1. InFlight(j)' = InFlight(j)
  BY DEF InFlight, At
<1>2. \A d \in Papers : Own(j, d) => paper'[d] = paper[d]
  BY OneOwner DEF PipeInv, HandsOut
<1>3. \A d \in Papers : \A p : Own(j, d) /\ paper'[d] = paper[d] => (Beyond(d, p)' <=> Beyond(d, p))
  BY DEF Beyond
<1>4. \A d \in Due(j) : d \in Due(j)'
  BY <1>2 DEF Due
<1>5. \A d \in InFlight(j) : d \in Papers
  BY DEF InFlight, At
<1>6. QED
  BY <1>1, <1>2, <1>3, <1>4, <1>5 DEF PipeInv, HandsOut, Due

\* A step that lets documents out of process i, or moves them on in it, and
\* changes no other rows.
LEMMA Onward ==
    ASSUME PipeInv, PipeTyped', NEW i \in Shard, clock' = clock,
           \A j \in Shard : i # j => visit'[j] = visit[j] /\ where'[j] = where[j],
           visit'[i].last = visit[i].last, visit'[i].dry = visit[i].dry, visit'[i].owed = visit[i].owed,
           visit'[i].stage = "off" => InFlight(i)' = {},
           InFlight(i)' \subseteq InFlight(i),
           \A d \in Papers : paper'[d] = paper[d] \/ d \in InFlight(i) \ InFlight(i)'
    PROVE  PipeInv'
<1>1. \A j \in Shard : i # j => HandsOut(j)'
  BY OthersHandOut
<1>2. \A d \in InFlight(i)' : paper'[d] = paper[d] /\ d \in InFlight(i)
  <2>1. InFlight(i) \subseteq Papers
    BY DEF InFlight, At
  <2>2. QED
    BY <2>1
<1>3. \A d \in visit[i].owed : paper'[d] = paper[d] /\ d \in Due(i) /\ Beyond(d, visit[i].last)
  BY DEF PipeInv, HandsOut, Due
<1>4. \A d \in InFlight(i)' : ~ Beyond(d, visit[i].last)'
  BY <1>2 DEF PipeInv, HandsOut, Beyond
<1>5. \A d \in visit[i].owed : Beyond(d, visit[i].last)'
  BY <1>3 DEF Beyond
<1>6. \A d \in visit[i].owed : d \in Due(i)' \ InFlight(i)'
  BY <1>3 DEF PipeInv, HandsOut, Due
<1>7. HandsOut(i)'
  BY <1>2, <1>4, <1>5, <1>6 DEF PipeInv, HandsOut
<1>8. QED
  BY <1>1, <1>7 DEF PipeInv

\* Documents put in another place.
LEMMA PutMoves ==
    ASSUME PipeTyped, NEW i \in Shard, NEW D, NEW place \in Place, Put(i, D, place)
    PROVE  /\ where' \in [Shard -> [Papers -> Place]]
           /\ \A j \in Shard : i # j => where'[j] = where[j]
           /\ \A d \in Papers : where'[i][d] = IF d \in D THEN place ELSE where[i][d]
           /\ D \subseteq InFlight(i) => InFlight(i)' \subseteq InFlight(i)
           /\ D \subseteq InFlight(i) /\ place = "none" => InFlight(i)' = InFlight(i) \ D
           /\ place # "none" => InFlight(i)' \subseteq InFlight(i) \cup D
<1>1. where' = [where EXCEPT ![i] = [d \in Papers |-> IF d \in D THEN place ELSE where[i][d]]]
  BY DEF Put, PipeTyped
<1>2. /\ where' \in [Shard -> [Papers -> Place]]
      /\ \A j \in Shard : i # j => where'[j] = where[j]
      /\ \A d \in Papers : where'[i][d] = IF d \in D THEN place ELSE where[i][d]
  BY <1>1 DEF PipeTyped
<1>3. \A d : /\ d \in InFlight(i) <=> d \in Papers /\ where[i][d] \in Place \ {"none"}
             /\ d \in InFlight(i)' <=> d \in Papers /\ where'[i][d] \in Place \ {"none"}
  BY DEF InFlight, At
<1>4. QED
  BY <1>2, <1>3

\* A run that goes on to another stage.
LEMMA StageTurns ==
    ASSUME visit \in [Shard -> Visiting], NEW i \in Shard,
           NEW st \in {"off", "running", "draining", "stopping"},
           visit' = [visit EXCEPT ![i].stage = st]
    PROVE  /\ visit' \in [Shard -> Visiting]
           /\ \A j \in Shard : i # j => visit'[j] = visit[j]
           /\ visit'[i] = [visit[i] EXCEPT !.stage = st]
<1>1. [visit[i] EXCEPT !.stage = st] \in Visiting
  <2>1. visit[i] \in Visiting
    OBVIOUS
  <2>2. QED
    BY <2>1 DEF Visiting
<1>2. visit' = [visit EXCEPT ![i] = [visit[i] EXCEPT !.stage = st]]
  OBVIOUS
<1>3. QED
  BY <1>1, <1>2

\* The steps of the producer after a page, of the threads and of the consumer.
LEMMA PipelineMoves ==
    ASSUME PipeInv, NEW i \in Shard,
           \/ Produce(i) \/ Process(i) \/ Extract(i) \/ Gather(i)
           \/ ProducerEnds(i) \/ StoreRaises(i) \/ Stop(i)
    PROVE  PipeInv'
<1> USE ParsePipelineAssumption
<1>1. PipeTyped
  BY DEF PipeInv
<1>2. /\ {"none", "buffer", "in", "hand", "out", "batch"} = Place
      /\ "none" \in Place /\ "buffer" \in Place /\ "in" \in Place /\ "hand" \in Place /\ "out" \in Place /\ "batch" \in Place
  BY DEF Place
<1>3. \A p \in Place \ {"none"} : At(i, {p}) \subseteq InFlight(i)
  BY DEF At, InFlight
<1>4. CASE Produce(i) \/ Process(i) \/ Extract(i) \/ Gather(i)
  <2>1. PICK D \in SUBSET InFlight(i), place \in Place : Put(i, D, place)
    <3>1. ASSUME NEW p \in Place \ {"none"}, NEW q \in Place, \E d \in At(i, {p}) : Put(i, {d}, q)
          PROVE  \E D \in SUBSET InFlight(i), place \in Place : Put(i, D, place)
      <4>1. PICK d \in At(i, {p}) : Put(i, {d}, q)
        BY <3>1
      <4>2. {d} \subseteq InFlight(i)
        BY <1>3, <4>1
      <4>3. QED
        BY <4>1, <4>2
    <3>2. CASE Produce(i)
      <4>1. \E d \in At(i, {"buffer"}) : Put(i, {d}, "in")
        BY <3>2 DEF Produce
      <4>2. QED
        BY <1>2, <3>1, <4>1
    <3>3. CASE Process(i)
      <4>1. \E d \in At(i, {"in"}) : Put(i, {d}, "hand")
        BY <3>3 DEF Process
      <4>2. QED
        BY <1>2, <3>1, <4>1
    <3>4. CASE Extract(i)
      <4>1. \E d \in At(i, {"hand"}) : Put(i, {d}, "out")
        BY <3>4 DEF Extract
      <4>2. QED
        BY <1>2, <3>1, <4>1
    <3>5. CASE Gather(i)
      <4>1. \E d \in At(i, {"out"}) : Put(i, {d}, "batch")
        BY <3>5 DEF Gather
      <4>2. QED
        BY <1>2, <3>1, <4>1
    <3>6. QED
      BY <1>4, <3>2, <3>3, <3>4, <3>5
  <2>2. UNCHANGED <<paper, clock, visit, trouble>>
    BY <1>4 DEF Produce, Process, Extract, Gather
  <2>3. /\ where' \in [Shard -> [Papers -> Place]]
        /\ \A j \in Shard : i # j => where'[j] = where[j]
        /\ InFlight(i)' \subseteq InFlight(i)
    BY <1>1, <2>1, PutMoves
  <2>4. PipeTyped'
    BY <1>1, <2>2, <2>3 DEF PipeTyped
  <2>5. visit[i].stage = "off" => InFlight(i)' = {}
    BY <2>3 DEF PipeInv, HandsOut
  <2>6. QED
    BY <2>2, <2>3, <2>4, <2>5, Onward
<1>5. CASE ProducerEnds(i)
  <2>1. visit' = [visit EXCEPT ![i].stage = "draining"] /\ UNCHANGED <<paper, clock, trouble>>
    BY <1>5 DEF ProducerEnds
  <2>2. /\ where' \in [Shard -> [Papers -> Place]]
        /\ \A j \in Shard : i # j => where'[j] = where[j]
        /\ InFlight(i)' \subseteq InFlight(i)
    <3>1. Put(i, At(i, {"buffer"}), "none") /\ At(i, {"buffer"}) \subseteq InFlight(i)
      BY <1>2, <1>3, <1>5 DEF ProducerEnds
    <3>2. QED
      BY <1>1, <1>2, <3>1, PutMoves
  <2>3. /\ visit' \in [Shard -> Visiting]
        /\ \A j \in Shard : i # j => visit'[j] = visit[j]
        /\ visit'[i] = [visit[i] EXCEPT !.stage = "draining"]
    BY <1>1, <2>1, StageTurns DEF PipeTyped
  <2>4. /\ visit'[i].last = visit[i].last /\ visit'[i].dry = visit[i].dry
        /\ visit'[i].owed = visit[i].owed /\ visit'[i].stage = "draining"
    BY <1>1, <2>3 DEF PipeTyped, Visiting
  <2>5. PipeTyped'
    BY <1>1, <2>1, <2>2, <2>3 DEF PipeTyped
  <2>6. QED
    BY <2>1, <2>2, <2>3, <2>4, <2>5, Onward
<1>6. CASE StoreRaises(i)
  <2>1. UNCHANGED <<paper, clock, visit>> /\ trouble' \in 0..MaxTrouble
    BY <1>1, <1>6 DEF StoreRaises, Trouble, PipeTyped
  <2>2. /\ where' \in [Shard -> [Papers -> Place]]
        /\ \A j \in Shard : i # j => where'[j] = where[j]
        /\ InFlight(i)' \subseteq InFlight(i)
    <3>1. Put(i, At(i, {"batch"}), "none") /\ At(i, {"batch"}) \subseteq InFlight(i)
      BY <1>2, <1>3, <1>6 DEF StoreRaises
    <3>2. QED
      BY <1>1, <1>2, <3>1, PutMoves
  <2>3. PipeTyped'
    BY <1>1, <2>1, <2>2 DEF PipeTyped
  <2>4. visit[i].stage = "off" => InFlight(i)' = {}
    BY <2>2 DEF PipeInv, HandsOut
  <2>5. QED
    BY <2>1, <2>2, <2>3, <2>4, Onward
<1>7. CASE Stop(i)
  <2>1. visit' = [visit EXCEPT ![i].stage = "stopping"] /\ UNCHANGED <<paper, clock, where, trouble>>
    BY <1>7 DEF Stop
  <2>2. /\ visit' \in [Shard -> Visiting]
        /\ \A j \in Shard : i # j => visit'[j] = visit[j]
        /\ visit'[i] = [visit[i] EXCEPT !.stage = "stopping"]
    BY <1>1, <2>1, StageTurns DEF PipeTyped
  <2>3. /\ visit'[i].last = visit[i].last /\ visit'[i].dry = visit[i].dry
        /\ visit'[i].owed = visit[i].owed /\ visit'[i].stage = "stopping"
    BY <1>1, <2>2 DEF PipeTyped, Visiting
  <2>4. InFlight(i)' = InFlight(i)
    BY <2>1 DEF InFlight, At
  <2>5. PipeTyped'
    BY <1>1, <2>1, <2>2 DEF PipeTyped
  <2>6. QED
    BY <2>1, <2>2, <2>3, <2>4, <2>5, Onward
<1>8. QED
  BY <1>4, <1>5, <1>6, <1>7

\* The consumer changes the rows of its batch, which is not on its way any more.
LEMMA StoreBatchKeeps ==
    ASSUME PipeInv, NEW i \in Shard, StoreBatch(i)
    PROVE  PipeInv'
<1> USE ParsePipelineAssumption
<1> DEFINE batch == At(i, {"batch"})
<1>1. PipeTyped
  BY DEF PipeInv
<1>2. Put(i, batch, "none") /\ UNCHANGED <<clock, visit, trouble>>
  BY DEF StoreBatch
<1>3. batch \subseteq InFlight(i) /\ "none" \in Place
  BY DEF At, InFlight, Place
<1>4. /\ where' \in [Shard -> [Papers -> Place]]
      /\ \A j \in Shard : i # j => where'[j] = where[j]
      /\ InFlight(i)' = InFlight(i) \ batch
  BY <1>1, <1>2, <1>3, PutMoves
<1>5. PICK raised \in SUBSET batch : \E settled \in {batch \ raised, {}}, again \in BOOLEAN :
        paper' = [d \in Papers |->
           CASE d \in settled          -> [state |-> "done", ts |-> clock, due |-> 0]
             [] d \in raised /\ again  -> [state |-> "pending", ts |-> clock, due |-> clock + 1]
             [] d \in raised /\ ~again -> [state |-> "failed", ts |-> clock, due |-> 0]
             [] OTHER -> paper[d]]
  BY DEF StoreBatch
<1>6. PICK settled \in {batch \ raised, {}}, again \in BOOLEAN :
        paper' = [d \in Papers |->
           CASE d \in settled          -> [state |-> "done", ts |-> clock, due |-> 0]
             [] d \in raised /\ again  -> [state |-> "pending", ts |-> clock, due |-> clock + 1]
             [] d \in raised /\ ~again -> [state |-> "failed", ts |-> clock, due |-> 0]
             [] OTHER -> paper[d]]
  BY <1>5
<1>7. /\ [state |-> "done", ts |-> clock, due |-> 0] \in PaperRow
      /\ [state |-> "pending", ts |-> clock, due |-> clock + 1] \in PaperRow
      /\ [state |-> "failed", ts |-> clock, due |-> 0] \in PaperRow
  BY <1>1 DEF PipeTyped, PaperRow
<1>8. /\ paper' \in [Papers -> PaperRow]
      /\ \A d \in Papers : d \notin batch => paper'[d] = paper[d]
  <2>1. settled \subseteq batch /\ raised \subseteq batch /\ settled \cap raised = {}
    OBVIOUS
  <2>2. \A d \in Papers : paper[d] \in PaperRow
    BY <1>1 DEF PipeTyped
  <2> HIDE DEF batch
  <2>3. \A d \in Papers : /\ paper'[d] \in PaperRow
                          /\ d \notin batch => paper'[d] = paper[d]
    <3> SUFFICES ASSUME NEW d \in Papers
                 PROVE  /\ paper'[d] \in PaperRow
                        /\ d \notin batch => paper'[d] = paper[d]
      OBVIOUS
    <3>1. CASE d \in settled
      BY <1>6, <1>7, <2>1, <3>1
    <3>2. CASE d \in raised /\ again
      BY <1>6, <1>7, <2>1, <3>2
    <3>3. CASE d \in raised /\ ~again
      BY <1>6, <1>7, <2>1, <3>3
    <3>4. CASE d \notin settled /\ d \notin raised
      BY <1>6, <2>2, <3>4
    <3>5. QED
      BY <3>1, <3>2, <3>3, <3>4
  <2>4. QED
    BY <1>6, <2>3
<1> HIDE DEF batch
<1>9. PipeTyped'
  BY <1>1, <1>2, <1>4, <1>8 DEF PipeTyped
<1>10. visit[i].stage = "off" => InFlight(i)' = {}
  BY <1>4 DEF PipeInv, HandsOut
<1>11. \A d \in Papers : paper'[d] = paper[d] \/ d \in InFlight(i) \ InFlight(i)'
  BY <1>3, <1>4, <1>8
<1>12. QED
  BY <1>2, <1>4, <1>9, <1>10, <1>11, Onward

\* A run that is over, or whose process dies, owes nothing.
LEMMA RunEnds ==
    ASSUME PipeInv, NEW i \in Shard, End(i) \/ PipeCrash(i)
    PROVE  PipeInv'
<1> USE ParsePipelineAssumption
<1>1. PipeTyped
  BY DEF PipeInv
<1>2. /\ visit' = [visit EXCEPT ![i] = NoVisit] /\ UNCHANGED <<paper, clock>>
      /\ trouble' \in 0..MaxTrouble
  BY <1>1 DEF End, PipeCrash, Trouble, PipeTyped
<1>3. NoVisit \in Visiting /\ NoVisit.owed = {}
  BY DEF NoVisit, Visiting
<1>4. visit' \in [Shard -> Visiting] /\ visit'[i] = NoVisit /\ \A j \in Shard : i # j => visit'[j] = visit[j]
  BY <1>1, <1>2, <1>3 DEF PipeTyped
<1>5. /\ where' \in [Shard -> [Papers -> Place]] /\ InFlight(i)' = {}
      /\ \A j \in Shard : i # j => where'[j] = where[j]
  <2>1. CASE End(i)
    BY <1>1, <2>1 DEF End, InFlight, At, PipeTyped
  <2>2. CASE PipeCrash(i)
    <3>1. Put(i, Papers, "none") /\ "none" \in Place
      BY <2>2 DEF PipeCrash, Place
    <3>2. /\ where' \in [Shard -> [Papers -> Place]]
          /\ \A j \in Shard : i # j => where'[j] = where[j]
          /\ \A d \in Papers : where'[i][d] = "none"
      BY <1>1, <3>1, PutMoves
    <3>3. QED
      BY <3>2 DEF InFlight, At
  <2>3. QED
    BY <2>1, <2>2
<1>6. PipeTyped'
  BY <1>1, <1>2, <1>4, <1>5 DEF PipeTyped
<1>7. \A j \in Shard : i # j => HandsOut(j)'
  BY <1>2, <1>4, <1>5, <1>6, OthersHandOut
<1>8. HandsOut(i)'
  BY <1>3, <1>4, <1>5 DEF HandsOut
<1>9. QED
  BY <1>6, <1>7, <1>8 DEF PipeInv

\* A run begins with its share of what is due.
LEMMA RunBegins ==
    ASSUME PipeInv, NEW i \in Shard, Begin(i)
    PROVE  PipeInv'
<1> USE ParsePipelineAssumption
<1>1. PipeTyped /\ InFlight(i) = {}
  BY DEF PipeInv, HandsOut, Begin
<1>2. PICK limit \in Limits :
        visit' = [visit EXCEPT ![i] = [NoVisit EXCEPT !.stage = "running", !.left = limit, !.owed = Due(i)]]
  BY DEF Begin
<1>3. UNCHANGED <<paper, clock, where, trouble>>
  BY DEF Begin
<1> DEFINE run == [NoVisit EXCEPT !.stage = "running", !.left = limit, !.owed = Due(i)]
<1>4. /\ run.stage = "running" /\ run.last = <<0, 0>> /\ run.dry = FALSE /\ run.owed = Due(i)
      /\ NoVisit \in Visiting
  BY DEF NoVisit, Visiting
<1>5. run \in Visiting
  <2>1. limit \in Nat /\ Due(i) \in SUBSET Papers
    BY DEF Due
  <2>2. QED
    BY <1>4, <2>1 DEF Visiting
<1>6. visit' \in [Shard -> Visiting] /\ visit'[i] = run /\ \A j \in Shard : i # j => visit'[j] = visit[j]
  <2> HIDE DEF run
  <2>1. visit' = [visit EXCEPT ![i] = run]
    BY <1>2 DEF run
  <2>2. QED
    BY <1>1, <1>5, <2>1 DEF PipeTyped
<1>7. PipeTyped'
  BY <1>1, <1>3, <1>6 DEF PipeTyped
<1>8. InFlight(i)' = {} /\ Due(i)' = Due(i)
  BY <1>1, <1>3 DEF InFlight, At, Due
<1>9. \A j \in Shard : i # j => HandsOut(j)'
  BY <1>3, <1>6, <1>7, OthersHandOut
<1>10. \A d \in Due(i) : Beyond(d, <<0, 0>>)'
  <2>1. \A d \in Papers : Beyond(d, <<0, 0>>)
    BY <1>1, PositionsInOrder DEF PipeTyped
  <2>2. QED
    BY <1>3, <2>1 DEF Due, Beyond
<1>11. HandsOut(i)'
  <2>1. visit'[i].last = <<0, 0>> /\ visit'[i].owed = Due(i) /\ ~ visit'[i].dry
    BY <1>4, <1>6
  <2>2. QED
    BY <1>8, <1>10, <2>1 DEF HandsOut
<1>12. QED
  BY <1>7, <1>9, <1>11 DEF PipeInv

\* A page is handed out, or there is none any more.
LEMMA FetchPageKeeps ==
    ASSUME PipeInv, NEW i \in Shard, FetchPage(i)
    PROVE  PipeInv'
<1> USE ParsePipelineAssumption
<1> DEFINE rest == {d \in Due(i) : Beyond(d, visit[i].last)}
           page == PageOf(i)
           end  == CHOOSE d \in page : Rank(page, d) = Cardinality(page)
<1>1. PipeTyped /\ paper \in [Papers -> PaperRow] /\ visit[i] \in Visiting /\ visit \in [Shard -> Visiting]
  BY DEF PipeInv, PipeTyped
<1>2. /\ page \subseteq rest
      /\ page = {} /\ visit[i].left > 0 => rest = {}
      /\ page # {} => /\ end \in page
                      /\ \A d \in page : ~ Beyond(d, Position(end))
                      /\ \A d \in rest \ page : Beyond(d, Position(end))
                      /\ visit[i].left - Cardinality(page) \in Nat
  BY <1>1, NextPage
<1>3. visit[i].owed \subseteq rest
  BY DEF PipeInv, HandsOut
<1>4. UNCHANGED <<paper, clock, trouble>> /\ Fetching(i)
  BY DEF FetchPage
<1>5. /\ page = {} => visit' = [visit EXCEPT ![i].dry = TRUE] /\ UNCHANGED where
      /\ page # {} => /\ visit' = [visit EXCEPT ![i].last = <<paper[end].ts, end>>,
                                                ![i].left = @ - Cardinality(page),
                                                ![i].owed = @ \ page]
                      /\ Put(i, page, "buffer")
  BY DEF FetchPage
<1>6. rest \subseteq Papers
  BY DEF Due
<1>7. CASE page = {}
  <2> DEFINE run == [visit[i] EXCEPT !.dry = TRUE]
  <2>1. /\ run \in Visiting /\ run.stage = visit[i].stage /\ run.last = visit[i].last
        /\ run.owed = visit[i].owed
    BY <1>1 DEF Visiting
  <2>2. visit' = [visit EXCEPT ![i] = run]
    BY <1>5, <1>7
  <2> HIDE DEF run
  <2>3. visit' \in [Shard -> Visiting] /\ visit'[i] = run /\ \A j \in Shard : i # j => visit'[j] = visit[j]
    BY <1>1, <2>1, <2>2
  <2>4. PipeTyped'
    BY <1>1, <1>4, <1>5, <1>7, <2>3 DEF PipeTyped
  <2>5. \A j \in Shard : i # j => HandsOut(j)'
    BY <1>4, <1>5, <1>7, <2>3, <2>4, OthersHandOut
  <2>6. visit[i].owed = {}
    BY <1>2, <1>3, <1>4, <1>7 DEF Fetching
  <2>7. \A d \in InFlight(i)' : d \in InFlight(i) /\ Own(i, d) /\ ~ Beyond(d, visit[i].last)'
    <3>1. InFlight(i)' = InFlight(i)
      BY <1>5, <1>7 DEF InFlight, At
    <3>2. QED
      BY <1>4, <2>1, <2>3, <3>1 DEF PipeInv, HandsOut, Beyond
  <2>8. visit[i].stage # "off"
    BY <1>4 DEF Fetching
  <2>9. HandsOut(i)'
    <3>1. visit'[i].last = visit[i].last /\ visit'[i].owed = {} /\ visit'[i].stage # "off"
      BY <2>1, <2>3, <2>6, <2>8
    <3>2. QED
      BY <2>7, <3>1 DEF HandsOut
  <2>10. QED
    BY <2>4, <2>5, <2>9 DEF PipeInv
<1>8. CASE page # {}
  <2> DEFINE run == [visit[i] EXCEPT !.last = Position(end), !.left = @ - Cardinality(page), !.owed = @ \ page]
  <2>1. end \in Papers /\ page \subseteq Papers /\ Position(end) \in (0..LastTime) \X (0..MaxDoc)
    <3>1. end \in Papers /\ page \subseteq Papers
      BY <1>2, <1>6, <1>8
    <3>2. QED
      BY <1>1, <3>1, PositionsInOrder
  <2>2. visit' = [visit EXCEPT ![i] = run]
    BY <1>5, <1>8 DEF Position
  <2>3. visit[i].left - Cardinality(page) \in Nat
    BY <1>2, <1>8
  <2> HIDE DEF rest, page, end
  <2>4. /\ run \in Visiting /\ run.stage = visit[i].stage /\ run.last = Position(end)
        /\ run.owed = visit[i].owed \ page /\ run.dry = visit[i].dry
    BY <1>1, <2>1, <2>3 DEF Visiting
  <2> HIDE DEF run
  <2>5. visit' \in [Shard -> Visiting] /\ visit'[i] = run /\ \A j \in Shard : i # j => visit'[j] = visit[j]
    BY <1>1, <2>2, <2>4
  <2>6. "buffer" \in Place /\ "buffer" # "none" /\ Put(i, page, "buffer")
    BY <1>5, <1>8 DEF Place
  <2>7. /\ where' \in [Shard -> [Papers -> Place]]
        /\ \A j \in Shard : i # j => where'[j] = where[j]
        /\ InFlight(i)' \subseteq InFlight(i) \cup page
    BY <1>1, <2>6, PutMoves
  <2>8. PipeTyped'
    BY <1>1, <1>4, <2>5, <2>7 DEF PipeTyped
  <2>9. \A j \in Shard : i # j => HandsOut(j)'
    BY <1>4, <2>5, <2>7, <2>8, OthersHandOut
  <2>10. \A d, p : Beyond(d, p)' <=> Beyond(d, p)
    BY <1>4 DEF Beyond
  <2>11. \A d \in Papers : ~ Beyond(d, visit[i].last) => ~ Beyond(d, Position(end))
    <3>1. Beyond(end, visit[i].last) /\ visit[i].last \in (0..LastTime) \X (0..MaxDoc)
      BY <1>1, <1>2, <1>8 DEF rest, Visiting
    <3>2. QED
      BY <1>1, <2>1, <3>1, PositionsInOrder
  <2>12. \A d \in InFlight(i) \cup page : Own(i, d) /\ ~ Beyond(d, Position(end))
    <3>1. InFlight(i) \subseteq Papers
      BY DEF InFlight, At
    <3>2. \A d \in page : Own(i, d)
      BY <1>2 DEF rest, Due
    <3>3. QED
      BY <1>2, <1>8, <2>11, <3>1, <3>2 DEF PipeInv, HandsOut
  <2>13. \A d \in visit[i].owed \ page : /\ d \in Due(i) /\ d \notin InFlight(i) \cup page
                                         /\ Beyond(d, Position(end))
    BY <1>2, <1>3, <1>8 DEF PipeInv, HandsOut
  <2>14. Due(i)' = Due(i)
    BY <1>4 DEF Due
  <2>15. ~ visit[i].dry /\ visit[i].stage # "off"
    BY <1>4 DEF Fetching
  <2>16. HandsOut(i)'
    <3>1. /\ visit'[i].last = Position(end) /\ visit'[i].owed = visit[i].owed \ page
          /\ ~ visit'[i].dry /\ visit'[i].stage # "off"
      BY <2>4, <2>5, <2>15
    <3>2. \A d \in InFlight(i)' : Own(i, d) /\ ~ Beyond(d, Position(end))
      BY <2>7, <2>12
    <3>3. \A d : ~ Beyond(d, Position(end)) <=> ~ (Beyond(d, visit[i].last)')
      BY <2>10, <3>1 DEF Beyond
    <3>4. QED
      BY <2>7, <2>13, <2>14, <3>1, <3>2, <3>3 DEF HandsOut
  <2>17. QED
    BY <2>8, <2>9, <2>16 DEF PipeInv
<1>9. QED
  BY <1>7, <1>8

\* The clock, and a document that is to be parsed again, take nothing from a run.
LEMMA OutsidersKeep ==
    ASSUME PipeInv, (\E d \in Papers : RequeueDone(d)) \/ PipeTick \/ UNCHANGED parse
    PROVE  PipeInv'
<1> USE ParsePipelineAssumption
<1>1. PipeTyped
  BY DEF PipeInv
<1>2. UNCHANGED <<visit, where>> /\ clock' \in clock..LastTime /\ trouble' \in 0..MaxTrouble
  BY <1>1 DEF RequeueDone, PipeTick, parse, PipeTyped, Trouble
<1>3. /\ paper' \in [Papers -> PaperRow]
      /\ \A d \in Papers : paper'[d].ts = paper[d].ts /\ (paper[d].state = "pending" => paper'[d] = paper[d])
  <2>1. ASSUME NEW e \in Papers, RequeueDone(e)
        PROVE  /\ paper' \in [Papers -> PaperRow]
               /\ \A d \in Papers : paper'[d].ts = paper[d].ts /\ (paper[d].state = "pending" => paper'[d] = paper[d])
    <3> DEFINE row == [paper[e] EXCEPT !.state = "pending"]
    <3>1. paper[e] \in PaperRow /\ paper[e].state = "done"
      BY <1>1, <2>1 DEF RequeueDone, PipeTyped
    <3>2. row \in PaperRow /\ row.ts = paper[e].ts
      BY <3>1 DEF PaperRow
    <3>3. paper' = [paper EXCEPT ![e] = row]
      BY <2>1 DEF RequeueDone
    <3> HIDE DEF row
    <3>4. QED
      BY <1>1, <3>1, <3>2, <3>3 DEF PipeTyped
  <2>2. CASE PipeTick \/ UNCHANGED parse
    BY <1>1, <2>2 DEF PipeTick, parse, PipeTyped
  <2>3. QED
    BY <2>1, <2>2
<1>4. PipeTyped'
  BY <1>1, <1>2, <1>3 DEF PipeTyped
<1>5. ASSUME NEW i \in Shard PROVE HandsOut(i)'
  <2>1. InFlight(i)' = InFlight(i) /\ InFlight(i) \subseteq Papers
    BY <1>2 DEF InFlight, At
  <2>2. \A d \in Papers : \A p : Beyond(d, p)' <=> Beyond(d, p)
    BY <1>3 DEF Beyond
  <2>3. \A d \in Due(i) : d \in Papers /\ d \in Due(i)'
    <3> SUFFICES ASSUME NEW d \in Due(i) PROVE d \in Due(i)'
      BY DEF Due
    <3>1. d \in Papers /\ Own(i, d) /\ paper'[d] = paper[d] /\ paper[d].state = "pending" /\ paper[d].due <= clock
      BY <1>3 DEF Due
    <3>2. paper[d].due \in 0..LastTime + 1
      BY <1>1, <3>1 DEF PipeTyped, PaperRow
    <3>3. paper[d].due <= clock'
      BY <1>1, <1>2, <3>1, <3>2 DEF PipeTyped
    <3>4. QED
      BY <3>1, <3>3 DEF Due
  <2>4. QED
    BY <1>2, <2>1, <2>2, <2>3 DEF PipeInv, HandsOut, Beyond
<1>6. QED
  BY <1>4, <1>5 DEF PipeInv

LEMMA PipeStepKeeps == PipeInv /\ [PipeNext]_parse => PipeInv'
<1> SUFFICES ASSUME PipeInv, [PipeNext]_parse PROVE PipeInv'
  OBVIOUS
<1>1. QED
  BY PipelineMoves, StoreBatchKeeps, RunEnds, RunBegins, FetchPageKeeps, OutsidersKeep DEF PipeNext, PipeStep

\* Types of the rows, the runs, and where documents are.
THEOREM PipeTypes == PipeSpec => []PipeTypeOK
<1>1. PipeInv => PipeTypeOK
  BY DEF PipeInv, PipeTyped, PipeTypeOK, Visiting
<1>2. QED
  BY <1>1, PipeFirst, PipeStepKeeps, PTL DEF PipeSpec

\* Every document that was due is handed out, and no document is handed out while
\* it is on its way, for any documents, processes, limits and capacities.
THEOREM HandedOutOnce == PipeSpec => []EachOnce
<1>1. PipeInv => EachOnce
  <2> SUFFICES ASSUME PipeInv PROVE EachOnce
    OBVIOUS
  <2>1. \A i \in Shard : visit[i].dry => visit[i].owed = {}
    BY DEF PipeInv, HandsOut
  <2>2. ASSUME NEW i \in Shard, NEW j \in Shard, NEW d \in PageOf(i), d \in InFlight(j) PROVE FALSE
    <3>1. d \in Due(i) /\ Beyond(d, visit[i].last)
      BY DEF PageOf
    <3>2. Own(i, d) /\ Own(j, d) /\ ~ Beyond(d, visit[j].last)
      BY <2>2, <3>1 DEF Due, PipeInv, HandsOut
    <3>3. i = j
      BY <3>2, OneOwner
    <3>4. QED
      BY <3>1, <3>2, <3>3
  <2>3. QED
    BY <2>1, <2>2 DEF EachOnce
<1>2. QED
  BY <1>1, PipeFirst, PipeStepKeeps, PTL DEF PipeSpec

-----------------------------------------------------------------------------
(* TableSources                                                            *)

\* What the marks say of a sheet, and of a source.
MarkOfSheet == [off : Nat, total : Nat, version : Nat, tail : Nat, finished : BOOLEAN]
MarkedSource == [of : [Sheets -> MarkOfSheet], done : BOOLEAN, low : Nat, head : Nat]

AllRows == Sheets \X (1..MaxRows)

LookStages == {"idle", "fetch", "reopen", "backfill", "chunk", "end"}

Looking == [stage : LookStages, todo : SUBSET Sheets, draft : MarkedSource, old : MarkedSource,
            got : SUBSET AllRows, sheet : Nat, pages : Nat, closing : BOOLEAN]

TablesTyped ==
    /\ kind \in {"sheet", "records", "index"}
    /\ table \in [Sheets -> [rows : 0..MaxRows, version : Nat]]
    /\ marks \in MarkedSource
    /\ look \in Looking
    /\ stored \in SUBSET AllRows /\ late \in SUBSET AllRows
    /\ hitches \in 0..MaxHitches

\* The first n rows of sheet t, as far as there are that many, are in C.
ReadUpTo(t, n, C) == \A i \in 1..n : i <= table[t].rows => <<t, i>> \in C

\* What is below an offset is in C.  A version is recorded when the offset has
\* reached its rows, and rows of records are added beyond every cursor.
MarkSound(m, t, C) ==
    /\ m.off <= MaxRows + PageRows /\ m.total <= table[t].rows /\ m.version <= table[t].version
    /\ ReadUpTo(t, m.off, C) /\ ReadUpTo(t, m.tail, C)
    /\ kind = "sheet" /\ m.version = table[t].version => m.off >= table[t].rows
    /\ kind # "sheet" => m.off <= table[t].rows /\ m.tail <= table[t].rows
    /\ kind # "records" => m.tail = 0
    /\ kind = "records" /\ m.off > 0 => ~ m.finished

\* A sheet that is finished has been read as far as it was listed.
ReadAsListed(m, t, C) == kind = "records" /\ m.finished => ReadUpTo(t, m.total, C)

\* An index has no gap between its marks.
Gapless(D, C) ==
    /\ D.low <= D.head /\ D.head <= table[1].rows /\ (D.low = 0 => D.head = 0)
    /\ D.low > 0 => kind = "index" /\ \A i \in D.low..D.head : <<1, i>> \in C

\* The marks hold of what is stored, those of the visit of what is stored when
\* they are; a sheet that is still to be asked for is as it was, but for its size.
TablesInv ==
    /\ TablesTyped
    /\ \A t \in Sheets :
         /\ table[t].version >= 1 /\ table[t].version <= 1 + table[t].rows + hitches
         /\ MarkSound(marks.of[t], t, stored \cup late)
         /\ ReadAsListed(marks.of[t], t, stored \cup late)
         /\ MarkSound(look.draft.of[t], t, stored \cup late \cup look.got)
         /\ t \notin look.todo => ReadAsListed(look.draft.of[t], t, stored \cup late \cup look.got)
         /\ t \in look.todo => look.draft.of[t].finished = marks.of[t].finished
    /\ Gapless(marks, stored \cup late) /\ Gapless(look.draft, stored \cup late \cup look.got)
    /\ look.stage = "fetch" => look.old = marks
    /\ look.stage # "fetch" => look.todo = {}
    /\ look.stage = "chunk" => look.sheet \in Sheets
    /\ look.stage \in {"idle", "reopen", "backfill", "end"} => look.got = {}
    /\ look.stage = "chunk" /\ look.pages = 0 => look.got = {}
    /\ kind = "index" /\ look.todo # {} => look.got = {}
    /\ kind # "sheet" => late = {}

LEMMA TablesConstants ==
    /\ SheetCount \in Nat \ {0} /\ MaxRows \in Nat \ {0} /\ PageRows \in Nat \ {0}
    /\ MaxPages \in Nat \ {0} /\ MaxHitches \in Nat
    /\ Sheets \subseteq Nat /\ 1 \in Sheets
BY TableSourcesAssumption DEF Sheets

\* The rows of an answer.
LEMMA RowsOfTable ==
    ASSUME TablesTyped, NEW t \in Sheets, NEW from \in Int, NEW to \in Int
    PROVE  \A u, i : <<u, i>> \in RowsOf(t, from, to)
             <=> u = t /\ i \in Int /\ from <= i /\ i <= to /\ i <= table[t].rows
<1>1. table[t].rows \in Int
  BY DEF TablesTyped
<1>2. Min({to, table[t].rows}) = IF to <= table[t].rows THEN to ELSE table[t].rows
  BY <1>1, OfTwo
<1>3. \A u, i : <<u, i>> \in RowsOf(t, from, to) <=> u = t /\ i \in from..Min({to, table[t].rows})
  BY DEF RowsOf
<1>4. \A i : i \in from..Min({to, table[t].rows}) <=> i \in Int /\ from <= i /\ i <= to /\ i <= table[t].rows
  BY <1>1, <1>2
<1>5. QED
  BY <1>3, <1>4

LEMMA RowsOfTableTyped ==
    ASSUME TablesTyped, NEW t \in Sheets, NEW from \in Int, NEW to \in Int, from >= 1
    PROVE  RowsOf(t, from, to) \subseteq AllRows
<1>1. table[t].rows \in 0..MaxRows /\ MaxRows \in Nat
  BY TablesConstants DEF TablesTyped
<1>2. \A x \in RowsOf(t, from, to) : x = <<x[1], x[2]>>
  BY DEF RowsOf
<1>3. \A x \in RowsOf(t, from, to) : x[1] = t /\ x[2] \in Int /\ from <= x[2] /\ x[2] <= table[t].rows
  BY <1>2, RowsOfTable
<1>4. \A x \in RowsOf(t, from, to) : <<x[1], x[2]>> \in AllRows
  BY <1>1, <1>3 DEF AllRows
<1>5. QED
  BY <1>2, <1>4

\* What is sound stays so when more is stored.
LEMMA StillSound ==
    ASSUME NEW m, NEW t, NEW C, NEW E, C \subseteq E
    PROVE  /\ MarkSound(m, t, C) => MarkSound(m, t, E)
           /\ ReadAsListed(m, t, C) => ReadAsListed(m, t, E)
           /\ \A D : Gapless(D, C) => Gapless(D, E)
BY DEF MarkSound, ReadAsListed, ReadUpTo, Gapless

\* No marks at all.
LEMMA Unmarked ==
    /\ NoMarks \in MarkedSource /\ NoMarks.low = 0 /\ NoMarks.head = 0
    /\ \A t \in Sheets : /\ NoMarks.of[t] \in MarkOfSheet /\ NoMarks.of[t].off = 0 /\ NoMarks.of[t].total = 0
                         /\ NoMarks.of[t].version = 0 /\ NoMarks.of[t].tail = 0 /\ ~ NoMarks.of[t].finished
    /\ NoLook \in Looking /\ NoLook.stage = "idle" /\ NoLook.todo = {} /\ NoLook.draft = NoMarks
    /\ NoLook.old = NoMarks /\ NoLook.got = {} /\ NoLook.pages = 0
BY DEF NoMarks, NoLook, MarkedSource, MarkOfSheet, Looking, LookStages

LEMMA UnmarkedSound ==
    ASSUME TablesTyped, NEW C, \A t \in Sheets : table[t].version >= 1
    PROVE  /\ \A t \in Sheets : MarkSound(NoMarks.of[t], t, C) /\ ReadAsListed(NoMarks.of[t], t, C)
           /\ Gapless(NoMarks, C)
<1>1. \A t \in Sheets : table[t].rows \in Nat /\ table[t].version \in Nat
  BY DEF TablesTyped
<1>2. \A t \in Sheets : ReadUpTo(t, 0, C)
  BY DEF ReadUpTo
<1>3. ASSUME NEW t \in Sheets PROVE MarkSound(NoMarks.of[t], t, C) /\ ReadAsListed(NoMarks.of[t], t, C)
  <2> DEFINE m == NoMarks.of[t]
  <2>1. m.off = 0 /\ m.total = 0 /\ m.version = 0 /\ m.tail = 0 /\ ~ m.finished
    BY Unmarked
  <2> HIDE DEF m
  <2>2. MarkSound(m, t, C)
    BY <1>1, <1>2, <2>1, TablesConstants DEF MarkSound
  <2>3. ReadAsListed(m, t, C)
    BY <2>1 DEF ReadAsListed
  <2>4. QED
    BY <2>2, <2>3 DEF m
<1>4. Gapless(NoMarks, C)
  BY <1>1, Unmarked, TablesConstants DEF Gapless
<1>5. QED
  BY <1>3, <1>4

LEMMA TablesFirst == TablesInit => TablesInv
<1> SUFFICES ASSUME TablesInit PROVE TablesInv
  OBVIOUS
<1> USE TableSourcesAssumption, TablesConstants
<1>1. \A t \in Sheets : /\ table[t] \in [rows : 0..MaxRows, version : Nat]
                        /\ table[t].version >= 1 /\ table[t].version <= 1 + table[t].rows
  BY DEF TablesInit
<1>2. table \in [Sheets -> [rows : 0..MaxRows, version : Nat]]
  BY <1>1 DEF TablesInit
<1>3. TablesTyped
  BY <1>2, Unmarked DEF TablesInit, TablesTyped
<1>4. QED
  BY <1>1, <1>3, Unmarked, UnmarkedSound DEF TablesInit, TablesInv

\* A change of the visit in sheet t, which adds rows to what it has read.
LEMMA SheetTurns ==
    ASSUME TablesInv, NEW t \in Sheets, NEW m, NEW rows \in SUBSET AllRows,
           look' \in Looking, look'.stage = look.stage, look'.old = look.old, look'.sheet = look.sheet,
           look'.todo = look.todo \ {t}, look'.got = look.got \cup rows,
           look.stage = "chunk" => look'.pages # 0,
           look.stage \in {"fetch", "chunk"}, kind # "index",
           look'.draft.of[t] = m, \A u \in Sheets : u # t => look'.draft.of[u] = look.draft.of[u],
           look'.draft.low = look.draft.low, look'.draft.head = look.draft.head,
           MarkSound(m, t, stored \cup late \cup look.got \cup rows),
           ReadAsListed(m, t, stored \cup late \cup look.got \cup rows),
           UNCHANGED <<kind, table, marks, stored, late, hitches>>
    PROVE  TablesInv'
<1> DEFINE C == stored \cup late \cup look.got
           E == stored \cup late \cup look.got \cup rows
<1>1. C \subseteq E /\ (stored \cup late \cup look.got)' = E /\ (stored \cup late)' = stored \cup late
  OBVIOUS
<1>2. TablesTyped'
  BY DEF TablesInv, TablesTyped
<1>3. ASSUME NEW u \in Sheets
      PROVE  /\ MarkSound(marks.of[u], u, stored \cup late)'
             /\ ReadAsListed(marks.of[u], u, stored \cup late)'
             /\ MarkSound(look.draft.of[u], u, stored \cup late \cup look.got)'
             /\ (u \notin look.todo => ReadAsListed(look.draft.of[u], u, stored \cup late \cup look.got))'
             /\ (u \in look.todo => look.draft.of[u].finished = marks.of[u].finished)'
  <2>1. MarkSound(marks.of[u], u, stored \cup late) /\ ReadAsListed(marks.of[u], u, stored \cup late)
    BY DEF TablesInv
  <2>2. MarkSound(look'.draft.of[u], u, E)
    <3>1. CASE u = t
      BY <3>1
    <3>2. CASE u # t
      BY <1>1, <3>2, StillSound DEF TablesInv
    <3>3. QED
      BY <3>1, <3>2
  <2>3. u \notin look'.todo => ReadAsListed(look'.draft.of[u], u, E)
    <3>1. CASE u = t
      BY <3>1
    <3>2. CASE u # t /\ u \notin look.todo
      <4>1. ReadAsListed(look.draft.of[u], u, C)
        BY <3>2 DEF TablesInv
      <4>2. ReadAsListed(look.draft.of[u], u, E)
        BY <4>1 DEF ReadAsListed, ReadUpTo
      <4>3. QED
        BY <3>2, <4>2
    <3>3. QED
      BY <3>1, <3>2
  <2>4. u \in look'.todo => look'.draft.of[u].finished = marks.of[u].finished
    BY DEF TablesInv
  <2> HIDE DEF C, E
  <2>5. QED
    BY <1>1, <2>1, <2>2, <2>3, <2>4 DEF MarkSound, ReadAsListed, ReadUpTo
<1>4. Gapless(marks, stored \cup late)' /\ Gapless(look.draft, stored \cup late \cup look.got)'
  BY <1>1 DEF TablesInv, Gapless
<1>5. QED
  BY <1>2, <1>3, <1>4 DEF TablesInv

\* What holds of a mark holds of it when its sheet has another version or a row
\* more, if that row is stored or taken note of, or is beyond the offset.
LEMMA Grown ==
    ASSUME TablesTyped, TablesTyped', kind' = kind, NEW u \in Sheets, NEW m \in MarkOfSheet,
           NEW C, NEW E, C \subseteq E, MarkSound(m, u, C),
           \/ table'[u] = table[u]
           \/ table'[u].rows = table[u].rows /\ table'[u].version = table[u].version + 1
           \/ /\ table'[u].rows = table[u].rows + 1 /\ table'[u].version = table[u].version + 1
              /\ kind = "sheet" /\ m.off > table[u].rows => <<u, table[u].rows + 1>> \in E
    PROVE  MarkSound(m, u, E)' /\ (ReadAsListed(m, u, C) => ReadAsListed(m, u, E)')
<1>1. /\ table[u].rows \in Nat /\ table[u].version \in Nat /\ table'[u].rows \in Nat /\ table'[u].version \in Nat
      /\ m.off \in Nat /\ m.total \in Nat /\ m.version \in Nat /\ m.tail \in Nat
  BY TablesConstants DEF TablesTyped, MarkOfSheet
<1>2. CASE table'[u] = table[u]
  BY <1>2 DEF MarkSound, ReadAsListed, ReadUpTo
<1>3. CASE table'[u].rows = table[u].rows /\ table'[u].version = table[u].version + 1
  <2>1. m.version # table'[u].version /\ m.version <= table'[u].version
    BY <1>1, <1>3 DEF MarkSound
  <2>2. QED
    BY <1>3, <2>1 DEF MarkSound, ReadAsListed, ReadUpTo
<1>4. CASE /\ table'[u].rows = table[u].rows + 1 /\ table'[u].version = table[u].version + 1
           /\ kind = "sheet" /\ m.off > table[u].rows => <<u, table[u].rows + 1>> \in E
  <2>1. m.version # table'[u].version /\ m.version <= table'[u].version
    BY <1>1, <1>4 DEF MarkSound
  <2>2. m.off <= table[u].rows \/ (kind = "sheet" /\ <<u, table[u].rows + 1>> \in E)
    BY <1>1, <1>4 DEF MarkSound
  <2>3. m.tail <= table[u].rows
    BY <1>1 DEF MarkSound
  <2>4. ReadUpTo(u, m.off, E)'
    BY <1>1, <1>4, <2>2 DEF MarkSound, ReadUpTo
  <2>5. ReadUpTo(u, m.tail, E)'
    BY <1>1, <1>4, <2>3 DEF MarkSound, ReadUpTo
  <2>6. ReadUpTo(u, m.total, C) => ReadUpTo(u, m.total, E)'
    BY <1>1, <1>4 DEF MarkSound, ReadUpTo
  <2>7. MarkSound(m, u, E)'
    BY <1>1, <1>4, <2>1, <2>2, <2>4, <2>5 DEF MarkSound
  <2>8. QED
    BY <2>6, <2>7 DEF ReadAsListed
<1>5. QED
  BY <1>2, <1>3, <1>4

\* The owners of the tables.
LEMMA OwnersKeep ==
    ASSUME TablesInv, NEW t \in Sheets, AddRow(t) \/ Edit(t)
    PROVE  TablesInv'
<1>1. TablesTyped
  BY DEF TablesInv
<1>2. UNCHANGED <<kind, marks, look, stored>>
  BY DEF AddRow, Edit
<1> DEFINE n == table[t].rows
           v == table[t].version
<1>3. n \in Nat /\ v \in Nat /\ n <= MaxRows
  BY <1>1, TablesConstants DEF TablesTyped
<1>4. /\ \/ n < MaxRows /\ table'[t].rows = n + 1 /\ table'[t].version = v + 1 /\ hitches' = hitches
         \/ table'[t].rows = n /\ table'[t].version = v + 1 /\ hitches' = hitches + 1 /\ late' = late
      /\ table' \in [Sheets -> [rows : 0..MaxRows, version : Nat]]
      /\ \A u \in Sheets : u # t => table'[u] = table[u]
  <2> DEFINE grown == [rows |-> n + 1, version |-> v + 1]
             edited == [table[t] EXCEPT !.version = v + 1]
  <2>1. table[t] \in [rows : 0..MaxRows, version : Nat] /\ table \in [Sheets -> [rows : 0..MaxRows, version : Nat]]
    BY <1>1 DEF TablesTyped
  <2>2. edited \in [rows : 0..MaxRows, version : Nat] /\ edited.rows = n /\ edited.version = v + 1
    BY <1>3, <2>1
  <2>3. n < MaxRows => grown \in [rows : 0..MaxRows, version : Nat]
    BY <1>3, TablesConstants
  <2>4. AddRow(t) => n < MaxRows /\ table' = [table EXCEPT ![t] = grown] /\ hitches' = hitches
    BY DEF AddRow
  <2>5. Edit(t) => table' = [table EXCEPT ![t] = edited] /\ hitches' = hitches + 1 /\ late' = late
    BY DEF Edit, Hitch
  <2>6. grown.rows = n + 1 /\ grown.version = v + 1
    OBVIOUS
  <2> HIDE DEF grown, edited, n, v
  <2>7. CASE AddRow(t)
    BY <2>1, <2>3, <2>4, <2>6, <2>7
  <2>8. CASE Edit(t)
    BY <2>1, <2>2, <2>5, <2>8
  <2>9. QED
    BY <2>7, <2>8
<1>5. late' \in SUBSET AllRows /\ late \subseteq late' /\ (kind # "sheet" => late' = late)
  <2>1. CASE AddRow(t)
    <3>1. n < MaxRows /\ late' \in {late, late \cup {<<t, n + 1>>}} /\ (kind # "sheet" => late' = late)
      BY <2>1 DEF AddRow
    <3>2. n < MaxRows => <<t, n + 1>> \in AllRows
      BY <1>3, TablesConstants DEF AllRows
    <3>3. late \in SUBSET AllRows
      BY <1>1 DEF TablesTyped
    <3>4. QED
      BY <3>1, <3>2, <3>3
  <2>2. CASE Edit(t)
    BY <1>1, <2>2 DEF Edit, TablesTyped
  <2>3. QED
    BY <2>1, <2>2
<1>6. hitches' \in 0..MaxHitches
  BY <1>1, TablesConstants DEF AddRow, Edit, Hitch, TablesTyped
<1>7. TablesTyped'
  BY <1>1, <1>2, <1>4, <1>5, <1>6 DEF TablesTyped
<1>8. \A u \in Sheets : marks.of[u] \in MarkOfSheet /\ look.draft.of[u] \in MarkOfSheet
  BY <1>1 DEF TablesTyped, Looking, MarkedSource
<1>9. table'[t].rows = n + 1 /\ kind = "sheet" /\ (marks.of[t].off > n \/ look.draft.of[t].off > n)
        => <<t, n + 1>> \in late'
  <2> SUFFICES ASSUME table'[t].rows = n + 1, kind = "sheet", marks.of[t].off > n \/ look.draft.of[t].off > n
               PROVE  <<t, n + 1>> \in late'
    OBVIOUS
  <2>1. marks.of[t].off \in Int /\ look.draft.of[t].off \in Int
    BY <1>8 DEF MarkOfSheet
  <2>2. n < Max({marks.of[t].off, look.draft.of[t].off})
    BY <1>3, <2>1, OfTwo
  <2>3. CASE AddRow(t)
    BY <2>2, <2>3 DEF AddRow
  <2>4. CASE Edit(t)
    <3>1. table'[t].rows = n
      <4>1. table[t] \in [rows : 0..MaxRows, version : Nat]
        BY <1>1 DEF TablesTyped
      <4>2. table'[t] = [table[t] EXCEPT !.version = v + 1]
        BY <1>1, <2>4 DEF Edit, TablesTyped
      <4>3. QED
        BY <4>1, <4>2
    <3>2. QED
      BY <1>3, <3>1
  <2>5. QED
    BY <2>3, <2>4
<1>10. ASSUME NEW u \in Sheets, NEW m \in MarkOfSheet, m = marks.of[u] \/ m = look.draft.of[u],
              NEW C, NEW E, C \subseteq E, MarkSound(m, u, C), late' \subseteq E
       PROVE  MarkSound(m, u, E)' /\ (ReadAsListed(m, u, C) => ReadAsListed(m, u, E)')
  <2>1. \/ table'[u] = table[u]
        \/ table'[u].rows = table[u].rows /\ table'[u].version = table[u].version + 1
        \/ /\ table'[u].rows = table[u].rows + 1 /\ table'[u].version = table[u].version + 1
           /\ kind = "sheet" /\ m.off > table[u].rows => <<u, table[u].rows + 1>> \in E
    <3>1. CASE u # t
      BY <1>4, <3>1
    <3>2. CASE u = t
      BY <1>4, <1>9, <1>10, <3>2
    <3>3. QED
      BY <3>1, <3>2
  <2>2. QED
    BY <1>1, <1>2, <1>7, <1>10, <2>1, Grown
<1>11. ASSUME NEW u \in Sheets
       PROVE  /\ (table[u].version >= 1 /\ table[u].version <= 1 + table[u].rows + hitches)'
              /\ MarkSound(marks.of[u], u, stored \cup late)'
              /\ ReadAsListed(marks.of[u], u, stored \cup late)'
              /\ MarkSound(look.draft.of[u], u, stored \cup late \cup look.got)'
              /\ (u \notin look.todo => ReadAsListed(look.draft.of[u], u, stored \cup late \cup look.got))'
              /\ (u \in look.todo => look.draft.of[u].finished = marks.of[u].finished)'
  <2>1. (table[u].version >= 1 /\ table[u].version <= 1 + table[u].rows + hitches)'
    <3>1. table[u].version >= 1 /\ table[u].version <= 1 + table[u].rows + hitches
      BY DEF TablesInv
    <3>2. hitches \in Nat /\ hitches' >= hitches /\ table[u].rows \in Nat /\ table[u].version \in Nat
      BY <1>1, <1>4, TablesConstants DEF TablesTyped, AddRow, Edit, Hitch
    <3>3. CASE u = t
      BY <1>4, <3>1, <3>2, <3>3
    <3>4. CASE u # t
      BY <1>4, <3>1, <3>2, <3>4
    <3>5. QED
      BY <3>3, <3>4
  <2>2. PICK m : m = marks.of[u]
    OBVIOUS
  <2>3. PICK d : d = look.draft.of[u]
    OBVIOUS
  <2>4. PICK C : C = stored \cup late
    OBVIOUS
  <2>5. PICK E : E = (stored \cup late)'
    OBVIOUS
  <2>6. PICK F : F = stored \cup late \cup look.got
    OBVIOUS
  <2>7. PICK G : G = (stored \cup late \cup look.got)'
    OBVIOUS
  <2>8. C \subseteq E /\ F \subseteq G /\ late' \subseteq E /\ late' \subseteq G
    BY <1>2, <1>5, <2>4, <2>5, <2>6, <2>7
  <2>9. m \in MarkOfSheet /\ d \in MarkOfSheet
    BY <1>8, <2>2, <2>3
  <2>10. /\ MarkSound(m, u, C) /\ ReadAsListed(m, u, C) /\ MarkSound(d, u, F)
         /\ u \notin look.todo => ReadAsListed(d, u, F)
         /\ u \in look.todo => d.finished = m.finished
    BY <2>2, <2>3, <2>4, <2>6 DEF TablesInv
  <2>11. MarkSound(m, u, E)' /\ ReadAsListed(m, u, E)'
    BY <1>10, <2>2, <2>8, <2>9, <2>10
  <2>12. MarkSound(d, u, G)' /\ (u \notin look.todo => ReadAsListed(d, u, G)')
    BY <1>10, <2>3, <2>8, <2>9, <2>10
  <2>13. m = marks'.of[u] /\ d = look'.draft.of[u] /\ look'.todo = look.todo
    BY <1>2, <2>2, <2>3
  <2>14. MarkSound(marks.of[u], u, stored \cup late)' /\ ReadAsListed(marks.of[u], u, stored \cup late)'
    BY <2>5, <2>11, <2>13
  <2>15. /\ MarkSound(look.draft.of[u], u, stored \cup late \cup look.got)'
         /\ (u \notin look.todo => ReadAsListed(look.draft.of[u], u, stored \cup late \cup look.got))'
    BY <2>7, <2>12, <2>13
  <2>16. QED
    BY <2>1, <2>10, <2>13, <2>14, <2>15
<1>12. Gapless(marks, stored \cup late)' /\ Gapless(look.draft, stored \cup late \cup look.got)'
  <2>1. table[1].rows <= table'[1].rows /\ table[1].rows \in Nat /\ table'[1].rows \in Nat
    BY <1>1, <1>4, <1>7, TablesConstants DEF TablesTyped
  <2>2. /\ marks.head \in Nat /\ marks.low \in Nat /\ look.draft.head \in Nat /\ look.draft.low \in Nat
    BY <1>1 DEF TablesTyped, Looking, MarkedSource
  <2>3. /\ stored \cup late \subseteq (stored \cup late)'
        /\ stored \cup late \cup look.got \subseteq (stored \cup late \cup look.got)'
    BY <1>2, <1>5
  <2>4. Gapless(marks, stored \cup late) /\ Gapless(look.draft, stored \cup late \cup look.got)
    BY DEF TablesInv
  <2>5. QED
    BY <1>2, <2>1, <2>2, <2>3, <2>4 DEF Gapless
<1>13. QED
  BY <1>2, <1>5, <1>7, <1>11, <1>12 DEF TablesInv

\* Marks D that hold of what is stored become those of the source, and nothing is
\* left of what the visit has read.
LEMMA Committed ==
    ASSUME TablesInv, NEW D \in MarkedSource, NEW E, E = (stored \cup late)',
           \A t \in Sheets : MarkSound(D.of[t], t, E) /\ ReadAsListed(D.of[t], t, E),
           Gapless(D, E),
           marks' \in MarkedSource, marks'.of = D.of, marks'.low = D.low, marks'.head = D.head,
           look' \in Looking, look'.got = {}, look'.todo = {}, look'.stage # "fetch",
           look'.stage = "chunk" => look'.sheet \in Sheets,
           \/ look'.draft.of = D.of /\ look'.draft.low = D.low /\ look'.draft.head = D.head
           \/ look'.draft = NoMarks
           \/ look'.draft = look.draft /\ look.got = {} /\ look.todo = {} /\ stored' = stored /\ late' = late,
           stored' \in SUBSET AllRows, late' \in SUBSET late, hitches' \in hitches..MaxHitches,
           UNCHANGED <<kind, table>>
    PROVE  TablesInv'
<1>1. TablesTyped
  BY DEF TablesInv
<1>2. TablesTyped'
  <2>1. hitches' \in 0..MaxHitches
    BY <1>1, TablesConstants DEF TablesTyped
  <2>2. QED
    BY <1>1, <2>1 DEF TablesTyped
<1>3. PICK G : G = (stored \cup late \cup look.got)'
  OBVIOUS
<1>4. G = E
  BY <1>3
<1>5. \A t \in Sheets : table[t].version >= 1 /\ table[t].rows \in Nat /\ table[t].version \in Nat
  BY <1>1, TablesConstants DEF TablesTyped, TablesInv
<1>6. \A t \in Sheets : MarkSound(NoMarks.of[t], t, E) /\ ReadAsListed(NoMarks.of[t], t, E)
  BY <1>1, <1>5, UnmarkedSound
<1>7. Gapless(NoMarks, E)
  BY <1>1, <1>5, UnmarkedSound
<1>8. ASSUME NEW t \in Sheets
      PROVE  /\ (table[t].version >= 1 /\ table[t].version <= 1 + table[t].rows + hitches)'
             /\ MarkSound(marks.of[t], t, stored \cup late)'
             /\ ReadAsListed(marks.of[t], t, stored \cup late)'
             /\ MarkSound(look.draft.of[t], t, stored \cup late \cup look.got)'
             /\ ReadAsListed(look.draft.of[t], t, stored \cup late \cup look.got)'
  <2>1. (table[t].version >= 1 /\ table[t].version <= 1 + table[t].rows + hitches)'
    <3>1. table[t].version >= 1 /\ table[t].version <= 1 + table[t].rows + hitches
      BY DEF TablesInv
    <3>2. hitches \in Nat /\ hitches' \in Nat /\ hitches <= hitches'
      BY <1>1, TablesConstants DEF TablesTyped
    <3>3. QED
      BY <1>5, <3>1, <3>2
  <2>2. MarkSound(marks'.of[t], t, E) /\ ReadAsListed(marks'.of[t], t, E)
    OBVIOUS
  <2>3. MarkSound(look'.draft.of[t], t, E) /\ ReadAsListed(look'.draft.of[t], t, E)
    <3>1. CASE look'.draft = look.draft /\ look.got = {} /\ look.todo = {} /\ stored' = stored /\ late' = late
      <4>1. E = stored \cup late \cup look.got
        BY <3>1
      <4>2. QED
        BY <3>1, <4>1 DEF TablesInv
    <3>2. QED
      BY <1>6, <3>1
  <2>4. QED
    BY <1>3, <1>4, <2>1, <2>2, <2>3 DEF MarkSound, ReadAsListed, ReadUpTo
<1>9. Gapless(marks', E) /\ Gapless(look'.draft, E)
  <2>1. Gapless(marks', E)
    BY DEF Gapless
  <2>2. Gapless(look'.draft, E)
    <3>1. CASE look'.draft = look.draft /\ look.got = {} /\ look.todo = {} /\ stored' = stored /\ late' = late
      <4>1. E = stored \cup late \cup look.got
        BY <3>1
      <4>2. QED
        BY <3>1, <4>1 DEF TablesInv
    <3>2. QED
      BY <1>7, <3>1 DEF Gapless
  <2>3. QED
    BY <2>1, <2>2
<1>10. Gapless(marks, stored \cup late)' /\ Gapless(look.draft, stored \cup late \cup look.got)'
  BY <1>3, <1>4, <1>9 DEF Gapless
<1>11. kind' # "sheet" => late' = {}
  BY DEF TablesInv
<1>12. QED
  BY <1>2, <1>8, <1>10, <1>11 DEF TablesInv

\* The marks of the visit hold, once what they are about is stored.
LEMMA DraftHolds ==
    ASSUME TablesInv, look.todo = {}, NEW E, E = stored \cup late \cup look.got
    PROVE  /\ \A t \in Sheets : MarkSound(look.draft.of[t], t, E) /\ ReadAsListed(look.draft.of[t], t, E)
           /\ Gapless(look.draft, E)
           /\ look.draft \in MarkedSource /\ stored \cup look.got \in SUBSET AllRows
<1>1. look.draft \in MarkedSource /\ stored \cup look.got \in SUBSET AllRows
  BY DEF TablesInv, TablesTyped, Looking
<1>2. QED
  BY <1>1 DEF TablesInv

LEMMA MarksHold ==
    ASSUME TablesInv, NEW E, E = stored \cup late
    PROVE  /\ \A t \in Sheets : MarkSound(marks.of[t], t, E) /\ ReadAsListed(marks.of[t], t, E)
           /\ Gapless(marks, E)
           /\ marks \in MarkedSource /\ stored \in SUBSET AllRows /\ hitches \in hitches..MaxHitches
<1>1. marks \in MarkedSource /\ stored \in SUBSET AllRows /\ hitches \in hitches..MaxHitches
  BY TablesConstants DEF TablesInv, TablesTyped
<1>2. QED
  BY <1>1 DEF TablesInv

\* The commits of a visit, and its end.
LEMMA VisitCommits ==
    ASSUME TablesInv, StoreFetched \/ StoreCall
    PROVE  TablesInv'
<1>1. look \in Looking /\ look.todo = {}
  BY DEF TablesInv, TablesTyped, StoreFetched, StoreCall
<1>2. PICK E : E = (stored \cup late)'
  OBVIOUS
<1>3. PICK D : D = look.draft
  OBVIOUS
<1>4. stored' = stored \cup look.got /\ UNCHANGED <<kind, table, late, hitches>>
  BY DEF StoreFetched, StoreCall
<1>5. E = stored \cup late \cup look.got
  BY <1>2, <1>4
<1>6. /\ \A t \in Sheets : MarkSound(D.of[t], t, E) /\ ReadAsListed(D.of[t], t, E)
      /\ Gapless(D, E) /\ D \in MarkedSource /\ stored' \in SUBSET AllRows
  BY <1>1, <1>3, <1>4, <1>5, DraftHolds
<1>7. hitches' \in hitches..MaxHitches
  BY <1>4, MarksHold
<1>8. marks' \in MarkedSource /\ marks'.of = D.of /\ marks'.low = D.low /\ marks'.head = D.head
  <2>1. CASE StoreFetched
    BY <1>3, <1>6, <2>1 DEF StoreFetched
  <2>2. CASE StoreCall
    <3> DEFINE done == IF kind = "index" THEN D.done ELSE Unread(D) = {}
    <3>1. marks' = [D EXCEPT !.done = done]
      BY <1>3, <2>2 DEF StoreCall
    <3>2. done \in BOOLEAN
      BY <1>6 DEF MarkedSource
    <3> HIDE DEF done
    <3>3. QED
      BY <1>6, <3>1, <3>2 DEF MarkedSource
  <2>3. QED
    BY <2>1, <2>2
<1>9. PICK next \in {"reopen", "backfill", "end"} : look' = [look EXCEPT !.stage = next, !.got = {}]
  <2>1. CASE StoreFetched
    BY <2>1 DEF StoreFetched
  <2>2. CASE StoreCall
    BY <2>2 DEF StoreCall
  <2>3. QED
    BY <2>1, <2>2
<1>10. /\ look' \in Looking /\ look'.got = {} /\ look'.todo = {} /\ look'.stage = next
       /\ look'.draft = D
  BY <1>1, <1>3, <1>9 DEF Looking, LookStages
<1>11. QED
  BY <1>2, <1>4, <1>6, <1>7, <1>8, <1>10, Committed

\* The steps of a visit between two calls, and its end, good or bad.
LEMMA BetweenCalls ==
    ASSUME TablesInv, Reopen \/ BeginBackfill \/ EndLook \/ LookFails
    PROVE  TablesInv'
<1>1. look \in Looking /\ marks \in MarkedSource /\ (look.stage # "fetch" => look.todo = {})
  BY DEF TablesInv, TablesTyped
<1>2. PICK D : D = marks
  OBVIOUS
<1>3. UNCHANGED <<kind, table, stored>>
  BY DEF Reopen, BeginBackfill, EndLook, LookFails
<1>4. PICK E : E = (stored \cup late)'
  OBVIOUS
<1>5. PICK C : C = stored \cup late
  OBVIOUS
<1>6. /\ \A t \in Sheets : MarkSound(D.of[t], t, C) /\ ReadAsListed(D.of[t], t, C)
      /\ Gapless(D, C) /\ D \in MarkedSource /\ stored \in SUBSET AllRows /\ hitches \in hitches..MaxHitches
  BY <1>2, <1>5, MarksHold
<1>7. CASE Reopen
  <2>1. /\ Reopened(marks) \in MarkedSource /\ Reopened(marks).of = D.of
        /\ Reopened(marks).low = D.low /\ Reopened(marks).head = D.head
    BY <1>1, <1>2 DEF Reopened, MarkedSource
  <2>2. /\ marks' = Reopened(marks) /\ UNCHANGED <<late, hitches>>
        /\ look' = [look EXCEPT !.stage = "backfill", !.draft = Reopened(marks)]
    BY <1>7 DEF Reopen
  <2>3. look.todo = {} /\ look.got = {}
    BY <1>7 DEF Reopen, TablesInv
  <2>4. PICK R \in MarkedSource : R = Reopened(marks)
    BY <2>1
  <2>5. look' = [look EXCEPT !.stage = "backfill", !.draft = R]
    BY <2>2, <2>4
  <2>6. /\ look' \in Looking /\ look'.got = {} /\ look'.todo = {} /\ look'.stage = "backfill"
        /\ look'.draft = R
    BY <1>1, <2>3, <2>5 DEF Looking, LookStages
  <2>7. C = E
    BY <1>3, <1>4, <1>5, <2>2
  <2>8. QED
    BY <1>3, <1>4, <1>6, <2>1, <2>2, <2>4, <2>6, <2>7, Committed
<1>8. CASE BeginBackfill
  <2>1. look.todo = {} /\ look.got = {} /\ UNCHANGED <<late, hitches>>
    BY <1>8 DEF BeginBackfill, TablesInv
  <2>2. C = E
    BY <1>3, <1>4, <1>5, <2>1
  <2>3. CASE kind = "index" \/ Unread(marks) # {}
    <3> DEFINE sheet == IF kind = "index" THEN 1 ELSE Min(Unread(marks))
    <3>1. sheet \in Sheets /\ sheet \in Nat
      <4>1. CASE kind = "index"
        BY <4>1, TablesConstants
      <4>2. CASE kind # "index"
        <5>1. Unread(marks) # {} /\ Unread(marks) \subseteq Sheets
          BY <2>3, <4>2 DEF Unread
        <5>2. IsFiniteSet(Unread(marks)) /\ Unread(marks) \in SUBSET Int
          <6>1. IsFiniteSet(Sheets)
            BY TablesConstants, FS_Interval DEF Sheets
          <6>2. \A t \in Unread(marks) : t \in Int
            <7>1. \A t \in Sheets : t \in Int
              BY TablesConstants
            <7>2. QED
              BY <5>1, <7>1, Zenon
          <6>3. QED
            BY <5>1, <6>1, <6>2, FS_Subset
        <5>3. Min(Unread(marks)) \in Unread(marks)
          BY <5>1, <5>2, Extremes
        <5>4. QED
          BY <4>2, <5>1, <5>3, TablesConstants
      <4>3. QED
        BY <4>1, <4>2
    <3>2. /\ look' = [look EXCEPT !.stage = "chunk", !.draft = marks, !.pages = 0, !.closing = FALSE,
                                  !.sheet = sheet]
          /\ UNCHANGED marks
      BY <1>8, <2>3 DEF BeginBackfill
    <3> HIDE DEF sheet
    <3>3. /\ look' \in Looking /\ look'.got = {} /\ look'.todo = {} /\ look'.stage = "chunk"
          /\ look'.draft = marks /\ look'.sheet = sheet
      BY <1>1, <2>1, <3>1, <3>2 DEF Looking, LookStages
    <3>4. QED
      BY <1>2, <1>3, <1>4, <1>6, <2>1, <2>2, <3>1, <3>2, <3>3, Committed
  <2>4. CASE ~ (kind = "index" \/ Unread(marks) # {})
    <3>1. marks' = [marks EXCEPT !.done = TRUE] /\ look' = [look EXCEPT !.stage = "end"]
      BY <1>8, <2>4 DEF BeginBackfill
    <3>2. marks' \in MarkedSource /\ marks'.of = D.of /\ marks'.low = D.low /\ marks'.head = D.head
      BY <1>1, <1>2, <3>1 DEF MarkedSource
    <3>3. /\ look' \in Looking /\ look'.got = {} /\ look'.todo = {} /\ look'.stage = "end"
          /\ look'.draft = look.draft
      BY <1>1, <2>1, <3>1 DEF Looking, LookStages
    <3>4. QED
      BY <1>3, <1>4, <1>6, <2>1, <2>2, <3>2, <3>3, Committed
  <2>5. QED
    BY <2>3, <2>4
<1>9. CASE EndLook
  <2>1. look' = NoLook /\ UNCHANGED <<marks, late, hitches>>
    BY <1>9 DEF EndLook
  <2>2. C = E
    BY <1>3, <1>4, <1>5, <2>1
  <2>3. QED
    BY <1>2, <1>3, <1>4, <1>6, <2>1, <2>2, Unmarked, Committed
<1>10. CASE LookFails
  <2>1. look' = NoLook /\ UNCHANGED marks /\ hitches' \in hitches..MaxHitches
    BY <1>10, TablesConstants DEF LookFails, Hitch, TablesInv, TablesTyped
  <2>2. late' = {r \in late : r[2] <= marks.of[r[1]].off}
    BY <1>10 DEF LookFails
  <2>3. ASSUME NEW t \in Sheets PROVE MarkSound(D.of[t], t, E) /\ ReadAsListed(D.of[t], t, E)
    <3>1. MarkSound(D.of[t], t, C) /\ ReadAsListed(D.of[t], t, C)
      BY <1>6
    <3>2. CASE kind # "sheet"
      <4>1. C = E
        BY <1>3, <1>4, <1>5, <2>2, <3>2 DEF TablesInv
      <4>2. QED
        BY <3>1, <4>1
    <3>3. CASE kind = "sheet"
      <4>1. D.of[t].tail = 0
        BY <3>1, <3>3 DEF MarkSound
      <4>2. \A i \in 1..D.of[t].off : <<t, i>> \in C => <<t, i>> \in E
        BY <1>2, <1>3, <1>4, <1>5, <2>2
      <4>3. ReadUpTo(t, D.of[t].off, E) /\ ReadUpTo(t, D.of[t].tail, E)
        BY <3>1, <4>1, <4>2 DEF MarkSound, ReadUpTo
      <4>4. QED
        BY <3>1, <3>3, <4>3 DEF MarkSound, ReadAsListed
    <3>4. QED
      BY <3>2, <3>3
  <2>4. Gapless(D, E)
    <3>1. CASE kind # "sheet"
      BY <1>3, <1>4, <1>5, <1>6, <2>2, <3>1 DEF TablesInv
    <3>2. CASE kind = "sheet"
      <4>1. D.low \in Nat /\ ~ (D.low > 0)
        BY <1>6, <3>2 DEF Gapless, MarkedSource
      <4>2. QED
        BY <1>6, <4>1 DEF Gapless
    <3>3. QED
      BY <3>1, <3>2
  <2>5. QED
    BY <1>2, <1>3, <1>4, <1>6, <2>1, <2>2, <2>3, <2>4, Unmarked, Committed
<1>11. QED
  BY <1>7, <1>8, <1>9, <1>10

\* The answers to the requests of a visit: about its sheets, ...
LEMMA FetchSheetKeeps ==
    ASSUME TablesInv, NEW t \in Sheets, FetchSheet(t)
    PROVE  TablesInv'
<1> DEFINE n == table[t].rows
           own == look.draft.of[t]
           off == Max({own.off, IF n > 0 THEN PageRows ELSE 0})
           new == [own EXCEPT !.total = n, !.off = off,
                              !.version = IF off >= n THEN table[t].version ELSE @]
           same == look.old.of[t].version = table[t].version
           C == stored \cup late \cup look.got
<1>1. TablesTyped /\ look \in Looking /\ look.draft \in MarkedSource /\ own \in MarkOfSheet /\ n \in Nat
      /\ n <= MaxRows /\ table[t].version \in Nat
  BY TablesConstants DEF TablesInv, TablesTyped, Looking, MarkedSource
<1>2. kind = "sheet" /\ look.stage = "fetch" /\ UNCHANGED <<kind, table, marks, stored, late, hitches>>
  BY DEF FetchSheet, Asked
<1>3. MarkSound(own, t, C)
  BY DEF TablesInv
<1>4. own.off \in Nat /\ PageRows \in Nat \ {0} /\ own.version \in Nat
  BY <1>1, TablesConstants DEF MarkOfSheet
<1>5. off \in Nat /\ off >= own.off /\ off <= MaxRows + PageRows /\ (off = own.off \/ (off = PageRows /\ n > 0))
  <2>1. PICK k : k = IF n > 0 THEN PageRows ELSE 0
    OBVIOUS
  <2>2. k \in Nat /\ k <= PageRows /\ (k = PageRows \/ k = 0) /\ (n > 0 <=> k > 0)
    BY <1>1, <1>4, <2>1
  <2>3. off = IF own.off >= k THEN own.off ELSE k
    BY <1>4, <2>1, <2>2, OfTwo
  <2>4. own.off <= MaxRows + PageRows
    BY <1>3 DEF MarkSound
  <2> HIDE DEF off, own, n
  <2>5. QED
    BY <1>4, <2>2, <2>3, <2>4, TablesConstants
<1>6. look' = [look EXCEPT !.todo = look.todo \ {t},
                           !.draft = IF same THEN look.draft ELSE [look.draft EXCEPT !.of[t] = new],
                           !.got = IF same THEN look.got ELSE look.got \cup Page(t, 0)]
  BY DEF FetchSheet
<1> HIDE DEF C, off
<1>7. new \in MarkOfSheet /\ new.off = off /\ new.total = n /\ new.tail = own.tail
      /\ new.version = IF off >= n THEN table[t].version ELSE own.version
  BY <1>1, <1>5 DEF MarkOfSheet
<1>8. MarkSound(new, t, C \cup Page(t, 0))
  <2>1. ReadUpTo(t, off, C \cup Page(t, 0))
    <3>1. CASE off = own.off
      BY <1>3, <3>1 DEF MarkSound, ReadUpTo
    <3>2. CASE off = PageRows
      <4>1. \A i \in 1..PageRows : i <= table[t].rows => <<t, i>> \in Page(t, 0)
        <5>1. \A i \in 1..PageRows : i <= table[t].rows => <<t, i>> \in RowsOf(t, 0 + 1, 0 + PageRows)
          BY <1>1, <1>4, RowsOfTable
        <5>2. QED
          BY <5>1 DEF Page
      <4>2. QED
        BY <3>2, <4>1 DEF ReadUpTo
    <3>3. QED
      BY <1>5, <3>1, <3>2
  <2>2. ReadUpTo(t, own.tail, C \cup Page(t, 0))
    BY <1>3 DEF MarkSound, ReadUpTo
  <2>3. own.version <= table[t].version /\ (own.version = table[t].version => own.off >= n) /\ own.tail = 0
    BY <1>2, <1>3 DEF MarkSound
  <2> HIDE DEF new, own
  <2>4. QED
    BY <1>1, <1>2, <1>4, <1>5, <1>7, <2>1, <2>2, <2>3 DEF MarkSound
<1>9. Page(t, 0) \in SUBSET AllRows
  BY <1>1, TablesConstants, RowsOfTableTyped DEF Page
<1>10. CASE same
  <2>1. look' = [look EXCEPT !.todo = look.todo \ {t}]
    BY <1>1, <1>6, <1>10 DEF Looking
  <2>2. /\ look' \in Looking /\ look'.stage = look.stage /\ look'.old = look.old /\ look'.sheet = look.sheet
        /\ look'.todo = look.todo \ {t} /\ look'.got = look.got /\ look'.draft = look.draft
    BY <1>1, <2>1 DEF Looking
  <2>3. PICK R \in SUBSET AllRows : R = {}
    OBVIOUS
  <2>4. PICK m : m = own
    OBVIOUS
  <2>5. /\ look'.got = look.got \cup R
        /\ MarkSound(m, t, stored \cup late \cup look.got \cup R)
        /\ ReadAsListed(m, t, stored \cup late \cup look.got \cup R)
    <3>1. stored \cup late \cup look.got \cup R = C
      BY <2>3 DEF C
    <3>2. QED
      BY <1>2, <1>3, <2>2, <2>3, <2>4, <3>1 DEF ReadAsListed
  <2>6. QED
    BY <1>2, <2>2, <2>4, <2>5, SheetTurns
<1>11. CASE ~ same
  <2> HIDE DEF new
  <2>1. [look.draft EXCEPT !.of[t] = new] \in MarkedSource
    BY <1>1, <1>7 DEF MarkedSource
  <2>2. PICK D \in MarkedSource : D = [look.draft EXCEPT !.of[t] = new]
    BY <2>1
  <2>3. /\ D.of[t] = new /\ \A u \in Sheets : u # t => D.of[u] = look.draft.of[u]
        /\ D.low = look.draft.low /\ D.head = look.draft.head
    BY <1>1, <2>2 DEF MarkedSource
  <2>4. look' = [look EXCEPT !.todo = look.todo \ {t}, !.draft = D, !.got = look.got \cup Page(t, 0)]
    BY <1>6, <1>11, <2>2
  <2>5. /\ look' \in Looking /\ look'.stage = look.stage /\ look'.old = look.old /\ look'.sheet = look.sheet
        /\ look'.todo = look.todo \ {t} /\ look'.got = look.got \cup Page(t, 0) /\ look'.draft = D
    BY <1>1, <1>9, <2>4 DEF Looking
  <2>6. PICK R \in SUBSET AllRows : R = Page(t, 0)
    BY <1>9
  <2>7. PICK m : m = new
    OBVIOUS
  <2>8. MarkSound(m, t, stored \cup late \cup look.got \cup R) /\ ReadAsListed(m, t, stored \cup late \cup look.got \cup R)
    BY <1>2, <1>8, <2>6, <2>7 DEF C, ReadAsListed
  <2>9. QED
    BY <1>2, <2>3, <2>5, <2>6, <2>7, <2>8, SheetTurns
<1>12. QED
  BY <1>10, <1>11

\* ... about a page of records, from a start up to which all is read, ...
LEMMA PageTurns ==
    ASSUME TablesInv, kind = "records", NEW t \in Sheets, NEW start \in Nat,
           NEW C, C = stored \cup late \cup look.got,
           start <= table[t].rows, ReadUpTo(t, start, C),
           NEW E, E = Turned(look.draft, t, start)
    PROVE  /\ E \in MarkedSource /\ E.low = look.draft.low /\ E.head = look.draft.head
           /\ \A u \in Sheets : u # t => E.of[u] = look.draft.of[u]
           /\ Page(t, start) \in SUBSET AllRows
           /\ MarkSound(E.of[t], t, C \cup Page(t, start))
           /\ ReadAsListed(E.of[t], t, C \cup Page(t, start))
<1> DEFINE D == look.draft
           own == D.of[t]
           n == table[t].rows
           more == n > start + PageRows
           new == [own EXCEPT !.off = IF more THEN start + PageRows ELSE 0, !.finished = ~more,
                              !.tail = IF start > 0 THEN start ELSE @]
           F == C \cup Page(t, start)
<1>1. TablesTyped /\ D \in MarkedSource /\ own \in MarkOfSheet /\ n \in Nat /\ n <= MaxRows
  BY TablesConstants DEF TablesInv, TablesTyped, Looking, MarkedSource
<1>2. MarkSound(own, t, C)
  BY DEF TablesInv
<1>3. E = [D EXCEPT !.of[t] = new]
  BY DEF Turned
<1>4. /\ new \in MarkOfSheet /\ new.finished = ~more /\ new.off = (IF more THEN start + PageRows ELSE 0)
      /\ new.tail = (IF start > 0 THEN start ELSE own.tail) /\ new.total = own.total /\ new.version = own.version
  <2>1. (IF more THEN start + PageRows ELSE 0) \in Nat /\ (~more) \in BOOLEAN
    BY TablesConstants
  <2>2. PICK off \in Nat : off = IF more THEN start + PageRows ELSE 0
    BY <2>1
  <2>3. PICK fin \in BOOLEAN : fin = ~more
    BY <2>1
  <2>4. (IF start > 0 THEN start ELSE own.tail) \in Nat
    BY <1>1 DEF MarkOfSheet
  <2>5. PICK tail \in Nat : tail = IF start > 0 THEN start ELSE own.tail
    BY <2>4
  <2>6. new = [own EXCEPT !.off = off, !.finished = fin, !.tail = tail]
    BY <2>2, <2>3, <2>5, Zenon
  <2> HIDE DEF new, own, more
  <2>7. QED
    BY <1>1, <2>2, <2>3, <2>5, <2>6 DEF MarkOfSheet
<1>5. \A i \in 1..start + PageRows : i <= n => <<t, i>> \in F
  <2>1. \A i \in 1..start : i <= n => <<t, i>> \in C
    BY DEF ReadUpTo
  <2>2. \A i \in start + 1..start + PageRows : i <= n => <<t, i>> \in Page(t, start)
    <3>1. \A i \in start + 1..start + PageRows : i <= n => <<t, i>> \in RowsOf(t, start + 1, start + PageRows)
      BY <1>1, TablesConstants, RowsOfTable
    <3>2. QED
      BY <3>1 DEF Page
  <2> HIDE DEF n
  <2>3. \A i \in 1..start + PageRows : i \in 1..start \/ i \in start + 1..start + PageRows
    BY TablesConstants
  <2>4. QED
    BY <2>1, <2>2, <2>3
<1>6. ReadUpTo(t, start, F) /\ ReadUpTo(t, own.tail, F) /\ own.tail <= n /\ own.total <= n
      /\ own.version <= table[t].version
  BY <1>2 DEF ReadUpTo, MarkSound
<1>7. MarkSound(new, t, F) /\ ReadAsListed(new, t, F)
  <2> HIDE DEF own, n, F, new
  <2>1. CASE more
    <3>1. ReadUpTo(t, new.off, F) /\ new.off <= n /\ new.off <= MaxRows + PageRows
      <4>1. start + PageRows <= n
        BY <1>1, <2>1, TablesConstants
      <4>2. new.off = start + PageRows
        BY <1>4, <2>1
      <4>3. ReadUpTo(t, start + PageRows, F)
        BY <1>5 DEF ReadUpTo, n
      <4>4. QED
        BY <1>1, <4>1, <4>2, <4>3, TablesConstants
    <3>2. QED
      BY <1>4, <1>6, <2>1, <3>1 DEF MarkSound, ReadAsListed, n
  <2>2. CASE ~more
    <3>1. \A i \in 1..new.total : i <= n => <<t, i>> \in F
      <4>1. n <= start + PageRows /\ own.total \in Nat
        BY <1>1, <2>2, TablesConstants DEF MarkOfSheet
      <4>2. QED
        BY <1>1, <1>4, <1>5, <1>6, <4>1, TablesConstants
    <3>2. new.off = 0 /\ 0 <= MaxRows + PageRows /\ 0 <= n
      BY <1>1, <1>4, <2>2, TablesConstants
    <3>3. ReadUpTo(t, 0, F)
      BY DEF ReadUpTo
    <3>4. QED
      BY <1>4, <1>6, <2>2, <3>1, <3>2, <3>3 DEF MarkSound, ReadAsListed, ReadUpTo, n
  <2>3. QED
    BY <2>1, <2>2
<1>8. Page(t, start) \in SUBSET AllRows
  <2>1. start + 1 \in Int /\ start + PageRows \in Int /\ start + 1 >= 1
    BY TablesConstants
  <2>2. RowsOf(t, start + 1, start + PageRows) \subseteq AllRows
    BY <1>1, <2>1, RowsOfTableTyped
  <2>3. QED
    BY <2>2 DEF Page
<1> HIDE DEF new, own, F
<1>9. /\ E \in MarkedSource /\ E.low = look.draft.low /\ E.head = look.draft.head /\ E.of[t] = new
      /\ \A u \in Sheets : u # t => E.of[u] = look.draft.of[u]
  BY <1>1, <1>3, <1>4 DEF MarkedSource
<1>10. QED
  BY <1>7, <1>8, <1>9 DEF F

LEMMA FetchRecordsKeeps ==
    ASSUME TablesInv, NEW t \in Sheets, FetchRecords(t)
    PROVE  TablesInv'
<1> DEFINE own == look.draft.of[t]
           skip == own.off > 0 \/ (own.finished /\ own.total <= look.old.of[t].total)
           start == IF own.finished THEN own.tail ELSE 0
<1>1. TablesTyped /\ look \in Looking /\ own \in MarkOfSheet /\ table[t].rows \in Nat
  BY TablesConstants DEF TablesInv, TablesTyped, Looking, MarkedSource
<1>2. /\ kind = "records" /\ look.stage = "fetch" /\ t \in look.todo
      /\ UNCHANGED <<kind, table, marks, stored, late, hitches>>
  BY DEF FetchRecords, Asked
<1>3. PICK C : C = stored \cup late \cup look.got
  OBVIOUS
<1>4. MarkSound(own, t, C)
  BY <1>3 DEF TablesInv
<1>5. look' = [look EXCEPT !.todo = look.todo \ {t},
                           !.draft = IF skip THEN look.draft ELSE Turned(look.draft, t, start),
                           !.got = IF skip THEN look.got ELSE look.got \cup Page(t, start)]
  BY DEF FetchRecords, ResumeAt
<1>6. CASE skip
  <2>1. look' = [look EXCEPT !.todo = look.todo \ {t}]
    BY <1>1, <1>5, <1>6 DEF Looking
  <2>2. /\ look' \in Looking /\ look'.stage = look.stage /\ look'.old = look.old /\ look'.sheet = look.sheet
        /\ look'.todo = look.todo \ {t} /\ look'.got = look.got /\ look'.draft = look.draft
    BY <1>1, <2>1 DEF Looking
  <2>3. PICK R \in SUBSET AllRows : R = {}
    OBVIOUS
  <2>4. PICK m : m = own
    OBVIOUS
  <2>5. ReadAsListed(own, t, C)
    <3>1. CASE own.off > 0
      BY <1>2, <1>4, <3>1 DEF ReadAsListed, MarkSound
    <3>2. CASE own.finished /\ own.total <= look.old.of[t].total
      <4>1. look.old = marks /\ marks.of[t].finished
        BY <1>2, <3>2 DEF TablesInv
      <4>2. ReadUpTo(t, marks.of[t].total, stored \cup late)
        BY <1>2, <4>1 DEF TablesInv, ReadAsListed
      <4>3. own.total \in Nat /\ marks.of[t].total \in Nat /\ own.total <= marks.of[t].total
        BY <1>1, <3>2, <4>1 DEF MarkOfSheet, TablesTyped, MarkedSource
      <4>4. \A i \in 1..own.total : i \in 1..marks.of[t].total
        BY <4>3
      <4>5. ReadUpTo(t, own.total, C)
        BY <1>3, <4>2, <4>4 DEF ReadUpTo
      <4>6. QED
        BY <4>5 DEF ReadAsListed
    <3>3. QED
      BY <1>6, <3>1, <3>2
  <2>6. C = stored \cup late \cup look.got \cup R
    BY <1>3, <2>3
  <2> HIDE DEF own
  <2>7. /\ look'.got = look.got \cup R
        /\ MarkSound(m, t, stored \cup late \cup look.got \cup R)
        /\ ReadAsListed(m, t, stored \cup late \cup look.got \cup R)
    BY <1>4, <2>2, <2>3, <2>4, <2>5, <2>6
  <2>8. QED
    BY <1>2, <2>2, <2>4, <2>7, SheetTurns DEF own
<1>7. CASE ~ skip
  <2>1. start \in Nat /\ start <= table[t].rows /\ ReadUpTo(t, start, C)
    <3>1. own.tail \in Nat /\ own.tail <= table[t].rows /\ ReadUpTo(t, own.tail, C)
      BY <1>1, <1>2, <1>4 DEF MarkSound, MarkOfSheet
    <3>2. ReadUpTo(t, 0, C)
      BY DEF ReadUpTo
    <3>3. QED
      BY <1>1, <3>1, <3>2
  <2>2. PICK s \in Nat : s = start
    BY <2>1
  <2>3. s <= table[t].rows /\ ReadUpTo(t, s, C)
    BY <2>1, <2>2
  <2>4. PICK E : E = Turned(look.draft, t, s)
    OBVIOUS
  <2>5. PICK R : R = Page(t, s)
    OBVIOUS
  <2>6. /\ E \in MarkedSource /\ E.low = look.draft.low /\ E.head = look.draft.head
        /\ \A u \in Sheets : u # t => E.of[u] = look.draft.of[u]
        /\ R \in SUBSET AllRows
        /\ MarkSound(E.of[t], t, C \cup R) /\ ReadAsListed(E.of[t], t, C \cup R)
    BY <1>2, <1>3, <2>3, <2>4, <2>5, PageTurns
  <2>7. look' = [look EXCEPT !.todo = look.todo \ {t}, !.draft = E, !.got = look.got \cup R]
    BY <1>5, <1>7, <2>2, <2>4, <2>5
  <2>8. /\ look' \in Looking /\ look'.stage = look.stage /\ look'.old = look.old /\ look'.sheet = look.sheet
        /\ look'.todo = look.todo \ {t} /\ look'.got = look.got \cup R /\ look'.draft = E
    BY <1>1, <2>6, <2>7 DEF Looking
  <2>9. PICK m : m = E.of[t]
    OBVIOUS
  <2>10. MarkSound(m, t, stored \cup late \cup look.got \cup R) /\ ReadAsListed(m, t, stored \cup late \cup look.got \cup R)
    BY <1>3, <2>6, <2>9
  <2>11. QED
    BY <1>2, <2>6, <2>8, <2>9, <2>10, SheetTurns
<1>8. QED
  BY <1>6, <1>7

\* ... about the next page of records, ...
LEMMA ReadRecordsKeeps ==
    ASSUME TablesInv, ReadRecords
    PROVE  TablesInv'
<1>1. TablesTyped /\ look \in Looking /\ look.draft \in MarkedSource
  BY DEF TablesInv, TablesTyped, Looking
<1>2. /\ kind = "records" /\ look.stage = "chunk" /\ look.todo = {}
      /\ UNCHANGED <<kind, table, marks, stored, late, hitches>>
  BY DEF ReadRecords, Reading, TablesInv
<1>3. Min(Unread(look.draft)) \in Unread(look.draft)
  <2>1. Unread(look.draft) # {} /\ Unread(look.draft) \subseteq Sheets
    BY DEF ReadRecords, Unread
  <2>2. IsFiniteSet(Sheets) /\ \A u \in Sheets : u \in Int
    BY TablesConstants, FS_Interval DEF Sheets
  <2>3. \A u \in Unread(look.draft) : u \in Int
    BY <2>1, <2>2, Zenon
  <2>4. IsFiniteSet(Unread(look.draft))
    BY <2>1, <2>2, FS_Subset
  <2>5. QED
    BY <2>1, <2>3, <2>4, Extremes
<1>4. PICK t \in Sheets : t = Min(Unread(look.draft)) /\ look.draft.of[t].off > 0
  BY <1>2, <1>3 DEF Unread
<1>5. PICK C : C = stored \cup late \cup look.got
  OBVIOUS
<1>6. PICK s \in Nat : s = look.draft.of[t].off
  BY <1>1 DEF MarkedSource, MarkOfSheet
<1>7. s <= table[t].rows /\ ReadUpTo(t, s, C)
  <2>1. MarkSound(look.draft.of[t], t, C)
    BY <1>5 DEF TablesInv
  <2>2. look.draft.of[t].off \in Nat
    BY <1>1 DEF MarkedSource, MarkOfSheet
  <2>3. QED
    BY <1>2, <1>6, <2>1, <2>2 DEF MarkSound
<1>8. PICK E : E = Turned(look.draft, t, s)
  OBVIOUS
<1>9. PICK R : R = Page(t, s)
  OBVIOUS
<1>10. /\ E \in MarkedSource /\ E.low = look.draft.low /\ E.head = look.draft.head
       /\ \A u \in Sheets : u # t => E.of[u] = look.draft.of[u]
       /\ R \in SUBSET AllRows
       /\ MarkSound(E.of[t], t, C \cup R) /\ ReadAsListed(E.of[t], t, C \cup R)
  <2>1. kind = "records"
    BY <1>2
  <2>2. QED
    BY <1>5, <1>7, <1>8, <1>9, <2>1, PageTurns
<1>11. look' = [look EXCEPT !.draft = E, !.got = look.got \cup R, !.pages = look.pages + 1]
  BY <1>4, <1>6, <1>8, <1>9 DEF ReadRecords, Look
<1>12. /\ look' \in Looking /\ look'.stage = look.stage /\ look'.old = look.old /\ look'.sheet = look.sheet
       /\ look'.todo = look.todo /\ look'.got = look.got \cup R /\ look'.draft = E /\ look'.pages # 0
  <2>1. look.pages + 1 \in Nat /\ look.pages + 1 # 0 /\ look.got \cup R \in SUBSET AllRows
    BY <1>1, <1>10 DEF Looking
  <2>2. PICK k : k = look.pages + 1
    OBVIOUS
  <2>3. look' = [look EXCEPT !.draft = E, !.got = look.got \cup R, !.pages = k]
    BY <1>11, <2>2
  <2>4. QED
    BY <1>1, <1>10, <2>1, <2>2, <2>3, Zenon DEF Looking
<1>13. PICK m : m = E.of[t]
  OBVIOUS
<1>14. MarkSound(m, t, stored \cup late \cup look.got \cup R) /\ ReadAsListed(m, t, stored \cup late \cup look.got \cup R)
  BY <1>5, <1>10, <1>13
<1>15. look'.todo = look.todo \ {t}
  BY <1>2, <1>12
<1>16. QED
  BY <1>2, <1>10, <1>12, <1>13, <1>14, <1>15, SheetTurns

\* ... about the next chunk of a sheet, ...
LEMMA ReadChunkKeeps ==
    ASSUME TablesInv, ReadChunk
    PROVE  TablesInv'
<1> DEFINE t == look.sheet
           own == look.draft.of[t]
           n == table[t].rows
           start == own.off
           off == IF Page(t, start) = {} THEN start ELSE start + PageRows
           new == [own EXCEPT !.off = off, !.total = n,
                              !.version = IF off >= n THEN table[t].version ELSE @]
<1>1. /\ kind = "sheet" /\ look.stage = "chunk" /\ look.todo = {} /\ t \in Sheets
      /\ UNCHANGED <<kind, table, marks, stored, late, hitches>>
  BY DEF ReadChunk, Reading, TablesInv
<1>2. TablesTyped /\ look \in Looking /\ look.draft \in MarkedSource /\ own \in MarkOfSheet /\ n \in Nat
      /\ n <= MaxRows /\ table[t].version \in Nat
  BY <1>1, TablesConstants DEF TablesInv, TablesTyped, Looking, MarkedSource
<1>3. PICK C : C = stored \cup late \cup look.got
  OBVIOUS
<1>4. MarkSound(own, t, C)
  BY <1>1, <1>3 DEF TablesInv
<1>5. start \in Nat /\ PageRows \in Nat \ {0} /\ own.version \in Nat /\ start <= MaxRows + PageRows
  BY <1>2, <1>4, TablesConstants DEF MarkOfSheet, MarkSound
<1>6. PICK R : R = Page(t, start)
  OBVIOUS
<1>7. /\ R \in SUBSET AllRows
      /\ \A u, i : <<u, i>> \in R <=> u = t /\ i \in Int /\ start + 1 <= i /\ i <= start + PageRows /\ i <= n
      /\ start < n <=> R # {}
  <2>1. start + 1 \in Int /\ start + PageRows \in Int /\ start + 1 >= 1
    BY <1>5
  <2>2. R = RowsOf(t, start + 1, start + PageRows)
    BY <1>6 DEF Page
  <2>3. R \in SUBSET AllRows
    BY <1>1, <1>2, <2>1, <2>2, RowsOfTableTyped
  <2>4. \A u, i : <<u, i>> \in R <=> u = t /\ i \in Int /\ start + 1 <= i /\ i <= start + PageRows /\ i <= n
    <3>1. PICK s \in Sheets : s = t
      BY <1>1
    <3>2. PICK a \in Int : a = start + 1
      BY <2>1
    <3>3. PICK b \in Int : b = start + PageRows
      BY <2>1
    <3>4. \A u, i : <<u, i>> \in RowsOf(s, a, b) <=> u = s /\ i \in Int /\ a <= i /\ i <= b /\ i <= table[s].rows
      BY <1>2, RowsOfTable
    <3>5. R = RowsOf(s, a, b) /\ table[s].rows = n
      BY <2>2, <3>1, <3>2, <3>3
    <3> HIDE DEF t, n, start
    <3>6. QED
      BY <3>1, <3>2, <3>3, <3>4, <3>5
  <2> HIDE DEF t, n, start
  <2>5. start < n => R # {}
    <3>1. start < n => start + 1 \in Int /\ start + 1 <= start + PageRows /\ start + 1 <= n
      BY <1>2, <1>5
    <3>2. start < n => <<t, start + 1>> \in R
      BY <2>1, <2>4, <3>1
    <3>3. QED
      BY <3>2
  <2>6. R # {} => start < n
    <3>1. \A x \in R : x = <<x[1], x[2]>>
      BY <2>3 DEF AllRows
    <3>2. ASSUME NEW x \in R PROVE start < n
      <4>1. <<x[1], x[2]>> \in R
        BY <3>1
      <4>2. x[2] \in Int /\ start + 1 <= x[2] /\ x[2] <= n
        BY <2>4, <4>1
      <4>3. QED
        BY <1>2, <1>5, <4>2
    <3>3. QED
      BY <3>2
  <2>7. QED
    BY <2>3, <2>4, <2>5, <2>6
<1>8. off = (IF R = {} THEN start ELSE start + PageRows) /\ off \in Nat /\ off <= MaxRows + PageRows
  <2>1. off = IF R = {} THEN start ELSE start + PageRows
    BY <1>6
  <2> HIDE DEF off, start, n
  <2>2. QED
    BY <1>2, <1>5, <1>7, <2>1, TablesConstants
<1>9. look' = [look EXCEPT !.draft = [look.draft EXCEPT !.of[t] = new], !.got = look.got \cup R,
                           !.pages = look.pages + 1]
  BY <1>6 DEF ReadChunk, Look
<1> HIDE DEF off
<1>10. /\ new \in MarkOfSheet /\ new.off = off /\ new.total = n /\ new.tail = own.tail
       /\ new.version = IF off >= n THEN table[t].version ELSE own.version
  BY <1>2, <1>8 DEF MarkOfSheet
<1> HIDE DEF new
<1>11. MarkSound(new, t, C \cup R)
  <2>1. \A i \in 1..off : i <= n => <<t, i>> \in C \cup R
    <3>1. \A i \in 1..start : i <= n => <<t, i>> \in C
      BY <1>4 DEF MarkSound, ReadUpTo
    <3> HIDE DEF start, n
    <3>2. \A i \in 1..start + PageRows : i <= n => <<t, i>> \in C \cup R
      BY <1>2, <1>5, <1>7, <3>1
    <3>3. QED
      BY <1>8, <3>1, <3>2
  <2>2. ReadUpTo(t, off, C \cup R)
    BY <2>1 DEF ReadUpTo
  <2>3. ReadUpTo(t, own.tail, C \cup R)
    BY <1>4 DEF MarkSound, ReadUpTo
  <2>4. own.version <= table[t].version /\ (own.version = table[t].version => start >= n) /\ own.tail = 0
    BY <1>1, <1>4 DEF MarkSound
  <2>5. off >= start
    BY <1>5, <1>8
  <2> HIDE DEF own, start
  <2>6. QED
    BY <1>1, <1>2, <1>5, <1>8, <1>10, <2>2, <2>3, <2>4, <2>5 DEF MarkSound
<1>12. [look.draft EXCEPT !.of[t] = new] \in MarkedSource
  BY <1>1, <1>2, <1>10 DEF MarkedSource
<1>13. PICK D \in MarkedSource : D = [look.draft EXCEPT !.of[t] = new]
  BY <1>12
<1>14. /\ D.of[t] = new /\ \A u \in Sheets : u # t => D.of[u] = look.draft.of[u]
       /\ D.low = look.draft.low /\ D.head = look.draft.head
  BY <1>1, <1>2, <1>13 DEF MarkedSource
<1>15. /\ look' \in Looking /\ look'.stage = look.stage /\ look'.old = look.old /\ look'.sheet = look.sheet
       /\ look'.todo = look.todo /\ look'.got = look.got \cup R /\ look'.draft = D /\ look'.pages # 0
  <2>1. look.pages + 1 \in Nat /\ look.pages + 1 # 0 /\ look.got \cup R \in SUBSET AllRows
    BY <1>2, <1>7 DEF Looking
  <2>2. PICK k : k = look.pages + 1
    OBVIOUS
  <2>3. look' = [look EXCEPT !.draft = D, !.got = look.got \cup R, !.pages = k]
    BY <1>9, <1>13, <2>2
  <2>4. QED
    BY <1>2, <2>1, <2>2, <2>3, Zenon DEF Looking
<1>16. PICK s \in Sheets : s = t
  BY <1>1
<1>17. PICK m : m = new
  OBVIOUS
<1>18. MarkSound(m, s, stored \cup late \cup look.got \cup R) /\ ReadAsListed(m, s, stored \cup late \cup look.got \cup R)
  BY <1>1, <1>3, <1>11, <1>16, <1>17 DEF ReadAsListed
<1>19. look'.todo = look.todo \ {s} /\ look'.draft.of[s] = m /\ \A u \in Sheets : u # s => look'.draft.of[u] = look.draft.of[u]
  BY <1>1, <1>14, <1>15, <1>16, <1>17
<1>20. R \in SUBSET AllRows
  BY <1>7
<1>21. look.stage \in {"fetch", "chunk"} /\ kind # "index"
  BY <1>1
<1>22. QED
  BY <1>1, <1>14, <1>15, <1>18, <1>19, <1>20, <1>21, SheetTurns

\* ... about an index, the marks of which have no gap.
LEMMA IndexTurns ==
    ASSUME TablesInv, kind = "index", NEW C, C = stored \cup late,
           look' \in Looking, look'.stage = look.stage, look'.old = look.old, look'.sheet = look.sheet,
           look'.todo = {}, look.stage \in {"fetch", "chunk"},
           look.stage = "chunk" => look'.pages # 0,
           look'.draft.of = look.draft.of, look.got = {}, NEW R, look'.got = R,
           Gapless(look'.draft, C \cup R),
           UNCHANGED <<kind, table, marks, stored, late, hitches>>
    PROVE  TablesInv'
<1>1. (stored \cup late \cup look.got)' = C \cup R /\ (stored \cup late)' = C /\ stored \cup late \cup look.got = C
  OBVIOUS
<1>2. TablesTyped'
  BY DEF TablesInv, TablesTyped
<1>3. ASSUME NEW u \in Sheets
      PROVE  /\ MarkSound(marks.of[u], u, stored \cup late)'
             /\ ReadAsListed(marks.of[u], u, stored \cup late)'
             /\ MarkSound(look.draft.of[u], u, stored \cup late \cup look.got)'
             /\ ReadAsListed(look.draft.of[u], u, stored \cup late \cup look.got)'
  <2>1. MarkSound(marks.of[u], u, C) /\ ReadAsListed(marks.of[u], u, C) /\ MarkSound(look.draft.of[u], u, C)
    BY <1>1 DEF TablesInv
  <2>2. MarkSound(look.draft.of[u], u, C \cup R)
    BY <2>1 DEF MarkSound, ReadUpTo
  <2>3. QED
    BY <1>1, <2>1, <2>2 DEF MarkSound, ReadAsListed, ReadUpTo
<1>4. Gapless(marks, stored \cup late)' /\ Gapless(look.draft, stored \cup late \cup look.got)'
  BY <1>1 DEF TablesInv, Gapless
<1>5. QED
  BY <1>2, <1>3, <1>4 DEF TablesInv

LEMMA FetchIndexKeeps ==
    ASSUME TablesInv, FetchIndex
    PROVE  TablesInv'
<1> DEFINE n == table[1].rows
           head == look.draft.head
           low == look.draft.low
           first == IF head = 0 THEN Max({0, n - MaxPages}) ELSE head
           last == Min({n, first + MaxPages})
           newHead == Max({head, last})
           newLow == IF low = 0 /\ last > 0 THEN Min({first + 1, last}) ELSE low
<1>1. /\ kind = "index" /\ look.stage = "fetch" /\ look.todo # {} /\ look.got = {}
      /\ UNCHANGED <<kind, table, marks, stored, late, hitches>>
  BY DEF FetchIndex, Asked, TablesInv
<1>2. TablesTyped /\ look \in Looking /\ look.draft \in MarkedSource /\ n \in Nat /\ head \in Nat /\ low \in Nat
  BY TablesConstants DEF TablesInv, TablesTyped, Looking, MarkedSource
<1>3. PICK C : C = stored \cup late
  OBVIOUS
<1>4. Gapless(look.draft, C)
  <2>1. C = stored \cup late \cup look.got
    BY <1>1, <1>3
  <2>2. QED
    BY <2>1 DEF TablesInv
<1>5. look' = [look EXCEPT !.todo = {}, !.got = RowsOf(1, first + 1, last),
                           !.draft = [look.draft EXCEPT !.head = newHead, !.low = newLow]]
  BY <1>2 DEF FetchIndex, Looking, MarkedSource
<1>6. first = (IF head = 0 THEN (IF n >= MaxPages THEN n - MaxPages ELSE 0) ELSE head) /\ first \in Nat
  <2>1. n - MaxPages \in Int /\ 0 \in Int
    BY <1>2, TablesConstants
  <2>2. Max({0, n - MaxPages}) = IF 0 >= n - MaxPages THEN 0 ELSE n - MaxPages
    BY <2>1, OfTwo
  <2> HIDE DEF n, head
  <2>3. QED
    BY <1>2, <2>2, TablesConstants
<1> HIDE DEF first
<1>7. last = (IF n <= first + MaxPages THEN n ELSE first + MaxPages) /\ last \in Nat
  <2>1. first + MaxPages \in Int /\ n \in Int
    BY <1>2, <1>6, TablesConstants
  <2>2. last = IF n <= first + MaxPages THEN n ELSE first + MaxPages
    BY <2>1, OfTwo
  <2> HIDE DEF last, n
  <2>3. QED
    BY <1>2, <1>6, <2>2, TablesConstants
<1> HIDE DEF last
<1>8. newHead = (IF head >= last THEN head ELSE last) /\ newHead \in Nat
  BY <1>2, <1>7, OfTwo
<1>9. newLow = (IF low = 0 /\ last > 0 THEN (IF first + 1 <= last THEN first + 1 ELSE last) ELSE low) /\ newLow \in Nat
  <2>1. Min({first + 1, last}) = IF first + 1 <= last THEN first + 1 ELSE last
    <3>1. first + 1 \in Int /\ last \in Int
      BY <1>6, <1>7
    <3>2. QED
      BY <3>1, OfTwo
  <2>2. QED
    BY <1>2, <1>6, <1>7, <2>1
<1> HIDE DEF newHead, newLow
<1>10. PICK R : R = RowsOf(1, first + 1, last)
  OBVIOUS
<1>11. R \in SUBSET AllRows /\ \A i : i \in Int /\ first + 1 <= i /\ i <= last /\ i <= n => <<1, i>> \in R
  <2>1. first + 1 \in Int /\ last \in Int /\ first + 1 >= 1 /\ 1 \in Sheets
    BY <1>6, <1>7, TablesConstants
  <2>2. QED
    BY <1>2, <1>10, <2>1, RowsOfTable, RowsOfTableTyped
<1>12. PICK D \in MarkedSource : /\ D = [look.draft EXCEPT !.head = newHead, !.low = newLow]
                                 /\ D.of = look.draft.of /\ D.low = newLow /\ D.head = newHead
  <2>1. newHead \in Nat /\ newLow \in Nat
    BY <1>8, <1>9
  <2>2. PICK h \in Nat : h = newHead
    BY <2>1
  <2>3. PICK l \in Nat : l = newLow
    BY <2>1
  <2>4. [look.draft EXCEPT !.head = h, !.low = l] \in MarkedSource
    BY <1>2 DEF MarkedSource
  <2>5. PICK D \in MarkedSource : D = [look.draft EXCEPT !.head = h, !.low = l]
    BY <2>4
  <2>6. D.of = look.draft.of /\ D.low = l /\ D.head = h
    BY <1>2, <2>5 DEF MarkedSource
  <2>7. QED
    BY <2>2, <2>3, <2>5, <2>6, Zenon
<1>13. /\ look' \in Looking /\ look'.stage = look.stage /\ look'.old = look.old /\ look'.sheet = look.sheet
       /\ look'.todo = {} /\ look'.got = R /\ look'.draft = D
  <2>1. look' = [look EXCEPT !.todo = {}, !.got = R, !.draft = D]
    BY <1>5, <1>10, <1>12
  <2>2. QED
    BY <1>2, <1>11, <1>12, <2>1 DEF Looking
<1>14. Gapless(D, C \cup R)
  <2>1. low <= head /\ head <= n /\ (low = 0 => head = 0) /\ (low > 0 => \A i \in low..head : <<1, i>> \in C)
    BY <1>4 DEF Gapless
  <2> HIDE DEF low, head, n
  <2>2. newLow <= newHead /\ newHead <= n /\ (newLow = 0 => newHead = 0)
    BY <1>2, <1>6, <1>7, <1>8, <1>9, <2>1, TablesConstants
  <2>3. ASSUME newLow > 0, NEW i \in newLow..newHead PROVE <<1, i>> \in C \cup R
    <3>1. i \in Int /\ i <= n /\ (i \in low..head \/ (first + 1 <= i /\ i <= last))
      BY <1>2, <1>6, <1>7, <1>8, <1>9, <2>1, <2>2, <2>3, TablesConstants
    <3>2. low > 0 \/ (first + 1 <= i /\ i <= last)
      BY <1>2, <1>6, <1>7, <1>8, <1>9, <2>1, <2>2, <2>3, TablesConstants
    <3>3. QED
      BY <1>11, <2>1, <3>1, <3>2
  <2>4. QED
    BY <1>1, <1>12, <2>2, <2>3 DEF Gapless, n
<1>15. QED
  BY <1>1, <1>3, <1>12, <1>13, <1>14, IndexTurns

LEMMA ReadIndexKeeps ==
    ASSUME TablesInv, ReadIndex
    PROVE  TablesInv'
<1> DEFINE low == look.draft.low
           below == low - 1
           first == Max({1, below - MaxPages + 1})
           newLow == IF below > 0 THEN first ELSE low
<1>1. /\ kind = "index" /\ look.stage = "chunk" /\ look.got = {} /\ look.todo = {}
      /\ UNCHANGED <<kind, table, marks, stored, late, hitches>>
  BY DEF ReadIndex, Reading, TablesInv
<1>2. TablesTyped /\ look \in Looking /\ look.draft \in MarkedSource /\ table[1].rows \in Nat
      /\ look.draft.head \in Nat /\ low \in Nat
  BY TablesConstants DEF TablesInv, TablesTyped, Looking, MarkedSource
<1>3. PICK C : C = stored \cup late
  OBVIOUS
<1>4. Gapless(look.draft, C)
  <2>1. C = stored \cup late \cup look.got
    BY <1>1, <1>3
  <2>2. QED
    BY <2>1 DEF TablesInv
<1>5. look' = [look EXCEPT !.got = RowsOf(1, first, below), !.pages = 1, !.closing = TRUE,
                           !.draft = [look.draft EXCEPT !.low = newLow, !.done = (first = 1)]]
  BY <1>2 DEF ReadIndex, Looking, MarkedSource
<1>6. below \in Int /\ first \in Nat /\ first >= 1 /\ (below > 0 => first <= below)
  <2>1. 1 \in Int /\ below - MaxPages + 1 \in Int
    BY <1>2, TablesConstants
  <2>2. first = IF 1 >= below - MaxPages + 1 THEN 1 ELSE below - MaxPages + 1
    BY <2>1, OfTwo
  <2> HIDE DEF first, low
  <2>3. QED
    BY <1>2, <2>1, <2>2, TablesConstants
<1> HIDE DEF first
<1>7. PICK R : R = RowsOf(1, first, below)
  OBVIOUS
<1>8. R \in SUBSET AllRows
      /\ \A i : i \in Int /\ first <= i /\ i <= below /\ i <= table[1].rows => <<1, i>> \in R
  <2>1. first \in Int /\ below \in Int /\ first >= 1 /\ 1 \in Sheets
    BY <1>6, TablesConstants
  <2>2. QED
    BY <1>2, <1>7, <2>1, RowsOfTable, RowsOfTableTyped
<1>9. PICK D \in MarkedSource : /\ D = [look.draft EXCEPT !.low = newLow, !.done = (first = 1)]
                                /\ D.of = look.draft.of /\ D.low = newLow /\ D.head = look.draft.head
  <2>1. newLow \in Nat /\ (first = 1) \in BOOLEAN
    BY <1>2, <1>6
  <2>2. PICK b \in BOOLEAN : b = (first = 1)
    BY <2>1
  <2> HIDE DEF newLow
  <2>3. [look.draft EXCEPT !.low = newLow, !.done = b] \in MarkedSource
    BY <1>2, <2>1 DEF MarkedSource
  <2>4. PICK D \in MarkedSource : D = [look.draft EXCEPT !.low = newLow, !.done = b]
    BY <2>3
  <2>5. D.of = look.draft.of /\ D.low = newLow /\ D.head = look.draft.head
    BY <1>2, <2>4 DEF MarkedSource
  <2>6. QED
    BY <2>2, <2>4, <2>5
<1>10. /\ look' \in Looking /\ look'.stage = look.stage /\ look'.old = look.old /\ look'.sheet = look.sheet
       /\ look'.todo = {} /\ look'.got = R /\ look'.draft = D /\ look'.pages # 0
  <2>1. PICK k \in Nat : k = 1
    OBVIOUS
  <2>2. look' = [look EXCEPT !.got = R, !.pages = k, !.closing = TRUE, !.draft = D]
    BY <1>5, <1>7, <1>9, <2>1
  <2>3. k # 0
    BY <2>1
  <2>4. QED
    BY <1>1, <1>2, <1>8, <2>2, <2>3, Zenon DEF Looking
<1>11. Gapless(D, C \cup R)
  <2> DEFINE head == look.draft.head
             n == table[1].rows
  <2>1. low <= head /\ head <= n /\ (low = 0 => head = 0) /\ (low > 0 => \A i \in low..head : <<1, i>> \in C)
    BY <1>4 DEF Gapless
  <2>2. n \in Nat /\ head \in Nat /\ low \in Nat
    BY <1>2
  <2> HIDE DEF head, n, low
  <2>3. newLow <= head /\ (newLow = 0 => head = 0)
    BY <1>6, <2>1, <2>2
  <2>4. ASSUME newLow > 0, NEW i \in newLow..head PROVE <<1, i>> \in C \cup R
    <3>1. i \in Int /\ i <= n /\ (i \in low..head \/ (first <= i /\ i <= below)) /\ low > 0
      BY <1>6, <2>1, <2>2, <2>3, <2>4
    <3>2. QED
      BY <1>8, <2>1, <3>1 DEF n
  <2>5. D.low = newLow /\ D.head = head
    BY <1>9 DEF head, low
  <2> HIDE DEF newLow
  <2>6. QED
    BY <1>1, <2>1, <2>3, <2>4, <2>5 DEF Gapless, n
<1>12. QED
  BY <1>1, <1>3, <1>9, <1>10, <1>11, IndexTurns

\* A visit begins with the marks, and with the sizes of the sheets as they are.
LEMMA BeginLookKeeps ==
    ASSUME TablesInv, BeginLook
    PROVE  TablesInv'
<1> DEFINE listed == [marks EXCEPT !.of = [t \in Sheets |-> [marks.of[t] EXCEPT !.total = table[t].rows]]]
           todo == IF kind = "index" THEN {1} ELSE Sheets
           draft == IF kind = "records" THEN listed ELSE marks
<1>1. TablesTyped /\ marks \in MarkedSource /\ UNCHANGED <<kind, table, marks, stored, late, hitches>>
  BY DEF TablesInv, TablesTyped, BeginLook
<1>2. look' = [NoLook EXCEPT !.stage = "fetch", !.old = marks, !.todo = todo, !.draft = draft]
  BY DEF BeginLook
<1>3. \A t \in Sheets : table[t].rows \in Nat /\ marks.of[t] \in MarkOfSheet
  BY <1>1, TablesConstants DEF TablesTyped, MarkedSource
<1>4. \A t \in Sheets : /\ [marks.of[t] EXCEPT !.total = table[t].rows] \in MarkOfSheet
                        /\ [marks.of[t] EXCEPT !.total = table[t].rows].off = marks.of[t].off
                        /\ [marks.of[t] EXCEPT !.total = table[t].rows].version = marks.of[t].version
                        /\ [marks.of[t] EXCEPT !.total = table[t].rows].tail = marks.of[t].tail
                        /\ [marks.of[t] EXCEPT !.total = table[t].rows].finished = marks.of[t].finished
                        /\ [marks.of[t] EXCEPT !.total = table[t].rows].total = table[t].rows
  BY <1>3 DEF MarkOfSheet
<1>5. PICK F : F = [t \in Sheets |-> [marks.of[t] EXCEPT !.total = table[t].rows]]
  OBVIOUS
<1>6. F \in [Sheets -> MarkOfSheet]
  BY <1>4, <1>5
<1>7. /\ listed \in MarkedSource /\ listed.of = F /\ listed.low = marks.low /\ listed.head = marks.head
  <2>1. listed = [marks EXCEPT !.of = F]
    BY <1>5
  <2> HIDE DEF listed
  <2>2. QED
    BY <1>1, <1>6, <2>1 DEF MarkedSource
<1>8. /\ \A t \in Sheets : /\ F[t].off = marks.of[t].off /\ F[t].version = marks.of[t].version
                           /\ F[t].tail = marks.of[t].tail /\ F[t].finished = marks.of[t].finished
                           /\ F[t].total = table[t].rows
  BY <1>4, <1>5
<1> HIDE DEF listed
<1>9. /\ draft \in MarkedSource /\ draft.low = marks.low /\ draft.head = marks.head
      /\ \A t \in Sheets : /\ draft.of[t].off = marks.of[t].off /\ draft.of[t].version = marks.of[t].version
                           /\ draft.of[t].tail = marks.of[t].tail /\ draft.of[t].finished = marks.of[t].finished
                           /\ draft.of[t].total \in {table[t].rows, marks.of[t].total}
  BY <1>1, <1>7, <1>8
<1>10. todo \in SUBSET Sheets /\ (kind # "index" => todo = Sheets)
  BY TablesConstants
<1> HIDE DEF draft, todo
<1>11. /\ look' \in Looking /\ look'.stage = "fetch" /\ look'.old = marks /\ look'.todo = todo
       /\ look'.draft = draft /\ look'.got = {}
  BY <1>1, <1>2, <1>9, <1>10, Unmarked DEF Looking, LookStages
<1>12. PICK C : C = stored \cup late
  OBVIOUS
<1>13. (stored \cup late)' = C /\ (stored \cup late \cup look.got)' = C
  BY <1>1, <1>11, <1>12
<1>14. TablesTyped'
  BY <1>1, <1>11 DEF TablesTyped
<1>15. ASSUME NEW t \in Sheets
       PROVE  /\ MarkSound(marks.of[t], t, stored \cup late)'
              /\ ReadAsListed(marks.of[t], t, stored \cup late)'
              /\ MarkSound(look.draft.of[t], t, stored \cup late \cup look.got)'
              /\ (t \notin look.todo => ReadAsListed(look.draft.of[t], t, stored \cup late \cup look.got))'
              /\ (t \in look.todo => look.draft.of[t].finished = marks.of[t].finished)'
  <2>1. MarkSound(marks.of[t], t, C) /\ ReadAsListed(marks.of[t], t, C)
    BY <1>12 DEF TablesInv
  <2>2. MarkSound(draft.of[t], t, C)
    <3>1. table[t].rows <= table[t].rows
      BY <1>3
    <3>2. draft.of[t].total <= table[t].rows
      BY <1>9, <2>1, <3>1 DEF MarkSound
    <3>3. QED
      BY <1>9, <2>1, <3>2 DEF MarkSound
  <2>3. t \notin look'.todo => ReadAsListed(draft.of[t], t, C)
    BY <1>10, <1>11 DEF ReadAsListed
  <2>4. QED
    BY <1>1, <1>9, <1>11, <1>13, <2>1, <2>2, <2>3 DEF MarkSound, ReadAsListed, ReadUpTo
<1>16. Gapless(marks, stored \cup late)' /\ Gapless(look.draft, stored \cup late \cup look.got)'
  <2>1. Gapless(marks, C)
    BY <1>12 DEF TablesInv
  <2>2. QED
    BY <1>1, <1>9, <1>11, <1>13, <2>1 DEF Gapless
<1>17. QED
  BY <1>1, <1>11, <1>14, <1>15, <1>16 DEF TablesInv

\* A call that is closed early keeps what it has.
LEMMA ChunkUnreadKeeps ==
    ASSUME TablesInv, ChunkUnread
    PROVE  TablesInv'
<1>1. TablesTyped /\ look \in Looking /\ UNCHANGED <<kind, table, marks, stored, late>>
  BY DEF TablesInv, TablesTyped, ChunkUnread
<1>2. hitches' \in 0..MaxHitches /\ hitches' >= hitches /\ hitches \in Nat
  BY <1>1, TablesConstants DEF ChunkUnread, Hitch, TablesTyped
<1>3. /\ look' \in Looking /\ look'.stage = look.stage /\ look'.old = look.old /\ look'.todo = look.todo
      /\ look'.draft = look.draft /\ look'.got = look.got /\ look'.sheet = look.sheet /\ look'.pages = look.pages
  <2>1. look' = [look EXCEPT !.closing = TRUE]
    BY DEF ChunkUnread
  <2>2. QED
    BY <1>1, <2>1 DEF Looking
<1>4. TablesTyped'
  BY <1>1, <1>2, <1>3 DEF TablesTyped
<1>5. \A t \in Sheets : table'[t].version <= 1 + table'[t].rows + hitches'
  <2>1. \A t \in Sheets : /\ table[t].version \in Nat /\ table[t].rows \in Nat
                          /\ table[t].version <= 1 + table[t].rows + hitches
    BY <1>1, TablesConstants DEF TablesInv, TablesTyped
  <2>2. QED
    BY <1>1, <1>2, <2>1
<1>6. QED
  BY <1>1, <1>3, <1>4, <1>5 DEF TablesInv, MarkSound, ReadAsListed, ReadUpTo, Gapless

LEMMA TablesGoOn == TablesInv /\ [TablesNext]_tables => TablesInv'
<1> SUFFICES ASSUME TablesInv, [TablesNext]_tables PROVE TablesInv'
  OBVIOUS
<1>1. CASE UNCHANGED tables
  BY <1>1 DEF tables, TablesInv, TablesTyped, MarkSound, ReadAsListed, ReadUpTo, Gapless
<1>2. QED
  BY <1>1, OwnersKeep, BeginLookKeeps, FetchSheetKeeps, FetchRecordsKeeps, FetchIndexKeeps, VisitCommits,
     BetweenCalls, ReadChunkKeeps, ReadRecordsKeeps, ReadIndexKeeps, ChunkUnreadKeeps
     DEF TablesNext, Visit, Fetcher, Reader

\* What the invariant says of the tables, the marks and the visit implies their
\* types.
LEMMA TablesTyping == TablesInv => TablesTypeOK
<1> SUFFICES ASSUME TablesInv PROVE TablesTypeOK
  OBVIOUS
<1>1. TablesTyped
  BY DEF TablesInv
<1>2. ASSUME NEW t \in Sheets
      PROVE  /\ table[t].version \in 1..1 + MaxRows + MaxHitches /\ table[t].rows \in 0..MaxRows
             /\ marks.of[t].off \in 0..MaxRows + PageRows /\ marks.of[t].total \in 0..MaxRows
             /\ marks.of[t].version \in 0..table[t].version
  <2>1. /\ table[t].version \in Nat /\ table[t].rows \in 0..MaxRows /\ hitches \in 0..MaxHitches
        /\ marks.of[t] \in MarkOfSheet
    BY <1>1 DEF TablesTyped, MarkedSource
  <2>2. table[t].version >= 1 /\ table[t].version <= 1 + table[t].rows + hitches
    BY DEF TablesInv
  <2>3. marks.of[t].off <= MaxRows + PageRows /\ marks.of[t].total <= table[t].rows
        /\ marks.of[t].version <= table[t].version
    BY DEF TablesInv, MarkSound
  <2>4. marks.of[t].off \in Nat /\ marks.of[t].total \in Nat /\ marks.of[t].version \in Nat
    BY <2>1 DEF MarkOfSheet
  <2>5. QED
    BY <2>1, <2>2, <2>3, <2>4, TablesConstants
<1>3. table \in [Sheets -> [rows : 0..MaxRows, version : 1..1 + MaxRows + MaxHitches]]
  <2>1. table \in [Sheets -> [rows : 0..MaxRows, version : Nat]]
    BY <1>1 DEF TablesTyped
  <2>2. \A t \in Sheets : table[t] \in [rows : 0..MaxRows, version : 1..1 + MaxRows + MaxHitches]
    <3>1. ASSUME NEW t \in Sheets PROVE table[t] \in [rows : 0..MaxRows, version : 1..1 + MaxRows + MaxHitches]
      <4>1. table[t] \in [rows : 0..MaxRows, version : Nat]
        BY <2>1
      <4>2. QED
        BY <1>2, <4>1
    <3>2. QED
      BY <3>1
  <2>3. QED
    BY <2>1, <2>2
<1>4. marks.low \in 0..MaxRows /\ marks.head \in 0..MaxRows
  <2>1. marks.low <= marks.head /\ marks.head <= table[1].rows
    BY DEF TablesInv, Gapless
  <2>2. marks.low \in Nat /\ marks.head \in Nat /\ table[1].rows \in 0..MaxRows
    BY <1>1, TablesConstants DEF TablesTyped, MarkedSource
  <2>3. QED
    BY <2>1, <2>2, TablesConstants
<1>5. QED
  BY <1>1, <1>2, <1>3, <1>4 DEF TablesTypeOK, TablesTyped, MarkedSource, Looking, LookStages, AllRows

\* Types and bounds of the tables, the marks and the visit.
THEOREM TablesTypes == TablesSpec => []TablesTypeOK
BY TablesTyping, TablesFirst, TablesGoOn, PTL DEF TablesSpec

\* What the marks take for read is stored, for any sheets, sizes of pages and of
\* calls, whatever the owners add between two requests and wherever a visit
\* breaks off.
THEOREM MarksHoldTrue == TablesSpec => []MarksTrue
<1>1. TablesInv => MarksTrue
  <2> SUFFICES ASSUME TablesInv PROVE MarksTrue
    OBVIOUS
  <2>1. ASSUME NEW t \in Sheets
        PROVE  /\ MarkSound(marks.of[t], t, stored \cup late) /\ ReadAsListed(marks.of[t], t, stored \cup late)
               /\ table[t].rows \in Nat /\ marks.of[t].off \in Nat
    <3>1. table[t].rows \in Nat /\ marks.of[t].off \in Nat
      BY TablesConstants DEF TablesInv, TablesTyped, MarkedSource, MarkOfSheet
    <3>2. QED
      BY <3>1 DEF TablesInv
  <2>2. ASSUME NEW t \in Sheets, kind = "sheet", marks.of[t].version = table[t].version,
               NEW i \in 1..table[t].rows
        PROVE  <<t, i>> \in stored \cup late
    <3>1. marks.of[t].off >= table[t].rows /\ ReadUpTo(t, marks.of[t].off, stored \cup late)
      BY <2>1, <2>2 DEF MarkSound
    <3>2. i \in 1..marks.of[t].off /\ i <= table[t].rows
      BY <2>1, <3>1
    <3>3. QED
      BY <3>1, <3>2 DEF ReadUpTo
  <2>3. ASSUME NEW t \in Sheets, kind = "records", marks.of[t].finished, marks.of[t].total = table[t].rows,
               NEW i \in 1..table[t].rows
        PROVE  <<t, i>> \in stored \cup late
    <3>1. ReadUpTo(t, table[t].rows, stored \cup late)
      BY <2>1, <2>3 DEF ReadAsListed
    <3>2. QED
      BY <2>1, <3>1 DEF ReadUpTo
  <2>4. marks.low > 0 => \A i \in marks.low..marks.head : <<1, i>> \in stored \cup late
    BY DEF TablesInv, Gapless
  <2>5. QED
    BY <2>2, <2>3, <2>4 DEF MarksTrue
<1>2. QED
  BY <1>1, TablesFirst, TablesGoOn, PTL DEF TablesSpec
-----------------------------------------------------------------------------
(* Synchronisation                                                         *)

Other == OtherSide(turn)

SyncTyped ==
    /\ store \in [Sides -> [Ids -> Nat]] /\ open \in [Sides -> [Ids -> Nat]]
    /\ turn \in Sides /\ ticks \in Nat /\ ticks \in 1..LastTick
    /\ sync \in [stage : {"idle", "fetch", "apply", "raised"}, from : Sides, table : Nat,
                 had : [Ids -> Nat], rows : SUBSET Ids, quiet : BOOLEAN, began : Nat]
    /\ sync.table \in 0..Len(SyncTableSeq) + 1
    /\ sync.stage = "apply" => sync.table \in DOMAIN SyncTableSeq
    /\ sync.stage # "idle" => sync.table > 0

\* Only the side that is written has open transactions; they and the runs are
\* as short as they are said to be.
Timely ==
    /\ \A s \in Sides, i \in Ids :
         /\ store[s][i] <= ticks
         /\ s # turn => open[s][i] = 0
         /\ open[s][i] > 0 => /\ open[s][i] <= ticks /\ ticks <= open[s][i] + TxTime
                              /\ store[s][i] < open[s][i]
    /\ sync.stage # "idle" => sync.began <= ticks /\ ticks <= sync.began + RunTime

\* The keys of a database hold, those of open transactions included.
KeysHold ==
    \A s \in Sides, i \in Ids :
      /\ ParentOf[i] # NoParent =>
           /\ store[s][i] > 0 => store[s][ParentOf[i]] > 0
           /\ open[s][i] > 0 => InView(s, ParentOf[i])
      /\ \A j \in Ids : i # j /\ KeyOf[i] = KeyOf[j] => ~(InView(s, i) /\ InView(s, j))

\* Rows that a database will never take: a key is taken, or the parent is
\* such a row.
Shut(s, Z) ==
    \A i \in Z :
      /\ ~InView(s, i)
      /\ \/ \E j \in Ids \ {i} : KeyOf[j] = KeyOf[i] /\ store[s][j] > 0
         \/ ParentOf[i] # NoParent /\ ParentOf[i] \in Z

Barred(s) == UNION {Z \in SUBSET Ids : Shut(s, Z)}

Held(s, i, stamp) ==
    \/ store[s][i] > 0 /\ (MutableRow(i) => store[s][i] >= stamp)
    \/ i \in Barred(s)

\* What the side that is not written has, the other one has or will never take.
\* What that one has is held by the first one or is not yet older than its
\* newest row by the overlap.
Abreast ==
    /\ \A i \in Ids : store[Other][i] > 0 => Held(turn, i, store[Other][i])
    /\ \A i \in Ids, t \in DOMAIN SyncTableSeq :
         i \in SyncTableSeq[t] /\ store[turn][i] > 0 =>
           \/ Held(Other, i, store[turn][i])
           \/ \A k \in SyncTableSeq[t] : store[Other][k] < store[turn][i] + Overlap

\* What a run has read.
ReadRight ==
    sync.stage = "apply" =>
      /\ \A i \in sync.rows : i \in SyncTableSeq[sync.table] /\ sync.had[i] > 0
      /\ \A i \in SyncTableSeq[sync.table] :
           sync.had[i] > 0 => i \in sync.rows \/ Held(Target, i, sync.had[i])
      /\ \A i \in Ids :
           /\ sync.had[i] <= store[sync.from][i]
           /\ sync.had[i] = store[sync.from][i] \/ sync.began <= store[sync.from][i] + TxTime
           /\ \A j \in Ids : i # j /\ KeyOf[i] = KeyOf[j] => sync.had[i] = 0 \/ sync.had[j] = 0
      /\ sync.quiet \/ sync.from # turn => sync.had = store[sync.from]

\* Of the rows that were there when the run began, it has settled those of the
\* tables it is done with; all others are recent.
BaseOf(B) ==
    /\ \A i \in B : /\ store[turn][i] > 0
                    /\ ParentOf[i] # NoParent => ParentOf[i] \in B
                    /\ sync.stage = "apply" => sync.had[i] > 0
    /\ \A i \in Ids \ B : store[turn][i] > 0 => sync.began <= store[turn][i] + TxTime
    /\ \A i \in B, t \in DOMAIN SyncTableSeq : i \in SyncTableSeq[t] /\ t < sync.table =>
         store[Other][i] > 0 \/ i \in Barred(Other)

Settles ==
    sync.stage \in {"fetch", "apply"} /\ sync.from = turn =>
      /\ \E B \in SUBSET Ids : BaseOf(B)
      /\ sync.quiet => \A i \in Ids, t \in DOMAIN SyncTableSeq :
           i \in SyncTableSeq[t] /\ t < sync.table /\ store[turn][i] > 0 =>
             Held(Other, i, store[turn][i])

SyncInv == SyncTyped /\ Timely /\ KeysHold /\ Abreast /\ ReadRight /\ Settles

(* The two sides, and what one of them will never take                     *)

LEMMA OtherSides ==
    \A s \in Sides :
      /\ OtherSide(s) \in Sides /\ OtherSide(s) # s /\ OtherSide(OtherSide(s)) = s
      /\ \A t \in Sides : t = s \/ t = OtherSide(s)
<1>1. PICK a \in Sides, b \in Sides : a # b /\ Sides = {a, b}
  BY SyncTablesAssumption
<1>2. OtherSide(a) = b /\ OtherSide(b) = a
  BY <1>1 DEF OtherSide
<1>3. QED
  BY <1>1, <1>2

\* The newest stamp of a table is one of its stamps.
LEMMA NewestIsThere ==
    ASSUME NEW f \in [Ids -> Nat], NEW n \in Nat, \A i \in Ids : f[i] <= n,
           NEW C \in SUBSET Ids
    PROVE  \/ Max({f[i] : i \in C} \cup {0}) = 0
           \/ \E k \in C : Max({f[i] : i \in C} \cup {0}) = f[k]
<1> DEFINE S == {f[i] : i \in C} \cup {0}
           R == {p \in S \X S : p[2] > p[1]}
<1>1. S \in SUBSET Nat /\ S # {} /\ \A x \in S : x <= n
  OBVIOUS
<1>2. IsFiniteSet(S)
  <2>1. 0 \in Int /\ n \in Int /\ S \subseteq 0..n
    BY <1>1
  <2> HIDE DEF S
  <2>2. QED
    BY <2>1, FS_Interval, FS_Subset
<1> HIDE DEF S
<1>3. /\ \A a, b, c \in S : <<a, b>> \in R /\ <<b, c>> \in R => <<a, c>> \in R
      /\ \A a \in S : <<a, a>> \notin R
  BY <1>1
<1>4. PICK t \in S : \A u \in S : <<t, u>> \notin R
  <2> HIDE DEF R
  <2>1. QED
    BY <1>1, <1>2, <1>3, HasLast
<1>5. \A u \in S : t >= u
  <2> SUFFICES ASSUME NEW u \in S PROVE t >= u
    OBVIOUS
  <2>1. ~ (u > t)
    BY <1>4
  <2>2. t \in Nat /\ u \in Nat
    BY <1>1
  <2>3. QED
    BY <2>1, <2>2
<1>6. Max(S) \in S
  BY <1>5 DEF Max
<1>7. QED
  BY <1>6 DEF S

LEMMA BarredIsShut ==
    ASSUME NEW s \in Sides
    PROVE  /\ Barred(s) \in SUBSET Ids
           /\ Shut(s, Barred(s))
           /\ \A Z \in SUBSET Ids : Shut(s, Z) => Z \subseteq Barred(s)
  BY DEF Barred, Shut

\* What a database will never take it refuses.
LEMMA BarredIsRefused ==
    ASSUME SyncTyped, NEW s \in Sides, NEW i \in Barred(s)
    PROVE  /\ i \in Ids /\ store[s][i] = 0 /\ open[s][i] = 0
           /\ RefusedRow(store[s], i)
<1>1. Shut(s, Barred(s)) /\ Barred(s) \in SUBSET Ids
  BY BarredIsShut
<1>2. i \in Ids /\ ~InView(s, i)
  BY <1>1 DEF Shut
<1>3. \A k \in Ids : store[s][k] \in Nat /\ open[s][k] \in Nat
  BY DEF SyncTyped
<1>4. store[s][i] = 0 /\ open[s][i] = 0
  BY <1>2, <1>3 DEF InView
<1>5. CASE \E j \in Ids \ {i} : KeyOf[j] = KeyOf[i] /\ store[s][j] > 0
  BY <1>2, <1>4, <1>5 DEF RefusedRow
<1>6. CASE ParentOf[i] # NoParent /\ ParentOf[i] \in Barred(s)
  <2>1. ParentOf[i] \in Ids /\ ~InView(s, ParentOf[i])
    BY <1>1, <1>6 DEF Shut
  <2>2. store[s][ParentOf[i]] = 0
    BY <2>1, <1>3 DEF InView
  <2>3. QED
    BY <1>2, <1>4, <1>6, <2>2 DEF RefusedRow
<1>7. QED
  BY <1>1, <1>5, <1>6 DEF Shut

LEMMA RefusedIsBarred ==
    ASSUME NEW s \in Sides, NEW i \in Ids, ~InView(s, i),
           \/ \E j \in Ids \ {i} : KeyOf[j] = KeyOf[i] /\ store[s][j] > 0
           \/ ParentOf[i] # NoParent /\ ParentOf[i] \in Barred(s)
    PROVE  i \in Barred(s)
<1>1. Shut(s, Barred(s)) /\ Barred(s) \in SUBSET Ids
  BY BarredIsShut
<1>2. Shut(s, Barred(s) \cup {i}) /\ Barred(s) \cup {i} \in SUBSET Ids
  BY <1>1 DEF Shut
<1>3. QED
  BY <1>2, BarredIsShut

\* A row once barred stays so, as nothing is deleted.
LEMMA BarredStays ==
    ASSUME NEW s \in Sides, \A i \in Barred(s) : ~InView(s, i)',
           \A j \in Ids : store[s][j] > 0 => store'[s][j] > 0
    PROVE  \A i \in Barred(s) : i \in Barred(s)'
<1>1. PICK Z \in SUBSET Ids : Z = Barred(s)
  BY BarredIsShut
<1>2. Shut(s, Z)
  BY <1>1, BarredIsShut
<1>3. Shut(s, Z)'
  <2> SUFFICES ASSUME NEW i \in Z
               PROVE  /\ ~InView(s, i)'
                      /\ \/ \E j \in Ids \ {i} : KeyOf[j] = KeyOf[i] /\ store'[s][j] > 0
                         \/ ParentOf[i] # NoParent /\ ParentOf[i] \in Z
    BY DEF Shut
  <2>1. ~InView(s, i)'
    BY <1>1
  <2>2. \/ \E j \in Ids \ {i} : KeyOf[j] = KeyOf[i] /\ store[s][j] > 0
        \/ ParentOf[i] # NoParent /\ ParentOf[i] \in Z
    BY <1>2 DEF Shut
  <2>3. QED
    BY <2>1, <2>2
<1>4. Z \subseteq Barred(s)'
  BY <1>3 DEF Barred
<1>5. QED
  BY <1>1, <1>4

LEMMA HeldStays ==
    ASSUME NEW s \in Sides, NEW i \in Ids, NEW x \in Nat, Held(s, i, x),
           store[s][i] \in Nat, store'[s][i] \in Nat, store[s][i] <= store'[s][i],
           i \in Barred(s) => i \in Barred(s)'
    PROVE  Held(s, i, x)'
<1>1. CASE i \in Barred(s)
  BY <1>1 DEF Held
<1>2. CASE store[s][i] > 0 /\ (MutableRow(i) => store[s][i] >= x)
  <2>1. store'[s][i] > 0 /\ (MutableRow(i) => store'[s][i] >= x)
    <3>1. CASE MutableRow(i)
      BY <1>2, <3>1
    <3>2. CASE ~MutableRow(i)
      BY <1>2, <3>2
    <3>3. QED
      BY <3>1, <3>2
  <2>2. QED
    BY <2>1 DEF Held, MutableRow
<1>3. QED
  BY <1>1, <1>2 DEF Held

\* What one side has and the other one has not it refuses for ever.
LEMMA SyncFirst == SyncInit => SyncInv
<1> SUFFICES ASSUME SyncInit PROVE SyncInv
  OBVIOUS
<1>1. /\ store \in [Sides -> [Ids -> 0..1]]
      /\ \A s \in Sides, i \in Ids : store[s][i] > 0 =>
           /\ ~RefusedRow(store[s], i)
           /\ store[OtherSide(s)][i] > 0 \/ RefusedRow(store[OtherSide(s)], i)
  BY FirstRowsAssumption DEF SyncInit
<1>2. /\ open = [s \in Sides |-> [i \in Ids |-> 0]] /\ ticks = 1 /\ turn \in Sides
      /\ sync = Idle /\ LastTick \in Nat /\ LastTick >= 1 /\ TxTime \in Nat /\ RunTime \in Nat
      /\ Overlap \in Nat /\ TxTime + RunTime < Overlap
  BY SyncTablesAssumption DEF SyncInit, NoStamps
<1>3. \A s \in Sides, i \in Ids : store[s][i] \in 0..1 /\ open[s][i] = 0
  BY <1>1, <1>2
<1>4. \A s \in Sides, i \in Ids : InView(s, i) <=> store[s][i] > 0
  BY <1>3 DEF InView
<1>5. SyncTyped
  <2>1. store \in [Sides -> [Ids -> Nat]]
    <3>1. \A s \in Sides : store[s] \in [Ids -> Nat]
      BY <1>1
    <3>2. QED
      BY <1>1, <3>1
  <2>2. sync.table \in 0..Len(SyncTableSeq) + 1 /\ sync.stage = "idle"
    BY <1>2, SyncTablesAssumption DEF Idle
  <2>3. sync \in [stage : {"idle", "fetch", "apply", "raised"}, from : Sides, table : Nat,
                  had : [Ids -> Nat], rows : SUBSET Ids, quiet : BOOLEAN, began : Nat]
    BY <1>2 DEF Idle, NoStamps
  <2>4. QED
    BY <1>2, <2>1, <2>2, <2>3 DEF SyncTyped
<1>6. Timely
  BY <1>2, <1>3 DEF Timely, Idle
<1>7. \A s \in Sides, i \in Ids : store[s][i] > 0 =>
        /\ ParentOf[i] # NoParent => store[s][ParentOf[i]] > 0
        /\ \A j \in Ids \ {i} : KeyOf[j] = KeyOf[i] => store[s][j] = 0
  <2> SUFFICES ASSUME NEW s \in Sides, NEW i \in Ids, store[s][i] > 0
               PROVE  /\ ParentOf[i] # NoParent => store[s][ParentOf[i]] > 0
                      /\ \A j \in Ids \ {i} : KeyOf[j] = KeyOf[i] => store[s][j] = 0
    OBVIOUS
  <2>1. ~RefusedRow(store[s], i)
    BY <1>1
  <2>2. ParentOf[i] # NoParent => ParentOf[i] \in Ids /\ store[s][ParentOf[i]] # 0
    BY <2>1, SyncTablesAssumption DEF RefusedRow
  <2>3. \A j \in Ids \ {i} : KeyOf[j] = KeyOf[i] => ~ (store[s][j] > 0)
    BY <2>1 DEF RefusedRow
  <2>4. QED
    BY <2>2, <2>3, <1>3
<1>8. KeysHold
  BY <1>3, <1>4, <1>7 DEF KeysHold
<1>9. \A s \in Sides, i \in Ids : store[s][i] > 0 => Held(OtherSide(s), i, store[s][i])
  <2> SUFFICES ASSUME NEW s \in Sides, NEW i \in Ids, store[s][i] > 0
               PROVE  Held(OtherSide(s), i, store[s][i])
    OBVIOUS
  <2>1. PICK o \in Sides : o = OtherSide(s)
    BY OtherSides
  <2>2. CASE store[o][i] > 0
    <3>1. store[o][i] = 1 /\ store[s][i] = 1
      BY <1>3, <2>2
    <3>2. QED
      BY <2>1, <3>1 DEF Held
  <2>3. CASE store[o][i] = 0
    <3> DEFINE Z == {k \in Ids : store[s][k] > 0 /\ store[o][k] = 0}
    <3>1. ASSUME NEW k \in Z
          PROVE  /\ ~InView(o, k)
                 /\ \/ \E j \in Ids \ {k} : KeyOf[j] = KeyOf[k] /\ store[o][j] > 0
                    \/ ParentOf[k] # NoParent /\ ParentOf[k] \in Z
      <4>1. RefusedRow(store[o], k) /\ ~InView(o, k)
        BY <1>1, <1>4, <2>1
      <4>2. CASE ParentOf[k] # NoParent /\ store[o][ParentOf[k]] = 0
        <5>1. ParentOf[k] \in Ids /\ store[s][ParentOf[k]] > 0
          BY <4>2, <1>7, SyncTablesAssumption
        <5>2. QED
          BY <4>1, <4>2, <5>1
      <4>3. QED
        BY <4>1, <4>2 DEF RefusedRow
    <3>2. Z \in SUBSET Ids /\ i \in Z
      BY <2>3
    <3> HIDE DEF Z
    <3>3. Shut(o, Z)
      BY <3>1 DEF Shut
    <3>4. i \in Barred(o)
      BY <3>2, <3>3, BarredIsShut
    <3>5. QED
      BY <2>1, <3>4 DEF Held
  <2>4. QED
    BY <1>3, <2>2, <2>3
<1>10. Abreast
  <2>1. \A i \in Ids : store[Other][i] > 0 => Held(turn, i, store[Other][i])
    BY <1>2, <1>9, OtherSides DEF Other
  <2>2. \A i \in Ids : store[turn][i] > 0 => Held(Other, i, store[turn][i])
    BY <1>2, <1>9 DEF Other
  <2>3. QED
    BY <2>1, <2>2 DEF Abreast
<1>11. ReadRight /\ Settles
  BY <1>2 DEF ReadRight, Settles, Idle
<1>12. QED
  BY <1>5, <1>6, <1>8, <1>10, <1>11 DEF SyncInv

-----------------------------------------------------------------------------
(* The steps                                                               *)

\* What is known of the sides and the constants.
LEMMA SyncSides ==
    ASSUME SyncTyped
    PROVE  /\ turn \in Sides /\ Other \in Sides /\ Other # turn
           /\ sync.from \in Sides /\ Target \in Sides /\ Target # sync.from
           /\ \A s \in Sides : s = turn \/ s = Other
           /\ sync.from = turn => Target = Other
           /\ sync.from # turn => sync.from = Other /\ Target = turn
           /\ \A s \in Sides, i \in Ids : store[s][i] \in Nat /\ open[s][i] \in Nat
           /\ \A i \in Ids : sync.had[i] \in Nat
           /\ ticks \in Nat /\ sync.began \in Nat /\ sync.table \in Nat
           /\ TxTime \in Nat /\ RunTime \in Nat /\ Overlap \in Nat /\ TxTime + RunTime < Overlap
           /\ \A i \in Ids : ParentOf[i] # NoParent => ParentOf[i] \in Ids
           /\ \A t \in DOMAIN SyncTableSeq : t \in Nat /\ SyncTableSeq[t] \in SUBSET Ids
<1>1. turn \in Sides /\ sync.from \in Sides
  BY DEF SyncTyped
<1>2. /\ Other \in Sides /\ Other # turn /\ Target \in Sides /\ Target # sync.from
      /\ \A s \in Sides : s = turn \/ s = Other
      /\ sync.from = turn => Target = Other
      /\ sync.from # turn => sync.from = Other /\ Target = turn
  BY <1>1, OtherSides DEF Other, Target
<1>3. /\ \A s \in Sides, i \in Ids : store[s][i] \in Nat /\ open[s][i] \in Nat
      /\ \A i \in Ids : sync.had[i] \in Nat
      /\ ticks \in Nat /\ sync.began \in Nat /\ sync.table \in Nat
  BY DEF SyncTyped
<1>4. QED
  BY <1>1, <1>2, <1>3, SyncTablesAssumption

\* In a step that writes nothing to the databases, the two stay as they were.
LEMMA StoresStay ==
    ASSUME SyncInv, UNCHANGED <<store, turn>>,
           \A s \in Sides : \A i \in Barred(s) : i \in Barred(s)'
    PROVE  /\ Abreast'
           /\ \A s \in Sides, i \in Ids, x \in Nat : Held(s, i, x) => Held(s, i, x)'
           /\ UNCHANGED sync => ReadRight' /\ Settles'
<1>1. SyncTyped
  BY DEF SyncInv
<1>2. \A s \in Sides, i \in Ids, x \in Nat : Held(s, i, x) => Held(s, i, x)'
  BY DEF Held, MutableRow
<1>3. PICK w \in Sides : w = turn
  BY <1>1, SyncSides
<1>4. PICK o \in Sides : o = Other /\ o = OtherSide(w)
  BY <1>1, <1>3, SyncSides DEF Other
<1>5. PICK f : f = store
  OBVIOUS
<1>6. turn' = w /\ Other' = o /\ store' = f /\ f[o] \in [Ids -> Nat] /\ f[w] \in [Ids -> Nat]
  BY <1>1, <1>3, <1>4, <1>5 DEF Other, SyncTyped
<1>7. Abreast'
  <2>1. ASSUME NEW i \in Ids, f[o][i] > 0
        PROVE  Held(w, i, f[o][i])'
    <3>1. f[o][i] \in Nat /\ Held(w, i, f[o][i])
      BY <1>3, <1>4, <1>5, <1>6, <2>1 DEF SyncInv, Abreast
    <3>2. QED
      BY <3>1, <1>2
  <2>2. ASSUME NEW i \in Ids, NEW t \in DOMAIN SyncTableSeq, i \in SyncTableSeq[t], f[w][i] > 0
        PROVE  Held(o, i, f[w][i])' \/ \A k \in SyncTableSeq[t] : f[o][k] < f[w][i] + Overlap
    <3>1. /\ f[w][i] \in Nat
          /\ Held(o, i, f[w][i]) \/ \A k \in SyncTableSeq[t] : f[o][k] < f[w][i] + Overlap
      BY <1>3, <1>4, <1>5, <1>6, <2>2 DEF SyncInv, Abreast
    <3>2. QED
      BY <3>1, <1>2
  <2>3. QED
    BY <1>6, <2>1, <2>2 DEF Abreast
<1>8. ASSUME UNCHANGED sync
      PROVE  ReadRight'
  <2>1. PICK r : r = sync
    OBVIOUS
  <2>2. sync' = r /\ Target \in Sides /\ Target' = Target /\ \A i \in Ids : r.had[i] \in Nat
    BY <1>1, <1>8, <2>1, SyncSides DEF Target
  <2>3. PICK g \in Sides : g = Target
    BY <2>2
  <2>4. SUFFICES ASSUME r.stage = "apply"
                 PROVE  ReadRight'
    BY <2>2 DEF ReadRight
  <2>5. ASSUME NEW i \in SyncTableSeq[r.table], i \in Ids, r.had[i] > 0, Held(g, i, r.had[i])
        PROVE  Held(g, i, r.had[i])'
    BY <1>2, <2>2, <2>5
  <2>6. \A i \in SyncTableSeq[r.table] : i \in Ids
    BY <1>1, <2>1, <2>4, SyncSides DEF SyncTyped
  <2>7. QED
    BY <1>3, <1>6, <1>5, <2>1, <2>2, <2>3, <2>4, <2>5, <2>6 DEF SyncInv, ReadRight
<1>9. ASSUME UNCHANGED sync
      PROVE  Settles'
  <2>1. PICK r : r = sync
    OBVIOUS
  <2>2. sync' = r
    BY <1>9, <2>1
  <2>3. SUFFICES ASSUME r.stage \in {"fetch", "apply"}, r.from = w
                 PROVE  Settles'
    BY <1>6, <2>2 DEF Settles
  <2>4. \E B \in SUBSET Ids : BaseOf(B)'
    <3>1. PICK B \in SUBSET Ids : BaseOf(B)
      BY <1>3, <2>1, <2>3 DEF SyncInv, Settles
    <3>2. BaseOf(B)'
      BY <1>3, <1>4, <1>5, <1>6, <2>1, <2>2, <3>1 DEF BaseOf
    <3>3. QED
      BY <3>2
  <2>5. ASSUME r.quiet, NEW i \in Ids, NEW t \in DOMAIN SyncTableSeq,
               i \in SyncTableSeq[t], t < r.table, f[w][i] > 0
        PROVE  Held(o, i, f[w][i])'
    <3>1. f[w][i] \in Nat /\ Held(o, i, f[w][i])
      BY <1>3, <1>4, <1>5, <1>6, <2>1, <2>3, <2>5 DEF SyncInv, Settles
    <3>2. QED
      BY <3>1, <1>2
  <2>6. QED
    BY <1>6, <2>2, <2>4, <2>5 DEF Settles
<1>10. QED
  BY <1>2, <1>7, <1>8, <1>9

\* Where nothing is written or opened, what is barred stays barred.
LEMMA BarredAtRest ==
    ASSUME NEW s \in Sides, store'[s] = store[s], open'[s] = open[s]
    PROVE  \A i \in Barred(s) : i \in Barred(s)'
<1>1. \A i \in Barred(s) : ~InView(s, i)'
  BY BarredIsShut DEF Shut, InView
<1>2. QED
  BY <1>1, BarredStays

LEMMA WriteKeeps ==
    ASSUME Alternate, SyncInv, NEW s \in Sides, NEW i \in Ids, WriteRow(s, i)
    PROVE  SyncInv'
<1>1. SyncTyped
  BY DEF SyncInv
<1>2. /\ turn = s /\ open[s][i] = 0 /\ UNCHANGED <<store, turn, sync, ticks>>
      /\ open' = [open EXCEPT ![s][i] = ticks]
      /\ \A j \in Ids \ {i} : KeyOf[j] = KeyOf[i] => ~InView(s, j)
      /\ ParentOf[i] # NoParent => InView(s, ParentOf[i])
  BY DEF WriteRow
<1>3. ticks \in Nat /\ ticks > 0
  BY <1>1 DEF SyncTyped
<1>4. store[s][i] < ticks
  BY <1>1, <1>3, SyncSides DEF WriteRow
<1>5. /\ open' \in [Sides -> [Ids -> Nat]]
      /\ open'[s][i] = ticks
      /\ \A r \in Sides, k \in Ids : r # s \/ k # i => open'[r][k] = open[r][k]
      /\ \A r \in Sides : r # s => open'[r] = open[r]
  BY <1>1, <1>2, <1>3 DEF SyncTyped
<1>6. /\ \A r \in Sides, k \in Ids : InView(r, k) => InView(r, k)'
      /\ \A r \in Sides, k \in Ids : InView(r, k)' => InView(r, k) \/ (r = s /\ k = i)
  BY <1>1, <1>2, <1>3, <1>5, SyncSides DEF InView
<1>7. SyncTyped'
  BY <1>1, <1>2, <1>5 DEF SyncTyped
<1>8. Timely'
  <2>1. ASSUME NEW r \in Sides, NEW k \in Ids
        PROVE  /\ store[r][k] <= ticks
               /\ r # turn => open'[r][k] = 0
               /\ open'[r][k] > 0 => /\ open'[r][k] <= ticks /\ ticks <= open'[r][k] + TxTime
                                     /\ store[r][k] < open'[r][k]
    <3>1. CASE r = s /\ k = i
      BY <1>1, <1>2, <1>3, <1>4, <1>5, <3>1, SyncSides
    <3>2. CASE r # s \/ k # i
      BY <1>5, <3>2 DEF SyncInv, Timely
    <3>3. QED
      BY <3>1, <3>2
  <2>2. QED
    BY <1>2, <2>1 DEF SyncInv, Timely
<1>9. KeysHold'
  <2>1. ASSUME NEW r \in Sides, NEW k \in Ids, ParentOf[k] # NoParent
        PROVE  /\ store[r][k] > 0 => store[r][ParentOf[k]] > 0
               /\ open'[r][k] > 0 => InView(r, ParentOf[k])'
    <3>1. ParentOf[k] \in Ids
      BY <1>1, <2>1, SyncSides
    <3>2. CASE r = s /\ k = i
      BY <1>2, <1>6, <2>1, <3>1, <3>2 DEF SyncInv, KeysHold
    <3>3. CASE r # s \/ k # i
      BY <1>5, <1>6, <2>1, <3>1, <3>3 DEF SyncInv, KeysHold
    <3>4. QED
      BY <3>2, <3>3
  <2>2. ASSUME NEW r \in Sides, NEW k \in Ids, NEW j \in Ids, k # j, KeyOf[k] = KeyOf[j],
               InView(r, k)', InView(r, j)'
        PROVE  FALSE
    <3>1. ~(InView(r, k) /\ InView(r, j))
      BY <2>2 DEF SyncInv, KeysHold
    <3>2. CASE r = s /\ k = i
      BY <1>2, <1>6, <2>2, <3>2
    <3>3. CASE r = s /\ j = i
      BY <1>2, <1>6, <2>2, <3>3
    <3>4. QED
      BY <1>6, <2>2, <3>1, <3>2, <3>3
  <2>3. QED
    BY <1>2, <2>1, <2>2 DEF KeysHold
<1>10. ASSUME NEW r \in Sides
       PROVE  \A k \in Barred(r) : k \in Barred(r)'
  <2>1. CASE r # s
    BY <1>2, <1>5, <2>1, BarredAtRest
  <2>2. CASE r = s
    <3>1. Shut(s, Barred(s)) /\ Barred(s) \in SUBSET Ids
      BY BarredIsShut
    <3>2. i \notin Barred(s)
      <4>1. SUFFICES ASSUME i \in Barred(s) PROVE FALSE
        OBVIOUS
      <4>2. CASE \E j \in Ids \ {i} : KeyOf[j] = KeyOf[i] /\ store[s][j] > 0
        BY <1>2, <4>2 DEF InView
      <4>3. CASE ParentOf[i] # NoParent /\ ParentOf[i] \in Barred(s)
        BY <1>2, <3>1, <4>3 DEF Shut
      <4>4. QED
        BY <3>1, <4>1, <4>2, <4>3 DEF Shut
    <3>3. \A k \in Barred(s) : ~InView(s, k)'
      BY <1>6, <3>1, <3>2 DEF Shut
    <3>4. QED
      BY <1>2, <2>2, <3>3, BarredStays
  <2>3. QED
    BY <2>1, <2>2
<1>11. QED
  BY <1>2, <1>7, <1>8, <1>9, <1>10, StoresStay DEF SyncInv

LEMMA TickKeeps ==
    ASSUME SyncInv, SyncTick
    PROVE  SyncInv'
<1>1. SyncTyped
  BY DEF SyncInv
<1>2. /\ ticks < LastTick /\ ticks' = ticks + 1 /\ UNCHANGED <<store, open, turn, sync>>
      /\ \A s \in Sides, i \in Ids : open[s][i] > 0 => ticks < open[s][i] + TxTime
      /\ sync.stage # "idle" => ticks < sync.began + RunTime
  BY DEF SyncTick, Punctual
<1>3. SyncTyped'
  BY <1>1, <1>2, SyncTablesAssumption DEF SyncTyped
<1>4. Timely'
  <2>1. ASSUME NEW s \in Sides, NEW i \in Ids
        PROVE  /\ store[s][i] <= ticks + 1
               /\ s # turn => open[s][i] = 0
               /\ open[s][i] > 0 => /\ open[s][i] <= ticks + 1 /\ ticks + 1 <= open[s][i] + TxTime
                                    /\ store[s][i] < open[s][i]
    BY <1>1, <1>2, SyncSides DEF SyncInv, Timely
  <2>2. sync.stage # "idle" => sync.began <= ticks + 1 /\ ticks + 1 <= sync.began + RunTime
    BY <1>1, <1>2, SyncSides DEF SyncInv, Timely
  <2>3. QED
    BY <1>2, <2>1, <2>2 DEF Timely
<1>5. KeysHold'
  BY <1>2 DEF SyncInv, KeysHold, InView
<1>6. \A s \in Sides : \A i \in Barred(s) : i \in Barred(s)'
  BY <1>2, BarredAtRest
<1>7. QED
  BY <1>2, <1>3, <1>4, <1>5, <1>6, StoresStay DEF SyncInv

\* A run that does not write.
LEMMA RunAlone ==
    ASSUME SyncInv, UNCHANGED <<store, open, turn, ticks>>, SyncTyped',
           sync'.stage # "idle" => sync'.began <= ticks /\ ticks <= sync'.began + RunTime
    PROVE  /\ Timely' /\ KeysHold' /\ Abreast'
           /\ \A s \in Sides, i \in Ids, x \in Nat : Held(s, i, x) => Held(s, i, x)'
<1>1. \A s \in Sides : \A i \in Barred(s) : i \in Barred(s)'
  BY BarredAtRest
<1>2. Timely'
  BY DEF SyncInv, Timely
<1>3. KeysHold'
  BY DEF SyncInv, KeysHold, InView
<1>4. QED
  BY <1>1, <1>2, <1>3, StoresStay

LEMMA EndKeeps ==
    ASSUME SyncInv, EndSync
    PROVE  SyncInv'
<1>1. UNCHANGED <<store, open, turn, ticks>> /\ sync' = Idle
  BY DEF EndSync
<1>2. SyncTyped'
  <2>1. sync'.table \in 0..Len(SyncTableSeq) + 1 /\ sync'.stage = "idle"
    BY <1>1, SyncTablesAssumption DEF Idle
  <2>2. sync' \in [stage : {"idle", "fetch", "apply", "raised"}, from : Sides, table : Nat,
                   had : [Ids -> Nat], rows : SUBSET Ids, quiet : BOOLEAN, began : Nat]
    BY <1>1, SyncTablesAssumption DEF Idle, NoStamps
  <2>3. QED
    BY <1>1, <2>1, <2>2 DEF SyncInv, SyncTyped
<1>3. sync'.stage = "idle"
  BY <1>1 DEF Idle
<1>4. ReadRight' /\ Settles'
  BY <1>3 DEF ReadRight, Settles
<1>5. QED
  BY <1>1, <1>2, <1>3, <1>4, RunAlone DEF SyncInv

LEMMA BeginKeeps ==
    ASSUME SyncInv, NEW s \in Sides, BeginSync(s)
    PROVE  SyncInv'
<1>1. SyncTyped
  BY DEF SyncInv
<1>2. /\ UNCHANGED <<store, open, turn, ticks>>
      /\ sync' = [Idle EXCEPT !.stage = "fetch", !.from = s, !.table = 1,
                              !.quiet = open[s] = NoStamps, !.began = ticks]
  BY DEF BeginSync
<1>3. sync' = [stage |-> "fetch", from |-> s, table |-> 1, had |-> NoStamps, rows |-> {},
               quiet |-> (open[s] = NoStamps), began |-> ticks]
  BY <1>2 DEF Idle
<1>4. SyncTyped'
  <2>1. 1 \in 0..Len(SyncTableSeq) + 1
    BY SyncTablesAssumption
  <2>2. sync' \in [stage : {"idle", "fetch", "apply", "raised"}, from : Sides, table : Nat,
                   had : [Ids -> Nat], rows : SUBSET Ids, quiet : BOOLEAN, began : Nat]
    BY <1>1, <1>3, SyncSides DEF NoStamps
  <2>3. sync'.table = 1 /\ sync'.stage = "fetch"
    BY <1>3
  <2>4. QED
    BY <1>1, <1>2, <2>1, <2>2, <2>3 DEF SyncTyped
<1>5. Timely' /\ KeysHold' /\ Abreast'
  <2>1. sync'.began <= ticks /\ ticks <= sync'.began + RunTime
    BY <1>1, <1>3, SyncSides
  <2>2. QED
    BY <1>2, <1>4, <2>1, RunAlone
<1>6. ReadRight'
  BY <1>3 DEF ReadRight
<1>7. Settles'
  <2>1. SUFFICES ASSUME s = turn PROVE Settles'
    BY <1>2, <1>3 DEF Settles
  <2>2. \E B \in SUBSET Ids : BaseOf(B)'
    <3>0. PICK B \in SUBSET Ids : B = {i \in Ids : store[turn][i] > 0}
      OBVIOUS
    <3>1. \A i \in B : ParentOf[i] # NoParent => ParentOf[i] \in B
      BY <1>1, <3>0, SyncSides DEF SyncInv, KeysHold
    <3>2. BaseOf(B)'
      <4> SUFFICES /\ \A i \in B : store[turn][i] > 0
                   /\ \A t \in DOMAIN SyncTableSeq : ~ (t < 1)
        BY <1>2, <1>3, <3>0, <3>1 DEF BaseOf
      <4>1. QED
        BY <3>0, SyncTablesAssumption
    <3>3. QED
      BY <3>2
  <2>3. \A t \in DOMAIN SyncTableSeq : ~ (t < 1)
    BY SyncTablesAssumption
  <2>4. QED
    BY <1>3, <2>2, <2>3 DEF Settles
<1>8. QED
  BY <1>4, <1>5, <1>6, <1>7 DEF SyncInv

\* A commit brings rows whose stamps are not older than a transaction takes.
LEMMA CommitKeeps ==
    ASSUME SyncInv, NEW s \in Sides, CommitRows(s)
    PROVE  SyncInv'
<1>1. SyncTyped
  BY DEF SyncInv
<1>2. /\ open[s] # NoStamps
      /\ store' = [store EXCEPT ![s] = [i \in Ids |-> IF open[s][i] > 0 THEN open[s][i] ELSE @[i]]]
      /\ open' = [open EXCEPT ![s] = NoStamps]
      /\ sync' = [sync EXCEPT !.quiet = FALSE]
      /\ UNCHANGED <<turn, ticks>>
  BY DEF CommitRows
<1>3. s = turn
  <2>1. SUFFICES ASSUME s # turn PROVE open[s] = NoStamps
    BY <1>2
  <2>2. open[s] \in [Ids -> Nat] /\ \A i \in Ids : open[s][i] = 0
    BY <1>1, <2>1 DEF SyncInv, Timely, SyncTyped
  <2>3. QED
    BY <2>2 DEF NoStamps
<1>4. /\ \A i \in Ids : store'[s][i] = IF open[s][i] > 0 THEN open[s][i] ELSE store[s][i]
      /\ \A i \in Ids : open'[s][i] = 0
      /\ \A r \in Sides : r # s => store'[r] = store[r] /\ open'[r] = open[r]
      /\ store' \in [Sides -> [Ids -> Nat]] /\ open' \in [Sides -> [Ids -> Nat]]
  BY <1>1, <1>2 DEF SyncTyped, NoStamps
<1>5. \A i \in Ids : /\ store[s][i] <= store'[s][i]
                     /\ store'[s][i] <= ticks
                     /\ store'[s][i] # store[s][i] => ticks <= store'[s][i] + TxTime
  BY <1>1, <1>4, SyncSides DEF SyncInv, Timely
<1>6. \A r \in Sides, i \in Ids : /\ store'[r][i] \in Nat /\ store[r][i] <= store'[r][i]
                                  /\ store[r][i] > 0 => store'[r][i] > 0
  <2>1. ASSUME NEW r \in Sides, NEW i \in Ids
        PROVE  /\ store'[r][i] \in Nat /\ store[r][i] <= store'[r][i]
               /\ store[r][i] > 0 => store'[r][i] > 0
    <3>1. store[r][i] \in Nat /\ store'[r][i] \in Nat
      BY <1>1, <1>4, SyncSides
    <3>2. CASE r = s
      BY <1>5, <3>1, <3>2
    <3>3. CASE r # s
      BY <1>4, <3>1, <3>3
    <3>4. QED
      BY <3>2, <3>3
  <2>2. QED
    BY <2>1
<1>7. \A r \in Sides, i \in Ids : InView(r, i)' <=> InView(r, i)
  BY <1>1, <1>4, SyncSides DEF InView
<1>8. /\ sync' \in [stage : {"idle", "fetch", "apply", "raised"}, from : Sides, table : Nat,
                    had : [Ids -> Nat], rows : SUBSET Ids, quiet : BOOLEAN, began : Nat]
      /\ sync'.stage = sync.stage /\ sync'.from = sync.from /\ sync'.table = sync.table
      /\ sync'.had = sync.had /\ sync'.rows = sync.rows /\ sync'.began = sync.began
      /\ sync'.quiet = FALSE
  BY <1>1, <1>2 DEF SyncTyped
<1>9. SyncTyped'
  BY <1>1, <1>2, <1>4, <1>8 DEF SyncTyped
<1>10. Timely'
  <2>1. ASSUME NEW r \in Sides, NEW i \in Ids
        PROVE  /\ store'[r][i] <= ticks
               /\ r # turn => open'[r][i] = 0
               /\ open'[r][i] > 0 => /\ open'[r][i] <= ticks /\ ticks <= open'[r][i] + TxTime
                                     /\ store'[r][i] < open'[r][i]
    <3>1. CASE r = s
      BY <1>4, <1>5, <3>1
    <3>2. CASE r # s
      BY <1>3, <1>4, <3>2 DEF SyncInv, Timely
    <3>3. QED
      BY <3>1, <3>2
  <2>2. QED
    BY <1>2, <1>8, <2>1 DEF SyncInv, Timely
<1>11. KeysHold'
  <2>1. ASSUME NEW r \in Sides, NEW i \in Ids, ParentOf[i] # NoParent
        PROVE  /\ store'[r][i] > 0 => store'[r][ParentOf[i]] > 0
               /\ open'[r][i] > 0 => InView(r, ParentOf[i])'
    <3>1. /\ ParentOf[i] \in Ids
          /\ store[r][i] > 0 => store[r][ParentOf[i]] > 0
          /\ open[r][i] > 0 => InView(r, ParentOf[i])
      BY <1>1, <2>1, SyncSides DEF SyncInv, KeysHold
    <3>2. CASE r = s
      BY <1>1, <1>4, <3>1, <3>2, SyncSides DEF InView
    <3>3. CASE r # s
      BY <1>4, <1>7, <3>1, <3>3
    <3>4. QED
      BY <3>2, <3>3
  <2>2. QED
    BY <1>7, <2>1 DEF SyncInv, KeysHold
<1>12. ASSUME NEW r \in Sides
       PROVE  \A i \in Barred(r) : i \in Barred(r)'
  <2>1. \A i \in Barred(r) : ~InView(r, i)'
    BY <1>7, BarredIsShut DEF Shut
  <2>2. QED
    BY <1>6, <2>1, BarredStays
<1>13. \A r \in Sides, i \in Ids, x \in Nat : Held(r, i, x) => Held(r, i, x)'
  BY <1>1, <1>6, <1>12, HeldStays, SyncSides
<1>14. PICK o \in Sides : o = Other
  BY <1>1, SyncSides
<1>15. o # s /\ store'[o] = store[o] /\ Other' = o /\ turn' = s /\ OtherSide(s) = o
  BY <1>1, <1>2, <1>3, <1>4, <1>14, SyncSides DEF Other
<1>16. Abreast'
  <2>1. ASSUME NEW i \in Ids, store[o][i] > 0
        PROVE  Held(s, i, store[o][i])'
    <3>1. PICK x \in Nat : x = store[o][i]
      BY <1>1, SyncSides
    <3>2. Held(s, i, x)
      BY <1>3, <1>14, <2>1, <3>1 DEF SyncInv, Abreast
    <3>3. Held(s, i, x)'
      BY <1>13, <3>2
    <3>4. QED
      BY <1>15, <3>1, <3>3
  <2>2. ASSUME NEW i \in Ids, NEW t \in DOMAIN SyncTableSeq, i \in SyncTableSeq[t], store'[s][i] > 0
        PROVE  \/ Held(o, i, store[s][i])' /\ store'[s][i] = store[s][i]
               \/ \A k \in SyncTableSeq[t] : store[o][k] < store'[s][i] + Overlap
    <3>1. CASE store'[s][i] # store[s][i]
      <4>1. ASSUME NEW k \in SyncTableSeq[t]
            PROVE  store[o][k] < store'[s][i] + Overlap
        <5>1. k \in Ids /\ store[o][k] <= ticks /\ store[o][k] \in Nat
          BY <1>1, SyncSides DEF SyncInv, Timely
        <5>2. ticks <= store'[s][i] + TxTime /\ store'[s][i] \in Nat
          BY <1>5, <1>6, <3>1
        <5>3. QED
          BY <1>1, <5>1, <5>2, SyncSides
      <4>2. QED
        BY <4>1
    <3>2. CASE store'[s][i] = store[s][i]
      <4>1. PICK x \in Nat : x = store[s][i]
        BY <1>1, SyncSides
      <4>2. Held(o, i, x) \/ \A k \in SyncTableSeq[t] : store[o][k] < x + Overlap
        BY <1>3, <1>14, <2>2, <3>2, <4>1 DEF SyncInv, Abreast
      <4>3. Held(o, i, x) => Held(o, i, x)'
        BY <1>13
      <4>4. QED
        BY <3>2, <4>1, <4>2, <4>3
    <3>3. QED
      BY <3>1, <3>2
  <2>3. QED
    BY <1>15, <2>1, <2>2 DEF Abreast
<1>17. PICK r : r = sync
  OBVIOUS
<1>18. PICK g \in Sides : g = Target
  BY <1>1, SyncSides
<1>19. Target' = g
  BY <1>8, <1>18 DEF Target
<1>20. ReadRight'
  <2>1. SUFFICES ASSUME sync.stage = "apply" PROVE ReadRight'
    BY <1>8 DEF ReadRight
  <2>2. \A i \in SyncTableSeq[sync.table] : i \in Ids
    BY <1>1, <2>1, SyncSides DEF SyncTyped
  <2>3. ASSUME NEW i \in SyncTableSeq[sync.table], sync.had[i] > 0, i \notin sync.rows
        PROVE  Held(Target, i, sync.had[i])'
    <3>1. PICK x \in Nat : x = sync.had[i]
      BY <1>1, <2>2, SyncSides
    <3>2. Held(g, i, x)
      BY <1>18, <2>1, <2>3, <3>1 DEF SyncInv, ReadRight
    <3>3. Held(g, i, x)'
      BY <1>13, <2>2, <3>2
    <3>4. QED
      BY <1>8, <1>19, <3>1, <3>3
  <2>4. ASSUME NEW i \in Ids
        PROVE  /\ sync.had[i] <= store'[sync.from][i]
               /\ sync.had[i] = store'[sync.from][i] \/ sync.began <= store'[sync.from][i] + TxTime
    <3>1. /\ sync.had[i] <= store[sync.from][i]
          /\ sync.had[i] = store[sync.from][i] \/ sync.began <= store[sync.from][i] + TxTime
      BY <2>1 DEF SyncInv, ReadRight
    <3>2. /\ store[sync.from][i] \in Nat /\ store'[sync.from][i] \in Nat /\ sync.had[i] \in Nat
          /\ sync.began \in Nat /\ TxTime \in Nat /\ ticks \in Nat
          /\ store[sync.from][i] <= store'[sync.from][i]
      BY <1>1, <1>6, SyncSides
    <3>3. store'[sync.from][i] # store[sync.from][i] => ticks <= store'[sync.from][i] + TxTime
      <4>1. CASE sync.from = s
        BY <1>5, <4>1
      <4>2. CASE sync.from # s
        BY <1>1, <1>4, <4>2, SyncSides
      <4>3. QED
        BY <4>1, <4>2
    <3>4. sync.began <= ticks
      BY <2>1 DEF SyncInv, Timely
    <3>5. QED
      BY <3>1, <3>2, <3>3, <3>4
  <2>5. sync.from # turn => sync.had = store'[sync.from]
    BY <1>1, <1>3, <1>4, <2>1, SyncSides DEF SyncInv, ReadRight
  <2>6. /\ \A i \in sync.rows : i \in SyncTableSeq[sync.table] /\ sync.had[i] > 0
        /\ \A i, j \in Ids : i # j /\ KeyOf[i] = KeyOf[j] => sync.had[i] = 0 \/ sync.had[j] = 0
    BY <2>1 DEF SyncInv, ReadRight
  <2>7. QED
    BY <1>2, <1>8, <2>3, <2>4, <2>5, <2>6 DEF ReadRight
<1>21. Settles'
  <2>1. SUFFICES ASSUME sync.stage \in {"fetch", "apply"}, sync.from = s
                 PROVE  Settles'
    BY <1>2, <1>3, <1>8 DEF Settles
  <2>2. PICK B \in SUBSET Ids : BaseOf(B)
    BY <1>3, <2>1 DEF SyncInv, Settles
  <2>3. \A i \in B : /\ store'[s][i] > 0
                     /\ ParentOf[i] # NoParent => ParentOf[i] \in B
                     /\ sync.stage = "apply" => sync.had[i] > 0
    BY <1>3, <1>6, <2>2 DEF BaseOf
  <2>4. \A i \in Ids \ B : store'[s][i] > 0 => sync.began <= store'[s][i] + TxTime
    <3> SUFFICES ASSUME NEW i \in Ids \ B, store'[s][i] > 0
                 PROVE  sync.began <= store'[s][i] + TxTime
      OBVIOUS
    <3>1. store'[s][i] = store[s][i] => sync.began <= store'[s][i] + TxTime
      BY <1>3, <2>2 DEF BaseOf
    <3>2. /\ sync.began <= ticks
          /\ store'[s][i] # store[s][i] => ticks <= store'[s][i] + TxTime
          /\ store'[s][i] \in Nat
      BY <1>5, <1>6, <2>1 DEF SyncInv, Timely
    <3>3. QED
      BY <1>1, <3>1, <3>2, SyncSides
  <2>5. \A i \in B, t \in DOMAIN SyncTableSeq : i \in SyncTableSeq[t] /\ t < sync.table =>
          store'[o][i] > 0 \/ i \in Barred(o)'
    BY <1>12, <1>14, <1>15, <2>2 DEF BaseOf
  <2>6. BaseOf(B)'
    BY <1>8, <1>15, <2>3, <2>4, <2>5 DEF BaseOf
  <2>7. QED
    BY <1>8, <2>6 DEF Settles
<1>22. QED
  BY <1>9, <1>10, <1>11, <1>16, <1>20, <1>21 DEF SyncInv

\* What is not fetched is held already.
LEMMA FetchKeeps ==
    ASSUME SyncInv, FetchRows
    PROVE  SyncInv'
<1>1. SyncTyped
  BY DEF SyncInv
<1>2. PICK f \in Sides : f = sync.from
  BY <1>1, SyncSides
<1>3. PICK c \in DOMAIN SyncTableSeq : c = sync.table
  BY <1>1, SyncTablesAssumption DEF FetchRows, SyncTyped
<1>4. PICK had \in [Ids -> Nat] : had = store[f]
  BY <1>1 DEF SyncTyped
<1>5. PICK rows : rows = {i \in SyncTableSeq[c] : had[i] > 0 /\ had[i] > Since}
  OBVIOUS
<1>6. /\ UNCHANGED <<store, open, turn, ticks>> /\ sync.stage = "fetch"
      /\ sync' = [sync EXCEPT !.stage = "apply", !.had = had, !.rows = rows]
  <2>1. {i \in {i \in SyncTableSeq[c] : had[i] > 0} : had[i] > Since} = rows
    BY <1>5
  <2>2. QED
    BY <1>2, <1>3, <1>4, <2>1 DEF FetchRows
<1>7. rows \in SUBSET Ids
  BY <1>1, <1>5, SyncSides
<1>8. /\ sync' \in [stage : {"idle", "fetch", "apply", "raised"}, from : Sides, table : Nat,
                    had : [Ids -> Nat], rows : SUBSET Ids, quiet : BOOLEAN, began : Nat]
      /\ sync'.stage = "apply" /\ sync'.from = f /\ sync'.table = c
      /\ sync'.had = had /\ sync'.rows = rows /\ sync'.began = sync.began
      /\ sync'.quiet = sync.quiet
  BY <1>1, <1>2, <1>3, <1>4, <1>6, <1>7 DEF SyncTyped
<1>9. SyncTyped'
  BY <1>1, <1>3, <1>6, <1>8 DEF SyncTyped
<1>10. sync.began <= ticks /\ ticks <= sync.began + RunTime
  BY <1>6 DEF SyncInv, Timely
<1>11. /\ Timely' /\ KeysHold' /\ Abreast'
       /\ \A s \in Sides, i \in Ids, x \in Nat : Held(s, i, x) => Held(s, i, x)'
  BY <1>6, <1>8, <1>9, <1>10, RunAlone
<1>12. PICK g \in Sides : g = Target
  BY <1>1, SyncSides
<1>13. Target' = g
  BY <1>2, <1>8, <1>12 DEF Target
<1>14. ASSUME NEW i \in SyncTableSeq[c], had[i] > 0, i \notin rows
       PROVE  Held(g, i, had[i])
  <2>1. i \in Ids /\ had[i] \in Nat
    BY <1>1, SyncSides
  <2>2. CASE f # turn
    BY <1>1, <1>2, <1>4, <1>12, <1>14, <2>1, <2>2, SyncSides DEF SyncInv, Abreast
  <2>3. CASE f = turn
    <3>1. \/ Held(g, i, had[i])
          \/ \A k \in SyncTableSeq[c] : store[g][k] < had[i] + Overlap
      BY <1>1, <1>2, <1>4, <1>12, <1>14, <2>1, <2>3, SyncSides DEF SyncInv, Abreast
    <3>2. ~ (had[i] > Since)
      BY <1>5, <1>14
    <3>3. PICK new \in Nat : new = Newest /\ (new = 0 \/ \E k \in SyncTableSeq[c] : new = store[g][k])
      <4>1. /\ store[g] \in [Ids -> Nat] /\ ticks \in Nat /\ SyncTableSeq[c] \in SUBSET Ids
            /\ \A k \in Ids : store[g][k] <= ticks
        BY <1>1, SyncSides DEF SyncInv, SyncTyped, Timely
      <4>2. \/ Max({store[g][j] : j \in SyncTableSeq[c]} \cup {0}) = 0
            \/ \E k \in SyncTableSeq[c] : Max({store[g][j] : j \in SyncTableSeq[c]} \cup {0}) = store[g][k]
        BY <4>1, NewestIsThere
      <4>3. QED
        BY <1>3, <1>12, <4>1, <4>2 DEF Newest
    <3>4. new >= had[i] + Overlap
      BY <1>1, <2>1, <3>2, <3>3, SyncSides DEF Since
    <3>5. new # 0
      BY <1>1, <1>14, <2>1, <3>4, SyncSides
    <3>6. PICK k \in SyncTableSeq[c] : new = store[g][k]
      BY <3>3, <3>5
    <3>7. ~ (store[g][k] < had[i] + Overlap)
      BY <1>1, <2>1, <3>4, <3>6, SyncSides
    <3>8. QED
      BY <3>1, <3>7
  <2>4. QED
    BY <2>2, <2>3
<1>15. ReadRight'
  <2>1. \A i \in rows : i \in SyncTableSeq[c] /\ had[i] > 0
    BY <1>5
  <2>2. \A i \in SyncTableSeq[c] : had[i] > 0 => i \in rows \/ Held(g, i, had[i])'
    BY <1>1, <1>11, <1>14, SyncSides
  <2>3. \A i \in Ids : /\ had[i] <= store[f][i] /\ had[i] = store[f][i]
                       /\ \A j \in Ids : i # j /\ KeyOf[i] = KeyOf[j] => had[i] = 0 \/ had[j] = 0
    <3>1. \A i \in Ids : had[i] \in Nat /\ had[i] = store[f][i]
      BY <1>4
    <3>2. QED
      BY <3>1 DEF SyncInv, KeysHold, InView
  <2>4. QED
    BY <1>4, <1>6, <1>8, <1>13, <2>1, <2>2, <2>3 DEF ReadRight
<1>16. Settles'
  <2>1. SUFFICES ASSUME f = turn PROVE Settles'
    BY <1>6, <1>8 DEF Settles
  <2>2. PICK B \in SUBSET Ids : BaseOf(B)
    BY <1>2, <1>6, <2>1 DEF SyncInv, Settles
  <2>3. \A i \in B : had[i] > 0
    BY <1>4, <2>1, <2>2 DEF BaseOf
  <2>4. BaseOf(B)'
    <3>1. Other' = Other /\ Barred(Other)' = Barred(Other)
      BY <1>6 DEF Other, Barred, Shut, InView
    <3>2. QED
      BY <1>3, <1>6, <1>8, <2>2, <2>3, <3>1 DEF BaseOf
  <2>5. ASSUME sync.quiet, NEW i \in Ids, NEW t \in DOMAIN SyncTableSeq,
               i \in SyncTableSeq[t], t < c, store[turn][i] > 0
        PROVE  Held(Other, i, store[turn][i])'
    <3>1. PICK x \in Nat, o \in Sides : x = store[turn][i] /\ o = Other
      BY <1>1, SyncSides
    <3>2. Held(o, i, x)
      BY <1>2, <1>3, <1>6, <2>1, <2>5, <3>1 DEF SyncInv, Settles
    <3>3. Held(o, i, x)' /\ Other' = o /\ store'[turn'][i] = x
      BY <1>6, <1>11, <3>1, <3>2 DEF Other
    <3>4. QED
      BY <3>3
  <2>6. QED
    BY <1>6, <1>8, <2>4, <2>5 DEF Settles
<1>17. QED
  BY <1>9, <1>11, <1>15, <1>16 DEF SyncInv

\* What a run stores: rows it has read and the target does not refuse.
LEMMA Applied ==
    ASSUME SyncInv, ApplyRows
    PROVE  /\ sync.stage = "apply" /\ sync.table \in DOMAIN SyncTableSeq
           /\ UNCHANGED <<open, turn, ticks>> /\ open[Target] = NoStamps
           /\ store' \in [Sides -> [Ids -> Nat]]
           /\ \A s \in Sides : s # Target => store'[s] = store[s]
           /\ \A i \in Ids :
                /\ store[Target][i] <= store'[Target][i]
                /\ store[Target][i] > 0 => store'[Target][i] > 0
                /\ \/ store'[Target][i] = store[Target][i]
                   \/ /\ i \in sync.rows /\ ~RefusedRow(store[Target], i)
                      /\ store'[Target][i] = sync.had[i]
                /\ i \in sync.rows /\ ~RefusedRow(store[Target], i) =>
                     /\ store'[Target][i] > 0
                     /\ MutableRow(i) => store'[Target][i] >= sync.had[i]
           /\ \A s \in Sides : \A i \in Barred(s) : i \in Barred(s)'
           /\ sync' \in [stage : {"fetch", "raised"}, from : Sides, table : Nat,
                         had : [Ids -> Nat], rows : SUBSET Ids, quiet : BOOLEAN, began : Nat]
           /\ sync'.from = sync.from /\ sync'.quiet = sync.quiet /\ sync'.began = sync.began
           /\ sync'.stage = "fetch" => sync'.table = sync.table + 1
           /\ sync'.stage = "raised" => sync'.table = sync.table
<1>1. SyncTyped
  BY DEF SyncInv
<1>2. PICK g \in Sides : g = Target
  BY <1>1, SyncSides
<1>3. PICK rows : rows = store[g]
  OBVIOUS
<1>4. PICK applied : applied = {i \in sync.rows : ~RefusedRow(rows, i)}
  OBVIOUS
<1>5. /\ sync.stage = "apply" /\ UNCHANGED <<open, turn, ticks>> /\ open[g] = NoStamps
      /\ store' = [store EXCEPT ![g] = [i \in Ids |-> IF i \in applied THEN Upserted(rows, i) ELSE rows[i]]]
      /\ sync' = IF applied = {} /\ sync.rows # {} THEN [sync EXCEPT !.stage = "raised"]
                 ELSE [sync EXCEPT !.stage = "fetch", !.table = sync.table + 1]
  <2>1. PICK upserted : upserted = [i \in Ids |-> IF i \in applied THEN Upserted(rows, i) ELSE rows[i]]
    OBVIOUS
  <2>2. store' = [store EXCEPT ![g] = upserted]
    BY <1>2, <1>3, <1>4, <2>1 DEF ApplyRows
  <2>3. /\ sync.stage = "apply" /\ UNCHANGED <<open, turn, ticks>> /\ open[g] = NoStamps
        /\ sync' = IF applied = {} /\ sync.rows # {} THEN [sync EXCEPT !.stage = "raised"]
                   ELSE [sync EXCEPT !.stage = "fetch", !.table = sync.table + 1]
    BY <1>2, <1>3, <1>4 DEF ApplyRows
  <2>4. QED
    BY <2>1, <2>2, <2>3
<1>6. sync.table \in DOMAIN SyncTableSeq
  BY <1>1, <1>5 DEF SyncTyped
<1>7. \A i \in Ids : rows[i] \in Nat /\ sync.had[i] \in Nat
  BY <1>1, <1>3, SyncSides
<1>8. applied \subseteq sync.rows /\ \A i \in applied : i \in Ids /\ sync.had[i] > 0
  BY <1>1, <1>4, <1>5 DEF SyncInv, ReadRight, SyncTyped
<1>9. \A i \in applied :
        /\ Upserted(rows, i) \in Nat /\ rows[i] <= Upserted(rows, i)
        /\ Upserted(rows, i) = rows[i] \/ Upserted(rows, i) = sync.had[i]
        /\ Upserted(rows, i) > 0
        /\ MutableRow(i) => Upserted(rows, i) >= sync.had[i]
  <2> SUFFICES ASSUME NEW i \in applied
               PROVE  /\ Upserted(rows, i) \in Nat /\ rows[i] <= Upserted(rows, i)
                      /\ Upserted(rows, i) = rows[i] \/ Upserted(rows, i) = sync.had[i]
                      /\ Upserted(rows, i) > 0
                      /\ MutableRow(i) => Upserted(rows, i) >= sync.had[i]
    OBVIOUS
  <2>1. rows[i] \in Nat /\ sync.had[i] \in Nat /\ sync.had[i] > 0
    BY <1>7, <1>8
  <2>2. CASE rows[i] = 0 \/ (MutableRow(i) /\ rows[i] < sync.had[i])
    <3>1. Upserted(rows, i) = sync.had[i]
      BY <2>2 DEF Upserted
    <3>2. rows[i] <= sync.had[i]
      BY <2>1, <2>2
    <3>3. QED
      BY <2>1, <3>1, <3>2
  <2>3. CASE ~(rows[i] = 0 \/ (MutableRow(i) /\ rows[i] < sync.had[i]))
    <3>1. Upserted(rows, i) = rows[i]
      BY <2>3 DEF Upserted
    <3>2. rows[i] > 0
      BY <2>1, <2>3
    <3>3. MutableRow(i) => rows[i] >= sync.had[i]
      <4>1. MutableRow(i) => ~(rows[i] < sync.had[i])
        BY <2>3
      <4>2. QED
        BY <2>1, <4>1
    <3>4. QED
      BY <2>1, <3>1, <3>2, <3>3
  <2>4. QED
    BY <2>2, <2>3
<1>10. /\ store' \in [Sides -> [Ids -> Nat]]
       /\ \A s \in Sides : s # g => store'[s] = store[s]
       /\ \A i \in Ids : store'[g][i] = IF i \in applied THEN Upserted(rows, i) ELSE rows[i]
  <2>1. PICK new \in [Ids -> Nat] : new = [i \in Ids |-> IF i \in applied THEN Upserted(rows, i) ELSE rows[i]]
    BY <1>7, <1>9
  <2>2. \A i \in Ids : new[i] = IF i \in applied THEN Upserted(rows, i) ELSE rows[i]
    BY <2>1
  <2>3. store' = [store EXCEPT ![g] = new] /\ store \in [Sides -> [Ids -> Nat]]
    BY <1>1, <1>5, <2>1 DEF SyncTyped
  <2>4. QED
    BY <2>2, <2>3
<1>11. ASSUME NEW i \in Ids
       PROVE  /\ store[g][i] <= store'[g][i]
              /\ store[g][i] > 0 => store'[g][i] > 0
              /\ \/ store'[g][i] = store[g][i]
                 \/ /\ i \in sync.rows /\ ~RefusedRow(store[g], i)
                    /\ store'[g][i] = sync.had[i]
              /\ i \in sync.rows /\ ~RefusedRow(store[g], i) =>
                   /\ store'[g][i] > 0
                   /\ MutableRow(i) => store'[g][i] >= sync.had[i]
  <2>1. store[g][i] = rows[i] /\ rows[i] \in Nat
    BY <1>3, <1>7
  <2>2. i \in applied <=> i \in sync.rows /\ ~RefusedRow(store[g], i)
    BY <1>3, <1>4
  <2>3. CASE i \in applied
    <3>1. store'[g][i] = Upserted(rows, i)
      BY <1>10, <2>3
    <3>2. /\ Upserted(rows, i) \in Nat /\ rows[i] <= Upserted(rows, i)
          /\ Upserted(rows, i) = rows[i] \/ Upserted(rows, i) = sync.had[i]
          /\ Upserted(rows, i) > 0
          /\ MutableRow(i) => Upserted(rows, i) >= sync.had[i]
      BY <1>9, <2>3
    <3>3. QED
      BY <2>1, <2>2, <2>3, <3>1, <3>2
  <2>4. CASE i \notin applied
    <3>1. store'[g][i] = rows[i]
      BY <1>10, <2>4
    <3>2. QED
      BY <2>1, <2>2, <2>4, <3>1
  <2>5. QED
    BY <2>3, <2>4
<1>12. ASSUME NEW s \in Sides
       PROVE  \A i \in Barred(s) : i \in Barred(s)'
  <2>1. CASE s # g
    BY <1>5, <1>10, <2>1, BarredAtRest
  <2>2. CASE s = g
    <3>1. ASSUME NEW i \in Barred(g)
          PROVE  ~InView(g, i)'
      <4>1. i \in Ids /\ store[g][i] = 0 /\ open[g][i] = 0 /\ RefusedRow(store[g], i)
        BY <1>1, BarredIsRefused
      <4>2. store'[g][i] = 0 /\ open'[g][i] = 0
        BY <1>5, <1>11, <4>1
      <4>3. QED
        BY <4>2 DEF InView
    <3>2. QED
      BY <1>11, <2>2, <3>1, BarredStays
  <2>3. QED
    BY <2>1, <2>2
<1>13. /\ sync' \in [stage : {"fetch", "raised"}, from : Sides, table : Nat,
                     had : [Ids -> Nat], rows : SUBSET Ids, quiet : BOOLEAN, began : Nat]
       /\ sync'.from = sync.from /\ sync'.quiet = sync.quiet /\ sync'.began = sync.began
       /\ sync'.stage = "fetch" => sync'.table = sync.table + 1
       /\ sync'.stage = "raised" => sync'.table = sync.table
  <2>1. sync.table + 1 \in Nat
    BY <1>1, SyncSides
  <2>2. CASE applied = {} /\ sync.rows # {}
    <3>1. sync' = [sync EXCEPT !.stage = "raised"]
      BY <1>5, <2>2
    <3>2. QED
      BY <1>1, <3>1 DEF SyncTyped
  <2>3. CASE ~(applied = {} /\ sync.rows # {})
    <3>1. sync' = [sync EXCEPT !.stage = "fetch", !.table = sync.table + 1]
      BY <1>5, <2>3
    <3>2. QED
      BY <1>1, <2>1, <3>1 DEF SyncTyped
  <2>4. QED
    BY <2>2, <2>3
<1>14. QED
  BY <1>2, <1>5, <1>6, <1>10, <1>11, <1>12, <1>13

\* What is read is on the target after its table was applied, or is refused.
LEMMA ReadIsHeld ==
    ASSUME SyncInv, ApplyRows, NEW i \in SyncTableSeq[sync.table], sync.had[i] > 0,
           NEW x \in Nat, x = sync.had[i], NEW g \in Sides, g = Target
    PROVE  /\ i \in Ids
           /\ \/ Held(g, i, x)'
              \/ i \in sync.rows /\ RefusedRow(store[g], i)
<1>1. SyncTyped
  BY DEF SyncInv
<1>2. i \in Ids
  BY <1>1, Applied, SyncSides
<1>3. CASE i \notin sync.rows
  <2>1. Held(g, i, x)
    BY <1>3, Applied DEF SyncInv, ReadRight
  <2>2. /\ store[g][i] \in Nat /\ store'[g][i] \in Nat /\ store[g][i] <= store'[g][i]
        /\ i \in Barred(g) => i \in Barred(g)'
    BY <1>1, <1>2, Applied, SyncSides
  <2>3. Held(g, i, x)'
    BY <1>2, <2>1, <2>2, HeldStays
  <2>4. QED
    BY <1>2, <2>3
<1>4. CASE i \in sync.rows /\ ~RefusedRow(store[g], i)
  <2>1. store'[g][i] > 0 /\ (MutableRow(i) => store'[g][i] >= x)
    BY <1>2, <1>4, Applied
  <2>2. QED
    BY <1>2, <2>1 DEF Held, MutableRow
<1>5. QED
  BY <1>2, <1>3, <1>4

\* The keys of both databases hold after a run has stored a table.
LEMMA ApplyKeepsKeys ==
    ASSUME SyncInv, ApplyRows
    PROVE  SyncTyped' /\ Timely' /\ KeysHold'
<1>1. SyncTyped
  BY DEF SyncInv
<1>2. PICK g \in Sides : g = Target
  BY <1>1, SyncSides
<1>3. \A s \in Sides, i \in Ids : /\ store[s][i] \in Nat /\ store'[s][i] \in Nat
                                  /\ store[s][i] > 0 => store'[s][i] > 0
                                  /\ open'[s][i] = open[s][i] /\ open[s][i] \in Nat
  <2>1. ASSUME NEW s \in Sides, NEW i \in Ids
        PROVE  store[s][i] > 0 => store'[s][i] > 0
    <3>1. CASE s = g
      BY <1>2, <3>1, Applied
    <3>2. CASE s # g
      BY <1>2, <3>2, Applied
    <3>3. QED
      BY <3>1, <3>2
  <2>2. \A s \in Sides, i \in Ids : /\ store[s][i] \in Nat /\ store'[s][i] \in Nat
                                    /\ open'[s][i] = open[s][i] /\ open[s][i] \in Nat
    BY <1>1, Applied, SyncSides
  <2>3. QED
    BY <2>1, <2>2
<1>4. \A i \in Ids : open[g][i] = 0
  BY <1>2, Applied DEF NoStamps
<1>5. \A i \in sync.rows : /\ i \in Ids /\ sync.had[i] > 0 /\ sync.had[i] <= ticks
                           /\ \A j \in sync.rows : i # j => KeyOf[i] # KeyOf[j]
  <2>1. \A i \in sync.rows : i \in Ids /\ sync.had[i] > 0 /\ sync.had[i] \in Nat
    BY <1>1, Applied, SyncSides DEF SyncInv, ReadRight, SyncTyped
  <2>2. \A i \in sync.rows : sync.had[i] <= ticks
    <3> SUFFICES ASSUME NEW i \in sync.rows PROVE sync.had[i] <= ticks
      OBVIOUS
    <3>1. sync.had[i] <= store[sync.from][i] /\ store[sync.from][i] <= ticks
      BY <1>1, <2>1, Applied, SyncSides DEF SyncInv, ReadRight, Timely
    <3>2. QED
      BY <1>1, <2>1, <3>1, SyncSides
  <2>3. ASSUME NEW i \in sync.rows, NEW j \in sync.rows, i # j, KeyOf[i] = KeyOf[j]
        PROVE  FALSE
    <3>1. sync.had[i] = 0 \/ sync.had[j] = 0
      BY <2>1, <2>3, Applied DEF SyncInv, ReadRight
    <3>2. QED
      BY <2>1, <3>1
  <2>4. QED
    BY <2>1, <2>2, <2>3
<1>6. SyncTyped'
  <2>1. /\ sync.table \in 1..Len(SyncTableSeq) /\ Len(SyncTableSeq) \in Nat
    BY Applied, SyncTablesAssumption
  <2>2. sync'.table \in 1..Len(SyncTableSeq) + 1
    <3>1. sync'.table = sync.table \/ sync'.table = sync.table + 1
      BY Applied
    <3>2. QED
      BY <2>1, <3>1
  <2>3. /\ turn' \in Sides /\ ticks' \in Nat /\ ticks' \in 1..LastTick
        /\ open' \in [Sides -> [Ids -> Nat]] /\ store' \in [Sides -> [Ids -> Nat]]
    BY <1>1, Applied DEF SyncTyped
  <2>4. /\ sync' \in [stage : {"idle", "fetch", "apply", "raised"}, from : Sides, table : Nat,
                      had : [Ids -> Nat], rows : SUBSET Ids, quiet : BOOLEAN, began : Nat]
        /\ sync'.stage # "apply"
    BY Applied
  <2>5. sync'.table \in 0..Len(SyncTableSeq) + 1 /\ sync'.table > 0
    BY <2>1, <2>2
  <2>6. QED
    BY <2>3, <2>4, <2>5 DEF SyncTyped
<1>7. Timely'
  <2>1. ASSUME NEW s \in Sides, NEW i \in Ids
        PROVE  /\ store'[s][i] <= ticks
               /\ open[s][i] > 0 => store'[s][i] < open[s][i]
    <3>1. /\ store[s][i] <= ticks
          /\ open[s][i] > 0 => store[s][i] < open[s][i]
      BY DEF SyncInv, Timely
    <3>2. CASE s # g \/ store'[g][i] = store[g][i]
      BY <1>2, <3>1, <3>2, Applied
    <3>3. CASE s = g /\ i \in sync.rows /\ store'[g][i] = sync.had[i]
      BY <1>4, <1>5, <3>3
    <3>4. QED
      BY <1>2, <3>2, <3>3, Applied
  <2>2. sync.began <= ticks /\ ticks <= sync.began + RunTime
    BY Applied DEF SyncInv, Timely
  <2>3. QED
    BY <1>3, <2>1, <2>2, Applied DEF SyncInv, Timely
<1>8. \A s \in Sides, i \in Ids :
        /\ InView(s, i) => InView(s, i)'
        /\ InView(s, i)' => \/ InView(s, i)
                            \/ /\ s = g /\ i \in sync.rows /\ ~RefusedRow(store[g], i)
  <2> SUFFICES ASSUME NEW s \in Sides, NEW i \in Ids
               PROVE  /\ InView(s, i) => InView(s, i)'
                      /\ InView(s, i)' => \/ InView(s, i)
                                          \/ /\ s = g /\ i \in sync.rows /\ ~RefusedRow(store[g], i)
    OBVIOUS
  <2>1. s # g \/ store'[g][i] = store[g][i] \/ (i \in sync.rows /\ ~RefusedRow(store[g], i))
    BY <1>2, Applied
  <2>2. s # g => store'[s] = store[s]
    BY <1>2, Applied
  <2>3. QED
    BY <1>3, <2>1, <2>2 DEF InView
<1>9. KeysHold'
  <2>1. ASSUME NEW s \in Sides, NEW i \in Ids, ParentOf[i] # NoParent
        PROVE  /\ store'[s][i] > 0 => store'[s][ParentOf[i]] > 0
               /\ open'[s][i] > 0 => InView(s, ParentOf[i])'
    <3>1. /\ ParentOf[i] \in Ids
          /\ store[s][i] > 0 => store[s][ParentOf[i]] > 0
          /\ open[s][i] > 0 => InView(s, ParentOf[i])
      BY <1>1, <2>1, SyncSides DEF SyncInv, KeysHold
    <3>2. open'[s][i] > 0 => InView(s, ParentOf[i])'
      BY <1>3, <1>8, <3>1
    <3>3. CASE store'[s][i] = store[s][i]
      BY <1>3, <3>1, <3>2, <3>3
    <3>4. CASE s = g /\ ~RefusedRow(store[g], i)
      <4>1. store[g][ParentOf[i]] # 0
        BY <2>1, <3>4 DEF RefusedRow
      <4>2. QED
        BY <1>3, <3>1, <3>2, <3>4, <4>1
    <3>5. QED
      BY <1>2, <3>3, <3>4, Applied
  <2>2. ASSUME NEW s \in Sides, NEW i \in Ids, NEW j \in Ids, i # j, KeyOf[i] = KeyOf[j],
               InView(s, i)', InView(s, j)'
        PROVE  FALSE
    <3>1. ~(InView(s, i) /\ InView(s, j))
      BY <2>2 DEF SyncInv, KeysHold
    <3>2. ASSUME NEW a \in Ids, NEW b \in Ids, a # b, KeyOf[a] = KeyOf[b],
                 InView(g, a), ~RefusedRow(store[g], b)
          PROVE  FALSE
      <4>1. store[g][a] > 0
        BY <1>3, <1>4, <3>2 DEF InView
      <4>2. QED
        BY <3>2, <4>1 DEF RefusedRow
    <3>3. CASE InView(s, i)
      BY <1>8, <2>2, <3>1, <3>2, <3>3
    <3>4. CASE InView(s, j)
      BY <1>8, <2>2, <3>1, <3>2, <3>4
    <3>5. CASE ~InView(s, i) /\ ~InView(s, j)
      BY <1>5, <1>8, <2>2, <3>5
    <3>6. QED
      BY <3>3, <3>4, <3>5
  <2>3. QED
    BY <2>1, <2>2 DEF KeysHold
<1>10. QED
  BY <1>6, <1>7, <1>9

\* A run from the side that is not written changes nothing.
LEMMA NothingNew ==
    ASSUME SyncInv, ApplyRows, sync.from # turn
    PROVE  store' = store
<1>1. SyncTyped
  BY DEF SyncInv
<1>2. PICK g \in Sides, o \in Sides : g = Target /\ g = turn /\ o = Other /\ o = sync.from
  BY <1>1, SyncSides
<1>3. ASSUME NEW i \in Ids
      PROVE  store'[g][i] = store[g][i]
  <2>1. SUFFICES ASSUME i \in sync.rows, ~RefusedRow(store[g], i), store'[g][i] = sync.had[i]
                 PROVE  store'[g][i] = store[g][i]
    BY <1>2, Applied
  <2>2. sync.had[i] > 0 /\ sync.had[i] = store[o][i]
    BY <1>2, <2>1, Applied DEF SyncInv, ReadRight
  <2>3. Held(g, i, sync.had[i])
    BY <1>2, <2>2 DEF SyncInv, Abreast
  <2>4. i \notin Barred(g)
    BY <1>1, <2>1, BarredIsRefused
  <2>5. store[g][i] > 0
    BY <2>3, <2>4 DEF Held
  <2>6. MutableRow(i) => store[g][i] >= sync.had[i]
    BY <2>3, <2>4 DEF Held
  <2>7. PICK rows : rows = store[g]
    OBVIOUS
  <2>8. PICK ok : ok = {k \in sync.rows : ~RefusedRow(rows, k)}
    OBVIOUS
  <2>9. PICK new : new = [k \in Ids |-> IF k \in ok THEN Upserted(rows, k) ELSE rows[k]]
    OBVIOUS
  <2>10. store' = [store EXCEPT ![g] = new]
    BY <1>2, <2>7, <2>8, <2>9 DEF ApplyRows
  <2>11. store'[g] = new
    BY <1>1, <2>10 DEF SyncTyped
  <2>12. new[i] = Upserted(rows, i)
    BY <2>1, <2>7, <2>8, <2>9
  <2>13. rows[i] # 0 /\ ~(MutableRow(i) /\ rows[i] < sync.had[i])
    BY <1>1, <2>5, <2>6, <2>7, SyncSides
  <2>14. Upserted(rows, i) = rows[i]
    BY <2>13 DEF Upserted
  <2>15. QED
    BY <2>7, <2>11, <2>12, <2>14
<1>4. \A s \in Sides : store'[s] = store[s]
  <2>1. ASSUME NEW s \in Sides PROVE store'[s] = store[s]
    <3>1. CASE s # g
      BY <1>2, <3>1, Applied
    <3>2. CASE s = g
      <4>1. store'[g] \in [Ids -> Nat] /\ store[g] \in [Ids -> Nat]
        BY <1>1, Applied DEF SyncTyped
      <4>2. QED
        BY <1>3, <3>2, <4>1
    <3>3. QED
      BY <3>1, <3>2
  <2>2. QED
    BY <2>1
<1>5. store' \in [Sides -> [Ids -> Nat]] /\ store \in [Sides -> [Ids -> Nat]]
  BY <1>1, Applied DEF SyncTyped
<1>6. QED
  BY <1>4, <1>5

\* A row that the target refuses, and whose parent the target has or will never
\* take, is one that the target will never take.
LEMMA RefusedForEver ==
    ASSUME SyncInv, ApplyRows, sync.from = turn, NEW i \in Ids, NEW o \in Sides, o = Other,
           RefusedRow(store[o], i),
           ParentOf[i] # NoParent => store[o][ParentOf[i]] > 0 \/ ParentOf[i] \in Barred(o)
    PROVE  i \in Barred(o)'
<1>1. SyncTyped
  BY DEF SyncInv
<1>2. o = Target
  BY <1>1, SyncSides
<1>3. \A j \in Ids : store[o][j] \in Nat /\ open[o][j] = 0
  BY <1>1, <1>2, Applied, SyncSides DEF NoStamps
<1>4. store[o][i] = 0
  <2>1. SUFFICES ASSUME store[o][i] > 0 PROVE FALSE
    BY <1>3
  <2>2. InView(o, i) /\ \A j \in Ids : store[o][j] > 0 => InView(o, j)
    BY <2>1 DEF InView
  <2>3. CASE \E j \in Ids \ {i} : KeyOf[j] = KeyOf[i] /\ store[o][j] > 0
    BY <2>2, <2>3 DEF SyncInv, KeysHold
  <2>4. CASE ParentOf[i] # NoParent /\ store[o][ParentOf[i]] = 0
    BY <2>1, <2>4 DEF SyncInv, KeysHold
  <2>5. QED
    BY <2>3, <2>4 DEF RefusedRow
<1>5. ~InView(o, i)
  BY <1>3, <1>4 DEF InView
<1>6. \/ \E j \in Ids \ {i} : KeyOf[j] = KeyOf[i] /\ store[o][j] > 0
      \/ ParentOf[i] # NoParent /\ ParentOf[i] \in Barred(o)
  BY DEF RefusedRow
<1>7. QED
  BY <1>5, <1>6, Applied, RefusedIsBarred

\* The parent of a row is in a table that the run is done with.
LEMMA ParentsFirst ==
    ASSUME SyncTyped, NEW c \in DOMAIN SyncTableSeq, NEW i \in SyncTableSeq[c], ParentOf[i] # NoParent
    PROVE  /\ ParentOf[i] \in Ids
           /\ \E u \in DOMAIN SyncTableSeq : ParentOf[i] \in SyncTableSeq[u] /\ u < c
           /\ ParentOf[i] \notin SyncTableSeq[c]
<1>1. i \in Ids /\ ParentOf[i] \in Ids
  BY SyncSides
<1>2. PICK u \in DOMAIN SyncTableSeq : ParentOf[i] \in SyncTableSeq[u]
  BY <1>1, TablesInOrder
<1>3. u < c /\ (ParentOf[i] \in SyncTableSeq[c] => c < c)
  BY <1>1, <1>2, TablesInOrder
<1>4. c \in Nat
  BY SyncSides
<1>5. QED
  BY <1>1, <1>2, <1>3, <1>4

\* What a run stores is held, for ever refused, or recent.
LEMMA ApplyKeeps ==
    ASSUME SyncInv, ApplyRows
    PROVE  SyncInv'
<1>1. SyncTyped
  BY DEF SyncInv
<1>2. ReadRight'
  BY Applied DEF ReadRight
<1>3. CASE sync.from # turn
  <2>1. store' = store /\ turn' = turn
    BY <1>3, NothingNew, Applied
  <2>2. Abreast'
    BY <2>1, Applied, StoresStay
  <2>3. Settles'
    BY <1>3, <2>1, Applied DEF Settles
  <2>4. QED
    BY <1>2, <2>2, <2>3, ApplyKeepsKeys DEF SyncInv
<1>4. CASE sync.from = turn
  <2>1. PICK w \in Sides, o \in Sides : /\ w = turn /\ w = sync.from /\ o = Other /\ o = Target
                                        /\ w # o /\ o = OtherSide(w)
    BY <1>1, <1>4, SyncSides DEF Other
  <2>2. PICK c \in DOMAIN SyncTableSeq : c = sync.table
    BY Applied
  <2>3. /\ turn' = w /\ Other' = o /\ store'[w] = store[w]
        /\ sync.stage = "apply"
    BY <2>1, Applied DEF Other
  <2>4. \A s \in Sides, i \in Ids :
          /\ store[s][i] \in Nat /\ store'[s][i] \in Nat /\ store[s][i] <= store'[s][i]
          /\ i \in Barred(s) => i \in Barred(s)'
    <3>1. ASSUME NEW s \in Sides, NEW i \in Ids
          PROVE  store[s][i] <= store'[s][i]
      <4>1. CASE s = o
        BY <2>1, <4>1, Applied
      <4>2. CASE s # o
        <5>1. store'[s] = store[s] /\ store[s][i] \in Nat
          BY <1>1, <2>1, <4>2, Applied, SyncSides
        <5>2. QED
          BY <5>1
      <4>3. QED
        BY <4>1, <4>2
    <3>2. QED
      BY <1>1, <3>1, Applied, SyncSides
  <2>5. \A s \in Sides, i \in Ids, x \in Nat : Held(s, i, x) => Held(s, i, x)'
    BY <2>4, HeldStays
  <2>6. \A i \in Ids : store'[o][i] <= ticks
    BY <2>1, Applied, ApplyKeepsKeys DEF Timely
  <2>7. \A i \in Ids : /\ sync.had[i] \in Nat /\ sync.had[i] <= store[w][i]
                       /\ sync.had[i] = store[w][i] \/ sync.began <= store[w][i] + TxTime
    BY <1>1, <2>1, <2>3, SyncSides DEF SyncInv, ReadRight
  <2>8. PICK B \in SUBSET Ids : BaseOf(B)
    BY <1>4, <2>3 DEF SyncInv, Settles
  <2>9. ASSUME NEW i \in B, ParentOf[i] # NoParent, i \in SyncTableSeq[c]
        PROVE  store[o][ParentOf[i]] > 0 \/ ParentOf[i] \in Barred(o)
    <3>1. ParentOf[i] \in B
      BY <2>8, <2>9 DEF BaseOf
    <3>2. PICK u \in DOMAIN SyncTableSeq : ParentOf[i] \in SyncTableSeq[u] /\ u < c
      BY <1>1, <2>9, ParentsFirst
    <3>3. QED
      BY <2>1, <2>2, <2>8, <3>1, <3>2 DEF BaseOf
  \* Of the rows that were there, those of this table are settled.
  <2>10. ASSUME NEW i \in B, i \in SyncTableSeq[c], NEW x \in Nat, x = sync.had[i]
         PROVE  Held(o, i, x)'
    <3>1. x > 0
      BY <2>3, <2>8, <2>10 DEF BaseOf
    <3>2. Held(o, i, x)' \/ RefusedRow(store[o], i)
      BY <2>1, <2>2, <2>10, <3>1, ReadIsHeld
    <3>3. CASE RefusedRow(store[o], i)
      <4>1. i \in Barred(o)'
        BY <1>4, <2>1, <2>9, <2>10, <3>3, RefusedForEver
      <4>2. QED
        BY <4>1 DEF Held
    <3>4. QED
      BY <3>2, <3>3
  <2>11. ASSUME NEW i \in Ids, NEW t \in DOMAIN SyncTableSeq, i \in SyncTableSeq[t],
                NEW x \in Nat, x = store[w][i], x > 0
         PROVE  Held(o, i, x)' \/ \A k \in SyncTableSeq[t] : store'[o][k] < x + Overlap
    <3>1. CASE t # c
      <4>1. Held(o, i, x) \/ \A k \in SyncTableSeq[t] : store[o][k] < x + Overlap
        BY <2>1, <2>11 DEF SyncInv, Abreast
      <4>2. \A k \in SyncTableSeq[t] : store'[o][k] = store[o][k]
        <5> SUFFICES ASSUME NEW k \in SyncTableSeq[t] PROVE store'[o][k] = store[o][k]
          OBVIOUS
        <5>1. k \in Ids
          BY <1>1, SyncSides
        <5>2. k \notin SyncTableSeq[c]
          BY <3>1, <5>1, TablesInOrder
        <5>3. k \notin sync.rows
          BY <2>2, <2>3, <5>2 DEF SyncInv, ReadRight
        <5>4. QED
          BY <2>1, <5>1, <5>3, Applied
      <4>3. QED
        BY <2>5, <4>1, <4>2
    <3>2. CASE t = c /\ sync.began <= x + TxTime
      <4>1. ASSUME NEW k \in SyncTableSeq[t]
            PROVE  store'[o][k] < x + Overlap
        <5>1. k \in Ids
          BY <1>1, SyncSides
        <5>2. store'[o][k] <= ticks /\ store'[o][k] \in Nat
          BY <2>4, <2>6, <5>1
        <5>3. ticks <= sync.began + RunTime
          BY <2>3 DEF SyncInv, Timely
        <5>4. QED
          BY <1>1, <3>2, <5>2, <5>3, SyncSides
      <4>2. QED
        BY <4>1
    <3>3. CASE t = c /\ ~(sync.began <= x + TxTime)
      <4>1. i \in B
        BY <2>1, <2>8, <2>11, <3>3 DEF BaseOf
      <4>2. x = sync.had[i]
        BY <2>7, <2>11, <3>3
      <4>3. QED
        BY <2>10, <2>11, <3>3, <4>1, <4>2
    <3>4. QED
      BY <3>1, <3>2, <3>3
  <2>12. ASSUME NEW i \in Ids, NEW x \in Nat, x = store'[o][i], x > 0
         PROVE  Held(w, i, x)'
    <3>1. CASE x = store[o][i]
      <4>1. Held(w, i, x)
        BY <2>1, <2>12, <3>1 DEF SyncInv, Abreast
      <4>2. QED
        BY <2>5, <4>1
    <3>2. CASE x = sync.had[i]
      <4>1. store[w][i] > 0 /\ store[w][i] >= x
        BY <2>4, <2>7, <2>12, <3>2
      <4>2. QED
        BY <2>3, <4>1 DEF Held
    <3>3. QED
      BY <2>1, <2>12, <3>1, <3>2, Applied
  <2>13. Abreast'
    <3>1. \A i \in Ids : store'[o][i] > 0 => Held(w, i, store[o][i])'
      <4> SUFFICES ASSUME NEW i \in Ids, store'[o][i] > 0 PROVE Held(w, i, store[o][i])'
        OBVIOUS
      <4>1. PICK x \in Nat : x = store'[o][i]
        BY <2>4
      <4>2. Held(w, i, x)'
        BY <2>12, <4>1
      <4>3. QED
        BY <4>1, <4>2 DEF Held, MutableRow
    <3>2. ASSUME NEW i \in Ids, NEW t \in DOMAIN SyncTableSeq, i \in SyncTableSeq[t], store'[w][i] > 0
          PROVE  \/ Held(o, i, store[w][i])'
                 \/ \A k \in SyncTableSeq[t] : store'[o][k] < store'[w][i] + Overlap
      <4>1. PICK x \in Nat : x = store[w][i] /\ x = store'[w][i]
        BY <2>3, <2>4
      <4>2. Held(o, i, x)' \/ \A k \in SyncTableSeq[t] : store'[o][k] < x + Overlap
        BY <2>11, <3>2, <4>1
      <4>3. Held(o, i, x)' => Held(o, i, store[w][i])'
        BY <4>1 DEF Held, MutableRow
      <4>4. QED
        BY <4>1, <4>2, <4>3
    <3>3. QED
      BY <2>3, <3>1, <3>2 DEF Abreast
  <2>14. Settles'
    <3>1. SUFFICES ASSUME sync'.stage = "fetch" PROVE Settles'
      BY Applied DEF Settles
    <3>2. sync'.table = c + 1 /\ c \in Nat /\ sync'.began = sync.began /\ sync'.quiet = sync.quiet
      BY <1>1, <2>2, <3>1, Applied, SyncSides
    <3>3. \A t \in DOMAIN SyncTableSeq : t < c + 1 => t < c \/ t = c
      BY <1>1, <3>2, SyncSides
    <3>4. \A i \in B, t \in DOMAIN SyncTableSeq : i \in SyncTableSeq[t] /\ t < c + 1 =>
            store'[o][i] > 0 \/ i \in Barred(o)'
      <4> SUFFICES ASSUME NEW i \in B, NEW t \in DOMAIN SyncTableSeq, i \in SyncTableSeq[t], t < c + 1
                   PROVE  store'[o][i] > 0 \/ i \in Barred(o)'
        OBVIOUS
      <4>1. CASE t < c
        <5>1. store[o][i] > 0 \/ i \in Barred(o)
          BY <2>1, <2>2, <2>8, <4>1 DEF BaseOf
        <5>2. store[o][i] \in Nat /\ store'[o][i] \in Nat /\ store[o][i] <= store'[o][i]
          BY <2>4
        <5>3. QED
          BY <2>4, <5>1, <5>2
      <4>2. CASE t = c
        <5>1. PICK x \in Nat : x = sync.had[i]
          BY <2>7
        <5>2. Held(o, i, x)'
          BY <2>10, <4>2, <5>1
        <5>3. QED
          BY <5>2 DEF Held
      <4>3. QED
        BY <3>3, <4>1, <4>2
    <3>5. BaseOf(B)'
      <4>1. \A i \in B : store'[w][i] > 0 /\ (ParentOf[i] # NoParent => ParentOf[i] \in B)
        BY <2>1, <2>3, <2>8 DEF BaseOf
      <4>2. \A i \in Ids \ B : store'[w][i] > 0 => sync.began <= store'[w][i] + TxTime
        BY <2>1, <2>3, <2>8 DEF BaseOf
      <4>3. QED
        BY <2>3, <3>1, <3>2, <3>4, <4>1, <4>2 DEF BaseOf
    <3>6. ASSUME sync.quiet, NEW i \in Ids, NEW t \in DOMAIN SyncTableSeq,
                 i \in SyncTableSeq[t], t < c + 1, NEW x \in Nat, x = store[w][i], x > 0
          PROVE  Held(o, i, x)'
      <4>1. \A k \in Ids, u \in DOMAIN SyncTableSeq :
              k \in SyncTableSeq[u] /\ u < c /\ store[w][k] > 0 => Held(o, k, store[w][k])
        BY <2>1, <2>2, <2>3, <3>6 DEF SyncInv, Settles
      <4>2. CASE t < c
        BY <2>5, <3>6, <4>1, <4>2
      <4>3. CASE t = c
        <5>1. sync.had[i] = x
          BY <2>1, <2>3, <3>6 DEF SyncInv, ReadRight
        <5>2. Held(o, i, x)' \/ RefusedRow(store[o], i)
          BY <2>1, <2>2, <3>6, <4>3, <5>1, ReadIsHeld
        <5>3. ParentOf[i] # NoParent => store[o][ParentOf[i]] > 0 \/ ParentOf[i] \in Barred(o)
          <6> SUFFICES ASSUME ParentOf[i] # NoParent
                       PROVE  store[o][ParentOf[i]] > 0 \/ ParentOf[i] \in Barred(o)
            OBVIOUS
          <6>1. PICK u \in DOMAIN SyncTableSeq : ParentOf[i] \in SyncTableSeq[u] /\ u < c
            BY <1>1, <3>6, <4>3, ParentsFirst
          <6>2. ParentOf[i] \in Ids /\ store[w][ParentOf[i]] > 0
            BY <1>1, <2>1, <3>6, SyncSides DEF SyncInv, KeysHold
          <6>3. QED
            BY <4>1, <6>1, <6>2 DEF Held
        <5>4. CASE RefusedRow(store[o], i)
          <6>1. i \in Barred(o)'
            BY <1>4, <2>1, <5>3, <5>4, RefusedForEver
          <6>2. QED
            BY <6>1 DEF Held
        <5>5. QED
          BY <5>2, <5>4
      <4>4. QED
        BY <3>3, <3>6, <4>2, <4>3
    <3>7. ASSUME sync.quiet, NEW i \in Ids, NEW t \in DOMAIN SyncTableSeq,
                 i \in SyncTableSeq[t], t < c + 1, store'[w][i] > 0
          PROVE  Held(o, i, store[w][i])'
      <4>1. PICK x \in Nat : x = store[w][i] /\ x = store'[w][i]
        BY <2>3, <2>4
      <4>2. Held(o, i, x)'
        BY <3>6, <3>7, <4>1
      <4>3. QED
        BY <4>1, <4>2 DEF Held, MutableRow
    <3>8. QED
      BY <2>3, <3>2, <3>5, <3>7 DEF Settles
  <2>15. QED
    BY <1>2, <2>13, <2>14, ApplyKeepsKeys DEF SyncInv
<1>5. QED
  BY <1>3, <1>4

\* After a run that brought over all there was, the sides are alike.
LEMMA HandOverKeeps ==
    ASSUME SyncInv, HandOver
    PROVE  SyncInv'
<1>1. SyncTyped
  BY DEF SyncInv
<1>2. PICK w \in Sides, o \in Sides : w = turn /\ o = Other /\ w # o /\ o = OtherSide(w) /\ w = OtherSide(o)
  BY <1>1, SyncSides, OtherSides DEF Other
<1>3. /\ sync.stage = "fetch" /\ sync.table > Len(SyncTableSeq) /\ sync.quiet /\ sync.from = turn
      /\ open[w] = NoStamps /\ turn' = o /\ sync' = Idle /\ UNCHANGED <<store, open, ticks>>
      /\ Other' = w
  BY <1>2 DEF HandOver, Other
<1>4. /\ sync'.stage = "idle"
      /\ SyncTyped'
  <2>1. sync'.table \in 0..Len(SyncTableSeq) + 1 /\ sync'.stage = "idle"
    BY <1>3, SyncTablesAssumption DEF Idle
  <2>2. sync' \in [stage : {"idle", "fetch", "apply", "raised"}, from : Sides, table : Nat,
                   had : [Ids -> Nat], rows : SUBSET Ids, quiet : BOOLEAN, began : Nat]
    BY <1>2, <1>3 DEF Idle, NoStamps
  <2>3. QED
    BY <1>1, <1>3, <2>1, <2>2 DEF SyncTyped
<1>5. Timely'
  <2>1. \A s \in Sides, i \in Ids : s # o => open[s][i] = 0
    BY <1>1, <1>2, <1>3, SyncSides DEF NoStamps
  <2>2. QED
    BY <1>3, <1>4, <2>1 DEF SyncInv, Timely
<1>6. KeysHold'
  BY <1>3 DEF SyncInv, KeysHold, InView
<1>7. \A s \in Sides, i \in Ids, x \in Nat : Held(s, i, x) => Held(s, i, x)'
  <2>1. \A s \in Sides : \A i \in Barred(s) : i \in Barred(s)'
    BY <1>3, BarredAtRest
  <2>2. QED
    BY <1>3, <2>1 DEF Held, MutableRow
<1>8. ASSUME NEW i \in Ids, store[w][i] > 0
      PROVE  Held(o, i, store[w][i])'
  <2>1. PICK t \in DOMAIN SyncTableSeq : i \in SyncTableSeq[t]
    BY TablesInOrder
  <2>2. t < sync.table
    BY <1>1, <1>3, SyncTablesAssumption, SyncSides
  <2>3. PICK x \in Nat : x = store[w][i]
    BY <1>1, SyncSides
  <2>4. Held(o, i, x)
    BY <1>2, <1>3, <1>8, <2>1, <2>2, <2>3 DEF SyncInv, Settles
  <2>5. Held(o, i, x)'
    BY <1>7, <2>4
  <2>6. QED
    BY <1>3, <2>3, <2>5
<1>9. ASSUME NEW i \in Ids, store[o][i] > 0
      PROVE  Held(w, i, store[o][i])'
  <2>1. PICK x \in Nat : x = store[o][i]
    BY <1>1, SyncSides
  <2>2. Held(w, i, x)
    BY <1>2, <1>9, <2>1 DEF SyncInv, Abreast
  <2>3. Held(w, i, x)'
    BY <1>7, <2>2
  <2>4. QED
    BY <1>3, <2>1, <2>3
<1>10. Abreast'
  BY <1>3, <1>8, <1>9 DEF Abreast
<1>11. ReadRight' /\ Settles'
  BY <1>4 DEF ReadRight, Settles
<1>12. QED
  BY <1>4, <1>5, <1>6, <1>10, <1>11 DEF SyncInv

LEMMA SyncKeeps ==
    ASSUME Alternate
    PROVE  SyncInv /\ [SyncNext]_sides => SyncInv'
<1> SUFFICES ASSUME SyncInv, [SyncNext]_sides PROVE SyncInv'
  OBVIOUS
<1>1. CASE UNCHANGED sides
  <2>1. UNCHANGED <<store, open, turn, sync, ticks>>
    BY <1>1 DEF sides
  <2>2. SyncTyped' /\ (sync'.stage # "idle" => sync'.began <= ticks /\ ticks <= sync'.began + RunTime)
    BY <2>1 DEF SyncInv, SyncTyped, Timely
  <2>3. Timely' /\ KeysHold' /\ Abreast'
    BY <2>1, <2>2, RunAlone
  <2>4. \A s \in Sides : \A i \in Barred(s) : i \in Barred(s)'
    BY <2>1, BarredAtRest
  <2>5. QED
    BY <2>1, <2>2, <2>3, <2>4, StoresStay DEF SyncInv
<1>2. ASSUME NEW s \in Sides, CommitRows(s) PROVE SyncInv'
  BY <1>2, CommitKeeps
<1>3. ASSUME NEW s \in Sides, BeginSync(s) PROVE SyncInv'
  BY <1>3, BeginKeeps
<1>4. ASSUME NEW s \in Sides, NEW i \in Ids, WriteRow(s, i) PROVE SyncInv'
  BY <1>4, WriteKeeps
<1>5. QED
  BY <1>1, <1>2, <1>3, <1>4, FetchKeeps, ApplyKeeps, EndKeeps, HandOverKeeps, TickKeeps DEF SyncNext

\* The rows, the transactions and the run keep their types while one side at a
\* time is written.
THEOREM SyncTypes == Alternate => (SyncSpec => []SyncTypeOK)
<1> SUFFICES ASSUME Alternate PROVE SyncSpec => []SyncTypeOK
  OBVIOUS
<1>1. SyncInv => SyncTypeOK
  BY DEF SyncInv, SyncTyped, SyncTypeOK
<1>2. QED
  BY <1>1, SyncFirst, SyncKeeps, PTL DEF SyncSpec

LEMMA BarredRefused == SyncTyped => \A s \in Sides : \A i \in Barred(s) : RefusedRow(store[s], i)
  BY BarredIsRefused

\* When a table was brought over, the target has every row that the source held
\* when it was read, or its keys refuse it: late commits and runs that broke off
\* are made up for by the overlap, if transaction and run are shorter than it.
THEOREM TransferredHolds == Alternate => (SyncSpec => Transferred)
<1> SUFFICES ASSUME Alternate PROVE SyncSpec => Transferred
  OBVIOUS
<1> DEFINE Step ==
      sync.stage = "apply" /\ sync'.stage \in {"fetch", "raised"} =>
         \A i \in SyncTableSeq[sync.table] : sync.had[i] > 0 =>
           \/ store'[Target][i] >= sync.had[i]
           \/ ~MutableRow(i) /\ store'[Target][i] > 0
           \/ RefusedRow(store'[Target], i)
<1>1. SyncInv /\ ApplyRows /\ (\A s \in Sides : \A i \in Barred(s)' : RefusedRow(store'[s], i)) => Step
  <2> SUFFICES ASSUME SyncInv, ApplyRows,
                      \A s \in Sides : \A i \in Barred(s)' : RefusedRow(store'[s], i),
                      NEW i \in SyncTableSeq[sync.table], sync.had[i] > 0
               PROVE  \/ store'[Target][i] >= sync.had[i]
                      \/ ~MutableRow(i) /\ store'[Target][i] > 0
                      \/ RefusedRow(store'[Target], i)
    OBVIOUS
  <2>1. SyncTyped
    BY DEF SyncInv
  <2>2. PICK c \in DOMAIN SyncTableSeq, g \in Sides : c = sync.table /\ g = Target
    BY <2>1, Applied, SyncSides
  <2>3. i \in Ids
    BY <2>1, <2>2, SyncSides
  <2>4. PICK x \in Nat : x = sync.had[i]
    BY <2>1, <2>3, SyncSides
  <2>5. Held(g, i, x)' \/ RefusedRow(store[g], i)
    BY <2>2, <2>4, ReadIsHeld
  <2>6. CASE Held(g, i, x)'
    BY <2>2, <2>4, <2>6 DEF Held, MutableRow
  <2>7. CASE RefusedRow(store[g], i)
    <3>1. CASE \E j \in Ids \ {i} : KeyOf[j] = KeyOf[i] /\ store[g][j] > 0
      BY <2>2, <3>1, Applied DEF RefusedRow
    <3>2. CASE ParentOf[i] # NoParent /\ store[g][ParentOf[i]] = 0
      <4>1. ParentOf[i] \in Ids /\ ParentOf[i] \notin SyncTableSeq[c]
        BY <2>1, <2>2, <3>2, ParentsFirst
      <4>2. ParentOf[i] \notin sync.rows
        BY <2>2, <4>1, Applied DEF SyncInv, ReadRight
      <4>3. store'[g][ParentOf[i]] = 0
        BY <2>2, <3>2, <4>1, <4>2, Applied
      <4>4. QED
        BY <2>2, <3>2, <4>3 DEF RefusedRow
    <3>3. QED
      BY <2>7, <3>1, <3>2 DEF RefusedRow
  <2>8. QED
    BY <2>5, <2>6, <2>7
<1>2. SyncInv /\ [SyncNext]_sides /\ ~ApplyRows => [Step]_sides
  <2> SUFFICES ASSUME SyncInv, SyncNext, ~ApplyRows, sync.stage = "apply"
               PROVE  sync'.stage \notin {"fetch", "raised"}
    OBVIOUS
  <2>1. ASSUME NEW s \in Sides, CommitRows(s) PROVE sync'.stage = "apply"
    BY <2>1 DEF CommitRows, SyncInv, SyncTyped
  <2>2. ASSUME NEW s \in Sides, NEW i \in Ids, WriteRow(s, i) PROVE sync'.stage = "apply"
    BY <2>2 DEF WriteRow
  <2>3. SyncTick => sync'.stage = "apply"
    BY DEF SyncTick
  <2>4. EndSync => sync'.stage = "idle"
    BY DEF EndSync, Idle
  <2>5. ~FetchRows /\ ~HandOver /\ \A s \in Sides : ~BeginSync(s)
    BY DEF FetchRows, HandOver, BeginSync
  <2>6. QED
    BY <2>1, <2>2, <2>3, <2>4, <2>5 DEF SyncNext
<1>3. SyncInv => SyncTyped
  BY DEF SyncInv
<1>4. (\A s \in Sides : \A i \in Barred(s) : RefusedRow(store[s], i))'
        => \A s \in Sides : \A i \in Barred(s)' : RefusedRow(store'[s], i)
  OBVIOUS
<1>5. (SyncInv => \A s \in Sides : \A i \in Barred(s) : RefusedRow(store[s], i))'
  BY <1>3, BarredRefused, PTL
<1>6. SyncInv /\ SyncInv' /\ [SyncNext]_sides => [Step]_sides
  <2> HIDE DEF Step
  <2>1. QED
    BY <1>1, <1>2, <1>4, <1>5
<1>7. QED
  BY <1>6, SyncFirst, SyncKeeps, PTL DEF SyncSpec, Transferred

-----------------------------------------------------------------------------
(* Repair: one task of each row, applied in order                          *)

\* The place in the queue of the k-th of the places S.
PlaceOf(S, k) == CHOOSE i \in S : Cardinality({j \in S : j <= i}) = k

\* A finite set of places has a k-th one for every k up to its size.
LEMMA PlacesCounted ==
    ASSUME NEW S \in SUBSET Nat, IsFiniteSet(S)
    PROVE  /\ Cardinality(S) \in Nat
           /\ \A k \in 1..Cardinality(S) :
                PlaceOf(S, k) \in S /\ Cardinality({j \in S : j <= PlaceOf(S, k)}) = k
<1> DEFINE UpTo(i) == {j \in S : j <= i}
           f == [i \in S |-> Cardinality(UpTo(i))]
<1>1. /\ Cardinality(S) \in Nat
      /\ IsFiniteSet(1..Cardinality(S)) /\ Cardinality(1..Cardinality(S)) = Cardinality(S)
  <2>1. Cardinality(S) \in Nat
    BY FS_CardinalityType
  <2>2. QED
    BY <2>1, FS_Interval
<1>2. ASSUME NEW i \in S
      PROVE  /\ IsFiniteSet(UpTo(i)) /\ Cardinality(UpTo(i)) \in 1..Cardinality(S)
             /\ UpTo(i) \in SUBSET S /\ i \in UpTo(i)
  <2>1. UpTo(i) \in SUBSET S /\ i \in UpTo(i)
    OBVIOUS
  <2> HIDE DEF UpTo
  <2>2. IsFiniteSet(UpTo(i)) /\ Cardinality(UpTo(i)) <= Cardinality(S)
    BY <2>1, FS_Subset
  <2>3. Cardinality(UpTo(i)) \in Nat /\ Cardinality(UpTo(i)) # 0
    BY <2>1, <2>2, FS_CardinalityType, FS_EmptySet
  <2>4. QED
    BY <1>1, <2>1, <2>2, <2>3
<1>3. ASSUME NEW i \in S, NEW j \in S, i < j
      PROVE  Cardinality(UpTo(i)) # Cardinality(UpTo(j))
  <2>1. UpTo(i) \in SUBSET UpTo(j) /\ j \notin UpTo(i)
    <3>1. i \in Nat /\ j \in Nat /\ \A a \in S : a \in Nat
      OBVIOUS
    <3>2. \A a \in S : a <= i => a <= j
      BY <1>3, <3>1
    <3>3. ~(j <= i)
      BY <1>3, <3>1
    <3>4. QED
      BY <3>2, <3>3
  <2> HIDE DEF UpTo
  <2>2. QED
    BY <1>2, <2>1, FS_Subset
<1>4. ASSUME NEW i \in S, NEW j \in S, Cardinality(UpTo(i)) = Cardinality(UpTo(j))
      PROVE  i = j
  <2>1. ~(i < j) /\ ~(j < i)
    BY <1>3, <1>4
  <2> HIDE DEF UpTo
  <2>2. i \in Nat /\ j \in Nat
    OBVIOUS
  <2>3. QED
    BY <2>1, <2>2
<1>5. f \in Surjection(S, 1..Cardinality(S))
  <2> HIDE DEF UpTo
  <2>1. f \in [S -> 1..Cardinality(S)] /\ \A i \in S : f[i] = Cardinality(UpTo(i))
    BY <1>2
  <2> HIDE DEF f
  <2>2. f \in Injection(S, 1..Cardinality(S))
    BY <1>4, <2>1 DEF Injection, IsInjective
  <2>3. QED
    BY <1>1, <2>2, FS_Injection
<1>6. ASSUME NEW k \in 1..Cardinality(S)
      PROVE  \E i \in S : Cardinality(UpTo(i)) = k
  BY <1>5, <1>6 DEF Surjection
<1>7. QED
  BY <1>1, <1>6 DEF PlaceOf

\* A queue that is cut down holds tasks of the old one, each of another place.
LEMMA QueueCut ==
    ASSUME tasks \in Seq(RepairTask), NEW S \in SUBSET DOMAIN tasks
    PROVE  /\ Queued(S) \in Seq(RepairTask)
           /\ Len(Queued(S)) = Cardinality(S)
           /\ \A k \in 1..Cardinality(S) :
                /\ PlaceOf(S, k) \in S
                /\ Queued(S)[k] = tasks[PlaceOf(S, k)]
                /\ \A l \in 1..Cardinality(S) : PlaceOf(S, k) = PlaceOf(S, l) => k = l
<1>1. /\ DOMAIN tasks = 1..Len(tasks) /\ Len(tasks) \in Nat
      /\ \A i \in DOMAIN tasks : tasks[i] \in RepairTask
  BY ElementOfSeq
<1>2. IsFiniteSet(S) /\ S \in SUBSET Nat
  <2>1. IsFiniteSet(DOMAIN tasks)
    BY <1>1, FS_Interval
  <2>2. QED
    BY <1>1, <2>1, FS_Subset
<1>3. /\ Cardinality(S) \in Nat
      /\ \A k \in 1..Cardinality(S) :
           PlaceOf(S, k) \in S /\ Cardinality({j \in S : j <= PlaceOf(S, k)}) = k
  BY <1>2, PlacesCounted
<1>4. \A k, l \in 1..Cardinality(S) : PlaceOf(S, k) = PlaceOf(S, l) => k = l
  BY <1>3
<1>5. Queued(S) = [k \in 1..Cardinality(S) |-> tasks[PlaceOf(S, k)]]
  BY DEF Queued, PlaceOf
<1>6. Queued(S) \in [1..Cardinality(S) -> RepairTask]
  BY <1>1, <1>3, <1>5
<1>7. Queued(S) \in Seq(RepairTask) /\ Len(Queued(S)) = Cardinality(S)
  BY <1>3, <1>6, SeqDef
<1>8. QED
  BY <1>3, <1>4, <1>5, <1>7

\* A sequence of a finite set has each member once.
LEMMA SequenceOfSet ==
    ASSUME NEW T, IsFiniteSet(T)
    PROVE  /\ SetToSeq(T) \in Seq(T) /\ Len(SetToSeq(T)) = Cardinality(T)
           /\ \A k, l \in 1..Cardinality(T) : SetToSeq(T)[k] = SetToSeq(T)[l] => k = l
<1>1. Cardinality(T) \in Nat /\ ExistsBijection(1..Cardinality(T), T)
  BY FS_CardinalityType
<1>2. \E f \in [1..Cardinality(T) -> T] : IsInjective(f)
  BY <1>1 DEF ExistsBijection, Bijection, Injection
<1>3. SetToSeq(T) \in [1..Cardinality(T) -> T] /\ IsInjective(SetToSeq(T))
  BY <1>2 DEF SetToSeq
<1>4. QED
  BY <1>1, <1>3, SeqDef DEF IsInjective

\* Fewer tasks of a queue with one of each row.
LEMMA CutKeepsOne ==
    ASSUME tasks \in Seq(RepairTask), OnePending, NEW S \in SUBSET DOMAIN tasks
    PROVE  /\ Queued(S) \in Seq(RepairTask)
           /\ \A i, j \in DOMAIN Queued(S) : Queued(S)[i].media = Queued(S)[j].media => i = j
<1>1. DOMAIN Queued(S) = 1..Cardinality(S)
  BY QueueCut
<1>2. ASSUME NEW i \in DOMAIN Queued(S), NEW j \in DOMAIN Queued(S),
             Queued(S)[i].media = Queued(S)[j].media
      PROVE  i = j
  <2>1. PlaceOf(S, i) \in DOMAIN tasks /\ PlaceOf(S, j) \in DOMAIN tasks
    BY <1>1, QueueCut
  <2>2. tasks[PlaceOf(S, i)].media = tasks[PlaceOf(S, j)].media
    BY <1>1, <1>2, QueueCut
  <2>3. PlaceOf(S, i) = PlaceOf(S, j)
    BY <2>1, <2>2 DEF OnePending
  <2>4. QED
    BY <1>1, <2>3, QueueCut
<1>3. QED
  BY <1>2, QueueCut

\* Rows that are deleted are rows that are gone.
LEMMA RowsDeleted ==
    ASSUME media \in [Medias -> MediaRow], NEW M
    PROVE  Deleted(M) \in [Medias -> MediaRow]
<1>1. 0 \in 0..1
  OBVIOUS
<1>2. \A m \in Medias : media[m] \in MediaRow
  OBVIOUS
<1>3. \A m \in Medias : [media[m] EXCEPT !.there = FALSE, !.links = 0] \in MediaRow
  BY <1>1, <1>2, Zenon DEF MediaRow
<1>4. QED
  BY <1>2, <1>3 DEF Deleted

\* A batch writes the rule of a row that is there.
LEMMA RowRewritten ==
    ASSUME media \in [Medias -> MediaRow], NEW m \in Medias, NEW want \in Wants
    PROVE  [media EXCEPT ![m].want = want] \in [Medias -> MediaRow]
<1>1. [media[m] EXCEPT !.want = want] \in MediaRow
  BY DEF MediaRow
<1>2. QED
  BY <1>1

\* The tasks that are left when some are settled.
LEMMA SettledKeepsOne ==
    ASSUME tasks \in Seq(RepairTask), OnePending, NEW C, tasks' = Settled(C)
    PROVE  tasks' \in Seq(RepairTask) /\ OnePending'
<1>1. {i \in DOMAIN tasks : \A c \in C : ~Same(tasks[i], c)} \in SUBSET DOMAIN tasks
  OBVIOUS
<1>2. QED
  BY <1>1, CutKeepsOne DEF Settled, OnePending

\* What a scan plans for the rows it finds wrong: tasks, of finitely many rows.
LEMMA PlannedTasks ==
    ASSUME RepairTypeOK, scan.page # {}
    PROVE  /\ \A m \in Wrong : PlannedTask(m) \in RepairTask /\ PlannedTask(m).media = m
           /\ IsFiniteSet({PlannedTask(m) : m \in Wrong})
<1>1. Wrong \subseteq scan.page /\ scan.page \subseteq Medias /\ IsFiniteSet(Medias)
  BY RepairAssumption DEF RepairTypeOK, Wrong
<1>2. ASSUME NEW m \in Wrong
      PROVE  PlannedTask(m) \in RepairTask /\ PlannedTask(m).media = m
  <2>1. m \in Medias /\ scan.facts[m] \in MediaRow /\ Planned(scan.facts[m]) # "ok"
    BY <1>1 DEF RepairTypeOK, Wrong
  <2>2. scan.facts[m].want \in Wants /\ scan.facts[m].mark \in Nat
    BY <2>1 DEF MediaRow
  <2>3. Planned(scan.facts[m]) \in Symptoms
    BY <2>1, <2>2 DEF Planned, Wants, Symptoms
  <2>4. QED
    BY <2>1, <2>2, <2>3 DEF PlannedTask, RepairTask
<1>3. IsFiniteSet({PlannedTask(m) : m \in Wrong})
  <2> DEFINE T == {PlannedTask(m) : m \in Wrong}
             f == [m \in Wrong |-> PlannedTask(m)]
  <2>1. IsFiniteSet(Wrong)
    BY <1>1, FS_Subset
  <2>2. f \in Surjection(Wrong, T)
    BY DEF Surjection
  <2>3. QED
    BY <2>1, <2>2, FS_Surjection
<1>4. QED
  BY <1>2, <1>3

\* A scan leaves one task of each row: those of the page that stay are the ones
\* planned once more, and a new one is added only where none stays.
LEMMA SyncKeepsOne ==
    ASSUME RepairTypeOK, SyncTasks
    PROVE  tasks' \in Seq(RepairTask) /\ OnePending'
<1> DEFINE kept == {i \in DOMAIN tasks : Stays(tasks[i])}
           fresh == {PlannedTask(m) : m \in Wrong} \ {tasks[i] : i \in kept}
           old == Queued(kept)
           new == SetToSeq(fresh)
<1>1. tasks' = old \o new /\ scan.page # {}
  BY DEF SyncTasks
<1>2. tasks \in Seq(RepairTask) /\ OnePending
  BY DEF RepairTypeOK
<1>3. kept \in SUBSET DOMAIN tasks
  OBVIOUS
<1>4. \A i \in kept : tasks[i] \in RepairTask /\ Stays(tasks[i])
  BY <1>2, ElementOfSeq
<1>5. /\ \A t \in fresh : t.media \in Wrong /\ t = PlannedTask(t.media) /\ t \in RepairTask
      /\ IsFiniteSet(fresh)
  <2>1. \A t \in fresh : t.media \in Wrong /\ t = PlannedTask(t.media) /\ t \in RepairTask
    BY <1>1, PlannedTasks
  <2>2. fresh \in SUBSET {PlannedTask(m) : m \in Wrong}
    OBVIOUS
  <2>3. IsFiniteSet(fresh)
    BY <1>1, <2>2, PlannedTasks, FS_Subset
  <2>4. QED
    BY <2>1, <2>3
<1>6. \A i \in kept : \A t \in fresh : tasks[i].media # t.media
  <2>1. Wrong \subseteq scan.page
    BY DEF Wrong
  <2>2. SUFFICES ASSUME NEW i \in kept, NEW t \in fresh, tasks[i].media = t.media
                 PROVE  FALSE
    OBVIOUS
  <2>3. t.media \in scan.page /\ t = PlannedTask(t.media)
    BY <1>5, <2>1
  <2>4. tasks[i] = PlannedTask(t.media)
    BY <1>4, <2>2, <2>3 DEF Stays
  <2>5. t \notin {tasks[j] : j \in kept}
    OBVIOUS
  <2>6. QED
    BY <2>3, <2>4, <2>5
<1>7. /\ old \in Seq(RepairTask) /\ new \in Seq(fresh) /\ new \in Seq(RepairTask)
      /\ Len(old) = Cardinality(kept) /\ Len(new) = Cardinality(fresh)
      /\ \A i, j \in DOMAIN old : old[i].media = old[j].media => i = j
  <2>1. fresh \subseteq RepairTask
    BY <1>5
  <2> HIDE DEF kept, fresh
  <2>2. QED
    BY <1>2, <1>3, <1>5, <2>1, QueueCut, CutKeepsOne, SequenceOfSet, SeqMonotonic
<1> HIDE DEF fresh
<1>8. \A i \in 1..Len(old) : \E p \in kept : old[i] = tasks[p]
  <2> HIDE DEF kept
  <2>1. QED
    BY <1>2, <1>3, <1>7, QueueCut
<1>9. \A k \in 1..Len(new) : new[k] \in fresh
  <2> HIDE DEF new
  <2>1. QED
    BY <1>7, ElementOfSeq
<1>10. \A k, l \in 1..Len(new) : new[k].media = new[l].media => k = l
  <2>1. SUFFICES ASSUME NEW k \in 1..Len(new), NEW l \in 1..Len(new), new[k].media = new[l].media
                 PROVE  k = l
    OBVIOUS
  <2>2. new[k] = new[l]
    BY <1>5, <1>9, <2>1
  <2>3. QED
    BY <1>5, <1>7, <2>2, SequenceOfSet
<1>11. \A i \in 1..Len(old) : \A k \in 1..Len(new) : old[i].media # new[k].media
  BY <1>6, <1>8, <1>9
<1> HIDE DEF kept, old, new
<1>12. /\ tasks' \in Seq(RepairTask)
       /\ Len(old) \in Nat /\ Len(new) \in Nat
       /\ DOMAIN tasks' = 1..(Len(old) + Len(new))
       /\ \A i \in 1..(Len(old) + Len(new)) :
            tasks'[i] = IF i <= Len(old) THEN old[i] ELSE new[i - Len(old)]
  BY <1>1, <1>7, ConcatProperties
<1>13. ASSUME NEW i \in DOMAIN tasks', NEW j \in DOMAIN tasks', tasks'[i].media = tasks'[j].media
       PROVE  i = j
  <2>0. i \in 1..(Len(old) + Len(new)) /\ j \in 1..(Len(old) + Len(new))
    BY <1>12
  <2>1. CASE i <= Len(old) /\ j <= Len(old)
    <3>1. i \in DOMAIN old /\ j \in DOMAIN old
      BY <1>7, <1>12, <2>0, <2>1
    <3>2. old[i].media = old[j].media
      BY <1>12, <1>13, <2>0, <2>1
    <3>3. QED
      BY <1>7, <3>1, <3>2
  <2>2. CASE i <= Len(old) /\ ~(j <= Len(old))
    <3>1. i \in 1..Len(old) /\ j - Len(old) \in 1..Len(new)
      BY <1>12, <2>0, <2>2
    <3>2. old[i].media = new[j - Len(old)].media
      BY <1>12, <1>13, <2>0, <2>2
    <3>3. QED
      BY <1>11, <3>1, <3>2
  <2>3. CASE ~(i <= Len(old)) /\ j <= Len(old)
    <3>1. j \in 1..Len(old) /\ i - Len(old) \in 1..Len(new)
      BY <1>12, <2>0, <2>3
    <3>2. old[j].media = new[i - Len(old)].media
      BY <1>12, <1>13, <2>0, <2>3
    <3>3. QED
      BY <1>11, <3>1, <3>2
  <2>4. CASE ~(i <= Len(old)) /\ ~(j <= Len(old))
    <3>1. i - Len(old) \in 1..Len(new) /\ j - Len(old) \in 1..Len(new)
      BY <1>12, <2>0, <2>4
    <3>2. new[i - Len(old)].media = new[j - Len(old)].media
      BY <1>12, <1>13, <2>0, <2>4
    <3>3. i - Len(old) = j - Len(old)
      BY <1>10, <3>1, <3>2
    <3>4. QED
      BY <1>12, <2>0, <3>3
  <2>5. QED
    BY <2>1, <2>2, <2>3, <2>4
<1>14. QED
  BY <1>12, <1>13 DEF OnePending

Kinds == {"delete", "retitle", "rehome"}

\* Deletions come first, then titles, then moves; what is left is claimed for the
\* stages that come.
StageOrder ==
    /\ applier.stage \in {"idle", "refused", "recount"} => applier.claimed = {}
    /\ applier.stage = "retitle" => OfKind(applier.claimed, "delete") = {}
    /\ applier.stage = "rehome" => \A t \in applier.claimed : Kind(t.symptom) = "rehome"

\* No more tasks of a kind are claimed than the limit says.
WithinLimit == \A sort \in Kinds : /\ IsFiniteSet(OfKind(applier.claimed, sort))
                                   /\ Cardinality(OfKind(applier.claimed, sort)) <= ApplyLimit

\* The tasks that are carried out together are of different rows.
ClaimedApart == \A t, u \in applier.claimed : t.media = u.media => t = u

\* Types, the order of the stages, and what a run has claimed.
RepairInv == RepairTypeOK /\ StageOrder /\ WithinLimit /\ ClaimedApart

\* A task deletes a row, renews its title or moves it.
LEMMA KindsOfTasks == \A t \in RepairTask : Kind(t.symptom) \in Kinds
BY DEF RepairTask, Symptoms, Kind, Kinds

\* The oldest tasks of a kind are as many as the limit allows.
LEMMA OldestLimited ==
    ASSUME tasks \in Seq(RepairTask), NEW sort
    PROVE  /\ \A t \in Oldest(sort) : t \in RepairTask /\ Kind(t.symptom) = sort /\ \E i \in DOMAIN tasks : t = tasks[i]
           /\ IsFiniteSet(Oldest(sort)) /\ Cardinality(Oldest(sort)) <= ApplyLimit
<1> DEFINE upTo(i) == {j \in 1..i : Kind(tasks[j].symptom) = sort}
           K == {k \in DOMAIN tasks : k \in upTo(k) /\ Cardinality(upTo(k)) <= ApplyLimit}
           f == [k \in K |-> tasks[k]]
<1>1. /\ DOMAIN tasks = 1..Len(tasks) /\ Len(tasks) \in Nat
      /\ \A i \in DOMAIN tasks : tasks[i] \in RepairTask
  BY ElementOfSeq
<1>2. Oldest(sort) = {tasks[k] : k \in K}
  BY DEF Oldest
<1>3. K \in SUBSET DOMAIN tasks /\ IsFiniteSet(K) /\ K \in SUBSET Int
  <2>1. K \in SUBSET DOMAIN tasks
    OBVIOUS
  <2> HIDE DEF K
  <2>2. IsFiniteSet(DOMAIN tasks)
    BY <1>1, FS_Interval
  <2>3. QED
    BY <1>1, <2>1, <2>2, FS_Subset
<1>4. IsFiniteSet(K) /\ Cardinality(K) <= ApplyLimit
  <2>0. ApplyLimit \in Nat
    BY RepairAssumption
  <2>1. CASE K = {}
    <3>1. Cardinality({}) <= ApplyLimit
      BY <2>0, FS_EmptySet
    <3> HIDE DEF K
    <3>2. QED
      BY <1>3, <2>1, <3>1
  <2>2. CASE K # {}
    <3>1. Max(K) \in K /\ \A k \in K : Max(K) >= k
      <4> HIDE DEF K
      <4>1. QED
        BY <1>3, <2>2, Extremes
    <3>2. \A k \in K : k \in 1..Max(K) /\ Kind(tasks[k].symptom) = sort
      <4>1. \A k \in K : Kind(tasks[k].symptom) = sort
        OBVIOUS
      <4> HIDE DEF K
      <4>2. \A k \in K : k \in 1..Max(K)
        BY <1>1, <1>3, <3>1
      <4>3. QED
        BY <4>1, <4>2
    <3>3. K \in SUBSET upTo(Max(K))
      BY <3>2
    <3>4. Cardinality(upTo(Max(K))) <= ApplyLimit
      BY <3>1
    <3>5. IsFiniteSet(upTo(Max(K)))
      <4>1. upTo(Max(K)) \in SUBSET (1..Max(K)) /\ Max(K) \in Int
        BY <1>3, <3>1
      <4> HIDE DEF upTo, K
      <4>2. IsFiniteSet(1..Max(K))
        BY <4>1, FS_Interval
      <4>3. QED
        BY <4>1, <4>2, FS_Subset
    <3> HIDE DEF upTo, K
    <3>6. Cardinality(K) <= Cardinality(upTo(Max(K))) /\ Cardinality(upTo(Max(K))) \in Nat /\ Cardinality(K) \in Nat
      BY <1>3, <3>3, <3>5, FS_Subset, FS_CardinalityType
    <3>7. QED
      BY <1>3, <2>0, <3>4, <3>6
  <2>3. QED
    BY <2>1, <2>2
<1>5. f \in Surjection(K, Oldest(sort))
  BY <1>2 DEF Surjection
<1>6. IsFiniteSet(Oldest(sort)) /\ Cardinality(Oldest(sort)) <= ApplyLimit
  <2> HIDE DEF K, f
  <2>1. IsFiniteSet(Oldest(sort)) /\ Cardinality(Oldest(sort)) <= Cardinality(K)
    BY <1>4, <1>5, FS_Surjection
  <2>2. Cardinality(Oldest(sort)) \in Nat /\ Cardinality(K) \in Nat /\ ApplyLimit \in Nat
    BY <1>4, <2>1, FS_CardinalityType, RepairAssumption
  <2>3. QED
    BY <1>4, <2>1, <2>2
<1>7. ASSUME NEW t \in Oldest(sort)
      PROVE  t \in RepairTask /\ Kind(t.symptom) = sort /\ \E i \in DOMAIN tasks : t = tasks[i]
  BY <1>1, <1>2
<1>8. QED
  BY <1>6, <1>7

\* Nothing is queued or claimed at first.
LEMMA RepairStart == RepairInit => RepairInv
<1> SUFFICES ASSUME RepairInit PROVE RepairInv
  OBVIOUS
<1>1. tasks \in Seq(RepairTask) /\ DOMAIN tasks = {}
  BY EmptySeq DEF RepairInit
<1>2. OnePending /\ media \in [Medias -> MediaRow] /\ changes \in 0..MaxChanges
  BY <1>1, RepairAssumption DEF RepairInit, OnePending
<1>3. RepairTypeOK
  BY <1>1, <1>2 DEF RepairInit, RepairTypeOK, NoScan, NoApply, ApplierStages
<1>4. applier.claimed = {} /\ applier.stage = "idle"
  BY DEF RepairInit, NoApply
<1>5. \A sort \in Kinds : OfKind(applier.claimed, sort) = {}
  BY <1>4 DEF OfKind
<1>6. IsFiniteSet({}) /\ Cardinality({}) <= ApplyLimit
  BY FS_EmptySet, RepairAssumption
<1>7. WithinLimit
  BY <1>5, <1>6 DEF WithinLimit
<1>8. QED
  BY <1>3, <1>4, <1>7 DEF RepairInv, StageOrder, ClaimedApart

\* An applier at rest, or one that carries on with fewer of the tasks, keeps them
\* apart and within the limit.
LEMMA FewerClaimed ==
    ASSUME WithinLimit, ClaimedApart, applier'.claimed \subseteq applier.claimed
    PROVE  WithinLimit' /\ ClaimedApart'
<1>1. ASSUME NEW sort \in Kinds
      PROVE  /\ IsFiniteSet(OfKind(applier'.claimed, sort))
             /\ Cardinality(OfKind(applier'.claimed, sort)) <= ApplyLimit
  <2>1. OfKind(applier'.claimed, sort) \in SUBSET OfKind(applier.claimed, sort)
    BY DEF OfKind
  <2>2. /\ IsFiniteSet(OfKind(applier.claimed, sort))
        /\ Cardinality(OfKind(applier.claimed, sort)) <= ApplyLimit
    BY DEF WithinLimit
  <2>3. /\ IsFiniteSet(OfKind(applier'.claimed, sort))
        /\ Cardinality(OfKind(applier'.claimed, sort)) <= Cardinality(OfKind(applier.claimed, sort))
    BY <2>1, <2>2, FS_Subset
  <2>4. /\ Cardinality(OfKind(applier'.claimed, sort)) \in Nat
        /\ Cardinality(OfKind(applier.claimed, sort)) \in Nat /\ ApplyLimit \in Nat
    BY <2>2, <2>3, FS_CardinalityType, RepairAssumption
  <2>5. QED
    BY <2>2, <2>3, <2>4
<1>2. WithinLimit'
  BY <1>1 DEF WithinLimit
<1>3. QED
  BY <1>2 DEF ClaimedApart

\* A claim takes tasks of the queue, so that they are of different rows, and
\* the oldest of each kind, so that they are no more than the limit.
LEMMA RepairClaims ==
    ASSUME RepairInv, Claim
    PROVE  RepairInv'
<1>1. /\ RepairTypeOK /\ tasks \in Seq(RepairTask) /\ OnePending
      /\ UNCHANGED <<media, tasks, scan, changes>>
  BY DEF RepairInv, RepairTypeOK, Claim
<1>2. /\ applier'.claimed \in {{}, Oldest("delete") \cup Oldest("retitle") \cup Oldest("rehome")}
      /\ applier'.stage \in {"refused", "delete"} /\ applier'.survivors = {}
      /\ applier'.stage = "refused" => applier'.claimed = {}
      /\ DOMAIN applier' = {"stage", "claimed", "survivors"}
      /\ applier' = [stage |-> applier'.stage, claimed |-> applier'.claimed, survivors |-> applier'.survivors]
  BY DEF Claim, NoApply
<1>3. \A sort \in Kinds :
        /\ \A t \in Oldest(sort) : t \in RepairTask /\ Kind(t.symptom) = sort
             /\ \E i \in DOMAIN tasks : t = tasks[i]
        /\ IsFiniteSet(Oldest(sort)) /\ Cardinality(Oldest(sort)) <= ApplyLimit
  BY <1>1, OldestLimited
<1>4. \A t \in applier'.claimed : t \in RepairTask /\ \E i \in DOMAIN tasks : t = tasks[i]
  BY <1>2, <1>3 DEF Kinds
<1>5. RepairTypeOK'
  <2>1. applier' \in [stage : ApplierStages, claimed : SUBSET RepairTask, survivors : SUBSET Medias]
    BY <1>2, <1>4 DEF ApplierStages
  <2>2. QED
    BY <1>1, <2>1 DEF RepairTypeOK, OnePending
<1>6. ClaimedApart'
  BY <1>1, <1>4 DEF ClaimedApart, OnePending
<1>7. ASSUME NEW sort \in Kinds
      PROVE  /\ IsFiniteSet(OfKind(applier'.claimed, sort))
             /\ Cardinality(OfKind(applier'.claimed, sort)) <= ApplyLimit
  <2>1. OfKind(applier'.claimed, sort) \in {{}, Oldest(sort)}
    BY <1>2, <1>3 DEF OfKind, Kinds
  <2>2. IsFiniteSet({}) /\ Cardinality({}) <= ApplyLimit
    BY FS_EmptySet, RepairAssumption
  <2>3. IsFiniteSet(Oldest(sort)) /\ Cardinality(Oldest(sort)) <= ApplyLimit
    BY <1>3
  <2>4. QED
    BY <2>1, <2>2, <2>3
<1>8. WithinLimit' /\ StageOrder'
  BY <1>2, <1>7 DEF WithinLimit, StageOrder
<1>9. QED
  BY <1>5, <1>6, <1>8 DEF RepairInv

\* A scan leaves the application alone.
LEMMA RepairScans ==
    ASSUME RepairInv, Scanner
    PROVE  RepairInv'
<1>1. RepairTypeOK /\ UNCHANGED <<media, applier, changes>>
  BY DEF RepairInv, Scanner, BeginScan, LoadPage, SyncTasks
<1>2. scan'.rest \subseteq Medias /\ scan'.page \subseteq Medias
        /\ (scan'.page # {} => scan'.facts \in [Medias -> MediaRow])
  <2>1. CASE BeginScan
    BY <1>1, <2>1 DEF BeginScan, RepairTypeOK, NoScan, There
  <2>2. CASE LoadPage
    <3>1. PICK page \in SUBSET scan.rest :
            scan' = [rest |-> scan.rest \ page, page |-> page \cap There, facts |-> media]
      BY <2>2 DEF LoadPage
    <3>2. QED
      BY <1>1, <3>1 DEF RepairTypeOK, There
  <2>3. CASE SyncTasks
    <3>1. scan' = [scan EXCEPT !.page = {}, !.facts = <<>>]
      BY <2>3 DEF SyncTasks
    <3>2. scan'.page = {} \/ scan'.page = scan.page
      BY <3>1
    <3>3. scan'.rest = scan.rest \/ scan'.rest \in {{}}
      BY <3>1
    <3>4. QED
      BY <1>1, <3>1, <3>2, <3>3 DEF RepairTypeOK
  <2>4. QED
    BY <2>1, <2>2, <2>3 DEF Scanner
<1>3. tasks' \in Seq(RepairTask) /\ OnePending'
  <2>1. CASE SyncTasks
    BY <1>1, <2>1, SyncKeepsOne
  <2>2. CASE ~SyncTasks
    <3>1. tasks' = tasks
      BY <2>2 DEF Scanner, BeginScan, LoadPage
    <3>2. QED
      BY <1>1, <3>1 DEF RepairTypeOK, OnePending
  <2>3. QED
    BY <2>1, <2>2
<1>4. RepairTypeOK'
  BY <1>1, <1>2, <1>3 DEF RepairTypeOK
<1>5. QED
  BY <1>1, <1>4 DEF RepairInv, StageOrder, WithinLimit, ClaimedApart

\* The end of an application, regular or not.
LEMMA RepairRests ==
    ASSUME RepairInv, applier' = NoApply, UNCHANGED <<tasks, scan>>,
           media' \in [Medias -> MediaRow], changes' \in 0..MaxChanges
    PROVE  RepairInv'
<1>1. RepairTypeOK'
  <2>1. applier' \in [stage : ApplierStages, claimed : SUBSET RepairTask, survivors : SUBSET Medias]
    BY DEF NoApply, ApplierStages
  <2>2. QED
    BY <2>1 DEF RepairInv, RepairTypeOK, OnePending
<1>2. applier'.claimed = {} /\ applier'.stage = "idle"
  BY DEF NoApply
<1>3. WithinLimit' /\ ClaimedApart'
  BY <1>2, FewerClaimed DEF RepairInv
<1>4. QED
  BY <1>1, <1>2, <1>3 DEF RepairInv, StageOrder

\* A step of the applier that claims nothing more.
LEMMA RepairCarriesOn ==
    ASSUME RepairInv, UNCHANGED scan,
           tasks' \in Seq(RepairTask), OnePending',
           media' \in [Medias -> MediaRow], changes' \in 0..MaxChanges,
           NEW stage \in ApplierStages, NEW C \in SUBSET applier.claimed, NEW V \in SUBSET Medias,
           applier' = [stage |-> stage, claimed |-> C, survivors |-> V],
           stage \in {"idle", "refused", "recount"} => C = {},
           stage = "retitle" => OfKind(C, "delete") = {},
           stage = "rehome" => \A t \in C : Kind(t.symptom) = "rehome"
    PROVE  RepairInv'
<1>1. applier' \in [stage : ApplierStages, claimed : SUBSET RepairTask, survivors : SUBSET Medias]
  BY DEF RepairInv, RepairTypeOK
<1>2. RepairTypeOK'
  BY <1>1 DEF RepairInv, RepairTypeOK
<1>3. WithinLimit' /\ ClaimedApart'
  BY FewerClaimed DEF RepairInv
<1>4. QED
  BY <1>2, <1>3 DEF RepairInv, StageOrder

\* Each step of an application.
LEMMA RepairApplies ==
    ASSUME RepairInv, Applier \/ BatchGivenUp
    PROVE  RepairInv'
<1>1. RepairTypeOK /\ scan' = scan /\ StageOrder
  BY DEF RepairInv, Applier, Claim, Refused, DeleteRows, SettleDeletes, RetitleBatch, RehomeBatch,
         NextStage, Recount, BatchGivenUp
<1>2. /\ media \in [Medias -> MediaRow] /\ tasks \in Seq(RepairTask) /\ OnePending
      /\ changes \in 0..MaxChanges /\ MaxChanges \in Nat
      /\ applier \in [stage : ApplierStages, claimed : SUBSET RepairTask, survivors : SUBSET Medias]
  BY <1>1, RepairAssumption DEF RepairTypeOK
<1>3. applier = [stage |-> applier.stage, claimed |-> applier.claimed, survivors |-> applier.survivors]
        /\ applier.stage \in ApplierStages /\ applier.claimed \subseteq RepairTask /\ applier.survivors \subseteq Medias
  BY <1>2
<1>4. tasks' = tasks => tasks' \in Seq(RepairTask) /\ OnePending'
  BY <1>2 DEF OnePending
<1>5. CASE Claim
  BY <1>5, RepairClaims
<1>6. CASE Refused
  BY <1>2, <1>6, RepairRests DEF Refused
<1>7. CASE DeleteRows
  <2>1. media' \in [Medias -> MediaRow]
    BY <1>2, <1>7, RowsDeleted DEF DeleteRows
  <2>2. applier' = [stage |-> "deleted", claimed |-> applier.claimed, survivors |-> applier.survivors]
    BY <1>3, <1>7 DEF DeleteRows
  <2>3. tasks' = tasks /\ changes' = changes
    BY <1>7 DEF DeleteRows
  <2>4. "deleted" \in ApplierStages
    BY DEF ApplierStages
  <2>5. QED
    BY <1>1, <1>2, <1>3, <1>4, <2>1, <2>2, <2>3, <2>4, RepairCarriesOn
<1>8. CASE SettleDeletes
  <2> DEFINE C == applier.claimed \ OfKind(applier.claimed, "delete")
  <2>1. applier' = [stage |-> "retitle", claimed |-> C, survivors |-> applier.survivors]
    BY <1>3, <1>8 DEF SettleDeletes
  <2>2. media' = media /\ changes' = changes /\ tasks' \in Seq(RepairTask) /\ OnePending'
    BY <1>2, <1>8, SettledKeepsOne DEF SettleDeletes
  <2>3. "retitle" \in ApplierStages /\ OfKind(C, "delete") = {} /\ C \in SUBSET applier.claimed
    BY DEF ApplierStages, OfKind
  <2> HIDE DEF C
  <2>4. QED
    BY <1>1, <1>2, <1>3, <2>1, <2>2, <2>3, RepairCarriesOn
<1>9. CASE RetitleBatch
  <2>1. PICK t \in OfKind(applier.claimed, "retitle") :
          /\ applier.stage = "retitle"
          /\ applier' = [applier EXCEPT !.claimed = @ \ {t}]
          /\ tasks' = Settled({t})
          /\ \E want \in Wants : MayBecome(t, want) /\ media' =
               IF t.media \in There THEN [media EXCEPT ![t.media].want = want] ELSE media
          /\ changes' = changes
    BY <1>9 DEF RetitleBatch
  <2>2. media' \in [Medias -> MediaRow]
    BY <1>2, <2>1, RowRewritten DEF There
  <2>3. tasks' \in Seq(RepairTask) /\ OnePending'
    BY <1>2, <2>1, SettledKeepsOne
  <2>4. applier' = [stage |-> "retitle", claimed |-> applier.claimed \ {t}, survivors |-> applier.survivors]
    BY <1>3, <2>1
  <2>5. "retitle" \in ApplierStages /\ OfKind(applier.claimed \ {t}, "delete") = {}
    BY <1>1, <2>1 DEF ApplierStages, OfKind, StageOrder
  <2>6. QED
    BY <1>1, <1>2, <1>3, <2>1, <2>2, <2>3, <2>4, <2>5, RepairCarriesOn
<1>10. CASE RehomeBatch
  <2>1. PICK t \in OfKind(applier.claimed, "rehome") :
          /\ applier.stage = "rehome"
          /\ tasks' = Settled({t})
          /\ \/ /\ \E want \in Wants : MayBecome(t, want) /\ media' =
                     IF t.media \in There THEN [media EXCEPT ![t.media].want = want] ELSE media
                /\ applier' = [applier EXCEPT !.claimed = @ \ {t}]
             \/ /\ t.media \in There
                /\ \E other \in There \ {t.media} :
                     /\ media' = [Deleted({t.media}) EXCEPT
                                    ![other].links = IF media[t.media].links = 1 THEN 1 ELSE @]
                     /\ applier' = [applier EXCEPT !.claimed = @ \ {t}, !.survivors = @ \cup {other}]
          /\ changes' = changes
    BY <1>10 DEF RehomeBatch
  <2>2. tasks' \in Seq(RepairTask) /\ OnePending'
    BY <1>2, <2>1, SettledKeepsOne
  <2>3. "rehome" \in ApplierStages /\ \A u \in applier.claimed \ {t} : Kind(u.symptom) = "rehome"
    BY <1>1, <2>1 DEF ApplierStages, StageOrder
  <2>4. changes' \in 0..MaxChanges /\ applier.claimed \ {t} \in SUBSET applier.claimed
    BY <1>2, <2>1
  <2>5. CASE /\ \E want \in Wants : MayBecome(t, want) /\ media' =
                  IF t.media \in There THEN [media EXCEPT ![t.media].want = want] ELSE media
             /\ applier' = [applier EXCEPT !.claimed = @ \ {t}]
    <3>1. media' \in [Medias -> MediaRow]
      BY <1>2, <2>5, RowRewritten DEF There
    <3>2. applier' = [stage |-> "rehome", claimed |-> applier.claimed \ {t}, survivors |-> applier.survivors]
      BY <1>3, <2>1, <2>5
    <3>3. QED
      BY <1>1, <1>3, <2>4, <2>2, <2>3, <3>1, <3>2, RepairCarriesOn
  <2>6. CASE /\ t.media \in There
             /\ \E other \in There \ {t.media} :
                  /\ media' = [Deleted({t.media}) EXCEPT
                                 ![other].links = IF media[t.media].links = 1 THEN 1 ELSE @]
                  /\ applier' = [applier EXCEPT !.claimed = @ \ {t}, !.survivors = @ \cup {other}]
    <3>1. PICK other \in There \ {t.media} :
            /\ media' = [Deleted({t.media}) EXCEPT
                           ![other].links = IF media[t.media].links = 1 THEN 1 ELSE @]
            /\ applier' = [applier EXCEPT !.claimed = @ \ {t}, !.survivors = @ \cup {other}]
      BY <2>6
    <3>2. other \in Medias
      BY DEF There
    <3>3. media' \in [Medias -> MediaRow]
      <4>1. Deleted({t.media}) \in [Medias -> MediaRow]
        BY <1>2, RowsDeleted
      <4>2. PICK D \in [Medias -> MediaRow] : D = Deleted({t.media})
        BY <4>1
      <4>3. \E n \in 0..1 : media' = [D EXCEPT ![other].links = n]
        <5>1. D[other].links \in 0..1
          BY <3>2 DEF MediaRow
        <5>2. 1 \in 0..1
          OBVIOUS
        <5>3. QED
          BY <3>1, <3>2, <4>2, <5>1, <5>2
      <4>4. PICK n \in 0..1 : media' = [D EXCEPT ![other].links = n]
        BY <4>3
      <4>5. [D[other] EXCEPT !.links = n] \in MediaRow
        BY <3>2 DEF MediaRow
      <4>6. QED
        BY <4>4, <4>5
    <3>4. applier' = [stage |-> "rehome", claimed |-> applier.claimed \ {t},
                      survivors |-> applier.survivors \cup {other}]
      BY <1>3, <2>1, <3>1
    <3>5. applier.survivors \cup {other} \in SUBSET Medias
      BY <1>3, <3>2
    <3>6. QED
      BY <1>1, <2>4, <2>2, <2>3, <3>3, <3>4, <3>5, RepairCarriesOn
  <2>7. QED
    BY <2>1, <2>5, <2>6
<1>11. CASE BatchGivenUp
  <2> DEFINE stage == applier.stage
  <2>1. PICK t \in applier.claimed : applier' = [applier EXCEPT !.claimed = @ \ {t}]
    BY <1>11 DEF BatchGivenUp, OfKind
  <2> DEFINE C == applier.claimed \ {t}
  <2>2. applier' = [stage |-> stage, claimed |-> C, survivors |-> applier.survivors]
    BY <1>3, <2>1
  <2>3. /\ stage \in {"retitle", "rehome"} /\ media' = media /\ tasks' = tasks
        /\ changes' \in 0..MaxChanges
    BY <1>2, <1>11 DEF BatchGivenUp
  <2>4. stage \in ApplierStages /\ C \in SUBSET applier.claimed
    BY <1>3
  <2>5. /\ stage \in {"idle", "refused", "recount"} => C = {}
        /\ stage = "retitle" => OfKind(C, "delete") = {}
        /\ stage = "rehome" => \A u \in C : Kind(u.symptom) = "rehome"
    BY <1>1, <2>3 DEF StageOrder, OfKind
  <2>6. media' \in [Medias -> MediaRow] /\ tasks' \in Seq(RepairTask) /\ OnePending'
    BY <1>2, <1>4, <2>3
  <2> HIDE DEF stage, C
  <2>7. QED
    BY <1>1, <1>3, <2>2, <2>3, <2>4, <2>5, <2>6, RepairCarriesOn
<1>12. CASE NextStage
  <2> DEFINE stage == IF applier.stage = "retitle" THEN "rehome" ELSE "recount"
  <2>1. applier' = [stage |-> stage, claimed |-> applier.claimed, survivors |-> applier.survivors]
    BY <1>3, <1>12 DEF NextStage
  <2>2. media' = media /\ tasks' = tasks /\ changes' = changes
    BY <1>12 DEF NextStage
  <2>3. stage \in ApplierStages
    BY DEF ApplierStages
  <2>4. \A t \in applier.claimed : Kind(t.symptom) \in Kinds
    BY <1>3, KindsOfTasks
  <2>5. /\ stage \in {"idle", "refused", "recount"} => applier.claimed = {}
        /\ stage = "rehome" => \A u \in applier.claimed : Kind(u.symptom) = "rehome"
    BY <1>1, <1>12, <2>4 DEF NextStage, StageOrder, OfKind, Kinds
  <2>6. stage # "retitle"
    OBVIOUS
  <2> HIDE DEF stage
  <2>7. QED
    BY <1>1, <1>2, <1>3, <1>4, <2>1, <2>2, <2>3, <2>5, <2>6, RepairCarriesOn
<1>13. CASE Recount
  <2>1. \A m \in Medias : media[m] \in MediaRow /\ Deleted({m})[m] \in MediaRow
    BY <1>2, RowsDeleted
  <2>2. \A m \in Medias : [media[m] EXCEPT !.tally = 1] \in MediaRow
    <3>1. 1 \in 0..1
      OBVIOUS
    <3>2. QED
      BY <2>1, <3>1, Zenon DEF MediaRow
  <2>3. media' \in [Medias -> MediaRow]
    BY <1>13, <2>1, <2>2 DEF Recount
  <2>4. QED
    BY <1>2, <1>13, <2>3, RepairRests DEF Recount
<1>14. QED
  BY <1>5, <1>6, <1>7, <1>8, <1>9, <1>10, <1>11, <1>12, <1>13 DEF Applier

\* What others do to the rows.
LEMMA RepairOthers ==
    ASSUME RepairInv, NEW m \in Medias, RowChanges(m) \/ LinkFound(m) \/ RowGoes(m)
    PROVE  RepairInv'
<1>1. /\ media \in [Medias -> MediaRow] /\ changes \in 0..MaxChanges /\ MaxChanges \in Nat
      /\ media[m] \in MediaRow
  BY RepairAssumption DEF RepairInv, RepairTypeOK
<1>2. changes' \in 0..MaxChanges /\ UNCHANGED <<tasks, scan, applier>>
  BY <1>1 DEF RowChanges, LinkFound, RowGoes
<1>3. media' \in [Medias -> MediaRow]
  <2>1. CASE RowChanges(m)
    <3>1. PICK want \in Wants : media' = [media EXCEPT ![m].want = want, ![m].mark = @ + 1]
      BY <2>1 DEF RowChanges
    <3>2. media[m].mark + 1 \in Nat
      BY <1>1 DEF MediaRow
    <3>3. [media[m] EXCEPT !.want = want, !.mark = @ + 1] \in MediaRow
      BY <1>1, <3>2, Zenon DEF MediaRow
    <3>4. media' = [media EXCEPT ![m] = [media[m] EXCEPT !.want = want, !.mark = @ + 1]]
      BY <1>1, <3>1, Zenon
    <3>5. QED
      BY <1>1, <3>3, <3>4
  <2>2. CASE LinkFound(m)
    <3>1. 1 \in 0..1
      OBVIOUS
    <3>2. [media[m] EXCEPT !.links = 1, !.tally = 1] \in MediaRow
      BY <1>1, <3>1, Zenon DEF MediaRow
    <3>3. media' = [media EXCEPT ![m] = [media[m] EXCEPT !.links = 1, !.tally = 1]]
      BY <1>1, <2>2, Zenon DEF LinkFound
    <3>4. QED
      BY <1>1, <3>2, <3>3
  <2>3. CASE RowGoes(m)
    BY <1>1, <2>3, RowsDeleted DEF RowGoes
  <2>4. QED
    BY <2>1, <2>2, <2>3
<1>4. QED
  BY <1>2, <1>3 DEF RepairInv, RepairTypeOK, OnePending, StageOrder, WithinLimit, ClaimedApart

\* The invariant is inductive.
LEMMA RepairGoesOn == RepairInv /\ [RepairNext]_repair => RepairInv'
<1> SUFFICES ASSUME RepairInv, [RepairNext]_repair
             PROVE  RepairInv'
  OBVIOUS
<1>1. CASE ApplyDies
  <2>1. changes' \in 0..MaxChanges /\ media' \in [Medias -> MediaRow]
    BY <1>1, RepairAssumption DEF ApplyDies, RepairInv, RepairTypeOK
  <2>2. QED
    BY <1>1, <2>1, RepairRests DEF ApplyDies
<1>2. CASE UNCHANGED repair
  BY <1>2 DEF repair, RepairInv, RepairTypeOK, OnePending, StageOrder, WithinLimit, ClaimedApart
<1>3. QED
  BY <1>1, <1>2, RepairScans, RepairApplies, RepairOthers DEF RepairNext

\* It holds in every state.
LEMMA RepairAlways == RepairSpec => []RepairInv
BY RepairStart, RepairGoesOn, PTL DEF RepairSpec

\* The rows, the queue, the scan and the application keep their types, whatever
\* order scans, applications, crashes and other writers come in.
THEOREM RepairTypes == RepairSpec => []RepairTypeOK
<1>1. RepairInv => RepairTypeOK
  BY DEF RepairInv
<1>2. QED
  BY <1>1, RepairAlways, PTL

\* At most one task waits for each row, of whatever kind (scan.py:22-26): the
\* index allows one of each kind, the scan cancels what it does not plan again.
THEOREM OneTaskEach == RepairSpec => []OnePending
<1>1. RepairInv => OnePending
  BY DEF RepairInv, RepairTypeOK
<1>2. QED
  BY <1>1, RepairAlways, PTL

\* A run deletes before it renews titles and renews titles before it moves rows,
\* carries out no more tasks of a kind than --limit, and no two of one row, so
\* that a row it deleted is not renewed or moved by the same run (apply.py:7-16).
THEOREM AppliedInOrder == RepairSpec => [](StageOrder /\ WithinLimit /\ ClaimedApart)
<1>1. RepairInv => StageOrder /\ WithinLimit /\ ClaimedApart
  BY DEF RepairInv
<1>2. QED
  BY <1>1, RepairAlways, PTL
=============================================================================
