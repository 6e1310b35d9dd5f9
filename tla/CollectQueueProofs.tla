-------------------------- MODULE CollectQueueProofs --------------------------
(* Theorems about CollectQueue, and before them what the operators of         *)
(* Watermark return, for every channel and every size of a page.              *)
EXTENDS CollectQueue, FiniteSetTheorems, WellFoundedInduction, TLAPS

-----------------------------------------------------------------------------
(* Sets of messages                                                        *)

\* A set of messages is finite, and has a last and a first one.
LEMMA BoundedFinite ==
    ASSUME NEW S \in SUBSET (0..MaxId)
    PROVE  IsFiniteSet(S)
<1>1. \A x \in S : x <= MaxId
  OBVIOUS
<1>2. QED
  BY <1>1, FS_BoundedSetOfNaturals, WatermarkAssumption

\* A set of messages that is not empty has a greatest one.
LEMMA HasMax ==
    ASSUME NEW S \in SUBSET (0..MaxId), S # {}
    PROVE  Max(S) \in S /\ \A y \in S : Max(S) >= y
<1> DEFINE Above(x) == {y \in S : y > x}
           T == {Above(x) : x \in S}
<1>1. IsWellFoundedOn(StrictSubsetOrdering(S), SUBSET S)
  BY BoundedFinite, FS_FiniteSubsetsOfFinite, FS_StrictSubsetOrderingWellFounded
<1>2. T \subseteq SUBSET S /\ T # {}
  OBVIOUS
<1>3. PICK U \in T : \A V \in T : ~ (<<V, U>> \in StrictSubsetOrdering(S))
  <2> HIDE DEF T
  <2> QED
    BY <1>1, <1>2, WFMin
<1>4. PICK x \in S : U = Above(x)
  OBVIOUS
<1>5. ASSUME NEW y \in S, y > x
      PROVE  FALSE
  <2>1. Above(y) \in T /\ Above(y) \subseteq S /\ Above(x) \subseteq S
    OBVIOUS
  <2>2. \A z \in S : z \in Int
    BY WatermarkAssumption
  <2>3. Above(y) \subseteq Above(x)
    <3>1. \A z \in S : z > y => z > x
      BY <1>5, <2>2
    <3>2. QED
      BY <3>1
  <2>4. y \in Above(x) /\ y \notin Above(y)
    BY <1>5, <2>2
  <2> HIDE DEF T, Above
  <2>5. <<Above(y), Above(x)>> \in StrictSubsetOrdering(S)
    BY <2>1, <2>3, <2>4 DEF StrictSubsetOrdering
  <2>6. QED
    BY <2>1, <2>5, <1>3, <1>4
<1>6. \A y \in S : x >= y
  BY <1>5, WatermarkAssumption
<1>7. QED
  BY <1>6 DEF Max

\* A first one in the same way: the last of the mirror image.
LEMMA HasMin ==
    ASSUME NEW S \in SUBSET (0..MaxId), S # {}
    PROVE  Min(S) \in S /\ \A y \in S : Min(S) <= y
<1> DEFINE R == {MaxId - x : x \in S}
<1>1. \A x \in S : MaxId - x \in 0..MaxId
  BY WatermarkAssumption
<1>2. Max(R) \in R /\ \A y \in R : Max(R) >= y
  <2>1. R \in SUBSET (0..MaxId) /\ R # {}
    BY <1>1
  <2> HIDE DEF R
  <2>2. QED
    BY <2>1, HasMax
<1>3. PICK x \in S : Max(R) = MaxId - x
  BY <1>2
<1>4. ASSUME NEW y \in S
      PROVE  x <= y
  <2>1. Max(R) >= MaxId - y
    BY <1>2
  <2>2. x \in Int /\ y \in Int
    OBVIOUS
  <2> HIDE DEF R
  <2>3. QED
    BY <2>1, <2>2, <1>3, WatermarkAssumption
<1>5. QED
  BY <1>4 DEF Min

\* MaxOr0 is the greatest of a set of messages, or 0 when there is none.
LEMMA MaxOr0Type ==
    ASSUME NEW S \in SUBSET (0..MaxId)
    PROVE  /\ MaxOr0(S) \in 0..MaxId
           /\ MaxOr0(S) \in S \cup {0}
           /\ \A m \in S : m <= MaxOr0(S)
<1>1. S \cup {0} \in SUBSET (0..MaxId) /\ S \cup {0} # {}
  BY WatermarkAssumption
<1>2. MaxOr0(S) \in S \cup {0} /\ \A m \in S \cup {0} : MaxOr0(S) >= m
  BY <1>1, HasMax, Zenon DEF MaxOr0
<1>3. \A m \in S : m \in Int
  OBVIOUS
<1>4. MaxOr0(S) \in 0..MaxId
  BY <1>1, <1>2
<1>5. QED
  BY <1>2, <1>3, <1>4

\* Least is the smallest of a set of messages, or the default when there is none.
LEMMA LeastType ==
    ASSUME NEW S \in SUBSET (0..MaxId), NEW default
    PROVE  /\ S = {} => Least(S, default) = default
           /\ S # {} => Least(S, default) \in S
           /\ \A m \in S : Least(S, default) <= m
BY HasMin DEF Least

-----------------------------------------------------------------------------
(* Pages: the n newest messages of a set                                   *)

\* Going back from the newest skips nothing: what is above a message that was
\* read was read too.
LEMMA NewestUp ==
    ASSUME NEW S \in SUBSET (0..MaxId), NEW n \in Nat,
           NEW m \in Newest(S, n), NEW k \in S, k >= m
    PROVE  k \in Newest(S, n)
<1> DEFINE Over(x) == {j \in S : j > x}
<1>1. m \in S /\ Cardinality(Over(m)) < n
  BY DEF Newest
<1>2. IsFiniteSet(Over(m))
  BY BoundedFinite, FS_Subset
<1>3. Over(k) \subseteq Over(m)
  <2>1. \A j \in S : j > k => j > m
    BY <1>1
  <2>2. QED
    BY <2>1
<1>4. /\ Cardinality(Over(k)) <= Cardinality(Over(m))
      /\ Cardinality(Over(k)) \in Nat /\ Cardinality(Over(m)) \in Nat
  <2> HIDE DEF Over
  <2> QED
    BY <1>2, <1>3, FS_Subset, FS_CardinalityType
<1>5. Cardinality(Over(k)) < n
  <2> HIDE DEF Over
  <2> QED
    BY <1>1, <1>4
<1>6. QED
  BY <1>5 DEF Newest

\* Fewer messages than asked for: there are no more.
LEMMA NewestShort ==
    ASSUME NEW S \in SUBSET (0..MaxId), NEW n \in Nat,
           Cardinality(Newest(S, n)) < n
    PROVE  Newest(S, n) = S
<1> DEFINE Rest == S \ Newest(S, n)
<1>1. ASSUME Rest # {}
      PROVE  FALSE
  <2>1. Rest \in SUBSET (0..MaxId)
    OBVIOUS
  <2>2. Max(Rest) \in Rest /\ \A y \in Rest : Max(Rest) >= y
    <3> HIDE DEF Rest
    <3> QED
      BY <1>1, <2>1, HasMax
  <2>3. PICK m \in Rest : \A y \in Rest : m >= y
    BY <2>2
  <2>4. {j \in S : j > m} \subseteq Newest(S, n)
    <3>1. ASSUME NEW j \in S, j > m
          PROVE  j \in Newest(S, n)
      <4>1. j \notin Rest
        BY <2>3, <3>1
      <4>2. QED
        BY <4>1
    <3>2. QED
      BY <3>1
  <2>5. IsFiniteSet(Newest(S, n))
    BY BoundedFinite, FS_Subset DEF Newest
  <2>6. /\ Cardinality({j \in S : j > m}) <= Cardinality(Newest(S, n))
        /\ Cardinality({j \in S : j > m}) \in Nat /\ Cardinality(Newest(S, n)) \in Nat
    BY <2>4, <2>5, FS_Subset, FS_CardinalityType
  <2>7. Cardinality({j \in S : j > m}) < n
    BY <2>6
  <2>8. m \in Newest(S, n)
    BY <2>7 DEF Newest
  <2>9. QED
    BY <2>3, <2>8
<1>2. QED
  BY <1>1 DEF Newest

\* More asked for than there are: all of them come.
LEMMA NewestAll ==
    ASSUME NEW S \in SUBSET (0..MaxId), NEW n \in Nat, Cardinality(S) < n
    PROVE  Newest(S, n) = S
<1>1. IsFiniteSet(S) /\ Newest(S, n) \in SUBSET S
  BY BoundedFinite DEF Newest
<1>2. /\ Cardinality(Newest(S, n)) <= Cardinality(S)
      /\ Cardinality(Newest(S, n)) \in Nat /\ Cardinality(S) \in Nat
  BY <1>1, FS_Subset, FS_CardinalityType
<1>3. Cardinality(Newest(S, n)) < n
  BY <1>2
<1>4. QED
  BY <1>3, NewestShort

-----------------------------------------------------------------------------
(* One fetch                                                               *)

\* The numbers of messages on so many pages.
LEMMA PageCounts ==
    /\ PageSize \in Nat /\ MaxPages * PageSize \in Nat /\ ChunkPages * PageSize \in Nat
    /\ (MaxPages - 1) * PageSize \in Nat
    /\ (MaxPages - 1) * PageSize < MaxPages * PageSize
    /\ (ChunkPages - 1) * PageSize \in Nat
    /\ (ChunkPages - 1) * PageSize < ChunkPages * PageSize
<1>1. \A n, m \in Nat \ {0} : /\ n * m \in Nat /\ (n - 1) * m \in Nat
                              /\ (n - 1) * m = n * m - m
  OBVIOUS
<1>2. QED
  BY <1>1, WatermarkAssumption

\* The messages a fetch looks at: those before the resume point.
From(src, shown) == {m \in shown : src.extra.before = 0 \/ m < src.extra.before}

\* The pages of a fetch are the newest messages before its resume point.
LEMMA ReachIsNewest ==
    ASSUME NEW src, NEW shown \in SUBSET (0..MaxId)
    PROVE  /\ From(src, shown) \in SUBSET (0..MaxId)
           /\ Reach(src, shown) \subseteq From(src, shown)
           /\ \E n \in Nat : Reach(src, shown) = Newest(From(src, shown), n)
           /\ src.high # 0 => Reach(src, shown) = Newest(From(src, shown), MaxPages * PageSize)
<1>1. From(src, shown) \in SUBSET (0..MaxId)
  BY DEF From
<1>2. Reach(src, shown) =
        Newest(From(src, shown), IF src.high = 0 THEN PageSize ELSE MaxPages * PageSize)
  BY DEF Reach, From
<1>3. (IF src.high = 0 THEN PageSize ELSE MaxPages * PageSize) \in Nat
  BY PageCounts
<1>4. QED
  BY <1>1, <1>2, <1>3 DEF Newest

\* What a fetch reaches it reaches without a gap.
LEMMA ReachUp ==
    ASSUME NEW src, NEW shown \in SUBSET (0..MaxId),
           NEW k \in Reach(src, shown), NEW m \in From(src, shown), m >= k
    PROVE  m \in Reach(src, shown)
<1>1. PICK n \in Nat : Reach(src, shown) = Newest(From(src, shown), n)
  BY ReachIsNewest
<1>2. QED
  BY <1>1, ReachIsNewest, NewestUp

\* A fetch that was not cut off has read all that is new before its resume point.
LEMMA Complete ==
    ASSUME NEW src, NEW shown \in SUBSET (0..MaxId),
           src.high \in 0..MaxId, src.high # 0, ~Truncated(src, shown),
           NEW m \in From(src, shown), m > src.high
    PROVE  m \in Fetched(src, shown)
<1>1. m \in Reach(src, shown)
  <2>1. CASE \E k \in Reach(src, shown) : ~(k > src.high)
    <3>1. PICK k \in Reach(src, shown) : ~(k > src.high)
      BY <2>1
    <3>2. k \in 0..MaxId /\ m \in 0..MaxId
      BY ReachIsNewest
    <3>3. m >= k
      BY <3>1, <3>2
    <3>4. QED
      BY <3>3, ReachUp
  <2>2. CASE Cardinality(Reach(src, shown)) <= (MaxPages - 1) * PageSize
    <3>1. IsFiniteSet(Reach(src, shown))
      BY ReachIsNewest, BoundedFinite
    <3>2. Cardinality(Reach(src, shown)) < MaxPages * PageSize
      BY <2>2, <3>1, PageCounts, FS_CardinalityType
    <3>3. Reach(src, shown) = From(src, shown)
      BY <3>2, ReachIsNewest, NewestShort, PageCounts
    <3>4. QED
      BY <3>3
  <2>3. QED
    <3>1. IsFiniteSet(Reach(src, shown))
      BY ReachIsNewest, BoundedFinite
    <3>2. Cardinality(Reach(src, shown)) \in Nat
      BY <3>1, FS_CardinalityType
    <3>3. QED
      BY <2>1, <2>2, <3>2, PageCounts DEF Truncated
<1>2. QED
  BY <1>1 DEF Fetched, Reach, Newest, From

\* One that was cut off has read everything from where the next one will resume.
LEMMA CutOff ==
    ASSUME NEW src, NEW shown \in SUBSET (0..MaxId), src.high \in 0..MaxId,
           Truncated(src, shown)
    PROVE  /\ src.high # 0
           /\ Fetched(src, shown) = Reach(src, shown)
           /\ Fetched(src, shown) # {}
           /\ Min(Reach(src, shown)) \in Fetched(src, shown)
           /\ \A m \in From(src, shown) :
                m >= Min(Reach(src, shown)) => m \in Fetched(src, shown)
<1>1. src.high # 0 /\ \A m \in Reach(src, shown) : m > src.high
  BY DEF Truncated
<1>2. Fetched(src, shown) = Reach(src, shown)
  BY <1>1 DEF Fetched
<1>3. Reach(src, shown) # {}
  <2>1. Cardinality(Reach(src, shown)) > (MaxPages - 1) * PageSize
    BY DEF Truncated
  <2>2. Cardinality(Reach(src, shown)) # 0
    <3>1. ASSUME Cardinality(Reach(src, shown)) = 0
          PROVE  FALSE
      BY <2>1, <3>1, PageCounts
    <3>2. QED
      BY <3>1
  <2>3. QED
    BY <2>2, FS_EmptySet
<1>4. Min(Reach(src, shown)) \in Reach(src, shown)
  BY <1>3, ReachIsNewest, HasMin
<1>5. QED
  BY <1>1, <1>2, <1>3, <1>4, ReachUp

\* What a fetch brings it brings without a gap.
LEMMA FetchedUp ==
    ASSUME NEW src, NEW shown \in SUBSET (0..MaxId), src.high \in 0..MaxId,
           NEW k \in Fetched(src, shown), NEW m \in From(src, shown), m >= k
    PROVE  m \in Fetched(src, shown)
<1>1. k \in Reach(src, shown) /\ k > src.high
  BY DEF Fetched
<1>2. m \in Reach(src, shown)
  BY <1>1, ReachUp
<1>3. m \in 0..MaxId /\ k \in 0..MaxId
  BY <1>1, <1>2, ReachIsNewest
<1>4. m > src.high
  BY <1>1, <1>3
<1>5. QED
  BY <1>2, <1>4 DEF Fetched

\* What a fetch brings is before its resume point and above the high mark.
LEMMA FetchedType ==
    ASSUME NEW src, NEW shown \in SUBSET (0..MaxId)
    PROVE  /\ Fetched(src, shown) \subseteq From(src, shown)
           /\ \A m \in Fetched(src, shown) : m > src.high
BY ReachIsNewest DEF Fetched

-----------------------------------------------------------------------------
(* One chunk of the backfill                                               *)

\* A chunk takes the history down from the low mark without a gap.
LEMMA ChunkDown ==
    ASSUME NEW src, NEW shown \in SUBSET (0..MaxId), src.low \in 0..MaxId, NEW n \in Nat,
           NEW m \in Older(src, shown),
           m >= Least(Newest(Older(src, shown), n), src.low)
    PROVE  m \in Newest(Older(src, shown), n)
<1> DEFINE took == Newest(Older(src, shown), n)
<1>1. Older(src, shown) \in SUBSET (0..MaxId) /\ took \in SUBSET (0..MaxId)
  BY DEF Older, Newest
<1>2. m \in 0..MaxId /\ m < src.low
  BY DEF Older
<1>3. took # {}
  BY <1>1, <1>2, LeastType
<1>4. Least(took, src.low) \in took
  <2> HIDE DEF took
  <2> QED
    BY <1>1, <1>3, LeastType
<1>5. QED
  BY <1>1, <1>4, NewestUp

\* The last chunk takes all there is.
LEMMA LastChunk ==
    ASSUME NEW src, NEW shown \in SUBSET (1..MaxId), ChunkIsLast(src, shown)
    PROVE  Newest(Older(src, shown), ChunkPages * PageSize) = Older(src, shown)
<1>1. Older(src, shown) \in SUBSET (0..MaxId)
  <2>1. \A m \in 1..MaxId : m \in 0..MaxId
    BY WatermarkAssumption
  <2>2. QED
    BY <2>1 DEF Older
<1>2. CASE 1 \in Newest(Older(src, shown), ChunkPages * PageSize)
  <2>1. ASSUME NEW m \in Older(src, shown)
        PROVE  m \in Newest(Older(src, shown), ChunkPages * PageSize)
    <3>1. m >= 1
      BY WatermarkAssumption DEF Older
    <3>2. QED
      BY <1>1, <1>2, <3>1, NewestUp, PageCounts
  <2>2. QED
    BY <2>1 DEF Newest
<1>3. CASE Cardinality(Older(src, shown)) <= (ChunkPages - 1) * PageSize
  <2>1. Cardinality(Older(src, shown)) \in Nat
    BY <1>1, BoundedFinite, FS_CardinalityType
  <2>2. Cardinality(Older(src, shown)) < ChunkPages * PageSize
    BY <1>3, <2>1, PageCounts
  <2>3. QED
    BY <1>1, <2>2, NewestAll, PageCounts
<1>4. QED
  BY <1>2, <1>3 DEF ChunkIsLast

-----------------------------------------------------------------------------
(* Types: what the operators of a visit make of a row                       *)

\* The columns of a row.
LEMMA RowFields ==
    ASSUME NEW src \in Row
    PROVE  /\ src.high \in 0..MaxId /\ src.low \in 0..MaxId /\ src.done \in BOOLEAN
           /\ src.extra \in Extra
           /\ src.extra.pending \in 0..MaxId /\ src.extra.before \in 0..MaxId
           /\ src.failures \in 0..MaxFailures /\ src.enabled \in BOOLEAN
           /\ src.lease \in {"none", "live", "expired"}
BY DEF Row, Extra

\* Messages, and those the channel shows, are positive numbers up to the bound.
LEMMA IdsAreIds ==
    /\ \A m \in Ids : m \in 1..MaxId /\ m \in 0..MaxId /\ m \in Nat /\ m # 0
    /\ Shown \subseteq Ids
    /\ Shown \in SUBSET (1..MaxId) /\ Shown \in SUBSET (0..MaxId)
<1>1. \A m \in 1..MaxId : m \in 0..MaxId /\ m \in Nat /\ m # 0
  BY WatermarkAssumption
<1>2. QED
  BY <1>1 DEF Ids, Shown

\* The row of a source as it is added.
LEMMA NoMarkType == NoExtra \in Extra /\ NoMark \in Row
<1>1. 0 \in 0..MaxId /\ 0 \in 0..MaxFailures
  BY WatermarkAssumption, CollectQueueAssumption
<1>2. QED
  BY <1>1 DEF NoMark, Fresh, NoExtra, Extra, Row

\* The failure count saturates at its limit.
LEMMA CountedType ==
    ASSUME NEW n \in 0..MaxFailures
    PROVE  Counted(n) \in 0..MaxFailures
BY CollectQueueAssumption DEF Counted

\* A chunk of the backfill takes messages the channel shows.
LEMMA NewestShown ==
    ASSUME NEW src, NEW n
    PROVE  /\ Newest(Older(src, Shown), n) \subseteq Older(src, Shown)
           /\ Older(src, Shown) \subseteq Shown
           /\ Newest(Older(src, Shown), n) \in SUBSET (0..MaxId)
           /\ Newest(Older(src, Shown), n) \subseteq Ids
BY IdsAreIds DEF Newest, Older

\* A fetch looks at messages the channel shows.
LEMMA FetchedIds ==
    ASSUME NEW src
    PROVE  /\ Fetched(src, Shown) \subseteq Ids /\ Fetched(src, Shown) \subseteq Shown
           /\ Reach(src, Shown) \subseteq Ids
           /\ Truncated(src, Shown) \in BOOLEAN
BY IdsAreIds DEF Fetched, Reach, Newest, Truncated

\* A fetch changes where the catch-up resumes, nothing else.
LEMMA ResumedRow ==
    ASSUME NEW src \in Row
    PROVE  /\ Resumed(src, Shown) \in Row
           /\ Resumed(src, Shown).high = src.high /\ Resumed(src, Shown).low = src.low
           /\ Resumed(src, Shown).done = src.done /\ Resumed(src, Shown).lease = src.lease
           /\ Resumed(src, Shown).extra.pending = src.extra.pending
           /\ Resumed(src, Shown).extra.before =
                IF Truncated(src, Shown) THEN Min(Reach(src, Shown)) ELSE 0
<1> DEFINE b == IF Truncated(src, Shown) THEN Min(Reach(src, Shown)) ELSE 0
<1>1. b \in 0..MaxId
  <2>1. CASE Truncated(src, Shown)
    BY <2>1, CutOff, FetchedIds, IdsAreIds, RowFields
  <2>2. CASE ~Truncated(src, Shown)
    BY <2>2, WatermarkAssumption
  <2>3. QED
    BY <2>1, <2>2
<1>2. Resumed(src, Shown) = [src EXCEPT !.extra = [src.extra EXCEPT !.before = b]]
  BY DEF Resumed
<1>3. [src.extra EXCEPT !.before = b] \in Extra
  <2> HIDE DEF b
  <2> QED
    BY <1>1, RowFields DEF Extra
<1>4. QED
  <2> HIDE DEF b
  <2>1. b = IF Truncated(src, Shown) THEN Min(Reach(src, Shown)) ELSE 0
    BY DEF b
  <2>2. src.extra \in Extra
    BY RowFields
  <2>3. /\ [src.extra EXCEPT !.before = b].before = b
        /\ [src.extra EXCEPT !.before = b].pending = src.extra.pending
    BY <2>2 DEF Extra
  <2>4. QED
    BY <1>2, <1>3, <2>1, <2>3 DEF Row

\* The advance of the marks after a fetch.
LEMMA AdvancedRow ==
    ASSUME NEW src \in Row, NEW messages \in SUBSET Ids, NEW cut \in BOOLEAN,
           NEW highest, highest = MaxOr0(messages \cup {src.extra.pending}),
           NEW new, new = AdvanceCursor(src, messages, cut)
    PROVE  /\ new \in Row /\ highest \in 0..MaxId
           /\ new.low = src.low /\ new.done = src.done /\ new.lease = src.lease
           /\ new.extra.before = src.extra.before
           /\ cut => new.high = src.high /\ new.extra.pending = highest
           /\ ~cut => /\ new.extra.pending = 0
                      /\ new.high \in {src.high, highest}
                      /\ src.high <= new.high /\ highest <= new.high
<1>1. messages \cup {src.extra.pending} \in SUBSET (0..MaxId)
  BY IdsAreIds, RowFields
<1>2. highest \in 0..MaxId
  BY <1>1, MaxOr0Type
<1>3. {src.high, highest} \in SUBSET (0..MaxId)
  BY <1>2, RowFields
<1>4. /\ MaxOr0({src.high, highest}) \in 0..MaxId
      /\ MaxOr0({src.high, highest}) \in {src.high, highest, 0}
      /\ src.high <= MaxOr0({src.high, highest})
      /\ highest <= MaxOr0({src.high, highest})
  BY <1>3, MaxOr0Type
<1>5. MaxOr0({src.high, highest}) \in {src.high, highest}
  BY <1>2, <1>4, RowFields, WatermarkAssumption
<1>6. CASE cut
  <2>1. new = [src EXCEPT !.extra = [src.extra EXCEPT !.pending = highest]]
    BY <1>6 DEF AdvanceCursor
  <2>2. /\ [src.extra EXCEPT !.pending = highest] \in Extra
        /\ [src.extra EXCEPT !.pending = highest].pending = highest
        /\ [src.extra EXCEPT !.pending = highest].before = src.extra.before
    BY <1>2, RowFields DEF Extra
  <2>3. QED
    BY <1>2, <1>6, <2>1, <2>2 DEF Row
<1>7. CASE ~cut
  <2> DEFINE top == MaxOr0({src.high, highest})
  <2>1. new = [[src EXCEPT !.high = top] EXCEPT
                  !.extra = [src.extra EXCEPT !.pending = 0]]
    BY <1>7 DEF AdvanceCursor, Row
  <2>2. /\ [src.extra EXCEPT !.pending = 0] \in Extra
        /\ [src.extra EXCEPT !.pending = 0].pending = 0
        /\ [src.extra EXCEPT !.pending = 0].before = src.extra.before
    BY RowFields, WatermarkAssumption DEF Extra
  <2>3. top \in 0..MaxId
    BY <1>4
  <2> HIDE DEF top
  <2>4. /\ new \in Row /\ new.high = top
        /\ new.low = src.low /\ new.done = src.done /\ new.lease = src.lease
        /\ new.extra = [src.extra EXCEPT !.pending = 0]
    BY <2>1, <2>2, <2>3 DEF Row
  <2>5. QED
    BY <1>2, <1>4, <1>5, <1>7, <2>2, <2>4 DEF top
<1>8. QED
  BY <1>6, <1>7

\* Where the low mark starts; it stays where it is once it is set.
LEMMA StartedRow ==
    ASSUME NEW src \in Row, NEW messages \in SUBSET Ids,
           NEW new, new = StartBackfill(src, messages)
    PROVE  /\ new \in Row
           /\ new.high = src.high /\ new.done = src.done /\ new.extra = src.extra
           /\ new.lease = src.lease
           /\ src.low # 0 => new.low = src.low
           /\ src.low = 0 /\ messages = {} => new.low = src.high
           /\ src.low = 0 /\ messages # {} => /\ new.low \in messages
                                              /\ \A m \in messages : new.low <= m
<1>1. messages \in SUBSET (0..MaxId)
  BY IdsAreIds
<1>2. /\ messages = {} => Least(messages, src.high) = src.high
      /\ messages # {} => Least(messages, src.high) \in messages
      /\ \A m \in messages : Least(messages, src.high) <= m
  BY <1>1, LeastType
<1> DEFINE l == IF src.low = 0 THEN Least(messages, src.high) ELSE src.low
<1>3. l \in 0..MaxId
  BY <1>1, <1>2, RowFields
<1>4. new = [src EXCEPT !.low = l]
  BY DEF StartBackfill
<1>5. /\ src.low # 0 => l = src.low
      /\ src.low = 0 /\ messages = {} => l = src.high
      /\ src.low = 0 /\ messages # {} => l \in messages /\ \A m \in messages : l <= m
  BY <1>2
<1> HIDE DEF l
<1>6. QED
  BY <1>3, <1>4, <1>5 DEF Row

\* A chunk changes the low mark and the end of the history, nothing else.
LEMMA BackfilledRow ==
    ASSUME NEW src \in Row, NEW took \in SUBSET Ids, NEW last \in BOOLEAN,
           NEW new, new = Backfilled(src, took, last)
    PROVE  /\ new \in Row
           /\ new.high = src.high /\ new.extra = src.extra /\ new.lease = src.lease
           /\ new.low = Least(took, src.low)
           /\ new.done = (src.done \/ last)
           /\ src.low # 0 => new.low # 0
<1>1. took \in SUBSET (0..MaxId)
  BY IdsAreIds
<1>2. /\ Least(took, src.low) \in 0..MaxId
      /\ src.low # 0 => Least(took, src.low) # 0
  BY <1>1, LeastType, RowFields, IdsAreIds
<1>3. (src.done \/ last) \in BOOLEAN
  OBVIOUS
<1>4. new = [[src EXCEPT !.low = Least(took, src.low)] EXCEPT !.done = src.done \/ last]
  BY DEF Backfilled, Row
<1>5. QED
  BY <1>2, <1>3, <1>4 DEF Row

\* A commit leaves a row.
LEMMA WrittenRow ==
    ASSUME NEW src \in Row, NEW old \in Row, NEW copy \in Row
    PROVE  WriteBack(src, old, copy) \in Row
BY RowFields DEF WriteBack, Merged, Row

\* A claim changes the lease and the failures, no mark.
LEMMA DecidedRow ==
    ASSUME NEW src \in Row
    PROVE  /\ Decide(src) \in Row
           /\ Decide(src).high = src.high /\ Decide(src).low = src.low
           /\ Decide(src).done = src.done /\ Decide(src).extra = src.extra
           /\ Decide(src).lease = "live"
<1>1. Counted(src.failures) \in 0..MaxFailures
  BY CountedType, RowFields
<1> DEFINE n == IF src.lease = "none" THEN src.failures ELSE Counted(src.failures)
<1>2. n \in 0..MaxFailures
  BY <1>1, RowFields
<1>3. Decide(src) = [[src EXCEPT !.lease = "live"] EXCEPT !.failures = n]
  BY DEF Decide, Row
<1> HIDE DEF n
<1>4. QED
  BY <1>2, <1>3 DEF Row

-----------------------------------------------------------------------------
(* Type correctness                                                        *)

\* The source starts with a row of the table.
LEMMA InitType == Init => TypeOK
<1> SUFFICES ASSUME Init PROVE TypeOK
  OBVIOUS
<1>1. PICK mark \in Started : row = Fresh(mark[1], mark[2], mark[3]) /\ newest \in mark[1]..MaxId
  BY DEF Init
<1>2. mark[1] \in 0..MaxId /\ mark[2] \in 0..MaxId /\ mark[3] \in BOOLEAN
  BY CollectQueueAssumption
<1>3. row \in Row
  <2>1. 0 \in 0..MaxFailures
    BY CollectQueueAssumption
  <2>2. QED
    BY <1>1, <1>2, <2>1, NoMarkType DEF Fresh, Row
<1>4. newest \in 0..MaxId
  BY <1>1, <1>2, WatermarkAssumption
<1>5. docs \subseteq Ids
  BY IdsAreIds DEF Init, Promised
<1>6. Nothing \in Result
  BY DEF Nothing, Result
<1>7. faults \in 0..MaxFaults
  BY CollectQueueAssumption DEF Init
<1>8. QED
  BY <1>3, <1>4, <1>5, <1>6, <1>7, NoMarkType DEF Init, TypeOK, Phase

\* The parts of the state that a worker uses.
LEMMA TypeParts ==
    ASSUME TypeOK, NEW w \in Workers
    PROVE  /\ view[w] \in Row /\ base[w] \in Row /\ row \in Row
           /\ unsaved[w] \in SUBSET Ids /\ docs \subseteq Ids
           /\ result[w].messages \in SUBSET Ids /\ result[w].truncated \in BOOLEAN
           /\ newest \in 0..MaxId /\ faults \in 0..MaxFaults
<1>1. result[w] \in Result
  BY DEF TypeOK
<1>2. result[w].messages \in SUBSET Ids /\ result[w].truncated \in BOOLEAN
  BY <1>1 DEF Result
<1>3. QED
  BY <1>2 DEF TypeOK

\* The count of the faults stays within its bound.
LEMMA FaultType ==
    ASSUME TypeOK, NEW kind, Fault(kind)
    PROVE  faults' \in 0..MaxFaults /\ kind \in Faults
BY CollectQueueAssumption DEF TypeOK, Fault

\* Loading a row into a session.
LEMMA LoadedType ==
    ASSUME TypeOK, NEW w \in Workers, NEW copy \in Row, Loaded(w, copy)
    PROVE  view' \in [Workers -> Row] /\ base' \in [Workers -> Row]
BY DEF TypeOK, Loaded

\* Writing a copy back.
LEMMA StoreType ==
    ASSUME TypeOK, NEW w \in Workers, NEW copy \in Row, Store(w, copy)
    PROVE  row' \in Row /\ docs' \subseteq Ids /\ unsaved' \in [Workers -> SUBSET Ids]
<1>1. row' \in Row
  BY TypeParts, WrittenRow DEF Store
<1>2. QED
  BY <1>1, TypeParts DEF Store, TypeOK

\* A claim keeps the types.
LEMMA ClaimType ==
    ASSUME TypeOK, NEW w \in Workers, Claim(w)
    PROVE  TypeOK'
<1>1. row' \in Row /\ row'.failures \in 0..MaxFailures
  BY TypeParts, DecidedRow, RowFields DEF Claim
<1>2. \A n \in 0..MaxFailures :
        [view[w] EXCEPT !.lease = "live", !.failures = n] \in Row
  BY TypeParts DEF Row
<1>3. PICK copy \in Row : Loaded(w, copy)
  <2>1. CASE phase[w] = "idle"
    BY <1>1, <2>1 DEF Claim
  <2>2. CASE phase[w] # "idle" /\ Loaded(w, view[w])
    BY <2>2, TypeParts
  <2>3. CASE Loaded(w, [view[w] EXCEPT !.lease = "live",
                          !.failures = IF row.lease = "none" THEN @ ELSE row'.failures])
    <3>1. (IF row.lease = "none" THEN view[w].failures ELSE row'.failures) \in 0..MaxFailures
      BY <1>1, TypeParts, RowFields
    <3>2. QED
      BY <1>2, <2>3, <3>1
  <2>4. QED
    BY <2>1, <2>2, <2>3 DEF Claim
<1>4. view' \in [Workers -> Row] /\ base' \in [Workers -> Row]
  BY <1>3, LoadedType
<1>5. phase' \in [Workers -> Phase]
  BY DEF Claim, TypeOK, Phase
<1>6. QED
  BY <1>1, <1>4, <1>5 DEF Claim, TypeOK

\* A fetch keeps the types.
LEMMA FetchType ==
    ASSUME TypeOK, NEW w \in Workers, Fetch(w)
    PROVE  TypeOK'
<1>1. Resumed(view[w], Shown) \in Row
  BY TypeParts, ResumedRow
<1>2. view' \in [Workers -> Row]
  BY <1>1 DEF Fetch, TypeOK
<1>3. unsaved' \in [Workers -> SUBSET Ids]
  BY FetchedIds DEF Fetch, TypeOK
<1>4. [messages |-> Fetched(view[w], Shown), truncated |-> Truncated(view[w], Shown)] \in Result
  BY FetchedIds DEF Result
<1>5. result' \in [Workers -> Result]
  BY <1>4 DEF Fetch, TypeOK
<1>6. phase' \in [Workers -> Phase]
  BY DEF Fetch, TypeOK, Phase
<1>7. QED
  BY <1>2, <1>3, <1>5, <1>6 DEF Fetch, TypeOK

\* A failed fetch keeps the types.
LEMMA FetchFailsType ==
    ASSUME TypeOK, NEW w \in Workers, FetchFails(w)
    PROVE  TypeOK'
<1> DEFINE n == Counted(view[w].failures)
           e == view[w].enabled /\ n < MaxFailures
<1>1. n \in 0..MaxFailures /\ e \in BOOLEAN
  BY TypeParts, RowFields, CountedType
<1>2. view' = [view EXCEPT ![w] = [view[w] EXCEPT !.failures = n, !.enabled = e]]
  BY TypeParts DEF FetchFails, TypeOK, Row
<1> HIDE DEF n, e
<1>3. [view[w] EXCEPT !.failures = n, !.enabled = e] \in Row
  BY <1>1, TypeParts DEF Row
<1>4. view' \in [Workers -> Row]
  BY <1>2, <1>3 DEF TypeOK
<1>5. phase' \in [Workers -> Phase] /\ faults' \in 0..MaxFaults
  BY FaultType DEF FetchFails, TypeOK, Phase
<1>6. QED
  BY <1>4, <1>5 DEF FetchFails, TypeOK

\* The copy after the marks have followed.
Moved(w) ==
    StartBackfill(AdvanceCursor(view[w], result[w].messages, result[w].truncated),
                  result[w].messages)

\* The copy after the advance, with its failures cleared.
LEMMA AdvanceView ==
    ASSUME TypeOK, NEW w \in Workers, Advance(w)
    PROVE  /\ Moved(w) \in Row
           /\ view' = [view EXCEPT ![w] = [Moved(w) EXCEPT !.failures = 0]]
           /\ [Moved(w) EXCEPT !.failures = 0] \in Row
<1>1. AdvanceCursor(view[w], result[w].messages, result[w].truncated) \in Row
  BY TypeParts, AdvancedRow
<1>2. Moved(w) \in Row
  BY <1>1, TypeParts, StartedRow DEF Moved
<1>3. 0 \in 0..MaxFailures
  BY CollectQueueAssumption
<1>4. QED
  BY <1>2, <1>3 DEF Advance, Moved, Row

\* The advance of the marks keeps the types.
LEMMA AdvanceType ==
    ASSUME TypeOK, NEW w \in Workers, Advance(w)
    PROVE  TypeOK'
<1>1. view' \in [Workers -> Row]
  BY AdvanceView DEF TypeOK
<1>2. Nothing \in Result
  BY DEF Nothing, Result
<1>3. phase' \in [Workers -> Phase] /\ result' \in [Workers -> Result]
  BY <1>2 DEF Advance, TypeOK, Phase
<1>4. QED
  BY <1>1, <1>3 DEF Advance, TypeOK

\* A chunk of the backfill keeps the types.
LEMMA ChunkType ==
    ASSUME TypeOK, NEW w \in Workers, NEW pages, NEW last \in BOOLEAN,
           Chunk(w, pages, last), faults' \in 0..MaxFaults
    PROVE  TypeOK'
<1> DEFINE took == Newest(Older(view[w], Shown), pages * PageSize)
<1>1. took \in SUBSET Ids
  BY NewestShown
<1>2. view' = [view EXCEPT ![w] = Backfilled(view[w], took, last)]
  BY DEF Chunk, TypeOK
<1>3. unsaved' = [unsaved EXCEPT ![w] = @ \cup took]
  BY DEF Chunk
<1> HIDE DEF took
<1>4. Backfilled(view[w], took, last) \in Row
  BY <1>1, TypeParts, BackfilledRow
<1>5. view' \in [Workers -> Row] /\ unsaved' \in [Workers -> SUBSET Ids]
  BY <1>1, <1>2, <1>3, <1>4 DEF TypeOK
<1>6. phase' \in [Workers -> Phase]
  BY DEF Chunk, TypeOK, Phase
<1>7. QED
  BY <1>5, <1>6 DEF Chunk, TypeOK

\* A backfill that succeeds or fails keeps the types.
LEMMA BackfillType ==
    ASSUME TypeOK, NEW w \in Workers, Backfill(w) \/ BackfillFails(w)
    PROVE  TypeOK'
<1>1. CASE Backfill(w)
  <2>1. ChunkIsLast(view[w], Shown) \in BOOLEAN
    BY DEF ChunkIsLast
  <2>2. faults' \in 0..MaxFaults
    BY <1>1, TypeParts DEF Backfill
  <2>3. QED
    BY <1>1, <2>1, <2>2, ChunkType DEF Backfill
<1>2. CASE BackfillFails(w)
  BY <1>2, FaultType, ChunkType DEF BackfillFails
<1>3. QED
  BY <1>1, <1>2

\* A commit during the visit keeps the types.
LEMMA SaveType ==
    ASSUME TypeOK, NEW w \in Workers, Save(w)
    PROVE  TypeOK'
<1>1. /\ row' \in Row /\ docs' \subseteq Ids /\ unsaved' \in [Workers -> SUBSET Ids]
      /\ view' \in [Workers -> Row] /\ base' \in [Workers -> Row]
  BY TypeParts, StoreType, LoadedType DEF Save
<1>2. QED
  BY <1>1 DEF Save, TypeOK

\* The commit that ends a visit keeps the types.
LEMMA ReturnType ==
    ASSUME TypeOK, NEW w \in Workers, Return(w)
    PROVE  TypeOK'
<1> DEFINE copy == [view[w] EXCEPT !.lease = "none"]
<1>1. copy \in Row
  BY TypeParts DEF Row
<1>2. /\ Store(w, copy)
      /\ Loaded(w, copy) \/ Loaded(w, NoMark)
  BY DEF Return
<1> HIDE DEF copy
<1>3. /\ row' \in Row /\ docs' \subseteq Ids /\ unsaved' \in [Workers -> SUBSET Ids]
      /\ view' \in [Workers -> Row] /\ base' \in [Workers -> Row]
  BY <1>1, <1>2, StoreType, LoadedType, NoMarkType
<1>4. phase' \in [Workers -> Phase]
  BY DEF Return, TypeOK, Phase
<1>5. QED
  BY <1>3, <1>4 DEF Return, TypeOK

\* A crash or the end of a session keeps the types.
LEMMA DropType ==
    ASSUME TypeOK, NEW w \in Workers, Crash(w) \/ Forget(w)
    PROVE  TypeOK'
<1>1. Drop(w)
  BY DEF Crash, Forget
<1>2. Nothing \in Result
  BY DEF Nothing, Result
<1>3. /\ view' \in [Workers -> Row] /\ base' \in [Workers -> Row]
      /\ phase' \in [Workers -> Phase]
      /\ unsaved' \in [Workers -> SUBSET Ids] /\ result' \in [Workers -> Result]
  BY <1>1, <1>2, NoMarkType, LoadedType DEF Drop, TypeOK, Phase
<1>4. faults' \in 0..MaxFaults
  BY FaultType, TypeParts DEF Crash, Forget
<1>5. QED
  BY <1>1, <1>3, <1>4 DEF Drop, TypeOK

\* The channel, time and the operator keep the types.
LEMMA OutsideType ==
    ASSUME TypeOK, Post \/ Expire \/ Rewind \/ Reset \/ ResetCursor \/ Toggle
    PROVE  TypeOK'
<1>1. row \in Row
  BY DEF TypeOK
<1>2. CASE Post
  BY <1>2, WatermarkAssumption DEF Post, TypeOK
<1>3. CASE Expire
  <2>1. row' \in Row
    BY <1>1, <1>3 DEF Expire, Row
  <2>2. QED
    BY <1>3, <2>1 DEF Expire, TypeOK
<1>4. CASE Rewind
  <2>1. PICK m \in 1..row.high - 1 : row' = [row EXCEPT !.high = m]
    BY <1>4 DEF Rewind
  <2>2. m \in 0..MaxId
    <3>1. row.high \in 0..MaxId
      BY <1>1, RowFields
    <3>2. QED
      BY <3>1, WatermarkAssumption
  <2>3. row' \in Row
    BY <1>1, <2>1, <2>2 DEF Row
  <2>4. QED
    BY <1>4, <2>3, FaultType DEF Rewind, TypeOK
<1>5. CASE Reset \/ ResetCursor
  <2>1. row' = [NoMark EXCEPT !.enabled = row.enabled]
    BY <1>5 DEF Reset, ResetCursor, ResetMarks
  <2>2. row.enabled \in BOOLEAN
    BY <1>1, RowFields
  <2>3. row' \in Row
    BY <2>1, <2>2, NoMarkType DEF Row
  <2>4. faults' \in 0..MaxFaults
    BY <1>5, FaultType DEF Reset, ResetCursor, ResetMarks
  <2>5. QED
    BY <1>5, <2>3, <2>4 DEF Reset, ResetCursor, ResetMarks, TypeOK
<1>6. CASE Toggle
  <2>1. row' = [row EXCEPT !.enabled = ~row.enabled]
    BY <1>6 DEF Toggle
  <2>2. row' \in Row
    BY <1>1, <2>1 DEF Row
  <2>3. faults' \in 0..MaxFaults
    BY <1>6, FaultType DEF Toggle, TypeOK
  <2>4. QED
    BY <1>6, <2>2, <2>3 DEF Toggle, TypeOK
<1>7. QED
  BY <1>2, <1>3, <1>4, <1>5, <1>6

\* Every step keeps the types.
LEMMA TypeStep == TypeOK /\ [Next]_vars => TypeOK'
<1> SUFFICES ASSUME TypeOK, [Next]_vars PROVE TypeOK'
  OBVIOUS
<1>1. ASSUME NEW w \in Workers,
             \/ Work(w) \/ Save(w) \/ Forget(w)
             \/ FetchFails(w) \/ BackfillFails(w) \/ Crash(w)
      PROVE  TypeOK'
  BY <1>1, ClaimType, FetchType, FetchFailsType, AdvanceType, BackfillType, SaveType,
     ReturnType, DropType DEF Work
<1>2. CASE UNCHANGED vars
  BY <1>2 DEF vars, TypeOK
<1>3. QED
  BY <1>1, <1>2, OutsideType DEF Next

\* Every row and every copy has the values its columns may hold, for any number
\* of workers and messages and any size of the pages.
THEOREM CollectTypes == Spec => []TypeOK
<1>1. QED
  BY InitType, TypeStep, PTL DEF Spec

-----------------------------------------------------------------------------
(* The marks tell the truth                                                *)

\* One collector at a time: leases outlast the work, and a session that claims a
\* source loads it.
Exclusive == "overrun" \notin Faults /\ "kept" \notin Faults

\* A row, or a copy of it, is sound when what it says has been read is in D, a
\* catch-up in progress is covered, and the marks were set together.
Sound(src, D) ==
    /\ \A m \in Ids : /\ m <= src.high
                      /\ src.done \/ (src.low # 0 /\ src.low <= m)
                      => m \in D
    /\ src.extra.before # 0 /\ src.extra.pending # 0 =>
         \A m \in Ids : src.extra.before <= m /\ m <= src.extra.pending => m \in D
    /\ src.high = 0 => src.low = 0 /\ src.extra.pending = 0 /\ src.extra.before = 0
    /\ src.low = 0 => /\ ~src.done /\ src.extra.pending = 0
                      /\ src.high \in Ids => src.high \in D

\* Nothing is counted on that was not posted yet.
Known(src, n) == src.high <= n /\ src.extra.pending <= n

\* Between the fetch and the advance of the marks: everything up to the highest
\* message is in D from the resume point on, or from the high mark on.
Ready(src, messages, cut, D, n) ==
    LET highest == MaxOr0(messages \cup {src.extra.pending}) IN
    /\ \A m \in messages : src.high < m /\ m <= n
    /\ cut => /\ src.high # 0 /\ messages # {} /\ src.extra.before # 0
              /\ \A m \in Ids : src.extra.before <= m /\ m <= highest => m \in D
    /\ ~cut => \A m \in Ids : /\ src.high < m /\ m <= highest
                              /\ src.high = 0 => \E k \in messages : k <= m
                              => m \in D

\* The row r is as the one collector loaded or wrote it (b), but for the
\* operator's edits, and its copy v has gone on from there.
Follows(r, b, v) ==
    /\ r.low = b.low /\ r.done = b.done /\ r.extra = b.extra
    /\ r.high <= b.high
    /\ r.high = 0 => b.high = 0
    /\ r.low = 0 => r.high = b.high
    /\ v.low = 0 => b.low = 0
    /\ r.lease = "live" /\ b.lease = "live" /\ v.lease = "live"

Stored(w) == docs \cup unsaved[w]

Visit(w) ==
    /\ Follows(row, base[w], view[w])
    /\ Sound(view[w], Stored(w))
    /\ Known(view[w], newest)
    /\ phase[w] = "fetched" =>
         Ready(view[w], result[w].messages, result[w].truncated, Stored(w), newest)
    /\ phase[w] \in {"advanced", "filling"} => view[w].low # 0

\* Nothing is ingested outside a visit.
Quiet(w) ==
    /\ phase[w] # "kept"
    /\ phase[w] \in {"idle", "claimed"} => unsaved[w] = {}

CollectInv ==
    /\ OneCollector
    /\ \A w \in Workers : Quiet(w)
    /\ Sound(row, docs)
    /\ Known(row, newest)
    /\ \A w \in Workers : Active(w) => Visit(w)

\* What was read stays read.
LEMMA SoundGrows ==
    ASSUME NEW src, NEW D, NEW E, D \subseteq E, Sound(src, D)
    PROVE  Sound(src, E)
BY DEF Sound

\* Columns that are not marks play no part.
LEMMA SoundAlike ==
    ASSUME NEW src, NEW new, NEW D, Sound(src, D),
           new.high = src.high, new.low = src.low, new.done = src.done,
           new.extra.pending = src.extra.pending, new.extra.before = src.extra.before
    PROVE  Sound(new, D)
BY DEF Sound

\* A catch-up in progress is covered from where it resumes to where it ends.
Joined(src, D) ==
    src.extra.before # 0 /\ src.extra.pending # 0 =>
      \A m \in Ids : src.extra.before <= m /\ m <= src.extra.pending => m \in D

\* A message the fetch did not look at, at or above its resume point, was read by
\* the catch-up in progress.
LEMMA Behind ==
    ASSUME NEW src \in Row, NEW D, Joined(src, D), newest \in 0..MaxId,
           NEW highest, highest = MaxOr0(Fetched(src, Shown) \cup {src.extra.pending}),
           NEW m \in Ids, m <= newest, m \notin From(src, Shown), m <= highest
    PROVE  m \in D
<1>1. m \in Shown
  BY DEF Shown
<1>2. src.extra.before # 0 /\ ~(m < src.extra.before)
  BY <1>1 DEF From
<1>3. src.extra.before \in 0..MaxId /\ src.extra.pending \in 0..MaxId /\ m \in 1..MaxId
  BY RowFields, IdsAreIds
<1>4. Fetched(src, Shown) \cup {src.extra.pending} \in SUBSET (0..MaxId)
  BY <1>3, FetchedIds, IdsAreIds
<1>5. highest \in Fetched(src, Shown) \cup {src.extra.pending, 0}
  BY <1>4, MaxOr0Type
<1>6. highest \notin Fetched(src, Shown)
  <2>1. SUFFICES ASSUME highest \in Fetched(src, Shown) PROVE FALSE
    OBVIOUS
  <2>2. highest \in From(src, Shown)
    BY <2>1, IdsAreIds, FetchedType
  <2>3. highest < src.extra.before /\ highest \in 0..MaxId
    BY <1>2, <2>2, IdsAreIds DEF From
  <2>4. QED
    BY <1>2, <1>3, <2>3
<1>7. highest = src.extra.pending /\ src.extra.pending # 0
  BY <1>3, <1>5, <1>6
<1>8. src.extra.before <= m /\ m <= src.extra.pending
  BY <1>2, <1>3, <1>7
<1>9. QED
  BY <1>2, <1>7, <1>8 DEF Joined

\* A fetch leaves the catch-up covered and its messages ready for the advance.
LEMMA FetchReady ==
    ASSUME NEW src \in Row, NEW D, Joined(src, D), Known(src, newest), newest \in 0..MaxId,
           NEW messages, messages = Fetched(src, Shown),
           NEW cut, cut = Truncated(src, Shown),
           NEW new, new = Resumed(src, Shown)
    PROVE  /\ Joined(new, D \cup messages) /\ Known(new, newest)
           /\ Ready(new, messages, cut, D \cup messages, newest)
<1> DEFINE highest == MaxOr0(messages \cup {src.extra.pending})
<1>1. /\ new.high = src.high /\ new.low = src.low /\ new.done = src.done
      /\ new.extra.pending = src.extra.pending
      /\ new.extra.before = IF cut THEN Min(Reach(src, Shown)) ELSE 0
  BY ResumedRow
<1>2. /\ src.high \in 0..MaxId /\ src.extra.pending \in 0..MaxId
      /\ src.extra.before \in 0..MaxId
  BY RowFields
<1>3. /\ Shown \in SUBSET (0..MaxId) /\ messages \subseteq Ids
      /\ \A m \in Ids : m \in 1..MaxId
  BY IdsAreIds, FetchedIds
<1>4. \A m \in messages : src.high < m /\ m <= newest
  <2>1. \A m \in messages : m \in Shown /\ m > src.high
    BY <1>3, FetchedIds, FetchedType
  <2>2. QED
    BY <1>2, <1>3, <2>1 DEF Shown
<1>5. /\ highest \in 0..MaxId /\ highest <= newest
      /\ \A m \in messages \cup {src.extra.pending} : m <= highest
  <2>1. messages \cup {src.extra.pending} \in SUBSET (0..MaxId)
    BY <1>2, <1>3, IdsAreIds
  <2>2. highest \in messages \cup {src.extra.pending, 0}
    BY <2>1, MaxOr0Type
  <2>3. QED
    BY <1>4, <2>1, <2>2, MaxOr0Type DEF Known
<1>6. ASSUME NEW m \in Ids, m <= highest, m \notin From(src, Shown)
      PROVE  m \in D
  <2>1. m <= newest
    BY <1>3, <1>5, <1>6
  <2>2. QED
    BY <1>6, <2>1, Behind
<1>7. CASE cut
  <2>1. /\ src.high # 0 /\ messages # {}
        /\ new.extra.before \in messages
        /\ \A m \in From(src, Shown) : m >= new.extra.before => m \in messages
    BY <1>1, <1>2, <1>3, <1>7, CutOff
  <2>2. new.extra.before # 0 /\ new.extra.before \in 1..MaxId
    BY <1>3, <2>1, IdsAreIds
  <2>3. ASSUME NEW m \in Ids, new.extra.before <= m, m <= highest
        PROVE  m \in D \cup messages
    <3>1. m >= new.extra.before
      BY <1>3, <2>2, <2>3
    <3>2. QED
      BY <1>6, <2>1, <2>3, <3>1
  <2>4. ASSUME NEW m \in Ids, m <= src.extra.pending
        PROVE  m <= highest
    BY <1>2, <1>3, <1>5, <2>4
  <2>5. Joined(new, D \cup messages)
    BY <1>1, <2>3, <2>4 DEF Joined
  <2>6. Ready(new, messages, cut, D \cup messages, newest)
    BY <1>1, <1>4, <1>7, <2>1, <2>2, <2>3 DEF Ready
  <2>7. QED
    BY <1>1, <2>5, <2>6 DEF Known
<1>8. CASE ~cut
  <2>1. Joined(new, D \cup messages)
    BY <1>1, <1>8 DEF Joined
  <2>2. ASSUME NEW m \in Ids, src.high < m, m <= highest,
               src.high = 0 => \E k \in messages : k <= m
        PROVE  m \in D \cup messages
    <3>1. m > src.high
      BY <1>2, <1>3, <2>2
    <3>2. CASE m \notin From(src, Shown)
      BY <1>6, <2>2, <3>2
    <3>3. CASE m \in From(src, Shown) /\ src.high # 0
      BY <1>2, <1>3, <1>8, <3>1, <3>3, Complete
    <3>4. CASE m \in From(src, Shown) /\ src.high = 0
      <4>1. PICK k \in messages : k <= m
        BY <2>2, <3>4
      <4>2. m >= k
        BY <1>3, <4>1
      <4>3. QED
        BY <1>2, <1>3, <3>4, <4>2, FetchedUp
    <3>5. QED
      BY <3>2, <3>3, <3>4
  <2>3. Ready(new, messages, cut, D \cup messages, newest)
    BY <1>1, <1>4, <1>8, <2>2 DEF Ready
  <2>4. QED
    BY <1>1, <2>1, <2>3 DEF Known
<1>9. QED
  BY <1>7, <1>8

\* What is more, it leaves a sound copy sound.
LEMMA FetchSound ==
    ASSUME NEW src \in Row, NEW D, Sound(src, D), Known(src, newest), newest \in 0..MaxId,
           NEW messages, messages = Fetched(src, Shown),
           NEW cut, cut = Truncated(src, Shown),
           NEW new, new = Resumed(src, Shown)
    PROVE  /\ Sound(new, D \cup messages) /\ Known(new, newest)
           /\ Ready(new, messages, cut, D \cup messages, newest)
<1>1. /\ new.high = src.high /\ new.low = src.low /\ new.done = src.done
      /\ new.extra.pending = src.extra.pending
      /\ ~cut => new.extra.before = 0
  BY ResumedRow
<1>2. cut => src.high # 0
  BY DEF Truncated
<1>3. Joined(src, D)
  BY DEF Sound, Joined
<1>4. /\ Joined(new, D \cup messages) /\ Known(new, newest)
      /\ Ready(new, messages, cut, D \cup messages, newest)
  BY <1>3, FetchReady
<1>5. Sound(new, D \cup messages)
  BY <1>1, <1>2, <1>4 DEF Sound, Joined
<1>6. QED
  BY <1>4, <1>5

\* The advance of the marks keeps the copy sound, and sets a low mark unless
\* there is no high one.
LEMMA AdvanceSound ==
    ASSUME NEW src \in Row, NEW D, Sound(src, D), Known(src, newest), newest \in 0..MaxId,
           NEW messages \in SUBSET Ids, NEW cut \in BOOLEAN,
           Ready(src, messages, cut, D, newest),
           NEW new, new = StartBackfill(AdvanceCursor(src, messages, cut), messages)
    PROVE  /\ new \in Row /\ Sound(new, D) /\ Known(new, newest)
           /\ new.low = 0 => src.low = 0
           /\ new.lease = src.lease
<1> DEFINE highest == MaxOr0(messages \cup {src.extra.pending})
           moved == AdvanceCursor(src, messages, cut)
<1>1. /\ moved \in Row /\ highest \in 0..MaxId
      /\ moved.low = src.low /\ moved.done = src.done /\ moved.lease = src.lease
      /\ moved.extra.before = src.extra.before
      /\ cut => moved.high = src.high /\ moved.extra.pending = highest
      /\ ~cut => /\ moved.extra.pending = 0
                 /\ moved.high \in {src.high, highest}
                 /\ src.high <= moved.high /\ highest <= moved.high
  BY AdvancedRow
<1> HIDE DEF moved
<1>2. /\ new \in Row
      /\ new.high = moved.high /\ new.done = moved.done /\ new.extra = moved.extra
      /\ new.lease = moved.lease
      /\ moved.low # 0 => new.low = moved.low
      /\ moved.low = 0 /\ messages = {} => new.low = moved.high
      /\ moved.low = 0 /\ messages # {} => /\ new.low \in messages
                                           /\ \A m \in messages : new.low <= m
  <2>1. new = StartBackfill(moved, messages)
    BY DEF moved
  <2>2. QED
    BY <1>1, <2>1, StartedRow
<1>3. /\ src.high \in 0..MaxId /\ src.extra.pending \in 0..MaxId /\ src.low \in 0..MaxId
      /\ new.high \in 0..MaxId /\ new.low \in 0..MaxId
      /\ \A m \in Ids : m \in 1..MaxId
  BY <1>2, RowFields, IdsAreIds
<1>4. /\ \A m \in messages : src.high < m /\ m <= newest /\ m <= highest
      /\ highest \in messages \cup {src.extra.pending, 0}
      /\ highest <= newest
  <2>1. messages \cup {src.extra.pending} \in SUBSET (0..MaxId)
    BY <1>3, IdsAreIds
  <2>2. \A m \in messages : src.high < m /\ m <= newest
    BY DEF Ready
  <2>3. QED
    BY <2>1, <2>2, MaxOr0Type DEF Known
<1>5. Known(new, newest)
  BY <1>1, <1>2, <1>4 DEF Known
<1>6. /\ new.low = 0 => src.low = 0 /\ messages = {}
      /\ new.low = 0 => new.high = 0
  <2>1. src.low = 0 /\ messages # {} => new.low # 0
    BY <1>1, <1>2, <1>3
  <2>2. QED
    BY <1>1, <1>2, <2>1
<1> HIDE DEF highest
<1>7. CASE cut
  <2>1. /\ src.high # 0 /\ messages # {}
        /\ \A m \in Ids : src.extra.before <= m /\ m <= highest => m \in D
    BY <1>7 DEF Ready, highest
  <2>2. ASSUME NEW m \in Ids, m <= new.high,
               new.done \/ (new.low # 0 /\ new.low <= m)
        PROVE  m \in D
    <3>1. CASE src.low # 0
      BY <1>1, <1>2, <1>7, <2>2, <3>1 DEF Sound
    <3>2. CASE src.low = 0
      <4>1. ~new.done /\ new.low \in messages
        BY <1>1, <1>2, <2>1, <3>2 DEF Sound
      <4>2. src.high < new.low /\ m <= src.high /\ new.low <= m
        BY <1>1, <1>2, <1>4, <1>7, <2>2, <4>1
      <4>3. QED
        BY <1>3, <4>2
    <3>3. QED
      BY <3>1, <3>2
  <2>3. new.low # 0 /\ new.high # 0
    BY <1>1, <1>2, <1>6, <1>7, <2>1
  <2>4. Sound(new, D)
    BY <1>1, <1>2, <1>7, <2>1, <2>2, <2>3 DEF Sound
  <2>5. QED
    BY <1>1, <1>2, <1>5, <1>6, <2>4
<1>8. CASE ~cut
  <2>1. ASSUME NEW m \in Ids, src.high < m, m <= highest,
               src.high = 0 => \E k \in messages : k <= m
        PROVE  m \in D
    BY <1>8, <2>1 DEF Ready, highest
  <2>2. ASSUME NEW m \in Ids, m <= new.high,
               new.done \/ (new.low # 0 /\ new.low <= m)
        PROVE  m \in D
    <3>1. CASE m <= src.high /\ src.low # 0
      BY <1>1, <1>2, <2>2, <3>1 DEF Sound
    <3>2. CASE m <= src.high /\ src.low = 0
      <4>1. ~src.done /\ src.extra.pending = 0 /\ (src.high \in Ids => src.high \in D)
        BY <3>2 DEF Sound
      <4>2. messages = {}
        <5>1. SUFFICES ASSUME messages # {} PROVE FALSE
          OBVIOUS
        <5>2. new.low \in messages /\ new.low <= m
          BY <1>1, <1>2, <2>2, <3>2, <4>1, <5>1
        <5>3. QED
          BY <1>3, <1>4, <3>2, <5>2
      <4>3. highest = 0 /\ new.high = src.high
        BY <1>1, <1>2, <1>3, <1>4, <1>8, <4>1, <4>2
      <4>4. new.low = src.high /\ new.low <= m
        BY <1>1, <1>2, <2>2, <3>2, <4>1, <4>2, <4>3
      <4>5. m = src.high
        BY <1>3, <3>2, <4>4
      <4>6. QED
        BY <4>1, <4>5
    <3>3. CASE src.high < m
      <4>1. m <= highest
        BY <1>1, <1>2, <1>3, <1>8, <2>2, <3>3
      <4>2. src.high = 0 => \E k \in messages : k <= m
        <5>1. SUFFICES ASSUME src.high = 0 PROVE \E k \in messages : k <= m
          OBVIOUS
        <5>2. src.low = 0 /\ ~src.done /\ src.extra.pending = 0
          BY <5>1 DEF Sound
        <5>3. messages # {}
          BY <1>3, <1>4, <4>1, <5>2
        <5>4. new.low \in messages /\ new.low <= m
          BY <1>1, <1>2, <2>2, <5>2, <5>3
        <5>5. QED
          BY <5>4
      <4>3. QED
        BY <2>1, <3>3, <4>1, <4>2
    <3>4. QED
      BY <1>3, <3>1, <3>2, <3>3
  <2>3. new.high = 0 => new.low = 0 /\ new.extra.pending = 0 /\ new.extra.before = 0
    <3>1. SUFFICES ASSUME new.high = 0
                   PROVE  new.low = 0 /\ new.extra.pending = 0 /\ new.extra.before = 0
      OBVIOUS
    <3>2. src.high = 0 /\ highest = 0
      BY <1>1, <1>2, <1>3, <1>8, <3>1
    <3>3. messages = {}
      BY <1>3, <1>4, <3>2
    <3>4. src.low = 0 /\ src.extra.before = 0
      BY <3>2 DEF Sound
    <3>5. QED
      BY <1>1, <1>2, <1>8, <3>1, <3>3, <3>4
  <2>4. new.low = 0 => ~new.done /\ new.extra.pending = 0 /\ new.high \notin Ids
    <3>1. 0 \notin Ids
      BY <1>3
    <3>2. QED
      BY <1>1, <1>2, <1>6, <1>8, <3>1 DEF Sound
  <2>5. Sound(new, D)
    BY <1>1, <1>2, <1>8, <2>2, <2>3, <2>4 DEF Sound
  <2>6. QED
    BY <1>1, <1>2, <1>5, <1>6, <2>5
<1>9. QED
  BY <1>7, <1>8

\* A chunk of the backfill takes the low mark down over what it has read.
LEMMA ChunkSound ==
    ASSUME NEW src \in Row, NEW D, Sound(src, D), src.low # 0,
           Known(src, newest), newest \in 0..MaxId,
           NEW n \in Nat, NEW took, took = Newest(Older(src, Shown), n),
           NEW last \in BOOLEAN, last => took = Older(src, Shown),
           NEW new, new = Backfilled(src, took, last)
    PROVE  /\ new \in Row /\ Sound(new, D \cup took) /\ Known(new, newest)
           /\ new.low # 0 /\ new.lease = src.lease
<1>1. /\ took \in SUBSET Ids /\ Shown \in SUBSET (0..MaxId)
      /\ \A m \in Ids : m \in 1..MaxId
  BY NewestShown, IdsAreIds
<1>2. /\ new \in Row
      /\ new.high = src.high /\ new.extra = src.extra /\ new.lease = src.lease
      /\ new.low = Least(took, src.low)
      /\ new.done = (src.done \/ last)
      /\ new.low # 0
  BY <1>1, BackfilledRow
<1>3. src.low \in 0..MaxId /\ src.high \in 0..MaxId /\ new.low \in 0..MaxId
  BY <1>2, RowFields
<1>4. ASSUME NEW m \in Ids, m <= src.high, new.done \/ new.low <= m
      PROVE  m \in D \cup took
  <2>1. CASE src.done \/ src.low <= m
    BY <1>4, <2>1 DEF Sound
  <2>2. CASE ~src.done /\ ~(src.low <= m)
    <3>1. m \in Older(src, Shown)
      BY <1>1, <1>3, <1>4, <2>2 DEF Older, Shown, Known
    <3>2. CASE last
      BY <3>1, <3>2
    <3>3. CASE ~last
      <4>1. m >= Least(Newest(Older(src, Shown), n), src.low)
        BY <1>1, <1>2, <1>3, <1>4, <2>2, <3>3
      <4>2. QED
        BY <1>1, <1>3, <3>1, <4>1, ChunkDown
    <3>4. QED
      BY <3>2, <3>3
  <2>3. QED
    BY <2>1, <2>2
<1>5. src.high # 0
  BY DEF Sound
<1>6. Sound(new, D \cup took)
  BY <1>2, <1>4, <1>5 DEF Sound
<1>7. QED
  BY <1>2, <1>6 DEF Known

\* What a commit makes of the row, from the copy and what the copy was loaded as.
LEMMA WriteSound ==
    ASSUME NEW r \in Row, NEW b \in Row, NEW v \in Row, NEW D,
           Follows(r, b, v), Sound(v, D), NEW n \in 0..MaxId, Known(v, n),
           NEW copy \in Row, copy.high = v.high, copy.low = v.low, copy.done = v.done,
           copy.extra = v.extra,
           NEW new, new = WriteBack(r, b, copy)
    PROVE  /\ Sound(new, D) /\ Known(new, n)
           /\ copy.lease = "live" => Follows(new, v, v)
<1>1. /\ new.low = v.low /\ new.done = v.done /\ new.extra = v.extra
      /\ new.high = IF v.high = b.high THEN r.high ELSE v.high
      /\ copy.lease = "live" => new.lease = "live"
  BY DEF WriteBack, Merged, Follows
<1>2. /\ r.high \in 0..MaxId /\ b.high \in 0..MaxId /\ v.high \in 0..MaxId
      /\ \A m \in Ids : m \in 1..MaxId
  BY RowFields, IdsAreIds
<1>3. /\ new.high \in 0..MaxId /\ new.high <= v.high
      /\ new.high = 0 => v.high = 0
      /\ new.low = 0 => new.high = v.high
  BY <1>1, <1>2 DEF Follows
<1>4. Known(new, n)
  BY <1>1, <1>2, <1>3 DEF Known
<1>5. \A m \in Ids : m <= new.high => m <= v.high
  BY <1>2, <1>3
<1>6. Sound(new, D)
  BY <1>1, <1>3, <1>5 DEF Sound
<1>7. copy.lease = "live" => Follows(new, v, v)
  BY <1>1, <1>3 DEF Follows
<1>8. QED
  BY <1>4, <1>6, <1>7

-----------------------------------------------------------------------------
(* The marks tell the truth in every step                                  *)

\* The marks a source starts with tell the truth.
LEMMA MarksInit == Init => CollectInv
<1> SUFFICES ASSUME Init PROVE CollectInv
  OBVIOUS
<1>1. PICK mark \in Started : row = Fresh(mark[1], mark[2], mark[3]) /\ newest \in mark[1]..MaxId
  BY DEF Init
<1>2. /\ mark[1] \in 0..MaxId /\ mark[2] \in 0..MaxId /\ mark[3] \in BOOLEAN
      /\ mark[2] # 0 => mark[1] # 0
      /\ mark[3] => mark[2] # 0
  BY CollectQueueAssumption
<1>3. /\ row.high = mark[1] /\ row.low = mark[2] /\ row.done = mark[3]
      /\ row.extra.pending = 0 /\ row.extra.before = 0
  BY <1>1 DEF Fresh, NoExtra
<1>4. row.high <= newest /\ 0 <= newest /\ newest \in 0..MaxId
  BY <1>1, <1>2, <1>3, WatermarkAssumption
<1>5. \A m \in Ids : m <= row.high => m \in Shown
  BY <1>2, <1>3, <1>4, IdsAreIds DEF Shown
<1>6. docs = Promised(row) \cup {m \in Shown : m = row.high}
  BY DEF Init
<1>7. Sound(row, docs)
  <2>1. \A m \in Ids : m <= row.high /\ (row.done \/ (row.low # 0 /\ row.low <= m)) => m \in docs
    BY <1>5, <1>6 DEF Promised
  <2>2. row.high \in Ids => row.high \in docs
    <3>1. \A m \in Ids : m = row.high => m <= row.high
      BY IdsAreIds
    <3>2. QED
      BY <1>5, <1>6, <3>1
  <2>3. QED
    BY <1>2, <1>3, <2>1, <2>2 DEF Sound
<1>8. \A w \in Workers : ~Active(w) /\ Quiet(w)
  BY DEF Init, Active, Quiet
<1>9. QED
  BY <1>3, <1>4, <1>7, <1>8 DEF CollectInv, Known, OneCollector

\* Nobody is at a source that may be claimed, and nobody else at one that is
\* being collected.
LEMMA OthersAway ==
    ASSUME CollectInv, NEW w \in Workers, Active(w) \/ Claimable,
           NEW v \in Workers, v # w
    PROVE  ~Active(v) /\ phase[v] = "idle"
<1>1. Active(v) => row.lease = "live"
  BY DEF CollectInv, Visit, Follows
<1>2. ~Active(v)
  BY <1>1 DEF CollectInv, OneCollector, Claimable
<1>3. QED
  BY <1>2 DEF CollectInv, Quiet, Active

\* A step of w when the others are away: w's own visit is all there is to show.
LEMMA Alone ==
    ASSUME TypeOK, CollectInv, NEW w \in Workers, Active(w) \/ Claimable,
           NEW p, phase' = [phase EXCEPT ![w] = p],
           \A v \in Workers : v # w => unsaved'[v] = unsaved[v],
           Quiet(w)',
           Sound(row', docs'), Known(row', newest'), Active(w)' => Visit(w)'
    PROVE  CollectInv'
<1>1. \A v \in Workers : v # w => phase[v] = "idle" /\ Quiet(v) /\ phase'[v] = phase[v]
  BY OthersAway DEF TypeOK, CollectInv
<1>2. \A v \in Workers : v # w => ~Active(v)' /\ Quiet(v)'
  BY <1>1 DEF Active, Quiet
<1>3. OneCollector'
  BY <1>2 DEF OneCollector
<1>4. QED
  BY <1>2, <1>3 DEF CollectInv

\* A claim loads the row as it is.
LEMMA MarksClaim ==
    ASSUME TypeOK, CollectInv, NEW w \in Workers, Claim(w)
    PROVE  CollectInv'
<1>1. /\ row' = Decide(row) /\ docs' = docs /\ newest' = newest /\ unsaved' = unsaved
      /\ phase' = [phase EXCEPT ![w] = "claimed"]
      /\ Claimable
  BY DEF Claim
<1>2. /\ row'.high = row.high /\ row'.low = row.low /\ row'.done = row.done
      /\ row'.extra = row.extra /\ row'.lease = "live"
  BY <1>1, TypeParts, DecidedRow
<1>3. phase[w] = "idle" /\ unsaved[w] = {}
  BY DEF Claim, CollectInv, Active, Quiet
<1>4. view'[w] = row' /\ base'[w] = row'
  BY <1>3 DEF Claim, Loaded, TypeOK
<1>5. Sound(row', docs') /\ Known(row', newest')
  BY <1>1, <1>2, SoundAlike DEF CollectInv, Known
<1>6. Follows(row', base'[w], view'[w])
  <2>1. row'.high <= row'.high
    BY <1>2, TypeParts, RowFields
  <2>2. QED
    BY <1>2, <1>4, <2>1 DEF Follows
<1>7. Sound(view'[w], docs' \cup unsaved'[w])
  BY <1>4, <1>5, SoundGrows
<1>8. phase'[w] = "claimed"
  BY <1>1 DEF TypeOK
<1>9. Visit(w)' /\ Quiet(w)'
  BY <1>1, <1>3, <1>4, <1>5, <1>6, <1>7, <1>8 DEF Visit, Stored, Quiet
<1>10. QED
  BY <1>1, <1>5, <1>9, Alone

\* A fetch of w leaves its copy sound and ready for the advance.
LEMMA MarksFetch ==
    ASSUME TypeOK, CollectInv, NEW w \in Workers, Fetch(w)
    PROVE  CollectInv'
<1> DEFINE messages == Fetched(view[w], Shown)
           cut == Truncated(view[w], Shown)
           new == Resumed(view[w], Shown)
<1>1. /\ row' = row /\ docs' = docs /\ newest' = newest /\ base' = base
      /\ phase[w] = "claimed" /\ phase' = [phase EXCEPT ![w] = "fetched"]
      /\ phase'[w] = "fetched"
  BY DEF Fetch, TypeOK
<1>2. /\ view'[w] = new /\ unsaved'[w] = messages
      /\ \A v \in Workers : v # w => unsaved'[v] = unsaved[v]
      /\ result'[w].messages = messages /\ result'[w].truncated = cut
  BY DEF Fetch, TypeOK
<1>3. Active(w) /\ Visit(w) /\ unsaved[w] = {}
  BY <1>1 DEF Active, CollectInv, Quiet
<1>4. Sound(view[w], docs) /\ Known(view[w], newest)
  BY <1>3 DEF Visit, Stored
<1>5. view[w] \in Row /\ newest \in 0..MaxId
  BY TypeParts
<1>6. /\ Sound(new, docs \cup messages) /\ Known(new, newest)
      /\ Ready(new, messages, cut, docs \cup messages, newest)
  BY <1>4, <1>5, FetchSound
<1>7. new.low = view[w].low /\ new.lease = view[w].lease
  BY <1>5, ResumedRow
<1> HIDE DEF messages, cut, new
<1>8. Visit(w)' /\ Quiet(w)'
  BY <1>1, <1>2, <1>3, <1>6, <1>7 DEF Visit, Stored, Quiet, Follows
<1>9. Sound(row', docs') /\ Known(row', newest')
  BY <1>1 DEF CollectInv
<1>10. QED
  BY <1>1, <1>2, <1>3, <1>8, <1>9, Alone

\* A failed fetch moves no mark.
LEMMA MarksFetchFails ==
    ASSUME TypeOK, CollectInv, NEW w \in Workers, FetchFails(w)
    PROVE  CollectInv'
<1>1. /\ row' = row /\ docs' = docs /\ newest' = newest /\ base' = base
      /\ unsaved' = unsaved
      /\ phase[w] = "claimed" /\ phase' = [phase EXCEPT ![w] = "settled"]
      /\ phase'[w] = "settled"
  BY DEF FetchFails, TypeOK
<1>2. /\ view'[w].high = view[w].high /\ view'[w].low = view[w].low
      /\ view'[w].done = view[w].done /\ view'[w].extra = view[w].extra
      /\ view'[w].lease = view[w].lease
  BY TypeParts DEF FetchFails, TypeOK, Row
<1>3. Active(w) /\ Visit(w)
  BY <1>1 DEF Active, CollectInv
<1>4. Sound(view'[w], Stored(w)')
  BY <1>1, <1>2, <1>3, SoundAlike DEF Visit, Stored
<1>5. Visit(w)' /\ Quiet(w)'
  BY <1>1, <1>2, <1>3, <1>4 DEF Visit, Quiet, Follows, Known
<1>6. Sound(row', docs') /\ Known(row', newest')
  BY <1>1 DEF CollectInv
<1>7. QED
  BY <1>1, <1>3, <1>5, <1>6, Alone

\* The advance of the marks by w.
LEMMA MarksAdvance ==
    ASSUME TypeOK, CollectInv, NEW w \in Workers, Advance(w)
    PROVE  CollectInv'
<1> DEFINE new == Moved(w)
<1>1. /\ row' = row /\ docs' = docs /\ newest' = newest /\ base' = base
      /\ unsaved' = unsaved /\ phase[w] = "fetched"
  BY DEF Advance
<1>2. PICK p \in {"settled", "advanced"} :
        /\ phase' = [phase EXCEPT ![w] = p]
        /\ p = "advanced" => new.low # 0
  BY DEF Advance, Moved
<1>3. phase'[w] = p
  BY <1>2 DEF TypeOK
<1>4. new \in Row /\ view'[w] = [new EXCEPT !.failures = 0]
  BY AdvanceView DEF TypeOK
<1>5. Active(w) /\ Visit(w)
  BY <1>1 DEF Active, CollectInv
<1>6. /\ Sound(view[w], Stored(w)) /\ Known(view[w], newest)
      /\ Ready(view[w], result[w].messages, result[w].truncated, Stored(w), newest)
  BY <1>1, <1>5 DEF Visit
<1>7. /\ Sound(new, Stored(w)) /\ Known(new, newest)
      /\ new.low = 0 => view[w].low = 0
      /\ new.lease = view[w].lease
  BY <1>6, TypeParts, AdvanceSound DEF Moved
<1> HIDE DEF new
<1>8. /\ view'[w].high = new.high /\ view'[w].low = new.low /\ view'[w].done = new.done
      /\ view'[w].extra = new.extra /\ view'[w].lease = new.lease
  BY <1>4 DEF Row
<1>9. Sound(view'[w], Stored(w)')
  BY <1>1, <1>7, <1>8, SoundAlike DEF Stored
<1>10. Visit(w)' /\ Quiet(w)'
  <2>1. Follows(row', base'[w], view'[w])
    BY <1>1, <1>5, <1>7, <1>8 DEF Visit, Follows
  <2>2. QED
    BY <1>1, <1>2, <1>3, <1>7, <1>8, <1>9, <2>1 DEF Visit, Quiet, Known
<1>11. Sound(row', docs') /\ Known(row', newest')
  BY <1>1 DEF CollectInv
<1>12. QED
  BY <1>1, <1>2, <1>5, <1>10, <1>11, Alone

\* A chunk of w's backfill.
LEMMA MarksChunk ==
    ASSUME TypeOK, CollectInv, NEW w \in Workers, NEW pages, pages * PageSize \in Nat,
           NEW last \in BOOLEAN,
           last => Newest(Older(view[w], Shown), pages * PageSize) = Older(view[w], Shown),
           Chunk(w, pages, last), phase[w] \in {"advanced", "filling"}
    PROVE  CollectInv'
<1> DEFINE took == Newest(Older(view[w], Shown), pages * PageSize)
           new == Backfilled(view[w], took, last)
<1>1. /\ row' = row /\ docs' = docs /\ newest' = newest /\ base' = base
  BY DEF Chunk
<1>2. PICK p \in {"filling", "settled"} : phase' = [phase EXCEPT ![w] = p]
  BY DEF Chunk
<1>3. phase'[w] = p
  BY <1>2 DEF TypeOK
<1>4. /\ view'[w] = new /\ unsaved'[w] = unsaved[w] \cup took
      /\ \A v \in Workers : v # w => unsaved'[v] = unsaved[v]
  BY DEF Chunk, TypeOK
<1>5. Active(w) /\ Visit(w)
  BY DEF Active, CollectInv
<1>6. Sound(view[w], Stored(w)) /\ Known(view[w], newest) /\ view[w].low # 0
  BY <1>5 DEF Visit
<1>7. /\ Sound(new, Stored(w) \cup took) /\ Known(new, newest)
      /\ new.low # 0 /\ new.lease = view[w].lease
  <2>1. view[w] \in Row /\ newest \in 0..MaxId
    BY TypeParts
  <2>2. last => took = Older(view[w], Shown)
    OBVIOUS
  <2>3. QED
    BY <1>6, <2>1, <2>2, ChunkSound
<1> HIDE DEF new, took
<1>8. Stored(w)' = Stored(w) \cup took
  BY <1>1, <1>4 DEF Stored
<1>9. Follows(row', base'[w], view'[w])
  BY <1>1, <1>4, <1>5, <1>7 DEF Visit, Follows
<1>10. Visit(w)' /\ Quiet(w)'
  BY <1>1, <1>2, <1>3, <1>4, <1>7, <1>8, <1>9 DEF Visit, Quiet
<1>11. Sound(row', docs') /\ Known(row', newest')
  BY <1>1 DEF CollectInv
<1>12. QED
  BY <1>2, <1>4, <1>5, <1>10, <1>11, Alone

\* A backfill that succeeds or fails.
LEMMA MarksBackfill ==
    ASSUME TypeOK, CollectInv, NEW w \in Workers, Backfill(w) \/ BackfillFails(w)
    PROVE  CollectInv'
<1>1. CASE Backfill(w)
  <2>1. /\ phase[w] \in {"advanced", "filling"}
        /\ Chunk(w, ChunkPages, ChunkIsLast(view[w], Shown))
    BY <1>1 DEF Backfill
  <2>2. ChunkIsLast(view[w], Shown) \in BOOLEAN
    BY DEF ChunkIsLast
  <2>3. ChunkIsLast(view[w], Shown) =>
          Newest(Older(view[w], Shown), ChunkPages * PageSize) = Older(view[w], Shown)
    BY IdsAreIds, LastChunk
  <2>4. QED
    BY <2>1, <2>2, <2>3, PageCounts, MarksChunk
<1>2. CASE BackfillFails(w)
  <2>1. PICK pages \in 0..ChunkPages - 1 : Chunk(w, pages, FALSE)
    BY <1>2 DEF BackfillFails
  <2>2. pages * PageSize \in Nat
    <3>1. pages \in Nat /\ PageSize \in Nat
      BY <2>1, WatermarkAssumption
    <3>2. QED
      BY <3>1
  <2>3. QED
    BY <1>2, <2>1, <2>2, MarksChunk DEF BackfillFails
<1>3. QED
  BY <1>1, <1>2

\* A commit during the visit: the row becomes as sound as the copy.
LEMMA MarksSave ==
    ASSUME TypeOK, CollectInv, NEW w \in Workers, Save(w)
    PROVE  CollectInv'
<1>1. /\ phase[w] \in {"fetched", "filling", "settled"}
      /\ newest' = newest /\ phase' = phase /\ result' = result
      /\ row' = WriteBack(row, base[w], view[w])
      /\ docs' = Stored(w)
  BY DEF Save, Store, Stored
<1>2. /\ view'[w] = view[w] /\ base'[w] = view[w] /\ unsaved'[w] = {}
      /\ \A v \in Workers : v # w => unsaved'[v] = unsaved[v]
  BY DEF Save, Store, Loaded, TypeOK
<1>3. Active(w) /\ Visit(w)
  BY <1>1 DEF Active, CollectInv
<1>4. /\ view[w] \in Row /\ base[w] \in Row /\ row \in Row /\ newest \in 0..MaxId
      /\ view[w].lease = "live"
  BY <1>3, TypeParts DEF Visit, Follows
<1>5. /\ Sound(row', docs') /\ Known(row', newest')
      /\ Follows(row', view[w], view[w])
  BY <1>1, <1>3, <1>4, WriteSound DEF Visit
<1>6. Stored(w)' = Stored(w)
  BY <1>1, <1>2 DEF Stored
<1>7. Visit(w)' /\ Quiet(w)'
  BY <1>1, <1>2, <1>3, <1>5, <1>6 DEF Visit, Quiet
<1>8. phase' = [phase EXCEPT ![w] = phase[w]]
  BY <1>1 DEF TypeOK
<1>9. QED
  BY <1>2, <1>3, <1>5, <1>7, <1>8, Alone

\* The commit that ends the visit, and gives the lease back.
LEMMA MarksReturn ==
    ASSUME Exclusive, TypeOK, CollectInv, NEW w \in Workers, Return(w)
    PROVE  CollectInv'
<1> DEFINE copy == [view[w] EXCEPT !.lease = "none"]
<1>1. /\ phase[w] = "settled" /\ newest' = newest
      /\ row' = WriteBack(row, base[w], copy)
      /\ docs' = Stored(w)
      /\ phase' = [phase EXCEPT ![w] = "idle"]
  BY DEF Return, Store, Stored, Exclusive
<1>2. /\ unsaved'[w] = {} /\ phase'[w] = "idle"
      /\ \A v \in Workers : v # w => unsaved'[v] = unsaved[v]
  BY <1>1 DEF Return, Store, TypeOK
<1>3. Active(w) /\ Visit(w)
  BY <1>1 DEF Active, CollectInv
<1>4. view[w] \in Row /\ base[w] \in Row /\ row \in Row /\ newest \in 0..MaxId
  BY TypeParts
<1>5. /\ copy \in Row /\ copy.high = view[w].high /\ copy.low = view[w].low
      /\ copy.done = view[w].done /\ copy.extra = view[w].extra
  BY <1>4 DEF Row
<1> HIDE DEF copy
<1>6. Sound(row', docs') /\ Known(row', newest')
  BY <1>1, <1>3, <1>4, <1>5, WriteSound DEF Visit
<1>7. Quiet(w)' /\ ~Active(w)'
  BY <1>2 DEF Quiet, Active
<1>8. QED
  BY <1>1, <1>2, <1>3, <1>6, <1>7, Alone

\* A crash loses the visit, and the row stays as it was.
LEMMA MarksDrop ==
    ASSUME TypeOK, CollectInv, NEW w \in Workers, Crash(w) \/ Forget(w)
    PROVE  CollectInv'
<1>1. Active(w) /\ Drop(w)
  BY DEF Crash, Forget, CollectInv, Quiet
<1>2. /\ row' = row /\ docs' = docs /\ newest' = newest
      /\ phase' = [phase EXCEPT ![w] = "idle"] /\ phase'[w] = "idle"
      /\ unsaved'[w] = {}
      /\ \A v \in Workers : v # w => unsaved'[v] = unsaved[v]
  BY <1>1 DEF Drop, TypeOK
<1>3. Sound(row', docs') /\ Known(row', newest')
  BY <1>2 DEF CollectInv
<1>4. Quiet(w)' /\ ~Active(w)'
  BY <1>2 DEF Quiet, Active
<1>5. QED
  BY <1>1, <1>2, <1>3, <1>4, Alone

\* A step that leaves the workers where they are: the row and each visit remain
\* to be shown.
LEMMA Outside ==
    ASSUME CollectInv, phase' = phase, unsaved' = unsaved,
           Sound(row', docs'), Known(row', newest'),
           \A w \in Workers : Active(w) => Visit(w)'
    PROVE  CollectInv'
BY DEF CollectInv, OneCollector, Quiet, Active

\* A new message is above every mark.
LEMMA MarksPost ==
    ASSUME TypeOK, CollectInv, Post
    PROVE  CollectInv'
<1>1. /\ newest' = newest + 1 /\ row' = row /\ docs' = docs /\ phase' = phase
      /\ view' = view /\ base' = base /\ unsaved' = unsaved /\ result' = result
  BY DEF Post
<1>2. newest \in 0..MaxId
  BY DEF TypeOK
<1>3. \A n \in 0..MaxId : n <= newest => n <= newest'
  BY <1>1, <1>2
<1>4. ASSUME NEW src \in Row, Known(src, newest)
      PROVE  Known(src, newest')
  BY <1>3, <1>4, RowFields DEF Known
<1>5. ASSUME NEW w \in Workers, Active(w)
      PROVE  Visit(w)'
  <2>1. Visit(w)
    BY <1>5 DEF CollectInv
  <2>2. \A m \in result[w].messages : m <= newest => m <= newest'
    BY <1>3, TypeParts, IdsAreIds
  <2>3. phase[w] = "fetched" =>
          Ready(view[w], result[w].messages, result[w].truncated, Stored(w), newest')
    BY <2>1, <2>2 DEF Visit, Ready
  <2>4. Known(view[w], newest')
    BY <1>4, <2>1, TypeParts DEF Visit
  <2>5. QED
    BY <1>1, <2>1, <2>3, <2>4 DEF Visit, Stored
<1>6. Sound(row', docs') /\ Known(row', newest')
  BY <1>1, <1>4 DEF CollectInv, TypeOK
<1>7. QED
  BY <1>1, <1>5, <1>6, Outside

\* A lease runs out when nobody is at the source.
LEMMA MarksExpire ==
    ASSUME Exclusive, TypeOK, CollectInv, Expire
    PROVE  CollectInv'
<1>1. /\ row' = [row EXCEPT !.lease = "expired"]
      /\ newest' = newest /\ docs' = docs /\ phase' = phase /\ unsaved' = unsaved
      /\ \A w \in Workers : ~Active(w)
  BY DEF Expire, Exclusive
<1>2. /\ row'.high = row.high /\ row'.low = row.low /\ row'.done = row.done
      /\ row'.extra = row.extra
  BY <1>1 DEF TypeOK, Row
<1>3. Sound(row', docs') /\ Known(row', newest')
  BY <1>1, <1>2, SoundAlike DEF CollectInv, Known
<1>4. QED
  BY <1>1, <1>3, Outside

\* The operator takes the high mark back: less is promised.
LEMMA MarksRewind ==
    ASSUME TypeOK, CollectInv, Rewind
    PROVE  CollectInv'
<1>1. /\ row.low # 0
      /\ newest' = newest /\ docs' = docs /\ phase' = phase /\ unsaved' = unsaved
      /\ view' = view /\ base' = base /\ result' = result
  BY DEF Rewind
<1>2. PICK high \in 1..row.high - 1 : row' = [row EXCEPT !.high = high]
  BY DEF Rewind
<1>3. row \in Row /\ row.high \in 0..MaxId /\ newest \in 0..MaxId
  BY TypeParts, RowFields DEF TypeOK
<1>4. /\ row'.high = high /\ row'.low = row.low /\ row'.done = row.done
      /\ row'.extra = row.extra /\ row'.lease = row.lease
  BY <1>2, <1>3 DEF Row
<1>5. high \in 1..MaxId /\ high <= row.high /\ high # 0 /\ row.high # 0
  BY <1>3, WatermarkAssumption
<1>6. \A m \in Ids : m <= high => m <= row.high
  BY <1>3, <1>5, IdsAreIds
<1>7. Sound(row', docs') /\ Known(row', newest')
  <2>1. Sound(row, docs) /\ Known(row, newest)
    BY DEF CollectInv
  <2>2. high <= newest
    BY <1>3, <1>5, <2>1 DEF Known
  <2>3. QED
    BY <1>1, <1>4, <1>5, <1>6, <2>1, <2>2 DEF Sound, Known
<1>8. ASSUME NEW w \in Workers, Active(w)
      PROVE  Visit(w)'
  <2>1. Visit(w)
    BY <1>8 DEF CollectInv
  <2>2. base[w].high \in 0..MaxId
    BY TypeParts, RowFields
  <2>3. Follows(row', base[w], view[w])
    BY <1>1, <1>3, <1>4, <1>5, <2>1, <2>2 DEF Visit, Follows
  <2>4. QED
    BY <1>1, <2>1, <2>3 DEF Visit, Stored
<1>9. QED
  BY <1>1, <1>7, <1>8, Outside

\* Without marks nothing is promised.
LEMMA MarksReset ==
    ASSUME TypeOK, CollectInv, Reset \/ ResetCursor
    PROVE  CollectInv'
<1>1. /\ row' = [NoMark EXCEPT !.enabled = row.enabled]
      /\ newest' = newest /\ phase' = phase /\ unsaved' = unsaved
      /\ \A w \in Workers : ~Active(w)
  BY DEF Reset, ResetCursor, ResetMarks, Active
<1>2. /\ row'.high = 0 /\ row'.low = 0 /\ row'.done = FALSE
      /\ row'.extra.pending = 0 /\ row'.extra.before = 0
  BY <1>1 DEF NoMark, Fresh, NoExtra
<1>3. \A m \in Ids : m # 0
  BY IdsAreIds
<1>4. Sound(row', docs')
  BY <1>2, <1>3 DEF Sound
<1>5. Known(row', newest')
  BY <1>1, <1>2, WatermarkAssumption DEF Known, TypeOK
<1>6. QED
  BY <1>1, <1>4, <1>5, Outside

\* Enabling and disabling moves no mark.
LEMMA MarksToggle ==
    ASSUME TypeOK, CollectInv, Toggle
    PROVE  CollectInv'
<1>1. /\ row' = [row EXCEPT !.enabled = ~row.enabled]
      /\ newest' = newest /\ docs' = docs /\ phase' = phase /\ unsaved' = unsaved
      /\ view' = view /\ base' = base /\ result' = result
  BY DEF Toggle
<1>2. /\ row'.high = row.high /\ row'.low = row.low /\ row'.done = row.done
      /\ row'.extra = row.extra /\ row'.lease = row.lease
  BY <1>1 DEF TypeOK, Row
<1>3. Sound(row', docs') /\ Known(row', newest')
  BY <1>1, <1>2, SoundAlike DEF CollectInv, Known
<1>4. \A w \in Workers : Active(w) => Visit(w)'
  BY <1>1, <1>2 DEF CollectInv, Visit, Follows, Stored
<1>5. QED
  BY <1>1, <1>3, <1>4, Outside

\* Every step keeps the marks true.
LEMMA MarksStep == Exclusive /\ TypeOK /\ CollectInv /\ [Next]_vars => CollectInv'
<1> SUFFICES ASSUME Exclusive, TypeOK, CollectInv, [Next]_vars PROVE CollectInv'
  OBVIOUS
<1>1. ASSUME NEW w \in Workers,
             \/ Work(w) \/ Save(w) \/ Forget(w)
             \/ FetchFails(w) \/ BackfillFails(w) \/ Crash(w)
      PROVE  CollectInv'
  BY <1>1, MarksClaim, MarksFetch, MarksFetchFails, MarksAdvance, MarksBackfill, MarksSave,
     MarksReturn, MarksDrop DEF Work
<1>2. CASE UNCHANGED vars
  <2>1. \A w \in Workers : Active(w) => Visit(w)'
    BY <1>2 DEF CollectInv, Visit, Stored, vars
  <2>2. Sound(row', docs') /\ Known(row', newest')
    BY <1>2 DEF CollectInv, vars
  <2>3. QED
    BY <1>2, <2>1, <2>2, Outside DEF vars
<1>3. QED
  BY <1>1, <1>2, MarksPost, MarksExpire, MarksRewind, MarksReset, MarksToggle DEF Next

\* The marks tell the truth for ever.
LEMMA MarksHold ==
    ASSUME Exclusive
    PROVE  Spec => []CollectInv
<1>1. Init => TypeOK /\ CollectInv
  BY InitType, MarksInit
<1>2. TypeOK /\ CollectInv /\ [Next]_vars => TypeOK' /\ CollectInv'
  BY TypeStep, MarksStep
<1>3. QED
  BY <1>1, <1>2, PTL DEF Spec

\* At most one worker is at a source, however many there are, as long as leases
\* outlast the work.
THEOREM CollectsAlone ==
    ASSUME Exclusive
    PROVE  Spec => []OneCollector
<1>1. CollectInv => OneCollector
  BY DEF CollectInv
<1>2. QED
  BY <1>1, MarksHold, PTL

\* No message is skipped: the marks never run ahead of what is stored, for
\* channels, pages and chunks of any size, and however often workers crash,
\* requests fail, fetches are cut off or the operator edits the marks.
THEOREM CollectSkipsNothing ==
    ASSUME Exclusive
    PROVE  Spec => []NothingSkipped
<1>1. CollectInv => NothingSkipped
  <2>1. SUFFICES ASSUME CollectInv, NEW m \in Promised(row) PROVE m \in docs
    BY DEF NothingSkipped
  <2>2. m \in Ids
    BY IdsAreIds DEF Promised
  <2>3. QED
    BY <2>1, <2>2 DEF CollectInv, Sound, Promised
<1>2. QED
  BY <1>1, MarksHold, PTL

\* A catch-up in progress can be finished: what lies between where it will resume
\* and where it will end is stored.
THEOREM CatchUpIsCovered ==
    ASSUME Exclusive
    PROVE  Spec => []CatchUpCovered
<1>1. CollectInv => CatchUpCovered
  <2>1. SUFFICES ASSUME CollectInv, row.extra.pending # 0, row.extra.before # 0,
                        NEW m \in Shown, row.extra.before <= m, m <= row.extra.pending
                 PROVE  m \in docs
    BY DEF CatchUpCovered
  <2>2. m \in Ids
    BY IdsAreIds
  <2>3. QED
    BY <2>1, <2>2 DEF CollectInv, Sound
<1>2. QED
  BY <1>1, MarksHold, PTL

-----------------------------------------------------------------------------
(* Collectors that overlap                                                 *)
(*                                                                         *)
(* Leases end under their holders, sessions keep old copies, pipelines     *)
(* write snapshots: then a commit mixes columns of the row with columns of *)
(* a copy that knows nothing of it.  On a source whose backfill has begun  *)
(* nothing is skipped all the same, for each column tells the truth by     *)
(* itself.  The high mark of the beginning, h, is what divides the work:   *)
(* catching up answers for what is above h, the backfill for the rest.     *)

\* The backfill of the source has begun: it has a low mark, below the high one.
Begun == \A mark \in Started : mark[2] \in 1..mark[1]

\* Each mark of src is right by itself when D has been read and n was posted.
EachSound(src, D, h, n) ==
    /\ src.high \in 1..n /\ src.low \in 1..n /\ src.extra.pending <= n
    /\ \A m \in Ids : h < m /\ m <= src.high => m \in D
    /\ \A m \in Ids : src.low <= m /\ m <= h => m \in D
    /\ src.done => \A m \in Ids : m <= h => m \in D
    /\ Joined(src, D)

\* So is then what they say together.
LEMMA EachPromise ==
    ASSUME NEW src \in Row, NEW D, NEW h \in 0..MaxId, NEW n \in 0..MaxId,
           EachSound(src, D, h, n)
    PROVE  \A m \in Ids : /\ m <= src.high
                          /\ src.done \/ (src.low # 0 /\ src.low <= m)
                          => m \in D
<1>1. src.high \in 0..MaxId /\ \A m \in Ids : m \in 1..MaxId
  BY RowFields, IdsAreIds
<1>2. ASSUME NEW m \in Ids, m <= src.high, src.done \/ src.low <= m
      PROVE  m \in D
  <2>1. CASE h < m
    BY <1>2, <2>1 DEF EachSound
  <2>2. CASE m <= h
    BY <1>2, <2>2 DEF EachSound
  <2>3. QED
    BY <1>1, <2>1, <2>2
<1>3. QED
  BY <1>2

\* What was read stays read, and posting takes no message away.
LEMMA EachGrows ==
    ASSUME NEW src \in Row, NEW D, NEW E, D \subseteq E, NEW h,
           NEW n \in 0..MaxId, NEW k \in 0..MaxId, n <= k, EachSound(src, D, h, n)
    PROVE  EachSound(src, E, h, k)
<1>1. /\ src.high \in 0..MaxId /\ src.low \in 0..MaxId
      /\ src.extra.pending \in 0..MaxId
  BY RowFields
<1>2. src.high \in 1..k /\ src.low \in 1..k /\ src.extra.pending <= k
  BY <1>1 DEF EachSound
<1>3. QED
  BY <1>2 DEF EachSound, Joined

LEMMA ReadyGrows ==
    ASSUME NEW src \in Row, NEW messages \in SUBSET Ids, NEW cut \in BOOLEAN,
           NEW D, NEW E, D \subseteq E,
           NEW n \in 0..MaxId, NEW k \in 0..MaxId, n <= k, Ready(src, messages, cut, D, n)
    PROVE  Ready(src, messages, cut, E, k)
<1>1. \A m \in messages : src.high < m /\ m <= k
  <2>1. \A m \in messages : m \in 0..MaxId /\ src.high < m /\ m <= n
    BY IdsAreIds DEF Ready
  <2>2. QED
    BY <2>1
<1>2. QED
  BY <1>1 DEF Ready

\* Columns that are not marks play no part.
LEMMA EachAlike ==
    ASSUME NEW src, NEW new, NEW D, NEW h, NEW n, EachSound(src, D, h, n),
           new.high = src.high, new.low = src.low, new.done = src.done,
           new.extra = src.extra
    PROVE  EachSound(new, D, h, n)
BY DEF EachSound, Joined

\* A fetch leaves every mark right and its messages ready for the advance.
LEMMA FetchEach ==
    ASSUME NEW src \in Row, NEW D, NEW h \in 0..MaxId, newest \in 0..MaxId,
           EachSound(src, D, h, newest),
           NEW messages, messages = Fetched(src, Shown),
           NEW cut, cut = Truncated(src, Shown),
           NEW new, new = Resumed(src, Shown)
    PROVE  /\ EachSound(new, D \cup messages, h, newest)
           /\ Ready(new, messages, cut, D \cup messages, newest)
<1>1. /\ new.high = src.high /\ new.low = src.low /\ new.done = src.done
      /\ new.extra.pending = src.extra.pending
  BY ResumedRow
<1>2. src.high \in 0..MaxId /\ src.high \in 1..newest
  BY RowFields DEF EachSound
<1>3. Joined(src, D) /\ Known(src, newest)
  BY <1>2 DEF EachSound, Known
<1>4. /\ Joined(new, D \cup messages)
      /\ Ready(new, messages, cut, D \cup messages, newest)
  BY <1>3, FetchReady
<1>5. EachSound(new, D \cup messages, h, newest)
  BY <1>1, <1>4 DEF EachSound
<1>6. QED
  BY <1>4, <1>5

\* The advance of the marks leaves each of them right.
LEMMA AdvanceEach ==
    ASSUME NEW src \in Row, NEW D, NEW h \in 0..MaxId, NEW n \in 0..MaxId,
           EachSound(src, D, h, n),
           NEW messages \in SUBSET Ids, NEW cut \in BOOLEAN,
           Ready(src, messages, cut, D, n),
           NEW new, new = StartBackfill(AdvanceCursor(src, messages, cut), messages)
    PROVE  new \in Row /\ EachSound(new, D, h, n)
<1> DEFINE highest == MaxOr0(messages \cup {src.extra.pending})
           moved == AdvanceCursor(src, messages, cut)
<1>1. /\ moved \in Row /\ highest \in 0..MaxId
      /\ moved.low = src.low /\ moved.done = src.done
      /\ moved.extra.before = src.extra.before
      /\ cut => moved.high = src.high /\ moved.extra.pending = highest
      /\ ~cut => /\ moved.extra.pending = 0
                 /\ moved.high \in {src.high, highest}
                 /\ src.high <= moved.high /\ highest <= moved.high
  BY AdvancedRow
<1> HIDE DEF moved
<1>2. src.low # 0
  BY DEF EachSound
<1>3. /\ new \in Row
      /\ new.high = moved.high /\ new.done = moved.done /\ new.extra = moved.extra
      /\ new.low = src.low
  <2>1. new = StartBackfill(moved, messages)
    BY DEF moved
  <2>2. QED
    BY <1>1, <1>2, <2>1, StartedRow
<1>4. /\ src.high \in 0..MaxId /\ src.extra.pending \in 0..MaxId
      /\ \A m \in Ids : m \in 1..MaxId
      /\ src.high \in 1..n /\ src.extra.pending <= n
  BY RowFields, IdsAreIds DEF EachSound
<1>5. highest <= n
  <2>1. messages \cup {src.extra.pending} \in SUBSET (0..MaxId)
    BY <1>4, IdsAreIds
  <2>2. \A m \in messages : m <= n
    BY DEF Ready
  <2>3. highest \in messages \cup {src.extra.pending, 0}
    BY <2>1, MaxOr0Type
  <2>4. QED
    BY <1>4, <2>2, <2>3
<1>6. CASE cut
  <2>1. \A m \in Ids : src.extra.before <= m /\ m <= highest => m \in D
    BY <1>6 DEF Ready
  <2> HIDE DEF highest
  <2>2. Joined(new, D)
    BY <1>1, <1>3, <1>6, <2>1 DEF Joined
  <2>3. QED
    BY <1>1, <1>3, <1>5, <1>6, <2>2 DEF EachSound
<1>7. CASE ~cut
  <2>1. \A m \in Ids : src.high < m /\ m <= highest => m \in D
    BY <1>4, <1>7 DEF Ready
  <2> HIDE DEF highest
  <2>2. new.high \in 1..n /\ new.extra.pending <= n
    BY <1>1, <1>3, <1>4, <1>5, <1>7
  <2>3. ASSUME NEW m \in Ids, h < m, m <= new.high
        PROVE  m \in D
    <3>1. CASE m <= src.high
      BY <2>3, <3>1 DEF EachSound
    <3>2. CASE src.high < m
      BY <1>1, <1>3, <1>4, <1>7, <2>1, <2>3, <3>2
    <3>3. QED
      BY <1>4, <3>1, <3>2
  <2>4. Joined(new, D)
    BY <1>1, <1>3, <1>7 DEF Joined
  <2>5. QED
    BY <1>1, <1>3, <2>2, <2>3, <2>4 DEF EachSound
<1>8. QED
  BY <1>6, <1>7

\* A chunk of the backfill leaves each mark right.
LEMMA ChunkEach ==
    ASSUME NEW src \in Row, NEW D, NEW h \in 0..MaxId, newest \in 0..MaxId, h <= newest,
           EachSound(src, D, h, newest),
           NEW n \in Nat, NEW took, took = Newest(Older(src, Shown), n),
           NEW last \in BOOLEAN, last => took = Older(src, Shown),
           NEW new, new = Backfilled(src, took, last)
    PROVE  new \in Row /\ EachSound(new, D \cup took, h, newest)
<1>1. /\ took \in SUBSET Ids /\ took \subseteq Shown /\ Shown \in SUBSET (0..MaxId)
      /\ \A m \in Ids : m \in 1..MaxId
  BY NewestShown, IdsAreIds
<1>2. src.low # 0 /\ src.low \in 1..newest /\ src.low \in 0..MaxId
  BY RowFields DEF EachSound
<1>3. /\ new \in Row
      /\ new.high = src.high /\ new.extra = src.extra
      /\ new.low = Least(took, src.low)
      /\ new.done = (src.done \/ last)
      /\ new.low # 0
  BY <1>1, <1>2, BackfilledRow
<1>4. new.low \in 1..newest
  <2>1. took \in SUBSET (0..MaxId)
    BY <1>1
  <2>2. new.low = src.low \/ new.low \in took
    BY <1>3, <2>1, LeastType
  <2>3. QED
    BY <1>1, <1>2, <2>2 DEF Shown
<1>5. ASSUME NEW m \in Ids, m <= h, new.done \/ new.low <= m
      PROVE  m \in D \cup took
  <2>1. CASE src.done \/ src.low <= m
    BY <1>5, <2>1 DEF EachSound
  <2>2. CASE ~src.done /\ ~(src.low <= m)
    <3>1. m \in Older(src, Shown)
      BY <1>1, <1>2, <1>5, <2>2 DEF Older, Shown
    <3>2. CASE last
      BY <3>1, <3>2
    <3>3. CASE ~last
      <4>1. m >= Least(Newest(Older(src, Shown), n), src.low)
        BY <1>1, <1>3, <1>4, <1>5, <2>2, <3>3
      <4>2. QED
        BY <1>1, <1>2, <3>1, <4>1, ChunkDown
    <3>4. QED
      BY <3>2, <3>3
  <2>3. QED
    BY <2>1, <2>2
<1>6. Joined(new, D \cup took)
  BY <1>3 DEF EachSound, Joined
<1>7. QED
  BY <1>3, <1>4, <1>5, <1>6 DEF EachSound

\* A commit takes each column from the row or from the copy.
LEMMA WriteEach ==
    ASSUME NEW r, NEW b, NEW copy, NEW D, NEW h, NEW n,
           EachSound(r, D, h, n), EachSound(copy, D, h, n),
           NEW new, new = WriteBack(r, b, copy)
    PROVE  EachSound(new, D, h, n)
<1>1. /\ new.high \in {r.high, copy.high} /\ new.low \in {r.low, copy.low}
      /\ new.done \in {r.done, copy.done} /\ new.extra \in {r.extra, copy.extra}
  BY DEF WriteBack, Merged
<1>2. new.extra.pending \in {r.extra.pending, copy.extra.pending} /\ Joined(new, D)
  BY <1>1 DEF EachSound, Joined
<1>3. QED
  BY <1>1, <1>2 DEF EachSound

\* Worker w: with E read by others, every mark of its copy is right.
CopySound(w, h, E) ==
    /\ phase[w] \in {"idle", "kept", "claimed"} => unsaved[w] = {}
    /\ phase[w] # "idle" => EachSound(view[w], Stored(w) \cup E, h, newest)
    /\ phase[w] = "fetched" =>
         Ready(view[w], result[w].messages, result[w].truncated, Stored(w) \cup E, newest)

\* The row and every copy, whoever is at work beside whom.
OverlapInv(h, E) ==
    /\ h <= newest
    /\ EachSound(row, docs \cup E, h, newest)
    /\ \A w \in Workers : CopySound(w, h, E)

\* What happens elsewhere does a copy no harm.
LEMMA CopyKept ==
    ASSUME TypeOK, TypeOK', NEW w \in Workers, NEW h, NEW E, NEW F,
           CopySound(w, h, E), docs \cup E \subseteq docs' \cup F, newest <= newest',
           phase'[w] = phase[w], unsaved'[w] = unsaved[w], result'[w] = result[w],
           view'[w] = view[w]
    PROVE  CopySound(w, h, F)'
<1>1. /\ view[w] \in Row /\ newest \in 0..MaxId /\ newest' \in 0..MaxId
      /\ result[w].messages \in SUBSET Ids /\ result[w].truncated \in BOOLEAN
  BY TypeParts DEF TypeOK
<1>2. Stored(w) \cup E \subseteq Stored(w)' \cup F
  BY DEF Stored
<1>3. phase[w] # "idle" => EachSound(view[w], Stored(w)' \cup F, h, newest')
  BY <1>1, <1>2, EachGrows DEF CopySound
<1>4. phase[w] = "fetched" =>
        Ready(view[w], result[w].messages, result[w].truncated, Stored(w)' \cup F, newest')
  BY <1>1, <1>2, ReadyGrows DEF CopySound
<1>5. QED
  BY <1>3, <1>4, Zenon DEF CopySound

\* A step of one worker: what is to be shown of the row and of its own copy.
LEMMA OneOverlaps ==
    ASSUME TypeOK, TypeOK', NEW h \in 0..MaxId, NEW E, NEW F, E \subseteq F,
           OverlapInv(h, E), NEW w \in Workers, docs \subseteq docs', newest' = newest,
           \A v \in Workers : v # w => /\ phase'[v] = phase[v] /\ unsaved'[v] = unsaved[v]
                                       /\ result'[v] = result[v] /\ view'[v] = view[v],
           EachSound(row', docs' \cup F, h, newest), CopySound(w, h, F)'
    PROVE  OverlapInv(h, F)'
<1>1. newest \in Int /\ newest <= newest'
  BY DEF TypeOK
<1>2. ASSUME NEW v \in Workers, v # w PROVE CopySound(v, h, F)'
  <2>1. CopySound(v, h, E)
    BY DEF OverlapInv
  <2>2. docs \cup E \subseteq docs' \cup F
    OBVIOUS
  <2>3. QED
    BY <1>1, <1>2, <2>1, <2>2, CopyKept
<1>3. QED
  BY <1>2, Zenon DEF OverlapInv

\* The row that is left alone while more is read.
LEMMA RowKept ==
    ASSUME TypeOK, TypeOK', NEW h \in 0..MaxId, NEW E, NEW F, E \subseteq F,
           OverlapInv(h, E), docs \subseteq docs', newest <= newest',
           row'.high = row.high, row'.low = row.low, row'.done = row.done,
           row'.extra = row.extra
    PROVE  EachSound(row', docs' \cup F, h, newest')
<1>1. row \in Row /\ newest \in 0..MaxId /\ newest' \in 0..MaxId
  BY DEF TypeOK
<1>2. docs \cup E \subseteq docs' \cup F
  OBVIOUS
<1>3. EachSound(row, docs' \cup F, h, newest')
  BY <1>1, <1>2, EachGrows DEF OverlapInv
<1>4. QED
  BY <1>3, EachAlike

LEMMA OverlapClaim ==
    ASSUME TypeOK, TypeOK', NEW h \in 0..MaxId, NEW E, OverlapInv(h, E),
           NEW w \in Workers, Claim(w)
    PROVE  OverlapInv(h, E)'
<1>1. /\ row' = Decide(row) /\ docs' = docs /\ newest' = newest /\ unsaved' = unsaved
      /\ result' = result /\ phase[w] \in {"idle", "kept"}
      /\ phase' = [phase EXCEPT ![w] = "claimed"] /\ phase'[w] = "claimed"
  BY DEF Claim, Active, TypeOK
<1>2. /\ row'.high = row.high /\ row'.low = row.low /\ row'.done = row.done
      /\ row'.extra = row.extra
  BY <1>1, DecidedRow DEF TypeOK
<1>3. EachSound(row', docs' \cup E, h, newest')
  <2>1. newest <= newest'
    BY <1>1 DEF TypeOK
  <2>2. QED
    BY <1>1, <1>2, <2>1, RowKept
<1>4. \A v \in Workers : v # w => /\ phase'[v] = phase[v] /\ view'[v] = view[v]
  BY <1>1 DEF Claim, Loaded, TypeOK
<1>5. unsaved[w] = {} /\ Stored(w)' = docs
  BY <1>1 DEF OverlapInv, CopySound, Stored, TypeOK
<1>6. EachSound(view'[w], docs \cup E, h, newest)
  <2>1. CASE phase[w] = "idle"
    BY <1>1, <1>3, <2>1 DEF Claim, Loaded, TypeOK
  <2>2. CASE phase[w] = "kept"
    <3>1. EachSound(view[w], docs \cup E, h, newest)
      BY <1>5, <2>2 DEF OverlapInv, CopySound, Stored
    <3>2. view[w] \in Row
      BY DEF TypeOK
    <3>3. CASE Loaded(w, view[w])
      BY <3>1, <3>3 DEF Loaded, TypeOK
    <3>4. CASE ~Loaded(w, view[w])
      <4> DEFINE n == IF row.lease = "none" THEN view[w].failures ELSE row'.failures
      <4>1. view' = [view EXCEPT ![w] = [view[w] EXCEPT !.lease = "live", !.failures = n]]
        BY <2>2, <3>4 DEF Claim, Loaded
      <4> HIDE DEF n
      <4>2. view'[w] = [view[w] EXCEPT !.lease = "live", !.failures = n]
        BY <4>1 DEF TypeOK
      <4>3. /\ view'[w].high = view[w].high /\ view'[w].low = view[w].low
            /\ view'[w].done = view[w].done /\ view'[w].extra = view[w].extra
        BY <3>2, <4>2 DEF Row
      <4>4. QED
        BY <3>1, <4>3, EachAlike
    <3>5. QED
      BY <3>3, <3>4
  <2>3. QED
    BY <1>1, <2>1, <2>2
<1>7. CopySound(w, h, E)'
  BY <1>1, <1>5, <1>6 DEF CopySound
<1>8. QED
  BY <1>1, <1>3, <1>4, <1>7, OneOverlaps

LEMMA OverlapFetch ==
    ASSUME TypeOK, TypeOK', NEW h \in 0..MaxId, NEW E, OverlapInv(h, E),
           NEW w \in Workers, Fetch(w)
    PROVE  OverlapInv(h, E)'
<1> DEFINE messages == Fetched(view[w], Shown)
           cut == Truncated(view[w], Shown)
           new == Resumed(view[w], Shown)
<1>1. /\ row' = row /\ docs' = docs /\ newest' = newest
      /\ phase[w] = "claimed" /\ phase'[w] = "fetched"
  BY DEF Fetch, TypeOK
<1>2. /\ view'[w] = new /\ unsaved'[w] = messages
      /\ \A v \in Workers : v # w => /\ phase'[v] = phase[v] /\ unsaved'[v] = unsaved[v]
                                     /\ result'[v] = result[v] /\ view'[v] = view[v]
      /\ result'[w].messages = messages /\ result'[w].truncated = cut
  BY DEF Fetch, TypeOK
<1>3. EachSound(view[w], docs \cup E, h, newest)
  BY <1>1 DEF OverlapInv, CopySound, Stored
<1>4. view[w] \in Row /\ newest \in 0..MaxId /\ newest <= newest'
  BY <1>1 DEF TypeOK
<1>5. /\ EachSound(new, (docs \cup E) \cup messages, h, newest)
      /\ Ready(new, messages, cut, (docs \cup E) \cup messages, newest)
  BY <1>3, <1>4, FetchEach
<1>6. (docs \cup E) \cup messages = Stored(w)' \cup E
  BY <1>1, <1>2 DEF Stored
<1> HIDE DEF messages, cut, new
<1>7. CopySound(w, h, E)'
  BY <1>1, <1>2, <1>5, <1>6 DEF CopySound
<1>8. EachSound(row', docs' \cup E, h, newest)
  BY <1>1 DEF OverlapInv
<1>9. QED
  BY <1>1, <1>2, <1>7, <1>8, OneOverlaps

LEMMA OverlapFetchFails ==
    ASSUME TypeOK, TypeOK', NEW h \in 0..MaxId, NEW E, OverlapInv(h, E),
           NEW w \in Workers, FetchFails(w)
    PROVE  OverlapInv(h, E)'
<1>1. /\ row' = row /\ docs' = docs /\ newest' = newest /\ unsaved' = unsaved
      /\ result' = result
      /\ phase[w] = "claimed" /\ phase'[w] = "settled"
      /\ \A v \in Workers : v # w => phase'[v] = phase[v] /\ view'[v] = view[v]
  BY DEF FetchFails, TypeOK
<1>2. view[w] \in Row
  BY DEF TypeOK
<1>3. PICK n, e : view'[w] = [view[w] EXCEPT !.failures = n, !.enabled = e]
  BY DEF FetchFails, TypeOK
<1>4. /\ view'[w].high = view[w].high /\ view'[w].low = view[w].low
      /\ view'[w].done = view[w].done /\ view'[w].extra = view[w].extra
  BY <1>2, <1>3 DEF Row
<1>5. EachSound(view[w], Stored(w) \cup E, h, newest) /\ Stored(w)' = Stored(w)
  BY <1>1 DEF OverlapInv, CopySound, Stored
<1>6. EachSound(view'[w], Stored(w) \cup E, h, newest)
  BY <1>4, <1>5, EachAlike
<1>7. CopySound(w, h, E)'
  BY <1>1, <1>5, <1>6 DEF CopySound
<1>8. EachSound(row', docs' \cup E, h, newest)
  BY <1>1 DEF OverlapInv
<1>9. QED
  BY <1>1, <1>7, <1>8, OneOverlaps

LEMMA OverlapAdvance ==
    ASSUME TypeOK, TypeOK', NEW h \in 0..MaxId, NEW E, OverlapInv(h, E),
           NEW w \in Workers, Advance(w)
    PROVE  OverlapInv(h, E)'
<1>1. /\ row' = row /\ docs' = docs /\ newest' = newest /\ unsaved' = unsaved
      /\ phase[w] = "fetched" /\ phase'[w] \in {"settled", "advanced"}
      /\ \A v \in Workers : v # w => /\ phase'[v] = phase[v] /\ view'[v] = view[v]
                                     /\ result'[v] = result[v]
  BY DEF Advance, TypeOK
<1>2. /\ Moved(w) \in Row /\ view'[w] = [Moved(w) EXCEPT !.failures = 0]
  BY AdvanceView DEF TypeOK
<1>3. /\ EachSound(view[w], Stored(w) \cup E, h, newest)
      /\ Ready(view[w], result[w].messages, result[w].truncated, Stored(w) \cup E, newest)
      /\ Stored(w)' = Stored(w)
  BY <1>1 DEF OverlapInv, CopySound, Stored
<1>4. /\ view[w] \in Row /\ newest \in 0..MaxId
      /\ result[w].messages \in SUBSET Ids /\ result[w].truncated \in BOOLEAN
  BY TypeParts
<1>5. EachSound(Moved(w), Stored(w) \cup E, h, newest)
  BY <1>3, <1>4, AdvanceEach DEF Moved
<1>6. /\ view'[w].high = Moved(w).high /\ view'[w].low = Moved(w).low
      /\ view'[w].done = Moved(w).done /\ view'[w].extra = Moved(w).extra
  BY <1>2 DEF Row
<1>7. EachSound(view'[w], Stored(w) \cup E, h, newest)
  BY <1>5, <1>6, EachAlike
<1>8. CopySound(w, h, E)'
  BY <1>1, <1>3, <1>7 DEF CopySound
<1>9. EachSound(row', docs' \cup E, h, newest)
  BY <1>1 DEF OverlapInv
<1>10. QED
  BY <1>1, <1>8, <1>9, OneOverlaps

LEMMA OverlapChunk ==
    ASSUME TypeOK, TypeOK', NEW h \in 0..MaxId, NEW E, OverlapInv(h, E),
           NEW w \in Workers, NEW pages, pages * PageSize \in Nat, NEW last \in BOOLEAN,
           last => Newest(Older(view[w], Shown), pages * PageSize) = Older(view[w], Shown),
           Chunk(w, pages, last), phase[w] \in {"advanced", "filling"}
    PROVE  OverlapInv(h, E)'
<1> DEFINE took == Newest(Older(view[w], Shown), pages * PageSize)
           new == Backfilled(view[w], took, last)
<1>1. /\ row' = row /\ docs' = docs /\ newest' = newest /\ result' = result
      /\ phase'[w] \in {"filling", "settled"}
      /\ view'[w] = new /\ unsaved'[w] = unsaved[w] \cup took
      /\ \A v \in Workers : v # w => /\ phase'[v] = phase[v] /\ view'[v] = view[v]
                                     /\ unsaved'[v] = unsaved[v]
  BY DEF Chunk, TypeOK
<1>2. EachSound(view[w], Stored(w) \cup E, h, newest) /\ h <= newest
  BY <1>1 DEF OverlapInv, CopySound
<1>3. view[w] \in Row /\ newest \in 0..MaxId
  BY DEF TypeOK
<1>4. EachSound(new, (Stored(w) \cup E) \cup took, h, newest)
  BY <1>2, <1>3, ChunkEach
<1>5. Stored(w)' \cup E = (Stored(w) \cup E) \cup took
  BY <1>1 DEF Stored
<1> HIDE DEF took, new
<1>6. CopySound(w, h, E)'
  BY <1>1, <1>4, <1>5 DEF CopySound
<1>7. EachSound(row', docs' \cup E, h, newest)
  BY <1>1 DEF OverlapInv
<1>8. QED
  BY <1>1, <1>6, <1>7, OneOverlaps

LEMMA OverlapBackfill ==
    ASSUME TypeOK, TypeOK', NEW h \in 0..MaxId, NEW E, OverlapInv(h, E),
           NEW w \in Workers, Backfill(w) \/ BackfillFails(w)
    PROVE  OverlapInv(h, E)'
<1>1. CASE Backfill(w)
  <2>1. /\ phase[w] \in {"advanced", "filling"}
        /\ Chunk(w, ChunkPages, ChunkIsLast(view[w], Shown))
    BY <1>1 DEF Backfill
  <2>2. ChunkIsLast(view[w], Shown) \in BOOLEAN
    BY DEF ChunkIsLast
  <2>3. ChunkIsLast(view[w], Shown) =>
          Newest(Older(view[w], Shown), ChunkPages * PageSize) = Older(view[w], Shown)
    BY IdsAreIds, LastChunk
  <2>4. QED
    BY <2>1, <2>2, <2>3, PageCounts, OverlapChunk
<1>2. CASE BackfillFails(w)
  <2>1. PICK pages \in 0..ChunkPages - 1 : Chunk(w, pages, FALSE)
    BY <1>2 DEF BackfillFails
  <2>2. pages * PageSize \in Nat
    <3>1. pages \in Nat /\ PageSize \in Nat
      BY <2>1, WatermarkAssumption
    <3>2. QED
      BY <3>1
  <2>3. QED
    BY <1>2, <2>1, <2>2, OverlapChunk DEF BackfillFails
<1>3. QED
  BY <1>1, <1>2

\* A commit: the row is right, whatever others wrote since the copy was loaded.
LEMMA OverlapStore ==
    ASSUME TypeOK, NEW h \in 0..MaxId, NEW E, OverlapInv(h, E),
           NEW w \in Workers, phase[w] # "idle",
           NEW copy, Store(w, copy),
           copy.high = view[w].high, copy.low = view[w].low, copy.done = view[w].done,
           copy.extra = view[w].extra
    PROVE  /\ EachSound(row', docs' \cup E, h, newest)
           /\ EachSound(copy, docs' \cup E, h, newest)
           /\ docs' = Stored(w)
<1>1. docs' = Stored(w) /\ row' = WriteBack(row, base[w], copy)
  BY DEF Store, Stored
<1>2. row \in Row /\ newest \in 0..MaxId
  BY DEF TypeOK
<1>3. EachSound(row, docs' \cup E, h, newest)
  <2>1. docs \cup E \subseteq docs' \cup E /\ newest <= newest
    BY <1>1, <1>2 DEF Stored
  <2>2. QED
    BY <1>2, <2>1, EachGrows DEF OverlapInv
<1>4. EachSound(copy, docs' \cup E, h, newest)
  <2>1. EachSound(view[w], docs' \cup E, h, newest)
    BY <1>1 DEF OverlapInv, CopySound
  <2>2. QED
    BY <2>1, EachAlike
<1>5. QED
  BY <1>1, <1>3, <1>4, WriteEach

LEMMA OverlapSave ==
    ASSUME TypeOK, TypeOK', NEW h \in 0..MaxId, NEW E, OverlapInv(h, E),
           NEW w \in Workers, Save(w)
    PROVE  OverlapInv(h, E)'
<1>1. /\ phase[w] \in {"fetched", "filling", "settled"}
      /\ newest' = newest /\ phase' = phase /\ result' = result
      /\ Store(w, view[w])
  BY DEF Save
<1>2. /\ view'[w] = view[w] /\ unsaved'[w] = {}
      /\ \A v \in Workers : v # w => unsaved'[v] = unsaved[v] /\ view'[v] = view[v]
  BY DEF Save, Store, Loaded, TypeOK
<1>3. /\ EachSound(row', docs' \cup E, h, newest)
      /\ EachSound(view[w], docs' \cup E, h, newest)
      /\ docs' = Stored(w)
  BY <1>1, OverlapStore
<1>4. Stored(w)' = docs' /\ docs \subseteq docs'
  BY <1>2, <1>3 DEF Stored
<1>5. CopySound(w, h, E)'
  <2>1. phase[w] = "fetched" =>
          Ready(view[w], result[w].messages, result[w].truncated, docs' \cup E, newest)
    BY <1>3 DEF OverlapInv, CopySound
  <2>2. QED
    BY <1>1, <1>2, <1>3, <1>4, <2>1 DEF CopySound
<1>6. QED
  BY <1>1, <1>2, <1>3, <1>4, <1>5, OneOverlaps

LEMMA OverlapReturn ==
    ASSUME TypeOK, TypeOK', NEW h \in 0..MaxId, NEW E, OverlapInv(h, E),
           NEW w \in Workers, Return(w)
    PROVE  OverlapInv(h, E)'
<1> DEFINE copy == [view[w] EXCEPT !.lease = "none"]
<1>1. /\ phase[w] = "settled" /\ newest' = newest /\ result' = result
      /\ Store(w, copy)
  BY DEF Return
<1>2. view[w] \in Row
  BY DEF TypeOK
<1>3. /\ copy.high = view[w].high /\ copy.low = view[w].low /\ copy.done = view[w].done
      /\ copy.extra = view[w].extra
  BY <1>2 DEF Row
<1>4. \/ phase'[w] = "kept" /\ Loaded(w, copy) /\ phase' = [phase EXCEPT ![w] = "kept"]
      \/ phase'[w] = "idle" /\ Loaded(w, NoMark) /\ phase' = [phase EXCEPT ![w] = "idle"]
  BY DEF Return, TypeOK
<1> HIDE DEF copy
<1>5. /\ unsaved'[w] = {}
      /\ \A v \in Workers : v # w => unsaved'[v] = unsaved[v]
  BY <1>1 DEF Store, TypeOK
<1>6. \A v \in Workers : v # w => phase'[v] = phase[v] /\ view'[v] = view[v]
  BY <1>4 DEF Loaded, TypeOK
<1>7. phase'[w] = "kept" => view'[w] = copy
  BY <1>4 DEF Loaded, TypeOK
<1>8. /\ EachSound(row', docs' \cup E, h, newest)
      /\ EachSound(copy, docs' \cup E, h, newest)
      /\ docs' = Stored(w)
  BY <1>1, <1>3, OverlapStore
<1>9. Stored(w)' = docs' /\ docs \subseteq docs'
  BY <1>5, <1>8 DEF Stored
<1>10. CopySound(w, h, E)'
  BY <1>1, <1>4, <1>5, <1>7, <1>8, <1>9 DEF CopySound
<1>11. QED
  BY <1>1, <1>5, <1>6, <1>8, <1>9, <1>10, OneOverlaps

LEMMA OverlapDrop ==
    ASSUME TypeOK, TypeOK', NEW h \in 0..MaxId, NEW E, OverlapInv(h, E),
           NEW w \in Workers, Crash(w) \/ Forget(w)
    PROVE  OverlapInv(h, E)'
<1>1. Drop(w)
  BY DEF Crash, Forget
<1>2. /\ row' = row /\ docs' = docs /\ newest' = newest
      /\ phase'[w] = "idle" /\ unsaved'[w] = {}
      /\ \A v \in Workers : v # w => /\ phase'[v] = phase[v] /\ view'[v] = view[v]
                                     /\ unsaved'[v] = unsaved[v] /\ result'[v] = result[v]
  BY <1>1 DEF Drop, Loaded, TypeOK
<1>3. CopySound(w, h, E)'
  BY <1>2 DEF CopySound
<1>4. EachSound(row', docs' \cup E, h, newest)
  BY <1>2 DEF OverlapInv
<1>5. QED
  BY <1>2, <1>3, <1>4, OneOverlaps

\* The channel, time, the operator: no copy changes.
LEMMA OverlapOutside ==
    ASSUME TypeOK, TypeOK', NEW h \in 0..MaxId, NEW E, OverlapInv(h, E),
           docs' = docs, newest <= newest', phase' = phase, view' = view,
           unsaved' = unsaved, result' = result,
           EachSound(row', docs' \cup E, h, newest')
    PROVE  OverlapInv(h, E)'
<1>1. h <= newest'
  BY DEF OverlapInv, TypeOK
<1>2. ASSUME NEW v \in Workers PROVE CopySound(v, h, E)'
  <2>1. CopySound(v, h, E)
    BY DEF OverlapInv
  <2>2. QED
    BY <2>1, CopyKept
<1>3. QED
  BY <1>1, <1>2, Zenon DEF OverlapInv

LEMMA OverlapEnvironment ==
    ASSUME TypeOK, TypeOK', NEW h \in 0..MaxId, NEW E, OverlapInv(h, E),
           Post \/ Expire \/ Rewind \/ Toggle \/ UNCHANGED vars
    PROVE  OverlapInv(h, E)'
<1>1. row \in Row /\ newest \in 0..MaxId
  BY DEF TypeOK
<1>2. /\ docs' = docs /\ newest <= newest' /\ phase' = phase /\ view' = view
      /\ unsaved' = unsaved /\ result' = result
  BY <1>1 DEF Post, Expire, Rewind, Toggle, vars
<1>3. CASE Rewind
  <2>1. newest' = newest
    BY <1>3 DEF Rewind
  <2>2. PICK high \in 1..row.high - 1 : row' = [row EXCEPT !.high = high]
    BY <1>3 DEF Rewind
  <2>3. /\ row'.high = high /\ row'.low = row.low /\ row'.done = row.done
        /\ row'.extra = row.extra
    BY <1>1, <2>2 DEF Row
  <2>4. EachSound(row, docs' \cup E, h, newest)
    BY <1>2 DEF OverlapInv
  <2>5. /\ high \in 1..newest
        /\ \A m \in Ids : m <= high => m <= row.high
    BY <1>1, <2>2, <2>4, RowFields, IdsAreIds DEF EachSound
  <2>6. EachSound(row', docs' \cup E, h, newest')
    BY <2>1, <2>3, <2>4, <2>5 DEF EachSound, Joined
  <2>7. QED
    BY <1>2, <2>6, OverlapOutside
<1>4. CASE ~Rewind
  <2>1. /\ row'.high = row.high /\ row'.low = row.low /\ row'.done = row.done
        /\ row'.extra = row.extra
    BY <1>1, <1>4 DEF Post, Expire, Toggle, vars, Row
  <2>2. EachSound(row', docs' \cup E, h, newest')
    BY <1>2, <2>1, RowKept
  <2>3. QED
    BY <1>2, <2>2, OverlapOutside
<1>5. QED
  BY <1>3, <1>4

LEMMA OverlapStep ==
    ASSUME "reset" \notin Faults, TypeOK, TypeOK', NEW h \in 0..MaxId, NEW E,
           OverlapInv(h, E), [Next]_vars
    PROVE  OverlapInv(h, E)'
<1>1. ASSUME NEW w \in Workers,
             \/ Work(w) \/ Save(w) \/ Forget(w)
             \/ FetchFails(w) \/ BackfillFails(w) \/ Crash(w)
      PROVE  OverlapInv(h, E)'
  BY <1>1, OverlapClaim, OverlapFetch, OverlapFetchFails, OverlapAdvance, OverlapBackfill,
     OverlapSave, OverlapReturn, OverlapDrop DEF Work
<1>2. ~Reset /\ ~ResetCursor
  BY DEF Reset, ResetCursor, ResetMarks, Fault
<1>3. QED
  BY <1>1, <1>2, OverlapEnvironment DEF Next

LEMMA OverlapInit ==
    ASSUME Begun, Init, TypeOK, NEW E
    PROVE  row.high \in 0..MaxId /\ OverlapInv(row.high, E)
<1>1. PICK mark \in Started : row = Fresh(mark[1], mark[2], mark[3]) /\ newest \in mark[1]..MaxId
  BY DEF Init
<1>2. mark[2] \in 1..mark[1] /\ mark[1] \in 0..MaxId /\ newest \in 0..MaxId
  BY <1>1, CollectQueueAssumption DEF Begun, TypeOK
<1>3. /\ row.high = mark[1] /\ row.low = mark[2] /\ row.extra = NoExtra
      /\ row.high \in 1..newest /\ row.low \in 1..newest /\ row.low # 0
  BY <1>1, <1>2 DEF Fresh
<1>4. docs = Promised(row) \cup {m \in Shown : m = row.high}
  BY DEF Init
<1>5. ASSUME NEW m \in Ids, m <= row.high, row.done \/ row.low <= m
      PROVE  m \in docs
  <2>1. m \in Shown
    BY <1>2, <1>3, <1>5, IdsAreIds DEF Shown
  <2>2. QED
    BY <1>3, <1>4, <1>5, <2>1 DEF Promised
<1>6. EachSound(row, docs \cup E, row.high, newest)
  <2>1. \A m \in Ids : ~(row.high < m /\ m <= row.high)
    BY <1>2, <1>3, IdsAreIds
  <2>2. Joined(row, docs \cup E) /\ row.extra.pending <= newest
    BY <1>2, <1>3 DEF Joined, NoExtra
  <2>3. QED
    BY <1>3, <1>5, <2>1, <2>2 DEF EachSound
<1>7. \A w \in Workers : CopySound(w, row.high, E)
  BY DEF Init, CopySound
<1>8. QED
  BY <1>2, <1>3, <1>6, <1>7 DEF OverlapInv

\* What overlapping collectors leave behind is right from the row's first mark on.
OverlapHolds == \E h \in 0..MaxId : OverlapInv(h, {})

LEMMA OverlapAlways ==
    ASSUME Begun, "reset" \notin Faults
    PROVE  Spec => [](TypeOK /\ OverlapHolds)
<1>1. Init => TypeOK /\ OverlapHolds
  BY InitType, OverlapInit DEF OverlapHolds
<1>2. TypeOK /\ OverlapHolds /\ [Next]_vars => (TypeOK /\ OverlapHolds)'
  <2> SUFFICES ASSUME TypeOK, OverlapHolds, [Next]_vars PROVE (TypeOK /\ OverlapHolds)'
    OBVIOUS
  <2>1. TypeOK'
    BY TypeStep
  <2>2. PICK h \in 0..MaxId : OverlapInv(h, {})
    BY DEF OverlapHolds
  <2>3. OverlapInv(h, {})'
    BY <2>1, <2>2, OverlapStep
  <2>4. QED
    BY <2>1, <2>3 DEF OverlapHolds
<1>3. QED
  BY <1>1, <1>2, PTL DEF Spec

\* No message of a source whose backfill has begun is skipped, however many
\* workers collect it at the same time, with leases that end under them, copies
\* their sessions have kept, crashes, failed requests and marks taken back. Only
\* a reset sends it back to where collect_first begins.
THEOREM OverlapSkipsNothing ==
    ASSUME Begun, "reset" \notin Faults
    PROVE  Spec => []NothingSkipped
<1>1. TypeOK /\ OverlapHolds => NothingSkipped
  <2>1. SUFFICES ASSUME TypeOK, OverlapHolds, NEW m \in Promised(row) PROVE m \in docs
    BY DEF NothingSkipped
  <2>2. PICK h \in 0..MaxId : OverlapInv(h, {})
    BY <2>1 DEF OverlapHolds
  <2>3. /\ m \in Ids /\ m <= row.high
        /\ row.done \/ (row.low # 0 /\ row.low <= m)
    BY IdsAreIds DEF Promised
  <2>4. row \in Row /\ newest \in 0..MaxId /\ EachSound(row, docs \cup {}, h, newest)
    BY <2>1, <2>2 DEF TypeOK, OverlapInv
  <2>5. QED
    BY <2>3, <2>4, EachPromise
<1>2. QED
  BY <1>1, OverlapAlways, PTL

\* Nor does an overlap tear a hole into a catch-up in progress.
THEOREM OverlapCatchUpCovered ==
    ASSUME Begun, "reset" \notin Faults
    PROVE  Spec => []CatchUpCovered
<1>1. OverlapHolds => CatchUpCovered
  <2>1. SUFFICES ASSUME OverlapHolds, row.extra.pending # 0, row.extra.before # 0,
                        NEW m \in Shown, row.extra.before <= m, m <= row.extra.pending
                 PROVE  m \in docs
    BY DEF CatchUpCovered
  <2>2. m \in Ids
    BY IdsAreIds
  <2>3. QED
    BY <2>1, <2>2 DEF OverlapHolds, OverlapInv, EachSound, Joined
<1>2. QED
  BY <1>1, OverlapAlways, PTL

-----------------------------------------------------------------------------
(* The source as the one task of a TaskQueue                               *)
(*                                                                         *)
(* It is never finished with: a visit that ends leaves it for the next.    *)

Source == "source"
Holds == [w \in Workers |-> IF Active(w) THEN {Source} ELSE {}]

Queue == INSTANCE TaskQueue WITH Tasks <- {Source}, open <- {Source}, holds <- Holds

\* The claims of the source keep the promise of TaskQueue.
ImplementsTaskQueue == Queue!Spec

\* A step that changes nobody's being at the source is a stutter of the queue.
LEMMA QueueStutters ==
    ASSUME \A w \in Workers : Active(w)' <=> Active(w)
    PROVE  Holds' = Holds
BY Zenon DEF Holds

\* The only worker whose phase changes is w.
LEMMA HoldsStep ==
    ASSUME TypeOK, NEW w \in Workers, NEW p, phase' = [phase EXCEPT ![w] = p]
    PROVE  Holds' = [Holds EXCEPT ![w] = IF p \notin {"idle", "kept"} THEN {Source} ELSE {}]
<1>1. /\ phase'[w] = p /\ \A v \in Workers : v # w => phase'[v] = phase[v]
  BY Zenon DEF TypeOK
<1>2. /\ Active(w)' <=> p \notin {"idle", "kept"}
      /\ \A v \in Workers : v # w => (Active(v)' <=> Active(v))
  BY <1>1, Zenon DEF Active
<1>3. QED
  BY <1>2, Zenon DEF Holds

LEMMA QueueTake ==
    ASSUME TypeOK, CollectInv, NEW w \in Workers, Claim(w)
    PROVE  Queue!Take(w)
<1>1. \A v \in Workers : ~Active(v)
  <2>1. ~Active(w) /\ Claimable
    BY DEF Claim
  <2>2. QED
    BY <2>1, OthersAway
<1>2. \A v \in Workers : Holds[v] = {}
  BY <1>1, Zenon DEF Holds
<1>3. Holds' = [Holds EXCEPT ![w] = {Source}]
  <2>1. phase' = [phase EXCEPT ![w] = "claimed"]
    BY DEF Claim
  <2>2. Holds' = [Holds EXCEPT ![w] = IF "claimed" \notin {"idle", "kept"} THEN {Source} ELSE {}]
    BY <2>1, HoldsStep
  <2>3. "claimed" \notin {"idle", "kept"}
    OBVIOUS
  <2>4. QED
    BY <2>2, <2>3, Zenon
<1>4. {Source} \in SUBSET Queue!Free /\ {} \in SUBSET Queue!Free
  BY <1>2, Zenon DEF Queue!Free, Holds
<1>5. {Source} \cap {} = {} /\ {Source} = {Source} \ {}
  OBVIOUS
<1>6. QED
  BY <1>2, <1>3, <1>4, <1>5, Zenon DEF Queue!Take, Holds

\* A worker at the source that ends its visit, in whichever way, puts it down.
LEMMA QueuePutDown ==
    ASSUME TypeOK, NEW w \in Workers, Active(w),
           NEW p \in {"idle", "kept"}, phase' = [phase EXCEPT ![w] = p]
    PROVE  Queue!PutDown(w)
<1>1. Holds[w] = {Source}
  BY Zenon DEF Holds
<1>2. Holds' = [Holds EXCEPT ![w] = {}]
  BY HoldsStep, Zenon
<1>3. Holds' = [Holds EXCEPT ![w] = Holds[w] \ {Source}]
  <2>1. Holds[w] \ {Source} = {}
    BY <1>1
  <2>2. QED
    BY <1>2, <2>1, Zenon
<1>4. {Source} \in SUBSET Holds[w] /\ {} \in SUBSET {Source} /\ {Source} \ {} = {Source}
  BY <1>1
<1>5. QED
  BY <1>3, <1>4, Zenon DEF Queue!PutDown, Holds

\* A worker at the source that goes on with its visit.
LEMMA QueueGoesOn ==
    ASSUME TypeOK, NEW w \in Workers, Active(w),
           NEW p, p \notin {"idle", "kept"}, phase' = [phase EXCEPT ![w] = p]
    PROVE  Holds' = Holds
<1>1. \A v \in Workers : Active(v)' <=> Active(v)
  <2>1. /\ phase'[w] = p /\ \A v \in Workers : v # w => phase'[v] = phase[v]
    BY Zenon DEF TypeOK
  <2>2. QED
    BY <2>1, Zenon DEF Active
<1>2. QED
  BY <1>1, QueueStutters

LEMMA QueueStep ==
    TypeOK /\ CollectInv /\ [Next]_vars => [Queue!Next]_(Queue!qvars)
<1> SUFFICES ASSUME TypeOK, CollectInv, [Next]_vars
             PROVE  Queue!Next \/ Holds' = Holds
  BY Zenon DEF Queue!qvars, Holds
<1>1. ASSUME phase' = phase PROVE Holds' = Holds
  BY <1>1, QueueStutters, Zenon DEF Active
<1>2. ASSUME NEW w \in Workers,
             Work(w) \/ Save(w) \/ Forget(w) \/ FetchFails(w) \/ BackfillFails(w) \/ Crash(w)
      PROVE  Queue!Next \/ Holds' = Holds
  <2>1. CASE Claim(w)
    BY <2>1, QueueTake, Zenon DEF Queue!Next
  <2>2. CASE Fetch(w) \/ FetchFails(w) \/ Advance(w) \/ Backfill(w) \/ BackfillFails(w)
    <3>1. PICK p : p \notin {"idle", "kept"} /\ phase' = [phase EXCEPT ![w] = p]
      BY <2>2 DEF Fetch, FetchFails, Advance, Backfill, BackfillFails, Chunk
    <3>2. Active(w)
      BY <2>2 DEF Fetch, FetchFails, Advance, Backfill, BackfillFails, Active
    <3>3. QED
      BY <3>1, <3>2, QueueGoesOn, Zenon
  <2>3. CASE Save(w)
    BY <1>1, <2>3, Zenon DEF Save
  <2>4. CASE Return(w)
    <3>1. PICK p \in {"idle", "kept"} : phase' = [phase EXCEPT ![w] = p]
      BY <2>4 DEF Return
    <3>2. Active(w)
      BY <2>4 DEF Return, Active
    <3>3. QED
      BY <3>1, <3>2, QueuePutDown, Zenon DEF Queue!Next
  <2>5. CASE Crash(w)
    BY <2>5, QueuePutDown, Zenon DEF Crash, Drop, Queue!Next
  <2>6. CASE Forget(w)
    <3>1. ~Active(w) /\ phase' = [phase EXCEPT ![w] = "idle"]
      BY <2>6 DEF Forget, Drop, Active
    <3>2. /\ phase'[w] = "idle" /\ \A v \in Workers : v # w => phase'[v] = phase[v]
      BY <3>1, Zenon DEF TypeOK
    <3>3. \A v \in Workers : Active(v)' <=> Active(v)
      BY <3>1, <3>2, Zenon DEF Active
    <3>4. QED
      BY <3>3, QueueStutters
  <2>7. QED
    BY <1>2, <2>1, <2>2, <2>3, <2>4, <2>5, <2>6, Zenon DEF Work
<1>3. CASE Post \/ Expire \/ Rewind \/ Reset \/ ResetCursor \/ Toggle
  BY <1>1, <1>3, Zenon DEF Post, Expire, Rewind, Reset, ResetCursor, ResetMarks, Toggle
<1>4. CASE UNCHANGED vars
  BY <1>1, <1>4, Zenon DEF vars
<1>5. QED
  BY <1>2, <1>3, <1>4, Zenon DEF Next

\* Where leases outlast the work, the claims of a source keep the promise of
\* TaskQueue, like those of documents and resources: a worker takes it only when
\* nobody has it, and its visit ends by its own commit, crash or abort.
THEOREM CollectKeepsPromise ==
    ASSUME Exclusive
    PROVE  Spec => ImplementsTaskQueue
<1>1. Init => Queue!Init
  BY Zenon DEF Init, Active, Holds, Queue!Init
<1>2. Spec => []TypeOK
  BY CollectTypes
<1>3. QED
  BY <1>1, <1>2, MarksHold, QueueStep, PTL DEF Spec, Queue!Spec, ImplementsTaskQueue
=============================================================================
