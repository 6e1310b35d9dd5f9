------------------------ MODULE CollectPipelineProofs ------------------------
(* Theorems about CollectPipeline.                                          *)
EXTENDS CollectPipeline, CollectQueueProofs

-----------------------------------------------------------------------------
(* Types                                                                   *)

\* What a page shows are messages.
LEMMA PageIds ==
    /\ \A b : OnPage(b) \subseteq Shown /\ OnPage(b) \subseteq Ids
    /\ \A B : OnPages(B) \subseteq Ids
BY IdsAreIds DEF OnPage, OnPages, Newest

\* The pages of a plan lie below the low mark, and the mark it leaves too.
LEMMA PlannedType ==
    ASSUME NEW low \in 0..MaxId, NEW n \in 1..PlanPages,
           NEW plan, plan = Planned(low, n),
           NEW floor, floor = MaxOr0({1, Least(plan, 1) - PageSize}),
           plan # {}
    PROVE  /\ plan \in SUBSET (2..low) /\ plan \in SUBSET (1..MaxId)
           /\ Least(plan, 1) \in plan /\ \A b \in plan : Least(plan, 1) <= b
           /\ floor \in 1..low /\ floor \in 0..MaxId
           /\ floor = 1 \/ floor = Least(plan, 1) - PageSize
           /\ Least(plan, 1) - PageSize <= floor
<1>1. plan \in SUBSET (2..low) /\ plan \in SUBSET (1..MaxId) /\ plan \in SUBSET (0..MaxId)
  BY WatermarkAssumption DEF Planned
<1>2. Least(plan, 1) \in plan /\ \A b \in plan : Least(plan, 1) <= b
  BY <1>1, LeastType
<1> DEFINE least == Least(plan, 1)
<1>3. /\ least \in 2..low /\ PageSize \in Nat \ {0}
      /\ MaxId \in Nat /\ low \in 0..MaxId /\ least \in 1..MaxId /\ 1 \in 0..MaxId
  BY <1>1, <1>2, WatermarkAssumption
<1> HIDE DEF least
<1>4. floor = MaxOr0({1, least - PageSize})
  BY DEF least
<1>5. /\ floor \in {1, least - PageSize, 0}
      /\ 1 <= floor /\ least - PageSize <= floor
  <2>1. \A x \in {1, least - PageSize} \cup {0} : x \in Int
    BY <1>3
  <2>2. CASE least - PageSize \in 0..MaxId
    <3>1. {1, least - PageSize} \in SUBSET (0..MaxId)
      BY <1>3, <2>2
    <3>2. QED
      BY <1>4, <3>1, MaxOr0Type
  <2>3. CASE least - PageSize \notin 0..MaxId
    <3>1. least - PageSize < 0
      BY <1>3, <2>3
    <3>2. Max({1, least - PageSize, 0}) = 1
      <4>1. \E x \in {1, least - PageSize, 0} : \A y \in {1, least - PageSize, 0} : x >= y
        BY <1>3, <3>1
      <4>2. /\ Max({1, least - PageSize, 0}) \in {1, least - PageSize, 0}
            /\ \A y \in {1, least - PageSize, 0} : Max({1, least - PageSize, 0}) >= y
        BY <4>1 DEF Max
      <4>3. QED
        BY <1>3, <3>1, <4>2
    <3>3. {1, least - PageSize} \cup {0} = {1, least - PageSize, 0}
      OBVIOUS
    <3>4. floor = 1
      BY <1>4, <3>2, <3>3 DEF MaxOr0
    <3>5. QED
      BY <1>3, <3>1, <3>4
  <2>4. QED
    BY <2>2, <2>3
<1>6. floor \in 1..low /\ floor \in 0..MaxId /\ (floor = 1 \/ floor = least - PageSize)
  BY <1>3, <1>5
<1>7. QED
  BY <1>1, <1>2, <1>5, <1>6 DEF least

\* The row after planning.
LEMMA PlanRow ==
    ASSUME row \in Row, NEW p \in Pipelines, Plan(p)
    PROVE  \E n \in 1..PlanPages :
             LET plan  == Planned(row.low, n)
                 floor == MaxOr0({1, Least(plan, 1) - PageSize})
             IN
             /\ plan \in SUBSET (1..MaxId)
             /\ pages' = [pages EXCEPT ![p] = plan]
             /\ row' \in Row
             /\ plan = {} => row' = row
             /\ plan # {} => /\ row'.low = floor /\ row'.done = (row.done \/ floor = 1)
                             /\ row'.high = row.high /\ row'.extra = row.extra
<1>1. PICK n \in 1..PlanPages :
        LET plan  == Planned(row.low, n)
            floor == MaxOr0({1, Least(plan, 1) - PageSize})
        IN
        /\ pages' = [pages EXCEPT ![p] = plan]
        /\ row' = IF plan = {} THEN row
                  ELSE [row EXCEPT !.low = floor, !.done = @ \/ floor = 1]
  BY DEF Plan
<1> DEFINE plan  == Planned(row.low, n)
           floor == MaxOr0({1, Least(plan, 1) - PageSize})
           done  == row.done \/ floor = 1
<1>2. row.low \in 0..MaxId /\ done \in BOOLEAN
  BY RowFields
<1>3. plan \in SUBSET (1..MaxId)
  BY <1>2, WatermarkAssumption DEF Planned
<1>4. plan # {} => floor \in 0..MaxId
  BY <1>2, PlannedType
<1>5. plan # {} => row' = [row EXCEPT !.low = floor, !.done = done]
  BY <1>1
<1>6. plan = {} => row' = row
  BY <1>1
<1> HIDE DEF floor, plan, done
<1>7. /\ row' \in Row
      /\ plan # {} => /\ row'.low = floor /\ row'.done = done
                      /\ row'.high = row.high /\ row'.extra = row.extra
  BY <1>2, <1>4, <1>5, <1>6 DEF Row
<1>8. QED
  BY <1>1, <1>3, <1>6, <1>7 DEF floor, plan, done

\* The snapshot after a visit.
Visited(src) ==
    StartBackfill(AdvanceCursor(Resumed(src, Shown), Fetched(src, Shown), Truncated(src, Shown)),
                  Fetched(src, Shown))

LEMMA VisitedRow ==
    ASSUME NEW src \in Row
    PROVE  /\ Visited(src) \in Row /\ [Visited(src) EXCEPT !.failures = 0] \in Row
           /\ [Visited(src) EXCEPT !.failures = 0].high = Visited(src).high
           /\ [Visited(src) EXCEPT !.failures = 0].low = Visited(src).low
           /\ [Visited(src) EXCEPT !.failures = 0].done = Visited(src).done
           /\ [Visited(src) EXCEPT !.failures = 0].extra = Visited(src).extra
<1>1. Resumed(src, Shown) \in Row
  BY ResumedRow
<1>2. Fetched(src, Shown) \in SUBSET Ids /\ Truncated(src, Shown) \in BOOLEAN
  BY FetchedIds
<1>3. AdvanceCursor(Resumed(src, Shown), Fetched(src, Shown), Truncated(src, Shown)) \in Row
  BY <1>1, <1>2, AdvancedRow
<1>4. Visited(src) \in Row
  BY <1>2, <1>3, StartedRow DEF Visited
<1>5. 0 \in 0..MaxFailures
  BY CollectQueueAssumption
<1>6. QED
  BY <1>4, <1>5 DEF Row

\* What a flush makes of the row.
LEMMA CopiedRow ==
    ASSUME NEW src \in Row, NEW snapshot \in Row, NEW outcome,
           NEW new, new = Copied(src, snapshot, outcome)
    PROVE  /\ new \in Row
           /\ outcome = "fetched" => /\ new.high = snapshot.high /\ new.low = snapshot.low
                                     /\ new.done = snapshot.done /\ new.extra = snapshot.extra
           /\ outcome # "fetched" => /\ new.high = src.high /\ new.low = src.low
                                     /\ new.done = src.done /\ new.extra = src.extra
<1>1. CASE outcome = "fetched"
  <2>1. new = [src EXCEPT !.high = snapshot.high, !.low = snapshot.low,
                          !.done = snapshot.done, !.extra = snapshot.extra,
                          !.failures = snapshot.failures]
    BY <1>1 DEF Copied
  <2>2. QED
    BY <1>1, <2>1 DEF Row
<1>2. CASE outcome = "failed"
  <2>1. new = [src EXCEPT !.failures = snapshot.failures, !.enabled = snapshot.enabled]
    BY <1>2 DEF Copied
  <2>2. QED
    BY <1>2, <2>1 DEF Row
<1>3. CASE outcome # "fetched" /\ outcome # "failed"
  BY <1>3 DEF Copied
<1>4. QED
  BY <1>1, <1>2, <1>3

Types == TypeOK /\ PipelineTypeOK

LEMMA TypesPlan ==
    ASSUME Types, NEW p \in Pipelines, Plan(p)
    PROVE  Types'
<1>1. row \in Row
  BY DEF Types, TypeOK
<1>2. PICK plan \in SUBSET (1..MaxId) : pages' = [pages EXCEPT ![p] = plan] /\ row' \in Row
  BY <1>1, PlanRow
<1>3. /\ shot' = [shot EXCEPT ![p] = row'] /\ stage' = [stage EXCEPT ![p] = "planned"]
      /\ UNCHANGED <<newest, docs, phase, view, base, unsaved, result, faults, got, lost>>
  BY DEF Plan, Snapshot
<1>4. QED
  BY <1>2, <1>3 DEF Types, TypeOK, PipelineTypeOK, Stage

LEMMA TypesFetchShot ==
    ASSUME Types, NEW p \in Pipelines, FetchShot(p)
    PROVE  Types'
<1>1. shot[p] \in Row
  BY DEF Types, PipelineTypeOK
<1>2. /\ shot' = [shot EXCEPT ![p] = [Visited(shot[p]) EXCEPT !.failures = 0]]
      /\ got' = [got EXCEPT ![p] = Fetched(shot[p], Shown)]
      /\ stage' = [stage EXCEPT ![p] = "fetched"]
      /\ UNCHANGED <<vars, pages, lost>>
  BY DEF FetchShot, Visited
<1>3. [Visited(shot[p]) EXCEPT !.failures = 0] \in Row /\ Fetched(shot[p], Shown) \in SUBSET Ids
  BY <1>1, VisitedRow, FetchedIds
<1>4. PipelineTypeOK'
  BY <1>2, <1>3 DEF Types, PipelineTypeOK, Stage
<1>5. TypeOK'
  BY <1>2 DEF Types, TypeOK, vars
<1>6. QED
  BY <1>4, <1>5 DEF Types

LEMMA TypesFetchShotFails ==
    ASSUME Types, NEW p \in Pipelines, FetchShotFails(p)
    PROVE  /\ Types'
           /\ \A q \in Pipelines : /\ shot'[q].high = shot[q].high /\ shot'[q].low = shot[q].low
                                   /\ shot'[q].done = shot[q].done /\ shot'[q].extra = shot[q].extra
<1> DEFINE n == Counted(shot[p].failures)
           e == shot[p].enabled /\ n < MaxFailures
<1>1. shot[p] \in Row
  BY DEF Types, PipelineTypeOK
<1>2. n \in 0..MaxFailures /\ e \in BOOLEAN
  BY <1>1, RowFields, CountedType
<1>3. shot' = [shot EXCEPT ![p] = [shot[p] EXCEPT !.failures = n, !.enabled = e]]
  BY DEF FetchShotFails
<1> HIDE DEF n, e
<1>4. [shot[p] EXCEPT !.failures = n, !.enabled = e] \in Row
  BY <1>1, <1>2 DEF Row
<1>5. shot' \in [Pipelines -> Row]
  BY <1>3, <1>4 DEF Types, PipelineTypeOK
<1>6. /\ stage' = [stage EXCEPT ![p] = "failed"]
      /\ UNCHANGED <<newest, docs, row, phase, view, base, unsaved, result, pages, got, lost>>
  BY DEF FetchShotFails
<1>7. faults' \in 0..MaxFaults
  BY FaultType DEF FetchShotFails, Types
<1>8. Types'
  BY <1>5, <1>6, <1>7 DEF Types, TypeOK, PipelineTypeOK, Stage
<1>9. \A q \in Pipelines : /\ shot'[q].high = shot[q].high /\ shot'[q].low = shot[q].low
                           /\ shot'[q].done = shot[q].done /\ shot'[q].extra = shot[q].extra
  BY <1>1, <1>3 DEF Types, PipelineTypeOK, Row
<1>10. QED
  BY <1>8, <1>9

LEMMA TypesFlush ==
    ASSUME Types, NEW p \in Pipelines, NEW batch, NEW visit \in BOOLEAN, Flush(p, batch, visit)
    PROVE  Types'
<1>1. shot[p] \in Row /\ row \in Row
  BY DEF Types, TypeOK, PipelineTypeOK
<1>2. row' \in Row
  BY <1>1, CopiedRow DEF Flush
<1>3. docs' \subseteq Ids
  BY PageIds DEF Flush, Types, TypeOK, PipelineTypeOK
<1>4. TypeOK'
  BY <1>2, <1>3 DEF Flush, Types, TypeOK
<1>5. pages' \in [Pipelines -> SUBSET (1..MaxId)]
  BY DEF Flush, Types, PipelineTypeOK
<1>6. /\ stage' \in [Pipelines -> Stage] /\ shot' \in [Pipelines -> Row]
      /\ got' \in [Pipelines -> SUBSET Ids] /\ lost' = lost
  BY NoMarkType DEF Flush, Types, PipelineTypeOK, Stage
<1>7. QED
  BY <1>4, <1>5, <1>6 DEF Types, PipelineTypeOK

LEMMA TypesPageFails ==
    ASSUME Types, NEW p \in Pipelines, PageFails(p)
    PROVE  Types'
<1>1. faults' \in 0..MaxFaults
  BY FaultType DEF PageFails, Types
<1>2. PICK b \in pages[p] : /\ pages' = [pages EXCEPT ![p] = @ \ {b}]
                            /\ lost' = lost \cup OnPage(b)
  BY DEF PageFails
<1>3. pages' \in [Pipelines -> SUBSET (1..MaxId)] /\ lost' \subseteq Ids
  BY <1>2, PageIds DEF Types, PipelineTypeOK
<1>4. UNCHANGED <<newest, docs, row, phase, view, base, unsaved, result, stage, shot, got>>
  BY DEF PageFails
<1>5. QED
  BY <1>1, <1>3, <1>4 DEF Types, TypeOK, PipelineTypeOK

LEMMA TypesCrash ==
    ASSUME Types, NEW p \in Pipelines, PipelineCrash(p)
    PROVE  Types'
<1>1. faults' \in 0..MaxFaults
  BY FaultType DEF PipelineCrash, Types
<1>2. TypeOK'
  BY <1>1 DEF PipelineCrash, Types, TypeOK
<1>3. lost' \subseteq Ids
  BY PageIds DEF PipelineCrash, Types, PipelineTypeOK
<1>4. PipelineTypeOK'
  BY <1>3, NoMarkType DEF PipelineCrash, Types, PipelineTypeOK, Stage
<1>5. QED
  BY <1>2, <1>4 DEF Types

LEMMA TypesStep == Types /\ [PipelineNext]_allVars => Types'
<1> SUFFICES ASSUME Types, [PipelineNext]_allVars PROVE Types'
  OBVIOUS
<1>1. CASE Next /\ UNCHANGED pipe
  BY <1>1, TypeStep DEF Types, PipelineTypeOK, pipe
<1>2. CASE UNCHANGED allVars
  BY <1>2, TypeStep DEF Types, PipelineTypeOK, pipe, allVars
<1>3. ASSUME NEW p \in Pipelines,
             \/ Pipeline(p) \/ CollectOne(p)
             \/ FetchShotFails(p) \/ PageFails(p) \/ PipelineCrash(p)
      PROVE  Types'
  <2>1. CASE FlushBatch(p)
    BY <2>1, TypesFlush DEF FlushBatch
  <2>2. QED
    BY <1>3, <2>1, TypesPlan, TypesFetchShot, TypesFetchShotFails, TypesPageFails, TypesCrash
    DEF Pipeline, ScanAll, CollectOne
<1>4. QED
  BY <1>1, <1>2, <1>3 DEF PipelineNext

LEMMA TypesInit == PipelineInit => Types
BY InitType, NoMarkType DEF PipelineInit, Types, PipelineTypeOK, Stage

\* Plans, snapshots and what is lost keep their types whatever pipelines and
\* workers run beside each other, fail and die.
THEOREM PipelineTypes == PipelineSpec => []PipelineTypeOK
<1>1. Types => PipelineTypeOK
  BY DEF Types
<1>2. QED
  BY <1>1, TypesInit, TypesStep, PTL DEF PipelineSpec

-----------------------------------------------------------------------------
(* What a plan covers                                                      *)

\* A page of PageSize messages shows at least the PageSize numbers before it.
LEMMA PageCovers ==
    ASSUME NEW b \in 1..MaxId, NEW m \in Shown, m < b, b - PageSize <= m
    PROVE  m \in OnPage(b)
<1> DEFINE S == {k \in Shown : k < b}
           Above == {k \in S : k > m}
<1>1. m \in 1..MaxId /\ Shown \in SUBSET (1..MaxId) /\ PageSize \in Nat /\ MaxId \in Nat
  BY IdsAreIds, WatermarkAssumption
<1>2. Above \in SUBSET (m + 1 .. b - 1)
  <2>1. ASSUME NEW k \in Above PROVE k \in m + 1 .. b - 1
    <3>1. k \in 1..MaxId /\ k < b /\ k > m
      BY <1>1
    <3>2. QED
      BY <1>1, <3>1
  <2>2. QED
    BY <2>1
<1>3. /\ IsFiniteSet(m + 1 .. b - 1)
      /\ Cardinality(m + 1 .. b - 1) = IF m + 1 > b - 1 THEN 0 ELSE (b - 1) - (m + 1) + 1
  BY <1>1, FS_Interval
<1> HIDE DEF Above
<1>4. /\ Cardinality(Above) <= Cardinality(m + 1 .. b - 1)
      /\ Cardinality(Above) \in Nat
  BY <1>2, <1>3, FS_Subset, FS_CardinalityType
<1>5. Cardinality(Above) < PageSize
  BY <1>1, <1>3, <1>4
<1>6. QED
  BY <1>5 DEF OnPage, Newest, Above

\* Cursors a page apart leave no gap between the low mark and the floor.
LEMMA PlanCovers ==
    ASSUME NEW low \in 0..MaxId, NEW n \in 1..PlanPages,
           NEW plan, plan = Planned(low, n), plan # {},
           NEW floor, floor = MaxOr0({1, Least(plan, 1) - PageSize}),
           NEW m \in Shown, floor <= m, m < low
    PROVE  m \in OnPages(plan)
<1> DEFINE least == Least(plan, 1)
           Over == {b \in plan : b > m}
<1>1. /\ plan \in SUBSET (2..low) /\ plan \in SUBSET (1..MaxId)
      /\ least \in plan /\ \A b \in plan : least <= b
      /\ least - PageSize <= floor /\ floor \in 1..low
  BY PlannedType
<1>2. /\ PageSize \in Nat \ {0} /\ PlanPages \in Nat \ {0} /\ MaxId \in Nat
      /\ low \in Nat /\ n \in Nat \ {0} /\ m \in 1..MaxId
  BY WatermarkAssumption, CollectPipelineAssumption, IdsAreIds
<1>3. low \in plan
  <2>1. low \in 2..low
    BY <1>1, <1>2
  <2>2. 0 \in 0..n - 1 /\ low = low - 0 * PageSize
    BY <1>2
  <2>3. QED
    BY <2>1, <2>2 DEF Planned
<1>4. Over \in SUBSET (0..MaxId) /\ Over # {}
  BY <1>1, <1>2, <1>3
<1>5. PICK b \in Over : \A c \in Over : b <= c
  BY <1>4, HasMin
<1>6. b \in plan /\ b > m /\ b \in 1..MaxId /\ b \in 2..low
  BY <1>1, <1>5
<1>7. b - PageSize <= m
  <2>1. SUFFICES ASSUME ~(b - PageSize <= m) PROVE FALSE
    OBVIOUS
  <2> DEFINE next == b - PageSize
  <2>2. next > m /\ next < b /\ next \in 2..low
    BY <1>2, <1>6, <2>1
  <2>3. PICK i \in 0..n - 1 : b = low - i * PageSize
    BY <1>6 DEF Planned
  <2>4. PICK j \in 0..n - 1 : least = low - j * PageSize
    BY <1>1 DEF Planned
  <2>5. /\ i \in Nat /\ j \in Nat /\ i * PageSize \in Nat /\ j * PageSize \in Nat
        /\ (i + 1) * PageSize = i * PageSize + PageSize
    BY <1>2, <2>3, <2>4
  <2>6. least <= m
    <3>1. SUFFICES ASSUME ~(least <= m) PROVE FALSE
      OBVIOUS
    <3>2. least \in Over
      BY <1>1, <1>2, <3>1
    <3>3. b <= least /\ least <= b
      BY <1>1, <1>5, <1>6, <3>2
    <3>4. least - PageSize <= m
      BY <1>1, <1>2
    <3>5. QED
      BY <1>1, <1>2, <1>6, <2>1, <3>3, <3>4
  <2>7. j > i + 1
    <3>1. SUFFICES ASSUME j <= i + 1 PROVE FALSE
      BY <2>5
    <3>2. j * PageSize <= (i + 1) * PageSize
      <4>1. PICK d \in Nat : i + 1 = j + d
        BY <2>5, <3>1
      <4>2. d * PageSize \in Nat /\ (j + d) * PageSize = j * PageSize + d * PageSize
        BY <1>2, <2>5
      <4>3. QED
        BY <2>5, <4>1, <4>2
    <3>3. next = low - (i + 1) * PageSize
      BY <1>2, <2>3, <2>5
    <3>4. next <= least
      BY <1>2, <2>4, <2>5, <3>2, <3>3
    <3>5. QED
      BY <1>1, <1>2, <2>2, <2>6, <3>4
  <2>8. next \in Planned(low, n)
    <3>1. i + 1 \in 0..n - 1
      BY <1>2, <2>4, <2>5, <2>7
    <3>2. next = low - (i + 1) * PageSize
      BY <1>2, <2>3, <2>5
    <3>3. QED
      BY <2>2, <3>1, <3>2 DEF Planned
  <2>9. next \in Over
    BY <2>2, <2>8
  <2>10. QED
    BY <1>5, <1>6, <2>2, <2>9
<1>8. m \in OnPage(b)
  BY <1>6, <1>7, PageCovers
<1>9. QED
  BY <1>6, <1>8 DEF OnPages

\* Posting changes no page that was planned.
LEMMA PageStays ==
    ASSUME newest \in 0..MaxId, newest' \in 0..MaxId, newest <= newest',
           NEW b \in 0..MaxId, b <= newest
    PROVE  OnPage(b)' = OnPage(b)
<1>1. \A m \in Ids : m < b => (m <= newest /\ m <= newest')
  BY IdsAreIds
<1>2. {m \in Shown : m < b} = {m \in Shown' : m < b}
  BY <1>1 DEF Shown
<1>3. QED
  BY <1>2 DEF OnPage

-----------------------------------------------------------------------------
(* Nothing is skipped that is not on its way or lost                       *)

\* What is on its way, or was lost on it.
Rest == lost \cup UNION {OnPages(pages[p]) : p \in Pipelines}

\* The snapshot of p is as right as a worker's copy.
ShotSound(p, h) ==
    /\ \A b \in pages[p] : b <= newest
    /\ stage[p] # "fetched" => got[p] = {}
    /\ stage[p] \in {"planned", "fetched"} =>
         EachSound(shot[p], docs \cup Rest \cup got[p], h, newest)

AccountedFrom(h) ==
    /\ OverlapInv(h, Rest)
    /\ \A p \in Pipelines : ShotSound(p, h)

\* A pipeline's step disturbs no worker.
LEMMA WorkersAside ==
    ASSUME Types, Types', NEW h \in 0..MaxId, OverlapInv(h, Rest),
           docs \cup Rest \subseteq docs' \cup Rest',
           newest' = newest, phase' = phase, view' = view, unsaved' = unsaved,
           result' = result, EachSound(row', docs' \cup Rest', h, newest)
    PROVE  OverlapInv(h, Rest)'
<1>1. PICK E : E = Rest
  OBVIOUS
<1>2. PICK F : F = Rest'
  OBVIOUS
<1>3. TypeOK /\ TypeOK' /\ newest <= newest'
  BY DEF Types, TypeOK
<1>4. ASSUME NEW w \in Workers PROVE CopySound(w, h, Rest)'
  <2>1. CopySound(w, h, E)
    BY <1>1 DEF OverlapInv
  <2>2. docs \cup E \subseteq docs' \cup F
    BY <1>1, <1>2
  <2>3. CopySound(w, h, F)'
    BY <1>3, <2>1, <2>2, CopyKept
  <2>4. QED
    BY <1>2, <2>3 DEF CopySound
<1>5. QED
  BY <1>4 DEF OverlapInv

\* Nor another pipeline.
LEMMA ShotKept ==
    ASSUME Types, Types', NEW h, NEW p \in Pipelines, ShotSound(p, h),
           docs \cup Rest \subseteq docs' \cup Rest', newest <= newest',
           pages'[p] \subseteq pages[p], stage'[p] = stage[p], got'[p] = got[p],
           shot'[p].high = shot[p].high, shot'[p].low = shot[p].low,
           shot'[p].done = shot[p].done, shot'[p].extra = shot[p].extra
    PROVE  ShotSound(p, h)'
<1>1. /\ shot[p] \in Row /\ newest \in 0..MaxId /\ newest' \in 0..MaxId
      /\ pages[p] \in SUBSET (1..MaxId)
  BY DEF Types, TypeOK, PipelineTypeOK
<1>2. \A b \in pages'[p] : b <= newest'
  BY <1>1 DEF ShotSound
<1>3. ASSUME stage[p] \in {"planned", "fetched"}
      PROVE  EachSound(shot'[p], docs' \cup Rest' \cup got[p], h, newest')
  <2>1. EachSound(shot[p], docs \cup Rest \cup got[p], h, newest)
    BY <1>3 DEF ShotSound
  <2>2. docs \cup Rest \cup got[p] \subseteq docs' \cup Rest' \cup got[p]
    OBVIOUS
  <2>3. EachSound(shot[p], docs' \cup Rest' \cup got[p], h, newest')
    BY <1>1, <2>1, <2>2, EachGrows
  <2>4. QED
    BY <2>3, EachAlike
<1>4. QED
  BY <1>2, <1>3 DEF ShotSound

LEMMA AccountPlan ==
    ASSUME Types, Types', NEW h \in 0..MaxId, AccountedFrom(h),
           NEW p \in Pipelines, Plan(p)
    PROVE  AccountedFrom(h)'
<1>1. row \in Row /\ newest \in 0..MaxId
  BY DEF Types, TypeOK
<1>2. PICK n \in 1..PlanPages :
        LET plan  == Planned(row.low, n)
            floor == MaxOr0({1, Least(plan, 1) - PageSize})
        IN
        /\ plan \in SUBSET (1..MaxId)
        /\ pages' = [pages EXCEPT ![p] = plan]
        /\ row' \in Row
        /\ plan = {} => row' = row
        /\ plan # {} => /\ row'.low = floor /\ row'.done = (row.done \/ floor = 1)
                        /\ row'.high = row.high /\ row'.extra = row.extra
  BY <1>1, PlanRow
<1> DEFINE plan  == Planned(row.low, n)
           floor == MaxOr0({1, Least(plan, 1) - PageSize})
<1>3. /\ pages[p] = {} /\ stage[p] = "off" /\ shot' = [shot EXCEPT ![p] = row']
      /\ stage' = [stage EXCEPT ![p] = "planned"] /\ got' = got /\ lost' = lost
      /\ docs' = docs /\ newest' = newest /\ phase' = phase /\ view' = view
      /\ unsaved' = unsaved /\ result' = result
  BY DEF Plan, Snapshot, Running
<1>4. EachSound(row, docs \cup Rest, h, newest) /\ h <= newest
  BY DEF AccountedFrom, OverlapInv
<1>5. row.low \in 1..newest /\ row.low \in 0..MaxId
  BY <1>1, <1>4, RowFields DEF EachSound
<1>6. \A b : OnPage(b)' = OnPage(b)
  BY <1>3 DEF OnPage, Shown
<1>7. /\ Rest \subseteq Rest' /\ OnPages(plan) \subseteq Rest'
  <2>1. pages'[p] = plan /\ \A q \in Pipelines : q # p => pages'[q] = pages[q]
    BY <1>2 DEF Types, PipelineTypeOK
  <2>2. \A q \in Pipelines : pages[q] \subseteq pages'[q]
    BY <1>3, <2>1
  <2> HIDE DEF plan
  <2>3. QED
    BY <1>3, <1>6, <2>1, <2>2 DEF Rest, OnPages
<1>8. EachSound(row', docs' \cup Rest', h, newest)
  <2>1. EachSound(row, docs' \cup Rest', h, newest)
    <3>1. docs \cup Rest \subseteq docs' \cup Rest' /\ newest <= newest
      BY <1>1, <1>3, <1>7
    <3>2. QED
      BY <1>1, <1>4, <3>1, EachGrows
  <2>2. CASE plan = {}
    BY <1>2, <2>1, <2>2
  <2>3. CASE plan # {}
    <3>1. /\ row'.low = floor /\ row'.done = (row.done \/ floor = 1)
          /\ row'.high = row.high /\ row'.extra = row.extra
      BY <1>2, <2>3
    <3>2. floor \in 1..row.low
      BY <1>5, <2>3, PlannedType
    <3>3. \A m \in Shown : floor <= m /\ m < row.low => m \in OnPages(plan)
      BY <1>5, <2>3, PlanCovers
    <3> HIDE DEF plan, floor
    <3>4. ASSUME NEW m \in Ids, m <= h, row'.done \/ row'.low <= m
          PROVE  m \in docs' \cup Rest'
      <4>1. m \in Shown /\ m \in 1..MaxId
        BY <1>1, <1>4, <3>4, IdsAreIds DEF Shown
      <4>2. CASE row.done \/ row.low <= m
        BY <2>1, <3>4, <4>2 DEF EachSound
      <4>3. CASE ~row.done /\ ~(row.low <= m)
        <5>1. floor = 1 \/ floor <= m
          BY <3>1, <3>4, <4>3, Zenon
        <5>2. floor <= m /\ m < row.low
          BY <1>1, <1>5, <3>2, <4>1, <4>3, <5>1
        <5>3. QED
          BY <1>7, <3>3, <4>1, <5>2
      <4>4. QED
        BY <4>2, <4>3
    <3>5. row'.low \in 1..newest
      BY <1>1, <1>5, <3>1, <3>2
    <3>6. Joined(row', docs' \cup Rest')
      BY <2>1, <3>1 DEF EachSound, Joined
    <3>7. QED
      BY <2>1, <3>1, <3>4, <3>5, <3>6 DEF EachSound
  <2>4. QED
    BY <2>2, <2>3
<1>9. OverlapInv(h, Rest)'
  <2>1. docs \cup Rest \subseteq docs' \cup Rest'
    BY <1>3, <1>7
  <2>2. QED
    BY <1>3, <1>8, <2>1, WorkersAside DEF AccountedFrom
<1>10. ASSUME NEW q \in Pipelines PROVE ShotSound(q, h)'
  <2>1. CASE q = p
    <3>1. pages'[p] = plan /\ stage'[p] = "planned" /\ shot'[p] = row'
      BY <1>2, <1>3 DEF Types, PipelineTypeOK
    <3>2. \A b \in plan : b <= newest
      <4>1. \A b \in plan : b \in 2..row.low
        BY DEF Planned
      <4>2. QED
        BY <1>1, <1>5, <4>1
    <3> HIDE DEF plan
    <3>3. row' \in Row /\ newest <= newest /\ docs' \cup Rest' \subseteq docs' \cup Rest' \cup got'[p]
      BY <1>1, <1>2
    <3>4. EachSound(row', docs' \cup Rest' \cup got'[p], h, newest)
      BY <1>1, <1>8, <3>3, EachGrows
    <3>5. got'[p] = {}
      BY <1>3 DEF Plan, Running, AccountedFrom, ShotSound
    <3>6. QED
      BY <1>3, <2>1, <3>1, <3>2, <3>4, <3>5 DEF ShotSound
  <2>2. CASE q # p
    <3>1. /\ pages'[q] = pages[q] /\ stage'[q] = stage[q] /\ got'[q] = got[q]
          /\ shot'[q] = shot[q]
      BY <1>2, <1>3, <2>2 DEF Types, PipelineTypeOK
    <3>2. ShotSound(q, h) /\ newest <= newest' /\ docs \cup Rest \subseteq docs' \cup Rest'
      BY <1>1, <1>3, <1>7 DEF AccountedFrom
    <3>3. QED
      BY <3>1, <3>2, ShotKept
  <2>3. QED
    BY <2>1, <2>2
<1>11. QED
  BY <1>9, <1>10 DEF AccountedFrom

LEMMA AccountFetchShot ==
    ASSUME Types, Types', NEW h \in 0..MaxId, AccountedFrom(h),
           NEW p \in Pipelines, FetchShot(p)
    PROVE  AccountedFrom(h)'
<1> DEFINE messages == Fetched(shot[p], Shown)
           cut == Truncated(shot[p], Shown)
           resumed == Resumed(shot[p], Shown)
           D == (docs \cup Rest \cup got[p]) \cup messages
<1>1. /\ stage[p] = "planned" /\ stage' = [stage EXCEPT ![p] = "fetched"]
      /\ shot' = [shot EXCEPT ![p] = [Visited(shot[p]) EXCEPT !.failures = 0]]
      /\ got' = [got EXCEPT ![p] = messages]
      /\ UNCHANGED <<vars, pages, lost>>
  BY DEF FetchShot, Visited
<1>2. shot[p] \in Row /\ newest \in 0..MaxId /\ newest <= newest
  BY DEF Types, TypeOK, PipelineTypeOK
<1>3. /\ docs' = docs /\ row' = row /\ newest' = newest /\ phase' = phase /\ view' = view
      /\ unsaved' = unsaved /\ result' = result
  BY <1>1 DEF vars
<1>4. Rest' = Rest
  BY <1>1, <1>3 DEF Rest, OnPages, OnPage, Shown
<1>5. ShotSound(p, h)
  BY DEF AccountedFrom
<1>6. EachSound(shot[p], docs \cup Rest \cup got[p], h, newest)
  BY <1>1, <1>5 DEF ShotSound
<1>7. EachSound(resumed, D, h, newest) /\ Ready(resumed, messages, cut, D, newest)
  BY <1>2, <1>6, FetchEach
<1>8. resumed \in Row /\ messages \in SUBSET Ids /\ cut \in BOOLEAN
  BY <1>2, ResumedRow, FetchedIds
<1>9. EachSound(Visited(shot[p]), D, h, newest)
  <2> HIDE DEF D
  <2>1. EachSound(StartBackfill(AdvanceCursor(resumed, messages, cut), messages), D, h, newest)
    BY <1>2, <1>7, <1>8, AdvanceEach
  <2>2. QED
    BY <2>1 DEF Visited
<1>10. stage'[p] = "fetched" /\ got'[p] = messages /\ pages'[p] = pages[p]
  BY <1>1 DEF Types, PipelineTypeOK
<1>11. /\ shot'[p].high = Visited(shot[p]).high /\ shot'[p].low = Visited(shot[p]).low
       /\ shot'[p].done = Visited(shot[p]).done /\ shot'[p].extra = Visited(shot[p]).extra
  <2>1. shot'[p] = [Visited(shot[p]) EXCEPT !.failures = 0]
    BY <1>1 DEF Types, PipelineTypeOK
  <2>2. QED
    BY <1>2, <2>1, VisitedRow
<1>12. EachSound(shot'[p], D, h, newest)
  BY <1>9, <1>11, EachAlike
<1>13. OverlapInv(h, Rest)'
  <2>1. OverlapInv(h, Rest)
    BY DEF AccountedFrom
  <2>2. EachSound(row', docs' \cup Rest', h, newest)
    BY <1>3, <1>4, <2>1 DEF OverlapInv
  <2>3. QED
    BY <1>3, <1>4, <2>1, <2>2, WorkersAside
<1>14. ASSUME NEW q \in Pipelines PROVE ShotSound(q, h)'
  <2>1. CASE q = p
    <3>1. got[p] = {}
      BY <1>1 DEF AccountedFrom, ShotSound
    <3>2. D = docs' \cup Rest' \cup got'[p]
      BY <1>3, <1>4, <1>10, <3>1
    <3> HIDE DEF D, messages
    <3>3. QED
      BY <1>3, <1>5, <1>10, <1>12, <2>1, <3>1, <3>2 DEF ShotSound
  <2>2. CASE q # p
    <3>1. /\ pages'[q] = pages[q] /\ stage'[q] = stage[q] /\ got'[q] = got[q]
          /\ shot'[q] = shot[q]
      BY <1>1, <2>2 DEF Types, PipelineTypeOK
    <3>2. ShotSound(q, h) /\ newest <= newest' /\ docs \cup Rest \subseteq docs' \cup Rest'
      BY <1>2, <1>3, <1>4 DEF AccountedFrom
    <3>3. QED
      BY <3>1, <3>2, ShotKept
  <2>3. QED
    BY <2>1, <2>2
<1>15. QED
  BY <1>13, <1>14 DEF AccountedFrom

LEMMA AccountFetchShotFails ==
    ASSUME Types, Types', NEW h \in 0..MaxId, AccountedFrom(h),
           NEW p \in Pipelines, FetchShotFails(p)
    PROVE  AccountedFrom(h)'
<1>1. /\ stage[p] = "planned"
      /\ stage' = [stage EXCEPT ![p] = "failed"] /\ pages' = pages /\ got' = got /\ lost' = lost
      /\ docs' = docs /\ row' = row /\ newest' = newest /\ phase' = phase /\ view' = view
      /\ unsaved' = unsaved /\ result' = result
  BY DEF FetchShotFails
<1>2. Rest' = Rest /\ newest <= newest'
  BY <1>1 DEF Rest, OnPages, OnPage, Shown, Types, TypeOK
<1>3. OverlapInv(h, Rest)'
  <2>1. OverlapInv(h, Rest)
    BY DEF AccountedFrom
  <2>2. EachSound(row', docs' \cup Rest', h, newest)
    BY <1>1, <1>2, <2>1 DEF OverlapInv
  <2>3. QED
    BY <1>1, <1>2, <2>1, <2>2, WorkersAside
<1>4. ASSUME NEW q \in Pipelines PROVE ShotSound(q, h)'
  <2>1. ShotSound(q, h)
    BY DEF AccountedFrom
  <2>2. CASE q = p
    <3>1. stage'[q] = "failed" /\ pages'[q] = pages[q]
      BY <1>1, <2>2 DEF Types, PipelineTypeOK
    <3>2. QED
      BY <1>1, <2>1, <3>1 DEF ShotSound
  <2>3. CASE q # p
    <3>1. stage'[q] = stage[q] /\ pages'[q] \subseteq pages[q] /\ got'[q] = got[q]
      BY <1>1, <2>3 DEF Types, PipelineTypeOK
    <3>2. /\ shot'[q].high = shot[q].high /\ shot'[q].low = shot[q].low
          /\ shot'[q].done = shot[q].done /\ shot'[q].extra = shot[q].extra
      BY TypesFetchShotFails
    <3>3. QED
      BY <1>1, <1>2, <2>1, <3>1, <3>2, ShotKept
  <2>4. QED
    BY <2>2, <2>3
<1>5. QED
  BY <1>3, <1>4 DEF AccountedFrom

\* Pages that leave the plan of p are stored, or count as lost.
LEMMA PagesLeave ==
    ASSUME Types, NEW p \in Pipelines, NEW batch, newest' = newest,
           pages' = [pages EXCEPT ![p] = @ \ batch],
           lost \subseteq lost', docs \subseteq docs',
           OnPages(batch) \subseteq docs' \cup lost'
    PROVE  docs \cup Rest \subseteq docs' \cup Rest'
<1>1. \A b : OnPage(b)' = OnPage(b)
  BY DEF OnPage, Shown
<1>2. ASSUME NEW q \in Pipelines, NEW b \in pages[q], b \notin batch
      PROVE  b \in pages'[q]
  BY <1>2 DEF Types, PipelineTypeOK
<1>3. ASSUME NEW q \in Pipelines, NEW b \in pages[q], NEW m \in OnPage(b)
      PROVE  m \in docs' \cup Rest'
  <2>1. CASE b \in batch
    BY <1>3, <2>1 DEF OnPages, Rest
  <2>2. CASE b \notin batch
    <3>1. b \in pages'[q] /\ m \in OnPage(b)'
      BY <1>1, <1>2, <1>3, <2>2
    <3>2. QED
      BY <3>1 DEF Rest, OnPages
  <2>3. QED
    BY <2>1, <2>2
<1>4. QED
  BY <1>3 DEF Rest, OnPages

LEMMA AccountFlush ==
    ASSUME Types, Types', NEW h \in 0..MaxId, AccountedFrom(h),
           NEW p \in Pipelines, FlushBatch(p)
    PROVE  AccountedFrom(h)'
<1>1. PICK batch \in SUBSET pages[p], visit \in BOOLEAN :
        /\ visit => stage[p] \in {"fetched", "failed"}
        /\ Flush(p, batch, visit)
  BY DEF FlushBatch
<1>2. /\ docs' = docs \cup OnPages(batch) \cup (IF visit THEN got[p] ELSE {})
      /\ row' = IF visit THEN Copied(row, shot[p], stage[p]) ELSE row
      /\ pages' = [pages EXCEPT ![p] = @ \ batch]
      /\ newest' = newest /\ phase' = phase /\ view' = view
      /\ unsaved' = unsaved /\ result' = result /\ lost' = lost
  BY <1>1 DEF Flush
<1>3. docs \cup Rest \subseteq docs' \cup Rest'
  <2>1. /\ docs \subseteq docs' /\ lost \subseteq lost'
        /\ OnPages(batch) \subseteq docs' \cup lost'
    BY <1>2
  <2>2. QED
    BY <1>2, <2>1, PagesLeave
<1>4. /\ shot[p] \in Row /\ row \in Row /\ newest \in 0..MaxId /\ newest <= newest
  BY DEF Types, TypeOK, PipelineTypeOK
<1>5. EachSound(row, docs' \cup Rest', h, newest)
  BY <1>3, <1>4, EachGrows DEF AccountedFrom, OverlapInv
<1>6. EachSound(row', docs' \cup Rest', h, newest)
  <2>1. CASE visit /\ stage[p] = "fetched"
    <3>1. EachSound(shot[p], docs \cup Rest \cup got[p], h, newest)
      BY <2>1 DEF AccountedFrom, ShotSound
    <3>2. docs \cup Rest \cup got[p] \subseteq docs' \cup Rest'
      BY <1>2, <1>3, <2>1
    <3>3. EachSound(shot[p], docs' \cup Rest', h, newest)
      BY <1>4, <3>1, <3>2, EachGrows
    <3>4. row' = Copied(row, shot[p], stage[p])
      BY <1>2, <2>1
    <3>5. QED
      BY <1>4, <2>1, <3>3, <3>4, CopiedRow, EachAlike
  <2>2. CASE visit /\ stage[p] # "fetched"
    <3>1. row' = Copied(row, shot[p], stage[p])
      BY <1>2, <2>2
    <3>2. QED
      BY <1>4, <1>5, <2>2, <3>1, CopiedRow, EachAlike
  <2>3. CASE ~visit
    BY <1>2, <1>5, <2>3
  <2>4. QED
    BY <2>1, <2>2, <2>3
<1>7. OverlapInv(h, Rest)'
  BY <1>2, <1>3, <1>6, WorkersAside DEF AccountedFrom
<1>8. ASSUME NEW q \in Pipelines PROVE ShotSound(q, h)'
  <2>1. ShotSound(q, h) /\ pages'[q] \subseteq pages[q] /\ newest <= newest'
    BY <1>2, <1>4 DEF AccountedFrom, Types, PipelineTypeOK
  <2>2. CASE q = p /\ visit
    <3>1. stage'[q] = "off" /\ got'[q] = {}
      BY <1>1, <2>2 DEF Flush, Types, PipelineTypeOK
    <3>2. QED
      BY <1>2, <2>1, <3>1 DEF ShotSound
  <2>3. CASE q # p \/ ~visit
    <3>1. stage'[q] = stage[q] /\ got'[q] = got[q] /\ shot'[q] = shot[q]
      BY <1>1, <2>3 DEF Flush, Types, PipelineTypeOK
    <3>2. QED
      BY <1>3, <2>1, <3>1, ShotKept
  <2>4. QED
    BY <2>2, <2>3
<1>9. QED
  BY <1>7, <1>8 DEF AccountedFrom

LEMMA AccountPageFails ==
    ASSUME Types, Types', NEW h \in 0..MaxId, AccountedFrom(h),
           NEW p \in Pipelines, PageFails(p)
    PROVE  AccountedFrom(h)'
<1>1. PICK b \in pages[p] : /\ pages' = [pages EXCEPT ![p] = @ \ {b}]
                            /\ lost' = lost \cup OnPage(b)
  BY DEF PageFails
<1>2. /\ stage' = stage /\ shot' = shot /\ got' = got
      /\ docs' = docs /\ row' = row /\ newest' = newest /\ phase' = phase /\ view' = view
      /\ unsaved' = unsaved /\ result' = result
  BY DEF PageFails
<1>3. docs \cup Rest \subseteq docs' \cup Rest'
  <2>1. /\ docs \subseteq docs' /\ lost \subseteq lost'
        /\ OnPages({b}) \subseteq docs' \cup lost'
    BY <1>1, <1>2 DEF OnPages
  <2>2. QED
    BY <1>1, <1>2, <2>1, PagesLeave
<1>4. row \in Row /\ newest \in 0..MaxId /\ newest <= newest /\ newest <= newest'
  BY <1>2 DEF Types, TypeOK
<1>5. EachSound(row', docs' \cup Rest', h, newest)
  BY <1>2, <1>3, <1>4, EachGrows DEF AccountedFrom, OverlapInv
<1>6. OverlapInv(h, Rest)'
  BY <1>2, <1>3, <1>5, WorkersAside DEF AccountedFrom
<1>7. ASSUME NEW q \in Pipelines PROVE ShotSound(q, h)'
  <2>1. ShotSound(q, h) /\ pages'[q] \subseteq pages[q]
    BY <1>1 DEF AccountedFrom, Types, PipelineTypeOK
  <2>2. QED
    BY <1>2, <1>3, <1>4, <2>1, ShotKept
<1>8. QED
  BY <1>6, <1>7 DEF AccountedFrom

LEMMA AccountCrash ==
    ASSUME Types, Types', NEW h \in 0..MaxId, AccountedFrom(h),
           NEW p \in Pipelines, PipelineCrash(p)
    PROVE  AccountedFrom(h)'
<1>1. /\ pages' = [pages EXCEPT ![p] = {}] /\ lost' = lost \cup OnPages(pages[p])
      /\ stage' = [stage EXCEPT ![p] = "off"] /\ shot' = [shot EXCEPT ![p] = NoMark]
      /\ got' = [got EXCEPT ![p] = {}]
      /\ docs' = docs /\ row' = row /\ newest' = newest /\ phase' = phase /\ view' = view
      /\ unsaved' = unsaved /\ result' = result
  BY DEF PipelineCrash
<1>2. docs \cup Rest \subseteq docs' \cup Rest'
  <2>1. pages' = [pages EXCEPT ![p] = @ \ pages[p]]
    BY <1>1
  <2>2. /\ docs \subseteq docs' /\ lost \subseteq lost'
        /\ OnPages(pages[p]) \subseteq docs' \cup lost'
    BY <1>1
  <2>3. QED
    BY <1>1, <2>1, <2>2, PagesLeave
<1>3. row \in Row /\ newest \in 0..MaxId /\ newest <= newest /\ newest <= newest'
  BY <1>1 DEF Types, TypeOK
<1>4. EachSound(row', docs' \cup Rest', h, newest)
  BY <1>1, <1>2, <1>3, EachGrows DEF AccountedFrom, OverlapInv
<1>5. OverlapInv(h, Rest)'
  BY <1>1, <1>2, <1>4, WorkersAside DEF AccountedFrom
<1>6. ASSUME NEW q \in Pipelines PROVE ShotSound(q, h)'
  <2>1. ShotSound(q, h)
    BY DEF AccountedFrom
  <2>2. CASE q = p
    <3>1. stage'[q] = "off" /\ pages'[q] = {} /\ got'[q] = {}
      BY <1>1, <2>2 DEF Types, PipelineTypeOK
    <3>2. QED
      BY <3>1 DEF ShotSound
  <2>3. CASE q # p
    <3>1. /\ pages'[q] = pages[q] /\ stage'[q] = stage[q] /\ got'[q] = got[q]
          /\ shot'[q] = shot[q]
      BY <1>1, <2>3 DEF Types, PipelineTypeOK
    <3>2. QED
      BY <1>2, <1>3, <2>1, <3>1, ShotKept
  <2>4. QED
    BY <2>2, <2>3
<1>7. QED
  BY <1>5, <1>6 DEF AccountedFrom

\* A worker, the channel or the operator: nothing stored is taken away, and
\* planned pages stay what they are.
LEMMA QueueGrows ==
    ASSUME TypeOK, [Next]_vars
    PROVE  docs \subseteq docs' /\ newest <= newest'
<1>1. ~Reset /\ ~ResetCursor
  BY CollectPipelineAssumption DEF Reset, ResetCursor, ResetMarks, Fault
<1>2. newest \in 0..MaxId
  BY DEF TypeOK
<1>3. ASSUME NEW w \in Workers,
             \/ Work(w) \/ Save(w) \/ Forget(w)
             \/ FetchFails(w) \/ BackfillFails(w) \/ Crash(w)
      PROVE  docs \subseteq docs' /\ newest' = newest
  BY <1>3 DEF Work, Claim, Fetch, Advance, Backfill, BackfillFails, Chunk, Return, Save, Store,
     Forget, Crash, Drop, FetchFails
<1>4. QED
  BY <1>1, <1>2, <1>3 DEF Next, Post, Expire, Rewind, Toggle, vars

LEMMA AccountQueue ==
    ASSUME Types, Types', NEW h \in 0..MaxId, AccountedFrom(h),
           [Next]_vars, UNCHANGED pipe
    PROVE  AccountedFrom(h)'
<1>1. docs \subseteq docs' /\ newest <= newest'
  BY QueueGrows DEF Types
<1>2. /\ pages' = pages /\ stage' = stage /\ shot' = shot /\ got' = got /\ lost' = lost
  BY DEF pipe
<1>3. /\ newest \in 0..MaxId /\ newest' \in 0..MaxId
      /\ \A p \in Pipelines : pages[p] \in SUBSET (0..MaxId) /\ \A b \in pages[p] : b <= newest
  <2>1. newest \in 0..MaxId /\ newest' \in 0..MaxId
    BY DEF Types, TypeOK
  <2>2. ASSUME NEW p \in Pipelines
        PROVE  pages[p] \in SUBSET (0..MaxId) /\ \A b \in pages[p] : b <= newest
    <3>1. pages[p] \in SUBSET (1..MaxId) /\ ShotSound(p, h)
      BY DEF Types, PipelineTypeOK, AccountedFrom
    <3>2. QED
      BY <3>1 DEF ShotSound
  <2>3. QED
    BY <2>1, <2>2
<1>4. \A p \in Pipelines : \A b \in pages[p] : OnPage(b)' = OnPage(b)
  BY <1>1, <1>3, PageStays
<1>5. Rest' = Rest
  <2>1. \A p \in Pipelines : OnPages(pages[p])' = OnPages(pages[p])
    BY <1>2, <1>4 DEF OnPages
  <2>2. QED
    BY <1>2, <2>1 DEF Rest
<1>6. OverlapInv(h, Rest)'
  <2>1. PICK E : E = Rest
    OBVIOUS
  <2>2. OverlapInv(h, E)
    BY <2>1 DEF AccountedFrom
  <2>3. OverlapInv(h, E)'
    BY <2>2, OverlapStep, CollectPipelineAssumption DEF Types
  <2>4. E = Rest'
    BY <1>5, <2>1
  <2>5. QED
    BY <2>3, <2>4 DEF OverlapInv, CopySound
<1>7. ASSUME NEW q \in Pipelines PROVE ShotSound(q, h)'
  <2>1. ShotSound(q, h) /\ docs \cup Rest \subseteq docs' \cup Rest'
    BY <1>1, <1>5 DEF AccountedFrom
  <2>2. QED
    BY <1>1, <1>2, <2>1, ShotKept
<1>8. QED
  BY <1>6, <1>7 DEF AccountedFrom

LEMMA AccountStep ==
    ASSUME Types, Types', NEW h \in 0..MaxId, AccountedFrom(h), [PipelineNext]_allVars
    PROVE  AccountedFrom(h)'
<1>1. CASE Next /\ UNCHANGED pipe
  BY <1>1, AccountQueue
<1>2. CASE UNCHANGED allVars
  BY <1>2, AccountQueue DEF allVars
<1>3. ASSUME NEW p \in Pipelines,
             \/ Pipeline(p) \/ CollectOne(p)
             \/ FetchShotFails(p) \/ PageFails(p) \/ PipelineCrash(p)
      PROVE  AccountedFrom(h)'
  BY <1>3, AccountPlan, AccountFetchShot, AccountFlush, AccountFetchShotFails, AccountPageFails,
     AccountCrash DEF Pipeline, ScanAll, CollectOne
<1>4. QED
  BY <1>1, <1>2, <1>3 DEF PipelineNext

\* Every mark, in the row, in a worker's copy and in a snapshot, tells the truth.
AccountInv == \E h \in 0..MaxId : AccountedFrom(h)

LEMMA AccountInit ==
    ASSUME Begun
    PROVE  PipelineInit => AccountInv
<1>1. SUFFICES ASSUME PipelineInit PROVE AccountInv
  OBVIOUS
<1>2. Init /\ TypeOK
  BY <1>1, InitType DEF PipelineInit
<1>3. PICK E : E = Rest
  OBVIOUS
<1>4. row.high \in 0..MaxId /\ OverlapInv(row.high, E)
  BY <1>2, OverlapInit
<1>5. \A p \in Pipelines : ShotSound(p, row.high)
  BY <1>1 DEF PipelineInit, ShotSound
<1>6. QED
  BY <1>3, <1>4, <1>5 DEF AccountInv, AccountedFrom

\* Beside workers in any overlap and other pipelines, no message of a source
\* whose backfill has begun is skipped but what is on a page that is still out,
\* or was on one whose request failed or whose process died: planning may commit
\* a low mark before anything is read, batches may be stored in any order, and a
\* snapshot may be copied over a row that has moved on.
THEOREM PipelineAccounts ==
    ASSUME Begun
    PROVE  PipelineSpec => []Accounted
<1>1. PipelineInit => Types /\ AccountInv
  BY TypesInit, AccountInit
<1>2. Types /\ AccountInv /\ [PipelineNext]_allVars => (Types /\ AccountInv)'
  <2> SUFFICES ASSUME Types, AccountInv, [PipelineNext]_allVars PROVE (Types /\ AccountInv)'
    OBVIOUS
  <2>1. Types'
    BY TypesStep
  <2>2. PICK h \in 0..MaxId : AccountedFrom(h)
    BY DEF AccountInv
  <2>3. AccountedFrom(h)'
    BY <2>1, <2>2, AccountStep
  <2>4. QED
    BY <2>1, <2>3 DEF AccountInv
<1>3. Types /\ AccountInv => Accounted
  <2>1. SUFFICES ASSUME Types, AccountInv, NEW m \in Promised(row) PROVE m \in docs \cup Rest
    BY DEF Accounted, Rest
  <2>2. PICK h \in 0..MaxId : AccountedFrom(h)
    BY <2>1 DEF AccountInv
  <2>3. /\ m \in Ids /\ m <= row.high
        /\ row.done \/ (row.low # 0 /\ row.low <= m)
    BY IdsAreIds DEF Promised
  <2>4. row \in Row /\ newest \in 0..MaxId /\ EachSound(row, docs \cup Rest, h, newest)
    BY <2>1, <2>2 DEF Types, TypeOK, AccountedFrom, OverlapInv
  <2>5. QED
    BY <2>3, <2>4, EachPromise
<1>4. QED
  BY <1>1, <1>2, <1>3, PTL DEF PipelineSpec
=============================================================================
