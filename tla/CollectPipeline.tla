--------------------------- MODULE CollectPipeline ---------------------------
(***************************************************************************)
(* The command-line pipelines beside the workers                           *)
(* (collect/concurrent_runner.py).  A producer plans the pages of the      *)
(* backfill by arithmetic and commits the low mark before any of them is   *)
(* read; threads read the pages and, on a snapshot of the row, what is     *)
(* new; one consumer stores results in batches, in any order, and copies   *)
(* the snapshot over the row.  No step looks at the lease.                 *)
(***************************************************************************)
EXTENDS CollectQueue

CONSTANTS
    Pipelines,    \* the processes that run `funflix collect`
    PlanPages     \* pages planned at a visit, _TELEGRAM_PAGES_PER_VISIT

\* The marks are not reset while a pipeline runs.
ASSUME CollectPipelineAssumption == PlanPages \in Nat \ {0} /\ "reset" \notin Faults

VARIABLES
    pages,    \* pages[p]: before-cursors planned by p and not yet stored
    stage,    \* stage[p]: how far the visit of the source as a whole is
    shot,     \* shot[p]: the snapshot it works on
    got,      \* got[p]: the messages it fetched
    lost      \* messages on pages that failed or died with their process

pipe == <<pages, stage, shot, got, lost>>
allVars == <<vars, pipe>>

Stage == {"off", "planned", "fetched", "failed"}

PipelineTypeOK ==
    /\ pages \in [Pipelines -> SUBSET (1..MaxId)]
    /\ stage \in [Pipelines -> Stage]
    /\ shot \in [Pipelines -> Row]
    /\ got \in [Pipelines -> SUBSET Ids]
    /\ lost \subseteq Ids

PipelineInit ==
    /\ Init
    /\ pages = [p \in Pipelines |-> {}]
    /\ stage = [p \in Pipelines |-> "off"]
    /\ shot = [p \in Pipelines |-> NoMark]
    /\ got = [p \in Pipelines |-> {}]
    /\ lost = {}

\* What the page before b shows.  Posting never changes it.
OnPage(b) == Newest({m \in Shown : m < b}, PageSize)
OnPages(B) == UNION {OnPage(b) : b \in B}

Running(p) == stage[p] # "off" \/ pages[p] # {}

-----------------------------------------------------------------------------
(* The producer                                                            *)

\* Mutant: the cursor is moved down before it is noted.
PlannedMoved(low, n) == {b \in 2..low : \E i \in 1..n : b = low - i * PageSize}

\* Mutant: planning does not stop at message 1.
PlannedToZero(low, n) == {b \in 0..low : \E i \in 0..n - 1 : b = low - i * PageSize}

\* plan_backfill_pages: cursors a page apart, down to message 1.
Planned(low, n) == {b \in 2..low : \E i \in 0..n - 1 : b = low - i * PageSize}

\* _detached_copy: the visit works on the row as it is planned.
Snapshot(p, src) == shot' = [shot EXCEPT ![p] = src]

\* What is left of `limit`, one task at least, may cut the plan short.
Plan(p) ==
    /\ ~Running(p)
    /\ \E n \in 1..PlanPages :
         LET plan  == Planned(row.low, n)
             floor == MaxOr0({1, Least(plan, 1) - PageSize})
         IN
         /\ pages' = [pages EXCEPT ![p] = plan]
         /\ row' = IF plan = {} THEN row
                   ELSE [row EXCEPT !.low = floor, !.done = @ \/ floor = 1]
    /\ Snapshot(p, row')
    /\ stage' = [stage EXCEPT ![p] = "planned"]
    /\ UNCHANGED <<newest, docs, phase, view, base, unsaved, result, faults, got, lost>>

\* A run over all sources takes the enabled ones, `funflix collect <id>` any.
ScanAll(p) == row.enabled /\ Plan(p)
CollectOne(p) == Plan(p)

-----------------------------------------------------------------------------
(* The processors: _run_opaque_source on the snapshot                      *)

FetchShot(p) ==
    /\ stage[p] = "planned"
    /\ LET messages == Fetched(shot[p], Shown)
           src == StartBackfill(
                    AdvanceCursor(Resumed(shot[p], Shown), messages,
                                  Truncated(shot[p], Shown)),
                    messages)
       IN
       /\ shot' = [shot EXCEPT ![p] = [src EXCEPT !.failures = 0]]
       /\ got' = [got EXCEPT ![p] = messages]
    /\ stage' = [stage EXCEPT ![p] = "fetched"]
    /\ UNCHANGED <<vars, pages, lost>>

FetchShotFails(p) ==
    /\ stage[p] = "planned"
    /\ Fault("request")
    /\ LET failures == Counted(shot[p].failures) IN
       shot' = [shot EXCEPT ![p].failures = failures,
                            ![p].enabled  = @ /\ failures < MaxFailures]
    /\ stage' = [stage EXCEPT ![p] = "failed"]
    /\ UNCHANGED <<newest, docs, row, phase, view, base, unsaved, result, pages, got, lost>>

-----------------------------------------------------------------------------
(* The consumer: _flush_batch and _consume_opaque                          *)

\* Mutant: the state of the collector is not among the fields copied.
CopiedWithoutExtra(src, snapshot, outcome) ==
    CASE outcome = "fetched" ->
           [src EXCEPT !.high = snapshot.high, !.low = snapshot.low,
                       !.done = snapshot.done, !.failures = snapshot.failures]
      [] outcome = "failed" ->
           [src EXCEPT !.failures = snapshot.failures, !.enabled = snapshot.enabled]
      [] OTHER -> src

\* _OPAQUE_COPY_FIELDS and _OPAQUE_FAILURE_COPY_FIELDS.
Copied(src, snapshot, outcome) ==
    CASE outcome = "fetched" ->
           [src EXCEPT !.high = snapshot.high, !.low = snapshot.low,
                       !.done = snapshot.done, !.extra = snapshot.extra,
                       !.failures = snapshot.failures]
      [] outcome = "failed" ->
           [src EXCEPT !.failures = snapshot.failures, !.enabled = snapshot.enabled]
      [] OTHER -> src

\* One batch: any pages read by then, and the visit if it is among them.
Flush(p, batch, visit) ==
    /\ docs' = docs \cup OnPages(batch) \cup (IF visit THEN got[p] ELSE {})
    /\ row' = IF visit THEN Copied(row, shot[p], stage[p]) ELSE row
    /\ pages' = [pages EXCEPT ![p] = @ \ batch]
    /\ IF visit
       THEN /\ stage' = [stage EXCEPT ![p] = "off"]
            /\ shot' = [shot EXCEPT ![p] = NoMark]
            /\ got' = [got EXCEPT ![p] = {}]
       ELSE UNCHANGED <<stage, shot, got>>
    /\ UNCHANGED <<newest, phase, view, base, unsaved, result, faults, lost>>

FlushBatch(p) ==
    \E batch \in SUBSET pages[p], visit \in BOOLEAN :
      /\ batch # {} \/ visit
      /\ visit => stage[p] \in {"fetched", "failed"}
      /\ Flush(p, batch, visit)

\* A page whose request fails counts as one without messages.
PageFails(p) ==
    /\ Fault("request")
    /\ \E b \in pages[p] :
         /\ pages' = [pages EXCEPT ![p] = @ \ {b}]
         /\ lost' = lost \cup OnPage(b)
    /\ UNCHANGED <<newest, docs, row, phase, view, base, unsaved, result, stage, shot, got>>

\* The process dies, or a batch fails to be stored: nothing plans its pages again.
PipelineCrash(p) ==
    /\ Running(p)
    /\ Fault("crash")
    /\ lost' = lost \cup OnPages(pages[p])
    /\ pages' = [pages EXCEPT ![p] = {}]
    /\ stage' = [stage EXCEPT ![p] = "off"]
    /\ shot' = [shot EXCEPT ![p] = NoMark]
    /\ got' = [got EXCEPT ![p] = {}]
    /\ UNCHANGED <<newest, docs, row, phase, view, base, unsaved, result>>

-----------------------------------------------------------------------------
Pipeline(p) == ScanAll(p) \/ FetchShot(p) \/ FlushBatch(p)

PipelineNext ==
    \/ Next /\ UNCHANGED pipe
    \/ \E p \in Pipelines :
         \/ Pipeline(p) \/ CollectOne(p)
         \/ FetchShotFails(p) \/ PageFails(p) \/ PipelineCrash(p)

PipelineSpec == PipelineInit /\ [][PipelineNext]_allVars

\* A pipeline that is not killed runs to its end and is started again.
PipelineFairSpec ==
    /\ PipelineSpec
    /\ \A p \in Pipelines : WF_allVars(Pipeline(p))

\* Whatever the row says has been read is stored, or on a page that is still
\* on its way, or was on one that failed or died on the way.
Accounted ==
    Promised(row) \subseteq docs \cup lost \cup UNION {OnPages(pages[p]) : p \in Pipelines}

\* Nothing else is lost: every message is stored in the end, or was on such a
\* page, or the source was disabled.
StoredOrLost ==
    \A m \in Ids : newest >= m ~> m \in docs \cup lost \/ ~row.enabled
=============================================================================
