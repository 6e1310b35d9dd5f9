------------------------------ MODULE Watermark ------------------------------
(***************************************************************************)
(* The watermark of a channel and how one visit moves it: catching up with *)
(* what is new, backfilling what is old (collect/telegram.py,              *)
(* collect/runner.py).  The operators map a row of the table source, which *)
(* is defined where it lives, by its columns                               *)
(*   high   cursor_message_id: the newest message accounted for            *)
(*   low    backfill_cursor_id: where the backfill has got to              *)
(*   done   backfill_done                                                  *)
(*   extra  the catch-up in progress, a JSON column that is written whole  *)
(* A message is its number; 0 stands for None.                             *)
(***************************************************************************)
EXTENDS FiniteSetsExt

CONSTANTS
    MaxId,       \* bound on the messages ever posted
    Gaps,        \* numbers that show no message (deleted, service messages)
    PageSize,    \* messages on a page, TELEGRAM_PAGE_STRIDE
    MaxPages,    \* pages of one fetch, source.max_pages_per_fetch
    ChunkPages   \* pages of one backfill call, _MAX_BACKFILL_PAGES_PER_RUN

ASSUME WatermarkAssumption ==
    /\ MaxId \in Nat
    /\ PageSize \in Nat \ {0}
    /\ MaxPages \in Nat \ {0}
    /\ ChunkPages \in Nat \ {0}

Ids == (1..MaxId) \ Gaps

Extra == [pending : 0..MaxId,    \* pending_cursor
          before  : 0..MaxId]    \* catchup_before

NoExtra == [pending |-> 0, before |-> 0]

\* The n newest of the messages S: what paging back from the newest returns.
Newest(S, n) == {m \in S : Cardinality({k \in S : k > m}) < n}

MaxOr0(S) == Max(S \cup {0})
Least(S, default) == IF S = {} THEN default ELSE Min(S)

-----------------------------------------------------------------------------
(* TelegramChannelCollector.fetch                                          *)

\* The messages on the pages from the resume point back.
Reach(src, shown) ==
    LET from == {m \in shown : src.extra.before = 0 \/ m < src.extra.before} IN
    Newest(from, IF src.high = 0 THEN PageSize ELSE MaxPages * PageSize)

\* The pages ran out above the high mark: the last one was not empty and none
\* of them crossed the src.  The first fetch of a source reads one page.
Truncated(src, shown) ==
    /\ src.high # 0
    /\ Cardinality(Reach(src, shown)) > (MaxPages - 1) * PageSize
    /\ \A m \in Reach(src, shown) : m > src.high

Fetched(src, shown) == {m \in Reach(src, shown) : m > src.high}

\* Mutant: the next catch-up resumes at the high mark.
ResumedAtMark(src, shown) ==
    [src EXCEPT !.extra.before = IF Truncated(src, shown) THEN src.high ELSE 0]

\* Where the next catch-up resumes, merged into extra before anything is stored.
Resumed(src, shown) ==
    [src EXCEPT !.extra.before = IF Truncated(src, shown) THEN Min(Reach(src, shown)) ELSE 0]

-----------------------------------------------------------------------------
(* runner.collect_source after the fetch                                   *)

\* Mutant: a truncated fetch moves the high mark at once.
AdvancedAtOnce(src, messages, cut) ==
    [src EXCEPT !.high = MaxOr0(messages \cup {@, src.extra.pending}), !.extra.pending = 0]

\* Mutant: the high mark is the next message expected.
AdvancedPast(src, messages, cut) ==
    LET highest == MaxOr0(messages \cup {src.extra.pending}) IN
    IF cut THEN [src EXCEPT !.extra.pending = highest]
    ELSE [src EXCEPT !.high = MaxOr0({@, highest + 1}), !.extra.pending = 0]

\* _advance_cursor: a catch-up that is not finished only notes where it will
\* end.  With nothing seen and nothing pending, neither branch changes a thing.
AdvanceCursor(src, messages, cut) ==
    LET highest == MaxOr0(messages \cup {src.extra.pending}) IN
    IF cut THEN [src EXCEPT !.extra.pending = highest]
    ELSE [src EXCEPT !.high = MaxOr0({@, highest}), !.extra.pending = 0]

\* The low mark starts at the oldest message of the first fetch, or at the high mark.
StartBackfill(src, messages) ==
    [src EXCEPT !.low = IF @ = 0 THEN Least(messages, src.high) ELSE @]

-----------------------------------------------------------------------------
(* TelegramChannelCollector.backfill and runner._run_backfill              *)

Older(src, shown) == {m \in shown : m < src.low}

\* Mutant: the history is taken as complete when a chunk came back full.
ChunkIsLastEarly(src, shown) == TRUE

\* The top of the history: message 1, or an empty page among those of the chunk.
ChunkIsLast(src, shown) ==
    \/ 1 \in Newest(Older(src, shown), ChunkPages * PageSize)
    \/ Cardinality(Older(src, shown)) <= (ChunkPages - 1) * PageSize

\* Requests may fail after k pages; what they brought is kept.
MayStopAt(src, shown, k) ==
    /\ src.low > 1
    /\ k < ChunkPages
    /\ k > 0 => Cardinality(Older(src, shown)) > (k - 1) * PageSize
    /\ 1 \notin Newest(Older(src, shown), k * PageSize)

Backfilled(src, took, last) ==
    [src EXCEPT !.low = Least(took, @), !.done = @ \/ last]
=============================================================================
