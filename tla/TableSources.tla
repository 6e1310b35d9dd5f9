----------------------------- MODULE TableSources -----------------------------
(***************************************************************************)
(* Sources that are lists and not channels: the sheets of a Tencent        *)
(* document (services/collect/tencent_sheet.py), the sheets of a KDocs     *)
(* table (kdocs.py), and the discussions an index page links to            *)
(* (collection.py).  A visit fetches what is new, stores it with the marks *)
(* of the collector, reopens the backfill if that is asked for, and reads  *)
(* on in calls of a few pages (runner.py).  Each answer shows the table as *)
(* it is at that moment; rows are added at its end.  Who may visit a       *)
(* source is CollectQueue's.                                               *)
(***************************************************************************)
EXTENDS Integers, FiniteSets, FiniteSetsExt

CONSTANTS
    SourceKinds,   \* some of "sheet", "records", "index"
    SheetCount,    \* sheets are 1..SheetCount, in the order of the document
    MaxRows,       \* bound: rows of a sheet, discussions of an index
    PageRows,      \* rows in an answer
    MaxPages,      \* max_pages_per_fetch
    MaxHitches     \* bound: failed requests, crashes, and changes that add no row

ASSUME TableSourcesAssumption ==
    /\ SourceKinds \subseteq {"sheet", "records", "index"}
    /\ {SheetCount, MaxRows, PageRows, MaxPages} \subseteq Nat \ {0}
    /\ MaxHitches \in Nat

Sheets == 1..SheetCount

VARIABLES
    kind,
    table,     \* table[t]: the rows sheet t has, and its version
    marks,     \* what the row of the source says: extra, backfill_done, and the
               \* low and high marks of an index
    look,      \* the visit: its stage, what it has read and not committed
    stored,    \* <<sheet, row>>s stored
    late,      \* rows that were added below the offset of their sheet
    hitches

tables == <<kind, table, marks, look, stored, late, hitches>>

\* off: row_offset or the next cursor, 0 for none; tail: the cursor of the last page.
NoMarks == [of |-> [t \in Sheets |-> [off |-> 0, total |-> 0, version |-> 0, tail |-> 0, finished |-> FALSE]],
            done |-> FALSE, low |-> 0, head |-> 0]
NoLook == [stage |-> "idle", todo |-> {}, draft |-> NoMarks, old |-> NoMarks, got |-> {},
           sheet |-> 0, pages |-> 0, closing |-> FALSE]

TablesInit ==
    /\ kind \in SourceKinds
    /\ table = [t \in Sheets |-> IF kind = "index" THEN [rows |-> 1, version |-> 2]
                                 ELSE [rows |-> 0, version |-> 1]]
    /\ marks = NoMarks /\ look = NoLook
    /\ stored = {} /\ late = {} /\ hitches = 0

TablesTypeOK ==
    /\ table \in [Sheets -> [rows : 0..MaxRows, version : 1..1 + MaxRows + MaxHitches]]
    /\ \A t \in Sheets : /\ marks.of[t].off \in 0..MaxRows + PageRows /\ marks.of[t].total \in 0..MaxRows
                         /\ marks.of[t].version \in 0..table[t].version
    /\ marks.done \in BOOLEAN /\ marks.low \in 0..MaxRows /\ marks.head \in 0..MaxRows
    /\ look.stage \in {"idle", "fetch", "reopen", "backfill", "chunk", "end"}
    /\ stored \subseteq Sheets \X (1..MaxRows)

RowsOf(t, from, to) == {t} \X (from..Min({to, table[t].rows}))
Page(t, start) == RowsOf(t, start + 1, start + PageRows)
Unread(draft) == {t \in Sheets : IF kind = "sheet" THEN draft.of[t].off < draft.of[t].total
                                 ELSE draft.of[t].off > 0}

Hitch == hitches < MaxHitches /\ hitches' = hitches + 1
Look(draft, got) == look' = [look EXCEPT !.draft = draft, !.got = @ \cup got, !.pages = @ + 1]

-----------------------------------------------------------------------------
(* The owners of the tables                                                *)

AddRow(t) ==
    /\ table[t].rows < MaxRows
    /\ table' = [table EXCEPT ![t] = [rows |-> @.rows + 1, version |-> @.version + 1]]
    /\ late' = IF kind = "sheet" /\ table[t].rows < Max({marks.of[t].off, look.draft.of[t].off})
               THEN late \cup {<<t, table[t].rows + 1>>} ELSE late
    /\ UNCHANGED <<kind, marks, look, stored, hitches>>

\* A new version with the same rows; only sheets are told apart by it.
Edit(t) ==
    /\ kind = "sheet" /\ Hitch
    /\ table' = [table EXCEPT ![t].version = @ + 1]
    /\ UNCHANGED <<kind, marks, look, stored, late>>

-----------------------------------------------------------------------------
(* fetch                                                                   *)

\* KDocs lists the sheets with the numbers of their records first.
BeginLook ==
    /\ look.stage = "idle"
    /\ LET listed == [marks EXCEPT !.of = [t \in Sheets |-> [@[t] EXCEPT !.total = table[t].rows]]]
       IN look' = [NoLook EXCEPT !.stage = "fetch", !.old = marks,
                     !.todo = IF kind = "index" THEN {1} ELSE Sheets,
                     !.draft = IF kind = "records" THEN listed ELSE marks]
    /\ UNCHANGED <<kind, table, marks, stored, late, hitches>>

Asked(t) == look.stage = "fetch" /\ t \in look.todo /\ \A u \in look.todo : t <= u

\* Only a new version is read, its first chunk, and the offset never goes back.
FetchSheet(t) ==
    /\ kind = "sheet" /\ Asked(t)
    /\ LET own   == look.draft.of[t]
           n     == table[t].rows
           off   == Max({own.off, IF n > 0 THEN PageRows ELSE 0})
           draft == [look.draft EXCEPT !.of[t] =
                       [own EXCEPT !.total = n, !.off = off,
                                   !.version = IF off >= n THEN table[t].version ELSE @]]
           same  == look.old.of[t].version = table[t].version
       IN look' = [look EXCEPT !.todo = @ \ {t},
                               !.draft = IF same THEN @ ELSE draft,
                               !.got = IF same THEN @ ELSE @ \cup Page(t, 0)]
    /\ UNCHANGED <<kind, table, marks, stored, late, hitches>>

\* Mutant: where the last page ended.
ResumePast(t) == look.draft.of[t].tail + PageRows

\* A table that has grown is read on from its last page.
ResumeAt(t) == look.draft.of[t].tail

\* The page at `start` and the marks after it.
Turned(draft, t, start) ==
    LET own  == draft.of[t]
        more == table[t].rows > start + PageRows
    IN [draft EXCEPT !.of[t] = [own EXCEPT !.off = IF more THEN start + PageRows ELSE 0,
                                           !.finished = ~more,
                                           !.tail = IF start > 0 THEN start ELSE @]]

\* A sheet that is being read is left alone, one that is finished until it grows.
FetchRecords(t) ==
    /\ kind = "records" /\ Asked(t)
    /\ LET own   == look.draft.of[t]
           skip  == own.off > 0 \/ (own.finished /\ own.total <= look.old.of[t].total)
           start == IF own.finished THEN ResumeAt(t) ELSE 0
       IN look' = [look EXCEPT !.todo = @ \ {t},
                               !.draft = IF skip THEN @ ELSE Turned(@, t, start),
                               !.got = IF skip THEN @ ELSE @ \cup Page(t, start)]
    /\ UNCHANGED <<kind, table, marks, stored, late, hitches>>

\* The newest discussions at first, later the oldest ones above the head.
FetchIndex ==
    /\ kind = "index" /\ Asked(1)
    /\ LET n     == table[1].rows
           head  == look.draft.head
           first == IF head = 0 THEN Max({0, n - MaxPages}) ELSE head
           last  == Min({n, first + MaxPages})
       IN look' = [look EXCEPT !.todo = {}, !.got = RowsOf(1, first + 1, last),
                     !.draft.head = Max({head, last}),
                     !.draft.low = IF @ = 0 /\ last > 0 THEN Min({first + 1, last}) ELSE @]
    /\ UNCHANGED <<kind, table, marks, stored, late, hitches>>

\* What was fetched is stored and committed with the marks ...
StoreFetched ==
    /\ look.stage = "fetch" /\ look.todo = {}
    /\ stored' = stored \cup look.got
    /\ marks' = look.draft
    /\ look' = [look EXCEPT !.stage = "reopen", !.got = {}]
    /\ UNCHANGED <<kind, table, late, hitches>>

\* Mutant: a backfill that was done stays done.
ReopenedNever(draft) == draft

\* backfill_pending
Reopened(draft) == IF kind # "index" /\ Unread(draft) # {} THEN [draft EXCEPT !.done = FALSE] ELSE draft

\* ... and the backfill is reopened after that.
Reopen ==
    /\ look.stage = "reopen"
    /\ marks' = Reopened(marks)
    /\ look' = [look EXCEPT !.stage = "backfill", !.draft = Reopened(marks)]
    /\ UNCHANGED <<kind, table, stored, late, hitches>>

-----------------------------------------------------------------------------
(* backfill                                                                *)

\* A call with nothing to read settles the matter.
BeginBackfill ==
    /\ look.stage = "backfill" /\ ~marks.done
    /\ IF kind = "index" \/ Unread(marks) # {}
       THEN look' = [look EXCEPT !.stage = "chunk", !.draft = marks, !.pages = 0, !.closing = FALSE,
                                 !.sheet = IF kind = "index" THEN 1 ELSE Min(Unread(marks))]
            /\ UNCHANGED marks
       ELSE marks' = [marks EXCEPT !.done = TRUE] /\ look' = [look EXCEPT !.stage = "end"]
    /\ UNCHANGED <<kind, table, stored, late, hitches>>

Reading == look.stage = "chunk" /\ look.pages < MaxPages /\ ~look.closing

\* The next chunk of the sheet the call began with; every answer tells the size.
ReadChunk ==
    /\ kind = "sheet" /\ Reading
    /\ LET t     == look.sheet
           own   == look.draft.of[t]
           n     == table[t].rows
           start == own.off
           off   == IF Page(t, start) = {} THEN start ELSE start + PageRows
       IN /\ start < own.total
          /\ Look([look.draft EXCEPT !.of[t] =
                     [own EXCEPT !.off = off, !.total = n,
                                 !.version = IF off >= n THEN table[t].version ELSE @]],
                  Page(t, start))
    /\ UNCHANGED <<kind, table, marks, stored, late, hitches>>

\* The next page of the first sheet that is not finished.
ReadRecords ==
    /\ kind = "records" /\ Reading /\ Unread(look.draft) # {}
    /\ LET t == Min(Unread(look.draft))
       IN Look(Turned(look.draft, t, look.draft.of[t].off), Page(t, look.draft.of[t].off))
    /\ UNCHANGED <<kind, table, marks, stored, late, hitches>>

\* The newest discussions below the low mark.
ReadIndex ==
    /\ kind = "index" /\ Reading /\ look.pages = 0
    /\ LET below == look.draft.low - 1
           first == Max({1, below - MaxPages + 1})
       IN look' = [look EXCEPT !.got = RowsOf(1, first, below), !.pages = 1, !.closing = TRUE,
                     !.draft.low = IF below > 0 THEN first ELSE @,
                     !.draft.done = first = 1]
    /\ UNCHANGED <<kind, table, marks, stored, late, hitches>>

CallOver ==
    CASE kind = "sheet"   -> look.pages = MaxPages \/ look.closing
                               \/ look.draft.of[look.sheet].off >= look.draft.of[look.sheet].total
      [] kind = "records" -> look.pages = MaxPages \/ Unread(look.draft) = {}
      [] OTHER            -> look.closing

\* The call is stored and committed, then there is time for another one or not.
StoreCall ==
    /\ look.stage = "chunk" /\ CallOver
    /\ stored' = stored \cup look.got
    /\ marks' = [look.draft EXCEPT !.done = IF kind = "index" THEN @ ELSE Unread(look.draft) = {}]
    /\ \E next \in {"backfill", "end"} :
         /\ look.pages = 0 => next = "end"
         /\ look' = [look EXCEPT !.stage = next, !.got = {}]
    /\ UNCHANGED <<kind, table, late, hitches>>

EndLook ==
    /\ look.stage = "end" \/ (look.stage = "backfill" /\ marks.done)
    /\ look' = NoLook
    /\ UNCHANGED <<kind, table, marks, stored, late, hitches>>

\* A chunk of a sheet cannot be read: the call ends with what it has.
ChunkUnread ==
    /\ kind = "sheet" /\ Reading /\ Hitch
    /\ look' = [look EXCEPT !.closing = TRUE]
    /\ UNCHANGED <<kind, table, marks, stored, late>>

\* Any other request fails, or the process dies: what is not committed is lost.
LookFails ==
    /\ look.stage # "idle" /\ Hitch
    /\ look' = NoLook
    /\ late' = {r \in late : r[2] <= marks.of[r[1]].off}
    /\ UNCHANGED <<kind, table, marks, stored>>

Fetcher == BeginLook \/ (\E t \in Sheets : FetchSheet(t) \/ FetchRecords(t)) \/ FetchIndex
             \/ StoreFetched \/ Reopen
Reader == BeginBackfill \/ ReadChunk \/ ReadRecords \/ ReadIndex \/ StoreCall \/ EndLook
Visit == Fetcher \/ Reader

TablesNext ==
    \/ \E t \in Sheets : (AddRow(t) \/ Edit(t))
    \/ Visit \/ ChunkUnread \/ LookFails

\* A source is visited again and again.
TablesFairness == WF_tables(Visit)

TablesSpec == TablesInit /\ [][TablesNext]_tables /\ TablesFairness

-----------------------------------------------------------------------------
\* What the marks take for read is stored: a version that is recorded has all its
\* rows but those added below the offset, a finished sheet as large as it was
\* listed has all its records, an index has no gap between its marks, whatever
\* was added between two requests (tencent_sheet.py:459-533, kdocs.py:208-332,
\* collection.py:286-372).
MarksTrue ==
    LET Has(t, rows) == \A i \in rows : <<t, i>> \in stored \cup late IN
    \A t \in Sheets :
      /\ kind = "sheet" /\ marks.of[t].version = table[t].version => Has(t, 1..table[t].rows)
      /\ kind = "records" /\ marks.of[t].finished /\ marks.of[t].total = table[t].rows
           => Has(t, 1..table[t].rows)
      /\ kind = "index" /\ t = 1 /\ marks.low > 0 => Has(1, marks.low..marks.head)

\* When the tables rest, all their rows are stored in the end, but those added
\* below an offset: a backfill that was done is opened again, even when a visit
\* breaks off between its commit and that (runner.py:123-256,
\* tencent_sheet.py:448-457).
ReadInTheEnd == <>[](\A t \in Sheets : \A i \in 1..table[t].rows :
                       (kind = "index" /\ t # 1) \/ <<t, i>> \in stored \cup late)
=============================================================================
