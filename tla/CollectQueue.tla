---------------------------- MODULE CollectQueue ----------------------------
(***************************************************************************)
(* One source collected by worker processes (worker/claim.py,              *)
(* worker/tasks.py, collect/runner.py).  A worker claims the source, loads *)
(* its row into a session, works on that copy, and every commit writes the *)
(* columns the copy has changed, whatever the row holds by then.           *)
(*                                                                         *)
(* next_fetch_at is left out: a source that may be claimed is due now or   *)
(* later, and a claim may come as late as it likes.                        *)
(***************************************************************************)
EXTENDS Watermark

CONSTANTS
    Workers,        \* the worker processes
    MaxFailures,    \* MAX_SOURCE_FAILURES; the count saturates there
    Faults,         \* what may go wrong in this instance
    MaxFaults,      \* bound on crashes, failed requests and operator's edits
    Started         \* marks <<high, low, done>> the source may start with: a
                    \* low mark comes with a high one, the end with a low one

\* "crash": a worker dies or aborts; "request": a request fails; "rewind",
\* "reset", "disable": the operator's edits; "overrun": a lease ends while its
\* holder is at work; "kept": a session meets a row it still holds a copy of.
ASSUME CollectQueueAssumption ==
    /\ MaxFailures \in Nat \ {0}
    /\ MaxFaults \in Nat
    /\ Faults \subseteq {"crash", "request", "rewind", "reset", "disable", "overrun", "kept"}
    /\ Started \subseteq (0..MaxId) \X (0..MaxId) \X BOOLEAN
    /\ \A mark \in Started :
         /\ mark[2] # 0 => mark[1] # 0
         /\ mark[3] => mark[2] # 0

VARIABLES
    newest,   \* the last message posted
    docs,     \* messages stored in raw_document, or seen to have no text
    row,      \* the committed row of the source
    phase,    \* phase[w]: where w is in run_collect_batch
    view,     \* view[w]: the Source object in w's session
    base,     \* base[w]: its values as loaded or last written
    unsaved,  \* unsaved[w]: messages ingested since w's last commit
    result,   \* result[w]: what w's fetch returned
    faults    \* faults so far

vars == <<newest, docs, row, phase, view, base, unsaved, result, faults>>

Row == [high     : 0..MaxId,
        low      : 0..MaxId,
        done     : BOOLEAN,
        extra    : Extra,
        failures : 0..MaxFailures,               \* consecutive_failures
        enabled  : BOOLEAN,
        lease    : {"none", "live", "expired"}]  \* lease_until

Phase == {"idle", "kept", "claimed", "fetched", "advanced", "filling", "settled"}

\* FetchResult
Result == [messages : SUBSET Ids, truncated : BOOLEAN]
Nothing == [messages |-> {}, truncated |-> FALSE]

Fresh(high, low, done) ==
    [high |-> high, low |-> low, done |-> done, extra |-> NoExtra,
     failures |-> 0, enabled |-> TRUE, lease |-> "none"]
NoMark == Fresh(0, 0, FALSE)

TypeOK ==
    /\ newest \in 0..MaxId
    /\ docs \subseteq Ids
    /\ row \in Row
    /\ phase \in [Workers -> Phase]
    /\ view \in [Workers -> Row]
    /\ base \in [Workers -> Row]
    /\ unsaved \in [Workers -> SUBSET Ids]
    /\ result \in [Workers -> Result]
    /\ faults \in 0..MaxFaults

Shown == {m \in Ids : m <= newest}

\* What a row says has been read: everything up to the high mark, from the low
\* mark on or from the beginning.  While no low mark is set nothing is said.
Promised(src) ==
    {m \in Shown : /\ m <= src.high
                   /\ src.done \/ (src.low # 0 /\ src.low <= m)}

\* The message at the high mark was read in any case.
Init ==
    /\ \E mark \in Started :
         /\ row = Fresh(mark[1], mark[2], mark[3])
         /\ newest \in mark[1]..MaxId
    /\ docs = Promised(row) \cup {m \in Shown : m = row.high}
    /\ phase = [w \in Workers |-> "idle"]
    /\ view = [w \in Workers |-> NoMark]
    /\ base = [w \in Workers |-> NoMark]
    /\ unsaved = [w \in Workers |-> {}]
    /\ result = [w \in Workers |-> Nothing]
    /\ faults = 0

Active(w) == phase[w] \notin {"idle", "kept"}

Fault(kind) ==
    /\ kind \in Faults
    /\ faults < MaxFaults
    /\ faults' = faults + 1

-----------------------------------------------------------------------------
(* Claiming: claim_sources                                                 *)

\* Mutant: the claim does not look at the lease.
ClaimableLeased == row.enabled

\* Mutant: a source whose worker died is not claimed again.
ClaimableFree == row.enabled /\ row.lease = "none"

Claimable == row.enabled /\ row.lease # "live"

Counted(n) == IF n < MaxFailures THEN n + 1 ELSE n

\* A lease that was not given back is the remains of a crash and counts as a failure.
Decide(src) ==
    [src EXCEPT !.lease = "live",
                !.failures = IF src.lease = "none" THEN @ ELSE Counted(@)]

Loaded(w, copy) ==
    /\ view' = [view EXCEPT ![w] = copy]
    /\ base' = [base EXCEPT ![w] = copy]

\* One step: a guarded UPDATE, then the row is loaded (ParseQueue keeps the SELECT
\* of the candidates apart).  The load leaves a copy the session still holds as it is,
\* but for what the UPDATE set, and that only if the copy itself met the
\* conditions of the claim, its own next_fetch_at among them.
Claim(w) ==
    /\ ~Active(w)
    /\ Claimable
    /\ row' = Decide(row)
    /\ IF phase[w] = "idle" THEN Loaded(w, row')
       ELSE \/ Loaded(w, view[w])
            \/ Loaded(w, [view[w] EXCEPT
                            !.lease = "live",
                            !.failures = IF row.lease = "none" THEN @ ELSE row'.failures])
    /\ phase' = [phase EXCEPT ![w] = "claimed"]
    /\ UNCHANGED <<newest, docs, unsaved, result, faults>>

-----------------------------------------------------------------------------
(* One visit: collect_source on the copy                                   *)

\* fetch() succeeds: what it reports is merged and its messages are ingested.
Fetch(w) ==
    /\ phase[w] = "claimed"
    /\ view' = [view EXCEPT ![w] = Resumed(@, Shown)]
    /\ unsaved' = [unsaved EXCEPT ![w] = Fetched(view[w], Shown)]
    /\ result' = [result EXCEPT ![w] = [messages  |-> Fetched(view[w], Shown),
                                        truncated |-> Truncated(view[w], Shown)]]
    /\ phase' = [phase EXCEPT ![w] = "fetched"]
    /\ UNCHANGED <<newest, docs, row, base, faults>>

\* record_fetch_failure: enough failures in a row disable the source.
FetchFails(w) ==
    /\ phase[w] = "claimed"
    /\ Fault("request")
    /\ LET failures == Counted(view[w].failures) IN
       view' = [view EXCEPT ![w].failures = failures,
                            ![w].enabled  = @ /\ failures < MaxFailures]
    /\ phase' = [phase EXCEPT ![w] = "settled"]
    /\ UNCHANGED <<newest, docs, row, base, unsaved, result>>

\* The marks follow what was fetched.  There is nothing to backfill when the
\* history is complete or no low mark is set yet.
Advance(w) ==
    /\ phase[w] = "fetched"
    /\ LET messages == result[w].messages
           src == StartBackfill(AdvanceCursor(view[w], messages, result[w].truncated), messages)
       IN
       /\ view' = [view EXCEPT ![w] = [src EXCEPT !.failures = 0]]
       /\ phase' = [phase EXCEPT ![w] = IF src.done \/ src.low = 0 THEN "settled"
                                        ELSE "advanced"]
    /\ result' = [result EXCEPT ![w] = Nothing]
    /\ UNCHANGED <<newest, docs, row, base, unsaved, faults>>

\* One backfill() and its ingestion.  The loop goes on until the history is
\* complete, a chunk brought no page, or the time is up after any chunk.
Chunk(w, pages, last) ==
    LET took == Newest(Older(view[w], Shown), pages * PageSize) IN
    /\ view' = [view EXCEPT ![w] = Backfilled(@, took, last)]
    /\ unsaved' = [unsaved EXCEPT ![w] = @ \cup took]
    /\ \E next \in {"filling", "settled"} :
         /\ last \/ pages = 0 => next = "settled"
         /\ phase' = [phase EXCEPT ![w] = next]
    /\ UNCHANGED <<newest, docs, row, base, result>>

Backfill(w) ==
    /\ phase[w] \in {"advanced", "filling"}
    /\ Chunk(w, ChunkPages, ChunkIsLast(view[w], Shown))
    /\ UNCHANGED faults

BackfillFails(w) ==
    /\ phase[w] \in {"advanced", "filling"}
    /\ Fault("request")
    /\ \E pages \in 0..ChunkPages - 1 :
         MayStopAt(view[w], Shown, pages) /\ Chunk(w, pages, FALSE)

-----------------------------------------------------------------------------
(* Commits: CommitBatcher.mark and flush, and run_collect_batch            *)

Merged(old, new, current) == IF new = old THEN current ELSE new

\* A flush sets the columns whose value differs from the one loaded.
WriteBack(src, old, new) ==
    [high     |-> Merged(old.high, new.high, src.high),
     low      |-> Merged(old.low, new.low, src.low),
     done     |-> Merged(old.done, new.done, src.done),
     extra    |-> Merged(old.extra, new.extra, src.extra),
     failures |-> Merged(old.failures, new.failures, src.failures),
     enabled  |-> Merged(old.enabled, new.enabled, src.enabled),
     lease    |-> Merged(old.lease, new.lease, src.lease)]

Store(w, copy) ==
    /\ row' = WriteBack(row, base[w], copy)
    /\ docs' = docs \cup unsaved[w]
    /\ unsaved' = [unsaved EXCEPT ![w] = {}]

\* mark() after the fetch, before the marks follow, and after every chunk, when
\* enough was ingested or enough time went by; flush() at the end.
Save(w) ==
    /\ phase[w] \in {"fetched", "filling", "settled"}
    /\ unsaved[w] # {}
    /\ Store(w, view[w])
    /\ Loaded(w, view[w])
    /\ UNCHANGED <<newest, phase, result, faults>>

\* _mark_done and the commit of run_collect_batch.  The copy is still there when
\* the next batch of this session claims the source again.
Return(w) ==
    /\ phase[w] = "settled"
    /\ LET copy == [view[w] EXCEPT !.lease = "none"] IN
       /\ Store(w, copy)
       /\ IF "kept" \in Faults
          THEN Loaded(w, copy) /\ phase' = [phase EXCEPT ![w] = "kept"]
          ELSE Loaded(w, NoMark) /\ phase' = [phase EXCEPT ![w] = "idle"]
    /\ UNCHANGED <<newest, result, faults>>

Drop(w) ==
    /\ Loaded(w, NoMark)
    /\ phase' = [phase EXCEPT ![w] = "idle"]
    /\ unsaved' = [unsaved EXCEPT ![w] = {}]
    /\ result' = [result EXCEPT ![w] = Nothing]
    /\ UNCHANGED <<newest, docs, row>>

\* The process dies, or an exception rolls its transaction back (_abort): the
\* lease stays.
Crash(w) == Active(w) /\ Fault("crash") /\ Drop(w)

\* The session ends, or its next batch is without the source.
Forget(w) == phase[w] = "kept" /\ Drop(w) /\ UNCHANGED faults

-----------------------------------------------------------------------------
(* The environment: the channel, time, the operator                        *)

Post ==
    /\ newest < MaxId
    /\ newest' = newest + 1
    /\ UNCHANGED <<docs, row, phase, view, base, unsaved, result, faults>>

\* A lease outlasts its holder's work unless the instance has overruns.
Expire ==
    /\ row.lease = "live"
    /\ "overrun" \in Faults \/ \A w \in Workers : ~Active(w)
    /\ row' = [row EXCEPT !.lease = "expired"]
    /\ UNCHANGED <<newest, docs, phase, view, base, unsaved, result, faults>>

\* source set --cursor: the high mark of a source that is being collected is
\* taken back.
Rewind ==
    /\ row.low # 0
    /\ Fault("rewind")
    /\ \E m \in 1..row.high - 1 : row' = [row EXCEPT !.high = m]
    /\ UNCHANGED <<newest, docs, phase, view, base, unsaved, result>>

\* reset_watermark; the workers are stopped for it.
ResetMarks ==
    /\ Fault("reset")
    /\ \A w \in Workers : phase[w] = "idle"
    /\ row' = [NoMark EXCEPT !.enabled = row.enabled]
    /\ UNCHANGED <<newest, phase, view, base, unsaved, result>>

\* db reset deletes the documents with the marks, source reset-cursor does not.
Reset == ResetMarks /\ docs' = {}
ResetCursor == ResetMarks /\ UNCHANGED docs

\* source disable, source enable.
Toggle ==
    /\ row' = [row EXCEPT !.enabled = ~@]
    /\ IF row.enabled THEN Fault("disable") ELSE UNCHANGED faults
    /\ UNCHANGED <<newest, docs, phase, view, base, unsaved, result>>

Work(w) == Claim(w) \/ Fetch(w) \/ Advance(w) \/ Backfill(w) \/ Return(w)

Next ==
    \/ \E w \in Workers :
         \/ Work(w) \/ Save(w) \/ Forget(w)
         \/ FetchFails(w) \/ BackfillFails(w) \/ Crash(w)
    \/ Post
    \/ Expire
    \/ Rewind
    \/ Reset
    \/ ResetCursor
    \/ Toggle

Spec == Init /\ [][Next]_vars

\* A worker that is not killed runs on, and leases run out.  Faults, posts and
\* commits in between are never forced.
Fairness ==
    /\ \A w \in Workers : WF_vars(Work(w))
    /\ WF_vars(Expire)

FairSpec == Spec /\ Fairness

-----------------------------------------------------------------------------
(* Properties                                                              *)

\* At most one worker is at the source: it has no status column, and two
\* collectors would each move its marks.
OneCollector ==
    \A v, w \in Workers : Active(v) /\ Active(w) => v = w

\* No message is skipped: whatever the row says has been read is stored, after
\* any truncated fetch, interrupted catch-up or backfill, lost commit or edit.
NothingSkipped == Promised(row) \subseteq docs

\* A catch-up in progress has everything from where it will resume to where it
\* will end, so that finishing it may move the high mark there at once.
CatchUpCovered ==
    row.extra.pending # 0 /\ row.extra.before # 0 =>
      {m \in Shown : row.extra.before <= m /\ m <= row.extra.pending} \subseteq docs

\* Every message is collected in the end, unless the source was disabled.
Collected ==
    \A m \in Ids : newest >= m ~> m \in docs \/ ~row.enabled
=============================================================================
