------------------------------ MODULE SyncTables ------------------------------
(***************************************************************************)
(* `funflix sync pull` and `push` (services/sync): the tables of one       *)
(* database are brought to another one, parents first.  What is to be      *)
(* fetched is found by the newest time stamp the target holds, less an     *)
(* overlap; what is stored twice does no harm.  A row keeps the stamp of   *)
(* the machine that wrote it, and comes into view when its transaction     *)
(* commits.  The clocks of the machines agree, and tell two writes apart.  *)
(* A transaction and a run of the command together take less than the      *)
(* overlap.                                                                *)
(***************************************************************************)
EXTENDS Integers, FiniteSetsExt, Sequences

CONSTANTS
    Sides,        \* the two databases
    Ids,          \* primary keys
    SyncTableSeq, \* the tables, parents first: a sequence of sets of ids
    Mutable,      \* the tables with an updated_at, as positions in that sequence
    KeyOf,        \* KeyOf[i]: the unique key besides the primary one
    ParentOf,     \* ParentOf[i]: the row i refers to, or NoParent
    NoParent,
    Overlap,      \* _WATERMARK_OVERLAP
    TxTime,       \* how long a transaction takes, from its first stamp to its commit
    RunTime,      \* how long a run takes
    FirstRows,    \* the stamps of the rows at first: functions of side and id
    Alternate,    \* TRUE when one side at a time is written, see HandOver
    LastTick      \* bound on the clock

ASSUME SyncTablesAssumption ==
    /\ \E s, t \in Sides : s # t /\ Sides = {s, t}
    /\ NoParent \notin Ids /\ Alternate \in BOOLEAN
    /\ LastTick \in Nat \ {0} /\ Overlap \in Nat /\ TxTime \in Nat /\ RunTime \in Nat
    /\ TxTime + RunTime < Overlap
    /\ SyncTableSeq \in Seq(SUBSET Ids) /\ ParentOf \in [Ids -> Ids \cup {NoParent}]

\* Every row is in one table, and refers to a row of an earlier one.
ASSUME TablesInOrder ==
    /\ \A i \in Ids : \E t \in DOMAIN SyncTableSeq : i \in SyncTableSeq[t]
    /\ \A i \in Ids, t, u \in DOMAIN SyncTableSeq :
         i \in SyncTableSeq[t] /\ i \in SyncTableSeq[u] => t = u
    /\ \A i \in Ids, t, u \in DOMAIN SyncTableSeq :
         ParentOf[i] # NoParent /\ ParentOf[i] \in SyncTableSeq[t] /\ i \in SyncTableSeq[u]
           => t < u

VARIABLES
    store,   \* store[s][i]: the stamp of row i committed on side s, 0: there is none
    open,    \* open[s][i]: the same of a transaction that is not committed
    turn,    \* the side that is written when they alternate
    sync,    \* the run of the command
    ticks

sides == <<store, open, turn, sync, ticks>>

NoStamps == [i \in Ids |-> 0]
Idle == [stage |-> "idle", from |-> CHOOSE s \in Sides : TRUE, table |-> 0,
         had |-> NoStamps, rows |-> {}, quiet |-> FALSE, began |-> 0]

OtherSide(s) == CHOOSE t \in Sides : t # s

SyncTypeOK ==
    /\ store \in [Sides -> [Ids -> Nat]] /\ open \in [Sides -> [Ids -> Nat]]
    /\ turn \in Sides /\ ticks \in 1..LastTick
    /\ sync.stage \in {"idle", "fetch", "apply", "raised"}
    /\ sync.rows \subseteq Ids /\ sync.table \in 0..Len(SyncTableSeq) + 1

SyncInit ==
    /\ store \in FirstRows
    /\ open = [s \in Sides |-> NoStamps]
    /\ turn \in Sides
    /\ sync = Idle
    /\ ticks = 1

-----------------------------------------------------------------------------
(* The programs that use the databases                                     *)

InView(s, i) == store[s][i] > 0 \/ open[s][i] > 0
MutableRow(i) == \E t \in Mutable : i \in SyncTableSeq[t]

\* A row is written or, in a table with updated_at, written again.
WriteRow(s, i) ==
    /\ Alternate => turn = s
    /\ open[s][i] = 0
    /\ store[s][i] = 0 \/ (MutableRow(i) /\ store[s][i] < ticks)
    /\ \A j \in Ids \ {i} : KeyOf[j] = KeyOf[i] => ~InView(s, j)
    /\ ParentOf[i] # NoParent => InView(s, ParentOf[i])
    /\ open' = [open EXCEPT ![s][i] = ticks]
    /\ UNCHANGED <<store, turn, sync, ticks>>

CommitRows(s) ==
    /\ open[s] # NoStamps
    /\ store' = [store EXCEPT ![s] = [i \in Ids |-> IF open[s][i] > 0 THEN open[s][i] ELSE @[i]]]
    /\ open' = [open EXCEPT ![s] = NoStamps]
    /\ sync' = [sync EXCEPT !.quiet = FALSE]
    /\ UNCHANGED <<turn, ticks>>

\* Time goes on while there is some left for the transactions and for the run.
Punctual ==
    /\ \A s \in Sides, i \in Ids : open[s][i] > 0 => ticks < open[s][i] + TxTime
    /\ sync.stage # "idle" => ticks < sync.began + RunTime

SyncTick ==
    /\ ticks < LastTick /\ Punctual
    /\ ticks' = ticks + 1
    /\ UNCHANGED <<store, open, turn, sync>>

-----------------------------------------------------------------------------
(* pull and push                                                           *)

BeginSync(s) ==
    /\ sync.stage = "idle"
    /\ sync' = [Idle EXCEPT !.stage = "fetch", !.from = s, !.table = 1, !.quiet = open[s] = NoStamps,
                           !.began = ticks]
    /\ UNCHANGED <<store, open, turn, ticks>>

Target == OtherSide(sync.from)
Newest == Max({store[Target][i] : i \in SyncTableSeq[sync.table]} \cup {0})

\* Mutant: from the newest row of the target on.
SinceNewest == Newest

\* since: None, here 0, when the target is empty.
Since == Newest - Overlap

\* _max_watermark and _fetch_rows
FetchRows ==
    /\ sync.stage = "fetch" /\ sync.table <= Len(SyncTableSeq)
    /\ LET there == {i \in SyncTableSeq[sync.table] : store[sync.from][i] > 0} IN
       sync' = [sync EXCEPT !.stage = "apply", !.had = store[sync.from],
                            !.rows = {i \in there : store[sync.from][i] > Since}]
    /\ UNCHANGED <<store, open, turn, ticks>>

\* A unique key or a foreign key of the target refuses the row.
RefusedRow(rows, i) ==
    \/ \E j \in Ids \ {i} : KeyOf[j] = KeyOf[i] /\ rows[j] > 0
    \/ ParentOf[i] # NoParent /\ rows[ParentOf[i]] = 0

\* The databases are consistent when they are first looked at, and what one has
\* and the other has not is what the other refuses, as after a run.
ASSUME FirstRowsAssumption ==
    \A f \in FirstRows :
      /\ f \in [Sides -> [Ids -> 0..1]]
      /\ \A s \in Sides, i \in Ids : f[s][i] > 0 =>
           /\ ~RefusedRow(f[s], i)
           /\ f[OtherSide(s)][i] > 0 \/ RefusedRow(f[OtherSide(s)], i)

\* _upsert_stmt: the newer row of a table with updated_at, the older one of others.
Upserted(rows, i) ==
    IF rows[i] = 0 \/ (MutableRow(i) /\ rows[i] < sync.had[i]) THEN sync.had[i] ELSE rows[i]

\* _apply_rows: as a batch, or row by row without those refused.
ApplyRows ==
    /\ sync.stage = "apply"
    /\ open[Target] = NoStamps
    /\ LET rows    == store[Target]
           applied == {i \in sync.rows : ~RefusedRow(rows, i)}
       IN /\ store' = [store EXCEPT ![Target] =
                         [i \in Ids |-> IF i \in applied THEN Upserted(rows, i) ELSE rows[i]]]
          /\ sync' = IF applied = {} /\ sync.rows # {} THEN [sync EXCEPT !.stage = "raised"]
                     ELSE [sync EXCEPT !.stage = "fetch", !.table = @ + 1]
    /\ UNCHANGED <<open, turn, ticks>>

\* The end, or an interruption.
EndSync ==
    /\ sync.stage # "idle"
    /\ sync' = Idle
    /\ UNCHANGED <<store, open, turn, ticks>>

\* The user goes on at the other side, when all was brought over and nothing
\* written meanwhile.
HandOver ==
    /\ sync.stage = "fetch" /\ sync.table > Len(SyncTableSeq)
    /\ sync.quiet /\ turn = sync.from /\ open[turn] = NoStamps
    /\ turn' = OtherSide(turn)
    /\ sync' = Idle
    /\ UNCHANGED <<store, open, ticks>>

SyncNext ==
    \/ \E s \in Sides : CommitRows(s) \/ BeginSync(s) \/ \E i \in Ids : WriteRow(s, i)
    \/ FetchRows \/ ApplyRows \/ EndSync \/ HandOver \/ SyncTick

SyncSpec == SyncInit /\ [][SyncNext]_sides

-----------------------------------------------------------------------------
\* When a table has been brought over, every row the source held when it was
\* read is on the target, at least as new, or a key refuses it: rows committed
\* late, or missed by a run that broke off, are not left under the newest stamp
\* for ever (sync/runner.py:3-15, 36-38).
Transferred ==
    [][sync.stage = "apply" /\ sync'.stage \in {"fetch", "raised"} =>
         \A i \in SyncTableSeq[sync.table] : sync.had[i] > 0 =>
           \/ store'[Target][i] >= sync.had[i]
           \/ ~MutableRow(i) /\ store'[Target][i] > 0
           \/ RefusedRow(store'[Target], i)]_sides
=============================================================================
