-------------------------------- MODULE Repair --------------------------------
(***************************************************************************)
(* The repair queue (services/repair): `repair scan` plans what to do with *)
(* rows of `media` that the present rules find wrong and keeps one task    *)
(* each, `repair apply` carries the tasks out: deletions, then new titles, *)
(* then moves to another work.  Parsers and other jobs change the rows     *)
(* meanwhile.  What the rules say of a row is its field `want`; `mark`     *)
(* tells the values a plan was made from.  How rows are moved and merged   *)
(* is the matter of Identities.                                            *)
(***************************************************************************)
EXTENDS Integers, FiniteSets, Sequences, SequencesExt

CONSTANTS
    Medias,         \* the rows
    ApplyLimit,     \* --limit, for each kind of task
    DeletePercent, RehomePercent,   \* MAX_DELETE_RATIO, MAX_REHOME_RATIO
    FirstMedia,     \* the rows at first
    MaxChanges      \* bound: changes by others, write conflicts, crashes

Wants == {"ok", "junk", "retitle", "rehome"}
\* resource_count is `tally`; `links` is whether there really are links.
MediaRow == [there : BOOLEAN, want : Wants, links : 0..1, tally : 0..1, mark : Nat]
Symptoms == {"junk", "shell", "retitle", "rehome"}
Kind(symptom) == IF symptom \in {"junk", "shell"} THEN "delete" ELSE symptom
RepairTask == [media : Medias, symptom : Symptoms, mark : Nat]

ASSUME RepairAssumption ==
    /\ IsFiniteSet(Medias) /\ FirstMedia \subseteq [Medias -> MediaRow]
    /\ {ApplyLimit, DeletePercent, RehomePercent, MaxChanges} \subseteq Nat

VARIABLES
    media,     \* media[m]: the row m
    tasks,     \* the pending tasks, in the order of detected_at
    scan,      \* the rest of a scan, and the page it has loaded
    applier,   \* the run of `repair apply`
    changes

repair == <<media, tasks, scan, applier, changes>>

NoScan == [rest |-> {}, page |-> {}, facts |-> <<>>]
NoApply == [stage |-> "idle", claimed |-> {}, survivors |-> {}]

RepairInit ==
    /\ media \in FirstMedia
    /\ tasks = <<>>
    /\ scan = NoScan /\ applier = NoApply
    /\ changes = 0

There == {m \in Medias : media[m].there}

\* The tasks at the places S of the queue, in their order.
Queued(S) == [k \in 1..Cardinality(S) |->
              tasks[CHOOSE i \in S : Cardinality({j \in S : j <= i}) = k]]

-----------------------------------------------------------------------------
(* plan.py and scan.py                                                     *)

\* plan_repair: junk, then rows without resources, then what has changed.
Planned(row) == IF row.want = "junk" THEN "junk" ELSE IF row.tally = 0 THEN "shell" ELSE row.want

BeginScan ==
    /\ scan.rest = {} /\ scan.page = {} /\ There # {}
    /\ scan' = [NoScan EXCEPT !.rest = There]
    /\ UNCHANGED <<media, tasks, applier, changes>>

\* _load_page
LoadPage ==
    /\ scan.page = {} /\ scan.rest # {}
    /\ \E page \in SUBSET scan.rest :
         /\ page # {}
         /\ scan' = [rest |-> scan.rest \ page, page |-> page \cap There, facts |-> media]
    /\ UNCHANGED <<media, tasks, applier, changes>>

Wrong == {m \in scan.page : Planned(scan.facts[m]) # "ok"}
\* A deletion carries no values that could change (its payload is empty).
PlannedTask(m) ==
    LET symptom == Planned(scan.facts[m])
    IN [media |-> m, symptom |-> symptom,
        mark |-> IF Kind(symptom) = "delete" THEN 0 ELSE scan.facts[m].mark]

\* On the page only the tasks stay that are planned once more.
Stays(t) == t.media \in scan.page => t.media \in Wrong /\ t = PlannedTask(t.media)

\* _sync_tasks: tasks of another kind and of rows that are right are cancelled,
\* those of the same kind renewed, new ones added; renewed ones go to the end of
\* the queue.
SyncTasks ==
    /\ scan.page # {}
    /\ LET kept == {i \in DOMAIN tasks : Stays(tasks[i])}
           fresh == {PlannedTask(m) : m \in Wrong} \ {tasks[i] : i \in kept}
       IN tasks' = Queued(kept) \o SetToSeq(fresh)
    /\ scan' = [scan EXCEPT !.page = {}, !.facts = <<>>]
    /\ UNCHANGED <<media, applier, changes>>

-----------------------------------------------------------------------------
(* apply.py                                                                *)

OfKind(S, kind) == {t \in S : Kind(t.symptom) = kind}

\* The oldest of a kind: no more than ApplyLimit of it up to their place.
Oldest(kind) ==
    LET upTo(i) == {j \in 1..i : Kind(tasks[j].symptom) = kind}
    IN {tasks[i] : i \in {k \in DOMAIN tasks : k \in upTo(k) /\ Cardinality(upTo(k)) <= ApplyLimit}}

\* _claim, nothing is locked or marked, and _check_blast_radius.
Claim ==
    /\ applier.stage = "idle" /\ tasks # <<>>
    /\ LET claimed == Oldest("delete") \cup Oldest("retitle") \cup Oldest("rehome")
           over(kind, percent) ==
             Cardinality(OfKind(claimed, kind)) * 100 > Cardinality(There) * percent
           refused == There # {} /\ (over("delete", DeletePercent) \/ over("rehome", RehomePercent))
       IN applier' = [NoApply EXCEPT !.stage = IF refused THEN "refused" ELSE "delete",
                                     !.claimed = IF refused THEN {} ELSE claimed]
    /\ UNCHANGED <<media, tasks, scan, changes>>

\* BlastRadiusExceeded: an operator may look into it.
Refused ==
    /\ applier.stage = "refused"
    /\ applier' = NoApply
    /\ UNCHANGED <<media, tasks, scan, changes>>

\* Tasks are settled by their id, whatever a scan has made of them since they
\* were claimed; one that was cancelled and planned anew counts as the same.
Same(t, c) == t.media = c.media /\ Kind(t.symptom) = Kind(c.symptom)

\* Mutant: tasks of rows that are gone are left in the queue.
SettledLiving(C) == Queued({i \in DOMAIN tasks : \A c \in C : c.media \notin There \/ ~Same(tasks[i], c)})

Settled(C) == Queued({i \in DOMAIN tasks : \A c \in C : ~Same(tasks[i], c)})
Deleted(M) == [m \in Medias |-> IF m \in M THEN [media[m] EXCEPT !.there = FALSE, !.links = 0] ELSE media[m]]

\* _apply_deletes: the rows go in commits of their own, whatever they are by now.
DeleteRows ==
    /\ applier.stage = "delete"
    /\ media' = Deleted({t.media : t \in OfKind(applier.claimed, "delete")})
    /\ applier' = [applier EXCEPT !.stage = "deleted"]
    /\ UNCHANGED <<tasks, scan, changes>>

\* Tasks of rows that were gone and of rows deleted are settled after that.
SettleDeletes ==
    /\ applier.stage = "deleted"
    /\ tasks' = Settled(OfKind(applier.claimed, "delete"))
    /\ applier' = [applier EXCEPT !.stage = "retitle", !.claimed = @ \ OfKind(@, "delete")]
    /\ UNCHANGED <<media, scan, changes>>

\* What a row is like when a plan is carried out: right, when it was made from
\* the values the row has, anything that a scan may find otherwise.
MayBecome(t, want) == (t.mark = media[t.media].mark => want = "ok") /\ want \in {"ok", "retitle", "rehome"}

\* _retitle_batch: rows and tasks in one transaction.
RetitleBatch ==
    /\ applier.stage = "retitle"
    /\ \E t \in OfKind(applier.claimed, "retitle") :
         /\ applier' = [applier EXCEPT !.claimed = @ \ {t}]
         /\ tasks' = Settled({t})
         /\ \E want \in Wants : MayBecome(t, want) /\ media' =
              IF t.media \in There THEN [media EXCEPT ![t.media].want = want] ELSE media
    /\ UNCHANGED <<scan, changes>>

\* _rehome_batch: the row moves, or is merged into the row that is there.
RehomeBatch ==
    /\ applier.stage = "rehome"
    /\ \E t \in OfKind(applier.claimed, "rehome") :
         /\ tasks' = Settled({t})
         /\ \/ /\ \E want \in Wants : MayBecome(t, want) /\ media' =
                    IF t.media \in There THEN [media EXCEPT ![t.media].want = want] ELSE media
               /\ applier' = [applier EXCEPT !.claimed = @ \ {t}]
            \/ /\ t.media \in There
               /\ \E other \in There \ {t.media} :
                    /\ media' = [Deleted({t.media}) EXCEPT
                                   ![other].links = IF media[t.media].links = 1 THEN 1 ELSE @]
                    /\ applier' = [applier EXCEPT !.claimed = @ \ {t}, !.survivors = @ \cup {other}]
    /\ UNCHANGED <<scan, changes>>

\* Write conflicts time after time: the batch stays pending.
BatchGivenUp ==
    /\ applier.stage \in {"retitle", "rehome"} /\ changes < MaxChanges
    /\ \E t \in OfKind(applier.claimed, applier.stage) : applier' = [applier EXCEPT !.claimed = @ \ {t}]
    /\ changes' = changes + 1
    /\ UNCHANGED <<media, tasks, scan>>

NextStage ==
    /\ applier.stage \in {"retitle", "rehome"} /\ OfKind(applier.claimed, applier.stage) = {}
    /\ applier' = [applier EXCEPT !.stage = IF @ = "retitle" THEN "rehome" ELSE "recount"]
    /\ UNCHANGED <<media, tasks, scan, changes>>

\* _recount: only rows that took links over; those without any are removed.
Recount ==
    /\ applier.stage = "recount"
    /\ media' = [m \in Medias |->
         IF m \notin applier.survivors \cap There THEN media[m]
         ELSE IF media[m].links = 0 THEN Deleted({m})[m] ELSE [media[m] EXCEPT !.tally = 1]]
    /\ applier' = NoApply
    /\ UNCHANGED <<tasks, scan, changes>>

\* An exception, or the end of the job: what is committed stays.
ApplyDies ==
    /\ applier.stage # "idle" /\ changes < MaxChanges
    /\ applier' = NoApply /\ changes' = changes + 1
    /\ UNCHANGED <<media, tasks, scan>>

-----------------------------------------------------------------------------
(* Others                                                                  *)

\* Parsers and `canon merge` write the row, or the rules change.
RowChanges(m) ==
    /\ m \in There /\ changes < MaxChanges
    /\ \E want \in Wants : media' = [media EXCEPT ![m].want = want, ![m].mark = @ + 1]
    /\ changes' = changes + 1
    /\ UNCHANGED <<tasks, scan, applier>>

\* A parser finds a link of the season.
LinkFound(m) ==
    /\ m \in There /\ media[m].links = 0 /\ changes < MaxChanges
    /\ media' = [media EXCEPT ![m].links = 1, ![m].tally = 1]
    /\ changes' = changes + 1
    /\ UNCHANGED <<tasks, scan, applier>>

\* `canon purge` and `canon merge` delete rows, too.
RowGoes(m) ==
    /\ m \in There /\ changes < MaxChanges
    /\ media' = Deleted({m})
    /\ changes' = changes + 1
    /\ UNCHANGED <<tasks, scan, applier>>

Scanner == BeginScan \/ LoadPage \/ SyncTasks
Applier == Claim \/ Refused \/ DeleteRows \/ SettleDeletes \/ RetitleBatch \/ RehomeBatch
             \/ NextStage \/ Recount

RepairNext ==
    \/ Scanner \/ Applier \/ BatchGivenUp \/ ApplyDies
    \/ \E m \in Medias : RowChanges(m) \/ LinkFound(m) \/ RowGoes(m)

\* Every round of the pipeline scans and applies.
RepairFairness == WF_repair(Scanner) /\ WF_repair(Applier)

RepairSpec == RepairInit /\ [][RepairNext]_repair /\ RepairFairness

-----------------------------------------------------------------------------

\* At most one task waits for each row.  The unique index is over kind and row
\* (uq_repair_task_pending), so that it is the scan that keeps a deletion and a
\* new title of one row from waiting side by side (scan.py:22-26).
OnePending == \A i, j \in DOMAIN tasks : tasks[i].media = tasks[j].media => i = j

ApplierStages == {"idle", "refused", "delete", "deleted", "retitle", "rehome", "recount"}

RepairTypeOK ==
    /\ media \in [Medias -> MediaRow]
    /\ tasks \in Seq(RepairTask) /\ OnePending
    /\ scan.rest \subseteq Medias /\ scan.page \subseteq Medias
    /\ scan.page # {} => scan.facts \in [Medias -> MediaRow]
    /\ applier \in [stage : ApplierStages, claimed : SUBSET RepairTask, survivors : SUBSET Medias]
    /\ changes \in 0..MaxChanges

\* Rounds of scans and applications come to an end: when nobody changes rows any
\* more the scans find nothing, and no task is left, unless the guard against
\* mass changes refuses time and again (scan.py:6-11, plan.py:56-60).
ComesClean ==
    \/ <>[](tasks = <<>> /\ \A m \in There : Planned(media[m]) = "ok")
    \/ []<>(applier.stage = "refused")

=============================================================================
