------------------------------- MODULE Persist -------------------------------
(***************************************************************************)
(* Several parsers store what they extracted in one catalogue              *)
(* (services/extract/runner.py), while cleaners remove seasons from it     *)
(* (services/counters.py, services/canon/purge.py,                         *)
(* services/maintenance.py).  Every process works in a transaction of its  *)
(* own at READ COMMITTED: it sees what is committed and what it wrote      *)
(* itself, an insert waits for an uncommitted row with the same key, and   *)
(* row locks are held until the end.  A parser reads the rows of a whole   *)
(* batch into a cache first and decides from that cache alone.             *)
(*                                                                         *)
(* A season stands for the decision on a title, the work and the media     *)
(* row with one identity: they are created together.  The parsed document  *)
(* names at most one season; all its links and tags belong to it.          *)
(***************************************************************************)
EXTENDS Integers, FiniteSets, Sequences

CONSTANTS
    Parsers,      \* processes that store batches
    Cleaners,     \* processes that remove rows
    Docs, Seasons, Links,
    MaxTag,       \* tags are 1..MaxTag: the order of their ids
    Chunks,       \* Chunks[p]: the batch of p, a sequence of SAVEPOINT chunks
    SeasonOf,     \* SeasonOf[d]: the season d names, or NoSeason
    LinksOf,      \* LinksOf[d]: the links found in d
    TagsOf,       \* TagsOf[d]: the tags found in d
    Jobs,         \* Jobs[c]: what cleaner c may remove, one of them
    Stock,        \* what the catalogue holds at first: <<season, link, tag>>s
    NoSeason,
    MaxMishaps    \* bound: exceptions, deadlock victims and crashes

Tags == 1..MaxTag
Procs == Parsers \cup Cleaners

ASSUME PersistAssumption ==
    /\ Parsers \cap Cleaners = {} /\ NoSeason \notin Seasons
    /\ MaxTag \in Nat /\ MaxMishaps \in Nat
    /\ Chunks \in [Parsers -> Seq(SUBSET Docs)]
    /\ SeasonOf \in [Docs -> Seasons \cup {NoSeason}]
    /\ LinksOf \in [Docs -> SUBSET Links] /\ TagsOf \in [Docs -> SUBSET Tags]
    /\ Jobs \in [Cleaners -> SUBSET (Links \cup Seasons)] /\ Links \cap Seasons = {}
    /\ Stock \subseteq Seasons \X Links \X Tags
    /\ IsFiniteSet(Parsers) /\ IsFiniteSet(Cleaners) /\ IsFiniteSet(Docs) /\ IsFiniteSet(Seasons)
    \* A link that is cleaned up is not one that is being parsed.
    /\ \A c \in Cleaners, d \in Docs : Jobs[c] \cap LinksOf[d] = {}
    \* A document is in one chunk of one batch: it was claimed by one parser.
    /\ \A p, q \in Parsers : \A i \in DOMAIN Chunks[p], j \in DOMAIN Chunks[q] :
         <<p, i>> # <<q, j>> => Chunks[p][i] \cap Chunks[q][j] = {}

VARIABLES
    db,        \* the committed rows
    count,     \* count[t]: tag.media_count
    seen,      \* seen[l]: resource.seen_count
    parsed,    \* parsed[d]: the state of the document
    at,        \* at[p]: where p is
    tx,        \* tx[p]: what p has written and not committed
    cache,     \* cache[p]: BatchCache
    delta,     \* delta[p]: counts to add, tag_deltas and seen_deltas
    held,      \* held[p]: the tag rows p has locked
    removed,   \* seasons that were removed at some time
    mishaps

persist == <<db, count, seen, parsed, at, tx, cache, delta, held, removed, mishaps>>

Rows == [row : [Seasons -> Nat], links : SUBSET Links, tags : SUBSET Tags,
         pairs : SUBSET (Seasons \X Links), tagged : SUBSET (Seasons \X Tags)]

NoRows == [row |-> [s \in Seasons |-> 0], links |-> {}, tags |-> {}, pairs |-> {}, tagged |-> {}]

\* Besides new rows: documents settled, seasons and links deleted, tag counts
\* written (-1: not), links whose seen_count was raised.
NoWrites == [new |-> NoRows, done |-> {}, charged |-> {}, gone |-> {}, dead |-> {},
             value |-> [t \in Tags |-> -1], sighted |-> {}]

NoDeltas == [tag |-> [t \in Tags |-> 0], seen |-> [l \in Links |-> 0]]

Start == [stage |-> "off", k |-> 0, try |-> 0, touched |-> {}, orphans |-> {}, affected |-> {}]
Move(p, stage) == at' = [at EXCEPT ![p].stage = stage]

PersistInit ==
    /\ db = [row    |-> [s \in Seasons |-> IF \E x \in Stock : x[1] = s THEN 1 ELSE 0],
             links  |-> {x[2] : x \in Stock}, tags |-> {x[3] : x \in Stock},
             pairs  |-> {<<x[1], x[2]>> : x \in Stock}, tagged |-> {<<x[1], x[3]>> : x \in Stock}]
    /\ count = [t \in Tags |-> Cardinality({x[1] : x \in {y \in Stock : y[3] = t}})]
    /\ seen = [l \in Links |-> IF \E x \in Stock : x[2] = l THEN 1 ELSE 0]
    /\ parsed = [d \in Docs |-> "pending"]
    /\ at = [p \in Procs |-> Start]
    /\ tx = [p \in Procs |-> NoWrites]
    /\ cache = [p \in Procs |-> NoRows]
    /\ delta = [p \in Procs |-> NoDeltas]
    /\ held = [p \in Procs |-> {}]
    /\ removed = {}
    /\ mishaps = 0

-----------------------------------------------------------------------------
(* What a transaction sees                                                 *)

Alive(S, p) == {x \in S : x[1] \notin tx[p].gone}
SeenRow(p, s) == IF s \in tx[p].gone THEN 0
                 ELSE IF tx[p].new.row[s] # 0 THEN tx[p].new.row[s] ELSE db.row[s]
SeenPairs(p) == {x \in Alive(db.pairs, p) : x[2] \notin tx[p].dead} \cup tx[p].new.pairs
SeenTagged(p) == Alive(db.tagged, p) \cup tx[p].new.tagged

Both(r, new) == [row    |-> [s \in Seasons |-> IF new.row[s] # 0 THEN new.row[s] ELSE r.row[s]],
                 links  |-> r.links \cup new.links,   tags   |-> r.tags \cup new.tags,
                 pairs  |-> r.pairs \cup new.pairs,   tagged |-> r.tagged \cup new.tagged]

-----------------------------------------------------------------------------
(* A chunk: phase one and two under one SAVEPOINT                          *)

Named(D) == {d \in D : SeasonOf[d] # NoSeason}
SeasonsOf(D) == {SeasonOf[d] : d \in Named(D)}

\* Documents of the chunk still to be parsed and whose extraction succeeded.
Chunk(p) == {d \in Chunks[p][at[p].k] : parsed[d] = "pending" /\ d \notin tx[p].charged}

\* The id of a new row: one that nobody has seen.
FreshId ==
    CHOOSE n \in 1..Cardinality(Seasons) * (2 * Cardinality(Procs) + 1) + 1 :
      \A s \in Seasons : /\ db.row[s] # n
                         /\ \A q \in Procs : tx[q].new.row[s] # n /\ cache[q].row[s] # n

\* _upsert_media, _upsert_resource, _resolve_tags, _link_media_resource and
\* _link_tags: what the cache does not hold is taken for absent and created.
New(p, D) ==
    [row    |-> [s \in Seasons |-> IF s \in SeasonsOf(D) /\ cache[p].row[s] = 0 THEN FreshId ELSE 0],
     links  |-> (UNION {LinksOf[d] : d \in D}) \ cache[p].links,
     tags   |-> (UNION {TagsOf[d] : d \in Named(D)}) \ cache[p].tags,
     pairs  |-> (UNION {{SeasonOf[d]} \X LinksOf[d] : d \in Named(D)}) \ cache[p].pairs,
     tagged |-> (UNION {{SeasonOf[d]} \X TagsOf[d] : d \in Named(D)}) \ cache[p].tagged]

CreatedSeasons(new) == {s \in Seasons : new.row[s] # 0}
ReferencedSeasons(new) == {x[1] : x \in new.pairs} \cup {x[1] : x \in new.tagged}

\* Two inserts of one key: of a row in phase one, of an association in phase two.
SameRow(a, b) ==
    \/ CreatedSeasons(a) \cap CreatedSeasons(b) # {}
    \/ a.links \cap b.links # {} \/ a.tags \cap b.tags # {}
SameKey(a, b) ==
    \/ SameRow(a, b)
    \/ a.pairs \cap b.pairs # {} \/ a.tagged \cap b.tagged # {}

\* A reference to a season whose cached row is no longer the one in the table.
Dangling(p, new) ==
    \E s \in ReferencedSeasons(new) : cache[p].row[s] # 0 /\ cache[p].row[s] # SeenRow(p, s)

\* Whose end the inserts wait for: a writer of the same key, or a deleter of
\* the season referenced.
InsertWaits(p, new) ==
    {q \in Procs \ {p} : SameKey(new, tx[q].new) \/ ReferencedSeasons(new) \cap tx[q].gone # {}}

\* IntegrityError: a unique key or a foreign key.
Collides(p, new) == SameKey(new, db) \/ Dangling(p, new)

\* Deltas of the chunk: a link created counts 1, every further sighting one more.
Sighted(D, new) ==
    [l \in Links |-> Cardinality({d \in D : l \in LinksOf[d]}) - (IF l \in new.links THEN 1 ELSE 0)]
Counted(new) == [t \in Tags |-> Cardinality({x \in new.tagged : x[2] = t})]
Added(deltas, D, new) ==
    [tag  |-> [t \in Tags |-> deltas.tag[t] + Counted(new)[t]],
     seen |-> [l \in Links |-> deltas.seen[l] + Sighted(D, new)[l]]]

\* Mutant: the deltas go straight into those of the batch.
AddedAnyway(deltas, D, new) == Added(deltas, D, new)

\* chunk_tag_deltas and chunk_seen_deltas of a chunk rolled back are dropped.
AfterRollback(deltas, D, new) == deltas

\* Mutant: the cache keeps the entries of the chunk.
CacheKept(before, new) == Both(before, new)

\* _snapshot_cache and _restore_cache.
Restored(before, new) == before

\* _refresh_stale: of the rows the rollback expired, those that are gone are dropped.
Refreshed(p, c, stale) ==
    LET dropped == {s \in stale : c.row[s] # SeenRow(p, s)} IN
    [c EXCEPT !.row = [s \in Seasons |-> IF s \in dropped THEN 0 ELSE @[s]],
              !.pairs = {x \in @ : x[1] \notin dropped},
              !.tagged = {x \in @ : x[1] \notin dropped}]

\* The next chunk, or the deltas after the last one.
After(p) == IF at[p].k = Len(Chunks[p])
            THEN [at[p] EXCEPT !.stage = "tags", !.k = 0, !.try = 0]
            ELSE [at[p] EXCEPT !.k = @ + 1, !.try = 1]

\* _preload_batch_cache: one look at the rows the batch names.  Documents whose
\* extraction failed are charged an attempt and left out.
Preload(p) ==
    /\ at[p].stage = "off"
    /\ \E k \in DOMAIN Chunks[p] : \E d \in Chunks[p][k] : parsed[d] = "pending"
    /\ cache' = [cache EXCEPT ![p] = db]
    /\ at' = [at EXCEPT ![p] = [Start EXCEPT !.stage = "chunk", !.k = 1, !.try = 1]]
    /\ \E failing \in SUBSET {d \in Docs : \E k \in DOMAIN Chunks[p] : d \in Chunks[p][k]} :
         /\ \A d \in failing : parsed[d] = "pending"
         /\ mishaps + Cardinality(failing) <= MaxMishaps
         /\ mishaps' = mishaps + Cardinality(failing)
         /\ tx' = [tx EXCEPT ![p].charged = failing]
    /\ UNCHANGED <<db, count, seen, parsed, delta, held, removed>>

\* _persist_phase1, the flush and _persist_phase2, then the SAVEPOINT is released.
ChunkStored(p) ==
    LET D == Chunk(p)  new == New(p, D) IN
    /\ at[p].stage = "chunk"
    /\ InsertWaits(p, new) = {} /\ ~Collides(p, new)
    /\ tx' = [tx EXCEPT ![p].new = Both(@, new), ![p].done = @ \cup D]
    /\ cache' = [cache EXCEPT ![p] = Both(@, new)]
    /\ delta' = [delta EXCEPT ![p] = Added(@, D, new)]
    /\ at' = [at EXCEPT ![p] = [After(p) EXCEPT !.touched = @ \cup SeasonsOf(D)]]
    /\ UNCHANGED <<db, count, seen, parsed, held, removed, mishaps>>

\* The SAVEPOINT is rolled back.
RolledBack(p, D, new) ==
    /\ \E stale \in SUBSET SeasonsOf(D) :
         cache' = [cache EXCEPT ![p] = Refreshed(p, Restored(@, new), stale)]
    /\ delta' = [delta EXCEPT ![p] = AfterRollback(@, D, new)]
    /\ UNCHANGED <<db, count, seen, parsed, held, removed>>

\* A collision: the chunk is run once more, then left for another batch.
\* Once it is in phase two, all_touched keeps the seasons of the chunk.
ChunkCollides(p) ==
    LET D == Chunk(p)  new == New(p, D) IN
    /\ at[p].stage = "chunk"
    /\ InsertWaits(p, new) = {} /\ Collides(p, new)
    /\ LET next    == IF at[p].try = 1 THEN [at[p] EXCEPT !.try = 2] ELSE After(p)
           touched == IF SameRow(new, db) THEN {} ELSE SeasonsOf(D)
       IN at' = [at EXCEPT ![p] = [next EXCEPT !.touched = @ \cup touched]]
    /\ RolledBack(p, D, new)
    /\ UNCHANGED <<tx, mishaps>>

\* Any other exception: one document pays, all of the chunk is rolled back.
ChunkRaises(p) ==
    LET D == Chunk(p) IN
    /\ at[p].stage = "chunk"
    /\ \E d \in D : tx' = [tx EXCEPT ![p].charged = @ \cup {d}]
    /\ at' = [at EXCEPT ![p] = After(p)]
    /\ RolledBack(p, D, New(p, D))

ChunkFails(p) == ChunkRaises(p) /\ mishaps < MaxMishaps /\ mishaps' = mishaps + 1

-----------------------------------------------------------------------------
(* The counts after the chunks                                             *)

\* Mutant: in the order of the plan, whatever that is.
NextLocksAny(S) == S

\* lock_tags_in_order: ascending ids.
NextLocks(S) == {t \in S : \A u \in S : t <= u}

\* The tags a process has to lock at its stage.
Wanted(p) ==
    CASE at[p].stage = "tags"   -> {t \in Tags : delta[p].tag[t] > 0}
      [] at[p].stage = "recount" -> at[p].affected
      [] OTHER -> {}

LockTag(p) ==
    \E t \in NextLocks(Wanted(p) \ held[p]) :
      /\ \A q \in Procs : t \notin held[q]
      /\ held' = [held EXCEPT ![p] = @ \cup {t}]
      /\ UNCHANGED <<db, count, seen, parsed, at, tx, cache, delta, removed, mishaps>>

TagWaits(p) == {q \in Procs \ {p} : NextLocks(Wanted(p) \ held[p]) \cap held[q] # {}}

\* Mutant: media_count is read with the row and written back as a number.
RaisedTo(p, t) == Cardinality({x \in cache[p].tagged : x[2] = t})

\* media_count + delta, on the row locked.
Raised(p, t) == count[t] + delta[p].tag[t]

\* _apply_tag_count_deltas
ApplyTagDeltas(p) ==
    /\ at[p].stage = "tags" /\ Wanted(p) \subseteq held[p]
    /\ tx' = [tx EXCEPT ![p].value = [t \in Tags |-> IF t \in Wanted(p) THEN Raised(p, t) ELSE @[t]]]
    /\ Move(p, "seen")
    /\ UNCHANGED <<db, count, seen, parsed, cache, delta, held, removed, mishaps>>

SeenAgain(p) == {l \in Links : delta[p].seen[l] > 0}
SeenWaits(p) == IF at[p].stage # "seen" THEN {}
                ELSE {q \in Procs \ {p} : SeenAgain(p) \cap (tx[q].sighted \cup tx[q].dead) # {}}

\* _apply_resource_seen_deltas
ApplySeenDeltas(p) ==
    /\ at[p].stage = "seen" /\ SeenWaits(p) = {}
    /\ tx' = [tx EXCEPT ![p].sighted = SeenAgain(p)]
    /\ Move(p, "orphans")
    /\ UNCHANGED <<db, count, seen, parsed, cache, delta, held, removed, mishaps>>

-----------------------------------------------------------------------------
(* refresh_media_counters: seasons without a link are removed              *)

\* Counted first, with the tags of those found empty.
FindOrphans(p) ==
    /\ at[p].stage = "orphans"
    /\ LET orphans == {s \in at[p].touched : SeenRow(p, s) # 0 /\ \A x \in SeenPairs(p) : x[1] # s}
       IN at' = [at EXCEPT ![p].orphans = orphans,
                           ![p].affected = {x[2] : x \in {y \in SeenTagged(p) : y[1] \in orphans}},
                           ![p].stage = IF orphans = {} THEN "commit" ELSE "delete"]
    /\ UNCHANGED <<db, count, seen, parsed, tx, cache, delta, held, removed, mishaps>>

\* A delete waits for those who inserted references to the season.
DeleteWaits(p) ==
    IF at[p].stage # "delete" THEN {}
    ELSE {q \in Procs \ {p} :
            at[p].orphans \cap (ReferencedSeasons(tx[q].new) \cup tx[q].gone) # {}}

Without(new, S) == [new EXCEPT !.row = [s \in Seasons |-> IF s \in S THEN 0 ELSE @[s]],
                               !.pairs = {x \in @ : x[1] \notin S},
                               !.tagged = {x \in @ : x[1] \notin S}]

\* The seasons go, and with them, ON DELETE CASCADE, what refers to them now.
DeleteOrphans(p) ==
    /\ at[p].stage = "delete" /\ DeleteWaits(p) = {}
    /\ tx' = [tx EXCEPT ![p].gone = @ \cup at[p].orphans,
                        ![p].new = Without(@, at[p].orphans)]
    /\ Move(p, "recount")
    /\ UNCHANGED <<db, count, seen, parsed, cache, delta, held, removed, mishaps>>

\* The tags affected, counted again from media_tag on locked rows.
RecountTags(p) ==
    /\ at[p].stage = "recount" /\ Wanted(p) \subseteq held[p]
    /\ tx' = [tx EXCEPT ![p].value =
                [t \in Tags |-> IF t \in Wanted(p) THEN Cardinality({x \in SeenTagged(p) : x[2] = t})
                                ELSE @[t]]]
    /\ Move(p, "commit")
    /\ UNCHANGED <<db, count, seen, parsed, cache, delta, held, removed, mishaps>>

-----------------------------------------------------------------------------
(* Commit and rollback of the transaction                                  *)

Left(p) ==
    [row    |-> [s \in Seasons |-> SeenRow(p, s)],
     links  |-> (db.links \ tx[p].dead) \cup tx[p].new.links,
     tags   |-> db.tags \cup tx[p].new.tags,
     pairs  |-> SeenPairs(p), tagged |-> SeenTagged(p)]

Written(p) ==
    /\ db' = Left(p)
    /\ count' = [t \in Tags |-> IF tx[p].value[t] >= 0 THEN tx[p].value[t] ELSE count[t]]
    /\ seen' = [l \in Links |-> IF l \in tx[p].dead THEN 0
                                ELSE delta[p].seen[l] + IF l \in tx[p].new.links THEN 1 ELSE seen[l]]
    /\ parsed' = [d \in Docs |-> IF d \in tx[p].done THEN "done"
                                 ELSE IF d \in tx[p].charged THEN "charged" ELSE parsed[d]]
    /\ removed' = removed \cup tx[p].gone

\* Locks, deltas and the cache end with the transaction.
Over(p, next) ==
    /\ at' = [at EXCEPT ![p] = next]
    /\ tx' = [tx EXCEPT ![p] = NoWrites]
    /\ cache' = [cache EXCEPT ![p] = NoRows]
    /\ delta' = [delta EXCEPT ![p] = NoDeltas]
    /\ held' = [held EXCEPT ![p] = {}]

\* A parser may be given what is left of its batch again, a cleaner is through.
Rest(p) == [Start EXCEPT !.stage = IF p \in Parsers THEN "off" ELSE "through"]

Commit(p) ==
    /\ at[p].stage = "commit"
    /\ Written(p) /\ Over(p, Rest(p))
    /\ UNCHANGED mishaps

\* Whom p waits for, in any way.
Waits(p) ==
    TagWaits(p) \cup SeenWaits(p) \cup DeleteWaits(p)
      \cup IF p \in Parsers /\ at[p].stage = "chunk" THEN InsertWaits(p, New(p, Chunk(p))) ELSE {}

Deadlocked(p) == \E C \in SUBSET Procs : p \in C /\ \A q \in C : Waits(q) \cap C # {}

\* retry_on_write_conflict: a purge counts its tags again, others start anew.
Resumed(p) == IF at[p].stage = "recount" /\ tx[p].gone = {} THEN at[p] ELSE Start

\* The database picks a victim.  Inside a chunk the SAVEPOINT is rolled back,
\* elsewhere the transaction.
Victim(p) ==
    /\ Deadlocked(p)
    /\ IF at[p].stage = "chunk" THEN ChunkRaises(p) /\ UNCHANGED mishaps
       ELSE /\ Over(p, Resumed(p))
            /\ UNCHANGED <<db, count, seen, parsed, removed, mishaps>>

PersistCrash(p) ==
    /\ at[p].stage \notin {"off", "through"}
    /\ mishaps < MaxMishaps /\ mishaps' = mishaps + 1
    /\ Over(p, Rest(p))
    /\ UNCHANGED <<db, count, seen, parsed, removed>>

-----------------------------------------------------------------------------
(* Cleaners                                                                *)

\* cleanup_resources: a link is deleted, then its seasons are refreshed.
DeleteLink(c, l) ==
    /\ at[c].stage = "off" /\ l \in Jobs[c]
    /\ tx' = [tx EXCEPT ![c].dead = {l}]
    /\ at' = [at EXCEPT ![c].stage = "orphans",
                        ![c].touched = {x[1] : x \in {y \in db.pairs : y[2] = l}}]
    /\ UNCHANGED <<db, count, seen, parsed, cache, delta, held, removed, mishaps>>

\* _delete_batch of `canon purge`, committed before the tags are counted.
PurgeSeason(c, s) ==
    /\ at[c].stage = "off" /\ s \in Jobs[c]
    /\ \A q \in Procs \ {c} : s \notin ReferencedSeasons(tx[q].new) \cup tx[q].gone
    /\ db' = [db EXCEPT !.row[s] = 0, !.pairs = {x \in @ : x[1] # s}, !.tagged = {x \in @ : x[1] # s}]
    /\ removed' = removed \cup {s}
    /\ at' = [at EXCEPT ![c].stage = "recount",
                        ![c].affected = {x[2] : x \in {y \in db.tagged : y[1] = s}}]
    /\ UNCHANGED <<count, seen, parsed, tx, cache, delta, held, mishaps>>

Parser(p) ==
    \/ Preload(p) \/ ChunkStored(p) \/ ChunkCollides(p)
    \/ ApplyTagDeltas(p) \/ ApplySeenDeltas(p)

Refresher(p) ==
    LockTag(p) \/ FindOrphans(p) \/ DeleteOrphans(p) \/ RecountTags(p) \/ Commit(p) \/ Victim(p)

PersistNext ==
    \/ \E p \in Parsers : Parser(p) \/ ChunkFails(p)
    \/ \E p \in Procs : Refresher(p) \/ PersistCrash(p)
    \/ \E c \in Cleaners : \/ \E l \in Links : DeleteLink(c, l)
                           \/ \E s \in Seasons : PurgeSeason(c, s)

PersistSpec == PersistInit /\ [][PersistNext]_persist

-----------------------------------------------------------------------------
(* Properties                                                              *)

PersistTypeOK ==
    /\ db \in Rows
    /\ count \in [Tags -> Nat] /\ seen \in [Links -> Nat]
    /\ parsed \in [Docs -> {"pending", "done", "charged"}]
    /\ \A p \in Procs : /\ tx[p].new \in Rows /\ cache[p] \in Rows
                        /\ held[p] \subseteq Tags /\ at[p].touched \subseteq Seasons
    /\ removed \subseteq Seasons

\* seen_count is the number of times a link was seen: once for each document
\* stored, whatever was rolled back, run again or redone after a crash
\* (runner.py:584-615, 1208-1212).
SeenExact ==
    \A l \in db.links :
      seen[l] = Cardinality({d \in Docs : parsed[d] = "done" /\ l \in LinksOf[d]})
                + (IF \E x \in Stock : x[2] = l THEN 1 ELSE 0)

\* media_count never falls below the number of seasons that carry the tag, and
\* is exact until a season is removed: no update is lost between parsers that
\* add and cleaners that count again (runner.py:742-796, counters.py:82-97).
TagCounts ==
    \A t \in Tags :
      LET carried == Cardinality({x \in db.tagged : x[2] = t}) IN
      count[t] >= carried /\ (removed = {} => count[t] = carried)

\* A document marked done has all its rows: a chunk rolled back leaves nothing
\* in the cache that a later chunk takes for stored (runner.py:157-221).
DoneStored ==
    \A d \in Docs : parsed[d] = "done" =>
      /\ LinksOf[d] \subseteq db.links
      /\ SeasonOf[d] \in Seasons \ removed =>
           /\ db.row[SeasonOf[d]] # 0
           /\ {SeasonOf[d]} \X LinksOf[d] \subseteq db.pairs
           /\ {SeasonOf[d]} \X TagsOf[d] \subseteq db.tagged

\* Among transactions that lock tags for the first time none waits in a circle
\* (counters.py:24-55).
TagOrder ==
    \A W \in SUBSET {p \in Procs : at[p].stage = "tags"} :
      W # {} => \E p \in W : TagWaits(p) \cap W = {}

=============================================================================
