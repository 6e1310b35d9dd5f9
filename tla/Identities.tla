------------------------------ MODULE Identities ------------------------------
(***************************************************************************)
(* Rows of `media` are moved to the (work, season) they belong to, batch   *)
(* by batch (services/canon/assign.py, merge.py): by `canon rebuild`, by   *)
(* `canon merge` and by `repair apply`.  The pair is unique at every       *)
(* moment; rows that meet are merged into one, and rows in the way of each *)
(* other are parked on negative seasons.  After the batches the counts of  *)
(* seasons and works are taken again.                                      *)
(***************************************************************************)
EXTENDS Integers, FiniteSets, FiniteSetsExt, Sequences

CONSTANTS
    MediaRows,    \* rows are numbers, the order of their ids
    Works,
    Home,         \* Home[r]: the identity of r at first, <<work, season>>
    Holds,        \* Holds[r]: the links of r at first
    Places,       \* the identities a plan may name
    Batches,      \* how the rows are cut into batches, each one transaction
    MaxVanished   \* bound: rows that another process deletes meanwhile

Nowhere == <<>>

ASSUME IdentitiesAssumption ==
    /\ MediaRows \subseteq Nat /\ IsFiniteSet(MediaRows) /\ MaxVanished \in Nat
    /\ Places \subseteq Works \X Nat /\ Home \in [MediaRows -> Works \X Nat]
    /\ \A r, q \in MediaRows : Home[r] = Home[q] => r = q
    /\ DOMAIN Holds = MediaRows /\ \A r \in MediaRows : IsFiniteSet(Holds[r])
    /\ Batches \in Seq(SUBSET MediaRows)
    /\ \A i, j \in DOMAIN Batches : i # j => Batches[i] \cap Batches[j] = {}

VARIABLES
    sits,     \* sits[r]: the identity of r now, Nowhere when it is deleted
    links,    \* links[r]: the links of r
    tally,    \* tally[r]: media.resource_count
    books,    \* books[w]: work.season_count and work.resource_count
    plan,     \* plan[r]: where r is to go, Nowhere when it is left alone
    run       \* the run of the program, AssignStats included

identities == <<sits, links, tally, books, plan, run>>

Booked(w, where, counts) ==
    LET own == {r \in MediaRows : where[r] # Nowhere /\ where[r][1] = w}
    IN [seasons |-> Cardinality(own), resources |-> MapThenSumSet(LAMBDA r : counts[r], own)]

IdentitiesInit ==
    /\ sits = Home
    /\ links = Holds
    /\ tally = [r \in MediaRows |-> Cardinality(Holds[r])]
    /\ books = [w \in Works |-> Booked(w, Home, tally)]
    /\ plan \in [MediaRows -> Places \cup {Nowhere}]
    /\ run = [stage |-> "batch", batch |-> 1, pass |-> 1, todo |-> {}, found |-> Home,
              groups |-> {}, blocked |-> {}, parked |-> 0, survivor |-> 0, losers |-> {},
              wrote |-> {}, touched |-> {}, merged |-> {}, vanished |-> {}]

Living == {r \in MediaRows : sits[r] # Nowhere}
WorksOf(R) == {sits[r][1] : r \in R \cap Living}

\* Mutant: only the works that rows come to are counted again.
TouchedAtFirstNone(R) == {}

\* assign_identities: the works the rows leave are counted again, too.
TouchedAtFirst(R) == WorksOf(R)

BeginBatch ==
    /\ run.stage = "batch" /\ run.batch <= Len(Batches)
    /\ LET rows == {r \in Batches[run.batch] : plan[r] # Nowhere} IN
       run' = [run EXCEPT !.stage = "start", !.pass = 1, !.todo = rows, !.parked = 0, !.wrote = {},
                          !.touched = @ \cup TouchedAtFirst(rows)]
    /\ UNCHANGED <<sits, links, tally, books, plan>>

\* _occupants: looked up once for the whole pass.
StartPass ==
    /\ run.stage = "start"
    /\ run' = [run EXCEPT !.stage = "pass", !.found = sits, !.blocked = {},
                          !.groups = {plan[r] : r \in run.todo}]
    /\ UNCHANGED <<sits, links, tally, books, plan>>

Members(identity) == {r \in run.todo : plan[r] = identity}

\* Mutant: nobody asks who sits there.
SittingNobody(identity) == {}

Sitting(identity) == {r \in MediaRows : run.found[r] = identity}

\* Mutant: a row that has yet to leave is taken for one that has left.
InTheWayNever(identity) == FALSE

\* The row that sits there is to go elsewhere in the same batch.
InTheWay(identity) ==
    \E s \in Sitting(identity) : s \notin Members(identity) /\ s \in run.todo

\* pick_survivor: most links, then the greater id.
Survivor(members) ==
    CHOOSE r \in members :
      \A q \in members \ {r} :
        \/ Cardinality(links[r]) > Cardinality(links[q])
        \/ Cardinality(links[r]) = Cardinality(links[q]) /\ r > q

\* Mutant: the rows wait where they are.
ParkedNot(identity) == sits

\* Negative seasons that nobody has, in the work the row is in.
Parked(identity) ==
    [r \in MediaRows |->
       IF r \in Members(identity) \cap Living
       THEN <<sits[r][1], -(run.parked + Cardinality({q \in Members(identity) : q <= r}))>>
       ELSE sits[r]]

Park(identity) ==
    /\ InTheWay(identity)
    /\ sits' = Parked(identity)
    /\ run' = [run EXCEPT !.groups = @ \ {identity}, !.blocked = @ \cup Members(identity),
                          !.parked = @ + Cardinality(Members(identity)),
                          !.wrote = @ \cup Members(identity), !.touched = @ \cup {identity[1]}]
    /\ UNCHANGED <<links, tally, books, plan>>

\* Who sits there already survives, otherwise one of the group moves in.
Land(identity) ==
    /\ ~InTheWay(identity)
    /\ LET there    == Sitting(identity)
           survivor == IF there # {} THEN CHOOSE r \in there : TRUE ELSE Survivor(Members(identity))
           losers   == Members(identity) \ {survivor}
       IN /\ sits' = IF there = {} /\ survivor \in Living
                     THEN [sits EXCEPT ![survivor] = identity] ELSE sits
          /\ run' = [run EXCEPT !.groups = @ \ {identity}, !.touched = @ \cup {identity[1]},
                                !.survivor = survivor, !.losers = losers,
                                !.stage = IF losers = {} THEN "pass" ELSE "merge",
                                !.merged = IF losers = {} THEN @ ELSE @ \cup {survivor},
                                !.wrote = @ \cup {survivor}]
    /\ UNCHANGED <<links, tally, books, plan>>

PlaceGroup ==
    /\ run.stage = "pass"
    /\ \E identity \in run.groups : Park(identity) \/ Land(identity)

\* merge_media_rows: links of the losers go over, then the losers are deleted.
\* Rows that are gone are left out; without the survivor nothing is merged.
MergeRows ==
    /\ run.stage = "merge"
    /\ LET losers == IF run.survivor \in Living THEN run.losers \cap Living ELSE {} IN
       /\ links' = [r \in MediaRows |->
                      CASE r \in losers -> {}
                        [] r = run.survivor -> links[r] \cup UNION {links[q] : q \in losers}
                        [] OTHER -> links[r]]
       /\ sits' = [r \in MediaRows |-> IF r \in losers THEN Nowhere ELSE sits[r]]
       /\ run' = [run EXCEPT !.stage = "pass", !.wrote = @ \cup losers]
    /\ UNCHANGED <<tally, books, plan>>

\* Rows parked are placed in another pass, otherwise the batch is committed.
EndPass ==
    /\ run.stage = "pass" /\ run.groups = {}
    /\ run' = IF run.blocked # {}
              THEN [run EXCEPT !.stage = IF run.pass = 3 THEN "raised" ELSE "start",
                               !.pass = @ + 1, !.todo = run.blocked]
              ELSE [run EXCEPT !.stage = "batch", !.batch = @ + 1]
    /\ UNCHANGED <<sits, links, tally, books, plan>>

\* _recount: rows that took links over, those left without any are removed.
RecountSeasons ==
    /\ run.stage = "batch" /\ run.batch > Len(Batches)
    /\ tally' = [r \in MediaRows |-> IF r \in run.merged THEN Cardinality(links[r]) ELSE tally[r]]
    /\ sits' = [r \in MediaRows |-> IF r \in run.merged /\ links[r] = {} THEN Nowhere ELSE sits[r]]
    /\ run' = [run EXCEPT !.stage = "works"]
    /\ UNCHANGED <<links, books, plan>>

\* refresh_work_counters sums up the counts of the seasons.
RecountWorks ==
    /\ run.stage = "works"
    /\ books' = [w \in Works |-> IF w \in run.touched THEN Booked(w, sits, tally) ELSE books[w]]
    /\ run' = [run EXCEPT !.stage = "end"]
    /\ UNCHANGED <<sits, links, tally, plan>>

\* Another process deletes a row this transaction has not written.
Vanish(r) ==
    /\ run.stage \in {"pass", "merge", "batch"} /\ Cardinality(run.vanished) < MaxVanished
    /\ r \in Living \ run.wrote
    /\ sits' = [sits EXCEPT ![r] = Nowhere]
    /\ links' = [links EXCEPT ![r] = {}]
    /\ run' = [run EXCEPT !.vanished = @ \cup {r}]
    /\ UNCHANGED <<tally, books, plan>>

IdentitiesNext ==
    \/ BeginBatch \/ StartPass \/ PlaceGroup \/ MergeRows \/ EndPass
    \/ RecountSeasons \/ RecountWorks
    \/ \E r \in MediaRows : Vanish(r)

IdentitiesSpec == IdentitiesInit /\ [][IdentitiesNext]_identities

-----------------------------------------------------------------------------

IdentitiesTypeOK ==
    /\ \A r \in MediaRows : sits[r] = Nowhere \/ sits[r] \in Works \X Int
    /\ tally \in [MediaRows -> Nat]
    /\ run.stage \in {"batch", "start", "pass", "merge", "raised", "works", "end"}
    /\ run.todo \subseteq MediaRows /\ run.blocked \subseteq run.todo

\* Two rows never have one identity, not even between two statements of a
\* transaction, whatever circles the plan has and whatever is deleted
\* meanwhile (uq_media_season; assign.py:90-160).
IdentityUnique ==
    \A r, q \in Living : sits[r] = sits[q] => r = q

\* The second pass places what the first one parked, circles included
\* (assign.py:13-31, 167-201).
TwoPasses == run.pass <= 2

\* A link ends up where its row was to go, or was when the row was to stay: rows
\* that only met on the way are not merged (assign.py:16-31).
LinksFollowPlan ==
    run.stage = "end" /\ run.vanished = {} =>
      \A r \in MediaRows : \A l \in Holds[r] :
        \E q \in Living : /\ l \in links[q]
                          /\ sits[q] = IF plan[r] = Nowhere THEN Home[r] ELSE plan[r]

\* When the counts have been taken again they agree with the rows, for the works
\* that rows left as for those they came to, and no season is parked any more
\* (assign.py:184-190, counters.py:122-178).
WorkCounts ==
    run.stage = "end" /\ run.vanished = {} =>
      /\ \A w \in Works : books[w] = Booked(w, sits, [r \in MediaRows |-> Cardinality(links[r])])
      /\ \A r \in Living : sits[r][2] >= 0
=============================================================================
