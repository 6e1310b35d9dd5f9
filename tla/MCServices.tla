------------------------------ MODULE MCServices ------------------------------
(***************************************************************************)
(* The services beside the queues, explored side by side: in a behaviour   *)
(* one of them, `part`, is at work, the others stay where they begin.      *)
(***************************************************************************)
EXTENDS Persist, ParsePipeline, Identities, Canon, Repair, VerifyRate, SyncTables,
        TableSources, TLC

CONSTANT Shown   \* the parts explored

VARIABLE part

vars == <<part, persist, parse, identities, canon, repair, rate, sides, tables>>

\* A row of the repair queue, and one that is not there.
Row(want, n) == [there |-> TRUE, want |-> want, links |-> n, tally |-> n, mark |-> 0]
Gone == [Row("ok", 0) EXCEPT !.there = FALSE]

Init ==
    /\ part \in Shown
    /\ PersistInit /\ PipeInit /\ IdentitiesInit /\ CanonInit /\ RepairInit
    /\ RateInit /\ SyncInit /\ TablesInit
    /\ part # "identities" => plan = [r \in MediaRows |-> Nowhere]
    /\ part # "repair" => \A m \in Medias : media[m] = Gone
    /\ turn = CHOOSE s \in Sides : TRUE
    /\ part # "tables" => kind = "sheet"

PersistStep ==
    /\ part = "persist" /\ PersistNext
    /\ UNCHANGED <<part, parse, identities, canon, repair, rate, sides, tables>>
PipelineStep ==
    /\ part = "pipeline" /\ PipeNext
    /\ UNCHANGED <<part, persist, identities, canon, repair, rate, sides, tables>>
IdentitiesStep ==
    /\ part = "identities" /\ IdentitiesNext
    /\ UNCHANGED <<part, persist, parse, canon, repair, rate, sides, tables>>
CanonStep ==
    /\ part = "canon" /\ CanonNext
    /\ UNCHANGED <<part, persist, parse, identities, repair, rate, sides, tables>>
RepairStep ==
    /\ part = "repair" /\ RepairNext
    /\ UNCHANGED <<part, persist, parse, identities, canon, rate, sides, tables>>
RateStep ==
    /\ part = "rate" /\ RateNext
    /\ UNCHANGED <<part, persist, parse, identities, canon, repair, sides, tables>>
SyncStep ==
    /\ part = "sync" /\ SyncNext
    /\ UNCHANGED <<part, persist, parse, identities, canon, repair, rate, tables>>
TablesStep ==
    /\ part = "tables" /\ TablesNext
    /\ UNCHANGED <<part, persist, parse, identities, canon, repair, rate, sides>>

Next == \/ PersistStep \/ PipelineStep \/ IdentitiesStep \/ CanonStep \/ RepairStep
        \/ RateStep \/ SyncStep \/ TablesStep

\* A frozen part has no step its fairness could ask for; the visits of a source,
\* which are always possible, are asked for where they are explored.
Spec == /\ Init /\ [][Next]_vars
        /\ CanonFairness /\ RepairFairness /\ WF_tables(part = "tables" /\ Visit)

TypeOK ==
    /\ part \in Shown
    /\ PersistTypeOK /\ PipeTypeOK /\ IdentitiesTypeOK /\ CanonTypeOK /\ RepairTypeOK
    /\ RateTypeOK /\ SyncTypeOK /\ TablesTypeOK

-----------------------------------------------------------------------------
(* Instances                                                               *)

CONSTANTS p1, p2, c1, d1, d2, d3, d4, s1, s2, s3, l0, l1, l2, w1, w2, k1, k2, b1, b2
CONSTANTS local, remote, r1, r2, r3, r4, r5

\* Two parsers with two chunks each, and a cleaner that removes a season or a
\* link of the stock.
MCChunks == p1 :> <<{d1}, {d2}>> @@ p2 :> <<{d3}, {d4}>>
MCSeasonOf == d1 :> s1 @@ d2 :> s2 @@ d3 :> s3 @@ d4 :> s1
MCLinksOf == d1 :> {l1} @@ d2 :> {l2} @@ d3 :> {l2} @@ d4 :> {l1}
MCTagsOf == d1 :> {1, 2} @@ d2 :> {} @@ d3 :> {1, 2} @@ d4 :> {1}
MCStock == {<<s2, l0, 1>>, <<s2, l0, 2>>}
MCJobs == c1 :> {l0, s2}

\* The second of two shares is paged through against the order of ids; a requeue
\* gives the first one work.
MCPapers ==
    LET Paper(state, ts) == [state |-> state, ts |-> ts, due |-> 0]
    IN {<<Paper("pending", 1), Paper("done", 1), Paper("pending", 0)>>}

\* Plans exchange places, meet in one, go in a circle, or leave the rows alone.
MCHome == <<<<w1, 1>>, <<w1, 2>>, <<w2, 1>>, <<w2, 2>>>>
MCHolds == <<{1}, {2, 3}, {3}, {}>>
MCPlaces == {<<w1, 1>>, <<w1, 2>>, <<w2, 1>>, <<w2, 3>>}
OneBatch == <<{1, 2, 3, 4}>>

\* k1 and k2 are in one block, k1 is alone in another one.
MCEntries == {<<k1, b1>>, <<k2, b1>>, <<k1, b2>>}

\* A row to be moved, with links, and one of any kind; or none at all.
MCFirstMedia ==
    {<<Gone, Gone>>} \cup {<<Row(want, n), Row("rehome", 1)>> :
                             want \in {"ok", "rehome", "junk"}, n \in 0..1}

\* The second provider is not limited, the backlogs differ in length.
MCInterval == <<2, 0, 1>>
MCBacklog == <<3, 1, 2>>

\* Two tables; r2 of one side has the key of r3 of the other, r4 refers to r1.
MCTables == <<{r1}, {r2, r3, r4, r5}>>
MCKeyOf == r1 :> 1 @@ r2 :> 2 @@ r3 :> 2 @@ r4 :> 4 @@ r5 :> 5
MCParentOf == [i \in Ids |-> IF i = r4 THEN r1 ELSE NoParent]
MCFirstRows ==
    {[s \in Sides |-> [i \in Ids |-> IF <<s, i>> \in {<<local, r2>>, <<remote, r3>>} THEN 1 ELSE 0]]}
=============================================================================
