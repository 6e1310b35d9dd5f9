---------------------------- MODULE PersistProofs ----------------------------
(***************************************************************************)
(* What parsers and cleaners leave in the catalogue, for any number of     *)
(* them and whatever the batches hold (Persist).  Then the moves of        *)
(* Identities, for any rows, any plan and any batches: they need two       *)
(* passes at most, no two rows meet on an identity, nothing stays parked,  *)
(* the links of a row go where the row was to go, and in the end the       *)
(* counts agree with the rows.                                             *)
(***************************************************************************)
EXTENDS Persist, Identities, FiniteSetTheorems, WellFoundedInduction, TLAPS

Stages == {"off", "chunk", "tags", "seen", "orphans", "delete", "recount", "commit", "through"}
Spots == [stage : Stages, k : Nat, try : Nat, touched : SUBSET Seasons,
          orphans : SUBSET Seasons, affected : SUBSET Tags]
Writes == [new : Rows, done : SUBSET Docs, charged : SUBSET Docs, gone : SUBSET Seasons,
           dead : SUBSET Links, value : [Tags -> Int], sighted : SUBSET Links]
Deltas == [tag : [Tags -> Nat], seen : [Links -> Int]]

Typed ==
    /\ db \in Rows
    /\ count \in [Tags -> Nat] /\ seen \in [Links -> Int]
    /\ parsed \in [Docs -> {"pending", "done", "charged"}]
    /\ at \in [Procs -> Spots] /\ tx \in [Procs -> Writes] /\ cache \in [Procs -> Rows]
    /\ delta \in [Procs -> Deltas] /\ held \in [Procs -> SUBSET Tags]
    /\ removed \in SUBSET Seasons

\* Where a process is fits what it has.
Staged ==
    \A p \in Procs :
      /\ at[p].stage \in {"off", "through"} => tx[p] = NoWrites /\ delta[p] = NoDeltas /\ held[p] = {}
      /\ at[p].stage = "chunk" =>
           p \in Parsers /\ at[p].k \in DOMAIN Chunks[p] /\ held[p] = {} /\ tx[p].gone = {}

\* The links that documents hold; cleaners do not touch them.
DocLinks == UNION {LinksOf[d] : d \in Docs}
Kept == \A p \in Procs : tx[p].dead \cap DocLinks = {}

\* A document of the batch of p that nobody has settled.
Open(p, d) == parsed[d] = "pending" /\ p \in Parsers /\ \E j \in DOMAIN Chunks[p] : d \in Chunks[p][j]

\* The documents a transaction settles are of its batch, in chunks behind it.
Behind ==
    \A p \in Procs :
      /\ \A d \in tx[p].charged : Open(p, d)
      /\ \A d \in tx[p].done :
           /\ Open(p, d)
           /\ \E j \in DOMAIN Chunks[p] : d \in Chunks[p][j] /\ (at[p].stage = "chunk" => j < at[p].k)

\* Documents that hold link l.
Holders(D, l) == {d \in D : l \in LinksOf[d]}

\* The delta of a link is what the transaction has seen of it, less the creation.
Sightings ==
    \A p \in Procs : \A l \in Links :
      delta[p].seen[l] = Cardinality(Holders(tx[p].done, l)) - (IF l \in tx[p].new.links THEN 1 ELSE 0)

\* New links are of documents settled, and of one transaction only.
NewLinks ==
    \A p \in Procs : \A l \in tx[p].new.links :
      /\ l \notin db.links /\ \A q \in Procs \ {p} : l \notin tx[q].new.links
      /\ \E d \in tx[p].done : l \in LinksOf[d]

\* Links of documents are where the cache and the documents settled have them.
LinksThere ==
    /\ \A p \in Procs : /\ at[p].stage = "chunk" => tx[p].new.links \subseteq cache[p].links
                        /\ at[p].stage = "chunk" => cache[p].links \cap DocLinks \subseteq db.links \cup tx[p].new.links
                        /\ \A d \in tx[p].done : LinksOf[d] \subseteq db.links \cup tx[p].new.links
    /\ \A d \in Docs : parsed[d] = "done" => LinksOf[d] \subseteq db.links
    /\ \A x \in Stock : x[2] \in DocLinks => x[2] \in db.links

\* Seasons that were not removed are where the cache and the documents settled
\* have them, with their links and tags.
CacheThere(p) ==
    at[p].stage = "chunk" =>
      /\ \A s \in Seasons \ removed : cache[p].row[s] # 0 => db.row[s] # 0 \/ tx[p].new.row[s] # 0
      /\ \A x \in cache[p].pairs : x[1] \in removed \/ x[2] \notin DocLinks \/ x \in db.pairs \cup tx[p].new.pairs
      /\ \A x \in cache[p].tagged : x[1] \in removed \/ x \in db.tagged \cup tx[p].new.tagged

Whole(d, s, rows, new) ==
    /\ rows.row[s] # 0 \/ new.row[s] # 0
    /\ {s} \X LinksOf[d] \subseteq rows.pairs \cup new.pairs
    /\ {s} \X TagsOf[d] \subseteq rows.tagged \cup new.tagged

SeasonsThere(p) ==
    \A d \in tx[p].done :
      SeasonOf[d] \in Seasons \ (removed \cup tx[p].gone) => Whole(d, SeasonOf[d], db, tx[p].new)

SeasonsStored ==
    \A d \in Docs : parsed[d] = "done" =>
      (SeasonOf[d] \in Seasons \ removed => Whole(d, SeasonOf[d], db, NoRows))

\* A season referred to is there, nobody else removes it, and the cache has it right.
References ==
    \A p \in Procs : \A s \in ReferencedSeasons(tx[p].new) :
      /\ s \in Seasons /\ \A q \in Procs : s \notin tx[q].gone
      /\ tx[p].new.row[s] # 0 \/ db.row[s] # 0
      /\ at[p].stage = "chunk" => cache[p].row[s] = SeenRow(p, s)

NewSeasons ==
    \A p \in Procs : \A s \in Seasons : tx[p].new.row[s] # 0 =>
      db.row[s] = 0 /\ \A q \in Procs \ {p} : tx[q].new.row[s] = 0

\* The tags of rows that carry tag t.
Carried(tagged, t) == {x \in tagged : x[2] = t}

\* New tags are of one transaction only, and counted.
NewTags ==
    \A p \in Procs :
      /\ tx[p].new.tagged \cap db.tagged = {}
      /\ \A q \in Procs \ {p} : tx[p].new.tagged \cap tx[q].new.tagged = {}
      /\ at[p].stage = "chunk" => tx[p].new.tagged \subseteq cache[p].tagged
      /\ at[p].stage \in {"chunk", "tags"} =>
           \A t \in Tags : delta[p].tag[t] = Cardinality(Carried(tx[p].new.tagged, t))

\* A tag is locked by one process, which takes its tags in ascending order.
Locks ==
    /\ \A p, q \in Procs : p # q => held[p] \cap held[q] = {}
    /\ \A p \in Procs : at[p].stage = "tags" =>
         /\ held[p] \subseteq Wanted(p)
         /\ \A t \in held[p], u \in Wanted(p) \ held[p] : t < u

\* Counts written are of tags locked, and what the transaction sees; a tag
\* whose count is not written has no new row.
Valued(p) ==
    \A t \in Tags :
      LET carried == Cardinality(Carried(SeenTagged(p), t)) IN
      IF tx[p].value[t] < 0
      THEN at[p].stage \notin {"chunk", "tags"} => Carried(tx[p].new.tagged, t) = {}
      ELSE /\ t \in held[p] /\ tx[p].value[t] >= carried
           /\ removed \cup tx[p].gone = {} => tx[p].value[t] = carried

-----------------------------------------------------------------------------
(* New rows                                                                *)

LEMMA ProcsFinite == IsFiniteSet(Procs) /\ Cardinality(Procs) \in Nat /\ Cardinality(Seasons) \in Nat
BY FS_Union, FS_CardinalityType, PersistAssumption DEF Procs

\* There is always an id that no row seen by anybody has.
LEMMA FreshIdNew ==
    ASSUME Typed
    PROVE  FreshId \in Nat \ {0}
<1> DEFINE N == Cardinality(Seasons)
           P == Cardinality(Procs)
           K == N * (2 * P + 1) + 1
           Sources == {<<0, q>> : q \in Procs} \cup {<<1, q>> : q \in Procs} \cup {<<2, 0>>}
           Id(x) == CASE x[2][1] = 0 -> tx[x[2][2]].new.row[x[1]]
                      [] x[2][1] = 1 -> cache[x[2][2]].row[x[1]]
                      [] OTHER -> db.row[x[1]]
           Used == {Id(x) : x \in Seasons \X Sources}
<1>1. IsFiniteSet(Sources) /\ Cardinality(Sources) <= 2 * P + 1
  <2> DEFINE A == {<<0, q>> : q \in Procs}
             B == {<<1, q>> : q \in Procs}
             f == [q \in Procs |-> <<0, q>>]
             g == [q \in Procs |-> <<1, q>>]
  <2>1. f \in Surjection(Procs, A) /\ g \in Surjection(Procs, B)
    BY DEF Surjection
  <2>2. IsFiniteSet(A) /\ Cardinality(A) <= P /\ IsFiniteSet(B) /\ Cardinality(B) <= P
    BY <2>1, ProcsFinite, FS_Surjection
  <2>3. IsFiniteSet({<<2, 0>>}) /\ Cardinality({<<2, 0>>}) = 1
    BY FS_Singleton
  <2> HIDE DEF A, B, f, g
  <2>4. IsFiniteSet(A \cup B) /\ Cardinality(A \cup B) = Cardinality(A) + Cardinality(B) - Cardinality(A \cap B)
    BY <2>2, FS_Union
  <2>5. /\ IsFiniteSet((A \cup B) \cup {<<2, 0>>})
        /\ Cardinality((A \cup B) \cup {<<2, 0>>})
             = Cardinality(A \cup B) + Cardinality({<<2, 0>>}) - Cardinality((A \cup B) \cap {<<2, 0>>})
    BY <2>3, <2>4, FS_Union
  <2>6. /\ Cardinality(A) \in Nat /\ Cardinality(B) \in Nat /\ Cardinality(A \cap B) \in Nat
        /\ Cardinality((A \cup B) \cap {<<2, 0>>}) \in Nat
    BY <2>2, <2>3, <2>4, FS_CardinalityType, FS_Intersection
  <2>7. Cardinality((A \cup B) \cup {<<2, 0>>}) <= 2 * P + 1
    BY <2>2, <2>3, <2>4, <2>5, <2>6, ProcsFinite
  <2>8. Sources = (A \cup B) \cup {<<2, 0>>}
    BY DEF A, B
  <2>9. QED
    BY <2>5, <2>7, <2>8
<1>2. IsFiniteSet(Seasons \X Sources) /\ Cardinality(Seasons \X Sources) = N * Cardinality(Sources)
  <2> HIDE DEF Sources
  <2>1. QED
    BY <1>1, FS_Product, PersistAssumption
<1>3. IsFiniteSet(Used) /\ Cardinality(Used) <= Cardinality(Seasons \X Sources)
  <2> DEFINE h == [x \in Seasons \X Sources |-> Id(x)]
  <2>1. h \in Surjection(Seasons \X Sources, Used)
    <3> HIDE DEF Sources, Id
    <3>1. QED
      BY DEF Surjection
  <2> HIDE DEF Sources, Id, Used, h
  <2>2. QED
    BY <1>2, <2>1, FS_Surjection
<1>4. N \in Nat /\ P \in Nat /\ Cardinality(Sources) \in Nat /\ Cardinality(Used) \in Nat
  <2> HIDE DEF Sources, Used
  <2>1. QED
    BY <1>1, <1>3, FS_CardinalityType, ProcsFinite
<1>5. Cardinality(Used) < K
  <2> HIDE DEF Sources, Used
  <2>1. N * Cardinality(Sources) <= N * (2 * P + 1)
    <3>1. \A a, b, c \in Nat : b <= c => a * b <= a * c
      OBVIOUS
    <3> HIDE DEF N, P
    <3>2. QED
      BY <1>1, <1>4, <3>1
  <2> HIDE DEF N, P
  <2>2. N * (2 * P + 1) \in Nat
    BY <1>4
  <2>3. N * Cardinality(Sources) \in Nat
    BY <1>4
  <2>4. QED
    BY <1>2, <1>3, <1>4, <2>1, <2>2, <2>3 DEF N
<1>6. K \in Nat /\ IsFiniteSet(1..K) /\ Cardinality(1..K) = K
  <2> HIDE DEF N, P
  <2>1. K \in Nat /\ K >= 1
    BY <1>4
  <2>2. QED
    BY <2>1, FS_Interval
<1>7. PICK n \in 1..K : n \notin Used
  <2>1. ~(1..K \subseteq Used)
    <3> HIDE DEF Used, K
    <3>1. QED
      BY <1>3, <1>4, <1>5, <1>6, FS_Subset
  <2>2. QED
    BY <2>1
<1>8. \A s \in Seasons : /\ db.row[s] # n
                         /\ \A q \in Procs : tx[q].new.row[s] # n /\ cache[q].row[s] # n
  <2> TAKE s \in Seasons
  <2>1. <<s, <<2, 0>>>> \in Seasons \X Sources /\ Id(<<s, <<2, 0>>>>) = db.row[s]
    OBVIOUS
  <2>2. db.row[s] # n
    BY <1>7, <2>1
  <2>3. ASSUME NEW q \in Procs
        PROVE  tx[q].new.row[s] # n /\ cache[q].row[s] # n
    <3>1. /\ <<s, <<0, q>>>> \in Seasons \X Sources /\ Id(<<s, <<0, q>>>>) = tx[q].new.row[s]
          /\ <<s, <<1, q>>>> \in Seasons \X Sources /\ Id(<<s, <<1, q>>>>) = cache[q].row[s]
      OBVIOUS
    <3>2. QED
      BY <1>7, <3>1
  <2>4. QED
    BY <2>2, <2>3
<1>9. FreshId \in 1..K
  <2> HIDE DEF Used
  <2>1. QED
    BY <1>8 DEF FreshId
<1>10. QED
  BY <1>6, <1>9

LEMMA NoRowsTyped == NoRows \in Rows /\ NoWrites \in Writes /\ NoDeltas \in Deltas
<1>1. NoRows \in Rows
  BY Zenon DEF NoRows, Rows
<1>2. NoWrites \in Writes
  BY <1>1 DEF NoWrites, Writes
<1>3. NoDeltas \in Deltas
  BY DEF NoDeltas, Deltas
<1>4. QED
  BY <1>1, <1>2, <1>3

LEMMA BothTyped ==
    ASSUME NEW r \in Rows, NEW new \in Rows
    PROVE  Both(r, new) \in Rows
BY DEF Both, Rows

LEMMA NewTyped ==
    ASSUME Typed, NEW p \in Procs, NEW D \in SUBSET Docs
    PROVE  New(p, D) \in Rows
<1>1. cache[p] \in Rows
  BY DEF Typed
<1>2. SeasonsOf(D) \subseteq Seasons /\ \A d \in Named(D) : SeasonOf[d] \in Seasons /\ d \in Docs
  BY PersistAssumption DEF SeasonsOf, Named
<1>3. FreshId \in Nat
  BY FreshIdNew
<1>4. /\ \A d \in D : LinksOf[d] \subseteq Links
      /\ \A d \in Named(D) : LinksOf[d] \subseteq Links /\ TagsOf[d] \subseteq Tags
  BY PersistAssumption DEF Named
<1>5. New(p, D).row \in [Seasons -> Nat]
  BY <1>3 DEF New
<1>6. New(p, D).links \subseteq Links /\ New(p, D).tags \subseteq Tags
  BY <1>4 DEF New
<1>7. New(p, D).pairs \subseteq Seasons \X Links /\ New(p, D).tagged \subseteq Seasons \X Tags
  BY <1>2, <1>4 DEF New
<1>8. QED
  BY <1>5, <1>6, <1>7 DEF New, Rows

LEMMA ChunkDocs ==
    ASSUME Staged, NEW p \in Procs, at[p].stage = "chunk"
    PROVE  /\ p \in Parsers /\ at[p].k \in DOMAIN Chunks[p] /\ Chunk(p) \in SUBSET Docs
           /\ \A d \in Chunk(p) : d \in Chunks[p][at[p].k] /\ parsed[d] = "pending"
<1>1. p \in Parsers /\ at[p].k \in DOMAIN Chunks[p]
  BY DEF Staged
<1>2. Chunks[p] \in Seq(SUBSET Docs)
  BY <1>1, PersistAssumption
<1>3. Chunks[p][at[p].k] \in SUBSET Docs
  BY <1>1, <1>2
<1>4. QED
  BY <1>1, <1>3 DEF Chunk

-----------------------------------------------------------------------------
(* What each step does                                                     *)

\* A step of p leaves the other processes alone.
Apart(p) ==
    \A q \in Procs \ {p} : /\ at'[q] = at[q] /\ tx'[q] = tx[q] /\ cache'[q] = cache[q]
                           /\ delta'[q] = delta[q] /\ held'[q] = held[q]

LEMMA TypedInit == PersistInit => Typed
<1> SUFFICES ASSUME PersistInit PROVE Typed
  OBVIOUS
<1>1. \A x \in Stock : x[1] \in Seasons /\ x[2] \in Links /\ x[3] \in Tags
  BY PersistAssumption
<1>2. db \in Rows
  BY <1>1 DEF PersistInit, Rows
<1>3. count \in [Tags -> Nat]
  <2>1. ASSUME NEW t \in Tags
        PROVE  Cardinality({x[1] : x \in {y \in Stock : y[3] = t}}) \in Nat
    <3>1. {x[1] : x \in {y \in Stock : y[3] = t}} \subseteq Seasons
      BY <1>1
    <3>2. QED
      BY <3>1, FS_Subset, FS_CardinalityType, PersistAssumption
  <2>2. QED
    BY <2>1 DEF PersistInit
<1>4. seen \in [Links -> Int] /\ parsed \in [Docs -> {"pending", "done", "charged"}]
  BY DEF PersistInit
<1>5. Start \in Spots
  BY DEF Start, Spots, Stages
<1>6. QED
  BY <1>2, <1>3, <1>4, <1>5, NoRowsTyped DEF PersistInit, Typed

LEMMA PreloadGives ==
    ASSUME Typed, Staged, NEW p \in Parsers, Preload(p)
    PROVE  /\ Typed' /\ Apart(p)
           /\ UNCHANGED <<db, count, seen, parsed, delta, held, removed>>
           /\ at[p].stage = "off" /\ at'[p].stage = "chunk" /\ at'[p].k \in DOMAIN Chunks[p]
           /\ cache'[p] = db
           /\ \E D \in SUBSET Docs : /\ tx'[p] = [NoWrites EXCEPT !.charged = D]
                                    /\ \A d \in D : Open(p, d)
<1>1. p \in Procs
  BY DEF Procs
<1>2. at[p].stage = "off" /\ tx[p] = NoWrites
  BY <1>1 DEF Preload, Staged
<1>3. PICK D \in SUBSET {d \in Docs : \E k \in DOMAIN Chunks[p] : d \in Chunks[p][k]} :
        /\ \A d \in D : parsed[d] = "pending"
        /\ tx' = [tx EXCEPT ![p].charged = D]
  BY Zenon DEF Preload
<1> D \in SUBSET Docs /\ \A d \in D : Open(p, d)
  BY <1>3 DEF Open
<1>4. [NoWrites EXCEPT !.charged = D] \in Writes
  BY NoRowsTyped, Zenon DEF Writes
<1>5. tx' = [tx EXCEPT ![p] = [NoWrites EXCEPT !.charged = D]]
  BY <1>2, <1>3, Zenon
<1>6. tx' \in [Procs -> Writes] /\ tx'[p] = [NoWrites EXCEPT !.charged = D]
      /\ \A q \in Procs \ {p} : tx'[q] = tx[q]
  BY <1>1, <1>4, <1>5, Zenon DEF Typed
<1>7. [Start EXCEPT !.stage = "chunk", !.k = 1, !.try = 1] \in Spots
  BY DEF Start, Spots, Stages
<1>8. /\ at' \in [Procs -> Spots] /\ at'[p] = [Start EXCEPT !.stage = "chunk", !.k = 1, !.try = 1]
      /\ \A q \in Procs \ {p} : at'[q] = at[q]
  BY <1>1, <1>7, Zenon DEF Typed, Preload
<1>9. 1 \in DOMAIN Chunks[p]
  <2>1. Chunks[p] \in Seq(SUBSET Docs)
    BY PersistAssumption
  <2>2. PICK k \in DOMAIN Chunks[p] : TRUE
    BY DEF Preload
  <2>3. QED
    BY <2>1, <2>2
<1>10. at'[p].stage = "chunk" /\ at'[p].k = 1
  BY <1>8 DEF Start
<1>11. cache' \in [Procs -> Rows] /\ cache'[p] = db /\ \A q \in Procs \ {p} : cache'[q] = cache[q]
  BY <1>1, Zenon DEF Typed, Preload
<1>12. UNCHANGED <<db, count, seen, parsed, delta, held, removed>>
  BY DEF Preload
<1>13. Typed'
  BY <1>6, <1>8, <1>11, <1>12 DEF Typed
<1>14. Apart(p)
  BY <1>6, <1>8, <1>11, <1>12 DEF Apart
<1>15. QED
  BY <1>2, <1>6, <1>9, <1>10, <1>11, <1>12, <1>13, <1>14

\* After a chunk comes the next one, or the deltas.
LEMMA AfterGives ==
    ASSUME Typed, Staged, NEW p \in Procs, at[p].stage = "chunk"
    PROVE  /\ After(p) \in Spots /\ After(p).stage \in {"chunk", "tags"}
           /\ After(p).stage = "chunk" => After(p).k \in DOMAIN Chunks[p] /\ After(p).k = at[p].k + 1
<1>1. p \in Parsers /\ at[p].k \in DOMAIN Chunks[p]
  BY ChunkDocs
<1>2. Chunks[p] \in Seq(SUBSET Docs)
  BY <1>1, PersistAssumption
<1>3. at[p] \in Spots /\ at[p].k \in Nat
  BY DEF Typed, Spots
<1>4. CASE at[p].k = Len(Chunks[p])
  <2>1. After(p) = [at[p] EXCEPT !.stage = "tags", !.k = 0, !.try = 0]
    BY <1>4 DEF After
  <2>2. "tags" \in Stages /\ 0 \in Nat
    BY DEF Stages
  <2>3. After(p) \in Spots /\ After(p).stage = "tags"
    BY <1>3, <2>1, <2>2, Zenon DEF Spots
  <2>4. QED
    BY <2>3
<1>5. CASE at[p].k # Len(Chunks[p])
  <2>1. After(p) = [at[p] EXCEPT !.k = @ + 1, !.try = 1]
    BY <1>5 DEF After
  <2>2. at[p].k + 1 \in DOMAIN Chunks[p]
    BY <1>1, <1>2, <1>3, <1>5
  <2>3. at[p].k + 1 \in Nat /\ 1 \in Nat
    BY <1>3
  <2>4. After(p) \in Spots /\ After(p).stage = "chunk" /\ After(p).k = at[p].k + 1
    BY <1>3, <2>1, <2>3, Zenon DEF Spots
  <2>5. QED
    BY <2>2, <2>4
<1>6. QED
  BY <1>4, <1>5

LEMMA CarriedFinite ==
    ASSUME NEW S \in SUBSET (Seasons \X Tags), NEW t
    PROVE  IsFiniteSet(Carried(S, t)) /\ Cardinality(Carried(S, t)) \in Nat
<1>1. IsFiniteSet(Tags)
  BY FS_Interval, PersistAssumption DEF Tags
<1>2. IsFiniteSet(Seasons \X Tags)
  BY <1>1, FS_Product, PersistAssumption
<1>3. QED
  BY <1>2, FS_Subset, FS_CardinalityType DEF Carried

LEMMA HoldersFinite ==
    ASSUME NEW D \in SUBSET Docs, NEW l
    PROVE  IsFiniteSet(Holders(D, l)) /\ Cardinality(Holders(D, l)) \in Nat
BY FS_Subset, FS_CardinalityType, PersistAssumption DEF Holders

LEMMA DisjointSum ==
    ASSUME NEW S, NEW T, IsFiniteSet(S), IsFiniteSet(T), S \cap T = {}
    PROVE  Cardinality(S \cup T) = Cardinality(S) + Cardinality(T)
<1>1. Cardinality(S \cup T) = Cardinality(S) + Cardinality(T) - Cardinality(S \cap T)
  BY FS_Union
<1>2. Cardinality(S \cap T) = 0
  BY FS_EmptySet
<1>3. Cardinality(S) \in Nat /\ Cardinality(T) \in Nat
  BY FS_CardinalityType
<1>4. QED
  BY <1>1, <1>2, <1>3

LEMMA AddedTyped ==
    ASSUME NEW e \in Deltas, NEW D \in SUBSET Docs, NEW new \in Rows
    PROVE  /\ Added(e, D, new) \in Deltas
           /\ \A t \in Tags : Added(e, D, new).tag[t] = e.tag[t] + Cardinality(Carried(new.tagged, t))
           /\ \A l \in Links : Added(e, D, new).seen[l]
                = e.seen[l] + (Cardinality(Holders(D, l)) - (IF l \in new.links THEN 1 ELSE 0))
<1>1. \A t \in Tags : Cardinality(Carried(new.tagged, t)) \in Nat
  BY CarriedFinite DEF Rows
<1>2. \A l \in Links : Cardinality(Holders(D, l)) \in Nat
  BY HoldersFinite
<1>3. \A t \in Tags : Counted(new)[t] = Cardinality(Carried(new.tagged, t))
  BY DEF Counted, Carried
<1>4. \A l \in Links : Sighted(D, new)[l] = Cardinality(Holders(D, l)) - (IF l \in new.links THEN 1 ELSE 0)
  BY DEF Sighted, Holders
<1>5. \A l \in Links : Sighted(D, new)[l] \in Int
  BY <1>2, <1>4
<1>6. e.tag \in [Tags -> Nat] /\ e.seen \in [Links -> Int]
  BY DEF Deltas
<1>7. \A t \in Tags : e.tag[t] + Counted(new)[t] \in Nat
  BY <1>1, <1>3, <1>6
<1>8. \A l \in Links : e.seen[l] + Sighted(D, new)[l] \in Int
  BY <1>5, <1>6
<1>9. Added(e, D, new) \in Deltas
  BY <1>7, <1>8 DEF Added, Deltas
<1>10. QED
  BY <1>3, <1>4, <1>9 DEF Added

LEMMA StoredGives ==
    ASSUME Typed, Staged, NEW p \in Procs, ChunkStored(p)
    PROVE  LET D == Chunk(p)  new == New(p, D) IN
           /\ Typed' /\ Apart(p)
           /\ UNCHANGED <<db, count, seen, parsed, held, removed>>
           /\ at[p].stage = "chunk" /\ InsertWaits(p, new) = {} /\ ~Collides(p, new)
           /\ new \in Rows /\ D \in SUBSET Docs
           /\ tx'[p] = [tx[p] EXCEPT !.new = Both(@, new), !.done = @ \cup D]
           /\ cache'[p] = Both(cache[p], new)
           /\ delta'[p] = Added(delta[p], D, new)
           /\ at'[p].stage \in {"chunk", "tags"}
           /\ at'[p].stage = "chunk" => at'[p].k \in DOMAIN Chunks[p] /\ at'[p].k = at[p].k + 1
<1> DEFINE D == Chunk(p)
           new == New(p, D)
           w == [tx[p] EXCEPT !.new = Both(@, new), !.done = @ \cup D]
           a == [After(p) EXCEPT !.touched = @ \cup SeasonsOf(D)]
<1>1. /\ at[p].stage = "chunk" /\ InsertWaits(p, new) = {} /\ ~Collides(p, new)
      /\ tx' = [tx EXCEPT ![p] = w]
      /\ cache' = [cache EXCEPT ![p] = Both(cache[p], new)]
      /\ delta' = [delta EXCEPT ![p] = Added(delta[p], D, new)]
      /\ at' = [at EXCEPT ![p] = a]
      /\ UNCHANGED <<db, count, seen, parsed, held, removed>>
  BY Zenon DEF ChunkStored
<1>2. D \in SUBSET Docs
  BY <1>1, ChunkDocs
<1>3. new \in Rows
  BY <1>2, NewTyped
<1> HIDE DEF D, new
<1>4. tx[p] \in Writes /\ cache[p] \in Rows /\ delta[p] \in Deltas /\ Both(tx[p].new, new) \in Rows
  <2>1. tx[p] \in Writes /\ cache[p] \in Rows /\ delta[p] \in Deltas
    BY DEF Typed
  <2>2. tx[p].new \in Rows
    BY <2>1 DEF Writes
  <2>3. QED
    BY <1>3, <2>1, <2>2, BothTyped
<1>5. w \in Writes
  <2>1. tx[p].done \cup D \in SUBSET Docs
    BY <1>2, <1>4 DEF Writes
  <2>2. QED
    BY <1>4, <2>1, Zenon DEF Writes
<1>6. Both(cache[p], new) \in Rows
  BY <1>3, <1>4, BothTyped
<1>7. Added(delta[p], D, new) \in Deltas
  BY <1>2, <1>3, <1>4, AddedTyped
<1>8. After(p) \in Spots /\ After(p).stage \in {"chunk", "tags"}
      /\ (After(p).stage = "chunk" => After(p).k \in DOMAIN Chunks[p] /\ After(p).k = at[p].k + 1)
  BY <1>1, AfterGives
<1>9. a \in Spots /\ a.stage = After(p).stage /\ a.k = After(p).k
  <2>1. After(p).touched \cup SeasonsOf(D) \in SUBSET Seasons
    BY <1>2, <1>8, PersistAssumption DEF Spots, SeasonsOf, Named
  <2>2. QED
    BY <1>8, <2>1, Zenon DEF Spots
<1> HIDE DEF w, a
<1>10. /\ tx' \in [Procs -> Writes] /\ tx'[p] = w /\ \A q \in Procs \ {p} : tx'[q] = tx[q]
       /\ cache' \in [Procs -> Rows] /\ cache'[p] = Both(cache[p], new)
       /\ \A q \in Procs \ {p} : cache'[q] = cache[q]
       /\ delta' \in [Procs -> Deltas] /\ delta'[p] = Added(delta[p], D, new)
       /\ \A q \in Procs \ {p} : delta'[q] = delta[q]
       /\ at' \in [Procs -> Spots] /\ at'[p] = a /\ \A q \in Procs \ {p} : at'[q] = at[q]
  BY <1>1, <1>5, <1>6, <1>7, <1>9, Zenon DEF Typed
<1>11. Typed'
  BY <1>1, <1>10 DEF Typed
<1>12. Apart(p)
  BY <1>1, <1>10 DEF Apart
<1>13. QED
  BY <1>1, <1>2, <1>3, <1>8, <1>9, <1>10, <1>11, <1>12 DEF D, new, w

\* What the cache loses when a chunk is rolled back.
Dropped(p, c, dropped) ==
    /\ \A s \in dropped : cache[p].row[s] # SeenRow(p, s)
    /\ c.links = cache[p].links /\ c.tags = cache[p].tags
    /\ \A s \in Seasons : c.row[s] = IF s \in dropped THEN 0 ELSE cache[p].row[s]
    /\ c.pairs = {x \in cache[p].pairs : x[1] \notin dropped}
    /\ c.tagged = {x \in cache[p].tagged : x[1] \notin dropped}

LEMMA RefreshedGives ==
    ASSUME Typed, NEW p \in Procs, NEW stale \in SUBSET Seasons
    PROVE  /\ Refreshed(p, cache[p], stale) \in Rows
           /\ \E dropped \in SUBSET Seasons : Dropped(p, Refreshed(p, cache[p], stale), dropped)
<1> DEFINE dropped == {s \in stale : cache[p].row[s] # SeenRow(p, s)}
           row == [s \in Seasons |-> IF s \in dropped THEN 0 ELSE cache[p].row[s]]
           pairs == {x \in cache[p].pairs : x[1] \notin dropped}
           tagged == {x \in cache[p].tagged : x[1] \notin dropped}
           c == Refreshed(p, cache[p], stale)
<1>1. c = [cache[p] EXCEPT !.row = row, !.pairs = pairs, !.tagged = tagged]
  BY Zenon DEF Refreshed
<1>2. cache[p] \in Rows
  BY DEF Typed
<1>3. row \in [Seasons -> Nat] /\ pairs \in SUBSET (Seasons \X Links) /\ tagged \in SUBSET (Seasons \X Tags)
  BY <1>2 DEF Rows
<1> HIDE DEF row, pairs, tagged, c
<1>4. /\ c \in Rows /\ c.row = row /\ c.pairs = pairs /\ c.tagged = tagged
      /\ c.links = cache[p].links /\ c.tags = cache[p].tags
  BY <1>1, <1>2, <1>3, Zenon DEF Rows
<1>5. Dropped(p, c, dropped)
  BY <1>4 DEF Dropped, row, pairs, tagged
<1>6. dropped \in SUBSET Seasons
  OBVIOUS
<1> HIDE DEF dropped
<1>7. QED
  BY <1>4, <1>5, <1>6 DEF c

\* A chunk that is rolled back changes nothing but the cache, who is charged,
\* and where the process goes on.
LEMMA BackGives ==
    ASSUME Typed, Staged, NEW p \in Procs, ChunkCollides(p) \/ ChunkRaises(p)
    PROVE  /\ Typed' /\ Apart(p)
           /\ UNCHANGED <<db, count, seen, parsed, held, removed, delta>>
           /\ at[p].stage = "chunk" /\ at'[p].stage \in {"chunk", "tags"}
           /\ at'[p].stage = "chunk" => at'[p].k \in DOMAIN Chunks[p] /\ at'[p].k >= at[p].k
           /\ \E D \in SUBSET Docs : /\ tx'[p] = [tx[p] EXCEPT !.charged = D]
                                    /\ \A d \in D : d \in tx[p].charged \/ Open(p, d)
           /\ \E dropped \in SUBSET Seasons : Dropped(p, cache'[p], dropped)
<1>1. /\ at[p].stage = "chunk" /\ RolledBack(p, Chunk(p), New(p, Chunk(p)))
  BY DEF ChunkCollides, ChunkRaises
<1>2. /\ Chunk(p) \in SUBSET Docs /\ at[p].k \in DOMAIN Chunks[p] /\ p \in Parsers
  BY <1>1, ChunkDocs
<1>3. SeasonsOf(Chunk(p)) \in SUBSET Seasons
  BY <1>2, PersistAssumption DEF SeasonsOf, Named
<1>4. PICK stale \in SUBSET SeasonsOf(Chunk(p)) :
        cache' = [cache EXCEPT ![p] = Refreshed(p, cache[p], stale)]
  BY <1>1, Zenon DEF RolledBack, Restored
<1>5. /\ Refreshed(p, cache[p], stale) \in Rows
      /\ \E dropped \in SUBSET Seasons : Dropped(p, Refreshed(p, cache[p], stale), dropped)
  BY <1>3, <1>4, RefreshedGives
<1>6. /\ cache' \in [Procs -> Rows] /\ cache'[p] = Refreshed(p, cache[p], stale)
      /\ \A q \in Procs \ {p} : cache'[q] = cache[q]
  BY <1>4, <1>5, Zenon DEF Typed
<1>7. delta' = delta /\ UNCHANGED <<db, count, seen, parsed, held, removed>>
  <2>1. delta' = [delta EXCEPT ![p] = delta[p]]
    BY <1>1, Zenon DEF RolledBack, AfterRollback
  <2>2. delta' = delta
    BY <2>1 DEF Typed
  <2>3. QED
    BY <1>1, <2>2 DEF RolledBack
<1>8. /\ After(p) \in Spots /\ After(p).stage \in {"chunk", "tags"}
      /\ After(p).stage = "chunk" => After(p).k \in DOMAIN Chunks[p] /\ After(p).k = at[p].k + 1
  BY <1>1, AfterGives
<1>9. at[p] \in Spots /\ tx[p] \in Writes /\ at[p].k \in Nat
  BY DEF Typed, Spots
<1>10. \E D \in SUBSET Docs : /\ tx' = [tx EXCEPT ![p] = [tx[p] EXCEPT !.charged = D]]
                             /\ \A d \in D : d \in tx[p].charged \/ Open(p, d)
  <2>1. CASE ChunkCollides(p)
    <3>1. tx[p].charged \in SUBSET Docs
      BY <1>9 DEF Writes
    <3>2. tx' = tx
      BY <2>1 DEF ChunkCollides
    <3>3. tx = [tx EXCEPT ![p] = [tx[p] EXCEPT !.charged = tx[p].charged]]
      BY <1>9 DEF Typed, Writes
    <3>4. QED
      BY <3>1, <3>2, <3>3
  <2>2. CASE ChunkRaises(p)
    <3>1. PICK d \in Chunk(p) : tx' = [tx EXCEPT ![p].charged = @ \cup {d}]
      BY <2>2 DEF ChunkRaises
    <3>2. tx' = [tx EXCEPT ![p] = [tx[p] EXCEPT !.charged = tx[p].charged \cup {d}]]
      BY <3>1, Zenon
    <3>3. tx[p].charged \cup {d} \in SUBSET Docs
      BY <1>2, <1>9 DEF Writes
    <3>4. Open(p, d)
      BY <1>1, ChunkDocs DEF Open
    <3>5. QED
      BY <3>2, <3>3, <3>4
  <2>3. QED
    BY <2>1, <2>2
<1>11. PICK D \in SUBSET Docs : /\ tx' = [tx EXCEPT ![p] = [tx[p] EXCEPT !.charged = D]]
                              /\ \A d \in D : d \in tx[p].charged \/ Open(p, d)
  BY <1>10
<1>12. [tx[p] EXCEPT !.charged = D] \in Writes
  BY <1>9, Zenon DEF Writes
<1>13. /\ tx' \in [Procs -> Writes] /\ tx'[p] = [tx[p] EXCEPT !.charged = D]
       /\ \A q \in Procs \ {p} : tx'[q] = tx[q]
  BY <1>11, <1>12, Zenon DEF Typed
<1>14. PICK a \in Spots :
         /\ at' = [at EXCEPT ![p] = a] /\ a.stage \in {"chunk", "tags"}
         /\ a.stage = "chunk" => a.k \in DOMAIN Chunks[p] /\ a.k >= at[p].k
  <2>1. CASE ChunkCollides(p)
    <3> DEFINE b == IF at[p].try = 1 THEN [at[p] EXCEPT !.try = 2] ELSE After(p)
    <3>1. PICK touched \in {{}, SeasonsOf(Chunk(p))} :
            at' = [at EXCEPT ![p] = [b EXCEPT !.touched = @ \cup touched]]
      BY <2>1, Zenon DEF ChunkCollides
    <3>2. /\ b \in Spots /\ b.stage \in {"chunk", "tags"}
          /\ b.stage = "chunk" => b.k \in DOMAIN Chunks[p] /\ b.k >= at[p].k
      <4>1. CASE at[p].try = 1
        <5>1. b = [at[p] EXCEPT !.try = 2] /\ 2 \in Nat
          BY <4>1
        <5> HIDE DEF b
        <5>2. b \in Spots /\ b.stage = at[p].stage /\ b.k = at[p].k
          BY <1>9, <5>1, Zenon DEF Spots
        <5>3. QED
          BY <1>1, <1>2, <1>9, <5>2
      <4>2. CASE at[p].try # 1
        <5>1. b = After(p)
          BY <4>2
        <5> HIDE DEF b
        <5>2. QED
          BY <1>8, <1>9, <5>1
      <4>3. QED
        BY <4>1, <4>2
    <3> HIDE DEF b
    <3>3. b.touched \cup touched \in SUBSET Seasons
      BY <1>3, <3>1, <3>2 DEF Spots
    <3>4. /\ [b EXCEPT !.touched = @ \cup touched] \in Spots
          /\ [b EXCEPT !.touched = @ \cup touched].stage = b.stage
          /\ [b EXCEPT !.touched = @ \cup touched].k = b.k
      BY <3>2, <3>3, Zenon DEF Spots
    <3>5. QED
      BY <3>1, <3>2, <3>4
  <2>2. CASE ChunkRaises(p)
    <3>1. at' = [at EXCEPT ![p] = After(p)]
      BY <2>2 DEF ChunkRaises
    <3>2. After(p).stage = "chunk" => After(p).k >= at[p].k
      BY <1>8, <1>9
    <3>3. QED
      BY <1>8, <3>1, <3>2
  <2>3. QED
    BY <2>1, <2>2
<1>15. at' \in [Procs -> Spots] /\ at'[p] = a /\ \A q \in Procs \ {p} : at'[q] = at[q]
  BY <1>14, Zenon DEF Typed
<1>16. Typed'
  BY <1>6, <1>7, <1>13, <1>15 DEF Typed
<1>17. Apart(p)
  BY <1>6, <1>7, <1>13, <1>15 DEF Apart
<1>18. QED
  BY <1>1, <1>5, <1>6, <1>7, <1>11, <1>13, <1>14, <1>15, <1>16, <1>17

LEMMA MoveGives ==
    ASSUME Typed, NEW p \in Procs, NEW s \in Stages, Move(p, s)
    PROVE  /\ at' \in [Procs -> Spots] /\ at'[p] = [at[p] EXCEPT !.stage = s] /\ at'[p].stage = s
           /\ \A q \in Procs \ {p} : at'[q] = at[q]
<1>1. at[p] \in Spots
  BY DEF Typed
<1>2. [at[p] EXCEPT !.stage = s] \in Spots /\ [at[p] EXCEPT !.stage = s].stage = s
  BY <1>1, Zenon DEF Spots
<1>3. at' = [at EXCEPT ![p] = [at[p] EXCEPT !.stage = s]]
  BY Zenon DEF Move
<1>4. QED
  BY <1>2, <1>3, Zenon DEF Typed

LEMMA LockGives ==
    ASSUME Typed, NEW p \in Procs, LockTag(p)
    PROVE  /\ Typed' /\ Apart(p)
           /\ UNCHANGED <<db, count, seen, parsed, at, tx, cache, delta, removed>>
           /\ \E t \in NextLocks(Wanted(p) \ held[p]) :
                /\ t \in Tags /\ held'[p] = held[p] \cup {t} /\ \A q \in Procs : t \notin held[q]
<1>1. PICK t \in NextLocks(Wanted(p) \ held[p]) :
        /\ \A q \in Procs : t \notin held[q]
        /\ held' = [held EXCEPT ![p] = @ \cup {t}]
        /\ UNCHANGED <<db, count, seen, parsed, at, tx, cache, delta, removed>>
  BY Zenon DEF LockTag
<1>2. at[p] \in Spots
  BY DEF Typed
<1>3. Wanted(p) \subseteq Tags
  BY <1>2 DEF Wanted, Spots
<1>4. t \in Tags
  BY <1>3 DEF NextLocks
<1>5. /\ held' \in [Procs -> SUBSET Tags] /\ held'[p] = held[p] \cup {t}
      /\ \A q \in Procs \ {p} : held'[q] = held[q]
  BY <1>1, <1>4 DEF Typed
<1>6. Typed' /\ Apart(p)
  BY <1>1, <1>5 DEF Typed, Apart
<1>7. QED
  BY <1>1, <1>4, <1>5, <1>6

\* A value written to the counts, of tags wanted and locked.
LEMMA ValueGives ==
    ASSUME Typed, NEW p \in Procs, NEW v \in [Tags -> Int], NEW s \in Stages,
           tx' = [tx EXCEPT ![p].value = v], Move(p, s),
           UNCHANGED <<db, count, seen, parsed, cache, delta, held, removed>>
    PROVE  /\ Typed' /\ Apart(p) /\ tx'[p] = [tx[p] EXCEPT !.value = v] /\ at'[p].stage = s
<1>1. tx[p] \in Writes
  BY DEF Typed
<1>2. [tx[p] EXCEPT !.value = v] \in Writes
  BY <1>1, Zenon DEF Writes
<1>3. tx' = [tx EXCEPT ![p] = [tx[p] EXCEPT !.value = v]]
  BY Zenon
<1>4. /\ tx' \in [Procs -> Writes] /\ tx'[p] = [tx[p] EXCEPT !.value = v]
      /\ \A q \in Procs \ {p} : tx'[q] = tx[q]
  BY <1>2, <1>3, Zenon DEF Typed
<1>5. at' \in [Procs -> Spots] /\ at'[p].stage = s /\ \A q \in Procs \ {p} : at'[q] = at[q]
  BY MoveGives
<1>6. Typed'
  BY <1>4, <1>5 DEF Typed
<1>7. Apart(p)
  BY <1>4, <1>5 DEF Apart
<1>8. QED
  BY <1>4, <1>5, <1>6, <1>7

LEMMA ApplyTagsGives ==
    ASSUME Typed, NEW p \in Procs, ApplyTagDeltas(p)
    PROVE  /\ Typed' /\ Apart(p)
           /\ UNCHANGED <<db, count, seen, parsed, cache, delta, held, removed>>
           /\ at[p].stage = "tags" /\ at'[p].stage = "seen" /\ Wanted(p) \subseteq held[p]
           /\ \E v \in [Tags -> Int] :
                /\ tx'[p] = [tx[p] EXCEPT !.value = v]
                /\ \A t \in Tags : v[t] = IF t \in Wanted(p) THEN count[t] + delta[p].tag[t]
                                          ELSE tx[p].value[t]
<1> DEFINE v == [t \in Tags |-> IF t \in Wanted(p) THEN Raised(p, t) ELSE tx[p].value[t]]
<1>1. tx' = [tx EXCEPT ![p].value = v]
  BY Zenon DEF ApplyTagDeltas
<1>2. tx[p] \in Writes /\ delta[p] \in Deltas /\ count \in [Tags -> Nat]
  BY DEF Typed
<1>3. \A t \in Tags : tx[p].value[t] \in Int /\ delta[p].tag[t] \in Nat /\ count[t] \in Nat
  BY <1>2 DEF Writes, Deltas
<1>4. v \in [Tags -> Int]
  BY <1>3 DEF Raised
<1>5. \A t \in Tags : v[t] = IF t \in Wanted(p) THEN count[t] + delta[p].tag[t] ELSE tx[p].value[t]
  BY DEF Raised
<1> HIDE DEF v
<1>6. /\ at[p].stage = "tags" /\ Wanted(p) \subseteq held[p] /\ Move(p, "seen")
      /\ UNCHANGED <<db, count, seen, parsed, cache, delta, held, removed>>
  BY DEF ApplyTagDeltas
<1>7. "seen" \in Stages
  BY DEF Stages
<1>8. Typed' /\ Apart(p) /\ tx'[p] = [tx[p] EXCEPT !.value = v] /\ at'[p].stage = "seen"
  BY <1>1, <1>4, <1>6, <1>7, ValueGives
<1>9. QED
  BY <1>4, <1>5, <1>6, <1>8

LEMMA SeenTaggedTyped ==
    ASSUME Typed, NEW p \in Procs
    PROVE  SeenTagged(p) \in SUBSET (Seasons \X Tags)
<1>1. tx[p] \in Writes /\ db \in Rows
  BY DEF Typed
<1>2. db.tagged \subseteq Seasons \X Tags /\ tx[p].new.tagged \subseteq Seasons \X Tags
  BY <1>1 DEF Writes, Rows
<1>3. QED
  BY <1>2 DEF SeenTagged, Alive

LEMMA RecountGives ==
    ASSUME Typed, NEW p \in Procs, RecountTags(p)
    PROVE  /\ Typed' /\ Apart(p)
           /\ UNCHANGED <<db, count, seen, parsed, cache, delta, held, removed>>
           /\ at[p].stage = "recount" /\ at'[p].stage = "commit" /\ Wanted(p) \subseteq held[p]
           /\ \E v \in [Tags -> Int] :
                /\ tx'[p] = [tx[p] EXCEPT !.value = v]
                /\ \A t \in Tags : v[t] = IF t \in Wanted(p) THEN Cardinality(Carried(SeenTagged(p), t))
                                          ELSE tx[p].value[t]
<1> DEFINE v == [t \in Tags |-> IF t \in Wanted(p) THEN Cardinality({x \in SeenTagged(p) : x[2] = t})
                                ELSE tx[p].value[t]]
<1>1. tx' = [tx EXCEPT ![p].value = v]
  BY Zenon DEF RecountTags
<1>2. tx[p] \in Writes
  BY DEF Typed
<1>3. \A t \in Tags : tx[p].value[t] \in Int /\ Cardinality(Carried(SeenTagged(p), t)) \in Nat
  BY <1>2, SeenTaggedTyped, CarriedFinite DEF Writes
<1>4. \A t \in Tags : v[t] = IF t \in Wanted(p) THEN Cardinality(Carried(SeenTagged(p), t)) ELSE tx[p].value[t]
  BY DEF Carried
<1>5. v \in [Tags -> Int]
  BY <1>3 DEF Carried
<1> HIDE DEF v
<1>6. /\ at[p].stage = "recount" /\ Wanted(p) \subseteq held[p] /\ Move(p, "commit")
      /\ UNCHANGED <<db, count, seen, parsed, cache, delta, held, removed>>
  BY DEF RecountTags
<1>7. "commit" \in Stages
  BY DEF Stages
<1>8. Typed' /\ Apart(p) /\ tx'[p] = [tx[p] EXCEPT !.value = v] /\ at'[p].stage = "commit"
  BY <1>1, <1>5, <1>6, <1>7, ValueGives
<1>9. QED
  BY <1>4, <1>5, <1>6, <1>8

LEMMA ApplySeenGives ==
    ASSUME Typed, NEW p \in Procs, ApplySeenDeltas(p)
    PROVE  /\ Typed' /\ Apart(p)
           /\ UNCHANGED <<db, count, seen, parsed, cache, delta, held, removed>>
           /\ at[p].stage = "seen" /\ at'[p].stage = "orphans"
           /\ \E S : tx'[p] = [tx[p] EXCEPT !.sighted = S]
<1>1. /\ at[p].stage = "seen" /\ Move(p, "orphans")
      /\ tx' = [tx EXCEPT ![p] = [tx[p] EXCEPT !.sighted = SeenAgain(p)]]
      /\ UNCHANGED <<db, count, seen, parsed, cache, delta, held, removed>>
  BY Zenon DEF ApplySeenDeltas
<1>2. tx[p] \in Writes /\ SeenAgain(p) \in SUBSET Links /\ "orphans" \in Stages
  BY DEF Typed, SeenAgain, Stages
<1>3. [tx[p] EXCEPT !.sighted = SeenAgain(p)] \in Writes
  BY <1>2, Zenon DEF Writes
<1>4. /\ tx' \in [Procs -> Writes] /\ tx'[p] = [tx[p] EXCEPT !.sighted = SeenAgain(p)]
      /\ \A q \in Procs \ {p} : tx'[q] = tx[q]
  BY <1>1, <1>3, Zenon DEF Typed
<1>5. at' \in [Procs -> Spots] /\ at'[p].stage = "orphans" /\ \A q \in Procs \ {p} : at'[q] = at[q]
  BY <1>1, <1>2, MoveGives
<1>6. Typed' /\ Apart(p)
  BY <1>1, <1>4, <1>5 DEF Typed, Apart
<1>7. QED
  BY <1>1, <1>4, <1>5, <1>6

LEMMA FindGives ==
    ASSUME Typed, NEW p \in Procs, FindOrphans(p)
    PROVE  /\ Typed' /\ Apart(p)
           /\ UNCHANGED <<db, count, seen, parsed, tx, cache, delta, held, removed>>
           /\ at[p].stage = "orphans" /\ at'[p].stage \in {"commit", "delete"}
<1> DEFINE orphans == {s \in at[p].touched : SeenRow(p, s) # 0 /\ \A x \in SeenPairs(p) : x[1] # s}
           affected == {x[2] : x \in {y \in SeenTagged(p) : y[1] \in orphans}}
           stage == IF orphans = {} THEN "commit" ELSE "delete"
           a == [at[p] EXCEPT !.orphans = orphans, !.affected = affected, !.stage = stage]
<1>1. /\ at[p].stage = "orphans" /\ at' = [at EXCEPT ![p] = a]
      /\ UNCHANGED <<db, count, seen, parsed, tx, cache, delta, held, removed>>
  BY Zenon DEF FindOrphans
<1>2. at[p] \in Spots
  BY DEF Typed
<1>3. orphans \in SUBSET Seasons
  BY <1>2 DEF Spots
<1>4. affected \in SUBSET Tags
  BY SeenTaggedTyped
<1>5. stage \in Stages /\ stage \in {"commit", "delete"}
  BY DEF Stages
<1> HIDE DEF orphans, affected, stage
<1>6. a \in Spots /\ a.stage = stage
  BY <1>2, <1>3, <1>4, <1>5, Zenon DEF Spots
<1> HIDE DEF a
<1>7. at' \in [Procs -> Spots] /\ at'[p] = a /\ \A q \in Procs \ {p} : at'[q] = at[q]
  BY <1>1, <1>6, Zenon DEF Typed
<1>8. Typed' /\ Apart(p)
  BY <1>1, <1>7 DEF Typed, Apart
<1>9. QED
  BY <1>1, <1>5, <1>6, <1>7, <1>8

LEMMA WithoutTyped ==
    ASSUME NEW new \in Rows, NEW S \in SUBSET Seasons
    PROVE  /\ Without(new, S) \in Rows
           /\ \A s \in Seasons : Without(new, S).row[s] = IF s \in S THEN 0 ELSE new.row[s]
           /\ Without(new, S).links = new.links
           /\ Without(new, S).pairs = {x \in new.pairs : x[1] \notin S}
           /\ Without(new, S).tagged = {x \in new.tagged : x[1] \notin S}
<1> DEFINE row == [s \in Seasons |-> IF s \in S THEN 0 ELSE new.row[s]]
           pairs == {x \in new.pairs : x[1] \notin S}
           tagged == {x \in new.tagged : x[1] \notin S}
<1>1. Without(new, S) = [new EXCEPT !.row = row, !.pairs = pairs, !.tagged = tagged]
  BY Zenon DEF Without
<1>2. row \in [Seasons -> Nat] /\ pairs \in SUBSET (Seasons \X Links) /\ tagged \in SUBSET (Seasons \X Tags)
  BY DEF Rows
<1>3. \A s \in Seasons : row[s] = IF s \in S THEN 0 ELSE new.row[s]
  OBVIOUS
<1> HIDE DEF row
<1>4. QED
  BY <1>1, <1>2, <1>3, Zenon DEF Rows

LEMMA DeleteGives ==
    ASSUME Typed, NEW p \in Procs, DeleteOrphans(p)
    PROVE  /\ Typed' /\ Apart(p)
           /\ UNCHANGED <<db, count, seen, parsed, cache, delta, held, removed>>
           /\ at[p].stage = "delete" /\ at'[p].stage = "recount" /\ DeleteWaits(p) = {}
           /\ at[p].orphans \in SUBSET Seasons
           /\ tx'[p] = [tx[p] EXCEPT !.gone = @ \cup at[p].orphans, !.new = Without(@, at[p].orphans)]
<1> DEFINE w == [tx[p] EXCEPT !.gone = @ \cup at[p].orphans, !.new = Without(@, at[p].orphans)]
<1>1. /\ at[p].stage = "delete" /\ Move(p, "recount") /\ DeleteWaits(p) = {}
      /\ tx' = [tx EXCEPT ![p] = w]
      /\ UNCHANGED <<db, count, seen, parsed, cache, delta, held, removed>>
  BY Zenon DEF DeleteOrphans
<1>2. tx[p] \in Writes /\ at[p] \in Spots
  BY DEF Typed
<1>3. at[p].orphans \in SUBSET Seasons /\ tx[p].new \in Rows /\ "recount" \in Stages
  BY <1>2 DEF Spots, Writes, Stages
<1>4. tx[p].gone \cup at[p].orphans \in SUBSET Seasons
  BY <1>2, <1>3 DEF Writes
<1>5. Without(tx[p].new, at[p].orphans) \in Rows
  BY <1>3, WithoutTyped
<1>6. w \in Writes
  BY <1>2, <1>4, <1>5, Zenon DEF Writes
<1> HIDE DEF w
<1>7. tx' \in [Procs -> Writes] /\ tx'[p] = w /\ \A q \in Procs \ {p} : tx'[q] = tx[q]
  BY <1>1, <1>6, Zenon DEF Typed
<1>8. at' \in [Procs -> Spots] /\ at'[p].stage = "recount" /\ \A q \in Procs \ {p} : at'[q] = at[q]
  BY <1>1, <1>3, MoveGives
<1>9. Typed' /\ Apart(p)
  BY <1>1, <1>7, <1>8 DEF Typed, Apart
<1>10. QED
  BY <1>1, <1>3, <1>7, <1>8, <1>9 DEF w

\* With the transaction all it had is over.
LEMMA OverGives ==
    ASSUME Typed, NEW p \in Procs, NEW a \in Spots, Over(p, a)
    PROVE  /\ Apart(p)
           /\ at'[p] = a /\ tx'[p] = NoWrites /\ cache'[p] = NoRows
           /\ delta'[p] = NoDeltas /\ held'[p] = {}
           /\ at' \in [Procs -> Spots] /\ tx' \in [Procs -> Writes] /\ cache' \in [Procs -> Rows]
           /\ delta' \in [Procs -> Deltas] /\ held' \in [Procs -> SUBSET Tags]
<1>1. /\ at' = [at EXCEPT ![p] = a] /\ tx' = [tx EXCEPT ![p] = NoWrites]
      /\ cache' = [cache EXCEPT ![p] = NoRows] /\ delta' = [delta EXCEPT ![p] = NoDeltas]
      /\ held' = [held EXCEPT ![p] = {}]
  BY DEF Over
<1>2. {} \in SUBSET Tags
  OBVIOUS
<1>3. /\ at'[p] = a /\ tx'[p] = NoWrites /\ cache'[p] = NoRows
      /\ delta'[p] = NoDeltas /\ held'[p] = {}
      /\ at' \in [Procs -> Spots] /\ tx' \in [Procs -> Writes] /\ cache' \in [Procs -> Rows]
      /\ delta' \in [Procs -> Deltas] /\ held' \in [Procs -> SUBSET Tags]
  BY <1>1, <1>2, NoRowsTyped, Zenon DEF Typed
<1>4. Apart(p)
  BY <1>1 DEF Typed, Apart
<1>5. QED
  BY <1>3, <1>4

LEMMA RestGives ==
    ASSUME NEW p \in Procs
    PROVE  Start \in Spots /\ Start.stage = "off" /\ Rest(p) \in Spots /\ Rest(p).stage \in {"off", "through"}
<1>1. Start \in Spots /\ Start.stage = "off"
  BY DEF Start, Spots, Stages
<1>2. {"off", "through"} \subseteq Stages
  BY DEF Stages
<1>3. \A s \in Stages : [Start EXCEPT !.stage = s] \in Spots /\ [Start EXCEPT !.stage = s].stage = s
  BY <1>1, Zenon DEF Spots
<1>4. QED
  BY <1>1, <1>2, <1>3 DEF Rest

\* What is rolled back: a victim outside a chunk, or a process that dies.
Undone(p) ==
    /\ at'[p].stage \in {"off", "through", "recount"} /\ tx'[p] = NoWrites /\ cache'[p] = NoRows
    /\ delta'[p] = NoDeltas /\ held'[p] = {}
    /\ UNCHANGED <<db, count, seen, parsed, removed>>

LEMMA UndoneGives ==
    ASSUME Typed, NEW p \in Procs, PersistCrash(p) \/ (Victim(p) /\ at[p].stage # "chunk")
    PROVE  Typed' /\ Apart(p) /\ Undone(p)
<1>1. PICK a \in Spots : /\ Over(p, a) /\ a.stage \in {"off", "through", "recount"}
                         /\ UNCHANGED <<db, count, seen, parsed, removed>>
  <2>1. CASE PersistCrash(p)
    BY <2>1, RestGives DEF PersistCrash
  <2>2. CASE Victim(p) /\ at[p].stage # "chunk"
    <3>1. Over(p, Resumed(p)) /\ UNCHANGED <<db, count, seen, parsed, removed>>
      BY <2>2 DEF Victim
    <3>2. Resumed(p) \in Spots /\ Resumed(p).stage \in {"off", "through", "recount"}
      BY RestGives DEF Resumed, Typed
    <3>3. QED
      BY <3>1, <3>2
  <2>3. QED
    BY <2>1, <2>2
<1>2. /\ Apart(p)
      /\ at'[p] = a /\ tx'[p] = NoWrites /\ cache'[p] = NoRows
      /\ delta'[p] = NoDeltas /\ held'[p] = {}
      /\ at' \in [Procs -> Spots] /\ tx' \in [Procs -> Writes] /\ cache' \in [Procs -> Rows]
      /\ delta' \in [Procs -> Deltas] /\ held' \in [Procs -> SUBSET Tags]
  BY <1>1, OverGives
<1>3. Typed'
  BY <1>1, <1>2 DEF Typed
<1>4. QED
  BY <1>1, <1>2, <1>3 DEF Undone

LEMMA CommitGives ==
    ASSUME Typed, NEW p \in Procs, Commit(p)
    PROVE  /\ Typed' /\ Apart(p) /\ Written(p) /\ at[p].stage = "commit"
           /\ at'[p].stage \in {"off", "through"} /\ tx'[p] = NoWrites /\ cache'[p] = NoRows
           /\ delta'[p] = NoDeltas /\ held'[p] = {}
<1>1. at[p].stage = "commit" /\ Written(p) /\ Over(p, Rest(p))
  BY DEF Commit
<1>2. /\ Apart(p)
      /\ at'[p] = Rest(p) /\ tx'[p] = NoWrites /\ cache'[p] = NoRows
      /\ delta'[p] = NoDeltas /\ held'[p] = {}
      /\ at' \in [Procs -> Spots] /\ tx' \in [Procs -> Writes] /\ cache' \in [Procs -> Rows]
      /\ delta' \in [Procs -> Deltas] /\ held' \in [Procs -> SUBSET Tags]
  BY <1>1, OverGives, RestGives
<1>3. tx[p] \in Writes /\ db \in Rows /\ delta[p] \in Deltas
  BY DEF Typed
<1>4. tx[p].new \in Rows /\ tx[p].value \in [Tags -> Int] /\ tx[p].gone \in SUBSET Seasons
  BY <1>3 DEF Writes
<1>5. db' \in Rows
  <2>1. \A s \in Seasons : SeenRow(p, s) \in Nat
    BY <1>3, <1>4 DEF SeenRow, Rows
  <2>2. SeenPairs(p) \in SUBSET (Seasons \X Links)
    BY <1>3, <1>4 DEF SeenPairs, Alive, Rows
  <2>3. SeenTagged(p) \in SUBSET (Seasons \X Tags)
    BY SeenTaggedTyped
  <2>4. /\ (db.links \ tx[p].dead) \cup tx[p].new.links \in SUBSET Links
        /\ db.tags \cup tx[p].new.tags \in SUBSET Tags
    BY <1>3, <1>4 DEF Rows
  <2>5. db' = Left(p)
    BY <1>1 DEF Written
  <2>6. QED
    BY <2>1, <2>2, <2>3, <2>4, <2>5 DEF Left, Rows
<1>6. count' \in [Tags -> Nat]
  BY <1>1, <1>4 DEF Written, Typed
<1>7. seen' \in [Links -> Int]
  <2>1. \A l \in Links : delta[p].seen[l] \in Int /\ seen[l] \in Int
    BY <1>3 DEF Deltas, Typed
  <2>2. QED
    BY <1>1, <2>1 DEF Written
<1>8. parsed' \in [Docs -> {"pending", "done", "charged"}]
  BY <1>1 DEF Written, Typed
<1>9. removed' \in SUBSET Seasons
  BY <1>1, <1>4 DEF Written, Typed
<1>10. Typed'
  BY <1>2, <1>5, <1>6, <1>7, <1>8, <1>9 DEF Typed
<1>11. QED
  BY <1>1, <1>2, <1>10, RestGives

LEMMA DeleteLinkGives ==
    ASSUME Typed, Staged, NEW c \in Cleaners, NEW l \in Links, DeleteLink(c, l)
    PROVE  /\ Typed' /\ Apart(c)
           /\ UNCHANGED <<db, count, seen, parsed, cache, delta, held, removed>>
           /\ at[c].stage = "off" /\ at'[c].stage = "orphans" /\ l \in Jobs[c]
           /\ tx'[c] = [NoWrites EXCEPT !.dead = {l}]
<1>1. c \in Procs
  BY DEF Procs
<1> DEFINE touched == {x[1] : x \in {y \in db.pairs : y[2] = l}}
           a == [at[c] EXCEPT !.stage = "orphans", !.touched = touched]
<1>2. /\ at[c].stage = "off" /\ l \in Jobs[c]
      /\ tx' = [tx EXCEPT ![c] = [tx[c] EXCEPT !.dead = {l}]]
      /\ at' = [at EXCEPT ![c] = a]
      /\ UNCHANGED <<db, count, seen, parsed, cache, delta, held, removed>>
  BY Zenon DEF DeleteLink
<1>3. tx[c] = NoWrites
  BY <1>1, <1>2 DEF Staged
<1>4. {l} \in SUBSET Links /\ "orphans" \in Stages
  BY DEF Stages
<1>5. [NoWrites EXCEPT !.dead = {l}] \in Writes
  BY <1>4, NoRowsTyped, Zenon DEF Writes
<1>6. touched \in SUBSET Seasons
  <2>1. db.pairs \in SUBSET (Seasons \X Links)
    BY DEF Typed, Rows
  <2>2. QED
    BY <2>1
<1> HIDE DEF touched
<1>7. at[c] \in Spots
  BY <1>1 DEF Typed
<1>8. a \in Spots /\ a.stage = "orphans"
  BY <1>4, <1>6, <1>7, Zenon DEF Spots
<1> HIDE DEF a
<1>9. /\ at' \in [Procs -> Spots] /\ at'[c] = a /\ \A q \in Procs \ {c} : at'[q] = at[q]
      /\ tx' \in [Procs -> Writes] /\ tx'[c] = [NoWrites EXCEPT !.dead = {l}]
      /\ \A q \in Procs \ {c} : tx'[q] = tx[q]
  BY <1>1, <1>2, <1>3, <1>5, <1>8, Zenon DEF Typed
<1>10. Typed' /\ Apart(c)
  BY <1>2, <1>9 DEF Typed, Apart
<1>11. QED
  BY <1>2, <1>8, <1>9, <1>10

LEMMA PurgeGives ==
    ASSUME Typed, Staged, NEW c \in Cleaners, NEW s \in Seasons, PurgeSeason(c, s)
    PROVE  /\ Typed' /\ Apart(c)
           /\ UNCHANGED <<count, seen, parsed, tx, cache, delta, held>>
           /\ at[c].stage = "off" /\ at'[c].stage = "recount"
           /\ \A q \in Procs : s \notin ReferencedSeasons(tx[q].new) \cup tx[q].gone
           /\ removed' = removed \cup {s}
           /\ \A z \in Seasons : db'.row[z] = IF z = s THEN 0 ELSE db.row[z]
           /\ db'.links = db.links
           /\ db'.pairs = {x \in db.pairs : x[1] # s} /\ db'.tagged = {x \in db.tagged : x[1] # s}
<1>1. c \in Procs
  BY DEF Procs
<1> DEFINE affected == {x[2] : x \in {y \in db.tagged : y[1] = s}}
           a == [at[c] EXCEPT !.stage = "recount", !.affected = affected]
           row == [db.row EXCEPT ![s] = 0]
           pairs == {x \in db.pairs : x[1] # s}
           tagged == {x \in db.tagged : x[1] # s}
<1>2. /\ at[c].stage = "off"
      /\ \A q \in Procs \ {c} : s \notin ReferencedSeasons(tx[q].new) \cup tx[q].gone
      /\ db' = [db EXCEPT !.row = row, !.pairs = pairs, !.tagged = tagged]
      /\ removed' = removed \cup {s}
      /\ at' = [at EXCEPT ![c] = a]
      /\ UNCHANGED <<count, seen, parsed, tx, cache, delta, held>>
  BY Zenon DEF PurgeSeason
<1>3. db \in Rows /\ at[c] \in Spots
  BY <1>1 DEF Typed
<1>4. row \in [Seasons -> Nat] /\ pairs \in SUBSET (Seasons \X Links) /\ tagged \in SUBSET (Seasons \X Tags)
      /\ \A z \in Seasons : row[z] = IF z = s THEN 0 ELSE db.row[z]
  BY <1>3 DEF Rows
<1>5. affected \in SUBSET Tags
  <2>1. db.tagged \in SUBSET (Seasons \X Tags)
    BY <1>3 DEF Rows
  <2>2. QED
    BY <2>1
<1> HIDE DEF row, affected
<1>6. /\ db' \in Rows /\ db'.row = row /\ db'.links = db.links /\ db'.pairs = pairs /\ db'.tagged = tagged
  BY <1>2, <1>3, <1>4, Zenon DEF Rows
<1>7. "recount" \in Stages
  BY DEF Stages
<1>8. a \in Spots /\ a.stage = "recount"
  BY <1>3, <1>5, <1>7, Zenon DEF Spots
<1> HIDE DEF a
<1>9. /\ at' \in [Procs -> Spots] /\ at'[c] = a /\ \A q \in Procs \ {c} : at'[q] = at[q]
  BY <1>1, <1>2, <1>8, Zenon DEF Typed
<1>10. Typed' /\ Apart(c)
  BY <1>2, <1>6, <1>9 DEF Typed, Apart
<1>11. s \notin ReferencedSeasons(tx[c].new) \cup tx[c].gone
  <2>1. tx[c] = NoWrites
    BY <1>1, <1>2 DEF Staged
  <2>2. QED
    BY <2>1 DEF NoWrites, NoRows, ReferencedSeasons
<1>12. QED
  BY <1>2, <1>4, <1>6, <1>8, <1>9, <1>10, <1>11

\* The steps, one process at a time.
LEMMA Steps ==
    ASSUME PersistNext
    PROVE  \E p \in Procs :
             \/ p \in Parsers /\ Preload(p)
             \/ ChunkStored(p)
             \/ ChunkCollides(p) \/ ChunkRaises(p)
             \/ LockTag(p) \/ ApplyTagDeltas(p) \/ RecountTags(p)
             \/ ApplySeenDeltas(p) \/ FindOrphans(p) \/ DeleteOrphans(p)
             \/ Commit(p)
             \/ PersistCrash(p) \/ (Victim(p) /\ at[p].stage # "chunk")
             \/ \E l \in Links : p \in Cleaners /\ DeleteLink(p, l)
             \/ \E s \in Seasons : p \in Cleaners /\ PurgeSeason(p, s)
<1>1. Parsers \subseteq Procs /\ Cleaners \subseteq Procs
  BY DEF Procs
<1>2. CASE \E p \in Parsers : Parser(p) \/ ChunkFails(p)
  BY <1>1, <1>2 DEF Parser, ChunkFails
<1>3. CASE \E p \in Procs : Refresher(p) \/ PersistCrash(p)
  BY <1>3 DEF Refresher, Victim
<1>4. CASE \E c \in Cleaners : \/ \E l \in Links : DeleteLink(c, l)
                               \/ \E s \in Seasons : PurgeSeason(c, s)
  BY <1>1, <1>4
<1>5. QED
  BY <1>2, <1>3, <1>4 DEF PersistNext

LEMMA TypedNext == Typed /\ Staged /\ [PersistNext]_persist => Typed'
<1> SUFFICES ASSUME Typed, Staged, [PersistNext]_persist PROVE Typed'
  OBVIOUS
<1>1. CASE PersistNext
  BY <1>1, Steps, PreloadGives, StoredGives, BackGives, LockGives, ApplyTagsGives, RecountGives,
     ApplySeenGives, FindGives, DeleteGives, CommitGives, UndoneGives, DeleteLinkGives, PurgeGives
<1>2. CASE UNCHANGED persist
  BY <1>2, Zenon DEF persist, Typed
<1>3. QED
  BY <1>1, <1>2

LEMMA StagedInit == PersistInit => Staged
BY DEF PersistInit, Staged, Start

\* It is enough to look at the process that takes the step.
LEMMA StagedBy ==
    ASSUME Staged, NEW p \in Procs, Apart(p),
           at'[p].stage \in {"off", "through"} => tx'[p] = NoWrites /\ delta'[p] = NoDeltas /\ held'[p] = {},
           at'[p].stage = "chunk" =>
             p \in Parsers /\ at'[p].k \in DOMAIN Chunks[p] /\ held'[p] = {} /\ tx'[p].gone = {}
    PROVE  Staged'
BY Zenon DEF Staged, Apart

LEMMA StagedNext == Typed /\ Staged /\ [PersistNext]_persist => Staged'
<1> SUFFICES ASSUME Typed, Staged, [PersistNext]_persist PROVE Staged'
  OBVIOUS
<1>1. CASE UNCHANGED persist
  BY <1>1, Zenon DEF persist, Staged
<1>2. CASE PersistNext
  <2>1. PICK p \in Procs :
             \/ p \in Parsers /\ Preload(p)
             \/ ChunkStored(p)
             \/ ChunkCollides(p) \/ ChunkRaises(p)
             \/ LockTag(p) \/ ApplyTagDeltas(p) \/ RecountTags(p)
             \/ ApplySeenDeltas(p) \/ FindOrphans(p) \/ DeleteOrphans(p)
             \/ Commit(p)
             \/ PersistCrash(p) \/ (Victim(p) /\ at[p].stage # "chunk")
             \/ \E l \in Links : p \in Cleaners /\ DeleteLink(p, l)
             \/ \E s \in Seasons : p \in Cleaners /\ PurgeSeason(p, s)
    BY <1>2, Steps
  <2>2. tx[p] \in Writes
    BY DEF Typed
  <2>3. CASE p \in Parsers /\ Preload(p)
    <3>1. Apart(p) /\ held' = held /\ at[p].stage = "off" /\ at'[p].stage = "chunk" /\ at'[p].k \in DOMAIN Chunks[p]
      BY <2>3, PreloadGives
    <3>2. tx'[p].gone = {}
      <4>1. PICK D \in SUBSET Docs : tx'[p] = [NoWrites EXCEPT !.charged = D]
        BY <2>3, PreloadGives
      <4>2. QED
        BY <4>1 DEF NoWrites
    <3>3. held[p] = {}
      BY <3>1 DEF Staged
    <3>4. QED
      BY <2>3, <3>1, <3>2, <3>3, StagedBy
  <2>4. CASE ChunkStored(p) \/ ChunkCollides(p) \/ ChunkRaises(p)
    <3>1. /\ Apart(p) /\ held' = held /\ at[p].stage = "chunk" /\ at'[p].stage \in {"chunk", "tags"}
          /\ at'[p].stage = "chunk" => at'[p].k \in DOMAIN Chunks[p]
      BY <2>4, StoredGives, BackGives
    <3>2. tx'[p].gone = tx[p].gone
      <4>1. \/ tx'[p] = [tx[p] EXCEPT !.new = Both(@, New(p, Chunk(p))), !.done = @ \cup Chunk(p)]
            \/ \E D \in SUBSET Docs : tx'[p] = [tx[p] EXCEPT !.charged = D]
        BY <2>4, StoredGives, BackGives
      <4>2. QED
        BY <2>2, <4>1, Zenon DEF Writes
    <3>3. p \in Parsers /\ held[p] = {} /\ tx[p].gone = {}
      BY <3>1 DEF Staged
    <3>4. QED
      BY <3>1, <3>2, <3>3, StagedBy
  <2>5. CASE LockTag(p)
    <3>1. Apart(p) /\ UNCHANGED <<at, tx, delta>> /\ Wanted(p) # {}
      BY <2>5, LockGives DEF NextLocks
    <3>2. at[p].stage \notin {"off", "through", "chunk"}
      BY <3>1 DEF Wanted
    <3>3. QED
      BY <3>1, <3>2, StagedBy
  <2>6. CASE ApplyTagDeltas(p) \/ RecountTags(p) \/ ApplySeenDeltas(p) \/ DeleteOrphans(p)
    <3>1. Apart(p) /\ at'[p].stage \in {"seen", "commit", "orphans", "recount"}
      BY <2>6, ApplyTagsGives, RecountGives, ApplySeenGives, DeleteGives
    <3>2. QED
      BY <3>1, StagedBy
  <2>7. CASE FindOrphans(p) \/ \E l \in Links : p \in Cleaners /\ DeleteLink(p, l)
    <3>1. Apart(p) /\ at'[p].stage \in {"commit", "delete", "orphans"}
      BY <2>7, FindGives, DeleteLinkGives
    <3>2. QED
      BY <3>1, StagedBy
  <2>8. CASE \E s \in Seasons : p \in Cleaners /\ PurgeSeason(p, s)
    <3>1. Apart(p) /\ at'[p].stage = "recount"
      BY <2>8, PurgeGives
    <3>2. QED
      BY <3>1, StagedBy
  <2>9. CASE Commit(p)
    <3>1. /\ Apart(p) /\ at'[p].stage \in {"off", "through"}
          /\ tx'[p] = NoWrites /\ delta'[p] = NoDeltas /\ held'[p] = {}
      BY <2>9, CommitGives
    <3>2. QED
      BY <3>1, StagedBy
  <2>10. CASE PersistCrash(p) \/ (Victim(p) /\ at[p].stage # "chunk")
    <3>1. Apart(p) /\ Undone(p)
      BY <2>10, UndoneGives
    <3>2. QED
      BY <3>1, StagedBy DEF Undone
  <2>11. QED
    BY <2>1, <2>3, <2>4, <2>5, <2>6, <2>7, <2>8, <2>9, <2>10
<1>3. QED
  BY <1>1, <1>2

-----------------------------------------------------------------------------
(* Locks                                                                   *)

LEMMA LocksInit == PersistInit => Locks
BY DEF PersistInit, Locks, Start

LEMMA LocksBy ==
    ASSUME Locks, NEW p \in Procs, Apart(p), held'[p] = {} \/ held'[p] = held[p],
           at'[p].stage = "tags" => held'[p] = {}
    PROVE  Locks'
<1>1. \A q \in Procs \ {p} : at'[q] = at[q] /\ delta'[q] = delta[q] /\ held'[q] = held[q]
  BY DEF Apart
<1>2. \A q, z \in Procs : q # z => held'[q] \cap held'[z] = {}
  BY <1>1 DEF Locks
<1>3. ASSUME NEW q \in Procs, at'[q].stage = "tags"
      PROVE  /\ held'[q] \subseteq Wanted(q)'
             /\ \A t \in held'[q], u \in Wanted(q)' \ held'[q] : t < u
  <2>1. CASE q = p
    BY <1>3, <2>1
  <2>2. CASE q # p
    <3>1. Wanted(q)' = Wanted(q) /\ at[q].stage = "tags" /\ held'[q] = held[q]
      BY <1>1, <1>3, <2>2 DEF Wanted
    <3>2. QED
      BY <3>1 DEF Locks
  <2>3. QED
    BY <2>1, <2>2
<1>4. QED
  BY <1>2, <1>3 DEF Locks

LEMMA LocksNext == Typed /\ Staged /\ Locks /\ [PersistNext]_persist => Locks'
<1> SUFFICES ASSUME Typed, Staged, Locks, [PersistNext]_persist PROVE Locks'
  OBVIOUS
<1>1. CASE UNCHANGED persist
  <2>1. held' = held /\ at' = at /\ delta' = delta
    BY <1>1 DEF persist
  <2>2. \A p \in Procs : Wanted(p)' = Wanted(p)
    BY <2>1 DEF Wanted
  <2>3. QED
    BY <2>1, <2>2 DEF Locks
<1>2. CASE PersistNext
  <2>1. PICK p \in Procs :
             \/ p \in Parsers /\ Preload(p)
             \/ ChunkStored(p)
             \/ ChunkCollides(p) \/ ChunkRaises(p)
             \/ LockTag(p) \/ ApplyTagDeltas(p) \/ RecountTags(p)
             \/ ApplySeenDeltas(p) \/ FindOrphans(p) \/ DeleteOrphans(p)
             \/ Commit(p)
             \/ PersistCrash(p) \/ (Victim(p) /\ at[p].stage # "chunk")
             \/ \E l \in Links : p \in Cleaners /\ DeleteLink(p, l)
             \/ \E s \in Seasons : p \in Cleaners /\ PurgeSeason(p, s)
    BY <1>2, Steps
  <2>2. CASE p \in Parsers /\ Preload(p)
    BY <2>2, PreloadGives, LocksBy
  <2>3. CASE ChunkStored(p) \/ ChunkCollides(p) \/ ChunkRaises(p)
    <3>1. Apart(p) /\ held' = held /\ at[p].stage = "chunk"
      BY <2>3, StoredGives, BackGives
    <3>2. held[p] = {}
      BY <3>1 DEF Staged
    <3>3. QED
      BY <3>1, <3>2, LocksBy
  <2>4. CASE LockTag(p)
    <3>1. PICK t \in NextLocks(Wanted(p) \ held[p]) :
            /\ t \in Tags /\ held'[p] = held[p] \cup {t} /\ \A q \in Procs : t \notin held[q]
      BY <2>4, LockGives
    <3>2. Apart(p) /\ UNCHANGED <<at, delta>>
      BY <2>4, LockGives
    <3>3. \A q \in Procs : Wanted(q)' = Wanted(q)
      BY <3>2 DEF Wanted
    <3>4. \A q \in Procs \ {p} : held'[q] = held[q]
      BY <3>2 DEF Apart
    <3>5. \A q, z \in Procs : q # z => held'[q] \cap held'[z] = {}
      BY <3>1, <3>4 DEF Locks
    <3>6. t \in Wanted(p) \ held[p] /\ \A u \in Wanted(p) \ held[p] : t <= u
      BY <3>1 DEF NextLocks
    <3>7. Wanted(p) \subseteq Tags
      BY DEF Wanted, Typed, Spots
    <3>8. \A u \in Wanted(p) \ held'[p] : t < u
      BY <3>1, <3>6, <3>7 DEF Tags
    <3>9. ASSUME NEW q \in Procs, at'[q].stage = "tags"
          PROVE  /\ held'[q] \subseteq Wanted(q)
                 /\ \A x \in held'[q], u \in Wanted(q) \ held'[q] : x < u
      <4>1. /\ at[q].stage = "tags" /\ held[q] \subseteq Wanted(q)
            /\ \A x \in held[q], u \in Wanted(q) \ held[q] : x < u
        BY <3>2, <3>9 DEF Locks
      <4>2. CASE q = p
        BY <3>1, <3>6, <3>8, <4>1, <4>2
      <4>3. CASE q # p
        BY <3>4, <4>1, <4>3
      <4>4. QED
        BY <4>2, <4>3
    <3>10. QED
      BY <3>3, <3>5, <3>9 DEF Locks
  <2>5. CASE ApplyTagDeltas(p) \/ RecountTags(p) \/ ApplySeenDeltas(p) \/ FindOrphans(p) \/ DeleteOrphans(p)
    <3>1. Apart(p) /\ held' = held /\ at'[p].stage # "tags"
      BY <2>5, ApplyTagsGives, RecountGives, ApplySeenGives, FindGives, DeleteGives
    <3>2. QED
      BY <3>1, LocksBy
  <2>6. CASE \/ \E l \in Links : p \in Cleaners /\ DeleteLink(p, l)
             \/ \E s \in Seasons : p \in Cleaners /\ PurgeSeason(p, s)
    <3>1. Apart(p) /\ held' = held /\ at'[p].stage # "tags"
      BY <2>6, DeleteLinkGives, PurgeGives
    <3>2. QED
      BY <3>1, LocksBy
  <2>7. CASE Commit(p)
    BY <2>7, CommitGives, LocksBy
  <2>8. CASE PersistCrash(p) \/ (Victim(p) /\ at[p].stage # "chunk")
    BY <2>8, UndoneGives, LocksBy DEF Undone
  <2>9. QED
    BY <2>1, <2>2, <2>3, <2>4, <2>5, <2>6, <2>7, <2>8
<1>3. QED
  BY <1>1, <1>2

\* A set of tags that is not empty has a last one.
LEMMA LastTag ==
    ASSUME NEW S \in SUBSET Tags, S # {}
    PROVE  \E t \in S : \A u \in S : u <= t
<1> DEFINE Above(t) == {u \in S : u > t}
           T == {Above(t) : t \in S}
<1>1. IsFiniteSet(S) /\ S \subseteq Int
  <2>1. MaxTag \in Int /\ Tags \subseteq Int
    BY PersistAssumption DEF Tags
  <2>2. IsFiniteSet(Tags)
    BY <2>1, FS_Interval DEF Tags
  <2>3. QED
    BY <2>1, <2>2, FS_Subset
<1>2. IsWellFoundedOn(StrictSubsetOrdering(S), SUBSET S)
  BY <1>1, FS_FiniteSubsetsOfFinite, FS_StrictSubsetOrderingWellFounded
<1>3. T \subseteq SUBSET S /\ T # {}
  OBVIOUS
<1>4. PICK U \in T : \A V \in T : ~ (<<V, U>> \in StrictSubsetOrdering(S))
  <2> HIDE DEF T
  <2>1. QED
    BY <1>2, <1>3, WFMin
<1>5. PICK t \in S : U = Above(t)
  OBVIOUS
<1>6. ASSUME NEW u \in S, u > t
      PROVE  FALSE
  <2>1. Above(u) \in T /\ Above(u) \subseteq S /\ Above(t) \subseteq S
    OBVIOUS
  <2>2. \A z \in S : z > u => z > t
    BY <1>1, <1>6
  <2>3. Above(u) \subseteq Above(t)
    BY <2>2
  <2>4. u \in Above(t) /\ u \notin Above(u)
    BY <1>1, <1>6
  <2> HIDE DEF T, Above
  <2>5. <<Above(u), Above(t)>> \in StrictSubsetOrdering(S)
    BY <2>1, <2>3, <2>4 DEF StrictSubsetOrdering
  <2>6. QED
    BY <1>4, <1>5, <2>1, <2>5
<1>7. \A u \in S : u <= t
  BY <1>1, <1>6
<1>8. QED
  BY <1>7

\* Whatever other locks there are, transactions that lock the tags of their deltas
\* never wait for each other in a circle: of any set of them the one whose next tag
\* is the last one in the order waits for none of the others (counters.py:24-55).
THEOREM LocksInOrder == PersistSpec => []TagOrder
<1>1. Typed /\ Locks => TagOrder
  <2> SUFFICES ASSUME Typed, Locks, NEW W \in SUBSET {p \in Procs : at[p].stage = "tags"}, W # {},
                      \A p \in W : TagWaits(p) \cap W # {}
               PROVE  FALSE
    BY DEF TagOrder
  <2>1. \A p \in Procs : Wanted(p) \subseteq Tags
    BY DEF Wanted, Typed, Spots
  <2> DEFINE Next(p) == NextLocks(Wanted(p) \ held[p])
             S == UNION {Next(p) : p \in W}
  <2>2. S \in SUBSET Tags
    BY <2>1 DEF NextLocks
  <2>3. \A p \in W : Next(p) # {}
    BY DEF TagWaits
  <2>4. S # {}
    <3>1. PICK p \in W : TRUE
      OBVIOUS
    <3>2. PICK t \in Next(p) : TRUE
      BY <2>3
    <3>3. t \in S
      BY <3>1, <3>2
    <3> HIDE DEF S
    <3>4. QED
      BY <3>3
  <2>5. PICK t \in S : \A u \in S : u <= t
    BY <2>2, <2>4, LastTag
  <2>6. PICK p \in W : t \in Next(p)
    OBVIOUS
  <2>7. \A u \in Next(p) : u = t
    BY <2>1, <2>2, <2>5, <2>6 DEF NextLocks, Tags
  <2>8. PICK q \in W : t \in held[q]
    BY <2>6, <2>7 DEF TagWaits
  <2>9. PICK u \in Next(q) : TRUE
    BY <2>3
  <2>10. u \in Wanted(q) \ held[q] /\ u \in S
    BY <2>9 DEF NextLocks
  <2>11. t < u
    BY <2>8, <2>10 DEF Locks
  <2>12. t \in Int /\ u \in Int /\ u <= t
    <3>1. t \in Tags /\ u \in Tags
      BY <2>2, <2>5, <2>10
    <3>2. QED
      BY <2>5, <2>10, <3>1, PersistAssumption DEF Tags
  <2>13. QED
    BY <2>11, <2>12
<1>2. QED
  BY <1>1, TypedInit, TypedNext, StagedInit, StagedNext, LocksInit, LocksNext, PTL DEF PersistSpec

-----------------------------------------------------------------------------
(* Links and documents                                                     *)

LinksInv == Kept /\ Behind /\ Sightings /\ NewLinks /\ LinksThere /\ SeenExact

LEMMA LinksInit == PersistInit => LinksInv
<1> SUFFICES ASSUME PersistInit PROVE LinksInv
  OBVIOUS
<1>1. \A p \in Procs : /\ tx[p].done = {} /\ tx[p].dead = {} /\ tx[p].charged = {}
                       /\ tx[p].new.links = {} /\ at[p].stage = "off"
  BY DEF PersistInit, NoWrites, NoRows, Start
<1>2. \A D : \A l : Holders({}, l) = {}
  BY DEF Holders
<1>3. Cardinality({}) = 0
  BY FS_EmptySet
<1>4. Sightings
  <2>1. \A p \in Procs : \A l \in Links : delta[p].seen[l] = 0
    BY DEF PersistInit, NoDeltas
  <2>2. \A p \in Procs : \A l \in Links :
          Cardinality(Holders(tx[p].done, l)) = 0 /\ l \notin tx[p].new.links
    BY <1>1, <1>2, <1>3, Zenon
  <2>3. QED
    BY <2>1, <2>2 DEF Sightings
<1>5. \A d \in Docs : parsed[d] = "pending"
  BY DEF PersistInit
<1>6. LinksThere
  <2>1. \A x \in Stock : x[2] \in db.links
    BY DEF PersistInit
  <2>2. QED
    BY <1>1, <1>5, <2>1 DEF LinksThere
<1>7. SeenExact
  <2>1. \A l : {d \in Docs : parsed[d] = "done" /\ l \in LinksOf[d]} = {}
    BY <1>5
  <2>2. \A l \in Links : seen[l] = IF \E x \in Stock : x[2] = l THEN 1 ELSE 0
    BY DEF PersistInit
  <2>3. db.links \subseteq Links
    BY TypedInit DEF Typed, Rows
  <2>4. QED
    BY <1>3, <2>1, <2>2, <2>3 DEF SeenExact
<1>8. QED
  BY <1>1, <1>4, <1>6, <1>7 DEF LinksInv, Kept, Behind, NewLinks

\* A step that leaves links and documents alone.
LEMMA LinksFrame ==
    ASSUME Typed, Typed', LinksInv, NEW p \in Procs, Apart(p),
           db'.links = db.links, seen' = seen, parsed' = parsed,
           tx'[p].done = tx[p].done, tx'[p].new.links = tx[p].new.links, tx'[p].dead \cap DocLinks = {},
           delta'[p].seen = delta[p].seen,
           \A d \in tx'[p].charged : d \in tx[p].charged \/ Open(p, d),
           at'[p].stage = "chunk" =>
             at[p].stage = "chunk" /\ at'[p].k >= at[p].k /\ cache'[p].links = cache[p].links
    PROVE  LinksInv'
<1>1. \A q \in Procs : /\ tx'[q].done = tx[q].done /\ tx'[q].new.links = tx[q].new.links
                       /\ delta'[q].seen = delta[q].seen
                       /\ tx'[q].dead \cap DocLinks = {}
  BY DEF Apart, LinksInv, Kept
<1>2. \A q \in Procs : at'[q].stage = "chunk" =>
        at[q].stage = "chunk" /\ at'[q].k >= at[q].k /\ cache'[q].links = cache[q].links
  <2>1. \A q \in Procs : at[q].k \in Nat
    BY DEF Typed, Spots
  <2>2. QED
    BY <2>1 DEF Apart
<1>3. Kept'
  BY <1>1 DEF Kept
<1>4. Behind'
  <2>1. \A q \in Procs, d \in Docs : Open(q, d)' <=> Open(q, d)
    BY DEF Open
  <2>2. ASSUME NEW q \in Procs, NEW d \in tx'[q].done
        PROVE  /\ Open(q, d)
               /\ \E j \in DOMAIN Chunks[q] : d \in Chunks[q][j] /\ (at'[q].stage = "chunk" => j < at'[q].k)
    <3>1. PICK j \in DOMAIN Chunks[q] : /\ d \in Chunks[q][j] /\ (at[q].stage = "chunk" => j < at[q].k)
                                        /\ Open(q, d)
      BY <1>1 DEF LinksInv, Behind
    <3>2. j \in Nat /\ at[q].k \in Nat /\ at'[q].k \in Nat
      <4>1. Chunks[q] \in Seq(SUBSET Docs)
        BY <3>1, PersistAssumption DEF Open
      <4>2. QED
        BY <3>1, <4>1 DEF Typed, Spots
    <3>3. at'[q].stage = "chunk" => j < at'[q].k
      BY <1>2, <3>1, <3>2
    <3>4. QED
      BY <3>1, <3>3
  <2>3. \A q \in Procs : \A d \in tx'[q].charged : Open(q, d)
    BY DEF Apart, LinksInv, Behind
  <2>4. \A q \in Procs : tx'[q].charged \subseteq Docs /\ tx'[q].done \subseteq Docs
    BY DEF Typed, Writes
  <2>5. QED
    BY <2>1, <2>2, <2>3, <2>4 DEF Behind
<1>5. Sightings'
  BY <1>1 DEF LinksInv, Sightings
<1>6. NewLinks'
  BY <1>1 DEF LinksInv, NewLinks
<1>7. LinksThere'
  BY <1>1, <1>2 DEF LinksInv, LinksThere
<1>8. SeenExact'
  BY DEF LinksInv, SeenExact
<1>9. QED
  BY <1>3, <1>4, <1>5, <1>6, <1>7, <1>8 DEF LinksInv

\* A process that begins, or begins anew, with nothing written.
LEMMA LinksAfresh ==
    ASSUME Typed, LinksInv, NEW p \in Procs, Apart(p), UNCHANGED <<db, seen, parsed>>,
           tx'[p].done = {}, tx'[p].new.links = {}, tx'[p].dead = {},
           \A d \in tx'[p].charged : Open(p, d),
           delta'[p] = NoDeltas,
           at'[p].stage = "chunk" => cache'[p] = db
    PROVE  LinksInv'
<1>1. Kept'
  BY DEF Apart, LinksInv, Kept
<1>2. Behind'
  <2>1. \A q \in Procs : \A d : Open(q, d)' <=> Open(q, d)
    BY DEF Open
  <2>2. QED
    BY <2>1 DEF Apart, LinksInv, Behind
<1>3. Sightings'
  <2>1. \A q \in Procs \ {p} : tx'[q] = tx[q] /\ delta'[q] = delta[q]
    BY DEF Apart
  <2>2. \A l \in Links : Holders(tx'[p].done, l) = {} /\ l \notin tx'[p].new.links /\ delta'[p].seen[l] = 0
    BY DEF Holders, NoDeltas
  <2>3. Cardinality({}) = 0
    BY FS_EmptySet
  <2>4. \A l \in Links :
          delta'[p].seen[l] = Cardinality(Holders(tx'[p].done, l)) - (IF l \in tx'[p].new.links THEN 1 ELSE 0)
    BY <2>2, <2>3
  <2>5. QED
    BY <2>1, <2>4 DEF LinksInv, Sightings
<1>4. NewLinks'
  BY DEF Apart, LinksInv, NewLinks
<1>5. LinksThere'
  BY DEF Apart, LinksInv, LinksThere
<1>6. SeenExact'
  BY DEF LinksInv, SeenExact
<1>7. QED
  BY <1>1, <1>2, <1>3, <1>4, <1>5, <1>6 DEF LinksInv

LEMMA LinksPreload ==
    ASSUME Typed, Staged, LinksInv, NEW p \in Parsers, Preload(p)
    PROVE  LinksInv'
<1>1. p \in Procs
  BY DEF Procs
<1>2. /\ Apart(p) /\ UNCHANGED <<db, seen, parsed, delta>>
      /\ at[p].stage = "off" /\ cache'[p] = db
      /\ \E D \in SUBSET Docs : tx'[p] = [NoWrites EXCEPT !.charged = D] /\ \A d \in D : Open(p, d)
  BY PreloadGives
<1>3. delta'[p] = NoDeltas
  BY <1>1, <1>2 DEF Staged
<1>4. /\ tx'[p].done = {} /\ tx'[p].new.links = {} /\ tx'[p].dead = {}
      /\ \A d \in tx'[p].charged : Open(p, d)
  BY <1>2 DEF NoWrites, NoRows
<1>5. QED
  BY <1>1, <1>2, <1>3, <1>4, LinksAfresh

LEMMA LinksUndone ==
    ASSUME Typed, LinksInv, NEW p \in Procs, Apart(p), Undone(p)
    PROVE  LinksInv'
<1>1. /\ tx'[p].done = {} /\ tx'[p].new.links = {} /\ tx'[p].dead = {} /\ tx'[p].charged = {}
      /\ delta'[p] = NoDeltas /\ at'[p].stage # "chunk" /\ UNCHANGED <<db, seen, parsed>>
  BY DEF Undone, NoWrites, NoRows
<1>2. QED
  BY <1>1, LinksAfresh

LEMMA LinksStored ==
    ASSUME Typed, Staged, LinksInv, NEW p \in Procs, ChunkStored(p)
    PROVE  LinksInv'
<1> DEFINE D == Chunk(p)
           new == New(p, D)
<1>1. /\ Typed' /\ Apart(p) /\ UNCHANGED <<db, seen, parsed>>
      /\ at[p].stage = "chunk" /\ InsertWaits(p, new) = {} /\ ~Collides(p, new)
      /\ new \in Rows /\ D \in SUBSET Docs
      /\ tx'[p] = [tx[p] EXCEPT !.new = Both(@, new), !.done = @ \cup D]
      /\ cache'[p] = Both(cache[p], new)
      /\ delta'[p] = Added(delta[p], D, new)
      /\ at'[p].stage = "chunk" => at'[p].k = at[p].k + 1
  BY StoredGives
<1>2. /\ p \in Parsers /\ at[p].k \in DOMAIN Chunks[p]
      /\ \A d \in D : d \in Chunks[p][at[p].k] /\ parsed[d] = "pending"
  BY <1>1, ChunkDocs
<1>3. new.links = (UNION {LinksOf[d] : d \in D}) \ cache[p].links
  BY DEF New
<1> HIDE DEF D, new
<1>4. tx[p] \in Writes /\ cache[p] \in Rows /\ delta[p] \in Deltas
  BY DEF Typed
<1>5. /\ tx'[p].done = tx[p].done \cup D /\ tx'[p].new.links = tx[p].new.links \cup new.links
      /\ tx'[p].dead = tx[p].dead /\ tx'[p].charged = tx[p].charged
      /\ cache'[p].links = cache[p].links \cup new.links
  <2>1. /\ tx'[p].new = Both(tx[p].new, new) /\ tx'[p].done = tx[p].done \cup D /\ tx'[p].dead = tx[p].dead
        /\ tx'[p].charged = tx[p].charged
    BY <1>1, <1>4, Zenon DEF Writes
  <2>2. QED
    BY <1>1, <2>1 DEF Both
<1>6. \A q \in Procs \ {p} : at'[q] = at[q] /\ tx'[q] = tx[q] /\ cache'[q] = cache[q] /\ delta'[q] = delta[q]
  BY <1>1 DEF Apart
<1>7. new.links \cap db.links = {} /\ \A q \in Procs \ {p} : new.links \cap tx[q].new.links = {}
  BY <1>1 DEF InsertWaits, Collides, SameKey, SameRow
<1>8. /\ new.links \cap cache[p].links = {} /\ new.links \subseteq DocLinks
      /\ \A l \in new.links : \E d \in D : l \in LinksOf[d]
      /\ \A d \in D : LinksOf[d] \subseteq cache[p].links \cup new.links
  <2>1. \A l \in new.links : l \notin cache[p].links /\ \E d \in D : l \in LinksOf[d]
    BY <1>3
  <2>2. \A d \in D : \A l \in LinksOf[d] : l \in cache[p].links \/ l \in new.links
    BY <1>3
  <2>3. new.links \subseteq DocLinks
    BY <1>1, <2>1 DEF DocLinks
  <2>4. QED
    BY <2>1, <2>2, <2>3
<1>9. D \cap tx[p].done = {}
  <2> SUFFICES ASSUME NEW d \in D, d \in tx[p].done PROVE FALSE
    OBVIOUS
  <2>1. PICK j \in DOMAIN Chunks[p] : d \in Chunks[p][j] /\ j < at[p].k
    BY <1>1 DEF LinksInv, Behind
  <2>2. d \in Chunks[p][at[p].k]
    BY <1>2
  <2>3. j # at[p].k
    <3>1. at[p].k \in Nat
      BY DEF Typed, Spots
    <3>2. QED
      BY <2>1, <3>1
  <2>4. Chunks[p][j] \cap Chunks[p][at[p].k] = {}
    BY <1>2, <2>1, <2>3, PersistAssumption
  <2>5. QED
    BY <2>1, <2>2, <2>4
<1>10. Kept'
  BY <1>5, <1>6 DEF LinksInv, Kept
<1>11. Behind'
  <2>1. \A q \in Procs : \A d : Open(q, d)' <=> Open(q, d)
    BY <1>1 DEF Open
  <2>2. ASSUME NEW q \in Procs, NEW d \in tx'[q].done
        PROVE  /\ Open(q, d)
               /\ \E j \in DOMAIN Chunks[q] : d \in Chunks[q][j] /\ (at'[q].stage = "chunk" => j < at'[q].k)
    <3>1. CASE q # p
      BY <1>1, <1>6, <2>2, <3>1 DEF LinksInv, Behind
    <3>2. CASE q = p /\ d \in D
      <4>1. at[p].k \in Nat
        BY DEF Typed, Spots
      <4>2. at'[p].stage = "chunk" => at[p].k < at'[p].k
        BY <1>1, <4>1
      <4>3. QED
        BY <1>1, <1>2, <3>2, <4>2 DEF Open
    <3>3. CASE q = p /\ d \in tx[p].done
      <4>1. PICK j \in DOMAIN Chunks[p] : d \in Chunks[p][j] /\ j < at[p].k /\ Open(p, d)
        BY <1>1, <3>3 DEF LinksInv, Behind
      <4>2. j \in Nat /\ at[p].k \in Nat
        <5>1. Chunks[p] \in Seq(SUBSET Docs)
          BY <1>2, PersistAssumption
        <5>2. QED
          BY <4>1, <5>1 DEF Typed, Spots
      <4>3. at'[p].stage = "chunk" => j < at'[p].k
        BY <1>1, <4>1, <4>2
      <4>4. QED
        BY <3>3, <4>1, <4>3
    <3>4. QED
      BY <1>5, <2>2, <3>1, <3>2, <3>3
  <2>3. \A q \in Procs : \A d \in tx'[q].charged : Open(q, d)
    BY <1>5, <1>6 DEF LinksInv, Behind
  <2>4. QED
    BY <2>1, <2>2, <2>3 DEF Behind
<1>12. Sightings'
  <2> SUFFICES ASSUME NEW q \in Procs, NEW l \in Links
               PROVE  delta'[q].seen[l] = Cardinality(Holders(tx'[q].done, l))
                                          - (IF l \in tx'[q].new.links THEN 1 ELSE 0)
    BY DEF Sightings
  <2>1. CASE q # p
    BY <1>6, <2>1 DEF LinksInv, Sightings
  <2>2. CASE q = p
    <3>1. delta[p].seen[l] = Cardinality(Holders(tx[p].done, l)) - (IF l \in tx[p].new.links THEN 1 ELSE 0)
      BY DEF LinksInv, Sightings
    <3>2. delta'[p].seen[l] = delta[p].seen[l] + (Cardinality(Holders(D, l)) - (IF l \in new.links THEN 1 ELSE 0))
      <4>1. Added(delta[p], D, new).seen[l]
              = delta[p].seen[l] + (Cardinality(Holders(D, l)) - (IF l \in new.links THEN 1 ELSE 0))
        <5>1. delta[p] \in Deltas /\ D \in SUBSET Docs /\ new \in Rows
          BY <1>1, <1>4
        <5>2. QED
          BY <5>1, AddedTyped, Zenon
      <4>2. QED
        BY <1>1, <4>1, Zenon
    <3>3. Cardinality(Holders(tx'[p].done, l)) = Cardinality(Holders(tx[p].done, l)) + Cardinality(Holders(D, l))
      <4>1. Holders(tx'[p].done, l) = Holders(tx[p].done, l) \cup Holders(D, l)
        BY <1>5 DEF Holders
      <4>2. Holders(tx[p].done, l) \cap Holders(D, l) = {}
        BY <1>9 DEF Holders
      <4>3. IsFiniteSet(Holders(tx[p].done, l)) /\ IsFiniteSet(Holders(D, l))
        BY <1>1, <1>4, HoldersFinite DEF Writes
      <4>4. QED
        BY <4>1, <4>2, <4>3, DisjointSum
    <3>4. ~(l \in tx[p].new.links /\ l \in new.links)
      BY <1>1, <1>8 DEF LinksInv, LinksThere
    <3>5. Cardinality(Holders(tx[p].done, l)) \in Nat /\ Cardinality(Holders(D, l)) \in Nat
      BY <1>1, <1>4, HoldersFinite DEF Writes
    <3>6. l \in tx'[p].new.links <=> l \in tx[p].new.links \/ l \in new.links
      BY <1>5
    <3>7. QED
      BY <2>2, <3>1, <3>2, <3>3, <3>4, <3>5, <3>6
  <2>3. QED
    BY <2>1, <2>2
<1>13. NewLinks'
  <2> SUFFICES ASSUME NEW q \in Procs, NEW l \in tx'[q].new.links
               PROVE  /\ l \notin db.links /\ \A z \in Procs \ {q} : l \notin tx'[z].new.links
                      /\ \E d \in tx'[q].done : l \in LinksOf[d]
    BY <1>1 DEF NewLinks
  <2>1. CASE q = p
    <3>1. CASE l \in new.links
      BY <1>5, <1>6, <1>7, <1>8, <2>1, <3>1
    <3>2. CASE l \in tx[p].new.links
      BY <1>5, <1>6, <2>1, <3>2 DEF LinksInv, NewLinks
    <3>3. QED
      BY <1>5, <2>1, <3>1, <3>2
  <2>2. CASE q # p
    BY <1>5, <1>6, <1>7, <2>2 DEF LinksInv, NewLinks
  <2>3. QED
    BY <2>1, <2>2
<1>14. LinksThere'
  <2>1. /\ tx[p].new.links \subseteq cache[p].links
        /\ cache[p].links \cap DocLinks \subseteq db.links \cup tx[p].new.links
        /\ \A d \in tx[p].done : LinksOf[d] \subseteq db.links \cup tx[p].new.links
    BY <1>1 DEF LinksInv, LinksThere
  <2>2. \A d \in D : LinksOf[d] \subseteq DocLinks
    BY <1>1 DEF DocLinks
  <2>3. \A d \in D : LinksOf[d] \subseteq db.links \cup tx'[p].new.links
    BY <1>5, <1>8, <2>1, <2>2
  <2>4. /\ tx'[p].new.links \subseteq cache'[p].links
        /\ cache'[p].links \cap DocLinks \subseteq db.links \cup tx'[p].new.links
        /\ \A d \in tx'[p].done : LinksOf[d] \subseteq db.links \cup tx'[p].new.links
    BY <1>5, <2>1, <2>3
  <2>5. QED
    BY <1>1, <1>6, <2>4 DEF LinksInv, LinksThere
<1>15. SeenExact'
  BY <1>1 DEF LinksInv, SeenExact
<1>16. QED
  BY <1>10, <1>11, <1>12, <1>13, <1>14, <1>15 DEF LinksInv

\* Two processes settle different documents.
LEMMA OpenApart ==
    ASSUME NEW p \in Procs, NEW q \in Procs, p # q, NEW d, Open(p, d)
    PROVE  ~Open(q, d)
<1> SUFFICES ASSUME Open(q, d) PROVE FALSE
  OBVIOUS
<1>1. p \in Parsers /\ q \in Parsers
  BY DEF Open
<1>2. PICK i \in DOMAIN Chunks[p] : d \in Chunks[p][i]
  BY DEF Open
<1>3. PICK j \in DOMAIN Chunks[q] : d \in Chunks[q][j]
  BY DEF Open
<1>4. Chunks[p][i] \cap Chunks[q][j] = {}
  BY <1>1, PersistAssumption
<1>5. QED
  BY <1>2, <1>3, <1>4

LEMMA LinksCommit ==
    ASSUME Typed, LinksInv, NEW p \in Procs, Commit(p)
    PROVE  LinksInv'
<1>1. /\ Typed' /\ Apart(p) /\ Written(p)
      /\ at'[p].stage \in {"off", "through"} /\ tx'[p] = NoWrites /\ delta'[p] = NoDeltas
  BY CommitGives
<1>2. /\ tx'[p].done = {} /\ tx'[p].new.links = {} /\ tx'[p].dead = {} /\ tx'[p].charged = {}
      /\ at'[p].stage # "chunk"
  BY <1>1 DEF NoWrites, NoRows
<1>3. \A q \in Procs \ {p} : at'[q] = at[q] /\ tx'[q] = tx[q] /\ cache'[q] = cache[q] /\ delta'[q] = delta[q]
  BY <1>1 DEF Apart
<1>4. /\ db'.links = (db.links \ tx[p].dead) \cup tx[p].new.links
      /\ \A l \in Links : seen'[l] = IF l \in tx[p].dead THEN 0
                            ELSE delta[p].seen[l] + IF l \in tx[p].new.links THEN 1 ELSE seen[l]
      /\ \A d \in Docs : parsed'[d] = IF d \in tx[p].done THEN "done"
                            ELSE IF d \in tx[p].charged THEN "charged" ELSE parsed[d]
  BY <1>1 DEF Written, Left
<1>5. tx[p] \in Writes /\ tx[p].done \in SUBSET Docs /\ tx[p].charged \in SUBSET Docs
  BY DEF Typed, Writes
<1>6. /\ \A d \in tx[p].done \cup tx[p].charged : parsed[d] = "pending"
      /\ \A q \in Procs \ {p}, d \in Docs : Open(q, d) => Open(q, d)'
  <2>1. \A d \in tx[p].done \cup tx[p].charged : Open(p, d)
    BY DEF LinksInv, Behind
  <2>2. ASSUME NEW q \in Procs \ {p}, NEW d \in Docs, Open(q, d)
        PROVE  Open(q, d)'
    <3>1. ~Open(p, d)
      BY <2>2, OpenApart
    <3>2. parsed'[d] = parsed[d]
      BY <1>4, <2>1, <3>1
    <3>3. QED
      BY <2>2, <3>2 DEF Open
  <2>3. QED
    BY <2>1, <2>2 DEF Open
<1>7. Kept'
  BY <1>2, <1>3 DEF LinksInv, Kept
<1>8. Behind'
  <2> SUFFICES ASSUME NEW q \in Procs
               PROVE  /\ \A d \in tx'[q].charged : Open(q, d)'
                      /\ \A d \in tx'[q].done :
                           /\ Open(q, d)'
                           /\ \E j \in DOMAIN Chunks[q] : /\ d \in Chunks[q][j]
                                                          /\ (at'[q].stage = "chunk" => j < at'[q].k)
    BY DEF Behind
  <2>1. CASE q = p
    BY <1>2, <2>1
  <2>2. CASE q # p
    <3>1. tx[q].done \in SUBSET Docs /\ tx[q].charged \in SUBSET Docs
      BY DEF Typed, Writes
    <3>2. QED
      BY <1>3, <1>6, <2>2, <3>1 DEF LinksInv, Behind
  <2>3. QED
    BY <2>1, <2>2
<1>9. Sightings'
  <2>1. \A l \in Links : Holders(tx'[p].done, l) = {} /\ l \notin tx'[p].new.links /\ delta'[p].seen[l] = 0
    BY <1>1, <1>2 DEF Holders, NoDeltas
  <2>2. Cardinality({}) = 0
    BY FS_EmptySet
  <2>3. \A l \in Links :
          delta'[p].seen[l] = Cardinality(Holders(tx'[p].done, l)) - (IF l \in tx'[p].new.links THEN 1 ELSE 0)
    BY <2>1, <2>2
  <2>4. QED
    BY <1>3, <2>3 DEF LinksInv, Sightings
<1>10. NewLinks'
  BY <1>2, <1>3, <1>4 DEF LinksInv, NewLinks
<1>11. tx[p].new.links \subseteq DocLinks /\ tx[p].dead \cap DocLinks = {} /\ tx[p].new.links \cap db.links = {}
  <2>1. \A l \in tx[p].new.links : \E d \in Docs : l \in LinksOf[d]
    BY <1>5 DEF LinksInv, NewLinks
  <2>2. QED
    BY <2>1 DEF LinksInv, NewLinks, Kept, DocLinks
<1>12. LinksThere'
  <2>1. \A S : S \subseteq DocLinks /\ S \subseteq db.links \cup tx[p].new.links => S \subseteq db'.links
    BY <1>4, <1>11
  <2>2. \A d \in Docs : LinksOf[d] \subseteq DocLinks
    BY DEF DocLinks
  <2>3. ASSUME NEW d \in Docs, parsed'[d] = "done"
        PROVE  LinksOf[d] \subseteq db'.links
    <3>1. d \in tx[p].done \/ parsed[d] = "done"
      BY <1>4, <2>3
    <3>2. LinksOf[d] \subseteq db.links \cup tx[p].new.links
      BY <3>1 DEF LinksInv, LinksThere
    <3>3. QED
      BY <2>1, <2>2, <3>2
  <2>4. \A x \in Stock : x[2] \in DocLinks => x[2] \in db'.links
    BY <1>4, <1>11 DEF LinksInv, LinksThere
  <2>5. ASSUME NEW q \in Procs
        PROVE  /\ at'[q].stage = "chunk" => tx'[q].new.links \subseteq cache'[q].links
               /\ at'[q].stage = "chunk" => cache'[q].links \cap DocLinks \subseteq db'.links \cup tx'[q].new.links
               /\ \A d \in tx'[q].done : LinksOf[d] \subseteq db'.links \cup tx'[q].new.links
    <3>1. CASE q = p
      BY <1>2, <3>1
    <3>2. CASE q # p
      <4>1. /\ at[q].stage = "chunk" => tx[q].new.links \subseteq cache[q].links
            /\ at[q].stage = "chunk" => cache[q].links \cap DocLinks \subseteq db.links \cup tx[q].new.links
            /\ \A d \in tx[q].done : LinksOf[d] \subseteq db.links \cup tx[q].new.links
        BY DEF LinksInv, LinksThere
      <4>2. db.links \cap DocLinks \subseteq db'.links
        BY <1>4, <1>11
      <4>3. tx[q].done \in SUBSET Docs
        BY DEF Typed, Writes
      <4>4. at[q].stage = "chunk" => cache[q].links \cap DocLinks \subseteq db'.links \cup tx[q].new.links
        BY <4>1, <4>2
      <4>5. ASSUME NEW d \in tx[q].done PROVE LinksOf[d] \subseteq db'.links \cup tx[q].new.links
        BY <2>2, <4>1, <4>2, <4>3
      <4>6. QED
        BY <1>3, <3>2, <4>1, <4>4, <4>5
    <3>3. QED
      BY <3>1, <3>2
  <2>6. QED
    BY <2>3, <2>4, <2>5 DEF LinksThere
<1>13. SeenExact'
  <2> SUFFICES ASSUME NEW l \in db'.links
               PROVE  seen'[l] = Cardinality({d \in Docs : parsed'[d] = "done" /\ l \in LinksOf[d]})
                                 + (IF \E x \in Stock : x[2] = l THEN 1 ELSE 0)
    BY DEF SeenExact
  <2> DEFINE Before == {d \in Docs : parsed[d] = "done" /\ l \in LinksOf[d]}
             Now == {d \in Docs : parsed'[d] = "done" /\ l \in LinksOf[d]}
             H == Holders(tx[p].done, l)
  <2>1. l \in Links /\ l \notin tx[p].dead
    <3>1. db'.links \subseteq Links
      BY <1>1 DEF Typed, Rows
    <3>2. QED
      BY <1>4, <1>11, <3>1
  <2>2. Now = Before \cup H
    <3>1. \A d \in Docs : parsed'[d] = "done" <=> parsed[d] = "done" \/ d \in tx[p].done
      BY <1>4, <1>6
    <3>2. QED
      BY <1>5, <3>1 DEF Holders
  <2>3. Before \cap H = {}
    BY <1>6 DEF Holders
  <2>4. IsFiniteSet(Before) /\ IsFiniteSet(H) /\ Cardinality(H) \in Nat /\ Cardinality(Before) \in Nat
    <3>1. Before \in SUBSET Docs
      OBVIOUS
    <3>2. IsFiniteSet(Before) /\ Cardinality(Before) \in Nat
      BY <3>1, FS_Subset, FS_CardinalityType, PersistAssumption
    <3>3. QED
      BY <1>5, <3>2, HoldersFinite
  <2>5. Cardinality(Now) = Cardinality(Before) + Cardinality(H)
    <3> HIDE DEF Now, Before, H
    <3>1. QED
      BY <2>2, <2>3, <2>4, DisjointSum
  <2>6. delta[p].seen[l] = Cardinality(H) - (IF l \in tx[p].new.links THEN 1 ELSE 0)
    BY <2>1 DEF LinksInv, Sightings
  <2>7. CASE l \in tx[p].new.links
    <3>1. l \in DocLinks /\ l \notin db.links
      BY <1>11, <2>7
    <3>2. Before = {} /\ ~\E x \in Stock : x[2] = l
      BY <3>1 DEF LinksInv, LinksThere
    <3>3. Cardinality(Before) = 0
      BY <3>2, FS_EmptySet
    <3>4. seen'[l] = delta[p].seen[l] + 1
      BY <1>4, <2>1, <2>7
    <3> HIDE DEF Now, Before, H
    <3>5. QED
      BY <2>4, <2>5, <2>6, <2>7, <3>2, <3>3, <3>4 DEF Now
  <2>8. CASE l \notin tx[p].new.links
    <3>1. l \in db.links
      BY <1>4, <2>8
    <3>2. seen[l] = Cardinality(Before) + (IF \E x \in Stock : x[2] = l THEN 1 ELSE 0)
      BY <3>1 DEF LinksInv, SeenExact
    <3>3. seen'[l] = delta[p].seen[l] + seen[l]
      BY <1>4, <2>1, <2>8
    <3> HIDE DEF Before, H
    <3>4. QED
      BY <2>4, <2>5, <2>6, <2>8, <3>2, <3>3
  <2>9. QED
    BY <2>7, <2>8
<1>14. QED
  BY <1>7, <1>8, <1>9, <1>10, <1>12, <1>13 DEF LinksInv

LEMMA LinksNext == Typed /\ Staged /\ LinksInv /\ [PersistNext]_persist => LinksInv'
<1> SUFFICES ASSUME Typed, Staged, LinksInv, [PersistNext]_persist PROVE LinksInv'
  OBVIOUS
<1>1. CASE UNCHANGED persist
  <2>1. UNCHANGED <<db, seen, parsed, at, tx, cache, delta>>
    BY <1>1 DEF persist
  <2>2. \A q, d : Open(q, d)' <=> Open(q, d)
    BY <2>1 DEF Open
  <2>3. Kept' /\ Sightings'
    BY <2>1 DEF LinksInv, Kept, Sightings
  <2>4. Behind'
    BY <2>1, <2>2 DEF LinksInv, Behind
  <2>5. NewLinks' /\ SeenExact'
    BY <2>1 DEF LinksInv, NewLinks, SeenExact
  <2>6. LinksThere'
    BY <2>1 DEF LinksInv, LinksThere
  <2>7. QED
    BY <2>3, <2>4, <2>5, <2>6 DEF LinksInv
<1>2. CASE PersistNext
  <2>1. PICK p \in Procs :
             \/ p \in Parsers /\ Preload(p)
             \/ ChunkStored(p)
             \/ ChunkCollides(p) \/ ChunkRaises(p)
             \/ LockTag(p) \/ ApplyTagDeltas(p) \/ RecountTags(p)
             \/ ApplySeenDeltas(p) \/ FindOrphans(p) \/ DeleteOrphans(p)
             \/ Commit(p)
             \/ PersistCrash(p) \/ (Victim(p) /\ at[p].stage # "chunk")
             \/ \E l \in Links : p \in Cleaners /\ DeleteLink(p, l)
             \/ \E s \in Seasons : p \in Cleaners /\ PurgeSeason(p, s)
    BY <1>2, Steps
  <2> DEFINE Still == /\ tx'[p].done = tx[p].done /\ tx'[p].new.links = tx[p].new.links
                      /\ tx'[p].dead = tx[p].dead /\ tx'[p].charged = tx[p].charged
             Outside == at'[p].stage # "chunk"
  <2>2. tx[p] \in Writes /\ tx[p].dead \cap DocLinks = {}
    BY DEF Typed, LinksInv, Kept
  <2>3. ASSUME Typed', Apart(p), UNCHANGED <<db, seen, parsed, delta>>, Still, Outside
        PROVE  LinksInv'
    BY <2>2, <2>3, LinksFrame
  <2>4. CASE p \in Parsers /\ Preload(p)
    BY <2>4, LinksPreload
  <2>5. CASE ChunkStored(p)
    BY <2>5, LinksStored
  <2>6. CASE ChunkCollides(p) \/ ChunkRaises(p)
    <3>1. /\ Typed' /\ Apart(p)
          /\ UNCHANGED <<db, seen, parsed, delta>>
          /\ at[p].stage = "chunk" /\ (at'[p].stage = "chunk" => at'[p].k >= at[p].k)
          /\ \E D \in SUBSET Docs : /\ tx'[p] = [tx[p] EXCEPT !.charged = D]
                                    /\ \A d \in D : d \in tx[p].charged \/ Open(p, d)
          /\ \E dropped \in SUBSET Seasons : Dropped(p, cache'[p], dropped)
      BY <2>6, BackGives
    <3>2. cache'[p].links = cache[p].links
      BY <3>1 DEF Dropped
    <3>3. PICK D \in SUBSET Docs : /\ tx'[p] = [tx[p] EXCEPT !.charged = D]
                                   /\ \A d \in D : d \in tx[p].charged \/ Open(p, d)
      BY <3>1
    <3>4. /\ tx'[p].done = tx[p].done /\ tx'[p].new = tx[p].new /\ tx'[p].dead = tx[p].dead
          /\ tx'[p].charged = D
      BY <2>2, <3>3, Zenon DEF Writes
    <3>5. /\ tx'[p].new.links = tx[p].new.links /\ tx'[p].dead \cap DocLinks = {}
          /\ \A d \in tx'[p].charged : d \in tx[p].charged \/ Open(p, d)
      BY <2>2, <3>3, <3>4
    <3>6. QED
      BY <3>1, <3>2, <3>4, <3>5, LinksFrame
  <2>7. CASE LockTag(p)
    <3>1. /\ Typed' /\ Apart(p) /\ UNCHANGED <<db, seen, parsed, at, tx, cache, delta>>
      BY <2>7, LockGives
    <3>2. at[p].k \in Nat
      BY DEF Typed, Spots
    <3>3. at'[p].k >= at[p].k
      BY <3>1, <3>2
    <3>4. QED
      BY <2>2, <3>1, <3>3, LinksFrame
  <2>8. CASE ApplyTagDeltas(p) \/ RecountTags(p)
    <3>1. /\ Typed' /\ Apart(p) /\ UNCHANGED <<db, seen, parsed, delta>> /\ Outside
          /\ \E v \in [Tags -> Int] : tx'[p] = [tx[p] EXCEPT !.value = v]
      BY <2>8, ApplyTagsGives, RecountGives
    <3>2. Still
      BY <2>2, <3>1, Zenon DEF Writes
    <3>3. QED
      BY <2>3, <3>1, <3>2
  <2>9. CASE ApplySeenDeltas(p)
    <3>1. /\ Typed' /\ Apart(p) /\ UNCHANGED <<db, seen, parsed, delta>> /\ Outside
          /\ \E S : tx'[p] = [tx[p] EXCEPT !.sighted = S]
      BY <2>9, ApplySeenGives
    <3>2. Still
      BY <2>2, <3>1, Zenon DEF Writes
    <3>3. QED
      BY <2>3, <3>1, <3>2
  <2>10. CASE FindOrphans(p)
    <3>1. /\ Typed' /\ Apart(p) /\ UNCHANGED <<db, seen, parsed, delta, tx>> /\ Outside
      BY <2>10, FindGives
    <3>2. Still
      BY <3>1
    <3>3. QED
      BY <2>3, <3>1, <3>2
  <2>11. CASE DeleteOrphans(p)
    <3>1. /\ Typed' /\ Apart(p) /\ UNCHANGED <<db, seen, parsed, delta>> /\ Outside
          /\ tx'[p] = [tx[p] EXCEPT !.gone = @ \cup at[p].orphans, !.new = Without(@, at[p].orphans)]
      BY <2>11, DeleteGives
    <3>2. /\ tx'[p].done = tx[p].done /\ tx'[p].dead = tx[p].dead /\ tx'[p].charged = tx[p].charged
          /\ tx'[p].new = Without(tx[p].new, at[p].orphans)
      BY <2>2, <3>1, Zenon DEF Writes
    <3>3. Without(tx[p].new, at[p].orphans).links = tx[p].new.links
      <4>1. tx[p].new \in Rows
        BY <2>2 DEF Writes
      <4>2. QED
        BY <4>1, Zenon DEF Without, Rows
    <3>4. Still
      BY <3>2, <3>3
    <3>5. QED
      BY <2>3, <3>1, <3>4
  <2>12. CASE Commit(p)
    BY <2>12, LinksCommit
  <2>13. CASE PersistCrash(p) \/ (Victim(p) /\ at[p].stage # "chunk")
    BY <2>13, UndoneGives, LinksUndone
  <2>14. CASE \E l \in Links : p \in Cleaners /\ DeleteLink(p, l)
    <3>1. PICK l \in Links : p \in Cleaners /\ DeleteLink(p, l)
      BY <2>14
    <3>2. /\ Typed' /\ Apart(p) /\ UNCHANGED <<db, seen, parsed, delta>>
          /\ at[p].stage = "off" /\ at'[p].stage = "orphans" /\ l \in Jobs[p]
          /\ tx'[p] = [NoWrites EXCEPT !.dead = {l}]
      BY <3>1, DeleteLinkGives
    <3>3. tx[p] = NoWrites
      BY <3>2 DEF Staged
    <3>4. /\ tx'[p].done = tx[p].done /\ tx'[p].new.links = tx[p].new.links
          /\ tx'[p].charged = tx[p].charged /\ tx'[p].dead = {l}
      BY <3>2, <3>3 DEF NoWrites
    <3>5. l \notin DocLinks
      BY <3>1, <3>2, PersistAssumption DEF DocLinks
    <3>6. tx'[p].dead \cap DocLinks = {}
      BY <3>4, <3>5
    <3>7. QED
      BY <3>2, <3>4, <3>6, LinksFrame
  <2>15. CASE \E s \in Seasons : p \in Cleaners /\ PurgeSeason(p, s)
    <3>1. /\ Typed' /\ Apart(p) /\ UNCHANGED <<seen, parsed, delta, tx>> /\ at'[p].stage = "recount"
          /\ db'.links = db.links
      BY <2>15, PurgeGives
    <3>2. QED
      BY <2>2, <3>1, LinksFrame
  <2>16. QED
    BY <2>1, <2>4, <2>5, <2>6, <2>7, <2>8, <2>9, <2>10, <2>11, <2>12, <2>13, <2>14, <2>15
<1>3. QED
  BY <1>1, <1>2

\* The count of sightings of a link is the number of documents stored that
\* hold it, whatever was rolled back, run again or redone after a crash.
THEOREM SightingsExact == PersistSpec => []SeenExact
<1>1. LinksInv => SeenExact
  BY DEF LinksInv
<1>2. QED
  BY <1>1, TypedInit, TypedNext, StagedInit, StagedNext, LinksInit, LinksNext, PTL DEF PersistSpec

\* No count of sightings is below zero: a link is created by a transaction that
\* settles a document with it.
LEMMA SightedNext ==
    Typed /\ Staged /\ LinksInv /\ seen \in [Links -> Nat] /\ [PersistNext]_persist => seen' \in [Links -> Nat]
<1> SUFFICES ASSUME Typed, Staged, LinksInv, seen \in [Links -> Nat], [PersistNext]_persist
             PROVE  seen' \in [Links -> Nat]
  OBVIOUS
<1>1. CASE UNCHANGED persist
  BY <1>1 DEF persist
<1>2. ASSUME NEW p \in Procs, Commit(p)
      PROVE  seen' \in [Links -> Nat]
  <2>1. seen' = [l \in Links |-> IF l \in tx[p].dead THEN 0
                   ELSE delta[p].seen[l] + IF l \in tx[p].new.links THEN 1 ELSE seen[l]]
    BY <1>2 DEF Commit, Written
  <2>2. ASSUME NEW l \in Links
        PROVE  delta[p].seen[l] + (IF l \in tx[p].new.links THEN 1 ELSE seen[l]) \in Nat
    <3>1. delta[p].seen[l] = Cardinality(Holders(tx[p].done, l)) - (IF l \in tx[p].new.links THEN 1 ELSE 0)
      BY DEF LinksInv, Sightings
    <3>2. Cardinality(Holders(tx[p].done, l)) \in Nat
      BY HoldersFinite DEF Typed, Writes
    <3>3. seen[l] \in Nat
      OBVIOUS
    <3>4. QED
      BY <3>1, <3>2, <3>3
  <2>3. QED
    BY <2>1, <2>2
<1>3. CASE PersistNext
  <2>1. PICK p \in Procs :
             \/ p \in Parsers /\ Preload(p)
             \/ ChunkStored(p)
             \/ ChunkCollides(p) \/ ChunkRaises(p)
             \/ LockTag(p) \/ ApplyTagDeltas(p) \/ RecountTags(p)
             \/ ApplySeenDeltas(p) \/ FindOrphans(p) \/ DeleteOrphans(p)
             \/ Commit(p)
             \/ PersistCrash(p) \/ (Victim(p) /\ at[p].stage # "chunk")
             \/ \E l \in Links : p \in Cleaners /\ DeleteLink(p, l)
             \/ \E s \in Seasons : p \in Cleaners /\ PurgeSeason(p, s)
    BY <1>3, Steps
  <2>2. ~Commit(p) => seen' = seen
    BY <2>1 DEF Preload, ChunkStored, ChunkCollides, ChunkRaises, RolledBack, LockTag, ApplyTagDeltas, RecountTags,
                ApplySeenDeltas, FindOrphans, DeleteOrphans, PersistCrash, Victim, DeleteLink, PurgeSeason
  <2>3. QED
    BY <1>2, <2>2
<1>4. QED
  BY <1>1, <1>3

\* Every variable stays of its type.
THEOREM PersistTypes == PersistSpec => []PersistTypeOK
<1> DEFINE Natural == seen \in [Links -> Nat]
<1>1. PersistInit => Natural
  BY DEF PersistInit
<1>2. Typed /\ Natural => PersistTypeOK
  <2> SUFFICES ASSUME Typed, Natural PROVE PersistTypeOK
    OBVIOUS
  <2>1. \A p \in Procs : tx[p] \in Writes /\ cache[p] \in Rows /\ held[p] \in SUBSET Tags /\ at[p] \in Spots
    BY DEF Typed
  <2>2. \A p \in Procs : tx[p].new \in Rows /\ at[p].touched \in SUBSET Seasons
    BY <2>1 DEF Writes, Spots
  <2>3. QED
    BY <2>1, <2>2 DEF Typed, PersistTypeOK
<1>3. Typed /\ Staged /\ LinksInv /\ Natural /\ [PersistNext]_persist => Natural'
  BY SightedNext
<1> HIDE DEF Natural
<1>4. QED
  BY <1>1, <1>2, <1>3, TypedInit, TypedNext, StagedInit, StagedNext, LinksInit, LinksNext, PTL DEF PersistSpec

-----------------------------------------------------------------------------
(* Seasons of documents                                                    *)

ThereInv == SeasonsStored /\ \A p \in Procs : CacheThere(p) /\ SeasonsThere(p)

\* What is committed stays, except what is removed and links no document holds.
Lasting ==
    /\ removed \subseteq removed'
    /\ \A s \in Seasons \ removed' : db.row[s] # 0 => db'.row[s] # 0
    /\ \A x \in db.pairs : x[1] \in removed' \/ x[2] \notin DocLinks \/ x \in db'.pairs
    /\ \A x \in db.tagged : x[1] \in removed' \/ x \in db'.tagged

LEMMA LastingSame == UNCHANGED <<db, removed>> => Lasting
BY DEF Lasting

LEMMA LastingPurge ==
    ASSUME Typed, Staged, NEW c \in Cleaners, NEW s \in Seasons, PurgeSeason(c, s)
    PROVE  Lasting
<1>1. /\ removed' = removed \cup {s}
      /\ \A z \in Seasons : db'.row[z] = IF z = s THEN 0 ELSE db.row[z]
      /\ db'.pairs = {x \in db.pairs : x[1] # s} /\ db'.tagged = {x \in db.tagged : x[1] # s}
  BY PurgeGives
<1>2. QED
  BY <1>1 DEF Lasting

LEMMA LastingCommit ==
    ASSUME Typed, LinksInv, NEW p \in Procs, Commit(p)
    PROVE  Lasting
<1>1. Written(p)
  BY DEF Commit
<1>2. /\ removed' = removed \cup tx[p].gone
      /\ \A s \in Seasons : db'.row[s] = SeenRow(p, s)
      /\ db'.pairs = SeenPairs(p) /\ db'.tagged = SeenTagged(p)
  BY <1>1 DEF Written, Left
<1>3. tx[p].dead \cap DocLinks = {}
  BY DEF LinksInv, Kept
<1>4. \A s \in Seasons \ removed' : db.row[s] # 0 => db'.row[s] # 0
  BY <1>2 DEF SeenRow
<1>5. \A x \in db.pairs : x[1] \in removed' \/ x[2] \notin DocLinks \/ x \in db'.pairs
  BY <1>2, <1>3 DEF SeenPairs, Alive
<1>6. \A x \in db.tagged : x[1] \in removed' \/ x \in db'.tagged
  BY <1>2 DEF SeenTagged, Alive
<1>7. QED
  BY <1>2, <1>4, <1>5, <1>6 DEF Lasting

LEMMA WholeLasts ==
    ASSUME Lasting, NEW d \in Docs, NEW s \in Seasons \ removed', NEW new, Whole(d, s, db, new)
    PROVE  Whole(d, s, db', new)
<1>1. LinksOf[d] \subseteq DocLinks
  BY DEF DocLinks
<1>2. db'.row[s] # 0 \/ new.row[s] # 0
  BY DEF Lasting, Whole
<1>3. {s} \X LinksOf[d] \subseteq db'.pairs \cup new.pairs
  BY <1>1 DEF Lasting, Whole
<1>4. {s} \X TagsOf[d] \subseteq db'.tagged \cup new.tagged
  BY DEF Lasting, Whole
<1>5. QED
  BY <1>2, <1>3, <1>4 DEF Whole

LEMMA CacheLasts ==
    ASSUME Typed, NEW p \in Procs, Lasting, CacheThere(p),
           at'[p].stage = "chunk" =>
             /\ at[p].stage = "chunk" /\ tx'[p].new = tx[p].new
             /\ \A s \in Seasons : cache'[p].row[s] # 0 => cache[p].row[s] # 0
             /\ cache'[p].pairs \subseteq cache[p].pairs /\ cache'[p].tagged \subseteq cache[p].tagged
    PROVE  CacheThere(p)'
<1> SUFFICES ASSUME at'[p].stage = "chunk" PROVE CacheThere(p)'
  BY DEF CacheThere
<1>1. /\ \A s \in Seasons \ removed : cache[p].row[s] # 0 => db.row[s] # 0 \/ tx[p].new.row[s] # 0
      /\ \A x \in cache[p].pairs :
           x[1] \in removed \/ x[2] \notin DocLinks \/ x \in db.pairs \cup tx[p].new.pairs
      /\ \A x \in cache[p].tagged : x[1] \in removed \/ x \in db.tagged \cup tx[p].new.tagged
  BY DEF CacheThere
<1>2. \A s \in Seasons \ removed' : cache'[p].row[s] # 0 => db'.row[s] # 0 \/ tx'[p].new.row[s] # 0
  BY <1>1 DEF Lasting
<1>3. \A x \in cache'[p].pairs :
        x[1] \in removed' \/ x[2] \notin DocLinks \/ x \in db'.pairs \cup tx'[p].new.pairs
  BY <1>1 DEF Lasting
<1>4. \A x \in cache'[p].tagged : x[1] \in removed' \/ x \in db'.tagged \cup tx'[p].new.tagged
  BY <1>1 DEF Lasting
<1>5. QED
  BY <1>2, <1>3, <1>4 DEF CacheThere

LEMMA SeasonsLast ==
    ASSUME Typed, NEW p \in Procs, Lasting, SeasonsThere(p),
           tx'[p].done = tx[p].done, tx'[p].new = tx[p].new, tx'[p].gone = tx[p].gone
    PROVE  SeasonsThere(p)'
<1> SUFFICES ASSUME NEW d \in tx'[p].done, SeasonOf[d] \in Seasons \ (removed' \cup tx'[p].gone)
             PROVE  Whole(d, SeasonOf[d], db', tx'[p].new)
  BY DEF SeasonsThere
<1>1. d \in Docs /\ SeasonOf[d] \in Seasons \ removed'
  BY DEF Typed, Writes
<1>2. SeasonOf[d] \in Seasons \ (removed \cup tx[p].gone)
  BY DEF Lasting
<1>3. Whole(d, SeasonOf[d], db, tx[p].new)
  BY <1>2 DEF SeasonsThere
<1>4. QED
  BY <1>1, <1>3, WholeLasts

LEMMA StoredLasts ==
    ASSUME Lasting, SeasonsStored, NEW d \in Docs, parsed[d] = "done", SeasonOf[d] \in Seasons \ removed'
    PROVE  Whole(d, SeasonOf[d], db', NoRows)
<1>1. SeasonOf[d] \in Seasons \ removed
  BY DEF Lasting
<1>2. Whole(d, SeasonOf[d], db, NoRows)
  BY <1>1 DEF SeasonsStored
<1>3. QED
  BY <1>2, WholeLasts

\* A step after which what p has is whole, in a catalogue that lasts.
LEMMA ThereFrame ==
    ASSUME Typed, ThereInv, NEW p \in Procs, Apart(p), Lasting, parsed' = parsed,
           CacheThere(p)', SeasonsThere(p)'
    PROVE  ThereInv'
<1>1. \A q \in Procs \ {p} : CacheThere(q)'
  BY CacheLasts DEF Apart, ThereInv
<1>2. \A q \in Procs \ {p} : SeasonsThere(q)'
  BY SeasonsLast DEF Apart, ThereInv
<1>3. SeasonsStored'
  <2>1. NoRows' = NoRows
    BY DEF NoRows
  <2>2. QED
    BY <2>1, StoredLasts DEF ThereInv, SeasonsStored
<1>4. QED
  BY <1>1, <1>2, <1>3 DEF ThereInv

LEMMA ThereInit == PersistInit => ThereInv
<1> SUFFICES ASSUME PersistInit PROVE ThereInv
  OBVIOUS
<1>1. \A p \in Procs : tx[p].done = {} /\ at[p].stage = "off"
  BY DEF PersistInit, NoWrites, Start
<1>2. \A d \in Docs : parsed[d] = "pending"
  BY DEF PersistInit
<1>3. QED
  BY <1>1, <1>2 DEF ThereInv, CacheThere, SeasonsThere, SeasonsStored

LEMMA ThereStored ==
    ASSUME Typed, Staged, ThereInv, NEW p \in Procs, ChunkStored(p)
    PROVE  ThereInv'
<1> DEFINE D == Chunk(p)
           new == New(p, D)
<1>1. /\ Apart(p) /\ UNCHANGED <<db, removed, parsed>>
      /\ at[p].stage = "chunk"
      /\ new \in Rows /\ D \in SUBSET Docs
      /\ tx'[p] = [tx[p] EXCEPT !.new = Both(@, new), !.done = @ \cup D]
      /\ cache'[p] = Both(cache[p], new)
  BY StoredGives
<1>2. /\ \A s \in SeasonsOf(D) : s \in Seasons => cache[p].row[s] # 0 \/ new.row[s] # 0
      /\ \A d \in D : SeasonOf[d] \in Seasons =>
           /\ {SeasonOf[d]} \X LinksOf[d] \subseteq cache[p].pairs \cup new.pairs
           /\ {SeasonOf[d]} \X TagsOf[d] \subseteq cache[p].tagged \cup new.tagged
  <2>1. FreshId # 0
    BY FreshIdNew
  <2>2. \A s \in Seasons : new.row[s] = IF s \in SeasonsOf(D) /\ cache[p].row[s] = 0 THEN FreshId ELSE 0
    BY DEF New
  <2>3. \A d \in D : SeasonOf[d] \in Seasons => d \in Named(D)
    BY PersistAssumption DEF Named
  <2>4. \A d \in Named(D) : {SeasonOf[d]} \X LinksOf[d] \subseteq cache[p].pairs \cup new.pairs
    BY DEF New
  <2>5. \A d \in Named(D) : {SeasonOf[d]} \X TagsOf[d] \subseteq cache[p].tagged \cup new.tagged
    BY DEF New
  <2> HIDE DEF D, new
  <2>6. QED
    BY <2>1, <2>2, <2>3, <2>4, <2>5
<1>3. \A d \in D : SeasonOf[d] \in Seasons => SeasonOf[d] \in SeasonsOf(D)
  BY PersistAssumption DEF SeasonsOf, Named
<1> HIDE DEF D, new
<1>4. tx[p] \in Writes /\ cache[p] \in Rows /\ tx[p].new \in Rows /\ tx[p].done \in SUBSET Docs
  BY DEF Typed, Writes
<1>5. /\ tx'[p].done = tx[p].done \cup D /\ tx'[p].gone = tx[p].gone /\ tx'[p].new = Both(tx[p].new, new)
  BY <1>1, <1>4, Zenon DEF Writes
<1>6. /\ \A s \in Seasons : tx'[p].new.row[s] # 0 <=> tx[p].new.row[s] # 0 \/ new.row[s] # 0
      /\ \A s \in Seasons : cache'[p].row[s] # 0 <=> cache[p].row[s] # 0 \/ new.row[s] # 0
      /\ tx'[p].new.pairs = tx[p].new.pairs \cup new.pairs /\ cache'[p].pairs = cache[p].pairs \cup new.pairs
      /\ tx'[p].new.tagged = tx[p].new.tagged \cup new.tagged
      /\ cache'[p].tagged = cache[p].tagged \cup new.tagged
  BY <1>1, <1>5 DEF Both
<1>7. Lasting
  BY <1>1, LastingSame
<1>8. /\ \A s \in Seasons \ removed : cache[p].row[s] # 0 => db.row[s] # 0 \/ tx[p].new.row[s] # 0
      /\ \A x \in cache[p].pairs :
           x[1] \in removed \/ x[2] \notin DocLinks \/ x \in db.pairs \cup tx[p].new.pairs
      /\ \A x \in cache[p].tagged : x[1] \in removed \/ x \in db.tagged \cup tx[p].new.tagged
  BY <1>1 DEF ThereInv, CacheThere
<1>9. CacheThere(p)'
  <2>1. \A s \in Seasons \ removed' : cache'[p].row[s] # 0 => db'.row[s] # 0 \/ tx'[p].new.row[s] # 0
    BY <1>1, <1>6, <1>8
  <2>2. \A x \in cache'[p].pairs :
          x[1] \in removed' \/ x[2] \notin DocLinks \/ x \in db'.pairs \cup tx'[p].new.pairs
    BY <1>1, <1>6, <1>8
  <2>3. \A x \in cache'[p].tagged : x[1] \in removed' \/ x \in db'.tagged \cup tx'[p].new.tagged
    BY <1>1, <1>6, <1>8
  <2>4. QED
    BY <2>1, <2>2, <2>3 DEF CacheThere
<1>10. SeasonsThere(p)'
  <2> SUFFICES ASSUME NEW d \in tx'[p].done, SeasonOf[d] \in Seasons \ (removed \cup tx[p].gone)
               PROVE  Whole(d, SeasonOf[d], db, tx'[p].new)
    BY <1>1, <1>5 DEF SeasonsThere
  <2> DEFINE s == SeasonOf[d]
  <2>1. CASE d \in D
    <3>1. db.row[s] # 0 \/ tx'[p].new.row[s] # 0
      BY <1>2, <1>3, <1>6, <1>8, <2>1
    <3>2. LinksOf[d] \subseteq DocLinks
      BY <1>1, <2>1 DEF DocLinks
    <3>3. {s} \X LinksOf[d] \subseteq cache'[p].pairs
      BY <1>2, <1>6, <2>1
    <3>4. {s} \X LinksOf[d] \subseteq db.pairs \cup tx'[p].new.pairs
      BY <1>1, <1>9, <3>2, <3>3, <1>6, <1>8
    <3>5. {s} \X TagsOf[d] \subseteq cache'[p].tagged
      BY <1>2, <1>6, <2>1
    <3>6. {s} \X TagsOf[d] \subseteq db.tagged \cup tx'[p].new.tagged
      BY <3>5, <1>6, <1>8
    <3>7. QED
      BY <3>1, <3>4, <3>6 DEF Whole
  <2>2. CASE d \in tx[p].done
    <3>1. Whole(d, s, db, tx[p].new)
      BY <2>2 DEF ThereInv, SeasonsThere
    <3>2. QED
      BY <1>6, <3>1 DEF Whole
  <2>3. QED
    BY <1>5, <2>1, <2>2
<1>11. QED
  BY <1>1, <1>7, <1>9, <1>10, ThereFrame

LEMMA ThereDelete ==
    ASSUME Typed, Staged, ThereInv, NEW p \in Procs, DeleteOrphans(p)
    PROVE  ThereInv'
<1> DEFINE O == at[p].orphans
           less == Without(tx[p].new, O)
<1>1. /\ Apart(p) /\ UNCHANGED <<db, removed, parsed>>
      /\ at'[p].stage = "recount" /\ O \in SUBSET Seasons
      /\ tx'[p] = [tx[p] EXCEPT !.gone = @ \cup at[p].orphans, !.new = Without(@, at[p].orphans)]
  BY DeleteGives
<1>2. tx[p] \in Writes /\ tx[p].new \in Rows /\ tx[p].done \in SUBSET Docs
  BY DEF Typed, Writes
<1>3. tx'[p].done = tx[p].done /\ tx'[p].gone = tx[p].gone \cup O /\ tx'[p].new = less
  BY <1>1, <1>2, Zenon DEF Writes
<1>4. /\ less.row = [s \in Seasons |-> IF s \in O THEN 0 ELSE tx[p].new.row[s]]
      /\ less.pairs = {x \in tx[p].new.pairs : x[1] \notin O}
      /\ less.tagged = {x \in tx[p].new.tagged : x[1] \notin O}
  BY <1>2, Zenon DEF Without, Rows
<1>5. Lasting
  BY <1>1, LastingSame
<1>6. CacheThere(p)'
  BY <1>1 DEF CacheThere
<1>7. SeasonsThere(p)'
  <2> SUFFICES ASSUME NEW d \in tx[p].done, SeasonOf[d] \in Seasons \ (removed \cup tx[p].gone \cup O)
               PROVE  Whole(d, SeasonOf[d], db, less)
    BY <1>1, <1>3 DEF SeasonsThere
  <2>1. Whole(d, SeasonOf[d], db, tx[p].new)
    BY DEF ThereInv, SeasonsThere
  <2> HIDE DEF O, less
  <2>2. less.row[SeasonOf[d]] = tx[p].new.row[SeasonOf[d]]
    BY <1>4
  <2>3. {SeasonOf[d]} \X LinksOf[d] \subseteq db.pairs \cup less.pairs
    BY <1>4, <2>1 DEF Whole
  <2>4. {SeasonOf[d]} \X TagsOf[d] \subseteq db.tagged \cup less.tagged
    BY <1>4, <2>1 DEF Whole
  <2>5. QED
    BY <2>1, <2>2, <2>3, <2>4 DEF Whole
<1>8. QED
  BY <1>1, <1>5, <1>6, <1>7, ThereFrame

LEMMA ThereCommit ==
    ASSUME Typed, Staged, LinksInv, ThereInv, NEW p \in Procs, Commit(p)
    PROVE  ThereInv'
<1>1. /\ Apart(p) /\ Written(p) /\ at'[p].stage \in {"off", "through"} /\ tx'[p] = NoWrites
  BY CommitGives
<1>2. Lasting
  BY LastingCommit
<1>3. tx'[p].done = {}
  BY <1>1 DEF NoWrites
<1>4. \A q \in Procs : CacheThere(q)'
  <2>1. CacheThere(p)'
    BY <1>1 DEF CacheThere
  <2>2. \A q \in Procs \ {p} : CacheThere(q)'
    BY <1>1, <1>2, CacheLasts DEF Apart, ThereInv
  <2>3. QED
    BY <2>1, <2>2
<1>5. \A q \in Procs : SeasonsThere(q)'
  <2>1. SeasonsThere(p)'
    BY <1>3 DEF SeasonsThere
  <2>2. \A q \in Procs \ {p} : SeasonsThere(q)'
    BY <1>1, <1>2, SeasonsLast DEF Apart, ThereInv
  <2>3. QED
    BY <2>1, <2>2
<1>6. SeasonsStored'
  <2>1. NoRows' = NoRows
    BY DEF NoRows
  <2>2. ASSUME NEW d \in Docs, parsed'[d] = "done", SeasonOf[d] \in Seasons \ removed'
        PROVE  Whole(d, SeasonOf[d], db', NoRows)
    <3>1. /\ removed' = removed \cup tx[p].gone
          /\ db'.row = [s \in Seasons |-> SeenRow(p, s)]
          /\ db'.pairs = SeenPairs(p) /\ db'.tagged = SeenTagged(p)
          /\ parsed'[d] = IF d \in tx[p].done THEN "done"
                          ELSE IF d \in tx[p].charged THEN "charged" ELSE parsed[d]
      BY <1>1 DEF Written, Left
    <3>2. CASE d \in tx[p].done
      <4> DEFINE s == SeasonOf[d]
      <4>1. s \in Seasons /\ s \notin tx[p].gone /\ s \notin removed
        BY <2>2, <3>1
      <4>2. Whole(d, s, db, tx[p].new)
        BY <3>2, <4>1 DEF ThereInv, SeasonsThere
      <4>3. LinksOf[d] \cap tx[p].dead = {}
        BY DEF LinksInv, Kept, DocLinks
      <4> HIDE DEF s
      <4>4. db'.row[s] # 0
        BY <3>1, <4>1, <4>2 DEF Whole, SeenRow
      <4>5. {s} \X LinksOf[d] \subseteq db'.pairs
        BY <3>1, <4>1, <4>2, <4>3 DEF Whole, SeenPairs, Alive
      <4>6. {s} \X TagsOf[d] \subseteq db'.tagged
        BY <3>1, <4>1, <4>2 DEF Whole, SeenTagged, Alive
      <4>7. QED
        BY <4>4, <4>5, <4>6 DEF Whole, s
    <3>3. CASE d \notin tx[p].done
      <4>1. parsed[d] = "done"
        BY <2>2, <3>1, <3>3
      <4>2. QED
        BY <1>2, <2>2, <4>1, StoredLasts DEF ThereInv
    <3>4. QED
      BY <3>2, <3>3
  <2>3. QED
    BY <2>1, <2>2 DEF SeasonsStored
<1>7. QED
  BY <1>4, <1>5, <1>6 DEF ThereInv

LEMMA ThereNext == Typed /\ Staged /\ LinksInv /\ ThereInv /\ [PersistNext]_persist => ThereInv'
<1> SUFFICES ASSUME Typed, Staged, LinksInv, ThereInv, [PersistNext]_persist PROVE ThereInv'
  OBVIOUS
<1>1. CASE UNCHANGED persist
  <2>1. UNCHANGED <<db, parsed, at, tx, cache, removed>>
    BY <1>1 DEF persist
  <2>2. \A p \in Procs : CacheThere(p)' /\ SeasonsThere(p)'
    BY <2>1 DEF ThereInv, CacheThere, SeasonsThere
  <2>3. NoRows' = NoRows
    BY DEF NoRows
  <2>4. SeasonsStored'
    BY <2>1, <2>3 DEF ThereInv, SeasonsStored
  <2>5. QED
    BY <2>2, <2>4 DEF ThereInv
<1>2. CASE PersistNext
  <2>1. PICK p \in Procs :
             \/ p \in Parsers /\ Preload(p)
             \/ ChunkStored(p)
             \/ ChunkCollides(p) \/ ChunkRaises(p)
             \/ LockTag(p) \/ ApplyTagDeltas(p) \/ RecountTags(p)
             \/ ApplySeenDeltas(p) \/ FindOrphans(p) \/ DeleteOrphans(p)
             \/ Commit(p)
             \/ PersistCrash(p) \/ (Victim(p) /\ at[p].stage # "chunk")
             \/ \E l \in Links : p \in Cleaners /\ DeleteLink(p, l)
             \/ \E s \in Seasons : p \in Cleaners /\ PurgeSeason(p, s)
    BY <1>2, Steps
  <2> DEFINE Still == tx'[p].done = tx[p].done /\ tx'[p].new = tx[p].new /\ tx'[p].gone = tx[p].gone
             Outside == at'[p].stage # "chunk"
  <2>2. tx[p] \in Writes
    BY DEF Typed
  <2>3. ASSUME Apart(p), UNCHANGED parsed, Lasting, Still, Outside
        PROVE  ThereInv'
    <3>1. CacheThere(p)'
      BY <2>3 DEF CacheThere
    <3>2. SeasonsThere(p)'
      BY <2>3, SeasonsLast DEF ThereInv
    <3>3. QED
      BY <2>3, <3>1, <3>2, ThereFrame
  <2>4. CASE p \in Parsers /\ Preload(p)
    <3>1. /\ Apart(p) /\ UNCHANGED <<db, removed, parsed>> /\ cache'[p] = db
          /\ \E D \in SUBSET Docs : tx'[p] = [NoWrites EXCEPT !.charged = D]
      BY <2>4, PreloadGives
    <3>2. tx'[p].done = {}
      BY <3>1 DEF NoWrites
    <3>3. SeasonsThere(p)'
      BY <3>2 DEF SeasonsThere
    <3>4. CacheThere(p)'
      BY <3>1 DEF CacheThere
    <3>5. QED
      BY <3>1, <3>3, <3>4, LastingSame, ThereFrame
  <2>5. CASE ChunkStored(p)
    BY <2>5, ThereStored
  <2>6. CASE ChunkCollides(p) \/ ChunkRaises(p)
    <3>1. /\ Apart(p) /\ UNCHANGED <<db, removed, parsed>> /\ at[p].stage = "chunk"
          /\ \E D \in SUBSET Docs : tx'[p] = [tx[p] EXCEPT !.charged = D]
          /\ \E dropped \in SUBSET Seasons : Dropped(p, cache'[p], dropped)
      BY <2>6, BackGives
    <3>2. /\ \A s \in Seasons : cache'[p].row[s] # 0 => cache[p].row[s] # 0
          /\ cache'[p].pairs \subseteq cache[p].pairs /\ cache'[p].tagged \subseteq cache[p].tagged
      BY <3>1 DEF Dropped
    <3>3. Still
      BY <2>2, <3>1, Zenon DEF Writes
    <3>4. CacheThere(p)'
      BY <3>1, <3>2, <3>3, LastingSame, CacheLasts DEF ThereInv
    <3>5. SeasonsThere(p)'
      BY <3>1, <3>3, LastingSame, SeasonsLast DEF ThereInv
    <3>6. QED
      BY <3>1, <3>4, <3>5, LastingSame, ThereFrame
  <2>7. CASE LockTag(p)
    <3>1. /\ Apart(p) /\ UNCHANGED <<db, removed, parsed, at, tx, cache>>
      BY <2>7, LockGives
    <3>2. CacheThere(p)' /\ SeasonsThere(p)'
      BY <3>1 DEF ThereInv, CacheThere, SeasonsThere
    <3>3. QED
      BY <3>1, <3>2, LastingSame, ThereFrame
  <2>8. CASE ApplyTagDeltas(p) \/ RecountTags(p)
    <3>1. /\ Apart(p) /\ UNCHANGED <<db, removed, parsed>> /\ Outside
          /\ \E v \in [Tags -> Int] : tx'[p] = [tx[p] EXCEPT !.value = v]
      BY <2>8, ApplyTagsGives, RecountGives
    <3>2. Still
      BY <2>2, <3>1, Zenon DEF Writes
    <3>3. QED
      BY <2>3, <3>1, <3>2, LastingSame
  <2>9. CASE ApplySeenDeltas(p)
    <3>1. /\ Apart(p) /\ UNCHANGED <<db, removed, parsed>> /\ Outside
          /\ \E S : tx'[p] = [tx[p] EXCEPT !.sighted = S]
      BY <2>9, ApplySeenGives
    <3>2. Still
      BY <2>2, <3>1, Zenon DEF Writes
    <3>3. QED
      BY <2>3, <3>1, <3>2, LastingSame
  <2>10. CASE FindOrphans(p)
    <3>1. Apart(p) /\ UNCHANGED <<db, removed, parsed, tx>> /\ Outside
      BY <2>10, FindGives
    <3>2. QED
      BY <2>3, <3>1, LastingSame
  <2>11. CASE DeleteOrphans(p)
    BY <2>11, ThereDelete
  <2>12. CASE Commit(p)
    BY <2>12, ThereCommit
  <2>13. CASE PersistCrash(p) \/ (Victim(p) /\ at[p].stage # "chunk")
    <3>1. Apart(p) /\ Undone(p)
      BY <2>13, UndoneGives
    <3>2. tx'[p].done = {} /\ Outside /\ UNCHANGED <<db, removed, parsed>>
      BY <3>1 DEF Undone, NoWrites
    <3>3. CacheThere(p)' /\ SeasonsThere(p)'
      BY <3>2 DEF CacheThere, SeasonsThere
    <3>4. QED
      BY <3>1, <3>2, <3>3, LastingSame, ThereFrame
  <2>14. CASE \E l \in Links : p \in Cleaners /\ DeleteLink(p, l)
    <3>1. /\ Apart(p) /\ UNCHANGED <<db, removed, parsed>> /\ Outside
          /\ \E l : tx'[p] = [NoWrites EXCEPT !.dead = {l}]
      BY <2>14, DeleteLinkGives
    <3>2. tx'[p].done = {}
      BY <3>1 DEF NoWrites
    <3>3. CacheThere(p)' /\ SeasonsThere(p)'
      BY <3>1, <3>2 DEF CacheThere, SeasonsThere
    <3>4. QED
      BY <3>1, <3>3, LastingSame, ThereFrame
  <2>15. CASE \E s \in Seasons : p \in Cleaners /\ PurgeSeason(p, s)
    <3>1. /\ Apart(p) /\ UNCHANGED <<parsed, tx>> /\ Outside
      BY <2>15, PurgeGives
    <3>2. Lasting
      BY <2>15, LastingPurge
    <3>3. QED
      BY <2>3, <3>1, <3>2
  <2>16. QED
    BY <2>1, <2>4, <2>5, <2>6, <2>7, <2>8, <2>9, <2>10, <2>11, <2>12, <2>13, <2>14, <2>15
<1>3. QED
  BY <1>1, <1>2

\* A document marked done has its links, and while its season was not removed
\* the season with every link and tag of the document.
THEOREM DocumentsStored == PersistSpec => []DoneStored
<1>1. LinksInv /\ ThereInv => DoneStored
  <2> SUFFICES ASSUME LinksInv, ThereInv, NEW d \in Docs, parsed[d] = "done"
               PROVE  /\ LinksOf[d] \subseteq db.links
                      /\ SeasonOf[d] \in Seasons \ removed =>
                           /\ db.row[SeasonOf[d]] # 0
                           /\ {SeasonOf[d]} \X LinksOf[d] \subseteq db.pairs
                           /\ {SeasonOf[d]} \X TagsOf[d] \subseteq db.tagged
    BY DEF DoneStored
  <2>1. LinksOf[d] \subseteq db.links
    BY DEF LinksInv, LinksThere
  <2>2. ASSUME SeasonOf[d] \in Seasons \ removed
        PROVE  /\ db.row[SeasonOf[d]] # 0
               /\ {SeasonOf[d]} \X LinksOf[d] \subseteq db.pairs
               /\ {SeasonOf[d]} \X TagsOf[d] \subseteq db.tagged
    <3>1. Whole(d, SeasonOf[d], db, NoRows)
      BY <2>2 DEF ThereInv, SeasonsStored
    <3>2. NoRows.row[SeasonOf[d]] = 0 /\ NoRows.pairs = {} /\ NoRows.tagged = {}
      BY <2>2 DEF NoRows
    <3>3. QED
      BY <3>1, <3>2 DEF Whole
  <2>3. QED
    BY <2>1, <2>2
<1>2. QED
  BY <1>1, TypedInit, TypedNext, StagedInit, StagedNext, LinksInit, LinksNext, ThereInit, ThereNext, PTL
     DEF PersistSpec

-----------------------------------------------------------------------------
(* Seasons referred to                                                     *)

RefsInv == References /\ NewSeasons

LEMMA RefsInit == PersistInit => RefsInv
<1> SUFFICES ASSUME PersistInit PROVE RefsInv
  OBVIOUS
<1>1. \A p \in Procs : tx[p].new = NoRows
  BY DEF PersistInit, NoWrites
<1>2. ReferencedSeasons(NoRows) = {} /\ \A s \in Seasons : NoRows.row[s] = 0
  BY DEF ReferencedSeasons, NoRows
<1>3. QED
  BY <1>1, <1>2 DEF RefsInv, References, NewSeasons

\* A step that leaves rows alone.
LEMMA RefsFrame ==
    ASSUME RefsInv, NEW p \in Procs, Apart(p), UNCHANGED db,
           tx'[p].new = tx[p].new, tx'[p].gone = tx[p].gone,
           at'[p].stage = "chunk" =>
             at[p].stage = "chunk" /\ \A s \in ReferencedSeasons(tx[p].new) : cache'[p].row[s] = cache[p].row[s]
    PROVE  RefsInv'
<1>1. \A q \in Procs : tx'[q].new = tx[q].new /\ tx'[q].gone = tx[q].gone
  BY DEF Apart
<1>2. \A q \in Procs : \A s : SeenRow(q, s)' = SeenRow(q, s)
  BY <1>1 DEF SeenRow
<1>3. References'
  <2>1. ASSUME NEW q \in Procs, NEW s \in ReferencedSeasons(tx[q].new)
        PROVE  /\ s \in Seasons /\ \A z \in Procs : s \notin tx'[z].gone
               /\ tx'[q].new.row[s] # 0 \/ db'.row[s] # 0
               /\ at'[q].stage = "chunk" => cache'[q].row[s] = SeenRow(q, s)
    <3>1. /\ s \in Seasons /\ \A z \in Procs : s \notin tx[z].gone
          /\ tx[q].new.row[s] # 0 \/ db.row[s] # 0
          /\ at[q].stage = "chunk" => cache[q].row[s] = SeenRow(q, s)
      BY <2>1 DEF RefsInv, References
    <3>2. at'[q].stage = "chunk" => at[q].stage = "chunk" /\ cache'[q].row[s] = cache[q].row[s]
      BY <2>1 DEF Apart
    <3>3. QED
      BY <1>1, <3>1, <3>2
  <2>2. QED
    BY <1>1, <1>2, <2>1 DEF References
<1>4. NewSeasons'
  BY <1>1 DEF RefsInv, NewSeasons
<1>5. QED
  BY <1>3, <1>4 DEF RefsInv

\* A step of p after which every other process refers to what it did before.
LEMMA RefsOthers ==
    ASSUME References, NEW p \in Procs, Apart(p),
           NEW q \in Procs \ {p}, NEW s \in ReferencedSeasons(tx[q].new),
           s \notin tx'[p].gone, tx[q].new.row[s] = 0 => db'.row[s] = db.row[s]
    PROVE  /\ s \in Seasons /\ \A z \in Procs : s \notin tx'[z].gone
           /\ tx'[q].new.row[s] # 0 \/ db'.row[s] # 0
           /\ at'[q].stage = "chunk" => cache'[q].row[s] = SeenRow(q, s)'
<1>1. /\ s \in Seasons /\ \A z \in Procs : s \notin tx[z].gone
      /\ tx[q].new.row[s] # 0 \/ db.row[s] # 0
      /\ at[q].stage = "chunk" => cache[q].row[s] = SeenRow(q, s)
  BY DEF References
<1>2. /\ tx'[q] = tx[q] /\ at'[q] = at[q] /\ cache'[q] = cache[q]
      /\ \A z \in Procs \ {p} : tx'[z] = tx[z]
  BY DEF Apart
<1>3. \A z \in Procs : s \notin tx'[z].gone
  BY <1>1, <1>2
<1>4. SeenRow(q, s)' = SeenRow(q, s)
  BY <1>1, <1>2 DEF SeenRow
<1>5. QED
  BY <1>1, <1>2, <1>3, <1>4

\* A process that has written nothing.
LEMMA RefsAfresh ==
    ASSUME RefsInv, NEW p \in Procs, Apart(p), UNCHANGED db, tx'[p].new = NoRows, tx'[p].gone = {}
    PROVE  RefsInv'
<1>1. ReferencedSeasons(NoRows) = {} /\ \A s \in Seasons : NoRows.row[s] = 0
  BY DEF ReferencedSeasons, NoRows
<1>2. \A q \in Procs \ {p} : tx'[q] = tx[q]
  BY DEF Apart
<1>3. \A q \in Procs \ {p} : \A s \in ReferencedSeasons(tx[q].new) :
        /\ s \in Seasons /\ \A z \in Procs : s \notin tx'[z].gone
        /\ tx'[q].new.row[s] # 0 \/ db'.row[s] # 0
        /\ at'[q].stage = "chunk" => cache'[q].row[s] = SeenRow(q, s)'
  BY RefsOthers DEF RefsInv
<1>4. References'
  BY <1>1, <1>2, <1>3 DEF References
<1>5. NewSeasons'
  BY <1>1, <1>2 DEF RefsInv, NewSeasons
<1>6. QED
  BY <1>4, <1>5 DEF RefsInv

LEMMA RefsStored ==
    ASSUME Typed, Staged, RefsInv, NEW p \in Procs, ChunkStored(p)
    PROVE  RefsInv'
<1> DEFINE D == Chunk(p)
           new == New(p, D)
<1>1. /\ Apart(p) /\ UNCHANGED db
      /\ at[p].stage = "chunk" /\ InsertWaits(p, new) = {} /\ ~Collides(p, new)
      /\ new \in Rows /\ D \in SUBSET Docs
      /\ tx'[p] = [tx[p] EXCEPT !.new = Both(@, new), !.done = @ \cup D]
      /\ cache'[p] = Both(cache[p], new)
  BY StoredGives
<1>2. /\ \A s \in ReferencedSeasons(new) : s \in Seasons /\ (cache[p].row[s] = 0 => new.row[s] # 0)
  <2>1. FreshId # 0
    BY FreshIdNew
  <2>2. \A s \in Seasons : new.row[s] = IF s \in SeasonsOf(D) /\ cache[p].row[s] = 0 THEN FreshId ELSE 0
    BY DEF New
  <2>3. \A x \in new.pairs \cup new.tagged : x[1] \in SeasonsOf(D)
    <3>1. \A x \in new.pairs : x[1] \in SeasonsOf(D)
      BY DEF New, SeasonsOf
    <3>2. \A x \in new.tagged : x[1] \in SeasonsOf(D)
      BY DEF New, SeasonsOf
    <3>3. QED
      BY <3>1, <3>2
  <2>4. \A x \in new.pairs \cup new.tagged : x[1] \in Seasons
    <3>1. new.pairs \subseteq Seasons \X Links /\ new.tagged \subseteq Seasons \X Tags
      BY <1>1 DEF Rows
    <3> HIDE DEF new
    <3>2. QED
      BY <3>1
  <2> HIDE DEF D, new
  <2>5. QED
    BY <2>1, <2>2, <2>3, <2>4 DEF ReferencedSeasons
<1> HIDE DEF D, new
<1>3. tx[p] \in Writes /\ tx[p].new \in Rows /\ cache[p] \in Rows /\ db \in Rows
  BY DEF Typed, Writes
<1>4. tx'[p].gone = tx[p].gone /\ tx'[p].new = Both(tx[p].new, new)
  BY <1>1, <1>3, Zenon DEF Writes
<1>5. /\ \A s \in Seasons : tx'[p].new.row[s] = IF new.row[s] # 0 THEN new.row[s] ELSE tx[p].new.row[s]
      /\ \A s \in Seasons : cache'[p].row[s] = IF new.row[s] # 0 THEN new.row[s] ELSE cache[p].row[s]
      /\ ReferencedSeasons(tx'[p].new) = ReferencedSeasons(tx[p].new) \cup ReferencedSeasons(new)
  <2>1. \A r : /\ \A s \in Seasons : Both(r, new).row[s] = IF new.row[s] # 0 THEN new.row[s] ELSE r.row[s]
               /\ Both(r, new).pairs = r.pairs \cup new.pairs /\ Both(r, new).tagged = r.tagged \cup new.tagged
    BY DEF Both
  <2>2. \A r : ReferencedSeasons(Both(r, new)) = ReferencedSeasons(r) \cup ReferencedSeasons(new)
    BY <2>1 DEF ReferencedSeasons
  <2>3. QED
    BY <1>1, <1>4, <2>1, <2>2
<1>6. /\ \A s \in ReferencedSeasons(new) : \A q \in Procs \ {p} : s \notin tx[q].gone
      /\ \A s \in Seasons : new.row[s] # 0 => db.row[s] = 0 /\ \A q \in Procs \ {p} : tx[q].new.row[s] = 0
  BY <1>1 DEF InsertWaits, Collides, SameKey, SameRow, CreatedSeasons
<1>7. \A s \in ReferencedSeasons(new) : cache[p].row[s] # 0 => cache[p].row[s] = SeenRow(p, s)
  BY <1>1 DEF Collides, Dangling
<1>8. tx[p].gone = {} /\ \A q \in Procs \ {p} : tx'[q] = tx[q]
  BY <1>1 DEF Staged, Apart
<1>9. \A s : SeenRow(p, s)' = IF tx'[p].new.row[s] # 0 THEN tx'[p].new.row[s] ELSE db.row[s]
  BY <1>1, <1>4, <1>8 DEF SeenRow
<1>10. \A s : SeenRow(p, s) = IF tx[p].new.row[s] # 0 THEN tx[p].new.row[s] ELSE db.row[s]
  BY <1>8 DEF SeenRow
<1>11. ASSUME NEW s \in ReferencedSeasons(tx'[p].new)
       PROVE  /\ s \in Seasons /\ \A z \in Procs : s \notin tx'[z].gone
              /\ tx'[p].new.row[s] # 0 \/ db'.row[s] # 0
              /\ cache'[p].row[s] = SeenRow(p, s)'
  <2>1. CASE s \in ReferencedSeasons(new)
    <3>1. s \in Seasons /\ \A z \in Procs : s \notin tx'[z].gone
      BY <1>2, <1>4, <1>6, <1>8, <2>1
    <3>2. CASE new.row[s] # 0
      BY <1>5, <1>9, <3>1, <3>2
    <3>3. CASE new.row[s] = 0
      <4>1. cache[p].row[s] = SeenRow(p, s) /\ cache[p].row[s] # 0
        BY <1>2, <1>7, <2>1, <3>3
      <4>2. tx'[p].new.row[s] = tx[p].new.row[s] /\ cache'[p].row[s] = cache[p].row[s]
        BY <1>5, <3>1, <3>3
      <4>3. QED
        BY <1>1, <1>9, <1>10, <3>1, <4>1, <4>2
    <3>4. QED
      BY <3>2, <3>3
  <2>2. CASE s \in ReferencedSeasons(tx[p].new)
    <3>1. /\ s \in Seasons /\ \A z \in Procs : s \notin tx[z].gone
          /\ tx[p].new.row[s] # 0 \/ db.row[s] # 0
          /\ cache[p].row[s] = SeenRow(p, s)
      BY <1>1, <2>2 DEF RefsInv, References
    <3>2. \A z \in Procs : s \notin tx'[z].gone
      BY <1>4, <1>8, <3>1
    <3>3. CASE new.row[s] # 0
      BY <1>5, <1>9, <3>1, <3>2, <3>3
    <3>4. CASE new.row[s] = 0
      <4>1. tx'[p].new.row[s] = tx[p].new.row[s] /\ cache'[p].row[s] = cache[p].row[s]
        BY <1>5, <3>1, <3>4
      <4>2. QED
        BY <1>1, <1>9, <1>10, <3>1, <3>2, <4>1
    <3>5. QED
      BY <3>3, <3>4
  <2>3. QED
    BY <1>5, <2>1, <2>2
<1>12. \A q \in Procs \ {p} : \A s \in ReferencedSeasons(tx[q].new) :
        /\ s \in Seasons /\ \A z \in Procs : s \notin tx'[z].gone
        /\ tx'[q].new.row[s] # 0 \/ db'.row[s] # 0
        /\ at'[q].stage = "chunk" => cache'[q].row[s] = SeenRow(q, s)'
  <2>1. tx'[p].gone = {}
    BY <1>4, <1>8
  <2>2. References /\ db'.row = db.row /\ Apart(p)
    BY <1>1 DEF RefsInv
  <2>3. ASSUME NEW q \in Procs \ {p}, NEW s \in ReferencedSeasons(tx[q].new)
        PROVE  /\ s \in Seasons /\ \A z \in Procs : s \notin tx'[z].gone
               /\ tx'[q].new.row[s] # 0 \/ db'.row[s] # 0
               /\ at'[q].stage = "chunk" => cache'[q].row[s] = SeenRow(q, s)'
    BY <2>1, <2>2, RefsOthers
  <2>4. QED
    BY <2>3
<1>13. References'
  <2>1. \A q \in Procs \ {p} : ReferencedSeasons(tx'[q].new) = ReferencedSeasons(tx[q].new)
    BY <1>8
  <2>2. QED
    BY <1>11, <1>12, <2>1 DEF References
<1>14. NewSeasons'
  <2> SUFFICES ASSUME NEW q \in Procs, NEW s \in Seasons, tx'[q].new.row[s] # 0
               PROVE  db.row[s] = 0 /\ \A z \in Procs \ {q} : tx'[z].new.row[s] = 0
    BY <1>1 DEF NewSeasons
  <2>1. CASE q = p
    BY <1>5, <1>6, <1>8, <2>1 DEF RefsInv, NewSeasons
  <2>2. CASE q # p
    <3>1. tx[q].new.row[s] # 0
      BY <1>8, <2>2
    <3>2. db.row[s] = 0 /\ \A z \in Procs \ {q} : tx[z].new.row[s] = 0
      BY <3>1 DEF RefsInv, NewSeasons
    <3>3. new.row[s] = 0
      BY <1>6, <2>2, <3>1
    <3>4. tx'[p].new.row[s] = 0
      BY <1>5, <2>2, <3>2, <3>3
    <3>5. QED
      BY <1>8, <3>2, <3>4
  <2>3. QED
    BY <2>1, <2>2
<1>15. QED
  BY <1>13, <1>14 DEF RefsInv

LEMMA RefsDelete ==
    ASSUME Typed, RefsInv, NEW p \in Procs, DeleteOrphans(p)
    PROVE  RefsInv'
<1> DEFINE O == at[p].orphans
           less == Without(tx[p].new, O)
<1>1. /\ Apart(p) /\ UNCHANGED db /\ at[p].stage = "delete"
      /\ at'[p].stage = "recount" /\ DeleteWaits(p) = {}
      /\ tx'[p] = [tx[p] EXCEPT !.gone = @ \cup at[p].orphans, !.new = Without(@, at[p].orphans)]
  BY DeleteGives
<1>2. tx[p] \in Writes /\ tx[p].new \in Rows
  BY DEF Typed, Writes
<1>3. tx'[p].gone = tx[p].gone \cup O /\ tx'[p].new = less
  BY <1>1, <1>2, Zenon DEF Writes
<1>4. /\ less.row = [s \in Seasons |-> IF s \in O THEN 0 ELSE tx[p].new.row[s]]
      /\ less.pairs = {x \in tx[p].new.pairs : x[1] \notin O}
      /\ less.tagged = {x \in tx[p].new.tagged : x[1] \notin O}
  BY <1>2, Zenon DEF Without, Rows
<1>5. \A q \in Procs \ {p} : tx'[q] = tx[q] /\ O \cap ReferencedSeasons(tx[q].new) = {}
  BY <1>1 DEF Apart, DeleteWaits
<1> HIDE DEF O, less
<1>6. \A s \in ReferencedSeasons(less) : s \in ReferencedSeasons(tx[p].new) /\ s \notin O
  BY <1>4 DEF ReferencedSeasons
<1>7. ASSUME NEW s \in ReferencedSeasons(less)
      PROVE  /\ s \in Seasons /\ \A z \in Procs : s \notin tx'[z].gone
             /\ tx'[p].new.row[s] # 0 \/ db'.row[s] # 0
  <2>1. /\ s \in Seasons /\ \A z \in Procs : s \notin tx[z].gone
        /\ tx[p].new.row[s] # 0 \/ db.row[s] # 0
    BY <1>6 DEF RefsInv, References
  <2>2. \A z \in Procs : s \notin tx'[z].gone
    BY <1>3, <1>5, <1>6, <2>1
  <2>3. QED
    BY <1>1, <1>3, <1>4, <1>6, <2>1, <2>2
<1>8. ASSUME NEW q \in Procs \ {p}, NEW s \in ReferencedSeasons(tx[q].new)
      PROVE  /\ s \in Seasons /\ \A z \in Procs : s \notin tx'[z].gone
             /\ tx'[q].new.row[s] # 0 \/ db'.row[s] # 0
             /\ at'[q].stage = "chunk" => cache'[q].row[s] = SeenRow(q, s)'
  <2>1. s \notin tx'[p].gone
    BY <1>3, <1>5 DEF RefsInv, References
  <2>2. References /\ db'.row = db.row /\ Apart(p)
    BY <1>1 DEF RefsInv
  <2>3. QED
    BY <2>1, <2>2, RefsOthers
<1>9. References'
  <2>1. at'[p].stage # "chunk"
    BY <1>1
  <2>2. QED
    BY <1>3, <1>5, <1>7, <1>8, <2>1 DEF References
<1>10. NewSeasons'
  <2>1. \A s \in Seasons : less.row[s] # 0 => tx[p].new.row[s] # 0
    BY <1>4
  <2>2. \A s \in Seasons : tx[p].new.row[s] = 0 => less.row[s] = 0
    BY <1>4
  <2> SUFFICES ASSUME NEW q \in Procs, NEW s \in Seasons, tx'[q].new.row[s] # 0
               PROVE  db.row[s] = 0 /\ \A z \in Procs \ {q} : tx'[z].new.row[s] = 0
    BY <1>1 DEF NewSeasons
  <2>3. tx[q].new.row[s] # 0
    BY <1>3, <1>5, <2>1
  <2>4. db.row[s] = 0 /\ \A z \in Procs \ {q} : tx[z].new.row[s] = 0
    BY <2>3 DEF RefsInv, NewSeasons
  <2>5. QED
    BY <1>3, <1>5, <2>2, <2>4
<1>11. QED
  BY <1>9, <1>10 DEF RefsInv

LEMMA RefsPurge ==
    ASSUME Typed, Staged, RefsInv, NEW c \in Cleaners, NEW s \in Seasons, PurgeSeason(c, s)
    PROVE  RefsInv'
<1>1. /\ Apart(c) /\ UNCHANGED <<tx, cache>>
      /\ at[c].stage = "off" /\ at'[c].stage = "recount"
      /\ \A q \in Procs : s \notin ReferencedSeasons(tx[q].new) \cup tx[q].gone
      /\ \A z \in Seasons : db'.row[z] = IF z = s THEN 0 ELSE db.row[z]
  BY PurgeGives
<1>2. c \in Procs
  BY DEF Procs
<1>3. tx[c].new = NoRows /\ tx[c].gone = {}
  BY <1>1, <1>2 DEF Staged, NoWrites
<1>4. ReferencedSeasons(tx[c].new) = {}
  BY <1>3 DEF ReferencedSeasons, NoRows
<1>5. ASSUME NEW q \in Procs \ {c}, NEW z \in ReferencedSeasons(tx[q].new)
      PROVE  /\ z \in Seasons /\ \A y \in Procs : z \notin tx'[y].gone
             /\ tx'[q].new.row[z] # 0 \/ db'.row[z] # 0
             /\ at'[q].stage = "chunk" => cache'[q].row[z] = SeenRow(q, z)'
  <2>1. References /\ Apart(c)
    BY <1>1 DEF RefsInv
  <2>2. z \in Seasons /\ z # s
    BY <1>1, <2>1 DEF References
  <2>3. db'.row[z] = db.row[z] /\ z \notin tx'[c].gone
    BY <1>1, <1>3, <2>2
  <2>4. QED
    BY <1>2, <2>1, <2>3, RefsOthers
<1>6. References'
  BY <1>1, <1>4, <1>5 DEF References
<1>7. NewSeasons'
  BY <1>1 DEF RefsInv, NewSeasons
<1>8. QED
  BY <1>6, <1>7 DEF RefsInv

LEMMA RefsCommit ==
    ASSUME Typed, Staged, RefsInv, NEW p \in Procs, Commit(p)
    PROVE  RefsInv'
<1>1. /\ Apart(p) /\ Written(p) /\ at'[p].stage \in {"off", "through"} /\ tx'[p] = NoWrites
  BY CommitGives
<1>2. tx'[p].new = NoRows /\ tx'[p].gone = {}
  BY <1>1 DEF NoWrites
<1>3. ReferencedSeasons(tx'[p].new) = {} /\ \A s \in Seasons : tx'[p].new.row[s] = 0
  BY <1>2 DEF ReferencedSeasons, NoRows
<1>4. \A s \in Seasons : db'.row[s] = SeenRow(p, s)
  BY <1>1 DEF Written, Left
<1>5. \A q \in Procs \ {p} : tx'[q] = tx[q]
  BY <1>1 DEF Apart
<1>6. ASSUME NEW q \in Procs \ {p}, NEW s \in ReferencedSeasons(tx[q].new)
      PROVE  /\ s \in Seasons /\ \A y \in Procs : s \notin tx'[y].gone
             /\ tx'[q].new.row[s] # 0 \/ db'.row[s] # 0
             /\ at'[q].stage = "chunk" => cache'[q].row[s] = SeenRow(q, s)'
  <2>1. References /\ NewSeasons
    BY DEF RefsInv
  <2>2. s \in Seasons /\ s \notin tx[p].gone /\ (tx[q].new.row[s] # 0 \/ db.row[s] # 0)
    BY <2>1 DEF References
  <2>3. tx[q].new.row[s] = 0 => db'.row[s] = db.row[s]
    <3>1. ASSUME tx[q].new.row[s] = 0 PROVE tx[p].new.row[s] = 0
      BY <2>1, <2>2, <3>1 DEF NewSeasons
    <3>2. QED
      BY <1>4, <2>2, <3>1 DEF SeenRow
  <2>4. s \notin tx'[p].gone
    BY <1>2
  <2>5. QED
    BY <1>1, <2>1, <2>3, <2>4, RefsOthers
<1>7. References'
  BY <1>3, <1>5, <1>6 DEF References
<1>8. NewSeasons'
  <2> SUFFICES ASSUME NEW q \in Procs, NEW s \in Seasons, tx'[q].new.row[s] # 0
               PROVE  db'.row[s] = 0 /\ \A z \in Procs \ {q} : tx'[z].new.row[s] = 0
    BY DEF NewSeasons
  <2>1. q # p
    BY <1>3
  <2>2. db.row[s] = 0 /\ \A z \in Procs \ {q} : tx[z].new.row[s] = 0
    BY <1>5, <2>1 DEF RefsInv, NewSeasons
  <2>3. SeenRow(p, s) = 0
    BY <2>1, <2>2 DEF SeenRow
  <2>4. QED
    BY <1>3, <1>4, <1>5, <2>2, <2>3
<1>9. QED
  BY <1>7, <1>8 DEF RefsInv

LEMMA RefsNext == Typed /\ Staged /\ RefsInv /\ [PersistNext]_persist => RefsInv'
<1> SUFFICES ASSUME Typed, Staged, RefsInv, [PersistNext]_persist PROVE RefsInv'
  OBVIOUS
<1>1. CASE UNCHANGED persist
  <2>1. UNCHANGED <<db, at, tx, cache>>
    BY <1>1 DEF persist
  <2>2. \A q, s : SeenRow(q, s)' = SeenRow(q, s)
    BY <2>1 DEF SeenRow
  <2>3. References' /\ NewSeasons'
    BY <2>1, <2>2 DEF RefsInv, References, NewSeasons
  <2>4. QED
    BY <2>3 DEF RefsInv
<1>2. CASE PersistNext
  <2>1. PICK p \in Procs :
             \/ p \in Parsers /\ Preload(p)
             \/ ChunkStored(p)
             \/ ChunkCollides(p) \/ ChunkRaises(p)
             \/ LockTag(p) \/ ApplyTagDeltas(p) \/ RecountTags(p)
             \/ ApplySeenDeltas(p) \/ FindOrphans(p) \/ DeleteOrphans(p)
             \/ Commit(p)
             \/ PersistCrash(p) \/ (Victim(p) /\ at[p].stage # "chunk")
             \/ \E l \in Links : p \in Cleaners /\ DeleteLink(p, l)
             \/ \E s \in Seasons : p \in Cleaners /\ PurgeSeason(p, s)
    BY <1>2, Steps
  <2> DEFINE Still == tx'[p].new = tx[p].new /\ tx'[p].gone = tx[p].gone
             Outside == at'[p].stage # "chunk"
  <2>2. tx[p] \in Writes
    BY DEF Typed
  <2>3. ASSUME Apart(p), UNCHANGED db, Still, Outside
        PROVE  RefsInv'
    BY <2>3, RefsFrame
  <2>4. CASE p \in Parsers /\ Preload(p)
    <3>1. /\ Apart(p) /\ UNCHANGED db
          /\ \E D \in SUBSET Docs : tx'[p] = [NoWrites EXCEPT !.charged = D]
      BY <2>4, PreloadGives
    <3>2. tx'[p].new = NoRows /\ tx'[p].gone = {}
      BY <3>1 DEF NoWrites
    <3>3. QED
      BY <3>1, <3>2, RefsAfresh
  <2>5. CASE ChunkStored(p)
    BY <2>5, RefsStored
  <2>6. CASE ChunkCollides(p) \/ ChunkRaises(p)
    <3>1. /\ Apart(p) /\ UNCHANGED db /\ at[p].stage = "chunk"
          /\ \E D \in SUBSET Docs : tx'[p] = [tx[p] EXCEPT !.charged = D]
      BY <2>6, BackGives
    <3>2. PICK dropped \in SUBSET Seasons : Dropped(p, cache'[p], dropped)
      BY <2>6, BackGives
    <3>3. Still
      BY <2>2, <3>1, Zenon DEF Writes
    <3>4. \A s \in ReferencedSeasons(tx[p].new) : cache'[p].row[s] = cache[p].row[s]
      BY <3>1, <3>2 DEF Dropped, RefsInv, References
    <3>5. QED
      BY <3>1, <3>3, <3>4, RefsFrame
  <2>7. CASE LockTag(p)
    <3>1. /\ Apart(p) /\ UNCHANGED <<db, at, tx, cache>>
      BY <2>7, LockGives
    <3>2. QED
      BY <3>1, RefsFrame
  <2>8. CASE ApplyTagDeltas(p) \/ RecountTags(p)
    <3>1. /\ Apart(p) /\ UNCHANGED db /\ Outside
          /\ \E v \in [Tags -> Int] : tx'[p] = [tx[p] EXCEPT !.value = v]
      BY <2>8, ApplyTagsGives, RecountGives
    <3>2. Still
      BY <2>2, <3>1, Zenon DEF Writes
    <3>3. QED
      BY <2>3, <3>1, <3>2
  <2>9. CASE ApplySeenDeltas(p)
    <3>1. /\ Apart(p) /\ UNCHANGED db /\ Outside
          /\ \E S : tx'[p] = [tx[p] EXCEPT !.sighted = S]
      BY <2>9, ApplySeenGives
    <3>2. Still
      BY <2>2, <3>1, Zenon DEF Writes
    <3>3. QED
      BY <2>3, <3>1, <3>2
  <2>10. CASE FindOrphans(p)
    <3>1. Apart(p) /\ UNCHANGED <<db, tx>> /\ Outside
      BY <2>10, FindGives
    <3>2. QED
      BY <2>3, <3>1
  <2>11. CASE DeleteOrphans(p)
    BY <2>11, RefsDelete
  <2>12. CASE Commit(p)
    BY <2>12, RefsCommit
  <2>13. CASE PersistCrash(p) \/ (Victim(p) /\ at[p].stage # "chunk")
    <3>1. Apart(p) /\ Undone(p)
      BY <2>13, UndoneGives
    <3>2. tx'[p].new = NoRows /\ tx'[p].gone = {} /\ UNCHANGED db
      BY <3>1 DEF Undone, NoWrites
    <3>3. QED
      BY <3>1, <3>2, RefsAfresh
  <2>14. CASE \E l \in Links : p \in Cleaners /\ DeleteLink(p, l)
    <3>1. /\ Apart(p) /\ UNCHANGED db
          /\ \E l : tx'[p] = [NoWrites EXCEPT !.dead = {l}]
      BY <2>14, DeleteLinkGives
    <3>2. tx'[p].new = NoRows /\ tx'[p].gone = {}
      BY <3>1 DEF NoWrites
    <3>3. QED
      BY <3>1, <3>2, RefsAfresh
  <2>15. CASE \E s \in Seasons : p \in Cleaners /\ PurgeSeason(p, s)
    BY <2>15, RefsPurge
  <2>16. QED
    BY <2>1, <2>4, <2>5, <2>6, <2>7, <2>8, <2>9, <2>10, <2>11, <2>12, <2>13, <2>14, <2>15
<1>3. QED
  BY <1>1, <1>2

-----------------------------------------------------------------------------
(* Counts of tags                                                          *)

TagsInv == NewTags /\ TagCounts /\ \A p \in Procs : Valued(p)

LEMMA CarriedLess ==
    ASSUME NEW T \in SUBSET (Seasons \X Tags), NEW S \in SUBSET T, NEW t
    PROVE  Cardinality(Carried(S, t)) <= Cardinality(Carried(T, t))
<1>1. Carried(S, t) \in SUBSET Carried(T, t)
  BY DEF Carried
<1>2. QED
  BY <1>1, CarriedFinite, FS_Subset

LEMMA CarriedSum ==
    ASSUME NEW S \in SUBSET (Seasons \X Tags), NEW T \in SUBSET (Seasons \X Tags), NEW t
    PROVE  /\ Cardinality(Carried(S \cup T, t)) <= Cardinality(Carried(S, t)) + Cardinality(Carried(T, t))
           /\ S \cap T = {} =>
                Cardinality(Carried(S \cup T, t)) = Cardinality(Carried(S, t)) + Cardinality(Carried(T, t))
<1> DEFINE A == Carried(S, t)
           B == Carried(T, t)
<1>1. Carried(S \cup T, t) = A \cup B
  BY DEF Carried
<1>2. IsFiniteSet(A) /\ IsFiniteSet(B) /\ Cardinality(A) \in Nat /\ Cardinality(B) \in Nat
  BY CarriedFinite
<1>3. S \cap T = {} => A \cap B = {}
  BY DEF Carried
<1> HIDE DEF A, B
<1>4. /\ Cardinality(A \cup B) = Cardinality(A) + Cardinality(B) - Cardinality(A \cap B)
      /\ Cardinality(A \cap B) \in Nat
  BY <1>2, FS_Union, FS_Intersection, FS_CardinalityType
<1>5. A \cap B = {} => Cardinality(A \cap B) = 0
  BY FS_EmptySet
<1>6. /\ Cardinality(A \cup B) <= Cardinality(A) + Cardinality(B)
      /\ A \cap B = {} => Cardinality(A \cup B) = Cardinality(A) + Cardinality(B)
  BY <1>2, <1>4, <1>5
<1>7. QED
  BY <1>1, <1>3, <1>6 DEF A, B

\* A count that is not wanted is of no new row.
LEMMA CarriedNone ==
    ASSUME NEW S \in SUBSET (Seasons \X Tags), NEW t, Cardinality(Carried(S, t)) = 0
    PROVE  Carried(S, t) = {}
BY CarriedFinite, FS_EmptySet

LEMMA TagsInit == PersistInit => TagsInv
<1> SUFFICES ASSUME PersistInit PROVE TagsInv
  OBVIOUS
<1>1. \A p \in Procs : /\ tx[p].new.tagged = {} /\ at[p].stage = "off"
                       /\ \A t \in Tags : tx[p].value[t] = -1
  BY DEF PersistInit, NoWrites, NoRows, Start
<1>2. NewTags
  BY <1>1 DEF NewTags
<1>3. \A p \in Procs : Valued(p)
  <2>1. \A p \in Procs : \A t \in Tags : Carried(tx[p].new.tagged, t) = {}
    BY <1>1 DEF Carried
  <2>2. \A p \in Procs : \A t \in Tags : tx[p].value[t] < 0
    BY <1>1
  <2>3. QED
    BY <2>1, <2>2, Zenon DEF Valued
<1>4. TagCounts
  <2> SUFFICES ASSUME NEW t \in Tags
               PROVE  count[t] \in Nat /\ count[t] = Cardinality({x \in db.tagged : x[2] = t})
    BY DEF TagCounts
  <2> DEFINE A == {x[1] : x \in {y \in Stock : y[3] = t}}
             B == {x \in db.tagged : x[2] = t}
             f == [s \in A |-> <<s, t>>]
  <2>1. db.tagged = {<<x[1], x[3]>> : x \in Stock}
    BY DEF PersistInit
  <2>2. f \in Bijection(A, B)
    <3>1. \A s \in A : <<s, t>> \in B
      BY <2>1
    <3>2. \A b \in B : \E s \in A : b = <<s, t>>
      BY <2>1
    <3> HIDE DEF A, B
    <3>3. f \in [A -> B] /\ \A s \in A : f[s] = <<s, t>>
      BY <3>1
    <3> HIDE DEF f
    <3>4. \A a, b \in A : f[a] = f[b] => a = b
      BY <3>3
    <3>5. \A b \in B : \E a \in A : f[a] = b
      BY <3>2, <3>3
    <3>6. QED
      BY <3>3, <3>4, <3>5 DEF Bijection, Injection, Surjection, IsInjective
  <2>3. A \in SUBSET Seasons
    BY PersistAssumption
  <2> HIDE DEF A, B, f
  <2>4. IsFiniteSet(A) /\ Cardinality(A) \in Nat
    BY <2>3, FS_Subset, FS_CardinalityType, PersistAssumption
  <2>5. Cardinality(B) = Cardinality(A)
    BY <2>2, <2>4, FS_Bijection DEF ExistsBijection
  <2>6. count[t] = Cardinality(A)
    BY DEF PersistInit, A
  <2>7. QED
    BY <2>4, <2>5, <2>6 DEF B
<1>5. QED
  BY <1>2, <1>3, <1>4 DEF TagsInv

\* A step of p that writes no new tag.
LEMMA NewTagsFrame ==
    ASSUME NewTags, NEW p \in Procs, Apart(p), db'.tagged \subseteq db.tagged,
           tx'[p].new.tagged \subseteq tx[p].new.tagged,
           at'[p].stage = "chunk" => tx'[p].new.tagged \subseteq cache'[p].tagged,
           at'[p].stage \in {"chunk", "tags"} =>
             \A t \in Tags : delta'[p].tag[t] = Cardinality(Carried(tx'[p].new.tagged, t))
    PROVE  NewTags'
<1>1. \A q \in Procs \ {p} : tx'[q] = tx[q] /\ at'[q] = at[q] /\ cache'[q] = cache[q] /\ delta'[q] = delta[q]
  BY DEF Apart
<1>2. \A q \in Procs : tx'[q].new.tagged \subseteq tx[q].new.tagged
  BY <1>1
<1>3. \A q \in Procs : tx'[q].new.tagged \cap db'.tagged = {}
  BY <1>2 DEF NewTags
<1>4. \A q \in Procs : \A z \in Procs \ {q} : tx'[q].new.tagged \cap tx'[z].new.tagged = {}
  BY <1>2 DEF NewTags
<1>5. \A q \in Procs : at'[q].stage = "chunk" => tx'[q].new.tagged \subseteq cache'[q].tagged
  BY <1>1 DEF NewTags
<1>6. \A q \in Procs : at'[q].stage \in {"chunk", "tags"} =>
        \A t \in Tags : delta'[q].tag[t] = Cardinality(Carried(tx'[q].new.tagged, t))
  BY <1>1 DEF NewTags
<1>7. QED
  BY <1>3, <1>4, <1>5, <1>6 DEF NewTags

\* Other processes see the same tags as long as nothing is committed.
LEMMA ValuedOthers ==
    ASSUME NEW p \in Procs, Apart(p), UNCHANGED <<db, removed>>, NEW q \in Procs \ {p}, Valued(q)
    PROVE  Valued(q)'
<1>1. tx'[q] = tx[q] /\ at'[q] = at[q] /\ held'[q] = held[q]
  BY DEF Apart
<1>2. SeenTagged(q)' = SeenTagged(q)
  BY <1>1 DEF SeenTagged, Alive
<1>3. QED
  BY <1>1, <1>2 DEF Valued

\* A step that commits nothing.
LEMMA TagsFrame ==
    ASSUME TagsInv, NEW p \in Procs, Apart(p), UNCHANGED <<db, count, removed>>, NewTags', Valued(p)'
    PROVE  TagsInv'
<1>1. \A q \in Procs \ {p} : Valued(q)'
  BY ValuedOthers DEF TagsInv
<1>2. TagCounts'
  BY DEF TagsInv, TagCounts
<1>3. QED
  BY <1>1, <1>2 DEF TagsInv

\* A process that has written nothing.
LEMMA TagsAfresh ==
    ASSUME TagsInv, NEW p \in Procs, Apart(p), UNCHANGED <<db, count, removed>>,
           tx'[p].new = NoRows, tx'[p].value = NoWrites.value, delta'[p] = NoDeltas
    PROVE  TagsInv'
<1>1. tx'[p].new.tagged = {} /\ \A t \in Tags : tx'[p].value[t] = -1 /\ delta'[p].tag[t] = 0
  BY DEF NoRows, NoWrites, NoDeltas
<1>2. \A t : Carried({}, t) = {}
  BY DEF Carried
<1>3. NewTags'
  <2>1. Cardinality({}) = 0
    BY FS_EmptySet
  <2>2. \A t \in Tags : delta'[p].tag[t] = Cardinality(Carried(tx'[p].new.tagged, t))
    BY <1>1, <1>2, <2>1
  <2>3. db'.tagged \subseteq db.tagged
    OBVIOUS
  <2>4. QED
    BY <1>1, <2>2, <2>3, NewTagsFrame DEF TagsInv
<1>4. Valued(p)'
  BY <1>1, <1>2 DEF Valued
<1>5. QED
  BY <1>3, <1>4, TagsFrame

\* Where nothing is valued yet.
LEMMA ValuedNone ==
    ASSUME NEW p \in Procs, Typed, Staged, Valued(p), at[p].stage = "chunk"
    PROVE  \A t \in Tags : tx[p].value[t] < 0
<1>1. held[p] = {}
  BY DEF Staged
<1>2. QED
  BY <1>1 DEF Valued

LEMMA TagsStored ==
    ASSUME Typed, Staged, TagsInv, NEW p \in Procs, ChunkStored(p)
    PROVE  TagsInv'
<1> DEFINE D == Chunk(p)
           new == New(p, D)
<1>1. /\ Apart(p) /\ UNCHANGED <<db, count, removed>>
      /\ at[p].stage = "chunk" /\ InsertWaits(p, new) = {} /\ ~Collides(p, new)
      /\ new \in Rows /\ D \in SUBSET Docs
      /\ tx'[p] = [tx[p] EXCEPT !.new = Both(@, new), !.done = @ \cup D]
      /\ cache'[p] = Both(cache[p], new)
      /\ delta'[p] = Added(delta[p], D, new)
      /\ at'[p].stage \in {"chunk", "tags"}
  BY StoredGives
<1>2. new.tagged \cap cache[p].tagged = {}
  BY DEF New
<1> HIDE DEF D, new
<1>3. tx[p] \in Writes /\ tx[p].new \in Rows /\ cache[p] \in Rows /\ delta[p] \in Deltas
  BY DEF Typed, Writes
<1>4. tx'[p].value = tx[p].value /\ tx'[p].new = Both(tx[p].new, new)
  BY <1>1, <1>3, Zenon DEF Writes
<1>5. tx'[p].new.tagged = tx[p].new.tagged \cup new.tagged /\ cache'[p].tagged = cache[p].tagged \cup new.tagged
  BY <1>1, <1>4 DEF Both
<1>6. new.tagged \cap db.tagged = {} /\ \A q \in Procs \ {p} : new.tagged \cap tx[q].new.tagged = {}
  BY <1>1 DEF InsertWaits, Collides, SameKey
<1>7. \A q \in Procs \ {p} : tx'[q] = tx[q] /\ at'[q] = at[q] /\ cache'[q] = cache[q] /\ delta'[q] = delta[q]
  BY <1>1 DEF Apart
<1>8. tx[p].new.tagged \subseteq cache[p].tagged
  BY <1>1 DEF TagsInv, NewTags
<1>9. \A t \in Tags : delta'[p].tag[t] = Cardinality(Carried(tx'[p].new.tagged, t))
  <2> SUFFICES ASSUME NEW t \in Tags
               PROVE  delta'[p].tag[t] = Cardinality(Carried(tx'[p].new.tagged, t))
    OBVIOUS
  <2>1. delta[p].tag[t] = Cardinality(Carried(tx[p].new.tagged, t))
    BY <1>1 DEF TagsInv, NewTags
  <2>2. Added(delta[p], D, new).tag[t] = delta[p].tag[t] + Cardinality(Carried(new.tagged, t))
    <3>1. delta[p] \in Deltas /\ D \in SUBSET Docs /\ new \in Rows
      BY <1>1, <1>3
    <3>2. QED
      BY <3>1, AddedTyped, Zenon
  <2>3. /\ tx[p].new.tagged \in SUBSET (Seasons \X Tags) /\ new.tagged \in SUBSET (Seasons \X Tags)
        /\ tx[p].new.tagged \cap new.tagged = {}
    BY <1>1, <1>2, <1>3, <1>8 DEF Rows
  <2>4. Cardinality(Carried(tx[p].new.tagged \cup new.tagged, t))
          = Cardinality(Carried(tx[p].new.tagged, t)) + Cardinality(Carried(new.tagged, t))
    BY <2>3, CarriedSum
  <2>5. QED
    BY <1>1, <1>5, <2>1, <2>2, <2>4
<1>10. NewTags'
  <2>1. \A q \in Procs : tx'[q].new.tagged \cap db'.tagged = {}
    BY <1>1, <1>5, <1>6, <1>7 DEF TagsInv, NewTags
  <2>2. \A q \in Procs : \A z \in Procs \ {q} : tx'[q].new.tagged \cap tx'[z].new.tagged = {}
    <3>1. \A q \in Procs : \A z \in Procs \ {q} : tx[q].new.tagged \cap tx[z].new.tagged = {}
      BY DEF TagsInv, NewTags
    <3>2. QED
      BY <1>5, <1>6, <1>7, <3>1
  <2>3. \A q \in Procs : at'[q].stage = "chunk" => tx'[q].new.tagged \subseteq cache'[q].tagged
    BY <1>5, <1>7, <1>8 DEF TagsInv, NewTags
  <2>4. \A q \in Procs : at'[q].stage \in {"chunk", "tags"} =>
          \A t \in Tags : delta'[q].tag[t] = Cardinality(Carried(tx'[q].new.tagged, t))
    BY <1>7, <1>9 DEF TagsInv, NewTags
  <2>5. QED
    BY <2>1, <2>2, <2>3, <2>4 DEF NewTags
<1>11. Valued(p)'
  <2>1. \A t \in Tags : tx[p].value[t] < 0
    BY <1>1, ValuedNone DEF TagsInv
  <2>2. \A t \in Tags : tx'[p].value[t] < 0
    BY <1>4, <2>1
  <2>3. QED
    BY <1>1, <2>2 DEF Valued
<1>12. QED
  BY <1>1, <1>10, <1>11, TagsFrame

LEMMA TagsApplied ==
    ASSUME Typed, TagsInv, NEW p \in Procs, ApplyTagDeltas(p)
    PROVE  TagsInv'
<1>1. /\ Apart(p)
      /\ UNCHANGED <<db, count, cache, delta, held, removed>>
      /\ at[p].stage = "tags" /\ at'[p].stage = "seen" /\ Wanted(p) \subseteq held[p]
  BY ApplyTagsGives
<1>2. PICK v \in [Tags -> Int] :
        /\ tx'[p] = [tx[p] EXCEPT !.value = v]
        /\ \A t \in Tags : v[t] = IF t \in Wanted(p) THEN count[t] + delta[p].tag[t] ELSE tx[p].value[t]
  BY ApplyTagsGives
<1>3. tx[p] \in Writes /\ tx[p].new \in Rows /\ db \in Rows /\ delta[p] \in Deltas
  BY DEF Typed, Writes
<1>4. tx'[p].value = v /\ tx'[p].new = tx[p].new /\ tx'[p].gone = tx[p].gone
  BY <1>2, <1>3, Zenon DEF Writes
<1>5. NewTags'
  BY <1>1, <1>4, NewTagsFrame DEF TagsInv
<1>6. SeenTagged(p)' = SeenTagged(p)
  BY <1>1, <1>4 DEF SeenTagged, Alive
<1>7. Valued(p)'
  <2> SUFFICES ASSUME NEW t \in Tags
               PROVE  LET carried == Cardinality(Carried(SeenTagged(p), t)) IN
                      IF v[t] < 0 THEN Carried(tx[p].new.tagged, t) = {}
                      ELSE /\ t \in held[p] /\ v[t] >= carried
                           /\ removed \cup tx[p].gone = {} => v[t] = carried
    BY <1>1, <1>4, <1>6 DEF Valued
  <2> DEFINE alive == Alive(db.tagged, p)
             new == tx[p].new.tagged
  <2>1. delta[p].tag[t] = Cardinality(Carried(new, t)) /\ new \cap db.tagged = {}
    BY <1>1 DEF TagsInv, NewTags
  <2>2. /\ new \in SUBSET (Seasons \X Tags) /\ db.tagged \in SUBSET (Seasons \X Tags)
        /\ alive \in SUBSET db.tagged /\ alive \in SUBSET (Seasons \X Tags)
        /\ SeenTagged(p) = alive \cup new
        /\ tx[p].gone = {} => alive = db.tagged
    BY <1>3 DEF Rows, Alive, SeenTagged
  <2>3. /\ count[t] \in Nat /\ delta[p].tag[t] \in Nat
        /\ count[t] >= Cardinality(Carried(db.tagged, t))
        /\ removed = {} => count[t] = Cardinality(Carried(db.tagged, t))
    BY <1>3 DEF Typed, Deltas, TagsInv, TagCounts, Carried
  <2> HIDE DEF alive, new
  <2>4. /\ Cardinality(Carried(new, t)) \in Nat /\ Cardinality(Carried(alive, t)) \in Nat
        /\ Cardinality(Carried(db.tagged, t)) \in Nat /\ Cardinality(Carried(SeenTagged(p), t)) \in Nat
    BY <2>2, CarriedFinite, SeenTaggedTyped
  <2>5. /\ Cardinality(Carried(alive \cup new, t))
             <= Cardinality(Carried(alive, t)) + Cardinality(Carried(new, t))
        /\ alive \cap new = {} =>
             Cardinality(Carried(alive \cup new, t)) = Cardinality(Carried(alive, t)) + Cardinality(Carried(new, t))
    BY <2>2, CarriedSum
  <2>6. Cardinality(Carried(alive, t)) <= Cardinality(Carried(db.tagged, t))
    BY <2>2, CarriedLess
  <2>7. CASE t \in Wanted(p)
    <3>1. v[t] = count[t] + delta[p].tag[t]
      BY <1>2, <2>7
    <3>2. t \in held[p]
      BY <1>1, <2>7
    <3>3. v[t] >= Cardinality(Carried(SeenTagged(p), t)) /\ ~(v[t] < 0)
      BY <2>1, <2>2, <2>3, <2>4, <2>5, <2>6, <3>1
    <3>4. ASSUME removed \cup tx[p].gone = {} PROVE v[t] = Cardinality(Carried(SeenTagged(p), t))
      <4>1. alive = db.tagged /\ alive \cap new = {} /\ removed = {}
        BY <2>1, <2>2, <3>4
      <4>2. QED
        BY <2>1, <2>2, <2>3, <2>4, <2>5, <3>1, <4>1
    <3>5. QED
      BY <3>2, <3>3, <3>4, Zenon
  <2>8. CASE t \notin Wanted(p)
    <3>1. v[t] = tx[p].value[t]
      BY <1>2, <2>8
    <3>2. delta[p].tag[t] = 0
      BY <1>1, <2>3, <2>8 DEF Wanted
    <3>3. Carried(new, t) = {}
      BY <2>1, <2>2, <3>2, CarriedNone
    <3>4. CASE tx[p].value[t] < 0
      BY <3>1, <3>3, <3>4, Zenon DEF new
    <3>5. CASE ~(tx[p].value[t] < 0)
      BY <3>1, <3>5, Zenon DEF TagsInv, Valued
    <3>6. QED
      BY <3>4, <3>5
  <2>9. QED
    BY <2>7, <2>8
<1>8. QED
  BY <1>1, <1>5, <1>7, TagsFrame

LEMMA TagsRecounted ==
    ASSUME Typed, TagsInv, NEW p \in Procs, RecountTags(p)
    PROVE  TagsInv'
<1>1. /\ Apart(p)
      /\ UNCHANGED <<db, count, cache, delta, held, removed>>
      /\ at[p].stage = "recount" /\ at'[p].stage = "commit" /\ Wanted(p) \subseteq held[p]
  BY RecountGives
<1>2. PICK v \in [Tags -> Int] :
        /\ tx'[p] = [tx[p] EXCEPT !.value = v]
        /\ \A t \in Tags : v[t] = IF t \in Wanted(p) THEN Cardinality(Carried(SeenTagged(p), t))
                                  ELSE tx[p].value[t]
  BY RecountGives
<1>3. tx[p] \in Writes
  BY DEF Typed
<1>4. tx'[p].value = v /\ tx'[p].new = tx[p].new /\ tx'[p].gone = tx[p].gone
  BY <1>2, <1>3, Zenon DEF Writes
<1>5. NewTags'
  BY <1>1, <1>4, NewTagsFrame DEF TagsInv
<1>6. SeenTagged(p)' = SeenTagged(p)
  BY <1>1, <1>4 DEF SeenTagged, Alive
<1>7. Valued(p)'
  <2> SUFFICES ASSUME NEW t \in Tags
               PROVE  LET carried == Cardinality(Carried(SeenTagged(p), t)) IN
                      IF v[t] < 0 THEN Carried(tx[p].new.tagged, t) = {}
                      ELSE /\ t \in held[p] /\ v[t] >= carried
                           /\ removed \cup tx[p].gone = {} => v[t] = carried
    BY <1>1, <1>4, <1>6 DEF Valued
  <2>1. CASE t \in Wanted(p)
    <3>1. v[t] = Cardinality(Carried(SeenTagged(p), t)) /\ t \in held[p]
      BY <1>1, <1>2, <2>1
    <3>2. v[t] \in Nat
      BY <3>1, SeenTaggedTyped, CarriedFinite
    <3>3. v[t] >= Cardinality(Carried(SeenTagged(p), t)) /\ ~(v[t] < 0)
      BY <3>1, <3>2
    <3>4. QED
      BY <3>1, <3>3, Zenon
  <2>2. CASE t \notin Wanted(p)
    <3>1. v[t] = tx[p].value[t] /\ at[p].stage \notin {"chunk", "tags"}
      BY <1>1, <1>2, <2>2
    <3>2. QED
      BY <3>1, Zenon DEF TagsInv, Valued
  <2>3. QED
    BY <2>1, <2>2
<1>8. QED
  BY <1>1, <1>5, <1>7, TagsFrame

LEMMA TagsDelete ==
    ASSUME Typed, TagsInv, NEW p \in Procs, DeleteOrphans(p)
    PROVE  TagsInv'
<1> DEFINE O == at[p].orphans
           less == Without(tx[p].new, O)
<1>1. /\ Apart(p) /\ UNCHANGED <<db, count, cache, delta, held, removed>> /\ at[p].stage = "delete"
      /\ at'[p].stage = "recount"
      /\ tx'[p] = [tx[p] EXCEPT !.gone = @ \cup at[p].orphans, !.new = Without(@, at[p].orphans)]
  BY DeleteGives
<1>2. tx[p] \in Writes /\ tx[p].new \in Rows
  BY DEF Typed, Writes
<1>3. tx'[p].gone = tx[p].gone \cup O /\ tx'[p].new = less /\ tx'[p].value = tx[p].value
  BY <1>1, <1>2, Zenon DEF Writes
<1>4. less.tagged = {x \in tx[p].new.tagged : x[1] \notin O}
  BY <1>2, Zenon DEF Without, Rows
<1> HIDE DEF O, less
<1>5. NewTags'
  <2>1. tx'[p].new.tagged \subseteq tx[p].new.tagged /\ db'.tagged \subseteq db.tagged
    BY <1>1, <1>3, <1>4
  <2>2. at'[p].stage \notin {"chunk", "tags"}
    BY <1>1
  <2>3. QED
    BY <1>1, <2>1, <2>2, NewTagsFrame DEF TagsInv
<1>6. /\ SeenTagged(p)' \in SUBSET SeenTagged(p)
      /\ O = {} => SeenTagged(p)' = SeenTagged(p)
  BY <1>1, <1>3, <1>4 DEF SeenTagged, Alive
<1>7. Valued(p)'
  <2> SUFFICES ASSUME NEW t \in Tags
               PROVE  LET carried == Cardinality(Carried(SeenTagged(p)', t)) IN
                      IF tx[p].value[t] < 0 THEN Carried(less.tagged, t) = {}
                      ELSE /\ t \in held[p] /\ tx[p].value[t] >= carried
                           /\ removed \cup tx[p].gone \cup O = {} => tx[p].value[t] = carried
    BY <1>1, <1>3 DEF Valued
  <2>1. CASE tx[p].value[t] < 0
    <3>1. Carried(tx[p].new.tagged, t) = {}
      BY <1>1, <2>1 DEF TagsInv, Valued
    <3>2. Carried(less.tagged, t) = {}
      BY <1>4, <3>1 DEF Carried
    <3>3. QED
      BY <2>1, <3>2
  <2>2. CASE ~(tx[p].value[t] < 0)
    <3>1. /\ t \in held[p] /\ tx[p].value[t] >= Cardinality(Carried(SeenTagged(p), t))
          /\ removed \cup tx[p].gone = {} => tx[p].value[t] = Cardinality(Carried(SeenTagged(p), t))
      BY <2>2 DEF TagsInv, Valued
    <3>2. SeenTagged(p) \in SUBSET (Seasons \X Tags)
      BY SeenTaggedTyped
    <3>3. Cardinality(Carried(SeenTagged(p)', t)) <= Cardinality(Carried(SeenTagged(p), t))
      BY <1>6, <3>2, CarriedLess
    <3>4. /\ Cardinality(Carried(SeenTagged(p), t)) \in Nat
          /\ Cardinality(Carried(SeenTagged(p)', t)) \in Nat
          /\ tx[p].value[t] \in Int
      BY <1>2, <1>6, <3>2, CarriedFinite DEF Writes
    <3>5. tx[p].value[t] >= Cardinality(Carried(SeenTagged(p)', t))
      BY <3>1, <3>3, <3>4
    <3>6. removed \cup tx[p].gone \cup O = {} => tx[p].value[t] = Cardinality(Carried(SeenTagged(p)', t))
      BY <1>6, <3>1
    <3>7. QED
      BY <2>2, <3>1, <3>5, <3>6, Zenon
  <2>3. QED
    BY <2>1, <2>2
<1>8. QED
  BY <1>1, <1>5, <1>7, TagsFrame

\* What another process sees of a tag that a commit or a purge of p only takes
\* rows from.
LEMMA ValuedLess ==
    ASSUME Typed, Typed', NEW p \in Procs, Apart(p), NEW q \in Procs \ {p}, Valued(q), removed \subseteq removed',
           \A t \in held[q] : Carried(db'.tagged, t) \subseteq Carried(db.tagged, t),
           removed' = {} => \A t \in held[q] : Carried(db'.tagged, t) = Carried(db.tagged, t)
    PROVE  Valued(q)'
<1>1. tx'[q] = tx[q] /\ at'[q] = at[q] /\ held'[q] = held[q]
  BY DEF Apart
<1> SUFFICES ASSUME NEW t \in Tags
             PROVE  LET carried == Cardinality(Carried(SeenTagged(q)', t)) IN
                    IF tx[q].value[t] < 0
                    THEN at[q].stage \notin {"chunk", "tags"} => Carried(tx[q].new.tagged, t) = {}
                    ELSE /\ t \in held[q] /\ tx[q].value[t] >= carried
                         /\ removed' \cup tx[q].gone = {} => tx[q].value[t] = carried
  BY <1>1 DEF Valued
<1>2. CASE tx[q].value[t] < 0
  BY <1>2, Zenon DEF Valued
<1>3. CASE ~(tx[q].value[t] < 0)
  <2>1. /\ t \in held[q] /\ tx[q].value[t] >= Cardinality(Carried(SeenTagged(q), t))
        /\ removed \cup tx[q].gone = {} => tx[q].value[t] = Cardinality(Carried(SeenTagged(q), t))
    BY <1>3 DEF Valued
  <2>2. Carried(SeenTagged(q)', t) \in SUBSET Carried(SeenTagged(q), t)
    BY <1>1, <2>1 DEF Carried, SeenTagged, Alive
  <2>3. removed' = {} => Carried(SeenTagged(q)', t) = Carried(SeenTagged(q), t)
    BY <1>1, <2>1 DEF Carried, SeenTagged, Alive
  <2>4. IsFiniteSet(Carried(SeenTagged(q), t)) /\ Cardinality(Carried(SeenTagged(q), t)) \in Nat
    BY SeenTaggedTyped, CarriedFinite
  <2>5. /\ Cardinality(Carried(SeenTagged(q)', t)) <= Cardinality(Carried(SeenTagged(q), t))
        /\ Cardinality(Carried(SeenTagged(q)', t)) \in Nat
    BY <2>2, <2>4, FS_Subset, FS_CardinalityType
  <2>6. tx[q].value[t] \in Int
    BY DEF Typed, Writes
  <2>7. tx[q].value[t] >= Cardinality(Carried(SeenTagged(q)', t))
    BY <2>1, <2>4, <2>5, <2>6
  <2>8. removed' \cup tx[q].gone = {} => tx[q].value[t] = Cardinality(Carried(SeenTagged(q)', t))
    BY <2>1, <2>3
  <2>9. QED
    BY <1>3, <2>1, <2>7, <2>8, Zenon
<1>4. QED
  BY <1>2, <1>3

LEMMA TagsPurge ==
    ASSUME Typed, Staged, TagsInv, NEW c \in Cleaners, NEW s \in Seasons, PurgeSeason(c, s)
    PROVE  TagsInv'
<1>1. /\ Typed' /\ Apart(c) /\ UNCHANGED <<count, tx, cache, delta>>
      /\ at[c].stage = "off" /\ at'[c].stage = "recount"
      /\ removed' = removed \cup {s} /\ db'.tagged = {x \in db.tagged : x[1] # s}
  BY PurgeGives
<1>2. c \in Procs
  BY DEF Procs
<1>3. tx[c].new.tagged = {} /\ \A t \in Tags : tx[c].value[t] < 0
  <2>1. tx[c] = NoWrites
    BY <1>1, <1>2 DEF Staged
  <2>2. QED
    BY <2>1 DEF NoWrites, NoRows
<1>4. NewTags'
  <2>1. at'[c].stage \notin {"chunk", "tags"} /\ db'.tagged \subseteq db.tagged
    BY <1>1
  <2>2. QED
    BY <1>1, <1>2, <2>1, NewTagsFrame DEF TagsInv
<1>5. \A t : Carried(db'.tagged, t) \subseteq Carried(db.tagged, t)
  BY <1>1 DEF Carried
<1>6. \A q \in Procs : Valued(q)'
  <2>1. ASSUME NEW q \in Procs \ {c} PROVE Valued(q)'
    <3>1. Valued(q) /\ removed \subseteq removed' /\ removed' # {}
      BY <1>1 DEF TagsInv
    <3>2. QED
      BY <1>1, <1>2, <1>5, <3>1, ValuedLess
  <2>2. Valued(c)'
    <3>1. \A t : Carried({}, t) = {}
      BY DEF Carried
    <3>2. QED
      BY <1>1, <1>3, <3>1 DEF Valued
  <2>3. QED
    BY <2>1, <2>2
<1>7. TagCounts'
  <2> SUFFICES ASSUME NEW t \in Tags
               PROVE  count[t] >= Cardinality(Carried(db'.tagged, t))
    BY <1>1 DEF TagCounts, Carried
  <2>1. db.tagged \in SUBSET (Seasons \X Tags) /\ db'.tagged \in SUBSET db.tagged
    BY <1>1 DEF Typed, Rows
  <2>2. /\ Cardinality(Carried(db'.tagged, t)) <= Cardinality(Carried(db.tagged, t))
        /\ Cardinality(Carried(db'.tagged, t)) \in Nat /\ Cardinality(Carried(db.tagged, t)) \in Nat
    BY <2>1, CarriedLess, CarriedFinite
  <2>3. count[t] >= Cardinality(Carried(db.tagged, t)) /\ count[t] \in Nat
    BY DEF TagsInv, TagCounts, Carried, Typed
  <2>4. QED
    BY <2>2, <2>3
<1>8. QED
  BY <1>4, <1>6, <1>7 DEF TagsInv

LEMMA TagsCommit ==
    ASSUME Typed, Locks, TagsInv, NEW p \in Procs, Commit(p)
    PROVE  TagsInv'
<1>1. /\ Typed' /\ Apart(p) /\ Written(p) /\ at[p].stage = "commit"
      /\ at'[p].stage \in {"off", "through"} /\ tx'[p] = NoWrites
  BY CommitGives
<1>2. tx'[p].new.tagged = {} /\ \A t \in Tags : tx'[p].value[t] < 0
  BY <1>1 DEF NoWrites, NoRows
<1>3. /\ db'.tagged = SeenTagged(p) /\ removed' = removed \cup tx[p].gone
      /\ \A t \in Tags : count'[t] = IF tx[p].value[t] >= 0 THEN tx[p].value[t] ELSE count[t]
  BY <1>1 DEF Written, Left
<1>4. \A q \in Procs \ {p} : tx'[q] = tx[q] /\ at'[q] = at[q] /\ cache'[q] = cache[q] /\ delta'[q] = delta[q]
  BY <1>1 DEF Apart
<1>5. tx[p] \in Writes /\ tx[p].new \in Rows /\ tx[p].value \in [Tags -> Int] /\ db \in Rows
  BY DEF Typed, Writes
<1>6. NewTags'
  <2>1. db'.tagged \subseteq db.tagged \cup tx[p].new.tagged
    BY <1>3 DEF SeenTagged, Alive
  <2>2. \A q \in Procs : tx'[q].new.tagged \cap db'.tagged = {}
    BY <1>2, <1>4, <2>1 DEF TagsInv, NewTags
  <2>3. \A q \in Procs : \A z \in Procs \ {q} : tx'[q].new.tagged \cap tx'[z].new.tagged = {}
    BY <1>2, <1>4 DEF TagsInv, NewTags
  <2>4. \A q \in Procs : at'[q].stage = "chunk" => tx'[q].new.tagged \subseteq cache'[q].tagged
    BY <1>1, <1>4 DEF TagsInv, NewTags
  <2>5. \A q \in Procs : at'[q].stage \in {"chunk", "tags"} =>
          \A t \in Tags : delta'[q].tag[t] = Cardinality(Carried(tx'[q].new.tagged, t))
    BY <1>1, <1>4 DEF TagsInv, NewTags
  <2>6. QED
    BY <2>2, <2>3, <2>4, <2>5 DEF NewTags
<1>7. \A t \in Tags : tx[p].value[t] < 0 => Carried(tx[p].new.tagged, t) = {}
  BY <1>1 DEF TagsInv, Valued
<1>8. \A t \in Tags : ~(tx[p].value[t] < 0) => t \in held[p]
  BY DEF TagsInv, Valued
<1>9. \A t \in Tags : tx[p].value[t] < 0 =>
        /\ Carried(db'.tagged, t) \subseteq Carried(db.tagged, t)
        /\ tx[p].gone = {} => Carried(db'.tagged, t) = Carried(db.tagged, t)
  BY <1>3, <1>7 DEF SeenTagged, Alive, Carried
<1>10. \A q \in Procs : Valued(q)'
  <2>1. ASSUME NEW q \in Procs \ {p} PROVE Valued(q)'
    <3>1. \A t \in held[q] : t \in Tags /\ tx[p].value[t] < 0
      BY <1>8 DEF Locks, Typed
    <3>2. /\ \A t \in held[q] : Carried(db'.tagged, t) \subseteq Carried(db.tagged, t)
          /\ removed' = {} => \A t \in held[q] : Carried(db'.tagged, t) = Carried(db.tagged, t)
      BY <1>3, <1>9, <3>1
    <3>3. Valued(q) /\ removed \subseteq removed'
      BY <1>3 DEF TagsInv
    <3>4. QED
      BY <1>1, <3>2, <3>3, ValuedLess
  <2>2. Valued(p)'
    <3>1. \A t : Carried({}, t) = {}
      BY DEF Carried
    <3>2. QED
      BY <1>2, <3>1 DEF Valued
  <2>3. QED
    BY <2>1, <2>2
<1>11. TagCounts'
  <2> SUFFICES ASSUME NEW t \in Tags
               PROVE  /\ count'[t] >= Cardinality(Carried(db'.tagged, t))
                      /\ removed' = {} => count'[t] = Cardinality(Carried(db'.tagged, t))
    BY DEF TagCounts, Carried
  <2>1. CASE tx[p].value[t] < 0
    <3>1. count'[t] = count[t] /\ count[t] \in Nat
      BY <1>3, <1>5, <2>1 DEF Typed
    <3>2. /\ count[t] >= Cardinality(Carried(db.tagged, t))
          /\ removed = {} => count[t] = Cardinality(Carried(db.tagged, t))
      BY DEF TagsInv, TagCounts, Carried
    <3>3. IsFiniteSet(Carried(db.tagged, t)) /\ Cardinality(Carried(db.tagged, t)) \in Nat
      BY <1>5, CarriedFinite DEF Rows
    <3>4. Carried(db'.tagged, t) \in SUBSET Carried(db.tagged, t)
      BY <1>9, <2>1
    <3>5. /\ Cardinality(Carried(db'.tagged, t)) <= Cardinality(Carried(db.tagged, t))
          /\ Cardinality(Carried(db'.tagged, t)) \in Nat
      BY <3>3, <3>4, FS_Subset, FS_CardinalityType
    <3>6. removed' = {} => removed = {} /\ Carried(db'.tagged, t) = Carried(db.tagged, t)
      BY <1>3, <1>9, <2>1
    <3>7. count'[t] >= Cardinality(Carried(db'.tagged, t))
      BY <3>1, <3>2, <3>3, <3>5
    <3>8. removed' = {} => count'[t] = Cardinality(Carried(db'.tagged, t))
      BY <3>1, <3>2, <3>6
    <3>9. QED
      BY <3>7, <3>8
  <2>2. CASE ~(tx[p].value[t] < 0)
    <3>1. count'[t] = tx[p].value[t]
      BY <1>3, <1>5, <2>2
    <3>2. /\ tx[p].value[t] >= Cardinality(Carried(SeenTagged(p), t))
          /\ removed \cup tx[p].gone = {} => tx[p].value[t] = Cardinality(Carried(SeenTagged(p), t))
      BY <2>2 DEF TagsInv, Valued
    <3>3. QED
      BY <1>3, <3>1, <3>2
  <2>3. QED
    BY <2>1, <2>2
<1>12. QED
  BY <1>6, <1>10, <1>11 DEF TagsInv

LEMMA TagsNext == Typed /\ Staged /\ Locks /\ RefsInv /\ TagsInv /\ [PersistNext]_persist => TagsInv'
<1> SUFFICES ASSUME Typed, Staged, Locks, RefsInv, TagsInv, [PersistNext]_persist PROVE TagsInv'
  OBVIOUS
<1>1. CASE UNCHANGED persist
  <2>1. UNCHANGED <<db, count, at, tx, cache, delta, held, removed>>
    BY <1>1 DEF persist
  <2>2. \A p : SeenTagged(p)' = SeenTagged(p)
    BY <2>1 DEF SeenTagged, Alive
  <2>3. NewTags' /\ TagCounts'
    BY <2>1 DEF TagsInv, NewTags, TagCounts
  <2>4. \A p \in Procs : Valued(p)'
    BY <2>1, <2>2 DEF TagsInv, Valued
  <2>5. QED
    BY <2>3, <2>4 DEF TagsInv
<1>2. CASE PersistNext
  <2>1. PICK p \in Procs :
             \/ p \in Parsers /\ Preload(p)
             \/ ChunkStored(p)
             \/ ChunkCollides(p) \/ ChunkRaises(p)
             \/ LockTag(p) \/ ApplyTagDeltas(p) \/ RecountTags(p)
             \/ ApplySeenDeltas(p) \/ FindOrphans(p) \/ DeleteOrphans(p)
             \/ Commit(p)
             \/ PersistCrash(p) \/ (Victim(p) /\ at[p].stage # "chunk")
             \/ \E l \in Links : p \in Cleaners /\ DeleteLink(p, l)
             \/ \E s \in Seasons : p \in Cleaners /\ PurgeSeason(p, s)
    BY <1>2, Steps
  <2> DEFINE Still == tx'[p].new = tx[p].new /\ tx'[p].gone = tx[p].gone /\ tx'[p].value = tx[p].value
             Counting(stage) == stage \in {"chunk", "tags"}
  <2>2. tx[p] \in Writes
    BY DEF Typed
  <2>3. ASSUME Apart(p), UNCHANGED <<db, count, removed, delta>>, Still, held[p] \subseteq held'[p],
               Counting(at'[p].stage) <=> Counting(at[p].stage),
               at'[p].stage = "chunk" => tx[p].new.tagged \subseteq cache'[p].tagged
        PROVE  TagsInv'
    <3>1. NewTags'
      <4>1. \A t \in Tags : Counting(at'[p].stage) =>
              delta'[p].tag[t] = Cardinality(Carried(tx'[p].new.tagged, t))
        BY <2>3 DEF TagsInv, NewTags
      <4>2. QED
        BY <2>3, <4>1, NewTagsFrame DEF TagsInv
    <3>2. SeenTagged(p)' = SeenTagged(p)
      BY <2>3 DEF SeenTagged, Alive
    <3>3. Valued(p)'
      BY <2>3, <3>2 DEF TagsInv, Valued
    <3>4. QED
      BY <2>3, <3>1, <3>3, TagsFrame
  <2>4. CASE p \in Parsers /\ Preload(p)
    <3>1. /\ Apart(p) /\ UNCHANGED <<db, count, removed, delta>> /\ at[p].stage = "off"
          /\ \E D \in SUBSET Docs : tx'[p] = [NoWrites EXCEPT !.charged = D]
      BY <2>4, PreloadGives
    <3>2. tx'[p].new = NoRows /\ tx'[p].value = NoWrites.value
      BY <3>1 DEF NoWrites
    <3>3. delta'[p] = NoDeltas
      BY <3>1 DEF Staged
    <3>4. QED
      BY <3>1, <3>2, <3>3, TagsAfresh
  <2>5. CASE ChunkStored(p)
    BY <2>5, TagsStored
  <2>6. CASE ChunkCollides(p) \/ ChunkRaises(p)
    <3>1. /\ Apart(p) /\ UNCHANGED <<db, count, removed, delta, held>>
          /\ at[p].stage = "chunk" /\ at'[p].stage \in {"chunk", "tags"}
          /\ \E D \in SUBSET Docs : tx'[p] = [tx[p] EXCEPT !.charged = D]
      BY <2>6, BackGives
    <3>2. PICK dropped \in SUBSET Seasons : Dropped(p, cache'[p], dropped)
      BY <2>6, BackGives
    <3>3. Still
      BY <2>2, <3>1, Zenon DEF Writes
    <3>4. \A x \in tx[p].new.tagged : x[1] \notin dropped
      <4>1. \A x \in tx[p].new.tagged : x[1] \in ReferencedSeasons(tx[p].new)
        BY DEF ReferencedSeasons
      <4>2. QED
        BY <3>1, <3>2, <4>1 DEF Dropped, RefsInv, References
    <3>5. tx[p].new.tagged \subseteq cache'[p].tagged
      BY <3>1, <3>2, <3>4 DEF Dropped, TagsInv, NewTags
    <3>6. QED
      BY <2>3, <3>1, <3>3, <3>5
  <2>7. CASE LockTag(p)
    <3>1. /\ Apart(p) /\ UNCHANGED <<db, count, at, tx, cache, delta, removed>>
          /\ held[p] \subseteq held'[p]
      BY <2>7, LockGives
    <3>2. at'[p].stage = "chunk" => tx[p].new.tagged \subseteq cache'[p].tagged
      BY <3>1 DEF TagsInv, NewTags
    <3>3. QED
      BY <2>3, <3>1, <3>2
  <2>8. CASE ApplyTagDeltas(p) \/ RecountTags(p)
    BY <2>8, TagsApplied, TagsRecounted
  <2>9. CASE ApplySeenDeltas(p)
    <3>1. /\ Apart(p) /\ UNCHANGED <<db, count, removed, delta, held>>
          /\ at[p].stage = "seen" /\ at'[p].stage = "orphans"
          /\ \E S : tx'[p] = [tx[p] EXCEPT !.sighted = S]
      BY <2>9, ApplySeenGives
    <3>2. Still
      BY <2>2, <3>1, Zenon DEF Writes
    <3>3. QED
      BY <2>3, <3>1, <3>2
  <2>10. CASE FindOrphans(p)
    <3>1. /\ Apart(p) /\ UNCHANGED <<db, count, removed, tx, delta, held>>
          /\ at[p].stage = "orphans" /\ at'[p].stage \in {"commit", "delete"}
      BY <2>10, FindGives
    <3>2. QED
      BY <2>3, <3>1
  <2>11. CASE DeleteOrphans(p)
    BY <2>11, TagsDelete
  <2>12. CASE Commit(p)
    BY <2>12, TagsCommit
  <2>13. CASE PersistCrash(p) \/ (Victim(p) /\ at[p].stage # "chunk")
    <3>1. Apart(p) /\ Undone(p)
      BY <2>13, UndoneGives
    <3>2. /\ tx'[p].new = NoRows /\ tx'[p].value = NoWrites.value /\ delta'[p] = NoDeltas
          /\ UNCHANGED <<db, count, removed>>
      BY <3>1 DEF Undone, NoWrites
    <3>3. QED
      BY <3>1, <3>2, TagsAfresh
  <2>14. CASE \E l \in Links : p \in Cleaners /\ DeleteLink(p, l)
    <3>1. /\ Apart(p) /\ UNCHANGED <<db, count, removed, delta>> /\ at[p].stage = "off"
          /\ \E l : tx'[p] = [NoWrites EXCEPT !.dead = {l}]
      BY <2>14, DeleteLinkGives
    <3>2. tx'[p].new = NoRows /\ tx'[p].value = NoWrites.value
      BY <3>1 DEF NoWrites
    <3>3. delta'[p] = NoDeltas
      BY <3>1 DEF Staged
    <3>4. QED
      BY <3>1, <3>2, <3>3, TagsAfresh
  <2>15. CASE \E s \in Seasons : p \in Cleaners /\ PurgeSeason(p, s)
    BY <2>15, TagsPurge
  <2>16. QED
    BY <2>1, <2>4, <2>5, <2>6, <2>7, <2>8, <2>9, <2>10, <2>11, <2>12, <2>13, <2>14, <2>15
<1>3. QED
  BY <1>1, <1>2

\* The count of a tag never falls below the number of seasons that carry it,
\* and is that number until a season is removed: no parser's delta and no
\* cleaner's count is lost to another.
THEOREM NoCountLost == PersistSpec => []TagCounts
<1>1. TagsInv => TagCounts
  BY DEF TagsInv
<1>2. QED
  BY <1>1, TypedInit, TypedNext, StagedInit, StagedNext, LocksInit, LocksNext, RefsInit, RefsNext,
     TagsInit, TagsNext, PTL DEF PersistSpec

-----------------------------------------------------------------------------
(* Identities: ranks and survivors                                         *)

\* A set of rows is finite and consists of numbers.
LEMMA SomeRows ==
    ASSUME NEW S \in SUBSET MediaRows
    PROVE  IsFiniteSet(S) /\ S \subseteq Nat /\ Cardinality(S) \in Nat
BY IdentitiesAssumption, FS_Subset, FS_CardinalityType

Upto(S, r) == {q \in S : q <= r}

\* The parking places of a group differ, and there are as many as members.
LEMMA Ranks ==
    ASSUME NEW S \in SUBSET MediaRows
    PROVE  /\ \A r \in S : Cardinality(Upto(S, r)) \in 1..Cardinality(S)
           /\ \A r, q \in S : Cardinality(Upto(S, r)) = Cardinality(Upto(S, q)) => r = q
<1>1. \A r \in S : Upto(S, r) \in SUBSET S /\ r \in Upto(S, r)
  BY SomeRows DEF Upto
<1>2. ASSUME NEW r \in S
      PROVE  Cardinality(Upto(S, r)) \in 1..Cardinality(S)
  <2>1. IsFiniteSet(Upto(S, r)) /\ Cardinality(Upto(S, r)) <= Cardinality(S)
    BY <1>1, SomeRows, FS_Subset
  <2>2. Cardinality(Upto(S, r)) # 0
    BY <1>1, <2>1, FS_EmptySet
  <2>3. Cardinality(Upto(S, r)) \in Nat /\ Cardinality(S) \in Nat
    BY <2>1, SomeRows, FS_CardinalityType
  <2>4. QED
    BY <2>1, <2>2, <2>3
<1>3. ASSUME NEW r \in S, NEW q \in S, r < q
      PROVE  Cardinality(Upto(S, r)) # Cardinality(Upto(S, q))
  <2>1. Upto(S, r) \in SUBSET Upto(S, q) /\ q \notin Upto(S, r) /\ q \in Upto(S, q)
    BY <1>3, SomeRows DEF Upto
  <2>2. IsFiniteSet(Upto(S, q))
    BY <1>1, SomeRows, FS_Subset
  <2>3. QED
    BY <2>1, <2>2, FS_Subset
<1>4. ASSUME NEW r \in S, NEW q \in S, Cardinality(Upto(S, r)) = Cardinality(Upto(S, q))
      PROVE  r = q
  <2>1. r \in Nat /\ q \in Nat
    BY SomeRows
  <2>2. ~(r < q) /\ ~(q < r)
    BY <1>3, <1>4
  <2>3. QED
    BY <2>1, <2>2
<1>5. QED
  BY <1>2, <1>4

LinksOK == DOMAIN links = MediaRows /\ \A r \in MediaRows : IsFiniteSet(links[r])

\* q is preferred to r.
Beats(q, r) ==
    \/ Cardinality(links[q]) > Cardinality(links[r])
    \/ Cardinality(links[q]) = Cardinality(links[r]) /\ q > r

\* pick_survivor picks a member of the group: one that no other one beats.
LEMMA SurvivorIsMember ==
    ASSUME LinksOK, NEW S \in SUBSET MediaRows, S # {}
    PROVE  Survivor(S) \in S
<1> DEFINE Above(x) == {y \in S : Beats(y, x)}
           T == {Above(x) : x \in S}
<1>1. \A x \in S : x \in Nat /\ Cardinality(links[x]) \in Nat
  BY SomeRows, FS_CardinalityType DEF LinksOK
<1>2. IsWellFoundedOn(StrictSubsetOrdering(S), SUBSET S)
  BY SomeRows, FS_FiniteSubsetsOfFinite, FS_StrictSubsetOrderingWellFounded
<1>3. T \subseteq SUBSET S /\ T # {}
  OBVIOUS
<1>4. PICK U \in T : \A V \in T : ~ (<<V, U>> \in StrictSubsetOrdering(S))
  <2> HIDE DEF T
  <2> QED
    BY <1>2, <1>3, WFMin
<1>5. PICK x \in S : U = Above(x)
  OBVIOUS
<1>6. ASSUME NEW y \in S, Beats(y, x)
      PROVE  FALSE
  <2>1. Above(y) \in T /\ Above(y) \subseteq S /\ Above(x) \subseteq S
    OBVIOUS
  <2>2. \A z \in S : Beats(z, y) => Beats(z, x)
    BY <1>1, <1>6 DEF Beats
  <2>3. y \in Above(x) /\ y \notin Above(y)
    BY <1>1, <1>6 DEF Beats
  <2>4. Above(y) \subseteq Above(x)
    BY <2>2
  <2> HIDE DEF T, Above
  <2>5. <<Above(y), Above(x)>> \in StrictSubsetOrdering(S)
    BY <2>1, <2>3, <2>4 DEF StrictSubsetOrdering
  <2>6. QED
    BY <2>1, <2>5, <1>4, <1>5
<1>7. \A y \in S \ {x} : Beats(x, y)
  BY <1>1, <1>6 DEF Beats
<1>8. QED
  BY <1>7 DEF Survivor, Beats
-----------------------------------------------------------------------------
(* Types                                                                   *)

Seat == (Works \X Int) \cup {Nowhere}
SeatsOK == sits \in [MediaRows -> Seat]
PlanOK == plan \in [MediaRows -> Places \cup {Nowhere}]
TallyOK == tally \in [MediaRows -> Nat]
Runs == [stage : {"batch", "start", "pass", "merge", "raised", "works", "end"},
         batch : Nat \ {0}, pass : Nat \ {0}, todo : SUBSET MediaRows, found : [MediaRows -> Seat],
         groups : SUBSET Places, blocked : SUBSET MediaRows, parked : Nat,
         survivor : Nat, losers : SUBSET MediaRows, wrote : SUBSET MediaRows,
         touched : SUBSET Works, merged : SUBSET MediaRows, vanished : SUBSET MediaRows]
RunOK == run \in Runs

\* In the middle of a pass.
Working == run.stage \in {"pass", "merge"}

\* The rows and groups of a pass are those of the batch, and none are left over.
GroupsOK ==
    /\ run.todo \subseteq {r \in MediaRows : plan[r] # Nowhere} /\ run.blocked \subseteq run.todo
    /\ run.groups \subseteq {plan[r] : r \in run.todo}
    /\ ~Working => run.groups = {}
    /\ run.stage = "batch" => run.blocked = {}
    /\ run.stage = "merge" => run.survivor \notin run.losers

RowsTyped == SeatsOK /\ PlanOK /\ LinksOK /\ TallyOK /\ RunOK /\ GroupsOK

\* Places are seats that are not parking places, and none of them is Nowhere.
LEMMA PlacesAreSeats ==
    /\ \A p \in Places : p \in Seat /\ p[1] \in Works /\ p[2] \in Nat /\ p # Nowhere
    /\ \A r \in MediaRows : Home[r] \in Seat /\ Home[r] # Nowhere /\ Home[r][2] \in Nat
    /\ \A s \in Seat : s # Nowhere => s[1] \in Works /\ s[2] \in Int
<1>1. \A p \in Works \X Nat : /\ p \in Seat /\ p[1] \in Works /\ p[2] \in Nat /\ p # Nowhere
  BY DEF Seat, Nowhere
<1>2. Places \subseteq Works \X Nat /\ Home \in [MediaRows -> Works \X Nat]
  BY IdentitiesAssumption
<1>3. \A s \in Seat : s # Nowhere => s[1] \in Works /\ s[2] \in Int
  BY DEF Seat
<1>4. QED
  BY <1>1, <1>2, <1>3

LEMMA RowsTypedInit == IdentitiesInit => RowsTyped
<1> SUFFICES ASSUME IdentitiesInit PROVE RowsTyped
  OBVIOUS
<1>1. Home \in [MediaRows -> Seat]
  <2>1. Home \in [MediaRows -> Works \X Nat]
    BY IdentitiesAssumption
  <2>2. QED
    BY <2>1, PlacesAreSeats, Zenon
<1>2. LinksOK
  BY IdentitiesAssumption, Zenon DEF IdentitiesInit, LinksOK
<1>3. TallyOK
  BY IdentitiesAssumption, FS_CardinalityType DEF IdentitiesInit, TallyOK
<1>4. SeatsOK /\ PlanOK
  BY <1>1, Zenon DEF IdentitiesInit, SeatsOK, PlanOK
<1>5. RunOK
  BY <1>1 DEF IdentitiesInit, RunOK, Runs
<1>6. GroupsOK
  BY DEF IdentitiesInit, GroupsOK, Working
<1>7. QED
  BY <1>2, <1>3, <1>4, <1>5, <1>6 DEF RowsTyped

LEMMA TypedBegin == RowsTyped /\ BeginBatch => RowsTyped'
<1> SUFFICES ASSUME RowsTyped, BeginBatch PROVE RowsTyped'
  OBVIOUS
<1> DEFINE rows == {r \in Batches[run.batch] : plan[r] # Nowhere}
<1>1. UNCHANGED <<sits, plan, links, tally>>
  BY Zenon DEF BeginBatch
<1>2. rows \in SUBSET {r \in MediaRows : plan[r] # Nowhere}
  <2>1. run.batch \in 1..Len(Batches)
    BY IdentitiesAssumption DEF BeginBatch, RowsTyped, RunOK, Runs
  <2>2. QED
    BY <2>1, IdentitiesAssumption
<1>3. WorksOf(rows) \in SUBSET Works
  BY PlacesAreSeats DEF WorksOf, Living, RowsTyped, SeatsOK
<1> HIDE DEF rows
<1>4. run' = [run EXCEPT !.stage = "start", !.pass = 1, !.todo = rows, !.parked = 0, !.wrote = {},
                         !.touched = @ \cup WorksOf(rows)]
  BY Zenon DEF BeginBatch, TouchedAtFirst, rows
<1>5. RunOK' /\ run'.todo = rows /\ run'.blocked = run.blocked /\ run'.groups = run.groups
      /\ run'.stage = "start"
  <2>1. run \in Runs
    BY Zenon DEF RowsTyped, RunOK
  <2>2. /\ rows \in SUBSET MediaRows /\ {} \in SUBSET MediaRows /\ 0 \in Nat /\ 1 \in Nat \ {0}
        /\ run.touched \cup WorksOf(rows) \in SUBSET Works
    BY <1>2, <1>3, <2>1 DEF Runs
  <2>3. QED
    BY <1>4, <2>1, <2>2, Zenon DEF RunOK, Runs
<1>6. GroupsOK'
  BY <1>1, <1>2, <1>5 DEF RowsTyped, GroupsOK, Working, BeginBatch
<1>7. QED
  BY <1>1, <1>5, <1>6, Zenon DEF RowsTyped, SeatsOK, PlanOK, LinksOK, TallyOK

LEMMA TypedStart == RowsTyped /\ StartPass => RowsTyped'
<1> SUFFICES ASSUME RowsTyped, StartPass PROVE RowsTyped'
  OBVIOUS
<1> DEFINE gs == {plan[r] : r \in run.todo}
<1>1. UNCHANGED <<sits, plan, links, tally>>
  BY Zenon DEF StartPass
<1>2. gs \in SUBSET Places
  BY DEF RowsTyped, PlanOK, GroupsOK
<1>3. run' = [run EXCEPT !.stage = "pass", !.found = sits, !.blocked = {}, !.groups = gs]
  BY Zenon DEF StartPass
<1> HIDE DEF gs
<1>4. RunOK' /\ run'.todo = run.todo /\ run'.blocked = {} /\ run'.groups = gs
      /\ run'.stage = "pass"
  BY <1>2, <1>3 DEF RowsTyped, RunOK, Runs, SeatsOK
<1>5. GroupsOK'
  BY <1>1, <1>4 DEF RowsTyped, GroupsOK, Working, gs
<1>6. QED
  BY <1>1, <1>4, <1>5, Zenon DEF RowsTyped, SeatsOK, PlanOK, LinksOK, TallyOK

LEMMA TypedEnd == RowsTyped /\ EndPass => RowsTyped'
<1> SUFFICES ASSUME RowsTyped, EndPass PROVE RowsTyped'
  OBVIOUS
<1>1. UNCHANGED <<sits, plan, links, tally>>
  BY Zenon DEF EndPass
<1>2. /\ RunOK' /\ run'.groups = {} /\ run'.blocked = run.blocked
      /\ run.blocked # {} => run'.todo = run.blocked /\ run'.stage \in {"raised", "start"}
      /\ run.blocked = {} => run'.todo = run.todo /\ run'.stage = "batch"
  <2>1. run \in Runs /\ run.groups = {}
    BY Zenon DEF RowsTyped, RunOK, EndPass
  <2>2. run.pass + 1 \in Nat \ {0} /\ run.batch + 1 \in Nat \ {0} /\ run.blocked \in SUBSET MediaRows
    BY <2>1 DEF Runs
  <2>3. CASE run.blocked # {}
    <3> DEFINE stage == IF run.pass = 3 THEN "raised" ELSE "start"
    <3>1. run' = [run EXCEPT !.stage = stage, !.pass = @ + 1, !.todo = run.blocked]
      BY <2>3, Zenon DEF EndPass
    <3>2. stage \in {"raised", "start"}
      OBVIOUS
    <3> HIDE DEF stage
    <3>3. QED
      BY <2>1, <2>2, <2>3, <3>1, <3>2, Zenon DEF RunOK, Runs
  <2>4. CASE run.blocked = {}
    <3>1. run' = [run EXCEPT !.stage = "batch", !.batch = @ + 1]
      BY <2>4, Zenon DEF EndPass
    <3>2. QED
      BY <2>1, <2>2, <2>4, <3>1, Zenon DEF RunOK, Runs
  <2>5. QED
    BY <2>3, <2>4
<1>3. GroupsOK'
  BY <1>1, <1>2 DEF RowsTyped, GroupsOK
<1>4. QED
  BY <1>1, <1>2, <1>3, Zenon DEF RowsTyped, SeatsOK, PlanOK, LinksOK, TallyOK

\* What parking a group does.
LEMMA ParkGives ==
    ASSUME RowsTyped, NEW identity \in run.groups, Park(identity)
    PROVE  /\ Members(identity) \in SUBSET run.todo /\ run.todo \in SUBSET MediaRows
           /\ \A r \in MediaRows :
                sits'[r] = IF r \in Members(identity) /\ sits[r] # Nowhere
                           THEN <<sits[r][1], -(run.parked + Cardinality(Upto(Members(identity), r)))>>
                           ELSE sits[r]
           /\ run'.stage = run.stage /\ run'.pass = run.pass /\ run'.batch = run.batch
           /\ run'.todo = run.todo /\ run'.found = run.found /\ run'.groups = run.groups \ {identity}
           /\ run'.blocked = run.blocked \cup Members(identity)
           /\ run'.parked = run.parked + Cardinality(Members(identity))
           /\ run'.losers = run.losers /\ run'.survivor = run.survivor
           /\ run'.vanished = run.vanished /\ run'.merged = run.merged
           /\ RunOK' /\ UNCHANGED <<links, tally, books, plan>>
<1> DEFINE M == Members(identity)
<1>1. M \in SUBSET run.todo /\ run.todo \in SUBSET MediaRows /\ identity \in Places
      /\ identity[1] \in Works
  BY PlacesAreSeats DEF RowsTyped, RunOK, Runs, Members
<1>2. Cardinality(M) \in Nat
  BY <1>1, SomeRows
<1>3. sits' = Parked(identity)
  BY Zenon DEF Park
<1>4. \A r \in MediaRows :
        sits'[r] = IF r \in M /\ sits[r] # Nowhere
                   THEN <<sits[r][1], -(run.parked + Cardinality(Upto(M, r)))>>
                   ELSE sits[r]
  BY <1>3, Zenon DEF Parked, Living, Upto
<1>5. run' = [run EXCEPT !.groups = @ \ {identity}, !.blocked = @ \cup M,
                         !.parked = @ + Cardinality(M),
                         !.wrote = @ \cup M, !.touched = @ \cup {identity[1]}]
  BY Zenon DEF Park
<1> HIDE DEF M
<1>5a. run \in Runs
  BY Zenon DEF RowsTyped, RunOK
<1>6. /\ run'.stage = run.stage /\ run'.pass = run.pass /\ run'.batch = run.batch
      /\ run'.todo = run.todo /\ run'.found = run.found /\ run'.groups = run.groups \ {identity}
      /\ run'.blocked = run.blocked \cup M /\ run'.parked = run.parked + Cardinality(M)
      /\ run'.losers = run.losers /\ run'.survivor = run.survivor
      /\ run'.vanished = run.vanished /\ run'.merged = run.merged
  BY <1>5a, <1>5, Zenon DEF Runs
<1>6a. RunOK'
  <2>1. /\ run.groups \ {identity} \in SUBSET Places /\ run.blocked \cup M \in SUBSET MediaRows
        /\ run.parked + Cardinality(M) \in Nat /\ run.wrote \cup M \in SUBSET MediaRows
        /\ run.touched \cup {identity[1]} \in SUBSET Works
    BY <1>5a, <1>1, <1>2 DEF Runs
  <2>2. QED
    BY <1>5a, <2>1, <1>5, Zenon DEF Runs, RunOK
<1>7. UNCHANGED <<links, tally, books, plan>>
  BY Zenon DEF Park
<1>8. QED
  BY <1>1, <1>4, <1>6, <1>6a, <1>7, Zenon DEF M

LEMMA TypedPark ==
    ASSUME RowsTyped, Working, NEW identity \in run.groups, Park(identity) PROVE RowsTyped'
<1> DEFINE M == Members(identity)
<1>1. /\ \A r \in MediaRows :
           sits'[r] = IF r \in M /\ sits[r] # Nowhere
                      THEN <<sits[r][1], -(run.parked + Cardinality(Upto(M, r)))>>
                      ELSE sits[r]
      /\ M \in SUBSET MediaRows /\ M \subseteq run.todo
  BY ParkGives
<1>2. \A r \in MediaRows : sits'[r] \in Seat
  <2> TAKE r \in MediaRows
  <2>1. sits[r] \in Seat
    BY DEF RowsTyped, SeatsOK
  <2>2. CASE r \in M /\ sits[r] # Nowhere
    <3>1. Cardinality(Upto(M, r)) \in 1..Cardinality(M) /\ Cardinality(M) \in Nat
      BY <1>1, <2>2, Ranks, SomeRows
    <3>2. run.parked \in Nat
      BY DEF RowsTyped, RunOK, Runs
    <3>3. -(run.parked + Cardinality(Upto(M, r))) \in Int
      BY <3>1, <3>2
    <3>4. sits[r][1] \in Works
      BY <2>1, <2>2, PlacesAreSeats
    <3>5. sits'[r] = <<sits[r][1], -(run.parked + Cardinality(Upto(M, r)))>>
      BY <1>1, <2>2, Zenon
    <3>6. QED
      BY <3>3, <3>4, <3>5 DEF Seat
  <2>3. QED
    BY <1>1, <2>1, <2>2, Zenon
<1>3. SeatsOK'
  <2>1. sits' = [r \in MediaRows |-> sits'[r]]
    BY Zenon DEF Park, Parked
  <2>2. QED
    BY <1>2, <2>1, Zenon DEF SeatsOK
<1>4. GroupsOK'
  <2> HIDE DEF M
  <2>1. /\ run'.todo = run.todo /\ run'.groups = run.groups \ {identity} /\ run'.stage = run.stage
        /\ run'.blocked = run.blocked \cup M /\ plan' = plan
        /\ run'.losers = run.losers /\ run'.survivor = run.survivor
    BY ParkGives DEF M
  <2>2. QED
    BY <1>1, <2>1 DEF RowsTyped, GroupsOK, Working
<1>5. QED
  BY <1>3, <1>4, ParkGives, Zenon DEF RowsTyped, PlanOK, LinksOK, TallyOK
\* Members of a group are rows of the pass, and there are some.
LEMMA GroupMembers ==
    ASSUME RowsTyped, NEW identity \in run.groups
    PROVE  /\ Members(identity) \in SUBSET run.todo /\ Members(identity) # {}
           /\ run.todo \in SUBSET MediaRows /\ identity \in Places
           /\ \A r \in Members(identity) : plan[r] = identity
BY DEF RowsTyped, RunOK, Runs, GroupsOK, Members

\* What landing a group does: it names a survivor, that sits there or moves in.
LEMMA LandGives ==
    ASSUME RowsTyped, NEW identity \in run.groups, Land(identity)
    PROVE  LET s == run'.survivor
           IN  /\ s \in MediaRows
               /\ \/ run.found[s] = identity
                  \/ s \in Members(identity) /\ \A r \in MediaRows : run.found[r] # identity
               /\ \A r \in MediaRows :
                    sits'[r] = IF r = s /\ run.found[s] # identity /\ sits[s] # Nowhere
                               THEN identity ELSE sits[r]
               /\ run'.losers = Members(identity) \ {s}
               /\ run'.stage = IF run'.losers = {} THEN "pass" ELSE "merge"
               /\ run'.groups = run.groups \ {identity}
               /\ run'.pass = run.pass /\ run'.batch = run.batch /\ run'.todo = run.todo
               /\ run'.found = run.found /\ run'.blocked = run.blocked
               /\ run'.parked = run.parked /\ run'.vanished = run.vanished
               /\ RunOK' /\ SeatsOK' /\ UNCHANGED <<links, tally, books, plan>>
<1> DEFINE M == Members(identity)
           there == Sitting(identity)
           s == IF there # {} THEN CHOOSE r \in there : TRUE ELSE Survivor(M)
<1>1. /\ M \in SUBSET run.todo /\ M # {} /\ run.todo \in SUBSET MediaRows /\ identity \in Places
      /\ identity \in Seat /\ identity[1] \in Works
  BY GroupMembers, PlacesAreSeats
<1>2. LinksOK /\ SeatsOK /\ run \in Runs
  BY Zenon DEF RowsTyped, RunOK
<1>3. /\ s \in MediaRows
      /\ there # {} => s \in there
      /\ there = {} => s \in M
  <2>1. there \in SUBSET MediaRows
    BY DEF Sitting
  <2>2. Survivor(M) \in M
    BY <1>1, <1>2, SurvivorIsMember
  <2>3. QED
    BY <1>1, <2>1, <2>2
<1>4. \/ run.found[s] = identity
      \/ s \in M /\ \A r \in MediaRows : run.found[r] # identity
  BY <1>3 DEF Sitting
<1>5. there = {} <=> run.found[s] # identity
  BY <1>3 DEF Sitting
<1>6. /\ sits' = IF there = {} /\ s \in Living THEN [sits EXCEPT ![s] = identity] ELSE sits
      /\ run' = [run EXCEPT !.groups = @ \ {identity}, !.touched = @ \cup {identity[1]},
                            !.survivor = s, !.losers = M \ {s},
                            !.stage = IF M \ {s} = {} THEN "pass" ELSE "merge",
                            !.merged = IF M \ {s} = {} THEN @ ELSE @ \cup {s},
                            !.wrote = @ \cup {s}]
      /\ UNCHANGED <<links, tally, books, plan>>
  BY Zenon DEF Land
<1> HIDE DEF s, M, there
<1>7. \A r \in MediaRows :
        sits'[r] = IF r = s /\ run.found[s] # identity /\ sits[s] # Nowhere THEN identity ELSE sits[r]
  BY <1>2, <1>3, <1>5, <1>6, Zenon DEF SeatsOK, Living
<1>8. SeatsOK'
  BY <1>1, <1>2, <1>6, Zenon DEF SeatsOK
<1> DEFINE stage  == IF M \ {s} = {} THEN "pass" ELSE "merge"
           merged == IF M \ {s} = {} THEN run.merged ELSE run.merged \cup {s}
<1>9. /\ run'.survivor = s /\ run'.losers = M \ {s} /\ run'.stage = stage
      /\ run'.groups = run.groups \ {identity}
      /\ run'.pass = run.pass /\ run'.batch = run.batch /\ run'.todo = run.todo
      /\ run'.found = run.found /\ run'.blocked = run.blocked
      /\ run'.parked = run.parked /\ run'.vanished = run.vanished
      /\ run' = [run EXCEPT !.groups = @ \ {identity}, !.touched = @ \cup {identity[1]},
                            !.survivor = s, !.losers = M \ {s}, !.stage = stage,
                            !.merged = merged, !.wrote = @ \cup {s}]
  BY <1>2, <1>6, Zenon DEF Runs
<1>10. RunOK'
  <2>1. /\ run.groups \ {identity} \in SUBSET Places /\ run.touched \cup {identity[1]} \in SUBSET Works
        /\ s \in Nat /\ M \ {s} \in SUBSET MediaRows /\ stage \in {"pass", "merge"}
        /\ merged \in SUBSET MediaRows /\ run.wrote \cup {s} \in SUBSET MediaRows
    BY <1>1, <1>2, <1>3, IdentitiesAssumption DEF Runs
  <2> HIDE DEF stage, merged
  <2>2. QED
    BY <1>2, <1>9, <2>1, Zenon DEF RunOK, Runs
<1>11. UNCHANGED <<links, tally, books, plan>>
  BY <1>6, Zenon
<1> HIDE DEF stage, merged
<1>12. QED
  BY <1>3, <1>4, <1>7, <1>8, <1>9, <1>10, <1>11 DEF M, stage

LEMMA TypedLand ==
    ASSUME RowsTyped, Working, NEW identity \in run.groups, Land(identity) PROVE RowsTyped'
<1>1. /\ run'.todo = run.todo /\ run'.groups = run.groups \ {identity} /\ run'.blocked = run.blocked
      /\ run'.survivor \notin run'.losers /\ run'.stage \in {"pass", "merge"} /\ RunOK' /\ SeatsOK'
      /\ UNCHANGED <<links, tally, books, plan>>
  BY LandGives
<1>2. GroupsOK'
  BY <1>1 DEF RowsTyped, GroupsOK, Working
<1>3. QED
  BY <1>1, <1>2, Zenon DEF RowsTyped, PlanOK, LinksOK, TallyOK

\* What merging does: the losers that are left are deleted, unless the survivor
\* is gone; no other row moves.
LEMMA MergeGives ==
    ASSUME RowsTyped, MergeRows
    PROVE  LET gone == IF run.survivor \in Living THEN run.losers \cap Living ELSE {}
           IN  /\ \A r \in MediaRows : sits'[r] = IF r \in gone THEN Nowhere ELSE sits[r]
               /\ \A r \in MediaRows :
                    /\ r = run.survivor /\ r \notin gone =>
                         links'[r] = links[r] \cup UNION {links[q] : q \in gone}
                    /\ r # run.survivor /\ r \notin gone => links'[r] = links[r]
               /\ run'.stage = "pass" /\ run'.pass = run.pass /\ run'.batch = run.batch
               /\ run'.todo = run.todo /\ run'.found = run.found /\ run'.groups = run.groups
               /\ run'.blocked = run.blocked /\ run'.parked = run.parked
               /\ run'.vanished = run.vanished /\ run.stage = "merge" /\ plan' = plan
               /\ RowsTyped'
<1> DEFINE gone == IF run.survivor \in Living THEN run.losers \cap Living ELSE {}
<1>1. /\ links' = [r \in MediaRows |->
                     CASE r \in gone -> {}
                       [] r = run.survivor -> links[r] \cup UNION {links[q] : q \in gone}
                       [] OTHER -> links[r]]
      /\ sits' = [r \in MediaRows |-> IF r \in gone THEN Nowhere ELSE sits[r]]
      /\ run' = [run EXCEPT !.stage = "pass", !.wrote = @ \cup gone]
      /\ UNCHANGED <<tally, books, plan>> /\ run.stage = "merge"
  BY Zenon DEF MergeRows
<1>2. gone \in SUBSET MediaRows /\ run.survivor \notin gone
  BY <1>1 DEF Living, RowsTyped, GroupsOK
<1>3. run \in Runs
  BY Zenon DEF RowsTyped, RunOK
<1> HIDE DEF gone
<1>4. /\ run'.stage = "pass" /\ run'.pass = run.pass /\ run'.batch = run.batch
      /\ run'.todo = run.todo /\ run'.found = run.found /\ run'.groups = run.groups
      /\ run'.blocked = run.blocked /\ run'.parked = run.parked
      /\ run'.vanished = run.vanished
  BY <1>1, <1>3, Zenon DEF Runs
<1>5. RunOK'
  <2>1. run.wrote \cup gone \in SUBSET MediaRows
    BY <1>2, <1>3 DEF Runs
  <2>2. QED
    BY <1>1, <1>3, <2>1, Zenon DEF RunOK, Runs
<1>6. \A r \in MediaRows : sits'[r] = IF r \in gone THEN Nowhere ELSE sits[r]
  BY <1>1, Zenon
<1>7. \A r \in MediaRows :
        /\ r \in gone => links'[r] = {}
        /\ r = run.survivor /\ r \notin gone =>
             links'[r] = links[r] \cup UNION {links[q] : q \in gone}
        /\ r # run.survivor /\ r \notin gone => links'[r] = links[r]
  <2> DEFINE taken == UNION {links[q] : q \in gone}
  <2> TAKE r \in MediaRows
  <2>1. links'[r] = CASE r \in gone -> {}
                      [] r = run.survivor -> links[r] \cup taken
                      [] OTHER -> links[r]
    BY <1>1, Zenon
  <2> HIDE DEF taken
  <2>2. /\ r \in gone => links'[r] = {}
        /\ r = run.survivor /\ r \notin gone => links'[r] = links[r] \cup taken
        /\ r # run.survivor /\ r \notin gone => links'[r] = links[r]
    BY <1>2, <2>1
  <2>3. QED
    BY <2>2, Zenon DEF taken
<1>8. SeatsOK'
  BY <1>1, Zenon DEF RowsTyped, SeatsOK, Seat
<1>9. LinksOK'
  <2>1. IsFiniteSet(UNION {links[q] : q \in gone})
    <3> DEFINE S == {links[q] : q \in gone}
               f == [q \in gone |-> links[q]]
    <3>1. f \in Surjection(gone, S)
      BY DEF Surjection
    <3>2. IsFiniteSet(gone)
      BY <1>2, SomeRows
    <3>3. \A T \in S : IsFiniteSet(T)
      BY <1>2 DEF RowsTyped, LinksOK
    <3> HIDE DEF S, f
    <3>4. IsFiniteSet(S)
      BY <3>1, <3>2, FS_Surjection
    <3>5. QED
      BY <3>3, <3>4, FS_UNION DEF S
  <2>2. QED
    BY <1>1, <1>7, <2>1, FS_Union, FS_EmptySet DEF RowsTyped, LinksOK
<1>10. GroupsOK'
  BY <1>1, <1>4 DEF RowsTyped, GroupsOK, Working
<1>11. QED
  BY <1>1, <1>4, <1>5, <1>6, <1>7, <1>8, <1>9, <1>10, Zenon DEF RowsTyped, PlanOK, TallyOK, gone
\* A row that another process deletes.
LEMMA VanishGives ==
    ASSUME RowsTyped, NEW r \in MediaRows, Vanish(r)
    PROVE  /\ sits[r] # Nowhere /\ r \notin run.wrote
           /\ \A q \in MediaRows : sits'[q] = IF q = r THEN Nowhere ELSE sits[q]
           /\ run' = [run EXCEPT !.vanished = run.vanished \cup {r}]
           /\ run'.stage = run.stage /\ run'.pass = run.pass /\ run'.batch = run.batch
           /\ run'.todo = run.todo /\ run'.found = run.found /\ run'.groups = run.groups
           /\ run'.blocked = run.blocked /\ run'.parked = run.parked
           /\ run'.vanished = run.vanished \cup {r} /\ plan' = plan /\ RowsTyped'
<1>1. run \in Runs /\ SeatsOK /\ LinksOK
  BY Zenon DEF RowsTyped, RunOK
<1>2. /\ run' = [run EXCEPT !.vanished = run.vanished \cup {r}] /\ sits[r] # Nowhere
      /\ sits' = [sits EXCEPT ![r] = Nowhere] /\ links' = [links EXCEPT ![r] = {}]
      /\ UNCHANGED <<tally, books, plan>> /\ r \notin run.wrote
  BY Zenon DEF Vanish, Living
<1>3. /\ run'.stage = run.stage /\ run'.pass = run.pass /\ run'.batch = run.batch
      /\ run'.todo = run.todo /\ run'.found = run.found /\ run'.groups = run.groups
      /\ run'.blocked = run.blocked /\ run'.parked = run.parked
      /\ run'.losers = run.losers /\ run'.survivor = run.survivor
      /\ run'.vanished = run.vanished \cup {r}
  BY <1>1, <1>2, Zenon DEF Runs
<1>4. RunOK'
  <2>1. run.vanished \cup {r} \in SUBSET MediaRows
    BY <1>1 DEF Runs
  <2>2. QED
    BY <1>1, <1>2, <2>1, Zenon DEF RunOK, Runs
<1>5. SeatsOK' /\ \A q \in MediaRows : sits'[q] = IF q = r THEN Nowhere ELSE sits[q]
  BY <1>1, <1>2, Zenon DEF SeatsOK, Seat
<1>6. LinksOK'
  BY <1>1, <1>2, FS_EmptySet, Zenon DEF LinksOK
<1>7. GroupsOK'
  BY <1>2, <1>3, Zenon DEF RowsTyped, GroupsOK, Working
<1>8. QED
  BY <1>2, <1>3, <1>4, <1>5, <1>6, <1>7, Zenon DEF RowsTyped, PlanOK, TallyOK

\* The recounts, when the batches are done: rows without links are deleted.
LEMMA WorksRecounted ==
    ASSUME RowsTyped, RecountSeasons \/ RecountWorks
    PROVE  /\ \A r \in MediaRows :
                sits'[r] = sits[r] \/ (sits'[r] = Nowhere /\ links[r] = {})
           /\ run'.stage \in {"works", "end"} /\ run'.pass = run.pass /\ run'.batch = run.batch
           /\ run'.todo = run.todo /\ run'.groups = run.groups /\ run'.blocked = run.blocked
           /\ run'.parked = run.parked /\ run'.vanished = run.vanished
           /\ links' = links /\ plan' = plan /\ RowsTyped'
           /\ \/ run.stage = "batch" /\ run.batch > Len(Batches) /\ run'.stage = "works"
              \/ run.stage = "works" /\ sits' = sits
<1>1. run \in Runs /\ SeatsOK /\ LinksOK
  BY Zenon DEF RowsTyped, RunOK
<1>2. CASE RecountSeasons
  <2>1. /\ run.stage = "batch" /\ run.batch > Len(Batches) /\ run' = [run EXCEPT !.stage = "works"]
        /\ sits' = [r \in MediaRows |-> IF r \in run.merged /\ links[r] = {} THEN Nowhere ELSE sits[r]]
        /\ UNCHANGED <<links, plan>>
        /\ tally' = [r \in MediaRows |-> IF r \in run.merged THEN Cardinality(links[r]) ELSE tally[r]]
    BY <1>2, Zenon DEF RecountSeasons
  <2>2. TallyOK'
    BY <2>1, FS_CardinalityType DEF RowsTyped, TallyOK, LinksOK
  <2>3. SeatsOK' /\ \A r \in MediaRows :
                      sits'[r] = sits[r] \/ (sits'[r] = Nowhere /\ links[r] = {})
    BY <1>1, <2>1, Zenon DEF SeatsOK, Seat
  <2>4. /\ RunOK' /\ run'.stage = "works" /\ run'.pass = run.pass /\ run'.batch = run.batch
        /\ run'.todo = run.todo /\ run'.groups = run.groups /\ run'.blocked = run.blocked
        /\ run'.parked = run.parked /\ run'.vanished = run.vanished
    BY <1>1, <2>1, Zenon DEF Runs, RunOK
  <2>5. GroupsOK'
    BY <2>1, <2>4 DEF RowsTyped, GroupsOK, Working
  <2>6. QED
    BY <2>1, <2>2, <2>3, <2>4, <2>5, Zenon DEF RowsTyped, PlanOK, LinksOK
<1>3. CASE RecountWorks
  <2>1. /\ run.stage = "works" /\ run' = [run EXCEPT !.stage = "end"]
        /\ UNCHANGED <<sits, links, tally, plan>>
    BY <1>3, Zenon DEF RecountWorks
  <2>2. /\ RunOK' /\ run'.stage = "end" /\ run'.pass = run.pass /\ run'.batch = run.batch
        /\ run'.todo = run.todo /\ run'.groups = run.groups /\ run'.blocked = run.blocked
        /\ run'.parked = run.parked /\ run'.vanished = run.vanished
    BY <1>1, <2>1, Zenon DEF Runs, RunOK
  <2>3. GroupsOK'
    BY <2>1, <2>2 DEF RowsTyped, GroupsOK, Working
  <2>4. QED
    BY <2>1, <2>2, <2>3, Zenon DEF RowsTyped, SeatsOK, PlanOK, LinksOK, TallyOK
<1>4. QED
  BY <1>2, <1>3

LEMMA RowsTypedNext == RowsTyped /\ [IdentitiesNext]_identities => RowsTyped'
<1> SUFFICES ASSUME RowsTyped, [IdentitiesNext]_identities PROVE RowsTyped'
  OBVIOUS
<1>1. CASE BeginBatch \/ StartPass \/ EndPass
  BY <1>1, TypedBegin, TypedStart, TypedEnd
<1>2. CASE PlaceGroup
  <2>1. PICK identity \in run.groups : Park(identity) \/ Land(identity)
    BY <1>2 DEF PlaceGroup
  <2>2. Working
    BY <1>2 DEF PlaceGroup, Working
  <2>3. QED
    BY <2>1, <2>2, TypedPark, TypedLand
<1>3. CASE MergeRows
  BY <1>3, MergeGives
<1>4. CASE RecountSeasons \/ RecountWorks
  BY <1>4, WorksRecounted
<1>5. CASE \E r \in MediaRows : Vanish(r)
  BY <1>5, VanishGives
<1>6. CASE UNCHANGED identities
  BY <1>6, Zenon DEF identities, RowsTyped, SeatsOK, PlanOK, LinksOK, TallyOK, RunOK, GroupsOK, Working
<1>7. QED
  BY <1>1, <1>2, <1>3, <1>4, <1>5, <1>6 DEF IdentitiesNext

\* Rows sit on identities, in a pass or parked, or are gone, and a pass deals with
\* rows of its batch, whatever the plan is (assign.py:72-201).
THEOREM IdentitiesTypes == IdentitiesSpec => []IdentitiesTypeOK
<1>1. RowsTyped => IdentitiesTypeOK
  <2> SUFFICES ASSUME RowsTyped PROVE IdentitiesTypeOK
    OBVIOUS
  <2>1. \A r \in MediaRows : sits[r] = Nowhere \/ sits[r] \in Works \X Int
    BY Zenon DEF RowsTyped, SeatsOK, Seat
  <2>2. run.stage \in {"batch", "start", "pass", "merge", "raised", "works", "end"}
    BY Zenon DEF RowsTyped, RunOK, Runs
  <2>3. run.todo \subseteq MediaRows /\ run.blocked \subseteq run.todo
    BY Zenon DEF RowsTyped, GroupsOK
  <2>4. QED
    BY <2>1, <2>2, <2>3, Zenon DEF RowsTyped, TallyOK, IdentitiesTypeOK
<1>2. QED
  BY <1>1, RowsTypedInit, RowsTypedNext, PTL DEF IdentitiesSpec

-----------------------------------------------------------------------------
(* Two passes                                                              *)

Away(where, r) == where[r] = Nowhere \/ where[r][2] < 0

\* What a pass parks is parked until the next one, which parks nothing: of the
\* rows it is about none sits where a row belongs.
Rounds ==
    /\ run.pass \in 1..2 /\ run.stage # "raised"
    /\ Working => \A r \in run.blocked : plan[r] \notin run.groups /\ Away(sits, r)
    /\ run.stage = "start" /\ run.pass = 2 => \A r \in run.todo : Away(sits, r)
    /\ Working /\ run.pass = 2 => run.blocked = {} /\ \A r \in run.todo : Away(run.found, r)

LEMMA RoundsPark ==
    ASSUME RowsTyped, Rounds, run.stage = "pass", NEW identity \in run.groups, Park(identity)
    PROVE  Rounds'
<1> DEFINE M == Members(identity)
<1>1. /\ M \in SUBSET run.todo /\ run.todo \in SUBSET MediaRows /\ identity \in Places
      /\ \A r \in M : plan[r] = identity
  BY GroupMembers
<1>2. /\ \A r \in MediaRows :
           sits'[r] = IF r \in M /\ sits[r] # Nowhere
                      THEN <<sits[r][1], -(run.parked + Cardinality(Upto(M, r)))>>
                      ELSE sits[r]
      /\ run'.stage = run.stage /\ run'.pass = run.pass
      /\ run'.groups = run.groups \ {identity} /\ run'.blocked = run.blocked \cup M /\ plan' = plan
  BY ParkGives
\* A second pass parks nothing.
<1>3. run.pass # 2
  <2>1. PICK s \in MediaRows : run.found[s] = identity /\ s \in run.todo
    BY DEF Park, InTheWay, Sitting
  <2>2. ~ Away(run.found, s)
    BY <1>1, <2>1, PlacesAreSeats DEF Away
  <2>3. QED
    BY <2>1, <2>2 DEF Rounds, Working
<1>4. ASSUME NEW r \in MediaRows, r \in M \/ Away(sits, r) PROVE Away(sits', r)
  <2>1. CASE r \in M /\ sits[r] # Nowhere
    <3>1. sits'[r] = <<sits[r][1], -(run.parked + Cardinality(Upto(M, r)))>>
      BY <1>2, <2>1, Zenon
    <3>2. Cardinality(Upto(M, r)) \in 1..Cardinality(M) /\ Cardinality(M) \in Nat
      BY <1>1, <2>1, Ranks, SomeRows
    <3>3. run.parked \in Nat
      BY DEF RowsTyped, RunOK, Runs
    <3>4. -(run.parked + Cardinality(Upto(M, r))) < 0
      BY <3>2, <3>3
    <3>5. QED
      BY <3>1, <3>4 DEF Away
  <2>2. CASE ~(r \in M /\ sits[r] # Nowhere)
    BY <1>2, <1>4, <2>2, Zenon DEF Away
  <2>3. QED
    BY <2>1, <2>2
<1>5. \A r \in run.blocked \cup M : plan[r] \notin run.groups \ {identity} /\ Away(sits', r)
  <2>1. run.blocked \subseteq MediaRows
    BY DEF RowsTyped, RunOK, Runs
  <2>2. QED
    BY <1>1, <1>4, <2>1 DEF Rounds, Working
<1> HIDE DEF M
<1>6. QED
  BY <1>2, <1>3, <1>5 DEF Rounds, Working, Away

LEMMA RoundsLand ==
    ASSUME RowsTyped, Rounds, run.stage = "pass", NEW identity \in run.groups, Land(identity)
    PROVE  Rounds'
<1> DEFINE s == run'.survivor
<1>1. /\ s \in Members(identity) \/ run.found[s] = identity
      /\ \A r \in MediaRows :
           sits'[r] = IF r = s /\ run.found[s] # identity /\ sits[s] # Nowhere THEN identity ELSE sits[r]
      /\ run'.stage \in {"pass", "merge"} /\ run'.pass = run.pass /\ run'.todo = run.todo
      /\ run'.found = run.found /\ run'.groups = run.groups \ {identity}
      /\ run'.blocked = run.blocked /\ plan' = plan
  BY LandGives
<1>2. \A r \in Members(identity) : plan[r] = identity
  BY GroupMembers
<1>3. run.blocked \subseteq MediaRows
  BY DEF RowsTyped, RunOK, Runs
<1> HIDE DEF s
<1>4. ASSUME NEW r \in run.blocked PROVE Away(sits', r) /\ plan[r] \notin run'.groups
  <2>1. plan[r] \notin run.groups /\ Away(sits, r)
    BY DEF Rounds, Working
  <2>2. r \notin Members(identity)
    BY <1>2, <2>1
  <2>3. sits'[r] = sits[r]
    BY <1>1, <1>3, <2>2
  <2>4. QED
    BY <1>1, <2>1, <2>3 DEF Away
<1>5. QED
  BY <1>1, <1>4 DEF Rounds, Working, Away

LEMMA RoundsNext == RowsTyped /\ Rounds /\ [IdentitiesNext]_identities => Rounds'
<1> SUFFICES ASSUME RowsTyped, Rounds, [IdentitiesNext]_identities PROVE Rounds'
  OBVIOUS
<1>1. run \in Runs
  BY Zenon DEF RowsTyped, RunOK
<1>2. CASE BeginBatch
  <2>1. run'.stage = "start" /\ run'.pass = 1
    BY <1>1, <1>2, Zenon DEF BeginBatch, Runs
  <2>2. QED
    BY <2>1 DEF Rounds, Working
<1>3. CASE StartPass
  <2>1. /\ run'.stage = "pass" /\ run'.found = sits /\ run'.blocked = {} /\ run'.pass = run.pass
        /\ run'.todo = run.todo /\ run.stage = "start"
    BY <1>1, <1>3, Zenon DEF StartPass, Runs
  <2>2. QED
    BY <2>1 DEF Rounds, Working, Away
<1>4. CASE PlaceGroup
  <2>1. PICK identity \in run.groups : Park(identity) \/ Land(identity)
    BY <1>4 DEF PlaceGroup
  <2>2. run.stage = "pass"
    BY <1>4 DEF PlaceGroup
  <2>3. QED
    BY <2>1, <2>2, RoundsPark, RoundsLand
<1>5. CASE MergeRows
  <2>1. /\ \A r \in MediaRows : sits'[r] = sits[r] \/ sits'[r] = Nowhere
        /\ run'.stage = "pass" /\ run.stage = "merge" /\ run'.pass = run.pass
        /\ run'.todo = run.todo /\ run'.found = run.found /\ run'.groups = run.groups
        /\ run'.blocked = run.blocked /\ plan' = plan
    BY <1>5, MergeGives
  <2>2. run.blocked \subseteq MediaRows
    BY <1>1 DEF Runs
  <2>3. QED
    BY <2>1, <2>2 DEF Rounds, Working, Away
<1>6. CASE EndPass
  <2>1. /\ run.stage = "pass" /\ UNCHANGED <<sits, plan>>
        /\ run.blocked = {} => run'.stage = "batch" /\ run'.pass = run.pass
        /\ run.blocked # {} => /\ run'.stage = IF run.pass = 3 THEN "raised" ELSE "start"
                               /\ run'.pass = run.pass + 1 /\ run'.todo = run.blocked
    BY <1>1, <1>6 DEF EndPass, Runs
  <2>2. run.blocked # {} => run.pass = 1
    BY <2>1 DEF Rounds, Working
  <2>3. QED
    BY <2>1, <2>2 DEF Rounds, Working, Away
<1>7. CASE RecountSeasons \/ RecountWorks
  <2>1. run'.stage \in {"works", "end"} /\ run'.pass = run.pass
    BY <1>7, WorksRecounted
  <2>2. QED
    BY <2>1 DEF Rounds, Working
<1>8. ASSUME NEW r \in MediaRows, Vanish(r) PROVE Rounds'
  <2>1. /\ \A q \in MediaRows : sits'[q] = sits[q] \/ sits'[q] = Nowhere
        /\ run'.stage = run.stage /\ run'.pass = run.pass
        /\ run'.todo = run.todo /\ run'.found = run.found /\ run'.groups = run.groups
        /\ run'.blocked = run.blocked /\ plan' = plan
    BY <1>8, VanishGives
  <2>2. run.blocked \subseteq MediaRows /\ run.todo \subseteq MediaRows
    BY <1>1 DEF Runs
  <2>3. QED
    BY <2>1, <2>2 DEF Rounds, Working, Away
<1>9. CASE UNCHANGED identities
  BY <1>9, Zenon DEF identities, Rounds, Working, Away
<1>10. QED
  BY <1>2, <1>3, <1>4, <1>5, <1>6, <1>7, <1>8, <1>9 DEF IdentitiesNext

\* Whatever circles a plan has, and whatever is deleted meanwhile, the second pass
\* of a batch is the last one and the third one is never begun: the error that
\* ends it cannot be raised (assign.py:13-31, 192-201).
THEOREM TwoPassesSuffice == IdentitiesSpec => []TwoPasses
<1>1. IdentitiesInit => Rounds
  BY DEF IdentitiesInit, Rounds, Working
<1>2. Rounds => TwoPasses
  BY DEF Rounds, TwoPasses
<1>3. QED
  BY <1>1, <1>2, RowsTypedInit, RowsTypedNext, RoundsNext, PTL DEF IdentitiesSpec
-----------------------------------------------------------------------------
(* No two rows on an identity                                              *)

\* No row is parked.
Unparked == \A r \in Living : sits[r][2] >= 0

\* Parked seasons are taken from the top down, and who sits on an identity that a
\* group of this pass is still to come to sat there when the pass began.
Seats ==
    /\ IdentityUnique
    /\ \A r \in Living : sits[r][2] >= -run.parked
    /\ Working => \A r \in Living :
                    sits[r] = run.found[r] \/ sits[r][2] < 0 \/ sits[r] \notin run.groups

LEMMA SeatsPark ==
    ASSUME RowsTyped, Seats, Working, NEW identity \in run.groups, Park(identity)
    PROVE  Seats'
<1> DEFINE M == Members(identity)
           rank(r) == Cardinality(Upto(M, r))
<1>1. M \in SUBSET MediaRows
  BY GroupMembers
<1>2. /\ \A r \in MediaRows :
           sits'[r] = IF r \in M /\ sits[r] # Nowhere
                      THEN <<sits[r][1], -(run.parked + rank(r))>> ELSE sits[r]
      /\ run'.found = run.found /\ run'.groups = run.groups \ {identity}
      /\ run'.parked = run.parked + Cardinality(M)
  BY ParkGives
<1>3. /\ run.parked \in Nat /\ Cardinality(M) \in Nat
      /\ \A r \in M : rank(r) \in 1..Cardinality(M)
      /\ \A r, q \in M : rank(r) = rank(q) => r = q
  BY <1>1, SomeRows, Ranks DEF RowsTyped, RunOK, Runs
<1>4. \A r \in MediaRows : sits[r] # Nowhere => sits[r] \in Works \X Int /\ sits[r][2] \in Int
  BY DEF RowsTyped, SeatsOK, Seat
<1> HIDE DEF M, rank
<1>5. ASSUME NEW r \in MediaRows, sits'[r] # Nowhere
      PROVE  /\ sits[r] # Nowhere /\ sits[r][2] >= -run.parked /\ sits[r][2] \in Int
             /\ r \in M => sits'[r][2] = -(run.parked + rank(r))
             /\ r \notin M => sits'[r] = sits[r]
  <2>1. sits[r] # Nowhere
    BY <1>2, <1>5
  <2>2. sits[r][2] >= -run.parked /\ sits[r][2] \in Int
    BY <1>4, <2>1 DEF Seats, Living
  <2>3. ASSUME r \in M PROVE sits'[r][2] = -(run.parked + rank(r))
    <3>1. sits'[r] = <<sits[r][1], -(run.parked + rank(r))>>
      BY <1>2, <2>1, <2>3, Zenon
    <3>2. QED
      BY <3>1
  <2>4. QED
    BY <1>2, <2>1, <2>2, <2>3, Zenon
<1>6. IdentityUnique'
  <2> SUFFICES ASSUME NEW r \in MediaRows, NEW q \in MediaRows, sits'[r] # Nowhere,
                      sits'[q] # Nowhere, sits'[r] = sits'[q]
               PROVE  r = q
    BY DEF IdentityUnique, Living
  <2>1. CASE r \in M /\ q \in M
    <3>1. -(run.parked + rank(r)) = -(run.parked + rank(q))
      BY <1>5, <2>1
    <3>2. rank(r) = rank(q)
      BY <1>3, <2>1, <3>1
    <3>3. QED
      BY <1>3, <2>1, <3>2
  <2>2. CASE r \notin M /\ q \notin M
    BY <1>5, <2>2, Zenon DEF Seats, IdentityUnique, Living
  <2>3. CASE r \in M /\ q \notin M
    <3>1. -(run.parked + rank(r)) >= -run.parked
      BY <1>5, <2>3
    <3>2. QED
      BY <1>3, <2>3, <3>1
  <2>4. CASE r \notin M /\ q \in M
    <3>1. -(run.parked + rank(q)) >= -run.parked
      BY <1>5, <2>4
    <3>2. QED
      BY <1>3, <2>4, <3>1
  <2>5. QED
    BY <2>1, <2>2, <2>3, <2>4
<1>7. ASSUME NEW r \in MediaRows, sits'[r] # Nowhere
      PROVE  sits'[r][2] >= -run'.parked /\ (r \in M => sits'[r][2] < 0)
  <2>1. CASE r \in M
    <3>1. rank(r) \in 1..Cardinality(M)
      BY <1>3, <2>1
    <3>2. sits'[r][2] = -(run.parked + rank(r))
      BY <1>5, <1>7, <2>1
    <3>3. QED
      BY <1>2, <1>3, <3>1, <3>2
  <2>2. CASE r \notin M
    <3>1. sits'[r] = sits[r] /\ sits[r][2] >= -run.parked /\ sits[r][2] \in Int
      BY <1>5, <1>7, <2>2
    <3>2. QED
      BY <1>2, <1>3, <2>2, <3>1
  <2>3. QED
    BY <2>1, <2>2
<1>8. ASSUME NEW r \in MediaRows, sits'[r] # Nowhere
      PROVE  sits'[r] = run'.found[r] \/ sits'[r][2] < 0 \/ sits'[r] \notin run'.groups
  <2>1. CASE r \in M
    BY <1>7, <1>8, <2>1
  <2>2. CASE r \notin M
    <3>1. sits'[r] = sits[r] /\ sits[r] # Nowhere
      BY <1>5, <1>8, <2>2
    <3>2. sits[r] = run.found[r] \/ sits[r][2] < 0 \/ sits[r] \notin run.groups
      BY <3>1, Zenon DEF Seats, Living
    <3>3. QED
      BY <1>2, <3>1, <3>2, Zenon
  <2>3. QED
    BY <2>1, <2>2
<1>9. QED
  BY <1>6, <1>7, <1>8 DEF Seats, Living

\* The place a group lands on is free, or its survivor sits there already.
LEMMA SeatsLand ==
    ASSUME RowsTyped, Seats, Working, NEW identity \in run.groups, Land(identity)
    PROVE  Seats'
<1> DEFINE s == run'.survivor
<1>1. /\ s \in MediaRows
      /\ \/ run.found[s] = identity
         \/ s \in Members(identity) /\ \A r \in MediaRows : run.found[r] # identity
      /\ \A r \in MediaRows :
           sits'[r] = IF r = s /\ run.found[s] # identity /\ sits[s] # Nowhere THEN identity ELSE sits[r]
      /\ run'.found = run.found /\ run'.groups = run.groups \ {identity} /\ run'.parked = run.parked
  BY LandGives
<1>2. identity[2] \in Nat /\ identity # Nowhere
  BY GroupMembers, PlacesAreSeats
<1>3. run.parked \in Nat
  BY DEF RowsTyped, RunOK, Runs
<1> HIDE DEF s
<1>4. CASE run.found[s] = identity \/ sits[s] = Nowhere
  <2>1. \A r \in MediaRows : sits'[r] = sits[r]
    BY <1>1, <1>4, Zenon
  <2>2. QED
    BY <1>1, <2>1, Zenon DEF Seats, IdentityUnique, Living, Working
<1>5. CASE run.found[s] # identity /\ sits[s] # Nowhere
  <2>1. \A r \in MediaRows : sits'[r] = IF r = s THEN identity ELSE sits[r]
    BY <1>1, <1>5, Zenon
  <2>2. ASSUME NEW r \in MediaRows, sits[r] = identity PROVE FALSE
    <3>1. r \in Living /\ run.found[r] # identity
      BY <1>1, <1>2, <1>5, <2>2, Zenon DEF Living
    <3>2. ~(sits[r][2] < 0)
      BY <1>2, <2>2
    <3>3. QED
      BY <2>2, <3>1, <3>2, Zenon DEF Seats
  <2>3. IdentityUnique'
    BY <2>1, <2>2, Zenon DEF Seats, IdentityUnique, Living
  <2>4. ASSUME NEW r \in MediaRows, sits'[r] # Nowhere
        PROVE  /\ sits'[r][2] >= -run'.parked
               /\ sits'[r] = run'.found[r] \/ sits'[r][2] < 0 \/ sits'[r] \notin run'.groups
    <3>1. CASE r = s
      BY <1>1, <1>2, <1>3, <2>1, <3>1
    <3>2. CASE r # s
      <4>1. sits'[r] = sits[r]
        BY <2>1, <3>2, Zenon
      <4>2. QED
        BY <1>1, <2>4, <4>1, Zenon DEF Seats, Living
    <3>3. QED
      BY <3>1, <3>2
  <2>5. QED
    BY <2>3, <2>4 DEF Seats, Living
<1>6. QED
  BY <1>4, <1>5

\* Rows that are deleted leave the others apart.
LEMMA SeatsFewer ==
    ASSUME Seats, \A r \in MediaRows : sits'[r] = sits[r] \/ sits'[r] = Nowhere,
           run'.parked = run.parked,
           Working' => Working /\ run'.found = run.found /\ run'.groups = run.groups
    PROVE  Seats'
<1>1. \A r \in MediaRows : sits'[r] # Nowhere => sits'[r] = sits[r] /\ sits[r] # Nowhere
  BY Zenon
<1>2. IdentityUnique'
  BY <1>1, Zenon DEF Seats, IdentityUnique, Living
<1>3. (\A r \in Living : sits[r][2] >= -run.parked)'
  BY <1>1, Zenon DEF Seats, Living
<1>4. QED
  BY <1>1, <1>2, <1>3, Zenon DEF Seats, Living

LEMMA SeatsNext ==
    ASSUME run.stage = "batch" /\ run.batch <= Len(Batches) => Unparked
    PROVE  RowsTyped /\ Seats /\ [IdentitiesNext]_identities => Seats'
<1> SUFFICES ASSUME RowsTyped, Seats, [IdentitiesNext]_identities PROVE Seats'
  OBVIOUS
<1>1. run \in Runs /\ SeatsOK
  BY Zenon DEF RowsTyped, RunOK
<1>2. CASE BeginBatch
  <2>1. run'.stage = "start" /\ run'.parked = 0 /\ sits' = sits /\ Unparked
    BY <1>1, <1>2, Zenon DEF BeginBatch, Runs
  <2>2. \A r \in Living : sits[r][2] >= 0
    BY <2>1 DEF Unparked
  <2>3. QED
    BY <2>1, <2>2 DEF Seats, Working, IdentityUnique, Living
<1>3. CASE StartPass
  <2>1. run'.found = sits /\ run'.parked = run.parked /\ sits' = sits
    BY <1>1, <1>3, Zenon DEF StartPass, Runs
  <2>2. QED
    BY <2>1, Zenon DEF Seats, IdentityUnique, Living
<1>4. CASE PlaceGroup
  <2>1. PICK identity \in run.groups : Park(identity) \/ Land(identity)
    BY <1>4 DEF PlaceGroup
  <2>2. Working
    BY <1>4 DEF PlaceGroup, Working
  <2>3. QED
    BY <2>1, <2>2, SeatsPark, SeatsLand
<1>5. CASE MergeRows
  <2>1. /\ \A r \in MediaRows : sits'[r] = sits[r] \/ sits'[r] = Nowhere
        /\ Working /\ run'.found = run.found /\ run'.groups = run.groups
        /\ run'.parked = run.parked
    BY <1>5, MergeGives DEF Working
  <2>2. QED
    BY <2>1, SeatsFewer
<1>6. CASE EndPass
  <2>1. sits' = sits /\ run'.parked = run.parked /\ ~Working'
    BY <1>1, <1>6 DEF EndPass, Runs, Working
  <2>2. QED
    BY <2>1, SeatsFewer
<1>7. CASE RecountSeasons \/ RecountWorks
  <2>1. /\ \A r \in MediaRows : sits'[r] = sits[r] \/ sits'[r] = Nowhere
        /\ ~Working' /\ run'.parked = run.parked
    BY <1>7, WorksRecounted DEF Working
  <2>2. QED
    BY <2>1, SeatsFewer
<1>8. ASSUME NEW r \in MediaRows, Vanish(r) PROVE Seats'
  <2>1. /\ \A q \in MediaRows : sits'[q] = sits[q] \/ sits'[q] = Nowhere
        /\ run'.stage = run.stage /\ run'.found = run.found /\ run'.groups = run.groups
        /\ run'.parked = run.parked
    BY <1>8, VanishGives
  <2>2. QED
    BY <2>1, SeatsFewer DEF Working
<1>9. CASE UNCHANGED identities
  BY <1>9, Zenon DEF identities, Seats, Working, IdentityUnique, Living
<1>10. QED
  BY <1>2, <1>3, <1>4, <1>5, <1>6, <1>7, <1>8, <1>9 DEF IdentitiesNext

LEMMA SeatsInit == IdentitiesInit => Seats /\ Unparked
<1> SUFFICES ASSUME IdentitiesInit PROVE Seats /\ Unparked
  OBVIOUS
<1>1. sits = Home /\ run.stage = "batch" /\ run.parked = 0
  BY Zenon DEF IdentitiesInit
<1>2. IdentityUnique
  BY <1>1, IdentitiesAssumption DEF IdentityUnique, Living
<1>3. \A r \in MediaRows : sits[r][2] \in Nat
  BY <1>1, PlacesAreSeats
<1>4. QED
  BY <1>1, <1>2, <1>3 DEF Seats, Working, Unparked, Living

\* Nothing is parked before the first batch begins.
FirstUnparked == run.batch = 1 /\ run.stage = "batch" => Unparked

LEMMA FirstNext == RowsTyped /\ FirstUnparked /\ [IdentitiesNext]_identities => FirstUnparked'
<1> SUFFICES ASSUME RowsTyped, FirstUnparked, [IdentitiesNext]_identities,
                    run'.batch = 1, run'.stage = "batch"
             PROVE  Unparked'
  BY DEF FirstUnparked
<1>1. run \in Runs
  BY Zenon DEF RowsTyped, RunOK
<1>2. CASE BeginBatch \/ StartPass \/ MergeRows
  <2>1. run'.stage \in {"start", "pass"}
    BY <1>1, <1>2, Zenon DEF BeginBatch, StartPass, MergeRows, Runs
  <2>2. QED
    BY <2>1
<1>3. CASE PlaceGroup
  <2>1. PICK identity \in run.groups : Park(identity) \/ Land(identity)
    BY <1>3 DEF PlaceGroup
  <2>2. run'.stage \in {"pass", "merge"}
    BY <1>3, <2>1, ParkGives, LandGives DEF PlaceGroup
  <2>3. QED
    BY <2>2
<1>4. CASE EndPass
  <2>1. run.batch \in Nat \ {0}
    BY <1>1 DEF Runs
  <2>2. run'.stage = "batch" => run'.batch = run.batch + 1
    BY <1>1, <1>4 DEF EndPass, Runs
  <2>3. QED
    BY <2>1, <2>2
<1>5. CASE RecountSeasons \/ RecountWorks
  BY <1>5, WorksRecounted
<1>6. ASSUME NEW r \in MediaRows, Vanish(r) PROVE Unparked'
  <2>1. /\ \A q \in MediaRows : sits'[q] = IF q = r THEN Nowhere ELSE sits[q]
        /\ run'.stage = run.stage /\ run'.batch = run.batch
    BY <1>6, VanishGives
  <2>2. QED
    BY <2>1, Zenon DEF FirstUnparked, Unparked, Living
<1>7. CASE UNCHANGED identities
  BY <1>7, Zenon DEF identities, FirstUnparked, Unparked, Living
<1>8. QED
  BY <1>2, <1>3, <1>4, <1>5, <1>6, <1>7 DEF IdentitiesNext

\* In one call of assign_identities no two rows ever share an identity, between
\* any two of its statements and whatever another process deletes meanwhile, so
\* that no statement of it fails on uq_media_season (assign.py:90-160).
THEOREM OneCallApart ==
    ASSUME Len(Batches) <= 1
    PROVE  IdentitiesSpec => []IdentityUnique
<1>1. RowsTyped /\ FirstUnparked /\ run.stage = "batch" /\ run.batch <= Len(Batches) => Unparked
  BY IdentitiesAssumption DEF RowsTyped, RunOK, Runs, FirstUnparked
<1>2. RowsTyped /\ FirstUnparked /\ Seats /\ [IdentitiesNext]_identities => Seats'
  BY <1>1, SeatsNext
<1>3. IdentitiesInit => FirstUnparked /\ Seats
  BY SeatsInit DEF FirstUnparked
<1>4. Seats => IdentityUnique
  BY DEF Seats
<1>5. QED
  BY <1>2, <1>3, <1>4, RowsTypedInit, RowsTypedNext, FirstNext, PTL DEF IdentitiesSpec
-----------------------------------------------------------------------------
(* Nothing stays parked                                                    *)

Busy == run.stage \in {"start", "pass", "merge"}

\* Row r has yet to be placed, or to be merged into another one.
Pending(r) ==
    /\ Busy /\ r \in run.todo
    /\ \/ run.stage = "start" \/ r \in run.blocked \/ plan[r] \in run.groups
       \/ run.stage = "merge" /\ r \in run.losers

\* While nobody else deletes rows: rows that have yet to be placed are there, those
\* of batches to come included, and only they are parked; who has not been dealt
\* with sits where the pass has found it; and the survivor of a merge sits where
\* the losers were to go.
RowsKept ==
    /\ \A i \in DOMAIN Batches :
         i > run.batch \/ (i = run.batch /\ run.stage = "batch") => Batches[i] \subseteq Living
    /\ Busy => run.batch \in DOMAIN Batches /\ run.todo \subseteq Batches[run.batch]
    /\ \A r \in MediaRows : Pending(r) => r \in Living
    /\ \A r \in Living : sits[r][2] < 0 => Pending(r)
    /\ Working => \A r \in MediaRows :
                    r \notin run.todo \/ plan[r] \in run.groups => sits[r] = run.found[r]
    /\ run.stage = "merge" =>
         /\ run.survivor \in Living /\ ~Pending(run.survivor) /\ run.losers \subseteq run.todo
         /\ \A r \in run.losers :
              plan[r] = sits[run.survivor] /\ r \notin run.blocked /\ plan[r] \notin run.groups

LEMMA KeptInit == IdentitiesInit => RowsKept
<1> SUFFICES ASSUME IdentitiesInit PROVE RowsKept
  OBVIOUS
<1>1. sits = Home /\ run.stage = "batch"
  BY Zenon DEF IdentitiesInit
<1>2. \A r \in MediaRows : r \in Living /\ ~(sits[r][2] < 0)
  BY <1>1, PlacesAreSeats DEF Living
<1>3. \A i \in DOMAIN Batches : Batches[i] \subseteq MediaRows
  BY IdentitiesAssumption
<1>4. \A r \in MediaRows : ~Pending(r)
  BY <1>1 DEF Pending, Busy
<1>5. QED
  BY <1>1, <1>2, <1>3, <1>4 DEF RowsKept, Busy, Working, Living

\* A batch begins with its rows, which are all there.
LEMMA BatchRows ==
    ASSUME RowsTyped, RowsKept, BeginBatch
    PROVE  /\ run.batch \in DOMAIN Batches /\ run'.stage = "start" /\ run'.batch = run.batch
           /\ run'.todo = {r \in Batches[run.batch] : plan[r] # Nowhere}
           /\ run'.todo \subseteq Living /\ run'.todo \subseteq Batches[run.batch]
           /\ run'.vanished = run.vanished /\ sits' = sits /\ plan' = plan /\ links' = links
           /\ \A r \in MediaRows : Pending(r)' <=> r \in run'.todo
<1>1. run \in Runs /\ run.stage = "batch" /\ run.batch <= Len(Batches)
  BY Zenon DEF RowsTyped, RunOK, BeginBatch
<1>2. run.batch \in DOMAIN Batches
  BY <1>1, IdentitiesAssumption DEF Runs
<1>3. /\ run'.stage = "start" /\ run'.batch = run.batch
      /\ run'.todo = {r \in Batches[run.batch] : plan[r] # Nowhere}
      /\ run'.vanished = run.vanished /\ sits' = sits /\ plan' = plan /\ links' = links
  BY <1>1, Zenon DEF BeginBatch, Runs
<1>4. Batches[run.batch] \subseteq Living
  BY <1>1, <1>2, Zenon DEF RowsKept
<1>5. \A r \in MediaRows : Pending(r)' <=> r \in run'.todo
  BY <1>3 DEF Pending, Busy
<1>6. QED
  BY <1>2, <1>3, <1>4, <1>5

LEMMA KeptBegin == ASSUME RowsTyped, RowsKept, BeginBatch PROVE RowsKept'
<1>1. run.batch \in Nat
  BY DEF RowsTyped, RunOK, Runs
<1>2. \A i \in DOMAIN Batches : i > run.batch => Batches[i] \subseteq Living
  BY Zenon DEF RowsKept
<1>3. \A r \in Living : ~(sits[r][2] < 0)
  BY DEF RowsKept, Pending, Busy, BeginBatch
<1>4. QED
  BY <1>1, <1>2, <1>3, BatchRows DEF RowsKept, Busy, Working, Living

\* What waits for a pass are the rows that the batch or the last pass has left.
LEMMA KeptStart ==
    ASSUME RowsTyped, RowsKept, StartPass
    PROVE  RowsKept' /\ run'.vanished = run.vanished
           /\ \A r \in MediaRows : Pending(r)' <=> Pending(r)
<1>1. run \in Runs
  BY Zenon DEF RowsTyped, RunOK
<1>2. /\ run.stage = "start" /\ run'.stage = "pass" /\ run'.found = sits /\ run'.blocked = {}
      /\ run'.groups = {plan[r] : r \in run.todo} /\ run'.todo = run.todo
      /\ run'.batch = run.batch /\ run'.vanished = run.vanished /\ sits' = sits /\ plan' = plan
  BY <1>1, Zenon DEF StartPass, Runs
<1>3. \A r \in MediaRows : Pending(r)' <=> Pending(r)
  BY <1>2 DEF Pending, Busy
<1>4. QED
  BY <1>2, <1>3 DEF RowsKept, Busy, Working, Living

\* A group that is parked still has to be placed, and nobody else is moved.
LEMMA ParkPending ==
    ASSUME RowsTyped, RowsKept, run.stage = "pass", NEW identity \in run.groups, Park(identity)
    PROVE  \A r \in MediaRows :
             /\ Pending(r)' <=> Pending(r)
             /\ r \in Living' <=> r \in Living
             /\ r \notin Members(identity) => sits'[r] = sits[r]
<1> DEFINE M == Members(identity)
<1>1. /\ \A r \in MediaRows :
           sits'[r] = IF r \in M /\ sits[r] # Nowhere
                      THEN <<sits[r][1], -(run.parked + Cardinality(Upto(M, r)))>> ELSE sits[r]
      /\ run'.stage = run.stage /\ run'.todo = run.todo /\ run'.groups = run.groups \ {identity}
      /\ run'.blocked = run.blocked \cup M /\ plan' = plan
  BY ParkGives
<1>2. M = {r \in run.todo : plan[r] = identity}
  BY DEF Members
<1> SUFFICES ASSUME NEW r \in MediaRows
             PROVE  /\ Pending(r)' <=> Pending(r)
                    /\ r \in Living' <=> r \in Living
                    /\ r \notin M => sits'[r] = sits[r]
  OBVIOUS
<1> HIDE DEF M
<1>3. Pending(r)' <=> Pending(r)
  BY <1>1, <1>2 DEF Pending, Busy
<1>4. r \notin M => sits'[r] = sits[r]
  BY <1>1, Zenon
<1>5. sits'[r] = Nowhere <=> sits[r] = Nowhere
  <2>1. CASE r \in M /\ sits[r] # Nowhere
    <3>1. sits'[r] = <<sits[r][1], -(run.parked + Cardinality(Upto(M, r)))>>
      BY <1>1, <2>1, Zenon
    <3>2. QED
      BY <2>1, <3>1 DEF Nowhere
  <2>2. CASE ~(r \in M /\ sits[r] # Nowhere)
    BY <1>1, <2>2, Zenon
  <2>3. QED
    BY <2>1, <2>2
<1>6. QED
  BY <1>3, <1>4, <1>5, Zenon DEF Living

LEMMA KeptPark ==
    ASSUME RowsTyped, RowsKept, run.stage = "pass", NEW identity \in run.groups, Park(identity)
    PROVE  RowsKept'
<1> DEFINE M == Members(identity)
<1>1. /\ run'.stage = run.stage /\ run'.todo = run.todo /\ run'.groups = run.groups \ {identity}
      /\ run'.batch = run.batch /\ run'.found = run.found /\ plan' = plan
      /\ M \in SUBSET run.todo /\ run.todo \in SUBSET MediaRows /\ \A r \in M : plan[r] = identity
  BY ParkGives, GroupMembers
<1>2. \A r \in MediaRows : /\ Pending(r)' <=> Pending(r)
                           /\ r \in Living' <=> r \in Living
                           /\ r \notin M => sits'[r] = sits[r]
  BY ParkPending
<1>3. \A r \in M : Pending(r)
  BY <1>1 DEF Pending, Busy
<1> HIDE DEF M
<1>4. Living' = Living
  BY <1>2 DEF Living
<1>5. \A r \in Living' : sits'[r][2] < 0 => Pending(r)'
  <2> SUFFICES ASSUME NEW r \in MediaRows, r \in Living, sits'[r][2] < 0 PROVE Pending(r)
    BY <1>2, <1>4, Zenon DEF Living
  <2>1. CASE r \in M
    BY <1>3, <2>1
  <2>2. CASE r \notin M
    BY <1>2, <2>2, Zenon DEF RowsKept
  <2>3. QED
    BY <2>1, <2>2
<1>6. \A r \in MediaRows :
        r \notin run.todo \/ plan[r] \in run.groups \ {identity} => sits'[r] = run.found[r]
  <2> TAKE r \in MediaRows
  <2>1. r \notin run.todo \/ plan[r] \in run.groups \ {identity} => r \notin M
    BY <1>1
  <2>2. QED
    BY <1>2, <2>1 DEF RowsKept, Working
<1>7. \A r \in MediaRows : Pending(r)' => r \in Living'
  BY <1>2, <1>4, Zenon DEF RowsKept
<1>8. QED
  BY <1>1, <1>4, <1>5, <1>6, <1>7 DEF RowsKept, Busy, Working
\* The survivor of a group sits where the group was to go, the other members still
\* have to be merged, and nobody else is moved.
LEMMA LandPending ==
    ASSUME RowsTyped, Rounds, RowsKept, run.stage = "pass", NEW identity \in run.groups, Land(identity)
    PROVE  \E s \in MediaRows :
             /\ s = run'.survivor /\ sits'[s] = identity /\ ~Pending(s)'
             /\ Pending(s) => plan[s] = identity
             /\ ~Pending(s) => sits[s] = identity
             /\ \A r \in MediaRows \ {s} : (Pending(r)' <=> Pending(r)) /\ sits'[r] = sits[r]
<1> DEFINE M == Members(identity)
<1>0. PICK s \in MediaRows : s = run'.survivor
  BY LandGives
<1>1. /\ \/ run.found[s] = identity
         \/ s \in M /\ \A r \in MediaRows : run.found[r] # identity
      /\ \A r \in MediaRows :
           sits'[r] = IF r = s /\ run.found[s] # identity /\ sits[s] # Nowhere THEN identity ELSE sits[r]
      /\ run'.losers = M \ {s} /\ run'.stage = IF run'.losers = {} THEN "pass" ELSE "merge"
      /\ run'.groups = run.groups \ {identity}
      /\ run'.todo = run.todo /\ run'.blocked = run.blocked /\ plan' = plan
  BY <1>0, LandGives
<1>2. M = {r \in run.todo : plan[r] = identity}
  BY DEF Members
\* Who sits there is to stay there, in this batch.
<1>3. run.found[s] = identity => s \in M \/ s \notin run.todo
  BY <1>1 DEF Land, InTheWay, Sitting
<1>4. run.found[s] = identity => sits[s] = identity
  <2>1. s \in M => plan[s] \in run.groups
    BY <1>2
  <2>2. QED
    BY <1>1, <1>3, <2>1 DEF RowsKept, Working
<1>5. s \in M => Pending(s) /\ sits[s] # Nowhere
  <2>1. s \in M => Pending(s)
    BY <1>2 DEF Pending, Busy
  <2>2. QED
    BY <1>1, <2>1, Zenon DEF RowsKept, Living
<1>6. sits'[s] = identity
  BY <1>1, <1>4, <1>5
<1>7. ASSUME NEW r \in MediaRows \ {s}
      PROVE  (Pending(r)' <=> Pending(r)) /\ sits'[r] = sits[r]
  <2>1. sits'[r] = sits[r]
    BY <1>1, <1>7
  <2>2. Pending(r)' <=> Pending(r)
    <3>1. CASE r \in M
      <4>1. r \in run'.losers /\ run'.stage = "merge" /\ r \in run.todo /\ plan[r] \in run.groups
        BY <1>1, <1>2, <1>7, <3>1
      <4>2. QED
        BY <1>1, <4>1 DEF Pending, Busy
    <3>2. CASE r \notin M
      BY <1>1, <1>2, <1>7, <3>2 DEF Pending, Busy
    <3>3. QED
      BY <3>1, <3>2
  <2>3. QED
    BY <2>1, <2>2
<1>8. ~Pending(s)' /\ (Pending(s) => plan[s] = identity) /\ (~Pending(s) => sits[s] = identity)
  <2>1. CASE s \in M
    <3>1. s \notin run.blocked
      BY <1>2, <2>1 DEF Rounds, Working
    <3>2. QED
      BY <1>1, <1>2, <1>5, <2>1, <3>1 DEF Pending, Busy
  <2>2. CASE s \notin M
    <3>1. run.found[s] = identity /\ s \notin run.todo
      BY <1>1, <1>3, <2>2
    <3>2. QED
      BY <1>1, <1>4, <3>1 DEF Pending, Busy
  <2>3. QED
    BY <2>1, <2>2
<1>9. QED
  BY <1>0, <1>6, <1>7, <1>8
LEMMA KeptLand ==
    ASSUME RowsTyped, Rounds, RowsKept, run.stage = "pass", NEW identity \in run.groups, Land(identity)
    PROVE  RowsKept'
<1>1. PICK s \in MediaRows :
        /\ s = run'.survivor /\ sits'[s] = identity /\ ~Pending(s)'
        /\ Pending(s) => plan[s] = identity
        /\ ~Pending(s) => sits[s] = identity
        /\ \A r \in MediaRows \ {s} : (Pending(r)' <=> Pending(r)) /\ sits'[r] = sits[r]
  BY LandPending
<1>2. /\ run'.groups = run.groups \ {identity} /\ run'.found = run.found
      /\ run'.todo = run.todo /\ run'.blocked = run.blocked /\ run'.batch = run.batch
      /\ run'.losers = Members(identity) \ {s} /\ run'.stage \in {"pass", "merge"}
      /\ plan' = plan
  BY <1>1, LandGives
<1>3. /\ identity # Nowhere /\ ~(identity[2] < 0) /\ Members(identity) \in SUBSET run.todo
      /\ run.todo \in SUBSET MediaRows /\ \A r \in Members(identity) : plan[r] = identity
  BY GroupMembers, PlacesAreSeats
<1>4. Living \subseteq Living' /\ s \in Living'
  BY <1>1, <1>3 DEF Living
<1>5. \A r \in MediaRows : Pending(r)' => r \in Living'
  BY <1>1, <1>4, Zenon DEF RowsKept
<1>6. ASSUME NEW r \in MediaRows, r \in Living', sits'[r][2] < 0 PROVE Pending(r)'
  <2>1. r # s
    BY <1>1, <1>3, <1>6
  <2>2. sits'[r] = sits[r] /\ (Pending(r)' <=> Pending(r))
    BY <1>1, <2>1, Zenon
  <2>3. r \in Living /\ sits[r][2] < 0
    BY <1>6, <2>2, Zenon DEF Living
  <2>4. QED
    BY <2>2, <2>3, Zenon DEF RowsKept
<1>7. ASSUME NEW r \in MediaRows, r \notin run.todo \/ plan[r] \in run.groups \ {identity}
      PROVE  sits'[r] = run.found[r]
  <2>1. sits[r] = run.found[r]
    BY <1>7, Zenon DEF RowsKept, Working
  <2>2. CASE r = s
    <3>1. ~Pending(s)
      BY <1>1, <1>7, <2>2 DEF Pending
    <3>2. QED
      BY <1>1, <2>1, <2>2, <3>1, Zenon
  <2>3. CASE r # s
    BY <1>1, <2>1, <2>3, Zenon
  <2>4. QED
    BY <2>2, <2>3
<1>8. \A r \in Members(identity) \ {s} : r \notin run.blocked
  BY <1>3 DEF Rounds, Working
<1>9. \A r \in Living' : sits'[r][2] < 0 => Pending(r)'
  BY <1>6 DEF Living
<1>10. run'.survivor \in Living' /\ ~Pending(run.survivor)'
  BY <1>1, <1>4, Zenon DEF Pending, Busy
<1>11. run'.stage = "merge" =>
         /\ run'.losers \subseteq run'.todo
         /\ \A r \in run'.losers :
              plan'[r] = sits'[run'.survivor] /\ r \notin run'.blocked /\ plan'[r] \notin run'.groups
  BY <1>1, <1>2, <1>3, <1>8
<1>12. /\ \A i \in DOMAIN Batches : i > run.batch => Batches[i] \subseteq Living'
       /\ run.batch \in DOMAIN Batches /\ run.todo \subseteq Batches[run.batch]
  BY <1>4 DEF RowsKept, Busy
<1>13. QED
  BY <1>2, <1>5, <1>7, <1>9, <1>10, <1>11, <1>12 DEF RowsKept, Busy, Working

\* The losers are deleted, and none of the other rows is.
LEMMA MergePending ==
    ASSUME RowsTyped, RowsKept, MergeRows
    PROVE  /\ run.losers \subseteq run.todo
           /\ run.survivor \in Living /\ run.survivor \notin run.losers
           /\ \A r \in run.losers : Pending(r) /\ plan[r] = sits[run.survivor] /\ sits'[r] = Nowhere
           /\ \A r \in MediaRows \ run.losers :
                /\ Pending(r)' <=> Pending(r)
                /\ sits'[r] = sits[r] /\ links[r] \subseteq links'[r]
           /\ \A r \in run.losers : links[r] \subseteq links'[run.survivor]
<1>1. /\ run.stage = "merge" /\ run.survivor \notin run.losers
      /\ run.survivor \in Living /\ run.losers \subseteq run.todo /\ run.todo \subseteq MediaRows
      /\ \A r \in run.losers : plan[r] = sits[run.survivor]
                               /\ r \notin run.blocked /\ plan[r] \notin run.groups
  BY DEF RowsKept, MergeRows, RowsTyped, GroupsOK, RunOK, Runs
<1>2. \A r \in run.losers : Pending(r)
  BY <1>1 DEF Pending, Busy
<1>3. run.losers \cap Living = run.losers
  BY <1>1, <1>2, Zenon DEF RowsKept
<1>4. /\ \A r \in MediaRows : sits'[r] = IF r \in run.losers THEN Nowhere ELSE sits[r]
      /\ \A r \in MediaRows :
           /\ r = run.survivor /\ r \notin run.losers =>
                links'[r] = links[r] \cup UNION {links[q] : q \in run.losers}
           /\ r # run.survivor /\ r \notin run.losers => links'[r] = links[r]
      /\ run'.stage = "pass" /\ run'.todo = run.todo /\ run'.groups = run.groups
      /\ run'.blocked = run.blocked /\ plan' = plan
  BY <1>1, <1>3, MergeGives
<1>5. ASSUME NEW r \in MediaRows \ run.losers
      PROVE  /\ Pending(r)' <=> Pending(r)
             /\ sits'[r] = sits[r] /\ links[r] \subseteq links'[r]
  <2>1. Pending(r)' <=> Pending(r)
    BY <1>1, <1>4, <1>5 DEF Pending, Busy
  <2>2. links[r] \subseteq links'[r]
    BY <1>4, <1>5, Zenon
  <2>3. QED
    BY <1>4, <1>5, <2>1, <2>2, Zenon
<1>6. \A r \in run.losers : links[r] \subseteq links'[run.survivor]
  <2>1. links'[run.survivor] = links[run.survivor] \cup UNION {links[q] : q \in run.losers}
    BY <1>1, <1>4, Zenon DEF Living
  <2>2. QED
    BY <2>1, Zenon
<1>7. QED
  BY <1>1, <1>2, <1>4, <1>5, <1>6, Zenon

LEMMA KeptMerge ==
    ASSUME RowsTyped, RowsKept, MergeRows
    PROVE  RowsKept'
<1>1. /\ run.losers \subseteq run.todo /\ run.todo \subseteq MediaRows
      /\ \A r \in run.losers : Pending(r) /\ sits'[r] = Nowhere
      /\ \A r \in MediaRows \ run.losers : (Pending(r)' <=> Pending(r)) /\ sits'[r] = sits[r]
  BY MergePending DEF RowsTyped, RunOK, Runs
<1>2. /\ run.stage = "merge" /\ run'.stage = "pass" /\ run'.todo = run.todo
      /\ run'.groups = run.groups /\ run'.found = run.found /\ run'.batch = run.batch /\ plan' = plan
      /\ run'.blocked = run.blocked
  BY MergeGives
<1>3. \A r \in run.losers : ~Pending(r)'
  BY <1>2 DEF RowsKept, Pending, Busy
<1>4. Living' = Living \ run.losers
  BY <1>1 DEF Living
<1>5. \A r \in MediaRows : Pending(r)' => r \in Living'
  BY <1>1, <1>3, <1>4, Zenon DEF RowsKept
<1>6. \A r \in Living' : sits'[r][2] < 0 => Pending(r)'
  <2> SUFFICES ASSUME NEW r \in Living', sits'[r][2] < 0 PROVE Pending(r)'
    OBVIOUS
  <2>1. r \in MediaRows \ run.losers /\ r \in Living
    BY <1>4 DEF Living
  <2>2. sits[r][2] < 0
    BY <1>1, <2>1, Zenon
  <2>3. QED
    BY <1>1, <2>1, <2>2, Zenon DEF RowsKept
<1>7. \A r \in MediaRows : r \notin run.todo \/ plan[r] \in run.groups => sits'[r] = run.found[r]
  <2>1. \A r \in run.losers : plan[r] \notin run.groups
    BY <1>2 DEF RowsKept
  <2>2. QED
    BY <1>1, <1>2, <2>1, Zenon DEF RowsKept, Working
<1>8. \A i \in DOMAIN Batches : i > run.batch => Batches[i] \subseteq Living'
  <2> SUFFICES ASSUME NEW i \in DOMAIN Batches, i > run.batch PROVE Batches[i] \subseteq Living'
    OBVIOUS
  <2>1. /\ Batches[i] \subseteq Living /\ run.batch \in DOMAIN Batches
        /\ run.todo \subseteq Batches[run.batch]
    BY <1>2 DEF RowsKept, Busy
  <2>2. i # run.batch
    BY DEF RowsTyped, RunOK, Runs
  <2>3. Batches[i] \cap Batches[run.batch] = {}
    BY <2>1, <2>2, IdentitiesAssumption
  <2>4. QED
    BY <1>1, <1>4, <2>1, <2>3, Zenon
<1>9. QED
  BY <1>2, <1>5, <1>6, <1>7, <1>8 DEF RowsKept, Busy, Working

\* A batch ends when nobody waits; what was parked waits for the next pass.
LEMMA KeptEnd ==
    ASSUME RowsTyped, Rounds, RowsKept, EndPass
    PROVE  /\ RowsKept' /\ run'.vanished = run.vanished /\ sits' = sits /\ links' = links /\ plan' = plan
           /\ \A r \in MediaRows : Pending(r)' <=> Pending(r)
           /\ run'.stage \in {"start", "batch"} /\ run'.batch \in {run.batch, run.batch + 1}
           /\ run'.stage = "batch" => run'.batch = run.batch + 1
<1>1. run \in Runs
  BY Zenon DEF RowsTyped, RunOK
<1>2. run.stage = "pass" /\ run.groups = {} /\ UNCHANGED <<sits, links, tally, books, plan>>
  BY Zenon DEF EndPass
<1>3. CASE run.blocked # {}
  <2>1. run.pass = 1
    BY <1>2, <1>3 DEF Rounds, Working
  <2>2. run' = [run EXCEPT !.stage = "start", !.pass = @ + 1, !.todo = run.blocked]
    BY <1>3, <2>1 DEF EndPass
  <2>3. /\ run'.stage = "start" /\ run'.todo = run.blocked /\ run'.batch = run.batch
        /\ run'.vanished = run.vanished
    BY <1>1, <2>2, Zenon DEF Runs
  <2>4. run.blocked \subseteq run.todo
    BY DEF RowsTyped, GroupsOK
  <2>5. \A r \in MediaRows : Pending(r)' <=> Pending(r)
    BY <1>2, <2>3, <2>4 DEF Pending, Busy
  <2>6. QED
    BY <1>2, <2>3, <2>4, <2>5 DEF RowsKept, Busy, Working, Living
<1>4. CASE run.blocked = {}
  <2>1. run' = [run EXCEPT !.stage = "batch", !.batch = @ + 1]
    BY <1>4 DEF EndPass
  <2>2. run'.stage = "batch" /\ run'.batch = run.batch + 1 /\ run'.vanished = run.vanished
    BY <1>1, <2>1, Zenon DEF Runs
  <2>3. \A r \in MediaRows : Pending(r)' <=> Pending(r)
    BY <1>2, <1>4, <2>2 DEF Pending, Busy
  <2>4. \A i \in DOMAIN Batches : i >= run.batch + 1 => i > run.batch
    BY <1>1, IdentitiesAssumption DEF Runs
  <2>5. \A i \in DOMAIN Batches : i > run'.batch \/ i = run'.batch => i >= run.batch + 1
    BY <1>1, <2>2, IdentitiesAssumption DEF Runs
  <2>6. QED
    BY <1>2, <2>2, <2>3, <2>4, <2>5 DEF RowsKept, Busy, Working, Living
<1>5. QED
  BY <1>3, <1>4

LEMMA KeptRecount ==
    ASSUME RowsTyped, RowsKept, RecountSeasons \/ RecountWorks
    PROVE  RowsKept' /\ \A r \in MediaRows : ~Pending(r) /\ ~Pending(r)'
<1>1. /\ \A r \in MediaRows : sits'[r] = sits[r] \/ sits'[r] = Nowhere
      /\ run'.stage \in {"works", "end"} /\ run.stage \in {"batch", "works"}
      /\ run'.batch = run.batch
      /\ run.stage = "batch" => run.batch > Len(Batches)
      /\ run.stage = "works" => sits' = sits
  BY WorksRecounted
<1>2. \A r \in MediaRows : ~Pending(r) /\ ~Pending(r)'
  BY <1>1 DEF Pending, Busy
<1>3. \A i \in DOMAIN Batches : i > run.batch => Batches[i] \subseteq Living'
  <2>1. CASE run.stage = "batch"
    BY <1>1, <2>1, IdentitiesAssumption DEF RowsTyped, RunOK, Runs
  <2>2. CASE run.stage = "works"
    BY <1>1, <2>2, Zenon DEF RowsKept, Living
  <2>3. QED
    BY <1>1, <2>1, <2>2
<1>4. \A r \in Living' : r \in Living /\ sits'[r] = sits[r]
  BY <1>1, Zenon DEF Living
<1>5. \A r \in Living' : ~(sits'[r][2] < 0)
  BY <1>2, <1>4, Zenon DEF RowsKept, Living
<1>6. QED
  BY <1>1, <1>2, <1>3, <1>5 DEF RowsKept, Busy, Working
\* Nothing else has been deleted.
Alone == run.vanished = {}

LEMMA AloneBefore ==
    ASSUME RowsTyped, [IdentitiesNext]_identities, Alone'
    PROVE  Alone /\ \A r \in MediaRows : ~Vanish(r)
<1>1. run \in Runs
  BY Zenon DEF RowsTyped, RunOK
<1>2. \A r \in MediaRows : ~Vanish(r)
  <2> SUFFICES ASSUME NEW r \in MediaRows, Vanish(r) PROVE FALSE
    OBVIOUS
  <2>1. run'.vanished = run.vanished \cup {r}
    BY VanishGives
  <2>2. QED
    BY <2>1 DEF Alone
<1>3. SUFFICES Alone
  BY <1>2
<1>4. CASE BeginBatch \/ StartPass
  BY <1>1, <1>4, Zenon DEF BeginBatch, StartPass, Runs, Alone
<1>5. CASE EndPass
  BY <1>1, <1>5 DEF EndPass, Runs, Alone
<1>6. CASE PlaceGroup
  <2>1. run.stage = "pass"
    BY <1>6 DEF PlaceGroup
  <2>2. PICK identity \in run.groups : Park(identity) \/ Land(identity)
    BY <1>6 DEF PlaceGroup
  <2>3. QED
    BY <2>1, <2>2, ParkGives, LandGives DEF Alone
<1>7. CASE MergeRows
  BY <1>7, MergeGives DEF Alone
<1>8. CASE RecountSeasons \/ RecountWorks
  BY <1>8, WorksRecounted DEF Alone
<1>9. CASE UNCHANGED identities
  BY <1>9, Zenon DEF identities, Alone
<1>10. QED
  BY <1>2, <1>4, <1>5, <1>6, <1>7, <1>8, <1>9 DEF IdentitiesNext

LEMMA KeptNext ==
    RowsTyped /\ Rounds /\ (Alone => RowsKept) /\ [IdentitiesNext]_identities => (Alone => RowsKept)'
<1> SUFFICES ASSUME RowsTyped, Rounds, Alone => RowsKept, [IdentitiesNext]_identities, Alone' PROVE RowsKept'
  OBVIOUS
<1>1. RowsKept /\ \A r \in MediaRows : ~Vanish(r)
  BY AloneBefore
<1>2. CASE PlaceGroup
  <2>1. PICK identity \in run.groups : Park(identity) \/ Land(identity)
    BY <1>2 DEF PlaceGroup
  <2>2. run.stage = "pass"
    BY <1>2 DEF PlaceGroup
  <2>3. QED
    BY <1>1, <2>1, <2>2, KeptPark, KeptLand
<1>3. CASE UNCHANGED identities
  BY <1>1, <1>3, Zenon DEF identities, RowsKept, Busy, Working, Pending, Living
<1>4. QED
  BY <1>1, <1>2, <1>3, KeptBegin, KeptStart, KeptMerge, KeptEnd, KeptRecount DEF IdentitiesNext

\* Between batches nothing is parked.
LEMMA KeptUnparked ==
    ASSUME RowsTyped, RowsKept, ~Busy
    PROVE  Unparked
<1>1. \A r \in Living : ~(sits[r][2] < 0)
  BY DEF RowsKept, Pending
<1>2. \A r \in Living : sits[r][2] \in Int
  <2>1. \A r \in Living : sits[r] \in Seat /\ sits[r] # Nowhere
    BY Zenon DEF RowsTyped, SeatsOK, Living
  <2>2. QED
    BY <2>1, PlacesAreSeats, Zenon
<1>3. QED
  BY <1>1, <1>2 DEF Unparked

\* However the rows of a plan are cut into batches, no two of them share an
\* identity, and when a batch is committed no season is parked any more, as long as
\* nobody else deletes rows (assign.py:29-31, 90-160, rebuild.py:200-265).
THEOREM UndisturbedApart ==
    IdentitiesSpec => [](Alone => IdentityUnique /\ (run.stage \in {"batch", "end"} => Unparked))
<1> DEFINE Still == (Alone => RowsKept) /\ (Alone => Seats)
<1>1. RowsTyped /\ Rounds /\ Still /\ [IdentitiesNext]_identities => Still'
  <2> SUFFICES ASSUME RowsTyped, Rounds, Still, [IdentitiesNext]_identities, Alone' PROVE Seats'
    BY KeptNext
  <2>1. RowsKept /\ Seats
    BY AloneBefore
  <2>2. run.stage = "batch" /\ run.batch <= Len(Batches) => Unparked
    BY <2>1, KeptUnparked DEF Busy
  <2>3. QED
    BY <2>1, <2>2, SeatsNext
<1>2. IdentitiesInit => Rounds /\ Still
  BY KeptInit, SeatsInit DEF IdentitiesInit, Rounds, Working
<1>3. RowsTyped /\ Still => (Alone => IdentityUnique /\ (run.stage \in {"batch", "end"} => Unparked))
  BY KeptUnparked DEF Seats, Busy
<1> HIDE DEF Still
<1>4. QED
  BY <1>1, <1>2, <1>3, RowsTypedInit, RowsTypedNext, RoundsNext, PTL DEF IdentitiesSpec

-----------------------------------------------------------------------------
(* Where the links go                                                      *)

\* Where row r was to be in the end.
Goal(r) == IF plan[r] = Nowhere THEN Home[r] ELSE plan[r]

\* The first batch has not begun, and row r is to be moved.
Unbegun(r) == run.stage = "batch" /\ run.batch = 1 /\ plan[r] # Nowhere

\* Where the links of row q are bound for.
Bound(q) == IF Pending(q) \/ Unbegun(q) THEN plan[q] ELSE sits[q]

\* Each link is at a row that is bound for where the link was to go.
Followed ==
    \A r \in MediaRows : \A l \in Holds[r] :
      \E q \in MediaRows : sits[q] # Nowhere /\ l \in links[q] /\ Bound(q) = Goal(r)

\* A step after which each link is at the row it was at, or at one that is bound
\* for the same place, keeps it so.
LEMMA FollowedBy ==
    ASSUME Followed, plan' = plan,
           \A q \in MediaRows : sits[q] # Nowhere => \A l \in links[q] :
             \E z \in MediaRows : sits'[z] # Nowhere /\ l \in links'[z] /\ Bound(z)' = Bound(q)
    PROVE  Followed'
<1> SUFFICES ASSUME NEW r \in MediaRows, NEW l \in Holds[r]
             PROVE  \E z \in MediaRows : sits'[z] # Nowhere /\ l \in links'[z] /\ Bound(z)' = Goal(r)'
  BY Zenon DEF Followed
<1>1. PICK q \in MediaRows : sits[q] # Nowhere /\ l \in links[q] /\ Bound(q) = Goal(r)
  BY Zenon DEF Followed
<1>2. Goal(r)' = Goal(r)
  BY Zenon DEF Goal
<1>3. QED
  BY <1>1, <1>2, Zenon

LEMMA FollowedInit == IdentitiesInit => Followed
<1> SUFFICES ASSUME IdentitiesInit, NEW r \in MediaRows, NEW l \in Holds[r]
             PROVE  sits[r] # Nowhere /\ l \in links[r] /\ Bound(r) = Goal(r)
  BY DEF Followed
<1>1. sits = Home /\ links = Holds /\ run.stage = "batch" /\ run.batch = 1
  BY Zenon DEF IdentitiesInit
<1>2. Home[r] # Nowhere
  BY PlacesAreSeats
<1>3. ~Pending(r) /\ (Unbegun(r) <=> plan[r] # Nowhere)
  BY <1>1 DEF Pending, Busy, Unbegun
<1>4. QED
  BY <1>1, <1>2, <1>3, Zenon DEF Bound, Goal

LEMMA FollowedBegin ==
    ASSUME Batches = <<MediaRows>>, RowsTyped, RowsKept, Followed, BeginBatch
    PROVE  Followed'
<1>1. /\ run.batch = 1 /\ run'.todo = {r \in MediaRows : plan[r] # Nowhere} /\ run'.stage = "start"
      /\ sits' = sits /\ links' = links /\ plan' = plan
      /\ \A r \in MediaRows : Pending(r)' <=> r \in run'.todo
  BY BatchRows
<1>2. run.stage = "batch"
  BY DEF BeginBatch
<1>3. \A q \in MediaRows : ~Pending(q) /\ ~Unbegun(q)' /\ (Unbegun(q) <=> plan[q] # Nowhere)
  BY <1>1, <1>2 DEF Pending, Busy, Unbegun
<1>4. \A q \in MediaRows : Bound(q)' = Bound(q)
  BY <1>1, <1>3, Zenon DEF Bound
<1>5. QED
  BY <1>1, <1>4, FollowedBy, Zenon

LEMMA FollowedPlace ==
    ASSUME RowsTyped, Rounds, RowsKept, Followed, PlaceGroup
    PROVE  Followed'
<1>1. run.stage = "pass"
  BY DEF PlaceGroup
<1>2. PICK identity \in run.groups : Park(identity) \/ Land(identity)
  BY DEF PlaceGroup
<1>3. CASE Park(identity)
  <2>1. \A r \in MediaRows : /\ Pending(r)' <=> Pending(r)
                             /\ r \in Living' <=> r \in Living
                             /\ r \notin Members(identity) => sits'[r] = sits[r]
    BY <1>1, <1>2, <1>3, ParkPending
  <2>2. run'.stage = "pass" /\ plan' = plan /\ links' = links
    BY <1>1, <1>2, <1>3, ParkGives
  <2>3. \A r \in Members(identity) : Pending(r)
    BY <1>1 DEF Members, Pending, Busy
  <2>4. \A q \in MediaRows : ~Unbegun(q) /\ ~Unbegun(q)'
    BY <1>1, <2>2 DEF Unbegun
  <2>5. \A q \in MediaRows : Bound(q)' = Bound(q)
    BY <2>1, <2>2, <2>3, <2>4, Zenon DEF Bound
  <2>6. QED
    BY <2>1, <2>2, <2>5, FollowedBy, Zenon DEF Living
<1>4. CASE Land(identity)
  <2>1. PICK s \in MediaRows :
          /\ s = run'.survivor /\ sits'[s] = identity /\ ~Pending(s)'
          /\ Pending(s) => plan[s] = identity
          /\ ~Pending(s) => sits[s] = identity
          /\ \A r \in MediaRows \ {s} : (Pending(r)' <=> Pending(r)) /\ sits'[r] = sits[r]
    BY <1>1, <1>2, <1>4, LandPending
  <2>2. run'.stage \in {"pass", "merge"} /\ plan' = plan /\ links' = links
    BY <1>1, <1>2, <1>4, LandGives
  <2>3. identity # Nowhere
    BY <1>2, GroupMembers, PlacesAreSeats
  <2>4. \A q \in MediaRows : ~Unbegun(q) /\ ~Unbegun(q)'
    BY <1>1, <2>2 DEF Unbegun
  <2>5. \A q \in MediaRows : Bound(q)' = Bound(q)
    BY <2>1, <2>2, <2>4, Zenon DEF Bound
  <2>6. \A q \in MediaRows : sits[q] # Nowhere => sits'[q] # Nowhere
    BY <2>1, <2>3, Zenon
  <2>7. QED
    BY <2>2, <2>5, <2>6, FollowedBy, Zenon
<1>5. QED
  BY <1>2, <1>3, <1>4

LEMMA FollowedMerge ==
    ASSUME RowsTyped, RowsKept, Followed, MergeRows
    PROVE  Followed'
<1>1. /\ run.losers \subseteq run.todo
      /\ run.survivor \in Living /\ run.survivor \notin run.losers
      /\ \A r \in run.losers : Pending(r) /\ plan[r] = sits[run.survivor] /\ sits'[r] = Nowhere
      /\ \A r \in MediaRows \ run.losers :
           /\ Pending(r)' <=> Pending(r)
           /\ sits'[r] = sits[r] /\ links[r] \subseteq links'[r]
      /\ \A r \in run.losers : links[r] \subseteq links'[run.survivor]
  BY MergePending
<1>2. run.stage = "merge" /\ run'.stage = "pass" /\ plan' = plan
  BY MergeGives
<1>3. \A q \in MediaRows : ~Unbegun(q) /\ ~Unbegun(q)'
  BY <1>2 DEF Unbegun
<1>4. \A q \in MediaRows \ run.losers : Bound(q)' = Bound(q)
  BY <1>1, <1>2, <1>3, Zenon DEF Bound
<1>5. ASSUME NEW q \in MediaRows, sits[q] # Nowhere, NEW l \in links[q]
      PROVE  \E z \in MediaRows : sits'[z] # Nowhere /\ l \in links'[z] /\ Bound(z)' = Bound(q)
  <2>1. CASE q \in run.losers
    <3>1. PICK z \in MediaRows : z = run.survivor
      BY <1>1 DEF Living
    <3>2. z \notin run.losers /\ sits[z] # Nowhere /\ l \in links'[z] /\ plan[q] = sits[z]
      BY <1>1, <1>5, <2>1, <3>1, Zenon DEF Living
    <3>3. ~Pending(z)
      BY <1>2, <3>1, Zenon DEF RowsKept
    <3>4. Bound(z)' = sits[z] /\ Bound(q) = plan[q]
      BY <1>1, <1>3, <1>4, <2>1, <3>2, <3>3, Zenon DEF Bound
    <3>5. sits'[z] # Nowhere
      BY <1>1, <3>2, Zenon
    <3>6. QED
      BY <3>2, <3>4, <3>5, Zenon
  <2>2. CASE q \notin run.losers
    BY <1>1, <1>4, <1>5, <2>2, Zenon
  <2>3. QED
    BY <2>1, <2>2
<1>6. QED
  BY <1>2, <1>5, FollowedBy, Zenon

LEMMA FollowedNext ==
    ASSUME Batches = <<MediaRows>>
    PROVE  RowsTyped /\ Rounds /\ (Alone => RowsKept) /\ (Alone => Followed) /\ [IdentitiesNext]_identities
             => (Alone => Followed)'
<1> SUFFICES ASSUME RowsTyped, Rounds, Alone => RowsKept, Alone => Followed,
                    [IdentitiesNext]_identities, Alone'
             PROVE  Followed'
  OBVIOUS
<1>1. RowsKept /\ Followed /\ \A r \in MediaRows : ~Vanish(r)
  BY AloneBefore
<1>2. CASE BeginBatch
  BY <1>1, <1>2, FollowedBegin
<1>3. CASE PlaceGroup
  BY <1>1, <1>3, FollowedPlace
<1>4. CASE MergeRows
  BY <1>1, <1>4, FollowedMerge
<1>5. CASE StartPass
  <2>1. \A r \in MediaRows : Pending(r)' <=> Pending(r)
    BY <1>1, <1>5, KeptStart
  <2>2. UNCHANGED <<sits, links, plan>> /\ run.stage = "start"
    BY <1>5, Zenon DEF StartPass
  <2>3. run'.stage = "pass"
    BY <1>5, Zenon DEF StartPass, RowsTyped, RunOK, Runs
  <2>4. \A q \in MediaRows : ~Unbegun(q) /\ ~Unbegun(q)'
    BY <2>2, <2>3 DEF Unbegun
  <2>5. \A q \in MediaRows : Bound(q)' = Bound(q)
    BY <2>1, <2>2, <2>4, Zenon DEF Bound
  <2>6. QED
    BY <1>1, <2>2, <2>5, FollowedBy, Zenon
<1>6. CASE EndPass
  <2>1. /\ sits' = sits /\ links' = links /\ plan' = plan
        /\ \A r \in MediaRows : Pending(r)' <=> Pending(r)
        /\ run'.stage = "batch" => run'.batch = run.batch + 1
    BY <1>1, <1>6, KeptEnd
  <2>2. run.stage = "pass" /\ run.batch \in Nat \ {0}
    BY <1>6 DEF EndPass, RowsTyped, RunOK, Runs
  <2>3. \A q \in MediaRows : ~Unbegun(q) /\ ~Unbegun(q)'
    BY <2>1, <2>2 DEF Unbegun
  <2>4. \A q \in MediaRows : Bound(q)' = Bound(q)
    BY <2>1, <2>3, Zenon DEF Bound
  <2>5. QED
    BY <1>1, <2>1, <2>4, FollowedBy, Zenon
<1>7. CASE RecountSeasons \/ RecountWorks
  <2>1. /\ \A r \in MediaRows :
             sits'[r] = sits[r] \/ (sits'[r] = Nowhere /\ links[r] = {})
        /\ run'.stage \in {"works", "end"} /\ links' = links /\ plan' = plan
        /\ run.stage = "batch" => run.batch > Len(Batches)
    BY <1>7, WorksRecounted
  <2>2. \A r \in MediaRows : ~Pending(r) /\ ~Pending(r)'
    BY <1>1, <1>7, KeptRecount
  <2>3. \A q \in MediaRows : ~Unbegun(q) /\ ~Unbegun(q)'
    BY <2>1 DEF Unbegun
  <2>4. \A q \in MediaRows : \A l \in links[q] : sits'[q] = sits[q] /\ Bound(q)' = Bound(q)
    BY <2>1, <2>2, <2>3, Zenon DEF Bound
  <2>5. QED
    BY <1>1, <2>1, <2>4, FollowedBy, Zenon
<1>8. CASE UNCHANGED identities
  <2>1. sits' = sits /\ links' = links /\ plan' = plan /\ run' = run
    BY <1>8, Zenon DEF identities
  <2>2. \A q \in MediaRows : Bound(q)' = Bound(q)
    BY <2>1, Zenon DEF Bound, Unbegun, Pending, Busy
  <2>3. QED
    BY <1>1, <2>1, <2>2, FollowedBy, Zenon
<1>9. QED
  BY <1>1, <1>2, <1>3, <1>4, <1>5, <1>6, <1>7, <1>8 DEF IdentitiesNext

\* In a batch of all rows, every link ends up where its row was to go, or was when
\* it was to stay: what rows only meet on the way does not get their links
\* (assign.py:16-31, 90-160, merge.py:120-200).
THEOREM LinksArrive ==
    ASSUME Batches = <<MediaRows>>
    PROVE  IdentitiesSpec => []LinksFollowPlan
<1> DEFINE Still == (Alone => RowsKept) /\ (Alone => Followed)
<1>1. RowsTyped /\ Rounds /\ Still /\ [IdentitiesNext]_identities => Still'
  BY KeptNext, FollowedNext
<1>2. IdentitiesInit => Rounds /\ Still
  BY KeptInit, FollowedInit DEF IdentitiesInit, Rounds, Working
<1>3. Still => LinksFollowPlan
  <2> SUFFICES ASSUME Followed, run.stage = "end", NEW r \in MediaRows, NEW l \in Holds[r]
               PROVE  \E q \in Living : l \in links[q] /\ sits[q] = Goal(r)
    BY Zenon DEF LinksFollowPlan, Alone, Goal
  <2>1. \A q \in MediaRows : Bound(q) = sits[q]
    BY DEF Bound, Pending, Busy, Unbegun
  <2>2. QED
    BY <2>1, Zenon DEF Followed, Living
<1> HIDE DEF Still
<1>4. QED
  BY <1>1, <1>2, <1>3, RowsTypedInit, RowsTypedNext, RoundsNext, PTL DEF IdentitiesSpec

-----------------------------------------------------------------------------
(* The counts                                                              *)

\* The sum of what g gives for the elements of S.
Total(g, S) == MapThenSumSet(LAMBDA r : g[r], S)

\* Sums over a set are the same if the numbers are.
LEMMA SameSums ==
    ASSUME NEW S, NEW g, NEW h, \A r \in S : g[r] = h[r]
    PROVE  Total(g, S) = Total(h, S)
<1> DEFINE Pick(s) == CHOOSE x \in s : TRUE
           F(f) == [s \in SUBSET S |-> IF s = {} THEN 0 ELSE g[Pick(s)] + f[s \ {Pick(s)}]]
           G(f) == [s \in SUBSET S |-> IF s = {} THEN 0 ELSE h[Pick(s)] + f[s \ {Pick(s)}]]
<1>1. \A f : F(f) = G(f)
  OBVIOUS
<1>2. Total(g, S) = (CHOOSE f : f = F(f))[S]
  BY Zenon DEF Total, MapThenSumSet, MapThenFoldSet
<1>3. Total(h, S) = (CHOOSE f : f = G(f))[S]
  BY Zenon DEF Total, MapThenSumSet, MapThenFoldSet
<1>4. (CHOOSE f : f = F(f)) = (CHOOSE f : f = G(f))
  <2> HIDE DEF F, G
  <2>1. QED
    BY <1>1, Zenon
<1>5. QED
  BY <1>2, <1>3, <1>4

\* The books of a work are about the rows it has, and their counts.
LEMMA SameBooks ==
    ASSUME NEW w, NEW where, NEW there, NEW g, NEW h,
           \A r \in MediaRows :
             /\ where[r] # Nowhere /\ where[r][1] = w <=> there[r] # Nowhere /\ there[r][1] = w
             /\ where[r] # Nowhere /\ where[r][1] = w => g[r] = h[r]
    PROVE  Booked(w, where, g) = Booked(w, there, h)
<1> DEFINE own == {r \in MediaRows : where[r] # Nowhere /\ where[r][1] = w}
<1>1. own = {r \in MediaRows : there[r] # Nowhere /\ there[r][1] = w}
  OBVIOUS
<1>2. \A r \in own : g[r] = h[r]
  OBVIOUS
<1>3. Booked(w, where, g) = [seasons |-> Cardinality(own), resources |-> Total(g, own)]
  BY Zenon DEF Booked, Total
<1>4. Booked(w, there, h) = [seasons |-> Cardinality(own), resources |-> Total(h, own)]
  BY <1>1, Zenon DEF Booked, Total
<1> HIDE DEF own
<1>5. Total(g, own) = Total(h, own)
  BY <1>2, SameSums
<1>6. QED
  BY <1>3, <1>4, <1>5

FirstCounts == [r \in MediaRows |-> Cardinality(Holds[r])]
TrueCounts == [r \in MediaRows |-> Cardinality(links[r])]

\* The work row r was in at first will be counted again, and so will the one it is in.
Noted(r) == Home[r][1] \in run.touched /\ (sits[r] # Nowhere => sits[r][1] \in run.touched)

\* A row is as it was when the books were true, or its works are noted; so are those
\* of the rows of the batch and of survivors; only a survivor's own count is not true.
RowsCounted ==
    /\ \A w \in Works : books[w] = IF run.stage = "end" THEN Booked(w, sits, TrueCounts)
                                   ELSE Booked(w, Home, FirstCounts)
    /\ \A r \in MediaRows : (sits[r] = Home[r] /\ tally[r] = FirstCounts[r]) \/ Noted(r)
    /\ \A r \in run.merged : Noted(r)
    /\ Busy => \A r \in run.todo : Noted(r)
    /\ \A r \in MediaRows :
         sits[r] # Nowhere /\ (r \notin run.merged \/ run.stage \in {"works", "end"})
           => tally[r] = TrueCounts[r]
    /\ run.stage = "merge" => run.survivor \in run.merged

LEMMA CountedInit == IdentitiesInit => RowsCounted
<1> SUFFICES ASSUME IdentitiesInit PROVE RowsCounted
  OBVIOUS
<1>1. /\ sits = Home /\ links = Holds /\ tally = FirstCounts /\ run.stage = "batch" /\ run.merged = {}
      /\ books = [w \in Works |-> Booked(w, Home, tally)]
  BY Zenon DEF IdentitiesInit, FirstCounts
<1>2. \A w \in Works : books[w] = Booked(w, Home, FirstCounts)
  BY <1>1, Zenon
<1>3. TrueCounts = FirstCounts
  BY <1>1, Zenon DEF TrueCounts, FirstCounts
<1>4. QED
  BY <1>1, <1>2, <1>3, Zenon DEF RowsCounted, Busy

\* A step that takes no counts, and after which the works of each row that is moved,
\* merged or worked on are noted.
LEMMA CountedStep ==
    ASSUME RowsTyped, RowsCounted, UNCHANGED <<books, tally>>,
           run.stage \notin {"works", "end"}, run'.stage \notin {"works", "end"},
           run.touched \subseteq run'.touched, run.merged \subseteq run'.merged,
           run'.merged \subseteq MediaRows, run'.todo \subseteq MediaRows,
           \A r \in MediaRows : sits'[r] = sits[r] \/ Noted(r)',
           \A r \in MediaRows : sits'[r] # Nowhere /\ r \notin run'.merged
                                  => sits[r] # Nowhere /\ links'[r] = links[r],
           \A r \in run'.merged : r \in run.merged \/ Noted(r)',
           Busy' => \A r \in run'.todo : (Busy /\ r \in run.todo) \/ Noted(r)',
           run'.stage = "merge" => run'.survivor \in run'.merged
    PROVE  RowsCounted'
<1>1. \A r \in MediaRows : Noted(r) => Noted(r)'
  <2> SUFFICES ASSUME NEW r \in MediaRows, Noted(r), sits'[r] = sits[r] PROVE Noted(r)'
    OBVIOUS
  <2>1. Home[r][1] \in run'.touched
    BY DEF Noted
  <2>2. sits'[r] # Nowhere => sits'[r][1] \in run'.touched
    BY Zenon DEF Noted
  <2>3. QED
    BY <2>1, <2>2 DEF Noted
<1>2. \A r \in MediaRows : (sits'[r] = Home[r] /\ tally'[r] = FirstCounts[r]) \/ Noted(r)'
  BY <1>1, Zenon DEF RowsCounted
<1>3. (\A r \in run'.merged : Noted(r)') /\ (Busy' => \A r \in run'.todo : Noted(r)')
  BY <1>1, Zenon DEF RowsCounted
<1>4. \A w \in Works : books'[w] = Booked(w, Home, FirstCounts)
  BY Zenon DEF RowsCounted
<1>5. \A r \in MediaRows : sits'[r] # Nowhere /\ r \notin run'.merged => tally'[r] = TrueCounts'[r]
  <2> SUFFICES ASSUME NEW r \in MediaRows, sits'[r] # Nowhere, r \notin run'.merged
               PROVE  tally'[r] = Cardinality(links'[r])
    BY DEF TrueCounts
  <2>1. sits[r] # Nowhere /\ links'[r] = links[r] /\ r \notin run.merged
    OBVIOUS
  <2>2. tally[r] = TrueCounts[r]
    BY <2>1, Zenon DEF RowsCounted
  <2>3. QED
    BY <2>1, <2>2, Zenon DEF TrueCounts
<1>6. QED
  BY <1>2, <1>3, <1>4, <1>5 DEF RowsCounted

LEMMA CountedBegin == ASSUME RowsTyped, RowsKept, RowsCounted, BeginBatch PROVE RowsCounted'
<1> DEFINE T == run'.todo
<1>1. run \in Runs /\ run.stage = "batch"
  BY Zenon DEF RowsTyped, RunOK, BeginBatch
<1>2. /\ T = {r \in Batches[run.batch] : plan[r] # Nowhere} /\ T \subseteq Living
      /\ sits' = sits /\ links' = links /\ run'.stage = "start"
  BY BatchRows
<1>3. /\ run'.touched = run.touched \cup WorksOf(T) /\ run'.merged = run.merged
      /\ UNCHANGED <<books, tally>>
  BY <1>1, <1>2, Zenon DEF BeginBatch, Runs, TouchedAtFirst
<1>4. run.merged \subseteq MediaRows /\ T \subseteq MediaRows
  BY <1>1, <1>2 DEF Runs, Living
<1> HIDE DEF T
<1>5. ASSUME NEW r \in T PROVE Noted(r)'
  <2>1. r \in MediaRows /\ sits[r] # Nowhere
    BY <1>2, Zenon DEF Living
  <2>2. sits[r][1] \in run'.touched
    BY <1>2, <1>3 DEF WorksOf
  <2>3. Home[r][1] \in run'.touched
    <3>1. CASE sits[r] = Home[r]
      BY <2>2, <3>1
    <3>2. CASE Noted(r)
      BY <1>3, <3>2 DEF Noted
    <3>3. QED
      BY <2>1, <3>1, <3>2, Zenon DEF RowsCounted
  <2>4. QED
    BY <1>2, <2>2, <2>3 DEF Noted
<1>6. QED
  BY <1>1, <1>2, <1>3, <1>4, <1>5, CountedStep DEF T

LEMMA CountedTurn == ASSUME RowsTyped, RowsCounted, StartPass \/ EndPass PROVE RowsCounted'
<1>1. run \in Runs
  BY Zenon DEF RowsTyped, RunOK
<1>2. /\ UNCHANGED <<books, tally, sits, links>> /\ run'.touched = run.touched
      /\ run'.merged = run.merged
      /\ run.stage \in {"start", "pass"} /\ run'.stage \in {"pass", "raised", "start", "batch"}
      /\ run'.todo \in {run.todo, run.blocked}
  <2>1. CASE StartPass
    BY <1>1, <2>1, Zenon DEF StartPass, Runs
  <2>2. CASE EndPass
    <3>1. /\ UNCHANGED <<books, tally, sits, links>> /\ run.stage = "pass"
          /\ run' = IF run.blocked # {}
                    THEN [run EXCEPT !.stage = IF run.pass = 3 THEN "raised" ELSE "start",
                                     !.pass = @ + 1, !.todo = run.blocked]
                    ELSE [run EXCEPT !.stage = "batch", !.batch = @ + 1]
      BY <2>2, Zenon DEF EndPass
    <3>2. CASE run.blocked # {}
      BY <1>1, <3>1, <3>2 DEF Runs
    <3>3. CASE run.blocked = {}
      BY <1>1, <3>1, <3>3 DEF Runs
    <3>4. QED
      BY <3>2, <3>3
  <2>3. QED
    BY <2>1, <2>2
<1>3. run.blocked \subseteq run.todo /\ run.todo \subseteq MediaRows /\ run.merged \subseteq MediaRows
  BY <1>1 DEF RowsTyped, GroupsOK, Runs
<1>4. QED
  BY <1>2, <1>3, CountedStep DEF Busy

LEMMA CountedPark ==
    ASSUME RowsTyped, RowsCounted, run.stage = "pass", NEW identity \in run.groups, Park(identity)
    PROVE  RowsCounted'
<1> DEFINE M == Members(identity)
<1>1. run \in Runs
  BY Zenon DEF RowsTyped, RunOK
<1>2. /\ M \in SUBSET run.todo /\ run.todo \in SUBSET MediaRows
      /\ \A r \in MediaRows :
           sits'[r] = IF r \in M /\ sits[r] # Nowhere
                      THEN <<sits[r][1], -(run.parked + Cardinality(Upto(M, r)))>> ELSE sits[r]
      /\ run'.stage = run.stage /\ run'.todo = run.todo /\ run'.merged = run.merged
      /\ UNCHANGED <<links, tally, books>>
  BY ParkGives
<1>3. run'.touched = run.touched \cup {identity[1]}
  BY <1>1, Zenon DEF Park, Runs
<1>4. run.merged \subseteq MediaRows
  BY <1>1 DEF Runs
<1> HIDE DEF M
<1>5. ASSUME NEW r \in MediaRows
      PROVE  /\ sits'[r] = sits[r] \/ Noted(r)'
             /\ sits'[r] # Nowhere => sits[r] # Nowhere
  <2>1. CASE r \in M /\ sits[r] # Nowhere
    <3>1. Noted(r)
      BY <1>2, <2>1 DEF RowsCounted, Busy
    <3>2. sits'[r] = <<sits[r][1], -(run.parked + Cardinality(Upto(M, r)))>>
      BY <1>2, <2>1, Zenon
    <3>3. sits'[r][1] = sits[r][1]
      BY <3>2
    <3>4. QED
      BY <1>3, <2>1, <3>1, <3>3 DEF Noted
  <2>2. CASE ~(r \in M /\ sits[r] # Nowhere)
    BY <1>2, <2>2, Zenon
  <2>3. QED
    BY <2>1, <2>2
<1>6. QED
  BY <1>2, <1>3, <1>4, <1>5, CountedStep DEF Busy

\* A survivor that sits there already is in a work that is noted, and was there at
\* first or was noted before.
LEMMA CountedLand ==
    ASSUME RowsTyped, Rounds, RowsKept, RowsCounted, run.stage = "pass", NEW identity \in run.groups, Land(identity)
    PROVE  RowsCounted'
<1>1. run \in Runs
  BY Zenon DEF RowsTyped, RunOK
<1>2. PICK s \in MediaRows :
        /\ s = run'.survivor /\ sits'[s] = identity
        /\ \A r \in MediaRows \ {s} : sits'[r] = sits[r]
        /\ run.found[s] = identity \/ s \in Members(identity)
  <2>1. PICK s \in MediaRows : s = run'.survivor /\ sits'[s] = identity
                               /\ \A r \in MediaRows \ {s} : sits'[r] = sits[r]
    BY LandPending
  <2>2. run.found[s] = identity \/ s \in Members(identity)
    BY <2>1, LandGives
  <2>3. QED
    BY <2>1, <2>2
<1>3. /\ run'.losers = Members(identity) \ {s}
      /\ run'.stage = IF run'.losers = {} THEN "pass" ELSE "merge"
      /\ run'.todo = run.todo /\ UNCHANGED <<links, tally, books>>
  BY <1>2, LandGives
<1>4. /\ run'.touched = run.touched \cup {identity[1]}
      /\ run'.merged = IF run'.losers = {} THEN run.merged ELSE run.merged \cup {s}
  <2> DEFINE there == Sitting(identity)
             x == IF there # {} THEN CHOOSE r \in there : TRUE ELSE Survivor(Members(identity))
             L == Members(identity) \ {x}
  <2>1. run' = [run EXCEPT !.groups = @ \ {identity}, !.touched = @ \cup {identity[1]},
                           !.survivor = x, !.losers = L,
                           !.stage = IF L = {} THEN "pass" ELSE "merge",
                           !.merged = IF L = {} THEN @ ELSE @ \cup {x},
                           !.wrote = @ \cup {x}]
    BY Zenon DEF Land
  <2> HIDE DEF x, L
  <2>2. /\ run'.touched = run.touched \cup {identity[1]} /\ run'.losers = L /\ run'.survivor = x
        /\ run'.merged = IF L = {} THEN run.merged ELSE run.merged \cup {x}
    BY <1>1, <2>1, Zenon DEF Runs
  <2>3. QED
    BY <1>2, <2>2
<1>5. run.merged \subseteq MediaRows /\ run.todo \subseteq MediaRows
  BY <1>1 DEF Runs
<1>6. sits[s] # Nowhere /\ (s \in run.todo \/ sits[s] = identity)
  <2>1. CASE s \in Members(identity)
    <3>1. s \in run.todo /\ plan[s] \in run.groups
      BY <2>1, GroupMembers
    <3>2. Pending(s)
      BY <3>1 DEF Pending, Busy
    <3>3. QED
      BY <3>1, <3>2, Zenon DEF RowsKept, Living
  <2>2. CASE s \notin Members(identity)
    <3>1. run.found[s] = identity
      BY <1>2, <2>2
    <3>2. s \notin run.todo
      BY <2>2, <3>1 DEF Land, InTheWay, Sitting
    <3>3. sits[s] = run.found[s]
      BY <3>2 DEF RowsKept, Working
    <3>4. identity # Nowhere
      BY GroupMembers, PlacesAreSeats
    <3>5. QED
      BY <3>1, <3>3, <3>4
  <2>3. QED
    BY <2>1, <2>2
<1>7. Noted(s)'
  <2>1. sits'[s][1] \in run'.touched
    BY <1>2, <1>4
  <2>2. Home[s][1] \in run'.touched
    <3>1. CASE Noted(s)
      BY <1>4, <3>1 DEF Noted
    <3>2. CASE ~Noted(s)
      <4>1. s \notin run.todo
        BY <3>2, Zenon DEF RowsCounted, Busy
      <4>2. sits[s] = Home[s]
        BY <3>2, Zenon DEF RowsCounted
      <4>3. QED
        BY <1>4, <1>6, <4>1, <4>2
    <3>3. QED
      BY <3>1, <3>2
  <2>3. QED
    BY <2>1, <2>2 DEF Noted
<1>8. \A r \in MediaRows : (sits'[r] = sits[r] \/ Noted(r)') /\ (sits'[r] # Nowhere => sits[r] # Nowhere)
  BY <1>2, <1>6, <1>7
<1>9. run'.stage = "merge" => run'.survivor \in run'.merged
  BY <1>2, <1>3, <1>4
<1>10. \A r \in run'.merged : r \in run.merged \/ Noted(r)'
  BY <1>4, <1>7
<1>11. /\ run.touched \subseteq run'.touched /\ run.merged \subseteq run'.merged
       /\ run'.merged \subseteq MediaRows /\ run'.stage \in {"pass", "merge"}
  BY <1>3, <1>4, <1>5
<1>12. QED
  BY <1>3, <1>5, <1>8, <1>9, <1>10, <1>11, CountedStep DEF Busy

LEMMA CountedMerge == ASSUME RowsTyped, RowsKept, RowsCounted, MergeRows PROVE RowsCounted'
<1> DEFINE gone == IF run.survivor \in Living THEN run.losers \cap Living ELSE {}
<1>1. run \in Runs
  BY Zenon DEF RowsTyped, RunOK
<1>2. /\ \A r \in MediaRows : sits'[r] = IF r \in gone THEN Nowhere ELSE sits[r]
      /\ \A r \in MediaRows : r # run.survivor /\ r \notin gone => links'[r] = links[r]
      /\ run.stage = "merge" /\ run'.stage = "pass" /\ run'.todo = run.todo
  BY MergeGives
<1>3. /\ run' = [run EXCEPT !.stage = "pass", !.wrote = @ \cup gone]
      /\ UNCHANGED <<tally, books>>
  BY Zenon DEF MergeRows
<1>4. gone \subseteq run.losers
  OBVIOUS
<1> HIDE DEF gone
<1>5. run'.touched = run.touched /\ run'.merged = run.merged
  BY <1>1, <1>3, Zenon DEF Runs
<1>6. run.survivor \in run.merged /\ run.losers \subseteq run.todo
      /\ \A r \in run.todo : Noted(r)
  BY <1>2, Zenon DEF RowsKept, RowsCounted, Busy
<1>7. run.merged \subseteq MediaRows /\ run.todo \subseteq MediaRows
  BY <1>1 DEF Runs
<1>8. ASSUME NEW r \in MediaRows PROVE sits'[r] = sits[r] \/ Noted(r)'
  <2>1. CASE r \in gone
    <3>1. Home[r][1] \in run'.touched
      BY <1>4, <1>5, <1>6, <2>1 DEF Noted
    <3>2. sits'[r] = Nowhere
      BY <1>2, <2>1, Zenon
    <3>3. QED
      BY <3>1, <3>2 DEF Noted
  <2>2. CASE r \notin gone
    BY <1>2, <2>2, Zenon
  <2>3. QED
    BY <2>1, <2>2
<1>9. ASSUME NEW r \in MediaRows, sits'[r] # Nowhere, r \notin run'.merged
      PROVE  sits[r] # Nowhere /\ links'[r] = links[r]
  <2>1. r \notin gone
    BY <1>2, <1>9, Zenon
  <2>2. r # run.survivor
    BY <1>5, <1>6, <1>9
  <2>3. QED
    BY <1>2, <1>9, <2>1, <2>2, Zenon
<1>10. QED
  BY <1>2, <1>3, <1>5, <1>7, <1>8, <1>9, CountedStep DEF Busy

\* Survivors are counted, or removed if they have nothing.
LEMMA CountedSeasons == ASSUME RowsTyped, RowsCounted, RecountSeasons PROVE RowsCounted'
<1>1. run \in Runs
  BY Zenon DEF RowsTyped, RunOK
<1>2. /\ tally' = [r \in MediaRows |-> IF r \in run.merged THEN Cardinality(links[r]) ELSE tally[r]]
      /\ sits' = [r \in MediaRows |-> IF r \in run.merged /\ links[r] = {} THEN Nowhere ELSE sits[r]]
      /\ run' = [run EXCEPT !.stage = "works"] /\ run.stage = "batch"
      /\ links' = links /\ books' = books
  BY Zenon DEF RecountSeasons
<1>3. /\ run'.stage = "works" /\ run'.touched = run.touched /\ run'.merged = run.merged
      /\ run'.todo = run.todo
  BY <1>1, <1>2, Zenon DEF Runs
<1>4. \A w \in Works : books'[w] = Booked(w, Home, FirstCounts)
  BY <1>2, Zenon DEF RowsCounted
<1>5. \A r \in MediaRows : sits'[r] = Nowhere \/ sits'[r] = sits[r]
  BY <1>2, Zenon
<1>6. \A r \in MediaRows : Noted(r) => Noted(r)'
  <2> SUFFICES ASSUME NEW r \in MediaRows, Noted(r) PROVE Noted(r)'
    OBVIOUS
  <2>1. Home[r][1] \in run'.touched
    BY <1>3 DEF Noted
  <2>2. sits'[r] # Nowhere => sits'[r][1] \in run'.touched
    BY <1>3, <1>5, Zenon DEF Noted
  <2>3. QED
    BY <2>1, <2>2 DEF Noted
<1>7. run.merged \subseteq MediaRows
  BY <1>1 DEF Runs
<1>8. ASSUME NEW r \in MediaRows
      PROVE  (sits'[r] = Home[r] /\ tally'[r] = FirstCounts[r]) \/ Noted(r)'
  <2>1. CASE r \in run.merged
    BY <1>6, <2>1, Zenon DEF RowsCounted
  <2>2. CASE r \notin run.merged
    <3>1. sits'[r] = sits[r] /\ tally'[r] = tally[r]
      BY <1>2, <2>2, Zenon
    <3>2. QED
      BY <1>6, <3>1, Zenon DEF RowsCounted
  <2>3. QED
    BY <2>1, <2>2
<1>9. ASSUME NEW r \in MediaRows, sits'[r] # Nowhere
      PROVE  tally'[r] = TrueCounts'[r]
  <2>1. TrueCounts'[r] = Cardinality(links[r]) /\ TrueCounts[r] = Cardinality(links[r])
    BY <1>2, Zenon DEF TrueCounts
  <2>2. CASE r \in run.merged
    BY <1>2, <2>1, <2>2, Zenon
  <2>3. CASE r \notin run.merged
    <3>1. tally'[r] = tally[r] /\ sits[r] # Nowhere
      BY <1>2, <1>5, <1>9, <2>3, Zenon
    <3>2. QED
      BY <2>1, <2>3, <3>1, Zenon DEF RowsCounted
  <2>4. QED
    BY <2>2, <2>3
<1>10. \A r \in run'.merged : Noted(r)'
  BY <1>3, <1>6, <1>7, Zenon DEF RowsCounted
<1>11. QED
  BY <1>3, <1>4, <1>8, <1>9, <1>10 DEF RowsCounted, Busy

\* The works that are noted get the sums of their rows; the others have the rows
\* and the counts they had.
LEMMA CountedWorks == ASSUME RowsTyped, RowsCounted, RecountWorks PROVE RowsCounted'
<1>1. run \in Runs
  BY Zenon DEF RowsTyped, RunOK
<1>2. /\ books' = [w \in Works |-> IF w \in run.touched THEN Booked(w, sits, tally) ELSE books[w]]
      /\ run' = [run EXCEPT !.stage = "end"] /\ run.stage = "works"
      /\ UNCHANGED <<sits, links, tally>>
  BY Zenon DEF RecountWorks
<1>3. /\ run'.stage = "end" /\ run'.touched = run.touched /\ run'.merged = run.merged
      /\ run'.todo = run.todo
  BY <1>1, <1>2, Zenon DEF Runs
<1>4. TrueCounts' = TrueCounts
  BY <1>2, Zenon DEF TrueCounts
<1>5. \A r \in MediaRows : sits[r] # Nowhere => tally[r] = TrueCounts[r]
  BY <1>2, Zenon DEF RowsCounted
<1>6. ASSUME NEW w \in Works PROVE books'[w] = Booked(w, sits, TrueCounts)
  <2>1. CASE w \in run.touched
    <3>1. books'[w] = Booked(w, sits, tally)
      BY <1>2, <2>1, Zenon
    <3>2. Booked(w, sits, tally) = Booked(w, sits, TrueCounts)
      BY <1>5, SameBooks
    <3>3. QED
      BY <3>1, <3>2
  <2>2. CASE w \notin run.touched
    <3>1. books'[w] = Booked(w, Home, FirstCounts)
      BY <1>2, <2>2, Zenon DEF RowsCounted
    <3>2. ASSUME NEW r \in MediaRows
          PROVE  /\ Home[r] # Nowhere /\ Home[r][1] = w <=> sits[r] # Nowhere /\ sits[r][1] = w
                 /\ Home[r] # Nowhere /\ Home[r][1] = w => FirstCounts[r] = TrueCounts[r]
      <4>1. Home[r] # Nowhere
        BY PlacesAreSeats
      <4>2. CASE Noted(r)
        BY <2>2, <4>1, <4>2 DEF Noted
      <4>3. CASE sits[r] = Home[r] /\ tally[r] = FirstCounts[r]
        BY <1>5, <4>1, <4>3, Zenon
      <4>4. QED
        BY <4>2, <4>3, Zenon DEF RowsCounted
    <3>3. Booked(w, Home, FirstCounts) = Booked(w, sits, TrueCounts)
      BY <3>2, SameBooks
    <3>4. QED
      BY <3>1, <3>3
  <2>3. QED
    BY <2>1, <2>2
<1>7. \A r \in MediaRows : Noted(r)' <=> Noted(r)
  BY <1>2, <1>3, Zenon DEF Noted
<1>8. \A w \in Works : books'[w] = Booked(w, sits', TrueCounts')
  BY <1>2, <1>4, <1>6, Zenon
<1>9. /\ \A r \in MediaRows : (sits'[r] = Home[r] /\ tally'[r] = FirstCounts[r]) \/ Noted(r)'
      /\ \A r \in MediaRows : sits'[r] # Nowhere => tally'[r] = TrueCounts'[r]
  BY <1>2, <1>4, <1>5, <1>7, Zenon DEF RowsCounted
<1>10. \A r \in run'.merged : Noted(r)'
  <2>1. run.merged \subseteq MediaRows
    BY <1>1 DEF Runs
  <2>2. QED
    BY <1>3, <1>7, <2>1, Zenon DEF RowsCounted
<1>11. QED
  BY <1>3, <1>8, <1>9, <1>10 DEF RowsCounted, Busy

LEMMA CountedNext ==
    RowsTyped /\ Rounds /\ (Alone => RowsKept) /\ (Alone => RowsCounted) /\ [IdentitiesNext]_identities
      => (Alone => RowsCounted)'
<1> SUFFICES ASSUME RowsTyped, Rounds, Alone => RowsKept, Alone => RowsCounted, [IdentitiesNext]_identities, Alone'
             PROVE  RowsCounted'
  OBVIOUS
<1>1. RowsKept /\ RowsCounted /\ \A r \in MediaRows : ~Vanish(r)
  BY AloneBefore
<1>2. CASE PlaceGroup
  <2>1. PICK identity \in run.groups : Park(identity) \/ Land(identity)
    BY <1>2 DEF PlaceGroup
  <2>2. run.stage = "pass"
    BY <1>2 DEF PlaceGroup
  <2>3. QED
    BY <1>1, <2>1, <2>2, CountedPark, CountedLand
<1>3. CASE UNCHANGED identities
  BY <1>1, <1>3, Zenon DEF identities, RowsCounted, Noted, Busy, TrueCounts
<1>4. QED
  BY <1>1, <1>2, <1>3, CountedBegin, CountedTurn, CountedMerge, CountedSeasons, CountedWorks
     DEF IdentitiesNext

\* When all is counted again, the seasons and links of every work are as many as its
\* books say, and no season is parked, for any plan in any batches, as long as nobody
\* else deletes rows (assign.py:184-190, counters.py:122-178).
THEOREM CountsAgree == IdentitiesSpec => []WorkCounts
<1> DEFINE Still == (Alone => RowsKept) /\ (Alone => RowsCounted)
<1>1. RowsTyped /\ Rounds /\ Still /\ [IdentitiesNext]_identities => Still'
  BY KeptNext, CountedNext
<1>2. IdentitiesInit => Rounds /\ Still
  BY KeptInit, CountedInit DEF IdentitiesInit, Rounds, Working
<1>3. RowsTyped /\ Still => WorkCounts
  <2> SUFFICES ASSUME RowsTyped, Still, run.stage = "end", Alone
               PROVE  /\ \A w \in Works :
                           books[w] = Booked(w, sits, [r \in MediaRows |-> Cardinality(links[r])])
                      /\ \A r \in Living : sits[r][2] >= 0
    BY DEF WorkCounts, Alone
  <2>1. Unparked
    BY KeptUnparked DEF Busy
  <2>2. QED
    BY <2>1, Zenon DEF Unparked, RowsCounted, TrueCounts
<1> HIDE DEF Still
<1>4. QED
  BY <1>1, <1>2, <1>3, RowsTypedInit, RowsTypedNext, RoundsNext, PTL DEF IdentitiesSpec
=============================================================================
