--------------------------------- MODULE Canon ---------------------------------
(***************************************************************************)
(* Which titles are one work (services/canon): parsers file every new key  *)
(* as pending, `canon resolve` has a model decide blocks of keys and       *)
(* classify single ones, `canon merge` moves rows to the works decided,    *)
(* and `canon rebuild` groups by rule what is not decided.  A decision     *)
(* with a work is that work; works are named by keys, and by rule the rows *)
(* of a key belong to the work of that name.  How rows are moved and       *)
(* merged is the matter of Identities.                                     *)
(***************************************************************************)
EXTENDS Integers, FiniteSets

CONSTANTS
    Keys,        \* series_norm_key
    Blocks,      \* block_key
    Entries,     \* the rows of media there may be, <<key, block>>
    Attempts,    \* PERSIST_CONFLICT_ATTEMPTS
    MaxResolves  \* bound: runs of `canon resolve`

ASSUME CanonAssumption ==
    /\ Entries \subseteq Keys \X Blocks /\ Attempts \in Nat \ {0} /\ MaxResolves \in Nat
    /\ Keys \cap {"none", "pending", "junk", "typed", "absent", "deleted"} = {}

Undecided == {"none", "pending"}
Verdicts == Keys \cup {"junk", "typed"}

VARIABLES
    verdict,   \* verdict[k]: the row of title_canon
    placed,    \* placed[e]: the work of row e, "absent" or "deleted"
    resolve,   \* the run of `canon resolve`
    merge,     \* of `canon merge`: the rows it is to move
    rebuild,   \* of `canon rebuild`: the keys it found undecided
    resolves

canon == <<verdict, placed, resolve, merge, rebuild, resolves>>

NoResolve == [stage |-> "idle", done |-> {}, blocks |-> {}, singles |-> {},
              flat |-> [k \in Keys |-> "none"], read |-> {}, tries |-> 0]
NoMerge == [active |-> FALSE, rows |-> {}, loaded |-> [k \in Keys |-> "none"]]
NoRebuild == [active |-> FALSE, keys |-> {}]

Decided == {k \in Keys : verdict[k] \notin Undecided}
Here == {e \in Entries : placed[e] \notin {"absent", "deleted"}}
KeysIn(block) == {e[1] : e \in {x \in Here : x[2] = block}}

CanonInit ==
    /\ verdict = [k \in Keys |-> "none"]
    /\ placed = [e \in Entries |-> "absent"]
    /\ resolve = NoResolve /\ merge = NoMerge /\ rebuild = NoRebuild
    /\ resolves = 0

\* resolve_target: by the decision the batch has read, which may be older, or
\* else by rule; a new key gets a pending row.
ParseEntry(e) ==
    /\ placed[e] = "absent"
    /\ \E read \in {verdict[e[1]], "pending"} :
         /\ verdict[e[1]] = "none" => read = "none"
         /\ read # "junk"
         /\ placed' = [placed EXCEPT ![e] = IF read \in Keys THEN read ELSE e[1]]
    /\ verdict' = [verdict EXCEPT ![e[1]] = IF @ = "none" THEN "pending" ELSE @]
    /\ UNCHANGED <<resolve, merge, rebuild, resolves>>

-----------------------------------------------------------------------------
(* canon resolve                                                           *)

\* settle_known_works: an undecided key that is the name of a work decided.
Settle ==
    /\ resolve.stage = "idle" /\ resolves < MaxResolves
    /\ verdict' = [k \in Keys |-> IF verdict[k] = "pending" /\ \E j \in Keys : verdict[j] = k
                                  THEN k ELSE verdict[k]]
    /\ resolve' = [NoResolve EXCEPT !.stage = "scan"]
    /\ resolves' = resolves + 1
    /\ UNCHANGED <<placed, merge, rebuild>>

\* Blocks of several keys that are not all decided, and keys alone in a block;
\* as many of either as the limits allow.
ScanBlocks ==
    /\ resolve.stage = "scan"
    /\ LET open   == {b \in Blocks : Cardinality(KeysIn(b)) > 1 /\ ~(KeysIn(b) \subseteq Decided)}
           single == {k \in Keys \ Decided : \E b \in Blocks : KeysIn(b) = {k}}
       IN \E sent \in SUBSET open, asked \in SUBSET single :
            resolve' = [resolve EXCEPT !.stage = "calls", !.done = Decided, !.singles = asked,
                          !.blocks = {[name |-> b, keys |-> KeysIn(b)] : b \in sent}]
    /\ UNCHANGED <<verdict, placed, merge, rebuild, resolves>>

\* _resolve_block, answers validated; a key of two blocks keeps the surer answer.
CallBlock ==
    /\ resolve.stage = "calls"
    /\ \E b \in resolve.blocks :
         \E answer \in [b.keys -> Keys \cup {"junk", "none"}] :
         \E surer \in SUBSET b.keys :
           resolve' = [resolve EXCEPT !.blocks = @ \ {b},
             !.flat = [k \in Keys |-> IF k \in b.keys /\ answer[k] # "none"
                                          /\ (k \in surer \/ resolve.flat[k] = "none")
                                      THEN answer[k] ELSE resolve.flat[k]]]
    /\ UNCHANGED <<verdict, placed, merge, rebuild, resolves>>

Answered == {k \in Keys : resolve.flat[k] # "none"}

\* _persist_chunk: the rows there are, looked up ...
ReadRows ==
    /\ \/ resolve.stage = "calls" /\ resolve.blocks = {}
       \/ resolve.stage = "classify" /\ Answered # {}
    /\ resolve' = [resolve EXCEPT !.read = {k \in Answered : verdict[k] # "none"}, !.tries = 1,
                     !.stage = IF @ = "calls" THEN "store" ELSE "storeTyped"]
    /\ UNCHANGED <<verdict, placed, merge, rebuild, resolves>>

\* Mutant: what has been decided now is classified all the same.
StillSingleAll(singles, answered) == singles

\* done |= the keys just decided.
StillSingle(singles, answered) == singles \ answered

Stored == [resolve EXCEPT !.stage = "classify", !.flat = NoResolve.flat, !.tries = 0,
             !.singles = IF resolve.stage = "store" THEN StillSingle(@, Answered) ELSE @]

\* ... and updated, the others inserted.  One that a parser has inserted since
\* makes all of it fail; it is looked up again, a few times.
WriteRows ==
    /\ resolve.stage \in {"store", "storeTyped"}
    /\ IF \A k \in Answered \ resolve.read : verdict[k] = "none"
       THEN /\ verdict' = [k \in Keys |-> IF k \in Answered THEN resolve.flat[k] ELSE verdict[k]]
            /\ resolve' = Stored
       ELSE /\ resolve' = IF resolve.tries = Attempts THEN Stored
                          ELSE [resolve EXCEPT !.tries = @ + 1,
                                               !.read = {k \in Answered : verdict[k] # "none"}]
            /\ UNCHANGED verdict
    /\ UNCHANGED <<placed, merge, rebuild, resolves>>

\* _classify_pack: a type or junk, never a work; unknown is dropped.
Classify ==
    /\ resolve.stage = "classify"
    /\ \E k \in resolve.singles : \E answer \in {"typed", "junk", "none"} :
         resolve' = [resolve EXCEPT !.singles = @ \ {k}, !.flat[k] = answer]
    /\ UNCHANGED <<verdict, placed, merge, rebuild, resolves>>

\* The end, or the job is cut off: what is not stored is lost.
EndResolve ==
    /\ resolve.stage # "idle"
    /\ resolve' = NoResolve
    /\ UNCHANGED <<verdict, placed, merge, rebuild, resolves>>

-----------------------------------------------------------------------------
(* canon merge and canon rebuild                                           *)

\* The decisions and the rows of their keys, looked up once; rows that are
\* where they belong are left out (_already_settled).
BeginMerge ==
    /\ ~merge.active
    /\ merge' = [active |-> TRUE, loaded |-> verdict,
                 rows |-> {e \in Here : /\ verdict[e[1]] \in Keys \cup {"junk"}
                                        /\ placed[e] # verdict[e[1]]}]
    /\ merge'.rows # {}
    /\ UNCHANGED <<verdict, placed, resolve, rebuild, resolves>>

\* A key at a time; the rows of junk keys are deleted first.
MergeKey ==
    /\ merge.active
    /\ \E k \in {e[1] : e \in merge.rows} :
         /\ merge.loaded[k] = "junk" \/ \A e \in merge.rows : merge.loaded[e[1]] # "junk"
         /\ placed' = [e \in Entries |->
                         IF e \notin merge.rows \/ e[1] # k \/ placed[e] = "deleted" THEN placed[e]
                         ELSE IF merge.loaded[k] = "junk" THEN "deleted" ELSE merge.loaded[k]]
         /\ merge' = [merge EXCEPT !.rows = {e \in @ : e[1] # k}]
    /\ UNCHANGED <<verdict, resolve, rebuild, resolves>>

EndMerge ==
    /\ merge.active /\ merge.rows = {}
    /\ merge' = NoMerge
    /\ UNCHANGED <<verdict, placed, resolve, rebuild, resolves>>

\* Mutant: rules group all keys.
RuledAll == {e[1] : e \in Here}

\* _decided_keys: what is decided is not grouped by rule any more.
Ruled == {e[1] : e \in Here} \ Decided

BeginRebuild ==
    /\ ~rebuild.active
    /\ rebuild' = [active |-> TRUE, keys |-> Ruled]
    /\ UNCHANGED <<verdict, placed, resolve, merge, resolves>>

RebuildKey ==
    /\ \E k \in rebuild.keys :
         /\ placed' = [e \in Entries |-> IF e[1] = k /\ e \in Here THEN k ELSE placed[e]]
         /\ rebuild' = [rebuild EXCEPT !.keys = @ \ {k}]
    /\ UNCHANGED <<verdict, resolve, merge, resolves>>

EndRebuild ==
    /\ rebuild.active /\ rebuild.keys = {}
    /\ rebuild' = NoRebuild
    /\ UNCHANGED <<verdict, placed, resolve, merge, resolves>>

Resolver == Settle \/ ScanBlocks \/ CallBlock \/ ReadRows \/ WriteRows \/ Classify \/ EndResolve
Merger == BeginMerge \/ MergeKey \/ EndMerge
Rebuilder == BeginRebuild \/ RebuildKey \/ EndRebuild

CanonNext == (\E e \in Entries : ParseEntry(e)) \/ Resolver \/ Merger \/ Rebuilder

\* `canon merge` is part of every round of the pipeline.
CanonFairness == WF_canon(Merger)

CanonSpec == CanonInit /\ [][CanonNext]_canon /\ CanonFairness

-----------------------------------------------------------------------------

CanonTypeOK ==
    /\ verdict \in [Keys -> Undecided \cup Verdicts]
    /\ placed \in [Entries -> Keys \cup {"absent", "deleted"}]
    /\ Answered \subseteq Keys /\ resolve.singles \subseteq Keys
    /\ \A e \in Here : verdict[e[1]] # "none"

\* A decision that says only what kind of thing a key is never replaces one that
\* says which work it is, though a key can be alone in one block and with others
\* in another one (resolver.py:709-715, 820-824).
TypedKeepsIdentity ==
    [][\A k \in Keys : verdict[k] \in Keys => verdict'[k] # "typed"]_canon

\* Every row of a key that is decided comes to its work and, when no more
\* decisions are made, stays there, however often `canon rebuild` is run: the two
\* do not move rows to and fro (rebuild.py:322-330, apply.py:85-97).
ComesToRest ==
    <>[](\A e \in Here : verdict[e[1]] \in Keys => placed[e] = verdict[e[1]])
=============================================================================
