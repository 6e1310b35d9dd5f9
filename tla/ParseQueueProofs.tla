-------------------------- MODULE ParseQueueProofs --------------------------
(***************************************************************************)
(* Theorems about ParseQueue, for every value of its constants.            *)
(*                                                                         *)
(* 1. SoundRows: types and the retry limit, whatever goes wrong.  Their    *)
(*    conjunction is inductive as it stands.                               *)
(* 2. LeaseInv: exclusive parsing, and that terminal states stay, under    *)
(*    the one condition they need: the lease outlasts a whole batch.       *)
(***************************************************************************)
EXTENDS ParseQueue, FiniteSetTheorems, TLAPS

SoundRow(r) ==
    /\ r \in Row
    /\ r.status \in {"PENDING", "RUNNING"} => r.attempts < MAX_PARSE_ATTEMPTS
    /\ r.status = "FAILED" => r.attempts = MAX_PARSE_ATTEMPTS

SoundRows == TypeOK /\ RetryLimit

-----------------------------------------------------------------------------
(* What the operators on one row return                                    *)

\* The back-off is a positive number of base intervals and never above the cap.
LEMMA BackoffRange == \A n : backoff(n) \in 1..MaxBackoff
BY BackoffAssumption DEF backoff

\* Zero is an instant of every range, that of a row's lease and of its due time.
LEMMA ZeroInRange == 0 \in 0..Lease /\ 0 \in 0..MaxBackoff /\ Lease \in 0..Lease
BY ParseQueueAssumption, BackoffAssumption

\* decide() turns a queued row into a sound one: claimed under a full lease
\* with attempts left, or given up on with all of them used.
LEMMA DecideSound ==
    ASSUME NEW row \in Row, NEW c \in Candidate
    PROVE  /\ SoundRow(Decide(row, c))
           /\ ~IsTerminal(c) => /\ Decide(row, c).status = "RUNNING"
                                /\ Decide(row, c).lease = Lease
                                /\ Decide(row, c).attempts \in 0..MAX_PARSE_ATTEMPTS - 1
           /\ IsTerminal(c) => /\ Decide(row, c).status = "FAILED"
                               /\ Decide(row, c).lease = 0
                               /\ Decide(row, c).due = 0
<1> DEFINE z == Decide(row, c)
           n == IF IsReclaim(c) THEN c.attempts + 1 ELSE c.attempts
<1>1. c.attempts \in 0..MAX_PARSE_ATTEMPTS - 1
  BY Zenon DEF Candidate
<1>2. CASE IsTerminal(c)
  <2>1. c.attempts + 1 = MAX_PARSE_ATTEMPTS
    BY <1>1, <1>2, ParseQueueAssumption DEF IsTerminal
  <2>2. MAX_PARSE_ATTEMPTS \in 0..MAX_PARSE_ATTEMPTS
    BY ParseQueueAssumption
  <2>3. /\ z \in Row /\ z.status = "FAILED" /\ z.attempts = MAX_PARSE_ATTEMPTS
        /\ z.lease = 0 /\ z.due = 0
    BY <1>2, <2>1, <2>2, ZeroInRange, Zenon DEF Decide, Row, ParseStatus
  <2>4. QED
    BY <1>2, <2>3, Zenon DEF SoundRow
<1>3. CASE ~IsTerminal(c)
  <2>1. n \in 0..MAX_PARSE_ATTEMPTS - 1 /\ n \in 0..MAX_PARSE_ATTEMPTS
                /\ n < MAX_PARSE_ATTEMPTS
    BY <1>1, <1>3, ParseQueueAssumption DEF IsTerminal
  <2>2. z = [row EXCEPT !.status = "RUNNING", !.lease = Lease, !.attempts = n]
    BY <1>3, Zenon DEF Decide
  <2> HIDE DEF n, z
  <2>3. z \in Row /\ z.status = "RUNNING" /\ z.attempts = n /\ z.lease = Lease
    BY <2>1, <2>2, ZeroInRange, Zenon DEF Row, ParseStatus
  <2>4. QED
    BY <1>3, <2>1, <2>3, Zenon DEF SoundRow, z
<1>4. QED
  BY <1>2, <1>3

\* Writing a chunk back keeps a row sound, whatever became of it meanwhile, and
\* a row that turns terminal has neither a lease nor a due time left.
LEMMA WriteBackSound ==
    ASSUME NEW row, SoundRow(row), version \in 1..MaxVersion,
           NEW a \in 0..MAX_PARSE_ATTEMPTS - 1, NEW result
    PROVE  /\ SoundRow(WriteBack(row, a, result))
           /\ (row.status = "RUNNING" /\ WriteBack(row, a, result).status \in Terminal)
                => /\ WriteBack(row, a, result).lease = 0
                   /\ WriteBack(row, a, result).due = 0
<1> DEFINE z == WriteBack(row, a, result)
<1>1. CASE result \in {"DONE", "SKIPPED"}
  <2>1. version \in 0..MaxVersion
    BY ParseQueueAssumption
  <2>2. z = [row EXCEPT !.status = result, !.lease = 0, !.due = 0, !.ver = version]
    BY <1>1, Zenon DEF WriteBack
  <2>3. z \in Row /\ z.status \in {"DONE", "SKIPPED"} /\ z.lease = 0 /\ z.due = 0
    BY <1>1, <2>1, <2>2, ZeroInRange, Zenon DEF SoundRow, Row, ParseStatus
  <2>4. QED
    BY <2>3 DEF SoundRow
<1>2. CASE result = "failure"
  <2>1. backoff(a + 1) \in 0..MaxBackoff
    BY BackoffRange, BackoffAssumption
  <2>2. CASE a + 1 >= MAX_PARSE_ATTEMPTS
    <3>1. a + 1 = MAX_PARSE_ATTEMPTS /\ a + 1 \in 0..MAX_PARSE_ATTEMPTS
      BY <2>2, ParseQueueAssumption
    <3>2. z = [row EXCEPT !.status = "FAILED", !.attempts = a + 1, !.lease = 0, !.due = 0]
      BY <1>2, <2>2 DEF WriteBack
    <3>3. /\ z \in Row /\ z.status = "FAILED" /\ z.attempts = a + 1
          /\ z.lease = 0 /\ z.due = 0
      BY <3>1, <3>2, ZeroInRange, Zenon DEF SoundRow, Row, ParseStatus
    <3>4. QED
      BY <3>1, <3>3 DEF SoundRow
  <2>3. CASE ~(a + 1 >= MAX_PARSE_ATTEMPTS)
    <3>1. a + 1 < MAX_PARSE_ATTEMPTS /\ a + 1 \in 0..MAX_PARSE_ATTEMPTS
      BY <2>3, ParseQueueAssumption
    <3>2. z = [row EXCEPT !.status = "PENDING", !.attempts = a + 1, !.lease = 0,
                          !.due = backoff(a + 1)]
      BY <1>2, <2>3 DEF WriteBack
    <3>3. z \in Row /\ z.status = "PENDING" /\ z.attempts = a + 1
      BY <2>1, <3>1, <3>2, ZeroInRange, Zenon DEF SoundRow, Row, ParseStatus
    <3>4. QED
      BY <3>1, <3>3 DEF SoundRow, Terminal
  <2>4. QED
    BY <2>2, <2>3
<1>3. CASE result \notin {"DONE", "SKIPPED", "failure"}
  <2>1. z = [row EXCEPT !.lease = 0]
    BY <1>3, Zenon DEF WriteBack
  <2>2. z \in Row /\ z.status = row.status /\ z.attempts = row.attempts
    BY <2>1, ZeroInRange, Zenon DEF SoundRow, Row
  <2>3. QED
    BY <2>2 DEF SoundRow, Terminal
<1>4. QED
  BY <1>1, <1>2, <1>3

-----------------------------------------------------------------------------
(* Types and the retry limit                                               *)

\* The three parts of SoundRows: the rows, what the claim queries have read,
\* and what the workers hold.
RowsSound == doc \in [Docs -> Row] /\ \A d \in Docs : SoundRow(doc[d])

SeenSound ==
    /\ DOMAIN seen = Workers
    /\ \A w \in Workers : DOMAIN seen[w] \subseteq Docs
                          /\ \A d \in DOMAIN seen[w] : seen[w][d] \in Candidate

BaseSound ==
    /\ DOMAIN base = Workers
    /\ \A w \in Workers : held(w) \subseteq Docs
                          /\ \A d \in held(w) : base[w][d] \in 0..MAX_PARSE_ATTEMPTS - 1

LEMMA SoundParts ==
    SoundRows <=> /\ RowsSound /\ SeenSound /\ BaseSound
                  /\ version \in 1..MaxVersion /\ ticked \in [Workers -> BOOLEAN]
BY Zenon DEF SoundRows, TypeOK, RetryLimit, RowsSound, SeenSound, BaseSound, SoundRow

LEMMA SoundPartsPrimed ==
    SoundRows' <=> /\ RowsSound' /\ SeenSound' /\ BaseSound'
                   /\ version' \in 1..MaxVersion /\ ticked' \in [Workers -> BOOLEAN]
BY Zenon DEF SoundRows, TypeOK, RetryLimit, RowsSound, SeenSound, BaseSound, SoundRow

LEMMA SoundInit == Init => SoundRows
<1> SUFFICES ASSUME Init PROVE SoundRows
  OBVIOUS
<1> DEFINE new == [status |-> "PENDING", attempts |-> 0, lease |-> 0, due |-> 0, ver |-> 0]
<1>1. 0 \in 0..MaxVersion /\ 0 \in 0..MAX_PARSE_ATTEMPTS /\ 0 < MAX_PARSE_ATTEMPTS
      /\ 1 \in 1..MaxVersion
  BY ParseQueueAssumption
<1>2. SoundRow(new)
  BY <1>1, ZeroInRange, Zenon DEF SoundRow, Row, ParseStatus
<1>3. RowsSound
  <2>1. \A d \in Docs : doc[d] = new
    BY Zenon DEF Init
  <2>2. \A d \in Docs : SoundRow(doc[d])
    BY <1>2, <2>1, Zenon
  <2>3. doc = [d \in Docs |-> new] /\ new \in Row
    BY <1>2, Zenon DEF Init, SoundRow
  <2>4. QED
    BY <2>2, <2>3, Zenon DEF RowsSound
<1>4. SeenSound /\ BaseSound
  BY Zenon DEF Init, SeenSound, BaseSound, Nothing, held
<1>5. version \in 1..MaxVersion /\ ticked \in [Workers -> BOOLEAN]
  BY <1>1, Zenon DEF Init
<1>6. QED
  BY <1>3, <1>4, <1>5, SoundParts

LEMMA SoundRead ==
    ASSUME SoundRows, NEW w \in Workers, ReadCandidates(w)
    PROVE  SoundRows'
<1>1. RowsSound /\ SeenSound /\ BaseSound /\ version \in 1..MaxVersion
      /\ ticked \in [Workers -> BOOLEAN]
  BY SoundParts
<1>2. RowsSound' /\ BaseSound' /\ version' \in 1..MaxVersion
      /\ ticked' \in [Workers -> BOOLEAN]
  BY <1>1, Zenon DEF ReadCandidates, RowsSound, BaseSound, held
<1>3. ASSUME NEW d \in Docs, Claimable(d)
      PROVE  [status |-> doc[d].status, attempts |-> doc[d].attempts] \in Candidate
  <2>1. doc[d].attempts \in 0..MAX_PARSE_ATTEMPTS
    BY <1>1, Zenon DEF RowsSound, Row
  <2>2. doc[d].status \in {"PENDING", "RUNNING"} /\ doc[d].attempts < MAX_PARSE_ATTEMPTS
    BY <1>1, <1>3, Zenon DEF RowsSound, SoundRow, Claimable
  <2>3. doc[d].attempts \in 0..MAX_PARSE_ATTEMPTS - 1
    BY <2>1, <2>2, ParseQueueAssumption
  <2>4. QED
    BY <2>2, <2>3, Zenon DEF Candidate
<1>4. SeenSound'
  <2> DEFINE read == [d \in {e \in Docs : Claimable(e)} |->
                        [status |-> doc[d].status, attempts |-> doc[d].attempts]]
  <2>1. seen' = [seen EXCEPT ![w] = read]
    BY Zenon DEF ReadCandidates
  <2>2. DOMAIN read \subseteq Docs /\ \A d \in DOMAIN read : read[d] \in Candidate
    BY <1>3, Zenon
  <2> HIDE DEF read
  <2>3. QED
    BY <1>1, <2>1, <2>2, Zenon DEF SeenSound
<1>5. QED
  BY <1>2, <1>4, SoundPartsPrimed

LEMMA SoundClaim ==
    ASSUME SoundRows, NEW w \in Workers, ClaimRows(w)
    PROVE  SoundRows'
<1>1. RowsSound /\ SeenSound /\ BaseSound /\ version \in 1..MaxVersion
      /\ ticked \in [Workers -> BOOLEAN]
  BY SoundParts
<1>2. PICK hit \in SUBSET {d \in DOMAIN seen[w] : Claimable(d)} :
        LET took == {d \in hit : ~IsTerminal(seen[w][d])} IN
        /\ doc' = [d \in Docs |-> IF d \in hit THEN Decide(doc[d], seen[w][d]) ELSE doc[d]]
        /\ base' = [base EXCEPT ![w] = [d \in took |-> Decide(doc[d], seen[w][d]).attempts]]
  BY Zenon DEF ClaimRows
<1>3. \A d \in hit : d \in Docs /\ seen[w][d] \in Candidate /\ doc[d] \in Row
  BY <1>1, Zenon DEF SeenSound, RowsSound, SoundRow
<1>4. \A d \in hit : /\ SoundRow(Decide(doc[d], seen[w][d]))
                     /\ ~IsTerminal(seen[w][d]) =>
                          Decide(doc[d], seen[w][d]).attempts \in 0..MAX_PARSE_ATTEMPTS - 1
  BY <1>3, DecideSound, Zenon
<1>5. RowsSound'
  <2>1. \A d \in Docs : SoundRow(doc'[d])
    BY <1>1, <1>2, <1>4, Zenon DEF RowsSound
  <2>2. doc' = [d \in Docs |-> doc'[d]]
    BY <1>2, Zenon
  <2>3. doc' \in [Docs -> Row]
    BY <2>1, <2>2, Zenon DEF SoundRow
  <2>4. QED
    BY <2>1, <2>3, Zenon DEF RowsSound, SoundRow
<1>6. BaseSound'
  <2> DEFINE took == {d \in hit : ~IsTerminal(seen[w][d])}
             loaded == [d \in took |-> Decide(doc[d], seen[w][d]).attempts]
  <2>1. base' = [base EXCEPT ![w] = loaded]
    BY <1>2, Zenon
  <2>2. DOMAIN loaded \subseteq Docs
        /\ \A d \in DOMAIN loaded : loaded[d] \in 0..MAX_PARSE_ATTEMPTS - 1
    BY <1>3, <1>4, Zenon
  <2> HIDE DEF loaded
  <2>3. QED
    BY <1>1, <2>1, <2>2, Zenon DEF BaseSound, held
<1>7. SeenSound'
  BY <1>1, Zenon DEF ClaimRows, SeenSound, Nothing
<1>8. version' \in 1..MaxVersion /\ ticked' \in [Workers -> BOOLEAN]
  BY <1>1, Zenon DEF ClaimRows
<1>9. QED
  BY <1>5, <1>6, <1>7, <1>8, SoundPartsPrimed

LEMMA SoundRelease ==
    ASSUME SoundRows, NEW w \in Workers, NEW C, Release(w, C)
    PROVE  SeenSound' /\ BaseSound' /\ version' \in 1..MaxVersion
           /\ ticked' \in [Workers -> BOOLEAN]
<1>1. SeenSound /\ BaseSound /\ version \in 1..MaxVersion /\ ticked \in [Workers -> BOOLEAN]
  BY SoundParts
<1>2. ticked' \in [Workers -> BOOLEAN]
  BY <1>1, Zenon DEF Release
<1>3. QED
  BY <1>1, <1>2, Zenon DEF Release, SeenSound, BaseSound, held

LEMMA SoundCommit ==
    ASSUME SoundRows, NEW w \in Workers, NEW C, CommitChunk(w, C)
    PROVE  SoundRows'
<1>1. RowsSound /\ BaseSound /\ version \in 1..MaxVersion
  BY SoundParts
<1>2. C \subseteq held(w)
  BY Zenon DEF CommitChunk, Chunk
<1>3. PICK result :
        doc' = [d \in Docs |-> IF d \in C THEN WriteBack(doc[d], base[w][d], result[d])
                               ELSE doc[d]]
  BY Zenon DEF CommitChunk
<1>4. \A d \in C : SoundRow(WriteBack(doc[d], base[w][d], result[d]))
  <2>1. \A d \in C : SoundRow(doc[d]) /\ base[w][d] \in 0..MAX_PARSE_ATTEMPTS - 1
    BY <1>1, <1>2, Zenon DEF RowsSound, BaseSound
  <2>2. QED
    BY <1>1, <2>1, WriteBackSound, Zenon
<1>5. \A d \in Docs : SoundRow(doc'[d])
  BY <1>1, <1>3, <1>4, Zenon DEF RowsSound
<1>6. doc' \in [Docs -> Row]
  <2>1. doc' = [d \in Docs |-> doc'[d]]
    BY <1>3, Zenon
  <2>2. QED
    BY <1>5, <2>1, Zenon DEF SoundRow
<1>7. RowsSound'
  BY <1>5, <1>6, Zenon DEF RowsSound, SoundRow
<1>8. QED
  BY <1>7, SoundRelease, SoundPartsPrimed DEF CommitChunk

\* An abort or a crash writes nothing.
LEMMA SoundDrop ==
    ASSUME SoundRows, NEW w \in Workers, NEW C, Release(w, C), UNCHANGED doc
    PROVE  SoundRows'
<1>1. RowsSound'
  BY SoundParts, Zenon DEF RowsSound, SoundRow
<1>2. QED
  BY <1>1, SoundRelease, SoundPartsPrimed

LEMMA SoundTick ==
    ASSUME SoundRows, Tick
    PROVE  SoundRows'
<1>1. RowsSound /\ SeenSound /\ BaseSound /\ version \in 1..MaxVersion
  BY SoundParts
<1>2. \A d \in Docs : SoundRow(doc'[d])
  <2> TAKE d \in Docs
  <2> DEFINE l == IF doc[d].lease > 0 THEN doc[d].lease - 1 ELSE 0
             u == IF doc[d].due > 0 THEN doc[d].due - 1 ELSE 0
  <2>1. SoundRow(doc[d])
    BY <1>1, Zenon DEF RowsSound
  <2>2. doc[d].lease \in 0..Lease /\ doc[d].due \in 0..MaxBackoff
    BY <2>1, Zenon DEF SoundRow, Row
  <2>3. l \in 0..Lease /\ u \in 0..MaxBackoff
    BY <2>2, ParseQueueAssumption, BackoffAssumption
  <2>4. doc'[d] = [doc[d] EXCEPT !.lease = l, !.due = u]
    BY Zenon DEF Tick
  <2> HIDE DEF l, u
  <2>5. doc'[d] \in Row /\ doc'[d].status = doc[d].status /\ doc'[d].attempts = doc[d].attempts
    BY <2>1, <2>3, <2>4, Zenon DEF SoundRow, Row
  <2>6. QED
    BY <2>1, <2>5, Zenon DEF SoundRow
<1>3. RowsSound'
  <2>1. doc' = [d \in Docs |-> doc'[d]]
    BY Zenon DEF Tick
  <2>2. doc' \in [Docs -> Row]
    BY <1>2, <2>1, Zenon DEF SoundRow
  <2>3. QED
    BY <1>2, <2>2, Zenon DEF RowsSound, SoundRow
<1>4. SeenSound' /\ BaseSound' /\ version' \in 1..MaxVersion
  BY <1>1, Zenon DEF Tick, SeenSound, BaseSound, held
<1>5. ticked' \in [Workers -> BOOLEAN]
  BY Zenon DEF Tick
<1>6. QED
  BY <1>3, <1>4, <1>5, SoundPartsPrimed

LEMMA SoundDeploy ==
    ASSUME SoundRows, Deploy
    PROVE  SoundRows'
<1>1. RowsSound' /\ SeenSound' /\ BaseSound' /\ ticked' \in [Workers -> BOOLEAN]
  BY SoundParts, Zenon DEF Deploy, RowsSound, SoundRow, SeenSound, BaseSound, held
<1>2. version' \in 1..MaxVersion
  BY SoundParts, ParseQueueAssumption DEF Deploy
<1>3. QED
  BY <1>1, <1>2, SoundPartsPrimed

LEMMA SoundRequeue ==
    ASSUME SoundRows, Requeue
    PROVE  SoundRows'
<1>1. RowsSound /\ SeenSound /\ BaseSound /\ version \in 1..MaxVersion
      /\ ticked \in [Workers -> BOOLEAN]
  BY SoundParts
<1>2. 0 \in 0..MAX_PARSE_ATTEMPTS /\ 0 < MAX_PARSE_ATTEMPTS
  BY ParseQueueAssumption
<1>3. PICK S : doc' = [d \in Docs |->
                         IF d \in S
                         THEN [doc[d] EXCEPT !.status = "PENDING", !.attempts = 0,
                                             !.lease = 0, !.due = 0]
                         ELSE doc[d]]
  BY Zenon DEF Requeue
<1>4. \A d \in Docs : SoundRow(doc'[d])
  <2> TAKE d \in Docs
  <2>1. SoundRow(doc[d])
    BY <1>1, Zenon DEF RowsSound
  <2>2. CASE d \in S
    <3>1. doc'[d] = [doc[d] EXCEPT !.status = "PENDING", !.attempts = 0,
                                   !.lease = 0, !.due = 0]
      BY <1>3, <2>2, Zenon
    <3>2. doc'[d] \in Row /\ doc'[d].status = "PENDING" /\ doc'[d].attempts = 0
      BY <1>2, <2>1, <3>1, ZeroInRange, Zenon DEF SoundRow, Row, ParseStatus
    <3>3. QED
      BY <1>2, <3>2 DEF SoundRow
  <2>3. CASE d \notin S
    BY <1>3, <2>1, <2>3, Zenon
  <2>4. QED
    BY <2>2, <2>3
<1>5. doc' \in [Docs -> Row]
  <2>1. doc' = [d \in Docs |-> doc'[d]]
    BY <1>3, Zenon
  <2>2. QED
    BY <1>4, <2>1, Zenon DEF SoundRow
<1>6. RowsSound' /\ SeenSound' /\ BaseSound' /\ version' \in 1..MaxVersion
      /\ ticked' \in [Workers -> BOOLEAN]
  BY <1>1, <1>4, <1>5, Zenon DEF Requeue, RowsSound, SoundRow, SeenSound, BaseSound, held
<1>7. QED
  BY <1>6, SoundPartsPrimed

LEMMA SoundNext == SoundRows /\ [Next]_vars => SoundRows'
<1> SUFFICES ASSUME SoundRows, [Next]_vars PROVE SoundRows'
  OBVIOUS
<1>1. ASSUME NEW w \in Workers, Worker(w) \/ Crash(w) PROVE SoundRows'
  <2>1. CASE ReadCandidates(w)
    BY <2>1, SoundRead
  <2>2. CASE ClaimRows(w)
    BY <2>2, SoundClaim
  <2>3. CASE FinishChunk(w)
    <3>1. PICK C : CommitChunk(w, C) \/ AbortChunk(w, C)
      BY <2>3, Zenon DEF FinishChunk
    <3>2. QED
      BY <3>1, SoundCommit, SoundDrop, Zenon DEF AbortChunk
  <2>4. CASE Crash(w)
    BY <2>4, SoundDrop, Zenon DEF Crash
  <2>5. QED
    BY <1>1, <2>1, <2>2, <2>3, <2>4, Zenon DEF Worker
<1>2. CASE UNCHANGED vars
  <2>1. RowsSound' /\ SeenSound' /\ BaseSound' /\ version' \in 1..MaxVersion
        /\ ticked' \in [Workers -> BOOLEAN]
    BY <1>2, SoundParts, Zenon
       DEF vars, RowsSound, SoundRow, SeenSound, BaseSound, held
  <2>2. QED
    BY <2>1, SoundPartsPrimed
<1>3. QED
  BY <1>1, <1>2, SoundTick, SoundDeploy, SoundRequeue, Zenon DEF Next

\* Every reachable state is well typed and keeps the retry limit: whatever
\* crashes, aborts, conflicts, failures, deployments and requeues happen, a
\* document in the queue has attempts left and one given up on has used all.
THEOREM Sound == Spec => []SoundRows
BY SoundInit, SoundNext, PTL DEF Spec

\* The type invariant of the parse queue.
THEOREM TypeCorrect == Spec => []TypeOK
<1>1. SoundRows => TypeOK
  BY DEF SoundRows
<1>2. QED
  BY <1>1, Sound, PTL

\* The retry limit of claim.py and extract/runner.py, for any number of
\* workers and documents and whether or not a lease is overrun.
THEOREM RetriesLimited == Spec => []RetryLimit
<1>1. SoundRows => RetryLimit
  BY DEF SoundRows
<1>2. QED
  BY <1>1, Sound, PTL

-----------------------------------------------------------------------------
(* Exclusive parsing                                                       *)
(*                                                                         *)
(* NoDoubleParse is not inductive.  What keeps another worker away from a  *)
(* held document is its lease, and the lease is long enough because what   *)
(* is left of it pays for the chunks still ahead (LeaseCovers).            *)

\* A worker between two batches has no clock tick charged to it, and none
\* claims while it holds documents.
Resting ==
    \A w \in Workers : /\ held(w) = {} => ~ticked[w]
                       /\ DOMAIN seen[w] # {} => held(w) = {}

\* A document in a terminal state has neither a lease nor a due time.
Settled ==
    \A d \in Docs : doc[d].status \in Terminal => doc[d].lease = 0 /\ doc[d].due = 0

LeaseInv == NoDoubleParse /\ LeaseCovers /\ Resting /\ Settled

LEMMA HeldFinite ==
    ASSUME SoundRows, NEW w \in Workers
    PROVE  /\ IsFiniteSet(held(w)) /\ held(w) \subseteq Docs
           /\ Cardinality(held(w)) \in Nat
           /\ \A d \in held(w) : Cardinality(held(w)) >= 1
<1>1. held(w) \subseteq Docs
  BY Zenon DEF SoundRows, TypeOK
<1>2. IsFiniteSet(held(w))
  BY <1>1, ParseQueueAssumption, FS_Subset, Zenon
<1>3. Cardinality(held(w)) \in Nat
  BY <1>2, FS_CardinalityType, Zenon
<1>4. \A d \in held(w) : Cardinality(held(w)) # 0
  BY <1>2, FS_EmptySet, Zenon
<1>5. \A d \in held(w) : Cardinality(held(w)) >= 1
  BY <1>3, <1>4
<1>6. QED
  BY <1>1, <1>2, <1>3, <1>5

\* A held document cannot be claimed.
LEMMA HeldNotClaimable ==
    ASSUME SoundRows, LeaseCovers, NEW w \in Workers, NEW d \in held(w)
    PROVE  /\ d \in Docs /\ doc[d].status = "RUNNING"
           /\ doc[d].lease \in Nat \ {0}
           /\ ~Claimable(d)
<1>1. d \in Docs /\ doc[d].status = "RUNNING"
  BY HeldFinite, Zenon DEF LeaseCovers
<1>2. doc[d].lease \in 0..Lease
  BY <1>1, Zenon DEF SoundRows, TypeOK, Row
<1>3. doc[d].lease + (IF ticked[w] THEN 1 ELSE 0) > Cardinality(held(w))
  BY Zenon DEF LeaseCovers
<1>4. Cardinality(held(w)) \in Nat /\ Cardinality(held(w)) >= 1
  BY HeldFinite, Zenon
<1>5. doc[d].lease \in Nat \ {0}
  BY <1>2, <1>3, <1>4, ParseQueueAssumption
<1>6. QED
  BY <1>1, <1>5, Zenon DEF Claimable

\* Finishing a chunk pays for the tick it may have taken.
LEMMA FewerHeld ==
    ASSUME SoundRows, NEW w \in Workers, NEW C, C \subseteq held(w), C # {}
    PROVE  /\ Cardinality(held(w) \ C) \in Nat
           /\ Cardinality(held(w) \ C) + 1 <= Cardinality(held(w))
<1>1. IsFiniteSet(held(w)) /\ Cardinality(held(w)) \in Nat
  BY HeldFinite, Zenon
<1>2. IsFiniteSet(held(w) \ C) /\ Cardinality(held(w) \ C) <= Cardinality(held(w))
      /\ (Cardinality(held(w)) = Cardinality(held(w) \ C) => held(w) = held(w) \ C)
  BY <1>1, FS_Subset, Zenon
<1>3. Cardinality(held(w) \ C) \in Nat
  BY <1>2, FS_CardinalityType, Zenon
<1>4. Cardinality(held(w)) # Cardinality(held(w) \ C)
  BY <1>2, Zenon
<1>5. QED
  BY <1>1, <1>2, <1>3, <1>4

LEMMA LeaseInit == Init => LeaseInv
<1> SUFFICES ASSUME Init PROVE LeaseInv
  OBVIOUS
<1>1. \A w \in Workers : held(w) = {} /\ DOMAIN seen[w] = {} /\ ~ticked[w]
  BY Zenon DEF Init, held, Nothing
<1>2. \A d \in Docs : doc[d].status = "PENDING"
  BY Zenon DEF Init
<1>3. NoDoubleParse /\ LeaseCovers /\ Resting
  BY <1>1, Zenon DEF NoDoubleParse, LeaseCovers, Resting
<1>4. Settled
  BY <1>2 DEF Settled, Terminal
<1>5. QED
  BY <1>3, <1>4 DEF LeaseInv

LEMMA LeaseRead ==
    ASSUME SoundRows, LeaseInv, NEW w \in Workers, ReadCandidates(w)
    PROVE  LeaseInv'
<1>1. doc' = doc /\ base' = base /\ ticked' = ticked /\ held(w) = {}
      /\ \A v \in Workers : v # w => seen'[v] = seen[v]
  BY Zenon DEF ReadCandidates, Idle, SoundRows, TypeOK
<1>2. Resting'
  BY <1>1, Zenon DEF LeaseInv, Resting, held
<1>3. QED
  BY <1>1, <1>2, Zenon DEF LeaseInv, NoDoubleParse, LeaseCovers, Settled, held

LEMMA LeaseClaim ==
    ASSUME Lease > Limit, SoundRows, LeaseInv, NEW w \in Workers, ClaimRows(w)
    PROVE  LeaseInv'
<1>1. DOMAIN base = Workers /\ DOMAIN seen = Workers /\ held(w) = {} /\ ~ticked[w]
  BY Zenon DEF ClaimRows, LeaseInv, Resting, SoundRows, TypeOK
<1> DEFINE took(H) == {d \in H : ~IsTerminal(seen[w][d])}
<1>2. PICK hit \in SUBSET {d \in DOMAIN seen[w] : Claimable(d)} :
        /\ Cardinality(took(hit)) <= Limit
        /\ doc' = [d \in Docs |-> IF d \in hit THEN Decide(doc[d], seen[w][d]) ELSE doc[d]]
        /\ base' = [base EXCEPT ![w] =
                      [d \in took(hit) |-> Decide(doc[d], seen[w][d]).attempts]]
  BY Zenon DEF ClaimRows
<1>3. \A d \in hit : /\ d \in Docs /\ doc'[d] = Decide(doc[d], seen[w][d])
                     /\ ~IsTerminal(seen[w][d]) => /\ doc'[d].status = "RUNNING"
                                                   /\ doc'[d].lease = Lease
                     /\ IsTerminal(seen[w][d]) => /\ doc'[d].lease = 0 /\ doc'[d].due = 0
  <2>1. \A d \in hit : d \in Docs /\ seen[w][d] \in Candidate /\ doc[d] \in Row
    BY Zenon DEF SoundRows, TypeOK
  <2>2. QED
    BY <1>2, <2>1, DecideSound, Zenon
<1>4. held(w)' = took(hit)
      /\ \A v \in Workers : v # w => base'[v] = base[v] /\ held(v)' = held(v)
  BY <1>1, <1>2, Zenon DEF held
<1>5. \A v \in Workers : v # w => hit \cap held(v) = {}
  BY HeldNotClaimable, Zenon DEF LeaseInv
<1>6. \A d \in Docs \ hit : doc'[d] = doc[d]
  BY <1>2, Zenon
<1>7. NoDoubleParse'
  <2>1. took(hit) \subseteq hit
    OBVIOUS
  <2> HIDE DEF took
  <2>2. ASSUME NEW u \in Workers, NEW v \in Workers, u # v
        PROVE  held(u)' \cap held(v)' = {}
    <3>1. CASE u # w /\ v # w
      BY <1>4, <2>2, <3>1, Zenon DEF LeaseInv, NoDoubleParse
    <3>2. CASE u = w
      BY <1>4, <1>5, <2>1, <2>2, <3>2, Zenon
    <3>3. CASE v = w
      BY <1>4, <1>5, <2>1, <2>2, <3>3, Zenon
    <3>4. QED
      BY <3>1, <3>2, <3>3
  <2>3. QED
    BY <2>2, Zenon DEF NoDoubleParse
<1>8. LeaseCovers'
  <2>1. ASSUME NEW d \in held(w)'
        PROVE  /\ doc'[d].status = "RUNNING" /\ doc'[d].attempts = base'[w][d]
               /\ doc'[d].lease + (IF ticked'[w] THEN 1 ELSE 0) > Cardinality(held(w)')
    <3>1. d \in hit /\ ~IsTerminal(seen[w][d])
      BY <1>4, <2>1, Zenon
    <3>2. doc'[d].status = "RUNNING" /\ doc'[d].lease = Lease
      BY <1>3, <3>1, Zenon
    <3>3. base'[w][d] = Decide(doc[d], seen[w][d]).attempts
      BY <1>1, <1>2, <3>1, Zenon
    <3>4. doc'[d].attempts = base'[w][d]
      BY <1>3, <3>1, <3>3, Zenon
    <3>5. Cardinality(held(w)') \in Nat /\ Cardinality(held(w)') <= Limit
      <4>1. took(hit) \subseteq Docs
        BY <1>3, Zenon
      <4>2. Cardinality(took(hit)) \in Nat
        BY <4>1, ParseQueueAssumption, FS_Subset, FS_CardinalityType, Zenon
      <4>3. QED
        BY <1>2, <1>4, <4>2, Zenon
    <3>6. ~ticked'[w]
      BY <1>1, Zenon DEF ClaimRows
    <3>7. doc'[d].lease + (IF ticked'[w] THEN 1 ELSE 0) > Cardinality(held(w)')
      BY <3>2, <3>5, <3>6, ParseQueueAssumption
    <3>8. QED
      BY <3>2, <3>4, <3>7
  <2>2. ASSUME NEW v \in Workers, v # w, NEW d \in held(v)'
        PROVE  /\ doc'[d].status = "RUNNING" /\ doc'[d].attempts = base'[v][d]
               /\ doc'[d].lease + (IF ticked'[v] THEN 1 ELSE 0) > Cardinality(held(v)')
    <3>1. d \in held(v) /\ base'[v] = base[v] /\ held(v)' = held(v) /\ ticked' = ticked
      BY <1>4, <2>2, Zenon DEF ClaimRows
    <3>2. doc'[d] = doc[d]
      BY <1>5, <1>6, <2>2, <3>1, HeldNotClaimable, Zenon DEF LeaseInv
    <3>3. QED
      BY <3>1, <3>2, Zenon DEF LeaseInv, LeaseCovers
  <2>3. QED
    BY <2>1, <2>2, Zenon DEF LeaseCovers
<1>9. Resting'
  <2>1. \A v \in Workers : seen'[v] = (IF v = w THEN Nothing ELSE seen[v]) /\ ticked'[v] = ticked[v]
    BY <1>1, Zenon DEF ClaimRows
  <2>2. QED
    BY <1>1, <1>4, <2>1, Zenon DEF LeaseInv, Resting, Nothing
<1>10. Settled'
  BY <1>3, <1>6, Zenon DEF LeaseInv, Settled, Terminal
<1>11. QED
  BY <1>7, <1>8, <1>9, <1>10 DEF LeaseInv

\* Giving up a chunk of one's own documents keeps everything but Settled,
\* which depends on what was written into the chunk.
LEMMA LeaseRelease ==
    ASSUME SoundRows, LeaseInv, NEW w \in Workers, NEW C, C \subseteq held(w), C # {},
           Release(w, C), \A d \in Docs \ C : doc'[d] = doc[d]
    PROVE  NoDoubleParse' /\ LeaseCovers' /\ Resting'
<1>1. DOMAIN base = Workers /\ ticked \in [Workers -> BOOLEAN]
      /\ \A v \in Workers : held(v) \subseteq Docs
  BY Zenon DEF SoundRows, TypeOK
<1>2. /\ held(w)' = held(w) \ C /\ ~ticked'[w]
      /\ \A d \in held(w) \ C : base'[w][d] = base[w][d]
      /\ \A v \in Workers : v # w => /\ base'[v] = base[v] /\ held(v)' = held(v)
                                     /\ ticked'[v] = ticked[v]
  BY <1>1, Zenon DEF Release, held
<1>3. NoDoubleParse'
  <2>1. \A v \in Workers : held(v)' \subseteq held(v)
    BY <1>2, Zenon
  <2>2. QED
    BY <2>1, Zenon DEF LeaseInv, NoDoubleParse
<1>4. LeaseCovers'
  <2>1. ASSUME NEW d \in held(w)'
        PROVE  /\ doc'[d].status = "RUNNING" /\ doc'[d].attempts = base'[w][d]
               /\ doc'[d].lease + (IF ticked'[w] THEN 1 ELSE 0) > Cardinality(held(w)')
    <3>1. d \in held(w) /\ d \notin C /\ doc'[d] = doc[d]
      BY <1>1, <1>2, <2>1, Zenon
    <3>2. doc[d].status = "RUNNING" /\ doc[d].attempts = base[w][d]
          /\ doc[d].lease + (IF ticked[w] THEN 1 ELSE 0) > Cardinality(held(w))
      BY <3>1, Zenon DEF LeaseInv, LeaseCovers
    <3>3. doc[d].lease \in Nat
      BY <3>1, HeldNotClaimable, Zenon DEF LeaseInv
    <3>4. /\ Cardinality(held(w)) \in Nat /\ Cardinality(held(w)') \in Nat
          /\ Cardinality(held(w)') + 1 <= Cardinality(held(w))
      BY <1>2, FewerHeld, HeldFinite, Zenon
    <3>5. doc[d].lease + 0 > Cardinality(held(w)')
      BY <3>2, <3>3, <3>4
    <3>6. QED
      BY <1>2, <3>1, <3>2, <3>5, Zenon
  <2>2. ASSUME NEW v \in Workers, v # w, NEW d \in held(v)'
        PROVE  /\ doc'[d].status = "RUNNING" /\ doc'[d].attempts = base'[v][d]
               /\ doc'[d].lease + (IF ticked'[v] THEN 1 ELSE 0) > Cardinality(held(v)')
    <3>1. d \in held(v) /\ d \notin C
      BY <1>2, <2>2, Zenon DEF LeaseInv, NoDoubleParse
    <3>2. doc'[d] = doc[d]
      BY <1>1, <3>1, Zenon
    <3>3. QED
      BY <1>2, <2>2, <3>1, <3>2, Zenon DEF LeaseInv, LeaseCovers
  <2>3. QED
    BY <2>1, <2>2, Zenon DEF LeaseCovers
<1>5. Resting'
  <2>1. seen' = seen
    BY Zenon DEF Release
  <2>2. QED
    BY <1>2, <2>1, Zenon DEF LeaseInv, Resting
<1>6. QED
  BY <1>3, <1>4, <1>5

LEMMA LeaseCommit ==
    ASSUME SoundRows, LeaseInv, NEW w \in Workers, NEW C, CommitChunk(w, C)
    PROVE  LeaseInv'
<1>1. C \subseteq held(w) /\ C # {} /\ Release(w, C)
  BY DEF CommitChunk, Chunk
<1>2. PICK result :
        doc' = [d \in Docs |-> IF d \in C THEN WriteBack(doc[d], base[w][d], result[d])
                               ELSE doc[d]]
  BY Zenon DEF CommitChunk
<1>3. NoDoubleParse' /\ LeaseCovers' /\ Resting'
  BY <1>1, <1>2, LeaseRelease, Zenon
<1>4. \A d \in C : /\ d \in Docs /\ doc[d].status = "RUNNING" /\ SoundRow(doc[d])
                   /\ base[w][d] \in 0..MAX_PARSE_ATTEMPTS - 1 /\ version \in 1..MaxVersion
  BY <1>1, SoundParts, Zenon DEF LeaseInv, LeaseCovers, RowsSound, BaseSound
<1>5. \A d \in C : WriteBack(doc[d], base[w][d], result[d]).status \in Terminal
                     => /\ WriteBack(doc[d], base[w][d], result[d]).lease = 0
                        /\ WriteBack(doc[d], base[w][d], result[d]).due = 0
  BY <1>4, WriteBackSound, Zenon
<1>6. Settled'
  BY <1>2, <1>5, Zenon DEF LeaseInv, Settled
<1>7. QED
  BY <1>3, <1>6 DEF LeaseInv

LEMMA LeaseDrop ==
    ASSUME SoundRows, LeaseInv, NEW w \in Workers, NEW C, C \subseteq held(w), C # {},
           Release(w, C), UNCHANGED doc
    PROVE  LeaseInv'
<1>1. NoDoubleParse' /\ LeaseCovers' /\ Resting'
  BY LeaseRelease, Zenon
<1>2. Settled'
  BY Zenon DEF LeaseInv, Settled
<1>3. QED
  BY <1>1, <1>2 DEF LeaseInv

LEMMA LeaseTick ==
    ASSUME SoundRows, LeaseInv, Tick
    PROVE  LeaseInv'
<1>1. base' = base /\ seen' = seen /\ ticked' = [w \in Workers |-> held(w) # {}]
      /\ \A w \in Workers : ~ticked[w] /\ held(w)' = held(w)
  BY Zenon DEF Tick, held
<1>2. ASSUME NEW d \in Docs
      PROVE  /\ doc'[d].status = doc[d].status /\ doc'[d].attempts = doc[d].attempts
             /\ doc'[d].lease = IF doc[d].lease > 0 THEN doc[d].lease - 1 ELSE 0
             /\ doc'[d].due = IF doc[d].due > 0 THEN doc[d].due - 1 ELSE 0
  <2>1. doc[d] \in Row
    BY Zenon DEF SoundRows, TypeOK
  <2>2. doc'[d] = [doc[d] EXCEPT !.lease = IF @ > 0 THEN @ - 1 ELSE 0,
                                 !.due   = IF @ > 0 THEN @ - 1 ELSE 0]
    BY Zenon DEF Tick
  <2>3. QED
    BY <2>1, <2>2, Zenon DEF Row
<1>3. LeaseCovers'
  <2> SUFFICES ASSUME NEW w \in Workers, NEW d \in held(w)
               PROVE  /\ doc'[d].status = "RUNNING" /\ doc'[d].attempts = base[w][d]
                      /\ doc'[d].lease + (IF ticked'[w] THEN 1 ELSE 0)
                           > Cardinality(held(w))
    BY <1>1, Zenon DEF LeaseCovers
  <2>1. d \in Docs /\ doc[d].lease \in Nat \ {0}
    BY HeldNotClaimable, Zenon DEF LeaseInv
  <2>2. /\ doc[d].status = "RUNNING" /\ doc[d].attempts = base[w][d]
        /\ doc[d].lease + (IF ticked[w] THEN 1 ELSE 0) > Cardinality(held(w))
    BY Zenon DEF LeaseInv, LeaseCovers
  <2>3. doc'[d].lease = doc[d].lease - 1 /\ ~ticked[w] /\ ticked'[w] = TRUE
    <3>1. doc[d].lease > 0
      BY <2>1
    <3>2. QED
      BY <1>1, <1>2, <2>1, <3>1, Zenon
  <2>4. doc[d].lease > Cardinality(held(w)) /\ Cardinality(held(w)) \in Nat
    BY <2>1, <2>2, <2>3, HeldFinite
  <2>5. doc'[d].lease + 1 > Cardinality(held(w))
    BY <2>1, <2>3, <2>4
  <2>6. QED
    BY <1>2, <2>1, <2>2, <2>3, <2>5, Zenon
<1>4. NoDoubleParse' /\ Resting'
  BY <1>1, Zenon DEF LeaseInv, NoDoubleParse, Resting
<1>5. Settled'
  <2>1. ASSUME NEW d \in Docs, doc'[d].status \in Terminal
        PROVE  doc'[d].lease = 0 /\ doc'[d].due = 0
    <3>1. doc[d].lease = 0 /\ doc[d].due = 0
      BY <1>2, <2>1, Zenon DEF LeaseInv, Settled
    <3>2. ~(doc[d].lease > 0) /\ ~(doc[d].due > 0)
      BY <3>1
    <3>3. QED
      BY <1>2, <3>2, Zenon
  <2>2. QED
    BY <2>1, Zenon DEF Settled
<1>6. QED
  BY <1>3, <1>4, <1>5 DEF LeaseInv

LEMMA LeaseRequeue ==
    ASSUME SoundRows, LeaseInv, Requeue
    PROVE  LeaseInv'
<1>1. base' = base /\ seen' = seen /\ ticked' = ticked
  BY Zenon DEF Requeue
<1>2. PICK S :
        /\ S \subseteq {d \in Docs : doc[d].status = "DONE"}
        /\ doc' = [d \in Docs |-> IF d \in S
                                  THEN [doc[d] EXCEPT !.status = "PENDING", !.attempts = 0,
                                                      !.lease = 0, !.due = 0]
                                  ELSE doc[d]]
  BY DEF Requeue
<1>3. \A w \in Workers : held(w)' = held(w) /\ \A d \in held(w) : doc'[d] = doc[d]
  <2>1. \A w \in Workers : \A d \in held(w) : d \in Docs /\ d \notin S
    BY <1>2, HeldNotClaimable DEF LeaseInv
  <2>2. QED
    BY <1>1, <1>2, <2>1, Zenon DEF held
<1>4. NoDoubleParse' /\ LeaseCovers' /\ Resting'
  BY <1>1, <1>3, Zenon DEF LeaseInv, NoDoubleParse, LeaseCovers, Resting
<1>5. Settled'
  <2>1. \A d \in S : doc'[d].lease = 0 /\ doc'[d].due = 0
    <3> SUFFICES ASSUME NEW d \in S PROVE doc'[d].lease = 0 /\ doc'[d].due = 0
      OBVIOUS
    <3>1. d \in Docs
      BY <1>2
    <3>2. doc[d] \in Row
      BY <3>1, Zenon DEF SoundRows, TypeOK
    <3>3. doc'[d] = [doc[d] EXCEPT !.status = "PENDING", !.attempts = 0,
                                   !.lease = 0, !.due = 0]
      BY <1>2, <3>1, Zenon
    <3>4. QED
      BY <3>2, <3>3, Zenon DEF Row
  <2>2. \A d \in Docs \ S : doc'[d] = doc[d]
    BY <1>2, Zenon
  <2>3. QED
    BY <2>1, <2>2, Zenon DEF LeaseInv, Settled
<1>6. QED
  BY <1>4, <1>5 DEF LeaseInv

LEMMA LeaseNext ==
    ASSUME Lease > Limit
    PROVE  SoundRows /\ LeaseInv /\ [Next]_vars => LeaseInv'
<1> SUFFICES ASSUME SoundRows, LeaseInv, [Next]_vars PROVE LeaseInv'
  OBVIOUS
<1>1. ASSUME NEW w \in Workers, Worker(w) \/ Crash(w) PROVE LeaseInv'
  <2>1. CASE ReadCandidates(w)
    BY <2>1, LeaseRead
  <2>2. CASE ClaimRows(w)
    BY <2>2, LeaseClaim
  <2>3. CASE FinishChunk(w)
    <3>1. PICK C : CommitChunk(w, C) \/ AbortChunk(w, C)
      BY <2>3, Zenon DEF FinishChunk
    <3>2. CASE AbortChunk(w, C)
      <4>1. held(w) # {} /\ C \subseteq held(w) /\ C # {}
        BY <3>2 DEF AbortChunk, Chunk
      <4>2. QED
        BY <3>2, <4>1, LeaseDrop, Zenon DEF AbortChunk
    <3>3. QED
      BY <3>1, <3>2, LeaseCommit
  <2>4. CASE Crash(w)
    BY <2>4, LeaseDrop, Zenon DEF Crash
  <2>5. QED
    BY <1>1, <2>1, <2>2, <2>3, <2>4, Zenon DEF Worker
<1>2. CASE Deploy \/ UNCHANGED vars
  <2>1. doc' = doc /\ base' = base /\ seen' = seen /\ ticked' = ticked
    BY <1>2, Zenon DEF Deploy, vars
  <2>2. QED
    BY <2>1, Zenon DEF LeaseInv, NoDoubleParse, LeaseCovers, Resting, Settled, held
<1>3. QED
  BY <1>1, <1>2, LeaseTick, LeaseRequeue, Zenon DEF Next

THEOREM LeasesHold ==
    ASSUME Lease > Limit
    PROVE  Spec => [](SoundRows /\ LeaseInv)
<1>1. Init => SoundRows /\ LeaseInv
  BY SoundInit, LeaseInit
<1>2. SoundRows /\ LeaseInv /\ [Next]_vars => (SoundRows /\ LeaseInv)'
  BY SoundNext, LeaseNext
<1>3. QED
  BY <1>1, <1>2, PTL DEF Spec

\* Exclusive parsing (claim.py): when the lease is longer than a batch of Limit
\* chunks can take, no two live workers ever hold the same document, whatever
\* crashes, aborts, conflicts, failures, deployments and requeues happen.
THEOREM ParsedOnce ==
    ASSUME Lease > Limit
    PROVE  Spec => []NoDoubleParse
<1>1. SoundRows /\ LeaseInv => NoDoubleParse
  BY DEF LeaseInv
<1>2. QED
  BY <1>1, LeasesHold, PTL

\* Under the same condition a worker's lease lasts until it is done with every
\* document it holds, so no late commit of its meets a row it no longer owns.
THEOREM LeasesCover ==
    ASSUME Lease > Limit
    PROVE  Spec => []LeaseCovers
<1>1. SoundRows /\ LeaseInv => LeaseCovers
  BY DEF LeaseInv
<1>2. QED
  BY <1>1, LeasesHold, PTL

-----------------------------------------------------------------------------
(* Terminal states                                                         *)

LEMMA TerminalStep ==
    ASSUME SoundRows, LeaseInv, Next, NEW d \in Docs, doc[d].status \in Terminal
    PROVE  StaysTerminal(d)
<1>1. doc[d] \in Row /\ doc[d].lease = 0 /\ doc[d].due = 0
  BY Zenon DEF SoundRows, TypeOK, LeaseInv, Settled
<1>2. ~Claimable(d)
  BY DEF Claimable, Terminal
<1>3. \A w \in Workers : d \notin held(w)
  BY HeldNotClaimable DEF LeaseInv, Terminal
<1>4. ASSUME NEW w \in Workers, Worker(w) \/ Crash(w) PROVE doc'[d] = doc[d]
  <2>1. CASE ClaimRows(w)
    BY <1>2, <2>1, Zenon DEF ClaimRows
  <2>2. CASE FinishChunk(w)
    BY <1>3, <2>2, Zenon DEF FinishChunk, CommitChunk, AbortChunk, Chunk
  <2>3. QED
    BY <1>4, <2>1, <2>2, Zenon DEF Worker, ReadCandidates, Crash
<1>5. CASE Tick
  <2> DEFINE l == IF doc[d].lease > 0 THEN doc[d].lease - 1 ELSE 0
             u == IF doc[d].due > 0 THEN doc[d].due - 1 ELSE 0
  <2>1. l = 0 /\ u = 0
    BY <1>1
  <2>2. doc'[d] = [doc[d] EXCEPT !.lease = l, !.due = u]
    BY <1>5, Zenon DEF Tick
  <2> HIDE DEF l, u
  <2>3. doc'[d] = doc[d]
    BY <1>1, <2>1, <2>2, Zenon DEF Row
  <2>4. QED
    BY <2>3, Zenon DEF StaysTerminal
<1>6. CASE Requeue
  <2>1. PICK S :
        /\ S \subseteq {e \in Docs : doc[e].status = "DONE" /\ doc[e].ver # version}
        /\ doc' = [e \in Docs |-> IF e \in S
                                  THEN [doc[e] EXCEPT !.status = "PENDING", !.attempts = 0,
                                                      !.lease = 0, !.due = 0]
                                  ELSE doc[e]]
    BY <1>6 DEF Requeue
  <2>2. CASE d \in S
    <3>1. doc'[d] = [doc[d] EXCEPT !.status = "PENDING", !.attempts = 0,
                                   !.lease = 0, !.due = 0]
      BY <2>1, <2>2, Zenon
    <3>2. doc'[d].status = "PENDING" /\ doc'[d].attempts = 0
      BY <1>1, <3>1, Zenon DEF Row
    <3>3. QED
      BY <2>1, <2>2, <3>2 DEF StaysTerminal
  <2>3. CASE d \notin S
    BY <2>1, <2>3, Zenon DEF StaysTerminal
  <2>4. QED
    BY <2>2, <2>3
<1>7. QED
  BY <1>4, <1>5, <1>6, Zenon DEF Next, Deploy, StaysTerminal

\* Terminal states (extract/runner.py, repair/requeue.py): with a long enough
\* lease a parsed, skipped or given-up document leaves its state only by the
\* requeue of a DONE document whose rules are outdated.
THEOREM TerminalStays ==
    ASSUME Lease > Limit
    PROVE  Spec => TerminalStable
<1>1. SoundRows /\ LeaseInv /\ [Next]_vars => [\A d \in Docs : StaysTerminal(d)]_vars
  BY TerminalStep, Zenon DEF StaysTerminal
<1>2. QED
  BY <1>1, LeasesHold, PTL DEF Spec, TerminalStable

-----------------------------------------------------------------------------
(* The parse queue implements TaskQueue                                    *)

\* The two state functions of the refinement mapping.
Open  == {d \in Docs : doc[d].status \notin Terminal}
Holds == [w \in Workers |-> held(w)]

\* A document that can be claimed is a free task.
LEMMA ClaimableFree ==
    ASSUME SoundRows, LeaseInv, NEW d \in Docs, Claimable(d)
    PROVE  d \in Open /\ \A w \in Workers : d \notin held(w)
<1>1. d \in Open
  BY DEF Claimable, Terminal, Open
<1>2. QED
  BY <1>1, HeldNotClaimable, Zenon DEF LeaseInv

LEMMA QueueClaim ==
    ASSUME SoundRows, LeaseInv, NEW w \in Workers, ClaimRows(w)
    PROVE  Queue!Take(w)
<1>1. DOMAIN base = Workers /\ held(w) = {}
  BY Zenon DEF ClaimRows, LeaseInv, Resting, SoundRows, TypeOK
<1> DEFINE took(H) == {d \in H : ~IsTerminal(seen[w][d])}
           gone(H) == {d \in H : IsTerminal(seen[w][d])}
<1>2. PICK hit \in SUBSET {d \in DOMAIN seen[w] : Claimable(d)} :
        /\ doc' = [d \in Docs |-> IF d \in hit THEN Decide(doc[d], seen[w][d]) ELSE doc[d]]
        /\ base' = [base EXCEPT ![w] =
                      [d \in took(hit) |-> Decide(doc[d], seen[w][d]).attempts]]
  BY Zenon DEF ClaimRows
<1>3. \A d \in hit : d \in Docs /\ seen[w][d] \in Candidate /\ doc[d] \in Row
  BY Zenon DEF SoundRows, TypeOK
<1>4. \A d \in hit : d \in Open /\ \A v \in Workers : d \notin held(v)
  BY <1>2, <1>3, ClaimableFree, Zenon
<1>5. \A d \in hit : doc'[d].status \in Terminal <=> IsTerminal(seen[w][d])
  <2>1. \A d \in hit : doc'[d] = Decide(doc[d], seen[w][d])
    BY <1>2, <1>3, Zenon
  <2>2. \A d \in hit : /\ IsTerminal(seen[w][d]) => doc'[d].status = "FAILED"
                       /\ ~IsTerminal(seen[w][d]) => doc'[d].status = "RUNNING"
    <3> SUFFICES ASSUME NEW d \in hit
                 PROVE  /\ IsTerminal(seen[w][d]) => doc'[d].status = "FAILED"
                        /\ ~IsTerminal(seen[w][d]) => doc'[d].status = "RUNNING"
      OBVIOUS
    <3> DEFINE c == seen[w][d]
    <3>1. /\ IsTerminal(c) => Decide(doc[d], c).status = "FAILED"
          /\ ~IsTerminal(c) => Decide(doc[d], c).status = "RUNNING"
      <4>1. c \in Candidate /\ doc[d] \in Row
        BY <1>3, Zenon
      <4> HIDE DEF c
      <4>2. QED
        BY <4>1, DecideSound, Zenon
    <3>2. QED
      BY <2>1, <3>1, Zenon
  <2>3. QED
    BY <2>2 DEF Terminal
<1>6. Open' = Open \ gone(hit)
  <2>1. \A d \in Docs \ hit : doc'[d] = doc[d]
    BY <1>2, Zenon
  <2>2. QED
    BY <1>3, <1>4, <1>5, <2>1, Zenon DEF Open
<1>7. Holds' = [Holds EXCEPT ![w] = took(hit)]
  <2>1. held(w)' = took(hit) /\ \A v \in Workers : v # w => held(v)' = held(v)
    BY <1>1, <1>2, Zenon DEF held
  <2> HIDE DEF took
  <2>2. QED
    BY <2>1, Zenon DEF Holds
<1>8. /\ took(hit) \subseteq hit /\ gone(hit) \subseteq hit /\ took(hit) \cap gone(hit) = {}
  BY Zenon
<1>9. \A S : S \subseteq hit => S \in SUBSET Queue!Free
  BY <1>4, Zenon DEF Queue!Free, Open
<1> HIDE DEF took, gone
<1>10. Holds[w] = {}
  BY <1>1, Zenon DEF Holds
<1>11. QED
  BY <1>6, <1>7, <1>8, <1>9, <1>10, Zenon DEF Queue!Take, Open, Holds

LEMMA QueuePutDown ==
    ASSUME SoundRows, LeaseInv, NEW w \in Workers, NEW C, C \subseteq held(w),
           Release(w, C), \A d \in Docs \ C : doc'[d] = doc[d]
    PROVE  Queue!PutDown(w)
<1>1. DOMAIN base = Workers /\ \A d \in C : d \in Docs
  BY Zenon DEF SoundRows, TypeOK
<1>2. Holds' = [Holds EXCEPT ![w] = Holds[w] \ C]
  <2>1. held(w)' = held(w) \ C /\ \A v \in Workers : v # w => held(v)' = held(v)
    BY <1>1, Zenon DEF Release, held
  <2>2. QED
    BY <2>1, Zenon DEF Holds
<1> DEFINE D == {d \in C : doc'[d].status \in Terminal}
<1>3. \A d \in C : d \in Open
  BY <1>1, HeldNotClaimable DEF LeaseInv, Open, Terminal
<1>4. Open' = Open \ D
  <2>1. \A d \in Docs : doc'[d].status \notin Terminal <=> d \in Open /\ d \notin D
    <3> TAKE d \in Docs
    <3>1. CASE d \in C
      BY <1>3, <3>1, Zenon
    <3>2. CASE d \notin C
      BY <3>2, Zenon DEF Open
    <3>3. QED
      BY <3>1, <3>2
  <2> HIDE DEF D
  <2>2. QED
    BY <2>1, Zenon DEF Open
<1>5. C \in SUBSET Holds[w] /\ D \in SUBSET C
  BY Zenon DEF Holds
<1> HIDE DEF D
<1>6. QED
  BY <1>2, <1>4, <1>5, Zenon DEF Queue!PutDown, Open, Holds

LEMMA QueueStep ==
    SoundRows /\ LeaseInv /\ [Next]_vars => [Queue!Next]_(Queue!qvars)
<1> SUFFICES ASSUME SoundRows, LeaseInv, [Next]_vars
             PROVE  Queue!Next \/ (Open' = Open /\ Holds' = Holds)
  BY Zenon DEF Queue!qvars, Open, Holds
<1>1. ASSUME NEW w \in Workers, Worker(w) \/ Crash(w)
      PROVE  Queue!Next \/ (Open' = Open /\ Holds' = Holds)
  <2>1. CASE ReadCandidates(w)
    BY <2>1, Zenon DEF ReadCandidates, Open, Holds, held
  <2>2. CASE ClaimRows(w)
    BY <2>2, QueueClaim, Zenon DEF Queue!Next
  <2>3. CASE FinishChunk(w)
    <3>1. PICK C \in SUBSET held(w) : CommitChunk(w, C) \/ AbortChunk(w, C)
      BY <2>3, Zenon DEF FinishChunk
    <3>2. CASE CommitChunk(w, C)
      BY <3>2, QueuePutDown, Zenon DEF CommitChunk, Queue!Next
    <3>3. CASE AbortChunk(w, C)
      BY <3>3, QueuePutDown, Zenon DEF AbortChunk, Queue!Next
    <3>4. QED
      BY <3>1, <3>2, <3>3
  <2>4. CASE Crash(w)
    BY <2>4, QueuePutDown, Zenon DEF Crash, Queue!Next
  <2>5. QED
    BY <1>1, <2>1, <2>2, <2>3, <2>4, Zenon DEF Worker
<1>2. CASE Tick
  <2>1. \A d \in Docs : doc'[d].status = doc[d].status
    <3>1. \A d \in Docs : doc[d] \in Row
      BY Zenon DEF SoundRows, TypeOK
    <3>2. QED
      BY <1>2, <3>1, Zenon DEF Tick, Row
  <2>2. QED
    BY <1>2, <2>1, Zenon DEF Tick, Open, Holds, held
<1>3. CASE Requeue
  <2>1. PICK S :
        /\ S \subseteq {d \in Docs : doc[d].status = "DONE"}
        /\ doc' = [d \in Docs |-> IF d \in S
                                  THEN [doc[d] EXCEPT !.status = "PENDING", !.attempts = 0,
                                                      !.lease = 0, !.due = 0]
                                  ELSE doc[d]]
    BY <1>3 DEF Requeue
  <2>2. \A d \in S : d \in Docs /\ d \notin Open /\ doc'[d].status = "PENDING"
    <3>1. \A d \in S : d \in Docs /\ doc[d].status = "DONE" /\ doc[d] \in Row
      BY <2>1, Zenon DEF SoundRows, TypeOK
    <3>2. \A d \in S : doc'[d].status = "PENDING"
      BY <2>1, <3>1, Zenon DEF Row
    <3>3. QED
      BY <3>1, <3>2 DEF Open, Terminal
  <2>3. \A d \in S : doc'[d].status \notin Terminal
    BY <2>2 DEF Terminal
  <2>4. Open' = Open \cup S /\ S \in SUBSET (Docs \ Open)
    BY <2>1, <2>2, <2>3, Zenon DEF Open
  <2>5. Holds' = Holds
    BY <1>3, Zenon DEF Requeue, Holds, held
  <2>6. Queue!Reopen
    BY <2>4, <2>5, Zenon DEF Queue!Reopen, Open, Holds
  <2>7. QED
    BY <2>6, Zenon DEF Queue!Next
<1>4. CASE Deploy \/ UNCHANGED vars
  BY <1>4, Zenon DEF Deploy, vars, Open, Holds, held
<1>5. QED
  BY <1>1, <1>2, <1>3, <1>4, Zenon DEF Next

\* With a lease that outlasts a batch, the parse queue keeps the promise of
\* TaskQueue: a document is taken when it is free, put down by its holder, and
\* closed by its holder or by the claim that gives it up.
THEOREM KeepsPromise ==
    ASSUME Lease > Limit
    PROVE  Spec => ImplementsTaskQueue
<1>1. Init => Queue!Init
  <2> SUFFICES ASSUME Init PROVE Queue!Init
    OBVIOUS
  <2>1. \A d \in Docs : doc[d].status \notin Terminal
    <3>1. \A d \in Docs : doc[d].status = "PENDING"
      BY Zenon DEF Init
    <3>2. QED
      BY <3>1 DEF Terminal
  <2>2. \A w \in Workers : held(w) = {}
    BY Zenon DEF Init, held, Nothing
  <2>3. QED
    BY <2>1, <2>2, Zenon DEF Queue!Init
<1>2. QED
  BY <1>1, QueueStep, LeasesHold, PTL DEF Spec, Queue!Spec, ImplementsTaskQueue
=============================================================================
