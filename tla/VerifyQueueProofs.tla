-------------------------- MODULE VerifyQueueProofs --------------------------
(***************************************************************************)
(* Theorems about VerifyQueue, for every value of its constants.           *)
(*                                                                         *)
(* 1. Types, whatever goes wrong and whoever probes.                       *)
(* 2. NotForgotten, when nobody claims by force.                           *)
(* 3. LeaseInv: the workers never check a resource at the same time when   *)
(*    the lease outlasts a batch, whatever the pipelines write.            *)
(* 4. HistoryInv: with nothing but undisturbed workers, what a worker      *)
(*    takes for the last verdict is the last verdict, so that a link is    *)
(*    given up on after two invalid checks, and counts never overstate.    *)
(* 5. The queue implements TaskQueue when only its workers check.          *)
(***************************************************************************)
EXTENDS VerifyQueue, FiniteSetTheorems, TLAPS

CheckLog == {<<>>} \cup [1..1 -> Verdicts] \cup [1..2 -> Verdicts]

LastOf(c) == c[Len(c)]

-----------------------------------------------------------------------------
(* What the operators on one row return                                    *)

\* The back-off is a positive number of base intervals and never above the cap.
LEMMA BackoffBounds == \A n : backoff(n) \in 1..MaxBackoff
BY BackoffAssumption DEF backoff

\* The values the code writes into a lease, a due time and a count of attempts.
LEMMA Ranges ==
    /\ 0 \in 0..Lease /\ Lease \in 0..Lease
    /\ 0 \in Instant /\ Never \in Instant /\ ValidTTL \in Instant /\ InvalidTTL \in Instant
    /\ \A n : backoff(n) \in Instant
    /\ 0 \in 0..AttemptsCap /\ 1 \in 0..AttemptsCap
BY BackoffBounds, BackoffAssumption, VerifyQueueAssumption
   DEF Instant, Never, INVALID_CONFIRM_TIMES

\* Capping a count of attempts keeps it in range and never makes it fall below
\* the number of checks that confirm an invalid link.
LEMMA CappedRange ==
    ASSUME NEW n \in Nat
    PROVE  /\ capped(n) \in 0..AttemptsCap
           /\ n >= INVALID_CONFIRM_TIMES => capped(n) >= INVALID_CONFIRM_TIMES
BY VerifyQueueAssumption DEF capped, INVALID_CONFIRM_TIMES

LEMMA AttemptsRange ==
    ASSUME NEW baseline, NEW n \in 0..AttemptsCap, NEW outcome
    PROVE  Attempts(baseline, n, outcome) \in 0..AttemptsCap
<1>1. n + 1 \in Nat
  BY VerifyQueueAssumption
<1>2. capped(n + 1) \in 0..AttemptsCap
  BY <1>1, CappedRange
<1>3. QED
  BY <1>2, Ranges, Zenon DEF Attempts

LEMMA NextCheckInstant ==
    ASSUME NEW outcome, NEW n
    PROVE  next_check_at(outcome, n) \in Instant
BY Ranges DEF next_check_at

\* A verdict gives a row its status, due time and count, and leaves its lease.
LEMMA OutcomeRow ==
    ASSUME NEW row \in Row, NEW baseline, NEW n \in 0..AttemptsCap, NEW outcome \in Verdicts
    PROVE  LET z == persist_check_outcome(row, baseline, n, outcome)
               m == Attempts(baseline, n, outcome)
           IN  /\ z \in Row /\ z.status = outcome /\ z.lease = row.lease
               /\ z.due = next_check_at(outcome, m)
               /\ z.attempts = IF m = n THEN row.attempts ELSE m
<1> DEFINE m == Attempts(baseline, n, outcome)
           k == IF m = n THEN row.attempts ELSE m
           u == next_check_at(outcome, m)
<1>1. m \in 0..AttemptsCap
  BY AttemptsRange
<1>2. u \in Instant
  BY NextCheckInstant
<1>3. k \in 0..AttemptsCap
  BY <1>1 DEF Row
<1>4. outcome \in CheckStatus
  BY DEF CheckStatus
<1>5. persist_check_outcome(row, baseline, n, outcome)
        = [row EXCEPT !.status = outcome, !.attempts = k, !.due = u]
  BY DEF persist_check_outcome, Row
<1> HIDE DEF m, k, u
<1>6. [row EXCEPT !.status = outcome, !.attempts = k, !.due = u] \in Row
  BY <1>2, <1>3, <1>4, Zenon DEF Row
<1>7. QED
  BY <1>5, <1>6, Zenon DEF Row, m, k, u

\* A claimed row waits for its verdict under a full lease.  Its count and due
\* time change only when the check before was cut short.
LEMMA DecideRow ==
    ASSUME NEW row \in Row, NEW c \in Candidate
    PROVE  LET z == Decide(row, c)
           IN  /\ z \in Row /\ z.status = "CHECKING" /\ z.lease = Lease
               /\ c.status # "CHECKING" => z.attempts = row.attempts /\ z.due = row.due
               /\ c.status = "CHECKING" => z.due \in 1..MaxBackoff
<1>1. "CHECKING" \in CheckStatus
  BY DEF CheckStatus
<1>2. CASE c.status = "CHECKING"
  <2> DEFINE k == capped(c.attempts + 1)
             u == backoff(c.attempts + 1)
  <2>1. k \in 0..AttemptsCap
    <3>1. c.attempts + 1 \in Nat
      BY VerifyQueueAssumption DEF Candidate
    <3>2. QED
      BY <3>1, CappedRange
  <2>2. u \in Instant /\ u \in 1..MaxBackoff
    BY Ranges, BackoffBounds
  <2>3. Decide(row, c) = [row EXCEPT !.status = "CHECKING", !.lease = Lease,
                                     !.attempts = k, !.due = u]
    BY <1>2, Zenon DEF Decide
  <2> HIDE DEF k, u
  <2>4. QED
    BY <1>1, <1>2, <2>1, <2>2, <2>3, Ranges, Zenon DEF Row
<1>3. CASE c.status # "CHECKING"
  <2>1. Decide(row, c) = [row EXCEPT !.status = "CHECKING", !.lease = Lease]
    BY <1>3, Zenon DEF Decide
  <2>2. QED
    BY <1>1, <1>3, <2>1, Ranges, Zenon DEF Row
<1>4. QED
  BY <1>2, <1>3

\* A log of checks takes one more entry, its last one from then on.
LEMMA LogStep ==
    ASSUME NEW c \in CheckLog, NEW o \in Verdicts
    PROVE  LET z == IF c = <<>> THEN <<o>> ELSE <<LastOf(c), o>>
           IN  z \in CheckLog /\ z # <<>> /\ LastOf(z) = o
<1>1. CASE c = <<>>
  BY <1>1 DEF CheckLog, LastOf
<1>2. CASE c # <<>>
  <2>1. LastOf(c) \in Verdicts
    BY <1>2 DEF CheckLog, LastOf
  <2>2. QED
    BY <1>2, <2>1 DEF CheckLog, LastOf
<1>3. QED
  BY <1>1, <1>2

-----------------------------------------------------------------------------
(* Types                                                                   *)

\* The parts of TypeOK.
RowsOK   == res \in [Resources -> Row]
LogsOK   == checks \in [Resources -> CheckLog]
CountOK  == validCount \in 0..Cardinality(Resources)
FlyingOK == flying \in [Pipelines -> SUBSET Resources]
TickedOK == ticked \in [Workers -> BOOLEAN]

SeenOK ==
    /\ DOMAIN seen = Workers
    /\ \A w \in Workers : DOMAIN seen[w] \subseteq Resources
                          /\ \A r \in DOMAIN seen[w] : seen[w][r] \in Candidate

TaskOK ==
    /\ DOMAIN task = Workers
    /\ \A w \in Workers : held(w) \subseteq Resources
                          /\ \A r \in held(w) : task[w][r] \in Task

LEMMA TypeParts ==
    TypeOK <=> /\ RowsOK /\ LogsOK /\ CountOK /\ SeenOK /\ TaskOK /\ TickedOK /\ FlyingOK
BY Zenon DEF TypeOK, RowsOK, LogsOK, CheckLog, CountOK, SeenOK, TaskOK, TickedOK, FlyingOK

LEMMA TypePartsPrimed ==
    TypeOK' <=> /\ RowsOK' /\ LogsOK' /\ CountOK' /\ SeenOK' /\ TaskOK' /\ TickedOK' /\ FlyingOK'
BY Zenon DEF TypeOK, RowsOK, LogsOK, CheckLog, CountOK, SeenOK, TaskOK, TickedOK, FlyingOK

\* A selection of resources is finite and no larger than all of them.
LEMMA SomeResources ==
    ASSUME NEW S \in SUBSET Resources
    PROVE  IsFiniteSet(S) /\ Cardinality(S) \in 0..Cardinality(Resources)
<1>1. IsFiniteSet(Resources)
  BY VerifyQueueAssumption
<1>2. IsFiniteSet(S) /\ Cardinality(S) <= Cardinality(Resources)
  BY <1>1, FS_Subset, Zenon
<1>3. Cardinality(S) \in Nat /\ Cardinality(Resources) \in Nat
  BY <1>1, <1>2, FS_CardinalityType, Zenon
<1>4. QED
  BY <1>2, <1>3

LEMMA TypeInit == Init => TypeOK
<1> SUFFICES ASSUME Init PROVE TypeOK
  OBVIOUS
<1>1. RowsOK
  <2> DEFINE new == [status |-> "UNCHECKED", attempts |-> 0, lease |-> 0, due |-> 0]
  <2>1. new \in Row
    BY Ranges, Zenon DEF Row, CheckStatus
  <2>2. res = [r \in Resources |-> new]
    BY Zenon DEF Init
  <2> HIDE DEF new
  <2>3. QED
    BY <2>1, <2>2, Zenon DEF RowsOK
<1>2. LogsOK
  BY Zenon DEF Init, LogsOK, CheckLog
<1>3. CountOK
  <2>1. Cardinality({}) \in 0..Cardinality(Resources) /\ Cardinality({}) = 0
    BY SomeResources, FS_EmptySet, Zenon
  <2>2. QED
    BY <2>1, Zenon DEF Init, CountOK
<1>4. SeenOK /\ TaskOK /\ TickedOK /\ FlyingOK
  BY Zenon DEF Init, SeenOK, TaskOK, TickedOK, FlyingOK, Nothing, held
<1>5. QED
  BY <1>1, <1>2, <1>3, <1>4, TypeParts

LEMMA TypeRead ==
    ASSUME TypeOK, NEW w \in Workers, ReadCandidates(w)
    PROVE  TypeOK'
<1>1. RowsOK /\ SeenOK
  BY TypeParts
<1>2. RowsOK' /\ LogsOK' /\ CountOK' /\ TaskOK' /\ TickedOK' /\ FlyingOK'
  BY TypeParts, Zenon
     DEF ReadCandidates, RowsOK, LogsOK, CountOK, TaskOK, TickedOK, FlyingOK, held
<1>3. SeenOK'
  <2> DEFINE read == [r \in {s \in Resources : Claimable(w, s)} |->
                        [status |-> res[r].status, attempts |-> res[r].attempts]]
  <2>1. seen' = [seen EXCEPT ![w] = read]
    BY Zenon DEF ReadCandidates
  <2>2. \A r \in Resources : [status |-> res[r].status, attempts |-> res[r].attempts] \in Candidate
    BY <1>1, Zenon DEF RowsOK, Row, Candidate
  <2>3. DOMAIN read \subseteq Resources /\ \A r \in DOMAIN read : read[r] \in Candidate
    BY <2>2, Zenon
  <2> HIDE DEF read
  <2>4. QED
    BY <1>1, <2>1, <2>3, Zenon DEF SeenOK
<1>4. QED
  BY <1>2, <1>3, TypePartsPrimed

LEMMA TypeClaim ==
    ASSUME TypeOK, NEW w \in Workers, ClaimRows(w)
    PROVE  TypeOK'
<1>1. RowsOK /\ SeenOK /\ TaskOK
  BY TypeParts
<1>2. LogsOK' /\ CountOK' /\ TickedOK' /\ FlyingOK'
  BY TypeParts, Zenon DEF ClaimRows, LogsOK, CountOK, TickedOK, FlyingOK
<1>3. PICK took \in SUBSET {r \in DOMAIN seen[w] : Claimable(w, r)} :
        /\ res' = [r \in Resources |->
                     IF r \in took THEN Decide(res[r], seen[w][r]) ELSE res[r]]
        /\ task' = [task EXCEPT ![w] =
                      [r \in took |-> [prior    |-> seen[w][r].status,
                                       attempts |-> Decide(res[r], seen[w][r]).attempts]]]
  BY Zenon DEF ClaimRows
<1>4. \A r \in took : /\ r \in Resources /\ seen[w][r] \in Candidate
                      /\ Decide(res[r], seen[w][r]) \in Row
  <2>1. \A r \in took : r \in Resources /\ seen[w][r] \in Candidate /\ res[r] \in Row
    BY <1>1, Zenon DEF RowsOK, SeenOK
  <2>2. QED
    BY <2>1, DecideRow, Zenon
<1>5. RowsOK'
  <2>1. \A r \in Resources : res'[r] \in Row
    BY <1>1, <1>3, <1>4, Zenon DEF RowsOK
  <2>2. res' = [r \in Resources |-> res'[r]]
    BY <1>3, Zenon
  <2>3. QED
    BY <2>1, <2>2, Zenon DEF RowsOK
<1>6. TaskOK'
  <2> DEFINE loaded == [r \in took |-> [prior    |-> seen[w][r].status,
                                        attempts |-> Decide(res[r], seen[w][r]).attempts]]
  <2>1. task' = [task EXCEPT ![w] = loaded]
    BY <1>3, Zenon
  <2>2. DOMAIN loaded \subseteq Resources /\ \A r \in DOMAIN loaded : loaded[r] \in Task
    BY <1>4, Zenon DEF Candidate, Row, Task
  <2> HIDE DEF loaded
  <2>3. QED
    BY <1>1, <2>1, <2>2, Zenon DEF TaskOK, held
<1>7. SeenOK'
  BY <1>1, Zenon DEF ClaimRows, SeenOK, Nothing
<1>8. QED
  BY <1>2, <1>5, <1>6, <1>7, TypePartsPrimed

LEMMA TypeRelease ==
    ASSUME TypeOK, NEW w \in Workers, NEW C, Release(w, C)
    PROVE  SeenOK' /\ TaskOK' /\ TickedOK' /\ FlyingOK'
<1>1. SeenOK /\ TaskOK /\ TickedOK /\ FlyingOK
  BY TypeParts
<1>2. TickedOK'
  BY <1>1, Zenon DEF Release, TickedOK
<1>3. QED
  BY <1>1, <1>2, Zenon DEF Release, SeenOK, TaskOK, FlyingOK, held

\* The log of checks and the count of valid links after verdicts were written.
LEMMA TypeLogged ==
    ASSUME TypeOK, NEW C \in SUBSET Resources, NEW outcome \in [C -> Outcomes],
           checks' = Logged(C, outcome)
    PROVE  LogsOK' /\ \A r \in C : checks'[r] # <<>> /\ LastOf(checks'[r]) = outcome[r]
<1>1. \A r \in Resources : checks[r] \in CheckLog
  BY TypeParts, Zenon DEF LogsOK
<1>2. \A r \in C : outcome[r] \in Verdicts
  BY VerifyQueueAssumption, Zenon
<1>3. ASSUME NEW r \in Resources
      PROVE  /\ checks'[r] \in CheckLog
             /\ r \in C => checks'[r] # <<>> /\ LastOf(checks'[r]) = outcome[r]
  <2>1. CASE r \in C
    <3> DEFINE z == IF checks[r] = <<>> THEN <<outcome[r]>> ELSE <<LastOf(checks[r]), outcome[r]>>
    <3>1. checks'[r] = z
      BY <2>1, Zenon DEF Logged, LastOf
    <3>2. z \in CheckLog /\ z # <<>> /\ LastOf(z) = outcome[r]
      BY <1>1, <1>2, <2>1, LogStep, Zenon
    <3>3. QED
      BY <3>1, <3>2, Zenon
  <2>2. CASE r \notin C
    BY <1>1, <2>2, Zenon DEF Logged
  <2>3. QED
    BY <2>1, <2>2
<1>4. checks' = [r \in Resources |-> checks'[r]]
  BY Zenon DEF Logged
<1>5. QED
  BY <1>3, <1>4, Zenon DEF LogsOK

LEMMA TypeRecounted ==
    ASSUME TypeOK, NEW C, NEW baseline, NEW outcome, Recounted(C, baseline, outcome)
    PROVE  CountOK'
<1>1. CASE UNCHANGED validCount
  BY <1>1, TypeParts, Zenon DEF CountOK
<1>2. CASE \E S \in SUBSET Resources : validCount' = Cardinality(S)
  BY <1>2, SomeResources, Zenon DEF CountOK
<1>3. UNCHANGED validCount \/ \E S \in SUBSET Resources : validCount' = Cardinality(S)
  <2>1. SUFFICES ASSUME ~UNCHANGED validCount
                 PROVE  \E S \in SUBSET Resources : validCount' = Cardinality(S)
    OBVIOUS
  <2>2. PICK late : validCount' = Cardinality({r \in Resources :
                      IF r \in late THEN res[r].status = "VALID" ELSE res'[r].status = "VALID"})
    BY <2>1, Zenon DEF Recounted
  <2>3. QED
    BY <2>2, Zenon
<1>4. QED
  BY <1>1, <1>2, <1>3

LEMMA TypeCommit ==
    ASSUME TypeOK, NEW w \in Workers, NEW C, CommitChunk(w, C)
    PROVE  TypeOK'
<1>1. RowsOK /\ TaskOK
  BY TypeParts
<1>2. C \subseteq held(w) /\ C \in SUBSET Resources
  BY <1>1, Zenon DEF CommitChunk, Chunk, TaskOK
<1>3. PICK outcome \in [C -> Outcomes] :
        /\ res' = [r \in Resources |->
                     IF r \in C
                     THEN [persist_check_outcome(res[r], task[w][r].prior,
                                                 task[w][r].attempts, outcome[r])
                             EXCEPT !.lease = 0]
                     ELSE res[r]]
        /\ checks' = Logged(C, outcome)
        /\ Recounted(C, [r \in C |-> task[w][r].prior], outcome)
  BY Zenon DEF CommitChunk
<1>4. RowsOK'
  <2>1. ASSUME NEW r \in C
        PROVE  [persist_check_outcome(res[r], task[w][r].prior,
                                      task[w][r].attempts, outcome[r]) EXCEPT !.lease = 0] \in Row
    <3> DEFINE z == persist_check_outcome(res[r], task[w][r].prior,
                                          task[w][r].attempts, outcome[r])
    <3>1. res[r] \in Row /\ task[w][r].attempts \in 0..AttemptsCap /\ outcome[r] \in Verdicts
      BY <1>1, <1>2, VerifyQueueAssumption, Zenon DEF RowsOK, TaskOK, Task
    <3>2. z \in Row
      BY <3>1, OutcomeRow, Zenon
    <3> HIDE DEF z
    <3>3. [z EXCEPT !.lease = 0] \in Row
      BY <3>2, Ranges, Zenon DEF Row
    <3>4. QED
      BY <3>3 DEF z
  <2>2. \A r \in Resources : res'[r] \in Row
    BY <1>1, <1>3, <2>1, Zenon DEF RowsOK
  <2>3. res' = [r \in Resources |-> res'[r]]
    BY <1>3, Zenon
  <2>4. QED
    BY <2>2, <2>3, Zenon DEF RowsOK
<1>5. LogsOK'
  BY <1>2, <1>3, TypeLogged, Zenon
<1>6. CountOK'
  BY <1>3, TypeRecounted, Zenon
<1>7. SeenOK' /\ TaskOK' /\ TickedOK' /\ FlyingOK'
  BY TypeRelease, Zenon DEF CommitChunk
<1>8. QED
  BY <1>4, <1>5, <1>6, <1>7, TypePartsPrimed

\* An abort or a crash writes nothing.
LEMMA TypeDrop ==
    ASSUME TypeOK, NEW w \in Workers, NEW C, Release(w, C), UNCHANGED <<res, checks, validCount>>
    PROVE  TypeOK'
<1>1. RowsOK' /\ LogsOK' /\ CountOK'
  BY TypeParts, Zenon DEF RowsOK, LogsOK, CountOK
<1>2. QED
  BY <1>1, TypeRelease, TypePartsPrimed

LEMMA TypeFetch ==
    ASSUME TypeOK, NEW p \in Pipelines, Fetch(p)
    PROVE  TypeOK'
<1>1. RowsOK' /\ LogsOK' /\ CountOK' /\ SeenOK' /\ TaskOK' /\ TickedOK'
  BY TypeParts, Zenon DEF Fetch, RowsOK, LogsOK, CountOK, SeenOK, TaskOK, TickedOK, held
<1>2. FlyingOK'
  BY TypeParts, Zenon DEF Fetch, FlyingOK
<1>3. QED
  BY <1>1, <1>2, TypePartsPrimed

LEMMA TypeFlush ==
    ASSUME TypeOK, NEW p \in Pipelines, Flush(p)
    PROVE  TypeOK'
<1>1. RowsOK /\ FlyingOK
  BY TypeParts
<1>2. PICK C \in SUBSET flying[p] :
        /\ flying' = [flying EXCEPT ![p] = @ \ C]
        /\ \E outcome \in [C -> Outcomes] :
             /\ res' = [r \in Resources |->
                          IF r \in C
                          THEN persist_check_outcome(res[r], res[r].status,
                                                     res[r].attempts, outcome[r])
                          ELSE res[r]]
             /\ checks' = Logged(C, outcome)
             /\ Recounted(C, [r \in C |-> res[r].status], outcome)
  BY Zenon DEF Flush
<1>3. C \in SUBSET Resources
  BY <1>1, Zenon DEF FlyingOK
<1>4. PICK outcome \in [C -> Outcomes] :
        /\ res' = [r \in Resources |->
                     IF r \in C
                     THEN persist_check_outcome(res[r], res[r].status,
                                                res[r].attempts, outcome[r])
                     ELSE res[r]]
        /\ checks' = Logged(C, outcome)
        /\ Recounted(C, [r \in C |-> res[r].status], outcome)
  BY <1>2, Zenon
<1>5. RowsOK'
  <2>1. ASSUME NEW r \in C
        PROVE  persist_check_outcome(res[r], res[r].status, res[r].attempts, outcome[r]) \in Row
    <3>1. res[r] \in Row /\ res[r].attempts \in 0..AttemptsCap /\ outcome[r] \in Verdicts
      BY <1>1, <1>3, VerifyQueueAssumption, Zenon DEF RowsOK, Row
    <3>2. QED
      BY <3>1, OutcomeRow, Zenon
  <2>2. \A r \in Resources : res'[r] \in Row
    BY <1>1, <1>4, <2>1, Zenon DEF RowsOK
  <2>3. res' = [r \in Resources |-> res'[r]]
    BY <1>4, Zenon
  <2>4. QED
    BY <2>2, <2>3, Zenon DEF RowsOK
<1>6. LogsOK' /\ CountOK'
  BY <1>3, <1>4, TypeLogged, TypeRecounted, Zenon
<1>7. SeenOK' /\ TaskOK' /\ TickedOK'
  BY TypeParts, Zenon DEF Flush, SeenOK, TaskOK, TickedOK, held
<1>8. FlyingOK'
  BY <1>1, <1>2, Zenon DEF FlyingOK
<1>9. QED
  BY <1>5, <1>6, <1>7, <1>8, TypePartsPrimed

\* A tick lets an instant come nearer; what has passed, and Never, stay.
LEMMA PastRange ==
    /\ \A t \in 0..Lease : past(t) \in 0..Lease
    /\ \A t \in Instant : past(t) \in Instant /\ (past(t) = Never <=> t = Never)
                          /\ (t <= 0 => past(t) <= 0)
BY VerifyQueueAssumption, BackoffAssumption DEF past, Instant, Never

LEMMA TickRow ==
    ASSUME RowsOK, Tick, NEW r \in Resources
    PROVE  /\ res'[r] \in Row /\ res'[r].status = res[r].status
           /\ res'[r].attempts = res[r].attempts
           /\ res'[r].lease = past(res[r].lease) /\ res'[r].due = past(res[r].due)
<1> DEFINE l == past(res[r].lease)
           u == past(res[r].due)
<1>1. res[r] \in Row
  BY Zenon DEF RowsOK
<1>2. l \in 0..Lease /\ u \in Instant
  BY <1>1, PastRange, Zenon DEF Row
<1>3. res'[r] = [res[r] EXCEPT !.lease = l, !.due = u]
  BY Zenon DEF Tick
<1> HIDE DEF l, u
<1>4. /\ res'[r] \in Row /\ res'[r].status = res[r].status
      /\ res'[r].attempts = res[r].attempts /\ res'[r].lease = l /\ res'[r].due = u
  BY <1>1, <1>2, <1>3, Zenon DEF Row
<1>5. QED
  BY <1>4 DEF l, u

LEMMA TypeTick ==
    ASSUME TypeOK, Tick
    PROVE  TypeOK'
<1>1. RowsOK'
  <2>1. \A r \in Resources : res'[r] \in Row
    BY TypeParts, TickRow
  <2>2. res' = [r \in Resources |-> res'[r]]
    BY Zenon DEF Tick
  <2>3. QED
    BY <2>1, <2>2, Zenon DEF RowsOK
<1>2. LogsOK' /\ CountOK' /\ SeenOK' /\ TaskOK' /\ FlyingOK'
  BY TypeParts, Zenon DEF Tick, LogsOK, CountOK, SeenOK, TaskOK, FlyingOK, held
<1>3. TickedOK'
  BY Zenon DEF Tick, TickedOK
<1>4. QED
  BY <1>1, <1>2, <1>3, TypePartsPrimed

\* Queueing what can be checked now touches the unsupported rows alone.
LEMMA RequeueRow ==
    ASSUME RowsOK, RequeueNowCheckable, NEW r \in Resources
    PROVE  /\ res'[r] \in Row /\ res'[r].lease = res[r].lease
           /\ res[r].status # "UNSUPPORTED" => res'[r] = res[r]
           /\ res[r].status = "UNSUPPORTED" => res'[r].status = "UNCHECKED" /\ res'[r].due = 0
<1>1. res[r] \in Row
  BY Zenon DEF RowsOK
<1>2. CASE res[r].status = "UNSUPPORTED"
  <2>1. res'[r] = [res[r] EXCEPT !.status = "UNCHECKED", !.due = 0]
    BY <1>2, Zenon DEF RequeueNowCheckable
  <2>2. QED
    BY <1>1, <1>2, <2>1, Ranges, Zenon DEF Row, CheckStatus
<1>3. CASE res[r].status # "UNSUPPORTED"
  BY <1>1, <1>3, Zenon DEF RequeueNowCheckable
<1>4. QED
  BY <1>2, <1>3

LEMMA TypeRequeue ==
    ASSUME TypeOK, RequeueNowCheckable
    PROVE  TypeOK'
<1>1. RowsOK'
  <2>1. \A r \in Resources : res'[r] \in Row
    BY TypeParts, RequeueRow
  <2>2. res' = [r \in Resources |-> res'[r]]
    BY Zenon DEF RequeueNowCheckable
  <2>3. QED
    BY <2>1, <2>2, Zenon DEF RowsOK
<1>2. LogsOK' /\ CountOK' /\ SeenOK' /\ TaskOK' /\ TickedOK' /\ FlyingOK'
  BY TypeParts, Zenon
     DEF RequeueNowCheckable, LogsOK, CountOK, SeenOK, TaskOK, TickedOK, FlyingOK, held
<1>3. QED
  BY <1>1, <1>2, TypePartsPrimed

LEMMA TypeNext == TypeOK /\ [Next]_vars => TypeOK'
<1> SUFFICES ASSUME TypeOK, [Next]_vars PROVE TypeOK'
  OBVIOUS
<1>1. ASSUME NEW w \in Workers, Worker(w) \/ Crash(w) PROVE TypeOK'
  <2>1. CASE ReadCandidates(w)
    BY <2>1, TypeRead
  <2>2. CASE ClaimRows(w)
    BY <2>2, TypeClaim
  <2>3. CASE FinishChunk(w)
    <3>1. PICK C : CommitChunk(w, C) \/ AbortChunk(w, C)
      BY <2>3, Zenon DEF FinishChunk
    <3>2. QED
      BY <3>1, TypeCommit, TypeDrop, Zenon DEF AbortChunk
  <2>4. CASE Crash(w)
    BY <2>4, TypeDrop, Zenon DEF Crash
  <2>5. QED
    BY <1>1, <2>1, <2>2, <2>3, <2>4, Zenon DEF Worker
<1>2. ASSUME NEW p \in Pipelines, Pipeline(p) PROVE TypeOK'
  BY <1>2, TypeFetch, TypeFlush, Zenon DEF Pipeline
<1>3. CASE UNCHANGED vars
  <2>1. /\ RowsOK' /\ LogsOK' /\ CountOK' /\ SeenOK' /\ TaskOK' /\ TickedOK' /\ FlyingOK'
    BY <1>3, TypeParts, Zenon
       DEF vars, RowsOK, LogsOK, CountOK, SeenOK, TaskOK, TickedOK, FlyingOK, held
  <2>2. QED
    BY <2>1, TypePartsPrimed
<1>4. QED
  BY <1>1, <1>2, <1>3, TypeTick, TypeRequeue, Zenon DEF Next

\* Every reachable state of the verification queue is well typed, whoever
\* probes, claims by force, crashes or aborts: the count of a work stays within
\* its links, a count of attempts within its cap, a log of checks within two.
THEOREM VerifyTypes == Spec => []TypeOK
BY TypeInit, TypeNext, PTL DEF Spec

-----------------------------------------------------------------------------
(* What is not forgotten                                                   *)

\* What worker w leaves of row r when the outcome is o.
Judged(w, r, o) ==
    LET n == task[w][r].attempts
        m == Attempts(task[w][r].prior, n, o)
    IN  /\ o \in Verdicts /\ res'[r] \in Row
        /\ res'[r].status = o /\ res'[r].lease = 0
        /\ res'[r].due = next_check_at(o, m)
        /\ res'[r].attempts = IF m = n THEN res[r].attempts ELSE m

\* The rows a commit of worker w, or a flush, leaves for its resources.
LEMMA CommitRow ==
    ASSUME TypeOK, NEW w \in Workers, NEW C, CommitChunk(w, C)
    PROVE  /\ C \in SUBSET Resources /\ C \subseteq held(w) /\ C # {} /\ Release(w, C)
           /\ \A r \in Resources \ C : res'[r] = res[r] /\ checks'[r] = checks[r]
           /\ \E outcome \in [C -> Outcomes] :
                /\ checks' = Logged(C, outcome)
                /\ Recounted(C, [r \in C |-> task[w][r].prior], outcome)
                /\ \A r \in C : Judged(w, r, outcome[r])
<1>1. RowsOK /\ TaskOK
  BY TypeParts
<1>2. C \subseteq held(w) /\ C # {} /\ C \in SUBSET Resources /\ Release(w, C)
  BY <1>1, Zenon DEF CommitChunk, Chunk, TaskOK
<1>3. PICK outcome \in [C -> Outcomes] :
        /\ res' = [r \in Resources |->
                     IF r \in C
                     THEN [persist_check_outcome(res[r], task[w][r].prior,
                                                 task[w][r].attempts, outcome[r])
                             EXCEPT !.lease = 0]
                     ELSE res[r]]
        /\ checks' = Logged(C, outcome)
        /\ Recounted(C, [r \in C |-> task[w][r].prior], outcome)
  BY Zenon DEF CommitChunk
<1>4. ASSUME NEW r \in C PROVE Judged(w, r, outcome[r])
  <2> DEFINE n == task[w][r].attempts
             m == Attempts(task[w][r].prior, n, outcome[r])
             z == persist_check_outcome(res[r], task[w][r].prior, n, outcome[r])
  <2>1. res[r] \in Row /\ n \in 0..AttemptsCap /\ outcome[r] \in Verdicts
    BY <1>1, <1>2, VerifyQueueAssumption, Zenon DEF RowsOK, TaskOK, Task
  <2>2. /\ z \in Row /\ z.status = outcome[r] /\ z.due = next_check_at(outcome[r], m)
        /\ z.attempts = IF m = n THEN res[r].attempts ELSE m
    BY <2>1, OutcomeRow
  <2>3. res'[r] = [z EXCEPT !.lease = 0]
    BY <1>2, <1>3, Zenon
  <2> HIDE DEF z, m
  <2>4. /\ res'[r] \in Row /\ res'[r].status = z.status /\ res'[r].lease = 0
        /\ res'[r].due = z.due /\ res'[r].attempts = z.attempts
    BY <2>2, <2>3, Ranges, Zenon DEF Row
  <2>5. QED
    BY <2>1, <2>2, <2>4, Zenon DEF m, Judged
<1>5. \A r \in Resources \ C : res'[r] = res[r] /\ checks'[r] = checks[r]
  BY <1>3, Zenon DEF Logged
<1>6. QED
  BY <1>2, <1>3, <1>4, <1>5, Zenon

LEMMA FlushRow ==
    ASSUME TypeOK, NEW p \in Pipelines, Flush(p), NEW r \in Resources
    PROVE  /\ res'[r].lease = res[r].lease
           /\ res'[r] = res[r] \/ res'[r].status \in Verdicts
<1>1. RowsOK /\ FlyingOK
  BY TypeParts
<1>2. PICK C \in SUBSET flying[p] :
        \E outcome \in [C -> Outcomes] :
          res' = [s \in Resources |->
                    IF s \in C
                    THEN persist_check_outcome(res[s], res[s].status, res[s].attempts, outcome[s])
                    ELSE res[s]]
  BY Zenon DEF Flush
<1>3. PICK outcome \in [C -> Outcomes] :
        res' = [s \in Resources |->
                  IF s \in C
                  THEN persist_check_outcome(res[s], res[s].status, res[s].attempts, outcome[s])
                  ELSE res[s]]
  BY <1>2, Zenon
<1>4. CASE r \in C
  <2> DEFINE z == persist_check_outcome(res[r], res[r].status, res[r].attempts, outcome[r])
  <2>1. res[r] \in Row /\ res[r].attempts \in 0..AttemptsCap /\ outcome[r] \in Verdicts
    BY <1>1, <1>4, VerifyQueueAssumption, Zenon DEF RowsOK, Row
  <2>2. z.status = outcome[r] /\ z.lease = res[r].lease
    BY <2>1, OutcomeRow
  <2>3. res'[r] = z
    BY <1>3, <1>4, Zenon
  <2>4. QED
    BY <2>1, <2>2, <2>3, Zenon
<1>5. CASE r \notin C
  BY <1>3, <1>5, Zenon
<1>6. QED
  BY <1>4, <1>5

\* A resource that waits for a verdict has a due time, claimed or not.
CheckingIsDue == \A r \in Resources : res[r].status \in {"CHECKING", "UNCHECKED"} => res[r].due # Never

LEMMA DueInit == Init => CheckingIsDue
<1> SUFFICES ASSUME Init PROVE CheckingIsDue
  OBVIOUS
<1>1. \A r \in Resources : res[r].due = 0
  BY Zenon DEF Init
<1>2. QED
  BY <1>1 DEF CheckingIsDue, Never

LEMMA DueClaim ==
    ASSUME TypeOK, Manual = {}, CheckingIsDue, NEW w \in Workers, ClaimRows(w)
    PROVE  CheckingIsDue'
<1>1. RowsOK /\ SeenOK
  BY TypeParts
<1>2. PICK took \in SUBSET {r \in DOMAIN seen[w] : Claimable(w, r)} :
        res' = [r \in Resources |->
                  IF r \in took THEN Decide(res[r], seen[w][r]) ELSE res[r]]
  BY Zenon DEF ClaimRows
<1>3. ASSUME NEW r \in took
      PROVE  res'[r].due # Never
  <2>1. r \in Resources /\ Claimable(w, r) /\ seen[w][r] \in Candidate /\ res[r] \in Row
    BY <1>1, Zenon DEF RowsOK, SeenOK
  <2>2. res[r].due = 0 \/ (res[r].due = Never /\ res[r].status = "UNCHECKED")
    BY <2>1, Zenon DEF Claimable, Due
  <2>3. res[r].due # Never
    BY <2>1, <2>2 DEF CheckingIsDue, Never
  <2>4. res'[r] = Decide(res[r], seen[w][r])
    BY <1>2, <2>1, Zenon
  <2>5. res'[r].due = res[r].due \/ res'[r].due \in 1..MaxBackoff
    BY <2>1, <2>4, DecideRow
  <2>6. QED
    BY <2>3, <2>5, BackoffAssumption DEF Never
<1>4. \A r \in Resources \ took : res'[r] = res[r]
  BY <1>2, Zenon
<1>5. QED
  BY <1>3, <1>4, Zenon DEF CheckingIsDue

LEMMA DueNext ==
    ASSUME Manual = {}
    PROVE  TypeOK /\ CheckingIsDue /\ [Next]_vars => CheckingIsDue'
<1> SUFFICES ASSUME TypeOK, CheckingIsDue, [Next]_vars PROVE CheckingIsDue'
  OBVIOUS
<1>1. RowsOK
  BY TypeParts
<1>2. ASSUME \A r \in Resources : res'[r] = res[r] \/ res'[r].status \in Verdicts
      PROVE  CheckingIsDue'
  BY <1>2 DEF CheckingIsDue, Verdicts
<1>3. ASSUME NEW w \in Workers, Worker(w) \/ Crash(w) PROVE CheckingIsDue'
  <2>1. CASE ReadCandidates(w) \/ Crash(w)
    BY <1>2, <2>1, Zenon DEF ReadCandidates, Crash
  <2>2. CASE ClaimRows(w)
    BY <2>2, DueClaim
  <2>3. CASE FinishChunk(w)
    <3>1. PICK C : CommitChunk(w, C) \/ AbortChunk(w, C)
      BY <2>3, Zenon DEF FinishChunk
    <3>2. CASE CommitChunk(w, C)
      BY <1>2, <3>2, CommitRow, Zenon DEF Judged
    <3>3. CASE AbortChunk(w, C)
      BY <1>2, <3>3, Zenon DEF AbortChunk
    <3>4. QED
      BY <3>1, <3>2, <3>3
  <2>4. QED
    BY <1>3, <2>1, <2>2, <2>3, Zenon DEF Worker
<1>4. ASSUME NEW p \in Pipelines, Pipeline(p) PROVE CheckingIsDue'
  <2>1. CASE Fetch(p)
    BY <1>2, <2>1, Zenon DEF Fetch
  <2>2. CASE Flush(p)
    BY <1>2, <2>2, FlushRow, Zenon
  <2>3. QED
    BY <1>4, <2>1, <2>2, Zenon DEF Pipeline
<1>5. CASE Tick
  <2>1. \A r \in Resources : res'[r].status = res[r].status
                             /\ (res'[r].due = Never <=> res[r].due = Never)
    <3> TAKE r \in Resources
    <3>1. res[r].due \in Instant
      BY <1>1, Zenon DEF RowsOK, Row
    <3>2. QED
      BY <1>1, <1>5, <3>1, TickRow, PastRange, Zenon
  <2>2. QED
    BY <2>1, Zenon DEF CheckingIsDue
<1>6. CASE RequeueNowCheckable
  <2>1. \A r \in Resources : res'[r] = res[r] \/ res'[r].due = 0
    BY <1>1, <1>6, RequeueRow, Zenon
  <2>2. QED
    BY <2>1 DEF CheckingIsDue, Never
<1>7. CASE UNCHANGED vars
  BY <1>2, <1>7, Zenon DEF vars
<1>8. QED
  BY <1>3, <1>4, <1>5, <1>6, <1>7, Zenon DEF Next

\* When nobody claims by force (worker/claim.py), a resource whose worker is
\* gone is always due again, whatever pipelines write into claimed rows and
\* whichever crashes and aborts leave the placeholder status behind.
THEOREM NothingForgotten ==
    ASSUME Manual = {}
    PROVE  Spec => []NotForgotten
<1>1. Init => TypeOK /\ CheckingIsDue
  BY TypeInit, DueInit
<1>2. TypeOK /\ CheckingIsDue /\ [Next]_vars => (TypeOK /\ CheckingIsDue)'
  BY TypeNext, DueNext
<1>3. CheckingIsDue => NotForgotten
  BY Zenon DEF CheckingIsDue, NotForgotten
<1>4. QED
  BY <1>1, <1>2, <1>3, PTL DEF Spec

-----------------------------------------------------------------------------
(* Workers do not meet                                                     *)
(*                                                                         *)
(* What keeps another worker away from a held resource is its lease, and   *)
(* what is left of the lease pays for the chunks still ahead.  Pipelines   *)
(* and forced claims leave this alone: neither takes a leased row away.    *)

WorkersApart == \A v, w \in Workers : v # w => held(v) \cap held(w) = {}

LeaseCovers ==
    \A w \in Workers : \A r \in held(w) :
      res[r].lease + (IF ticked[w] THEN 1 ELSE 0) > Cardinality(held(w))

Resting ==
    \A w \in Workers : /\ held(w) = {} => ~ticked[w]
                       /\ DOMAIN seen[w] # {} => held(w) = {}

LeaseInv == WorkersApart /\ LeaseCovers /\ Resting

LEMMA HeldSize ==
    ASSUME TypeOK, NEW w \in Workers
    PROVE  /\ held(w) \subseteq Resources /\ IsFiniteSet(held(w))
           /\ Cardinality(held(w)) \in Nat
           /\ \A r \in held(w) : Cardinality(held(w)) >= 1
<1>1. held(w) \in SUBSET Resources
  BY TypeParts, Zenon DEF TaskOK
<1>2. IsFiniteSet(held(w)) /\ Cardinality(held(w)) \in 0..Cardinality(Resources)
  BY <1>1, SomeResources, Zenon
<1>3. Cardinality(held(w)) \in Nat
  BY <1>2, FS_CardinalityType, Zenon
<1>4. \A r \in held(w) : Cardinality(held(w)) # 0
  BY <1>2, FS_EmptySet, Zenon
<1>5. \A r \in held(w) : Cardinality(held(w)) >= 1
  BY <1>3, <1>4
<1>6. QED
  BY <1>1, <1>2, <1>3, <1>5

\* A held resource is under a lease that has not run out.
LEMMA HeldLeased ==
    ASSUME TypeOK, LeaseCovers, NEW w \in Workers, NEW r \in held(w)
    PROVE  /\ r \in Resources /\ res[r].lease \in Nat \ {0}
           /\ \A v \in Workers : ~Claimable(v, r)
<1>1. r \in Resources
  BY HeldSize, Zenon
<1>2. res[r].lease \in 0..Lease
  BY <1>1, TypeParts, Zenon DEF RowsOK, Row
<1>3. res[r].lease + (IF ticked[w] THEN 1 ELSE 0) > Cardinality(held(w))
  BY Zenon DEF LeaseCovers
<1>4. Cardinality(held(w)) \in Nat /\ Cardinality(held(w)) >= 1
  BY HeldSize, Zenon
<1>5. res[r].lease \in Nat \ {0}
  BY <1>2, <1>3, <1>4, VerifyQueueAssumption
<1>6. QED
  BY <1>1, <1>5, Zenon DEF Claimable

\* Finishing a chunk pays for the tick it may have taken.
LEMMA LessHeld ==
    ASSUME TypeOK, NEW w \in Workers, NEW C, C \subseteq held(w), C # {}
    PROVE  /\ Cardinality(held(w) \ C) \in Nat
           /\ Cardinality(held(w) \ C) + 1 <= Cardinality(held(w))
<1>1. IsFiniteSet(held(w)) /\ Cardinality(held(w)) \in Nat
  BY HeldSize, Zenon
<1>2. IsFiniteSet(held(w) \ C) /\ Cardinality(held(w) \ C) <= Cardinality(held(w))
      /\ (Cardinality(held(w)) = Cardinality(held(w) \ C) => held(w) = held(w) \ C)
  BY <1>1, FS_Subset, Zenon
<1>3. Cardinality(held(w) \ C) \in Nat
  BY <1>2, FS_CardinalityType, Zenon
<1>4. Cardinality(held(w)) # Cardinality(held(w) \ C)
  BY <1>2, Zenon
<1>5. QED
  BY <1>1, <1>2, <1>3, <1>4

LEMMA LeaseInit == Init => LeaseInv
<1> SUFFICES ASSUME Init PROVE LeaseInv
  OBVIOUS
<1>1. \A w \in Workers : held(w) = {} /\ DOMAIN seen[w] = {} /\ ~ticked[w]
  BY Zenon DEF Init, held, Nothing
<1>2. QED
  BY <1>1, Zenon DEF LeaseInv, WorkersApart, LeaseCovers, Resting

LEMMA LeaseRead ==
    ASSUME TypeOK, LeaseInv, NEW w \in Workers, ReadCandidates(w)
    PROVE  LeaseInv'
<1>1. res' = res /\ task' = task /\ ticked' = ticked /\ held(w) = {}
      /\ \A v \in Workers : v # w => seen'[v] = seen[v]
  BY TypeParts, Zenon DEF ReadCandidates, SeenOK
<1>2. Resting'
  BY <1>1, Zenon DEF LeaseInv, Resting, held
<1>3. QED
  BY <1>1, <1>2, Zenon DEF LeaseInv, WorkersApart, LeaseCovers, held

\* What a claim takes: rows nobody holds, at most Limit of them.
LEMMA ClaimTakes ==
    ASSUME TypeOK, LeaseInv, NEW w \in Workers, ClaimRows(w)
    PROVE  /\ held(w) = {} /\ ~ticked[w]
           /\ held(w)' \in SUBSET {r \in DOMAIN seen[w] : Claimable(w, r)}
           /\ held(w)' \subseteq Resources
           /\ Cardinality(held(w)') \in Nat /\ Cardinality(held(w)') <= Limit
           /\ \A r \in held(w)' :
                /\ res'[r] = Decide(res[r], seen[w][r]) /\ res[r] \in Row
                /\ seen[w][r] \in Candidate
                /\ task'[w][r].prior = seen[w][r].status
                /\ task'[w][r].attempts = res'[r].attempts
                /\ \A v \in Workers : r \notin held(v)
           /\ \A r \in Resources \ held(w)' : res'[r] = res[r]
           /\ \A v \in Workers : v # w => task'[v] = task[v] /\ held(v)' = held(v)
<1>1. RowsOK /\ SeenOK /\ TaskOK /\ held(w) = {} /\ ~ticked[w]
  BY TypeParts, Zenon DEF ClaimRows, LeaseInv, Resting
<1>2. PICK took \in SUBSET {r \in DOMAIN seen[w] : Claimable(w, r)} :
        /\ Cardinality(took) <= Limit
        /\ res' = [r \in Resources |->
                     IF r \in took THEN Decide(res[r], seen[w][r]) ELSE res[r]]
        /\ task' = [task EXCEPT ![w] =
                      [r \in took |-> [prior    |-> seen[w][r].status,
                                       attempts |-> Decide(res[r], seen[w][r]).attempts]]]
  BY Zenon DEF ClaimRows
<1>3. /\ held(w)' = took
      /\ \A v \in Workers : v # w => task'[v] = task[v] /\ held(v)' = held(v)
  BY <1>1, <1>2, Zenon DEF TaskOK, held
<1>4. took \in SUBSET Resources
  BY <1>1, <1>2, Zenon DEF SeenOK
<1>5. Cardinality(took) \in Nat
  BY <1>4, SomeResources, FS_CardinalityType, Zenon
<1>6. ASSUME NEW r \in took
      PROVE  /\ res'[r] = Decide(res[r], seen[w][r]) /\ res[r] \in Row
             /\ seen[w][r] \in Candidate
             /\ task'[w][r].prior = seen[w][r].status
             /\ task'[w][r].attempts = res'[r].attempts
             /\ \A v \in Workers : r \notin held(v)
  <2>1. res'[r] = Decide(res[r], seen[w][r]) /\ res[r] \in Row /\ seen[w][r] \in Candidate
    BY <1>1, <1>2, <1>4, Zenon DEF RowsOK, SeenOK
  <2>2. task'[w][r] = [prior    |-> seen[w][r].status,
                       attempts |-> Decide(res[r], seen[w][r]).attempts]
    BY <1>1, <1>2, Zenon DEF TaskOK
  <2>3. Claimable(w, r)
    BY <1>2, Zenon
  <2>4. \A v \in Workers : r \notin held(v)
    BY <2>3, HeldLeased, Zenon DEF LeaseInv
  <2>5. /\ task'[w][r].prior = seen[w][r].status
        /\ task'[w][r].attempts = Decide(res[r], seen[w][r]).attempts
    BY <2>2
  <2>6. QED
    BY <2>1, <2>4, <2>5, Zenon
<1>7. \A r \in Resources \ took : res'[r] = res[r]
  BY <1>2, Zenon
<1>8. QED
  BY <1>1, <1>2, <1>3, <1>4, <1>5, <1>6, <1>7, Zenon

LEMMA LeaseClaim ==
    ASSUME Lease > Limit, TypeOK, LeaseInv, NEW w \in Workers, ClaimRows(w)
    PROVE  LeaseInv'
<1>1. /\ held(w) = {} /\ ~ticked[w] /\ ticked' = ticked
      /\ \A r \in held(w)' : \A v \in Workers : r \notin held(v)
      /\ \A v \in Workers : v # w => held(v)' = held(v)
      /\ \A r \in Resources \ held(w)' : res'[r] = res[r]
  BY ClaimTakes, Zenon DEF ClaimRows
<1>2. WorkersApart'
  <2> SUFFICES ASSUME NEW u \in Workers, NEW v \in Workers, u # v
               PROVE  held(u)' \cap held(v)' = {}
    BY Zenon DEF WorkersApart
  <2>1. CASE u # w /\ v # w
    BY <1>1, <2>1, Zenon DEF LeaseInv, WorkersApart
  <2>2. CASE u = w
    BY <1>1, <2>2, Zenon
  <2>3. CASE v = w
    BY <1>1, <2>3, Zenon
  <2>4. QED
    BY <2>1, <2>2, <2>3
<1>3. LeaseCovers'
  <2>1. ASSUME NEW r \in held(w)'
        PROVE  res'[r].lease + (IF ticked'[w] THEN 1 ELSE 0) > Cardinality(held(w)')
    <3>1. res'[r].lease = Lease
      <4>1. res'[r] = Decide(res[r], seen[w][r]) /\ res[r] \in Row /\ seen[w][r] \in Candidate
        BY <2>1, ClaimTakes, Zenon
      <4>2. QED
        BY <4>1, DecideRow
    <3>2. Cardinality(held(w)') \in Nat /\ Cardinality(held(w)') <= Limit
      BY ClaimTakes, Zenon
    <3>3. ~ticked'[w]
      BY <1>1, Zenon
    <3>4. QED
      BY <3>1, <3>2, <3>3, VerifyQueueAssumption
  <2>2. ASSUME NEW v \in Workers, v # w, NEW r \in held(v)'
        PROVE  res'[r].lease + (IF ticked'[v] THEN 1 ELSE 0) > Cardinality(held(v)')
    <3>1. r \in held(v) /\ held(v)' = held(v) /\ r \notin held(w)'
      BY <1>1, <2>2, Zenon
    <3>2. res'[r] = res[r]
      BY <1>1, <3>1, HeldSize, Zenon
    <3>3. QED
      BY <1>1, <3>1, <3>2, Zenon DEF LeaseInv, LeaseCovers
  <2>3. QED
    BY <2>1, <2>2, Zenon DEF LeaseCovers
<1>4. Resting'
  <2>1. \A v \in Workers : seen'[v] = IF v = w THEN Nothing ELSE seen[v]
    BY TypeParts, Zenon DEF ClaimRows, SeenOK
  <2>2. QED
    BY <1>1, <2>1, Zenon DEF LeaseInv, Resting, Nothing
<1>5. QED
  BY <1>2, <1>3, <1>4 DEF LeaseInv

LEMMA ReleaseGives ==
    ASSUME TypeOK, NEW w \in Workers, NEW C, Release(w, C)
    PROVE  /\ held(w)' = held(w) \ C /\ ~ticked'[w] /\ seen' = seen
           /\ \A r \in held(w) \ C : task'[w][r] = task[w][r]
           /\ \A v \in Workers : v # w => /\ task'[v] = task[v] /\ held(v)' = held(v)
                                          /\ ticked'[v] = ticked[v]
BY TypeParts, Zenon DEF TaskOK, TickedOK, Release, held

LEMMA LeaseRelease ==
    ASSUME TypeOK, LeaseInv, NEW w \in Workers, NEW C, C \subseteq held(w), C # {},
           Release(w, C), \A r \in Resources \ C : res'[r] = res[r]
    PROVE  LeaseInv'
<1>1. /\ held(w)' = held(w) \ C /\ ~ticked'[w] /\ seen' = seen
      /\ \A v \in Workers : v # w => held(v)' = held(v) /\ ticked'[v] = ticked[v]
  BY ReleaseGives, Zenon
<1>2. WorkersApart'
  <2>1. \A v \in Workers : held(v)' \subseteq held(v)
    BY <1>1, Zenon
  <2>2. QED
    BY <2>1, Zenon DEF LeaseInv, WorkersApart
<1>3. LeaseCovers'
  <2>1. ASSUME NEW r \in held(w)'
        PROVE  res'[r].lease + (IF ticked'[w] THEN 1 ELSE 0) > Cardinality(held(w)')
    <3>1. r \in held(w) /\ r \in Resources /\ res'[r] = res[r]
      BY <1>1, <2>1, HeldSize, Zenon
    <3>2. res[r].lease + (IF ticked[w] THEN 1 ELSE 0) > Cardinality(held(w))
      BY <3>1, Zenon DEF LeaseInv, LeaseCovers
    <3>3. res[r].lease \in Nat
      BY <3>1, HeldLeased, Zenon DEF LeaseInv
    <3>4. /\ Cardinality(held(w)) \in Nat /\ Cardinality(held(w)') \in Nat
          /\ Cardinality(held(w)') + 1 <= Cardinality(held(w))
      BY <1>1, LessHeld, HeldSize, Zenon
    <3>5. res[r].lease + 0 > Cardinality(held(w)')
      BY <3>2, <3>3, <3>4
    <3>6. QED
      BY <1>1, <3>1, <3>5, Zenon
  <2>2. ASSUME NEW v \in Workers, v # w, NEW r \in held(v)'
        PROVE  res'[r].lease + (IF ticked'[v] THEN 1 ELSE 0) > Cardinality(held(v)')
    <3>1. r \in held(v) /\ r \notin C /\ r \in Resources
      BY <1>1, <2>2, HeldSize, Zenon DEF LeaseInv, WorkersApart
    <3>2. res'[r] = res[r]
      BY <3>1, Zenon
    <3>3. QED
      BY <1>1, <2>2, <3>1, <3>2, Zenon DEF LeaseInv, LeaseCovers
  <2>3. QED
    BY <2>1, <2>2, Zenon DEF LeaseCovers
<1>4. Resting'
  BY <1>1, Zenon DEF LeaseInv, Resting
<1>5. QED
  BY <1>2, <1>3, <1>4 DEF LeaseInv

\* A step that moves no worker and leaves the leases alone.
LEMMA LeaseKept ==
    ASSUME TypeOK, LeaseInv, task' = task, seen' = seen, ticked' = ticked,
           \A r \in Resources : res'[r].lease = res[r].lease
    PROVE  LeaseInv'
<1>1. \A w \in Workers : held(w)' = held(w) /\ held(w) \subseteq Resources
  BY HeldSize, Zenon DEF held
<1>2. QED
  BY <1>1, Zenon DEF LeaseInv, WorkersApart, LeaseCovers, Resting

LEMMA LeaseTick ==
    ASSUME TypeOK, LeaseInv, Tick
    PROVE  LeaseInv'
<1>1. seen' = seen /\ \A w \in Workers : /\ held(w)' = held(w) /\ ~ticked[w]
                                         /\ ticked'[w] = (held(w) # {})
  BY Zenon DEF Tick, held
<1>2. LeaseCovers'
  <2> SUFFICES ASSUME NEW w \in Workers, NEW r \in held(w)
               PROVE  res'[r].lease + (IF ticked'[w] THEN 1 ELSE 0) > Cardinality(held(w))
    BY <1>1, Zenon DEF LeaseCovers
  <2>1. r \in Resources /\ res[r].lease \in Nat \ {0}
    BY HeldLeased, Zenon DEF LeaseInv
  <2>2. res[r].lease + (IF ticked[w] THEN 1 ELSE 0) > Cardinality(held(w))
    BY Zenon DEF LeaseInv, LeaseCovers
  <2>3. ~ticked[w] /\ ticked'[w] = TRUE
    BY <1>1, Zenon
  <2>4. res'[r].lease = past(res[r].lease)
    BY <2>1, TickRow, TypeParts, Zenon
  <2>5. Cardinality(held(w)) \in Nat
    BY HeldSize, Zenon
  <2>6. res[r].lease > Cardinality(held(w))
    BY <2>1, <2>2, <2>3, <2>5
  <2>7. res'[r].lease + 1 > Cardinality(held(w))
    BY <2>1, <2>4, <2>5, <2>6 DEF past
  <2>8. QED
    BY <2>3, <2>7, Zenon
<1>3. WorkersApart' /\ Resting'
  BY <1>1, Zenon DEF LeaseInv, WorkersApart, Resting
<1>4. QED
  BY <1>2, <1>3 DEF LeaseInv

LEMMA LeaseNext ==
    ASSUME Lease > Limit
    PROVE  TypeOK /\ LeaseInv /\ [Next]_vars => LeaseInv'
<1> SUFFICES ASSUME TypeOK, LeaseInv, [Next]_vars PROVE LeaseInv'
  OBVIOUS
<1>1. RowsOK
  BY TypeParts
<1>2. ASSUME NEW w \in Workers, Worker(w) \/ Crash(w) PROVE LeaseInv'
  <2>1. CASE ReadCandidates(w)
    BY <2>1, LeaseRead
  <2>2. CASE ClaimRows(w)
    BY <2>2, LeaseClaim
  <2>3. CASE FinishChunk(w)
    <3>1. PICK C : CommitChunk(w, C) \/ AbortChunk(w, C)
      BY <2>3, Zenon DEF FinishChunk
    <3>2. CASE CommitChunk(w, C)
      BY <3>2, CommitRow, LeaseRelease, Zenon
    <3>3. CASE AbortChunk(w, C)
      <4>1. held(w) # {} /\ C \subseteq held(w) /\ C # {}
        BY <3>3 DEF AbortChunk, Chunk
      <4>2. QED
        BY <3>3, <4>1, LeaseRelease, Zenon DEF AbortChunk
    <3>4. QED
      BY <3>1, <3>2, <3>3
  <2>4. CASE Crash(w)
    BY <2>4, LeaseRelease, Zenon DEF Crash
  <2>5. QED
    BY <1>2, <2>1, <2>2, <2>3, <2>4, Zenon DEF Worker
<1>3. ASSUME NEW p \in Pipelines, Pipeline(p) PROVE LeaseInv'
  <2>1. CASE Fetch(p)
    BY <2>1, LeaseKept, Zenon DEF Fetch
  <2>2. CASE Flush(p)
    <3>1. task' = task /\ seen' = seen /\ ticked' = ticked
      BY <2>2, Zenon DEF Flush
    <3>2. QED
      BY <2>2, <3>1, FlushRow, LeaseKept, Zenon
  <2>3. QED
    BY <1>3, <2>1, <2>2, Zenon DEF Pipeline
<1>4. CASE RequeueNowCheckable
  <2>1. task' = task /\ seen' = seen /\ ticked' = ticked
    BY <1>4, Zenon DEF RequeueNowCheckable
  <2>2. QED
    BY <1>1, <1>4, <2>1, RequeueRow, LeaseKept, Zenon
<1>5. CASE UNCHANGED vars
  BY <1>5, LeaseKept, Zenon DEF vars
<1>6. QED
  BY <1>2, <1>3, <1>4, <1>5, LeaseTick, Zenon DEF Next

THEOREM WorkersLeased ==
    ASSUME Lease > Limit
    PROVE  Spec => [](TypeOK /\ LeaseInv)
<1>1. Init => TypeOK /\ LeaseInv
  BY TypeInit, LeaseInit
<1>2. TypeOK /\ LeaseInv /\ [Next]_vars => (TypeOK /\ LeaseInv)'
  BY TypeNext, LeaseNext
<1>3. QED
  BY <1>1, <1>2, PTL DEF Spec

\* When the lease is longer than a batch can take, no two workers check one
\* resource at the same time, those that claim by force included, whatever
\* crashes and aborts happen and whatever pipelines write into leased rows.
THEOREM WorkersNeverMeet ==
    ASSUME Lease > Limit
    PROVE  Spec => []WorkersApart
<1>1. TypeOK /\ LeaseInv => WorkersApart
  BY DEF LeaseInv
<1>2. QED
  BY <1>1, WorkersLeased, PTL

\* Where no pipeline runs beside the scheduler that is DESIGN.md's single
\* flight: no resource is probed twice at the same time.
THEOREM ProbedOnce ==
    ASSUME Lease > Limit, Pipelines = {}
    PROVE  Spec => []SingleFlight
<1>1. WorkersApart => SingleFlight
  <2> SUFFICES ASSUME WorkersApart, NEW x \in Workers, NEW y \in Workers, x # y
               PROVE  probing(x) \cap probing(y) = {}
    BY Zenon DEF SingleFlight
  <2>1. probing(x) = held(x) /\ probing(y) = held(y)
    BY Zenon DEF probing
  <2>2. QED
    BY <2>1, Zenon DEF WorkersApart
<1>2. QED
  BY <1>1, WorkersNeverMeet, PTL

-----------------------------------------------------------------------------
(* What the last verdict was                                               *)
(*                                                                         *)
(* A worker judges a verdict by the status and the count it found when it  *)
(* claimed.  Both are what link_check says as long as nothing disturbs the *)
(* workers; verify_early and verify_count show what each disturbance does. *)

Undisturbed ==
    /\ Manual = {} /\ Pipelines = {} /\ Faults = {}
    /\ "UNSUPPORTED" \notin Outcomes

\* Status s and count n say what the log c says.
Known(s, n, c) ==
    /\ s # "UNSUPPORTED"
    /\ s = "UNCHECKED" => c = <<>>
    /\ s # "UNCHECKED" => c # <<>> /\ LastOf(c) = s
    /\ s = "INVALID" => /\ n >= 1
                        /\ n >= INVALID_CONFIRM_TIMES <=> c = <<"INVALID", "INVALID">>

FreeKnown ==
    \A r \in Resources :
      /\ res[r].status = "CHECKING" => \E w \in Workers : r \in held(w)
      /\ res[r].status # "CHECKING" => Known(res[r].status, res[r].attempts, checks[r])
      /\ res[r].status = "INVALID" =>
           (res[r].due = Never <=> res[r].attempts >= INVALID_CONFIRM_TIMES)

HeldKnown ==
    \A w \in Workers : \A r \in held(w) :
      /\ res[r].status = "CHECKING" /\ res[r].due <= 0
      /\ task[w][r].attempts = res[r].attempts /\ task[w][r].prior # "CHECKING"
      /\ Known(task[w][r].prior, task[w][r].attempts, checks[r])

\* What a claim query read is still so for every row that can still be claimed.
SeenCurrent ==
    \A w \in Workers : \A r \in DOMAIN seen[w] :
      Claimable(w, r) => seen[w][r].status = res[r].status

HistoryInv == FreeKnown /\ HeldKnown /\ SeenCurrent

\* Counting equal verdicts in a row keeps the count what the log says.
LEMMA KnownStep ==
    ASSUME NEW s, s # "CHECKING", NEW n \in 0..AttemptsCap, NEW c \in CheckLog,
           Known(s, n, c), NEW o \in Verdicts, o # "UNSUPPORTED"
    PROVE  Known(o, Attempts(s, n, o), IF c = <<>> THEN <<o>> ELSE <<LastOf(c), o>>)
<1> DEFINE m == Attempts(s, n, o)
           z == IF c = <<>> THEN <<o>> ELSE <<LastOf(c), o>>
<1>1. z # <<>> /\ LastOf(z) = o
  BY LogStep
<1>2. o # "UNCHECKED"
  BY DEF Verdicts
<1>3. ASSUME o = "INVALID"
      PROVE  m >= 1 /\ (m >= INVALID_CONFIRM_TIMES <=> z = <<"INVALID", "INVALID">>)
  <2>1. CASE s = "INVALID"
    <3>1. n >= 1 /\ c # <<>> /\ LastOf(c) = "INVALID"
      BY <2>1 DEF Known
    <3>2. m = capped(n + 1) /\ n + 1 \in Nat /\ n + 1 >= INVALID_CONFIRM_TIMES
      BY <1>3, <2>1, <3>1 DEF Attempts, INVALID_CONFIRM_TIMES
    <3>3. m \in 0..AttemptsCap /\ m >= INVALID_CONFIRM_TIMES
      BY <3>2, CappedRange
    <3>4. z = <<"INVALID", "INVALID">>
      BY <1>3, <3>1
    <3> HIDE DEF m, z
    <3>5. QED
      BY <3>3, <3>4 DEF INVALID_CONFIRM_TIMES
  <2>2. CASE s # "INVALID"
    <3>1. m = 1
      BY <1>3, <2>2 DEF Attempts
    <3>2. c = <<>> \/ LastOf(c) # "INVALID"
      BY <2>2 DEF Known
    <3>3. z # <<"INVALID", "INVALID">>
      BY <3>2
    <3> HIDE DEF m, z
    <3>4. QED
      BY <3>1, <3>3 DEF INVALID_CONFIRM_TIMES
  <2>3. QED
    BY <2>1, <2>2
<1> HIDE DEF m, z
<1>4. Known(o, m, z)
  BY <1>1, <1>2, <1>3, Zenon DEF Known
<1>5. QED
  BY <1>4 DEF m, z

\* The schedule of a verdict: an invalid link is given up on when its count says
\* so, and nothing that has just been checked is due.
LEMMA ScheduleStep ==
    ASSUME NEW o, NEW m
    PROVE  /\ o = "INVALID" => (next_check_at(o, m) = Never <=> m >= INVALID_CONFIRM_TIMES)
           /\ next_check_at(o, m) # 0
<1>1. InvalidTTL # Never /\ InvalidTTL # 0 /\ ValidTTL # 0 /\ Never # 0
  BY VerifyQueueAssumption DEF Never
<1>2. backoff(m) # 0
  BY BackoffBounds
<1>3. o = "INVALID" => next_check_at(o, m) = IF m >= INVALID_CONFIRM_TIMES THEN Never ELSE InvalidTTL
  BY DEF next_check_at
<1>4. next_check_at(o, m) # 0
  BY <1>1, <1>2, <1>3 DEF next_check_at
<1>5. QED
  BY <1>1, <1>3, <1>4

LEMMA HistoryInit == Init => HistoryInv
<1> SUFFICES ASSUME Init PROVE HistoryInv
  OBVIOUS
<1>1. \A w \in Workers : held(w) = {} /\ DOMAIN seen[w] = {}
  BY Zenon DEF Init, held, Nothing
<1>2. \A r \in Resources : res[r].status = "UNCHECKED" /\ checks[r] = <<>>
  BY Zenon DEF Init
<1>3. FreeKnown
  BY <1>2 DEF FreeKnown, Known
<1>4. HeldKnown /\ SeenCurrent
  BY <1>1, Zenon DEF HeldKnown, SeenCurrent
<1>5. QED
  BY <1>3, <1>4 DEF HistoryInv

LEMMA HistoryRead ==
    ASSUME TypeOK, HistoryInv, NEW w \in Workers, ReadCandidates(w)
    PROVE  HistoryInv'
<1>1. res' = res /\ checks' = checks /\ task' = task
  BY Zenon DEF ReadCandidates
<1>2. FreeKnown' /\ HeldKnown'
  BY <1>1, Zenon DEF HistoryInv, FreeKnown, HeldKnown, held
<1>3. SeenCurrent'
  <2> DEFINE read == [r \in {s \in Resources : Claimable(w, s)} |->
                        [status |-> res[r].status, attempts |-> res[r].attempts]]
  <2>1. seen' = [seen EXCEPT ![w] = read] /\ DOMAIN seen = Workers
    BY TypeParts, Zenon DEF ReadCandidates, SeenOK
  <2>2. \A r \in DOMAIN read : read[r].status = res[r].status
    BY Zenon
  <2> HIDE DEF read
  <2>3. QED
    BY <1>1, <2>1, <2>2, Zenon DEF HistoryInv, SeenCurrent, Claimable, Due
<1>4. QED
  BY <1>2, <1>3 DEF HistoryInv

LEMMA HistoryClaim ==
    ASSUME Undisturbed, TypeOK, LeaseInv, HistoryInv, NEW w \in Workers, ClaimRows(w)
    PROVE  HistoryInv'
<1>1. /\ checks' = checks
      /\ \A r \in Resources \ held(w)' : res'[r] = res[r]
      /\ \A v \in Workers : v # w => task'[v] = task[v] /\ held(v)' = held(v)
  BY ClaimTakes, Zenon DEF ClaimRows
<1>2. ASSUME NEW r \in held(w)'
      PROVE  /\ r \in Resources /\ \A v \in Workers : r \notin held(v)
             /\ res[r].status # "CHECKING" /\ res'[r].status = "CHECKING"
             /\ res'[r].lease = Lease
             /\ res'[r].attempts = res[r].attempts /\ res'[r].due = res[r].due
             /\ task'[w][r].prior = res[r].status /\ task'[w][r].attempts = res'[r].attempts
             /\ res[r].due <= 0
  <2>1. /\ r \in Resources /\ r \in DOMAIN seen[w] /\ Claimable(w, r)
        /\ res'[r] = Decide(res[r], seen[w][r]) /\ res[r] \in Row /\ seen[w][r] \in Candidate
        /\ task'[w][r].prior = seen[w][r].status /\ task'[w][r].attempts = res'[r].attempts
        /\ \A v \in Workers : r \notin held(v)
    BY ClaimTakes, Zenon
  <2>2. res[r].status # "CHECKING" /\ seen[w][r].status = res[r].status
    BY <2>1, Zenon DEF HistoryInv, FreeKnown, SeenCurrent
  <2>3. /\ res'[r].status = "CHECKING" /\ res'[r].lease = Lease
        /\ res'[r].attempts = res[r].attempts /\ res'[r].due = res[r].due
    BY <2>1, <2>2, DecideRow
  <2>4. res[r].due = 0 \/ res[r].due = Never
    BY <2>1, Zenon DEF Claimable, Due, Undisturbed
  <2>5. res[r].due <= 0
    BY <2>4 DEF Never
  <2>6. QED
    BY <2>1, <2>2, <2>3, <2>5, Zenon
<1>3. FreeKnown'
  <2>1. ASSUME NEW r \in held(w)'
        PROVE  res'[r].status = "CHECKING" /\ \E v \in Workers : r \in held(v)'
    BY <1>2, <2>1, Zenon
  <2>2. ASSUME NEW r \in Resources \ held(w)', NEW v \in Workers, r \in held(v)
        PROVE  r \in held(v)'
    <3>1. held(w) = {}
      BY ClaimTakes, Zenon
    <3>2. QED
      BY <1>1, <2>2, <3>1, Zenon
  <2>3. \A r \in Resources \ held(w)' : res'[r] = res[r] /\ checks'[r] = checks[r]
    BY <1>1, Zenon
  <2>4. ASSUME NEW r \in Resources
        PROVE  /\ res'[r].status = "CHECKING" => \E v \in Workers : r \in held(v)'
               /\ res'[r].status # "CHECKING" => Known(res'[r].status, res'[r].attempts, checks'[r])
               /\ res'[r].status = "INVALID" =>
                    (res'[r].due = Never <=> res'[r].attempts >= INVALID_CONFIRM_TIMES)
    <3>1. CASE r \in held(w)'
      BY <2>1, <3>1
    <3>2. CASE r \notin held(w)'
      BY <2>2, <2>3, <3>2, Zenon DEF HistoryInv, FreeKnown
    <3>3. QED
      BY <3>1, <3>2
  <2>5. QED
    BY <2>4, Zenon DEF FreeKnown
<1>4. HeldKnown'
  <2>1. ASSUME NEW r \in held(w)'
        PROVE  /\ res'[r].status = "CHECKING" /\ res'[r].due <= 0
               /\ task'[w][r].attempts = res'[r].attempts /\ task'[w][r].prior # "CHECKING"
               /\ Known(task'[w][r].prior, task'[w][r].attempts, checks'[r])
    <3>1. Known(res[r].status, res[r].attempts, checks[r])
      BY <1>2, <2>1, Zenon DEF HistoryInv, FreeKnown
    <3>2. QED
      BY <1>1, <1>2, <2>1, <3>1, Zenon
  <2>2. ASSUME NEW v \in Workers, v # w, NEW r \in held(v)'
        PROVE  /\ res'[r].status = "CHECKING" /\ res'[r].due <= 0
               /\ task'[v][r].attempts = res'[r].attempts /\ task'[v][r].prior # "CHECKING"
               /\ Known(task'[v][r].prior, task'[v][r].attempts, checks'[r])
    <3>1. r \in held(v) /\ task'[v] = task[v] /\ r \notin held(w)'
      <4>1. task'[v] = task[v] /\ held(v)' = held(v)
        BY <1>1, <2>2, Zenon
      <4>2. r \in held(v)
        BY <2>2, <4>1
      <4>3. QED
        BY <1>2, <4>1, <4>2
    <3>2. res'[r] = res[r] /\ checks'[r] = checks[r]
      BY <1>1, <3>1, HeldSize, Zenon
    <3>3. QED
      BY <3>1, <3>2, Zenon DEF HistoryInv, HeldKnown
  <2>3. QED
    BY <2>1, <2>2, Zenon DEF HeldKnown
<1>5. SeenCurrent'
  <2> SUFFICES ASSUME NEW v \in Workers, NEW r \in DOMAIN seen'[v], Claimable(v, r)'
               PROVE  seen'[v][r].status = res'[r].status
    BY Zenon DEF SeenCurrent
  <2>1. v # w /\ seen'[v] = seen[v]
    BY TypeParts, Zenon DEF ClaimRows, SeenOK, Nothing
  <2>2. r \in Resources
    BY <2>1, TypeParts, Zenon DEF SeenOK
  <2>3. r \notin held(w)'
    <3>1. res'[r].lease = 0
      BY Zenon DEF Claimable
    <3>2. Lease # 0
      BY VerifyQueueAssumption
    <3>3. QED
      BY <1>2, <3>1, <3>2, Zenon
  <2>4. res'[r] = res[r]
    BY <1>1, <2>2, <2>3, Zenon
  <2>5. Claimable(v, r)
    BY <2>4, Zenon DEF Claimable, Due
  <2>6. QED
    BY <2>1, <2>4, <2>5, Zenon DEF HistoryInv, SeenCurrent
<1>6. QED
  BY <1>3, <1>4, <1>5 DEF HistoryInv

\* The rows of a chunk after its commit.
LEMMA HistoryVerdict ==
    ASSUME Undisturbed, TypeOK, LeaseInv, HistoryInv, NEW w \in Workers, NEW C,
           CommitChunk(w, C), NEW r \in C
    PROVE  /\ res'[r].status \in Verdicts
           /\ Known(res'[r].status, res'[r].attempts, checks'[r])
           /\ res'[r].status = "INVALID" =>
                (res'[r].due = Never <=> res'[r].attempts >= INVALID_CONFIRM_TIMES)
           /\ res'[r].due # 0
<1>1. r \in held(w) /\ r \in Resources
  BY CommitRow, Zenon
<1>2. PICK outcome \in [C -> Outcomes] :
        /\ checks' = Logged(C, outcome)
        /\ \A q \in C : Judged(w, q, outcome[q])
  BY CommitRow, Zenon
<1> DEFINE s == task[w][r].prior
           n == task[w][r].attempts
           o == outcome[r]
           m == Attempts(s, n, o)
           c == checks[r]
<1>3. /\ o \in Verdicts /\ res'[r].status = o /\ res'[r].due = next_check_at(o, m)
      /\ res'[r].attempts = IF m = n THEN res[r].attempts ELSE m
  BY <1>2, Zenon DEF Judged
<1>4. /\ s # "CHECKING" /\ n = res[r].attempts /\ Known(s, n, c)
      /\ n \in 0..AttemptsCap /\ c \in CheckLog
  <2>1. /\ task[w][r].prior # "CHECKING" /\ task[w][r].attempts = res[r].attempts
        /\ Known(task[w][r].prior, task[w][r].attempts, checks[r])
    BY <1>1, Zenon DEF HistoryInv, HeldKnown
  <2>2. task[w][r] \in Task /\ checks[r] \in CheckLog
    BY <1>1, TypeParts, Zenon DEF TaskOK, LogsOK
  <2>3. QED
    BY <2>1, <2>2, Zenon DEF Task
<1>5. checks'[r] = IF c = <<>> THEN <<o>> ELSE <<LastOf(c), o>>
  BY <1>1, <1>2, Zenon DEF Logged, LastOf
<1>6. o # "UNSUPPORTED"
  BY <1>2, Zenon DEF Undisturbed
<1>7. res'[r].attempts = m
  BY <1>3, <1>4, Zenon
<1> HIDE DEF s, n, o, c
<1>8. Known(o, m, checks'[r])
  BY <1>3, <1>4, <1>5, <1>6, KnownStep
<1>9. /\ o = "INVALID" => (next_check_at(o, m) = Never <=> m >= INVALID_CONFIRM_TIMES)
      /\ next_check_at(o, m) # 0
  BY ScheduleStep
<1> HIDE DEF m
<1>10. QED
  BY <1>3, <1>7, <1>8, <1>9, Zenon

LEMMA HistoryCommit ==
    ASSUME Undisturbed, TypeOK, LeaseInv, HistoryInv, NEW w \in Workers, NEW C,
           CommitChunk(w, C)
    PROVE  HistoryInv'
<1>1. C \subseteq held(w) /\ C \subseteq Resources
      /\ \A r \in Resources \ C : res'[r] = res[r] /\ checks'[r] = checks[r]
  BY CommitRow, Zenon
<1>2. /\ held(w)' = held(w) \ C /\ seen' = seen
      /\ \A r \in held(w) \ C : task'[w][r] = task[w][r]
      /\ \A v \in Workers : v # w => task'[v] = task[v] /\ held(v)' = held(v)
  <2>1. Release(w, C)
    BY CommitRow
  <2>2. QED
    BY <2>1, ReleaseGives
<1>3. \A r \in C : /\ res'[r].status \in Verdicts
                   /\ Known(res'[r].status, res'[r].attempts, checks'[r])
                   /\ res'[r].status = "INVALID" =>
                        (res'[r].due = Never <=> res'[r].attempts >= INVALID_CONFIRM_TIMES)
                   /\ res'[r].due # 0
  BY HistoryVerdict, Zenon
<1>4. FreeKnown'
  <2>1. ASSUME NEW r \in Resources \ C, NEW v \in Workers, r \in held(v)
        PROVE  r \in held(v)'
    BY <1>2, <2>1, Zenon
  <2>2. ASSUME NEW r \in C PROVE res'[r].status # "CHECKING"
    BY <1>3, <2>2 DEF Verdicts
  <2>3. ASSUME NEW r \in Resources
        PROVE  /\ res'[r].status = "CHECKING" => \E v \in Workers : r \in held(v)'
               /\ res'[r].status # "CHECKING" => Known(res'[r].status, res'[r].attempts, checks'[r])
               /\ res'[r].status = "INVALID" =>
                    (res'[r].due = Never <=> res'[r].attempts >= INVALID_CONFIRM_TIMES)
    <3>1. CASE r \in C
      BY <1>3, <2>2, <3>1, Zenon
    <3>2. CASE r \notin C
      BY <1>1, <2>1, <3>2, Zenon DEF HistoryInv, FreeKnown
    <3>3. QED
      BY <3>1, <3>2
  <2>4. QED
    BY <2>3, Zenon DEF FreeKnown
<1>5. HeldKnown'
  <2> SUFFICES ASSUME NEW v \in Workers, NEW r \in held(v)'
               PROVE  /\ res'[r].status = "CHECKING" /\ res'[r].due <= 0
                      /\ task'[v][r].attempts = res'[r].attempts /\ task'[v][r].prior # "CHECKING"
                      /\ Known(task'[v][r].prior, task'[v][r].attempts, checks'[r])
    BY Zenon DEF HeldKnown
  <2>1. r \in held(v) /\ r \notin C /\ task'[v][r] = task[v][r]
    BY <1>1, <1>2, Zenon DEF LeaseInv, WorkersApart
  <2>2. res'[r] = res[r] /\ checks'[r] = checks[r]
    BY <1>1, <2>1, HeldSize, Zenon
  <2>3. QED
    BY <2>1, <2>2, Zenon DEF HistoryInv, HeldKnown
<1>6. SeenCurrent'
  <2> SUFFICES ASSUME NEW v \in Workers, NEW r \in DOMAIN seen[v], Claimable(v, r)'
               PROVE  seen[v][r].status = res'[r].status
    BY <1>2, Zenon DEF SeenCurrent
  <2>1. r \in Resources
    BY TypeParts, Zenon DEF SeenOK
  <2>2. r \notin C
    <3>1. res'[r].due = 0 \/ res'[r].status = "UNCHECKED"
      BY Zenon DEF Claimable, Due, Undisturbed
    <3>2. QED
      BY <1>3, <3>1 DEF Verdicts
  <2>3. res'[r] = res[r]
    BY <1>1, <2>1, <2>2, Zenon
  <2>4. Claimable(v, r)
    BY <2>3, Zenon DEF Claimable, Due
  <2>5. QED
    BY <2>3, <2>4, Zenon DEF HistoryInv, SeenCurrent
<1>7. QED
  BY <1>4, <1>5, <1>6 DEF HistoryInv

LEMMA HistoryTick ==
    ASSUME TypeOK, HistoryInv, Tick
    PROVE  HistoryInv'
<1>1. checks' = checks /\ task' = task /\ seen' = seen
      /\ \A w \in Workers : DOMAIN seen[w] = {} /\ held(w)' = held(w)
  BY Zenon DEF Tick, held
<1>2. ASSUME NEW r \in Resources
      PROVE  /\ res'[r].status = res[r].status /\ res'[r].attempts = res[r].attempts
             /\ res'[r].due = Never <=> res[r].due = Never
             /\ res[r].due <= 0 => res'[r].due <= 0
  <2>1. RowsOK
    BY TypeParts
  <2>2. res[r].due \in Instant
    BY <2>1, Zenon DEF RowsOK, Row
  <2>3. QED
    BY <2>1, <2>2, TickRow, PastRange, Zenon
<1>3. FreeKnown'
  BY <1>1, <1>2, Zenon DEF HistoryInv, FreeKnown
<1>4. HeldKnown'
  <2>1. \A w \in Workers : held(w) \subseteq Resources
    BY HeldSize, Zenon
  <2>2. QED
    BY <1>1, <1>2, <2>1, Zenon DEF HistoryInv, HeldKnown
<1>5. SeenCurrent'
  BY <1>1, Zenon DEF SeenCurrent
<1>6. QED
  BY <1>3, <1>4, <1>5 DEF HistoryInv

LEMMA HistoryStutter ==
    ASSUME HistoryInv, UNCHANGED vars
    PROVE  HistoryInv'
BY Zenon DEF vars, HistoryInv, FreeKnown, HeldKnown, SeenCurrent, Claimable, Due, held

\* The steps that are left when nothing disturbs the workers.
LEMMA UndisturbedSteps ==
    ASSUME Undisturbed, HistoryInv, Next
    PROVE  \/ \E w \in Workers : \/ ReadCandidates(w) \/ ClaimRows(w)
                                 \/ \E C : CommitChunk(w, C)
           \/ Tick
<1>1. \A w \in Workers : ~Crash(w) /\ \A C : ~AbortChunk(w, C)
  BY Zenon DEF Undisturbed, Crash, AbortChunk
<1>2. ~RequeueNowCheckable
  <2>1. \A r \in Resources : res[r].status # "UNSUPPORTED"
    <3>1. \A r \in Resources : res[r].status # "CHECKING" => res[r].status # "UNSUPPORTED"
      BY Zenon DEF HistoryInv, FreeKnown, Known
    <3>2. QED
      BY <3>1
  <2>2. QED
    BY <2>1, Zenon DEF RequeueNowCheckable
<1>3. QED
  BY <1>1, <1>2, Zenon DEF Undisturbed, Next, Worker, FinishChunk

LEMMA HistoryNext ==
    ASSUME Undisturbed
    PROVE  TypeOK /\ LeaseInv /\ HistoryInv /\ [Next]_vars => HistoryInv'
BY UndisturbedSteps, HistoryRead, HistoryClaim, HistoryCommit, HistoryTick, HistoryStutter, Zenon

THEOREM HistoryKnown ==
    ASSUME Undisturbed, Lease > Limit
    PROVE  Spec => [](TypeOK /\ LeaseInv /\ HistoryInv)
<1>1. Init => TypeOK /\ LeaseInv /\ HistoryInv
  BY TypeInit, LeaseInit, HistoryInit
<1>2. TypeOK /\ LeaseInv /\ HistoryInv /\ [Next]_vars => (TypeOK /\ LeaseInv /\ HistoryInv)'
  BY TypeNext, LeaseNext, HistoryNext
<1>3. QED
  BY <1>1, <1>2, PTL DEF Spec

\* DESIGN.md 6.4, for any number of undisturbed workers whose leases outlast a
\* batch: a link is given up on when, and only when, the last two checks found
\* it invalid, however claims that have read old rows and commits interleave.
THEOREM RetiredAfterTwo ==
    ASSUME Undisturbed, Lease > Limit
    PROVE  Spec => []RetiredIffConfirmed
<1>1. HistoryInv => RetiredIffConfirmed
  <2> SUFFICES ASSUME HistoryInv, NEW r \in Resources, res[r].status = "INVALID"
               PROVE  res[r].due = Never <=> Confirmed(r)
    BY DEF RetiredIffConfirmed
  <2>1. res[r].due = Never <=> res[r].attempts >= INVALID_CONFIRM_TIMES
    BY Zenon DEF HistoryInv, FreeKnown
  <2>2. res[r].status # "CHECKING"
    OBVIOUS
  <2>3. Known(res[r].status, res[r].attempts, checks[r])
    BY <2>2, Zenon DEF HistoryInv, FreeKnown
  <2>4. QED
    BY <2>1, <2>3, Zenon DEF Known, Confirmed
<1>2. QED
  BY <1>1, HistoryKnown, PTL

\* The second check of an invalid link comes no sooner than its re-check date:
\* no worker holds a resource whose due time has not passed.
THEOREM RetiredInTime ==
    ASSUME Undisturbed, Lease > Limit
    PROVE  Spec => RetiresWhenDue
<1>1. TypeOK /\ LeaseInv /\ HistoryInv /\ [Next]_vars =>
        [\A r \in Resources :
           (res'[r].status = "INVALID" /\ res'[r].due = Never /\ checks'[r] # checks[r])
             => res[r].due <= 0]_vars
  <2> SUFFICES ASSUME TypeOK, LeaseInv, HistoryInv, Next, NEW r \in Resources,
                      checks'[r] # checks[r]
               PROVE  res[r].due <= 0
    OBVIOUS
  <2>1. PICK w \in Workers : \E C : CommitChunk(w, C)
    <3>1. checks' # checks
      OBVIOUS
    <3>2. QED
      BY <3>1, UndisturbedSteps, Zenon DEF ReadCandidates, ClaimRows, Tick
  <2>2. PICK C : CommitChunk(w, C)
    BY <2>1
  <2>3. r \in C /\ C \subseteq held(w)
    BY <2>2, CommitRow, Zenon
  <2>4. QED
    BY <2>3, Zenon DEF HistoryInv, HeldKnown
<1>2. QED
  BY <1>1, HistoryKnown, PTL DEF Spec, RetiresWhenDue

-----------------------------------------------------------------------------
(* The count of valid links                                                *)

LastValid == {r \in Resources : checks[r] # <<>> /\ checks[r][Len(checks[r])] = "VALID"}

LEMMA CountCommit ==
    ASSUME Undisturbed, TypeOK, LeaseInv, HistoryInv, NeverOverstates,
           NEW w \in Workers, NEW C, CommitChunk(w, C)
    PROVE  NeverOverstates'
<1>1. C \subseteq held(w) /\ C \in SUBSET Resources
      /\ \A r \in Resources \ C : checks'[r] = checks[r]
  BY CommitRow, Zenon
<1>2. PICK outcome \in [C -> Outcomes] :
        /\ checks' = Logged(C, outcome)
        /\ Recounted(C, [r \in C |-> task[w][r].prior], outcome)
  BY CommitRow, Zenon
<1>3. \A r \in C : checks'[r] # <<>> /\ LastOf(checks'[r]) = outcome[r]
  BY <1>1, <1>2, TypeLogged, Zenon
<1>4. validCount \in Nat /\ validCount' \in Nat
      /\ Cardinality(LastValid) \in Nat /\ Cardinality(LastValid') \in Nat
  <2>1. Cardinality(Resources) \in Nat /\ \A n \in 0..Cardinality(Resources) : n \in Nat
    BY VerifyQueueAssumption, FS_CardinalityType
  <2>2. CountOK /\ CountOK'
    BY <1>2, TypeParts, TypeRecounted
  <2>3. LastValid \in SUBSET Resources /\ LastValid' \in SUBSET Resources
    BY Zenon DEF LastValid
  <2>4. QED
    BY <2>1, <2>2, <2>3, SomeResources, Zenon DEF CountOK
<1>5. CASE \A r \in C : (outcome[r] = "VALID") = (task[w][r].prior = "VALID")
  <2>1. UNCHANGED validCount
    BY <1>2, <1>5, Zenon DEF Recounted
  <2>2. LastValid \subseteq LastValid'
    <3> SUFFICES ASSUME NEW r \in LastValid PROVE r \in LastValid'
      OBVIOUS
    <3>1. r \in Resources /\ checks[r] # <<>> /\ LastOf(checks[r]) = "VALID"
      BY Zenon DEF LastValid, LastOf
    <3>2. CASE r \in C
      <4>1. Known(task[w][r].prior, task[w][r].attempts, checks[r])
        BY <1>1, <3>2, Zenon DEF HistoryInv, HeldKnown
      <4>2. task[w][r].prior = "VALID"
        BY <3>1, <4>1, Zenon DEF Known
      <4>3. outcome[r] = "VALID"
        BY <1>5, <3>2, <4>2, Zenon
      <4>4. QED
        BY <1>3, <3>1, <3>2, <4>3, Zenon DEF LastValid, LastOf
    <3>3. CASE r \notin C
      BY <1>1, <3>1, <3>3, Zenon DEF LastValid, LastOf
    <3>4. QED
      BY <3>2, <3>3
  <2>3. Cardinality(LastValid) <= Cardinality(LastValid')
    <3>1. LastValid' \in SUBSET Resources
      BY Zenon DEF LastValid
    <3>2. IsFiniteSet(LastValid')
      BY <3>1, SomeResources, Zenon
    <3>3. QED
      BY <2>2, <3>2, FS_Subset, Zenon
  <2>4. validCount <= Cardinality(LastValid)
    BY DEF NeverOverstates, LastValid
  <2>5. validCount' <= Cardinality(LastValid')
    BY <1>4, <2>1, <2>3, <2>4
  <2>6. QED
    BY <2>5 DEF NeverOverstates, LastValid
<1>6. CASE ~ \A r \in C : (outcome[r] = "VALID") = (task[w][r].prior = "VALID")
  <2>1. PICK late \in SUBSET C :
          validCount' = Cardinality({r \in Resources :
            IF r \in late THEN res[r].status = "VALID" ELSE res'[r].status = "VALID"})
    BY <1>2, <1>6, Zenon DEF Recounted
  <2> DEFINE counted == {r \in Resources :
                           IF r \in late THEN res[r].status = "VALID" ELSE res'[r].status = "VALID"}
  <2>2. counted \subseteq LastValid'
    <3> SUFFICES ASSUME NEW r \in counted PROVE r \in LastValid'
      OBVIOUS
    <3>1. r \notin late
      <4>1. \A q \in C : res[q].status = "CHECKING"
        BY <1>1, Zenon DEF HistoryInv, HeldKnown
      <4>2. QED
        BY <4>1
    <3>2. r \in Resources /\ res'[r].status = "VALID"
      BY <3>1, Zenon
    <3>3. HistoryInv'
      BY HistoryCommit, Zenon
    <3>4. res'[r].status # "CHECKING" /\ res'[r].status # "UNCHECKED"
      BY <3>2
    <3>5. checks'[r] # <<>> /\ LastOf(checks'[r]) = "VALID"
      BY <3>2, <3>3, <3>4, Zenon DEF HistoryInv, FreeKnown, Known
    <3>6. QED
      BY <3>2, <3>5, Zenon DEF LastValid, LastOf
  <2>3. Cardinality(counted) <= Cardinality(LastValid')
    <3>1. LastValid' \in SUBSET Resources
      BY Zenon DEF LastValid
    <3>2. IsFiniteSet(LastValid')
      BY <3>1, SomeResources, Zenon
    <3> HIDE DEF counted
    <3>3. QED
      BY <2>2, <3>2, FS_Subset, Zenon
  <2>4. QED
    BY <2>1, <2>3, Zenon DEF NeverOverstates, LastValid
<1>7. QED
  BY <1>5, <1>6

LEMMA CountNext ==
    ASSUME Undisturbed
    PROVE  TypeOK /\ LeaseInv /\ HistoryInv /\ NeverOverstates /\ [Next]_vars => NeverOverstates'
<1>1. ASSUME UNCHANGED <<checks, validCount>>, NeverOverstates PROVE NeverOverstates'
  BY <1>1, Zenon DEF NeverOverstates
<1>2. QED
  BY <1>1, UndisturbedSteps, CountCommit, Zenon DEF ReadCandidates, ClaimRows, Tick, vars

\* With undisturbed workers valid_resource_count never promises more links than
\* were valid when they were last checked, whichever of the resources of a chunk
\* the recounts between its writes see (services/counters.py).
THEOREM CountNeverOverstates ==
    ASSUME Undisturbed, Lease > Limit
    PROVE  Spec => []NeverOverstates
<1>1. Init => NeverOverstates
  <2> SUFFICES ASSUME Init PROVE NeverOverstates
    OBVIOUS
  <2>1. LastValid \in SUBSET Resources /\ validCount = 0
    BY Zenon DEF Init, LastValid
  <2>2. Cardinality(LastValid) \in Nat
    BY <2>1, SomeResources, FS_CardinalityType, Zenon
  <2>3. QED
    BY <2>1, <2>2 DEF NeverOverstates, LastValid
<1>2. QED
  BY <1>1, CountNext, HistoryKnown, PTL DEF Spec

-----------------------------------------------------------------------------
(* The verification queue implements TaskQueue                             *)
(*                                                                         *)
(* A resource is an open task as long as it has a due time.  A claim gives *)
(* up on nothing here, a verdict closes the resource when it leaves no due *)
(* time, and maintenance reopens the unsupported ones.                     *)

\* The two state functions of the refinement mapping.
Open  == {r \in Resources : res[r].due # Never}
Holds == [w \in Workers |-> held(w)]

Queue == INSTANCE TaskQueue WITH Tasks <- Resources, open <- Open, holds <- Holds

\* The queue keeps the promise of TaskQueue.
ImplementsTaskQueue == Queue!Spec

\* What else the mapping rests on: a claimed row bears the placeholder status,
\* and a row without a probe is closed.
HeldChecking == \A w \in Workers : \A r \in held(w) : res[r].status = "CHECKING"
UnsupportedClosed == \A r \in Resources : res[r].status = "UNSUPPORTED" => res[r].due = Never

PromiseInv == CheckingIsDue /\ HeldChecking /\ UnsupportedClosed

LEMMA PromiseInit == Init => PromiseInv
<1> SUFFICES ASSUME Init PROVE PromiseInv
  OBVIOUS
<1>1. /\ \A w \in Workers : held(w) = {}
      /\ \A r \in Resources : res[r].status = "UNCHECKED"
  BY Zenon DEF Init, held, Nothing
<1>2. HeldChecking /\ UnsupportedClosed
  BY <1>1 DEF HeldChecking, UnsupportedClosed
<1>3. QED
  BY <1>2, DueInit DEF PromiseInv

\* A verdict without a probe leaves no due time.
LEMMA UnsupportedVerdict ==
    ASSUME NEW n
    PROVE  next_check_at("UNSUPPORTED", n) = Never
BY DEF next_check_at

LEMMA PromiseClaim ==
    ASSUME TypeOK, LeaseInv, HeldChecking, UnsupportedClosed, NEW w \in Workers, ClaimRows(w)
    PROVE  HeldChecking' /\ UnsupportedClosed'
<1>1. \A r \in held(w)' : res'[r].status = "CHECKING"
  <2> SUFFICES ASSUME NEW r \in held(w)' PROVE res'[r].status = "CHECKING"
    OBVIOUS
  <2>1. res'[r] = Decide(res[r], seen[w][r]) /\ res[r] \in Row /\ seen[w][r] \in Candidate
    BY ClaimTakes, Zenon
  <2>2. QED
    BY <2>1, DecideRow
<1>2. \A r \in Resources \ held(w)' : res'[r] = res[r]
  BY ClaimTakes, Zenon
<1>3. ASSUME NEW v \in Workers, v # w, NEW r \in held(v)'
      PROVE  res'[r].status = "CHECKING"
  <2>1. r \in held(v)
    BY <1>3, ClaimTakes, Zenon
  <2>2. r \in Resources /\ r \notin held(w)'
    BY <2>1, ClaimTakes, HeldSize, Zenon
  <2>3. QED
    BY <1>2, <2>1, <2>2, Zenon DEF HeldChecking
<1>4. HeldChecking'
  BY <1>1, <1>3, Zenon DEF HeldChecking
<1>5. UnsupportedClosed'
  <2>1. \A r \in Resources : res'[r].status = "UNSUPPORTED" => r \notin held(w)'
    BY <1>1
  <2>2. QED
    BY <1>2, <2>1, Zenon DEF UnsupportedClosed
<1>6. QED
  BY <1>4, <1>5

LEMMA PromiseRelease ==
    ASSUME TypeOK, LeaseInv, HeldChecking, NEW w \in Workers, NEW C, C \subseteq held(w),
           Release(w, C), \A r \in Resources \ C : res'[r] = res[r]
    PROVE  HeldChecking'
<1> SUFFICES ASSUME NEW v \in Workers, NEW r \in held(v)'
             PROVE  res'[r].status = "CHECKING"
  BY Zenon DEF HeldChecking
<1>1. r \in held(v) /\ r \notin C
  <2>1. CASE v = w
    <3>1. held(w)' = held(w) \ C
      BY ReleaseGives, Zenon
    <3>2. r \in held(w)'
      BY <2>1
    <3>3. QED
      BY <2>1, <3>1, <3>2
  <2>2. CASE v # w
    <3>1. r \in held(v)
      BY <2>2, ReleaseGives, Zenon
    <3>2. held(v) \cap held(w) = {}
      BY <2>2 DEF LeaseInv, WorkersApart
    <3>3. QED
      BY <3>1, <3>2
  <2>3. QED
    BY <2>1, <2>2
<1>2. r \in Resources
  BY <1>1, HeldSize, Zenon
<1>3. QED
  BY <1>1, <1>2, Zenon DEF HeldChecking

LEMMA PromiseCommit ==
    ASSUME TypeOK, LeaseInv, HeldChecking, UnsupportedClosed, NEW w \in Workers, NEW C,
           CommitChunk(w, C)
    PROVE  HeldChecking' /\ UnsupportedClosed'
<1>1. /\ C \subseteq held(w) /\ Release(w, C)
      /\ \A r \in Resources \ C : res'[r] = res[r]
  BY CommitRow, Zenon
<1>2. ASSUME NEW r \in C, res'[r].status = "UNSUPPORTED"
      PROVE  res'[r].due = Never
  <2>1. PICK outcome : \A s \in C : Judged(w, s, outcome[s])
    BY CommitRow, Zenon
  <2>2. QED
    BY <1>2, <2>1, UnsupportedVerdict, Zenon DEF Judged
<1>3. UnsupportedClosed'
  BY <1>1, <1>2, Zenon DEF UnsupportedClosed
<1>4. QED
  BY <1>1, <1>3, PromiseRelease, Zenon

LEMMA PromiseNext ==
    ASSUME Manual = {}, Pipelines = {}
    PROVE  TypeOK /\ LeaseInv /\ PromiseInv /\ [Next]_vars => PromiseInv'
<1> SUFFICES ASSUME TypeOK, LeaseInv, PromiseInv, [Next]_vars
             PROVE  HeldChecking' /\ UnsupportedClosed'
  BY DueNext DEF PromiseInv
<1>1. RowsOK /\ HeldChecking /\ UnsupportedClosed
  BY TypeParts DEF PromiseInv
<1>2. ASSUME res' = res, \A w \in Workers : held(w)' \subseteq held(w)
      PROVE  HeldChecking' /\ UnsupportedClosed'
  BY <1>1, <1>2, Zenon DEF HeldChecking, UnsupportedClosed
<1>3. ASSUME NEW w \in Workers, Worker(w) \/ Crash(w)
      PROVE  HeldChecking' /\ UnsupportedClosed'
  <2>1. CASE ReadCandidates(w)
    BY <1>2, <2>1, Zenon DEF ReadCandidates, held
  <2>2. CASE ClaimRows(w)
    BY <1>1, <2>2, PromiseClaim
  <2>3. CASE FinishChunk(w)
    <3>1. PICK C : CommitChunk(w, C) \/ AbortChunk(w, C)
      BY <2>3, Zenon DEF FinishChunk
    <3>2. CASE CommitChunk(w, C)
      BY <1>1, <3>2, PromiseCommit
    <3>3. CASE AbortChunk(w, C)
      <4>1. PICK S : Release(w, S) /\ res' = res
        BY <3>3, Zenon DEF AbortChunk
      <4>2. QED
        BY <1>2, <4>1, ReleaseGives, Zenon
    <3>4. QED
      BY <3>1, <3>2, <3>3
  <2>4. CASE Crash(w)
    BY <1>2, <2>4, ReleaseGives, Zenon DEF Crash
  <2>5. QED
    BY <1>3, <2>1, <2>2, <2>3, <2>4, Zenon DEF Worker
<1>4. CASE Tick
  <2>1. \A r \in Resources : /\ res'[r].status = res[r].status
                             /\ res'[r].due = Never <=> res[r].due = Never
    <3> TAKE r \in Resources
    <3>1. res[r].due \in Instant
      BY <1>1, Zenon DEF RowsOK, Row
    <3>2. QED
      BY <1>1, <1>4, <3>1, TickRow, PastRange, Zenon
  <2>2. \A w \in Workers : held(w)' = held(w) /\ held(w) \subseteq Resources
    BY <1>4, HeldSize, Zenon DEF Tick, held
  <2>3. QED
    BY <1>1, <2>1, <2>2, Zenon DEF HeldChecking, UnsupportedClosed
<1>5. CASE RequeueNowCheckable
  <2>1. \A r \in Resources :
          /\ res[r].status # "UNSUPPORTED" => res'[r] = res[r]
          /\ res[r].status = "UNSUPPORTED" => res'[r].status = "UNCHECKED"
    BY <1>1, <1>5, RequeueRow, Zenon
  <2>2. \A w \in Workers : held(w)' = held(w) /\ held(w) \subseteq Resources
    BY <1>5, HeldSize, Zenon DEF RequeueNowCheckable, held
  <2>3. HeldChecking'
    <3> SUFFICES ASSUME NEW w \in Workers, NEW r \in held(w)
                 PROVE  res'[r].status = "CHECKING"
      BY <2>2, Zenon DEF HeldChecking
    <3>1. r \in Resources /\ res[r].status = "CHECKING"
      BY <1>1, <2>2, Zenon DEF HeldChecking
    <3>2. QED
      BY <2>1, <3>1
  <2>4. UnsupportedClosed'
    BY <1>1, <2>1 DEF UnsupportedClosed
  <2>5. QED
    BY <2>3, <2>4
<1>6. CASE UNCHANGED vars
  BY <1>2, <1>6, Zenon DEF vars, held
<1>7. QED
  BY <1>3, <1>4, <1>5, <1>6, Zenon DEF Next

\* A held resource is open.
LEMMA HeldOpen ==
    ASSUME TypeOK, PromiseInv, NEW w \in Workers, NEW r \in held(w)
    PROVE  r \in Resources /\ r \in Open
<1>1. r \in Resources /\ res[r].status = "CHECKING"
  BY HeldSize, Zenon DEF PromiseInv, HeldChecking
<1>2. QED
  BY <1>1 DEF PromiseInv, CheckingIsDue, Open

\* A claim takes free resources and closes none.
LEMMA QueueClaim ==
    ASSUME Manual = {}, TypeOK, LeaseInv, PromiseInv, PromiseInv', NEW w \in Workers, ClaimRows(w)
    PROVE  Queue!Take(w)
<1> DEFINE took == held(w)'
<1>1. /\ held(w) = {} /\ took \subseteq Resources
      /\ \A r \in took : \A v \in Workers : r \notin held(v)
      /\ \A r \in Resources \ took : res'[r] = res[r]
      /\ \A v \in Workers : v # w => held(v)' = held(v)
  BY ClaimTakes, Zenon
<1>2. \A r \in took : res[r].due # Never
  <2> SUFFICES ASSUME NEW r \in took PROVE res[r].due # Never
    OBVIOUS
  <2>1. r \in Resources /\ Claimable(w, r)
    BY ClaimTakes, Zenon
  <2>2. res[r].due = 0 \/ (res[r].due = Never /\ res[r].status = "UNCHECKED")
    BY <2>1, Zenon DEF Claimable, Due
  <2>3. QED
    BY <2>1, <2>2 DEF PromiseInv, CheckingIsDue, Never
<1>3. \A r \in took : res'[r].due # Never
  <2> SUFFICES ASSUME NEW r \in took PROVE res'[r].due # Never
    OBVIOUS
  <2>1. r \in Resources /\ res'[r].status = "CHECKING"
    BY <1>1, Zenon DEF PromiseInv, HeldChecking
  <2>2. QED
    BY <2>1 DEF PromiseInv, CheckingIsDue
<1> HIDE DEF took
<1>4. took \in SUBSET Queue!Free /\ {} \in SUBSET Queue!Free
  BY <1>1, <1>2, Zenon DEF Queue!Free, Open, Holds
<1>5. Open' = Open
  BY <1>1, <1>2, <1>3, Zenon DEF Open
<1>6. Holds' = [Holds EXCEPT ![w] = took]
  BY <1>1, Zenon DEF Holds, took
<1>7. Holds[w] = {}
  BY <1>1, Zenon DEF Holds
<1>8. took \cap {} = {} /\ Open \ {} = Open
  OBVIOUS
<1>9. QED
  BY <1>4, <1>5, <1>6, <1>7, <1>8, Zenon DEF Queue!Take, Open, Holds

\* Whoever puts down resources closes those it leaves without a due time.
LEMMA QueuePutDown ==
    ASSUME TypeOK, PromiseInv, NEW w \in Workers, NEW C, C \subseteq held(w),
           Release(w, C), \A r \in Resources \ C : res'[r] = res[r]
    PROVE  Queue!PutDown(w)
<1> DEFINE D == {r \in C : res'[r].due = Never}
<1>1. Holds' = [Holds EXCEPT ![w] = Holds[w] \ C]
  BY ReleaseGives, Zenon DEF Holds
<1>2. \A r \in C : r \in Resources /\ r \in Open
  BY HeldOpen, Zenon
<1>3. Open' = Open \ D
  <2>1. \A r \in Resources : res'[r].due # Never <=> r \in Open /\ r \notin D
    <3> TAKE r \in Resources
    <3>1. CASE r \in C
      BY <1>2, <3>1, Zenon
    <3>2. CASE r \notin C
      BY <3>2, Zenon DEF Open
    <3>3. QED
      BY <3>1, <3>2
  <2> HIDE DEF D
  <2>2. QED
    BY <2>1, Zenon DEF Open
<1>4. C \in SUBSET Holds[w] /\ D \in SUBSET C
  BY Zenon DEF Holds
<1> HIDE DEF D
<1>5. QED
  BY <1>1, <1>3, <1>4, Zenon DEF Queue!PutDown, Open, Holds

LEMMA QueueStep ==
    ASSUME Manual = {}, Pipelines = {}
    PROVE  TypeOK /\ LeaseInv /\ PromiseInv /\ PromiseInv' /\ [Next]_vars
             => [Queue!Next]_(Queue!qvars)
<1> SUFFICES ASSUME TypeOK, LeaseInv, PromiseInv, PromiseInv', [Next]_vars
             PROVE  Queue!Next \/ (Open' = Open /\ Holds' = Holds)
  BY Zenon DEF Queue!qvars, Open, Holds
<1>1. RowsOK
  BY TypeParts
<1>2. ASSUME NEW w \in Workers, Worker(w) \/ Crash(w)
      PROVE  Queue!Next \/ (Open' = Open /\ Holds' = Holds)
  <2>1. CASE ReadCandidates(w)
    BY <2>1, Zenon DEF ReadCandidates, Open, Holds, held
  <2>2. CASE ClaimRows(w)
    BY <2>2, QueueClaim, Zenon DEF Queue!Next
  <2>3. CASE FinishChunk(w)
    <3>1. PICK C \in SUBSET held(w) : CommitChunk(w, C) \/ AbortChunk(w, C)
      BY <2>3, Zenon DEF FinishChunk
    <3>2. CASE CommitChunk(w, C)
      <4>1. Release(w, C) /\ \A r \in Resources \ C : res'[r] = res[r]
        BY <3>2, CommitRow, Zenon
      <4>2. QED
        BY <3>1, <4>1, QueuePutDown, Zenon DEF Queue!Next
    <3>3. CASE AbortChunk(w, C)
      BY <3>1, <3>3, QueuePutDown, Zenon DEF AbortChunk, Queue!Next
    <3>4. QED
      BY <3>1, <3>2, <3>3
  <2>4. CASE Crash(w)
    BY <2>4, QueuePutDown, Zenon DEF Crash, Queue!Next
  <2>5. QED
    BY <1>2, <2>1, <2>2, <2>3, <2>4, Zenon DEF Worker
<1>3. CASE Tick
  <2>1. \A r \in Resources : res'[r].due = Never <=> res[r].due = Never
    <3> TAKE r \in Resources
    <3>1. res[r].due \in Instant
      BY <1>1, Zenon DEF RowsOK, Row
    <3>2. QED
      BY <1>1, <1>3, <3>1, TickRow, PastRange, Zenon
  <2>2. Holds' = Holds
    BY <1>3, Zenon DEF Tick, Holds, held
  <2>3. QED
    BY <2>1, <2>2, Zenon DEF Open
<1>4. CASE RequeueNowCheckable
  <2> DEFINE S == {r \in Resources : res[r].status = "UNSUPPORTED"}
  <2>1. \A r \in Resources : IF r \in S THEN r \notin Open /\ res'[r].due = 0
                                        ELSE res'[r] = res[r]
    BY <1>1, <1>4, RequeueRow, Zenon DEF PromiseInv, UnsupportedClosed, Open
  <2>2. \A r \in Resources : res'[r].due # Never <=> r \in Open \/ r \in S
    <3> HIDE DEF S
    <3>1. 0 # Never
      BY DEF Never
    <3>2. QED
      BY <2>1, <3>1, Zenon DEF Open
  <2>3. S \subseteq Resources
    OBVIOUS
  <2> HIDE DEF S
  <2>4. Open' = Open \cup S /\ S \in SUBSET (Resources \ Open)
    BY <2>1, <2>2, <2>3, Zenon DEF Open
  <2>5. Holds' = Holds
    BY <1>4, Zenon DEF RequeueNowCheckable, Holds, held
  <2>6. Queue!Reopen
    BY <2>4, <2>5, Zenon DEF Queue!Reopen, Open, Holds
  <2>7. QED
    BY <2>6, Zenon DEF Queue!Next
<1>5. CASE UNCHANGED vars
  BY <1>5, Zenon DEF vars, Open, Holds, held
<1>6. QED
  BY <1>2, <1>3, <1>4, <1>5, Zenon DEF Next

\* Where only the scheduler's workers check and their lease outlasts a batch,
\* the verification queue keeps the promise of TaskQueue whatever crashes and
\* aborts happen: a resource is taken when nobody has it, and only the verdict
\* of its holder ends its checks.
THEOREM VerifyKeepsPromise ==
    ASSUME Lease > Limit, Manual = {}, Pipelines = {}
    PROVE  Spec => ImplementsTaskQueue
<1>1. Init => Queue!Init
  <2> SUFFICES ASSUME Init PROVE Queue!Init
    OBVIOUS
  <2>1. \A r \in Resources : res[r].due # Never
    <3>1. \A r \in Resources : res[r].due = 0
      BY Zenon DEF Init
    <3>2. QED
      BY <3>1 DEF Never
  <2>2. \A w \in Workers : held(w) = {}
    BY Zenon DEF Init, held, Nothing
  <2>3. QED
    BY <2>1, <2>2, Zenon DEF Queue!Init, Open, Holds
<1>2. Spec => []PromiseInv
  BY PromiseInit, PromiseNext, WorkersLeased, PTL DEF Spec
<1>3. QED
  BY <1>1, <1>2, QueueStep, WorkersLeased, PTL DEF Spec, Queue!Spec, ImplementsTaskQueue
=============================================================================
