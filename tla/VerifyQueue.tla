---------------------------- MODULE VerifyQueue ----------------------------
(***************************************************************************)
(* The verification queue: the rows of resource, claimed under a lease by  *)
(* the scheduler's workers and by the manual re-check (worker/claim.py,    *)
(* worker/tasks.py), probed without a lease by the command-line pipeline   *)
(* (services/verify/concurrent_runner.py), and the verdict written by      *)
(* services/verify/runner.py together with the valid_resource_count of the *)
(* works that carry the link (services/counters.py).                       *)
(*                                                                         *)
(* One work carries every resource of an instance.  Time is that of        *)
(* ParseQueue: a tick bounds the time a worker spends on one write_batch   *)
(* of resources; 0 stands for an instant that has passed.  Here NULL and   *)
(* the past differ, so a due time may also be Never.                       *)
(***************************************************************************)
EXTENDS Backoff, FiniteSets, Sequences

CONSTANTS
    Resources,     \* the rows of resource, all of checkable providers
    Workers,       \* worker processes, the manual ones among them
    Manual,        \* workers that run run_verify_once, which claims by force
    Pipelines,     \* processes that run the command-line pipeline
    Lease,         \* lease length, in ticks
    Limit,         \* resources claimed at a time (worker_verify_batch)
    WriteBatch,    \* resources committed at a time (worker_write_batch)
    ValidTTL,      \* _RECHECK_TTL of VALID and of INVALID, in ticks
    InvalidTTL,
    AttemptsCap,   \* bound: check_attempts is counted no further than this
    Outcomes,      \* the verdicts the probes of this instance give
    Faults         \* what may go wrong in this instance, see FaultKinds

FaultKinds == {"crash", "abort"}
Verdicts   == {"VALID", "INVALID", "NEED_PASSWORD", "RATE_LIMITED", "ERROR", "UNSUPPORTED"}

INVALID_CONFIRM_TIMES == 2

ASSUME VerifyQueueAssumption ==
    /\ IsFiniteSet(Resources)
    /\ Manual \subseteq Workers
    /\ Lease \in Nat \ {0} /\ Limit \in Nat \ {0} /\ WriteBatch \in Nat \ {0}
    /\ ValidTTL \in Nat \ {0} /\ InvalidTTL \in Nat \ {0}
    /\ AttemptsCap \in Nat /\ AttemptsCap >= INVALID_CONFIRM_TIMES
    /\ Outcomes \subseteq Verdicts

VARIABLES
    res,         \* the committed row of each resource
    checks,      \* the last two rows of link_check of each resource, oldest first
    validCount,  \* valid_resource_count of the work
    seen,        \* seen[w]: candidate rows as w's claim query read them
    task,        \* task[w]: of each resource w holds, the status before the
                 \*   claim (Claimed.priors) and check_attempts as loaded
    ticked,      \* ticked[w]: the clock moved since w began its current chunk
    flying       \* flying[p]: resources fetched by pipeline p, not yet written

vars == <<res, checks, validCount, seen, task, ticked, flying>>

CheckStatus == Verdicts \cup {"UNCHECKED", "CHECKING"}

Never   == -1
Instant == {Never} \cup 0..MaxBackoff \cup 0..ValidTTL \cup 0..InvalidTTL

Row == [status : CheckStatus, attempts : 0..AttemptsCap, lease : 0..Lease, due : Instant]

Candidate == [status : CheckStatus, attempts : 0..AttemptsCap]
Task      == [prior : CheckStatus, attempts : 0..AttemptsCap]

Nothing == [r \in {} |-> 0]

held(w) == DOMAIN task[w]

TypeOK ==
    /\ res \in [Resources -> Row]
    /\ checks \in [Resources -> {<<>>} \cup [1..1 -> Verdicts] \cup [1..2 -> Verdicts]]
    /\ validCount \in 0..Cardinality(Resources)
    /\ DOMAIN seen = Workers /\ DOMAIN task = Workers
    /\ \A w \in Workers :
         /\ DOMAIN seen[w] \subseteq Resources /\ held(w) \subseteq Resources
         /\ \A r \in DOMAIN seen[w] : seen[w][r] \in Candidate
         /\ \A r \in held(w) : task[w][r] \in Task
    /\ ticked \in [Workers -> BOOLEAN]
    /\ flying \in [Pipelines -> SUBSET Resources]

\* _upsert_resource: a new row is due at once.
Init ==
    /\ res = [r \in Resources |->
                [status |-> "UNCHECKED", attempts |-> 0, lease |-> 0, due |-> 0]]
    /\ checks = [r \in Resources |-> <<>>]
    /\ validCount = 0
    /\ seen = [w \in Workers |-> Nothing]
    /\ task = [w \in Workers |-> Nothing]
    /\ ticked = [w \in Workers |-> FALSE]
    /\ flying = [p \in Pipelines |-> {}]

capped(n) == IF n > AttemptsCap THEN AttemptsCap ELSE n

-----------------------------------------------------------------------------
(* Claiming: worker/claim.py                                               *)

\* Mutant: a resource whose check was cut short is not due.
DueUnlessChecking(r) ==
    \/ res[r].due = 0 /\ res[r].status # "CHECKING"
    \/ res[r].due = Never /\ res[r].status = "UNCHECKED"

\* _due_conditions of the pipeline and the same disjunction in claim_resources.
Due(r) == \/ res[r].due = 0
          \/ res[r].due = Never /\ res[r].status = "UNCHECKED"

\* Mutants: a claim that does not look at leases, one that claims by force.
ClaimableLeased(w, r) == Due(r)
ClaimableAnyTime(w, r) == res[r].lease = 0

\* A forced claim asks for no due time.
Claimable(w, r) == res[r].lease = 0 /\ (w \in Manual \/ Due(r))

\* decide(): a reclaimed resource counts one attempt and is put off, so that a
\* crash does not become a hot loop; there is no terminal state.
Decide(row, c) ==
    IF c.status = "CHECKING"
    THEN [row EXCEPT !.status = "CHECKING", !.lease = Lease,
                     !.attempts = capped(c.attempts + 1),
                     !.due = backoff(c.attempts + 1)]
    ELSE [row EXCEPT !.status = "CHECKING", !.lease = Lease]

ReadCandidates(w) ==
    /\ DOMAIN seen[w] = {} /\ held(w) = {}
    /\ \E r \in Resources : Claimable(w, r)
    /\ seen' = [seen EXCEPT ![w] =
                  [r \in {s \in Resources : Claimable(w, s)} |->
                     [status |-> res[r].status, attempts |-> res[r].attempts]]]
    /\ UNCHANGED <<res, checks, validCount, task, ticked, flying>>

\* Decided on the values the SELECT read, guarded on the current ones; one
\* transaction for all rows.  The loaded row is the one this UPDATE leaves.
ClaimRows(w) ==
    /\ DOMAIN seen[w] # {}
    /\ LET open == {r \in DOMAIN seen[w] : Claimable(w, r)} IN
       \E took \in SUBSET open :
         /\ Cardinality(took) <= Limit
         /\ took # open => Cardinality(took) = Limit
         /\ res' = [r \in Resources |->
                      IF r \in took THEN Decide(res[r], seen[w][r]) ELSE res[r]]
         /\ task' = [task EXCEPT ![w] =
                       [r \in took |-> [prior    |-> seen[w][r].status,
                                        attempts |-> Decide(res[r], seen[w][r]).attempts]]]
    /\ seen' = [seen EXCEPT ![w] = Nothing]
    /\ UNCHANGED <<checks, validCount, ticked, flying>>

-----------------------------------------------------------------------------
(* Writing a verdict: services/verify/runner.py                            *)

\* Mutant: the count goes on when the verdict changes.
AttemptsOfAll(baseline, attempts, outcome) ==
    IF baseline = "CHECKING" THEN attempts ELSE capped(attempts + 1)

\* check_attempts counts equal verdicts in a row.  After a crash the verdict
\* before the claim is unknown and the count is left as the reclaim made it.
Attempts(baseline, attempts, outcome) ==
    IF baseline = "CHECKING" THEN attempts
    ELSE IF outcome = baseline THEN capped(attempts + 1)
    ELSE 1

next_check_at(outcome, attempts) ==
    CASE outcome = "INVALID" ->
           IF attempts >= INVALID_CONFIRM_TIMES THEN Never ELSE InvalidTTL
      [] outcome \in {"RATE_LIMITED", "ERROR"} -> backoff(attempts)
      [] outcome = "VALID" -> ValidTTL
      [] OTHER -> Never

\* What the session writes: a column whose value it did not change is left out
\* of the UPDATE, so an unchanged count keeps what the row holds by now.
persist_check_outcome(row, baseline, attempts, outcome) ==
    LET n == Attempts(baseline, attempts, outcome)
    IN  [row EXCEPT !.status = outcome,
                    !.attempts = IF n = attempts THEN @ ELSE n,
                    !.due = next_check_at(outcome, n)]

\* The link_check rows of the resources in C, each with its outcome.
Logged(C, outcome) ==
    [r \in Resources |->
       IF r \notin C THEN checks[r]
       ELSE IF checks[r] = <<>> THEN <<outcome[r]>>
       ELSE <<checks[r][Len(checks[r])], outcome[r]>>]

\* Mutant: only a resource that becomes VALID asks for a recount.
RecountedOnGain(C, baseline, outcome) ==
    IF \A r \in C : outcome[r] # "VALID" \/ baseline[r] = "VALID" THEN UNCHANGED validCount
    ELSE validCount' = Cardinality({r \in Resources : res'[r].status = "VALID"})

\* refresh_for_resource runs for each resource that enters or leaves VALID as
\* compared with its baseline; it counts what is VALID in the database at that
\* moment, where the resources of C still to come are as they were.  The last
\* refresh stands; `late' are the resources of C that came after it.
Recounted(C, baseline, outcome) ==
    LET changes(r) == (outcome[r] = "VALID") # (baseline[r] = "VALID")
    IN  IF \A r \in C : ~changes(r) THEN UNCHANGED validCount
        ELSE \E late \in SUBSET {r \in C : ~changes(r)} :
               validCount' = Cardinality({r \in Resources :
                 IF r \in late THEN res[r].status = "VALID" ELSE res'[r].status = "VALID"})

Chunk(w, C) == C \subseteq held(w) /\ C # {} /\ Cardinality(C) <= WriteBatch

Release(w, C) ==
    /\ task' = [task EXCEPT ![w] = [r \in held(w) \ C |-> task[w][r]]]
    /\ ticked' = [ticked EXCEPT ![w] = FALSE]
    /\ UNCHANGED <<seen, flying>>

\* check_resource and _mark_done of each resource of a chunk, then the commit.
CommitChunk(w, C) ==
    /\ Chunk(w, C)
    /\ \E outcome \in [C -> Outcomes] :
         /\ res' = [r \in Resources |->
                      IF r \in C
                      THEN [persist_check_outcome(res[r], task[w][r].prior,
                                                  task[w][r].attempts, outcome[r])
                              EXCEPT !.lease = 0]
                      ELSE res[r]]
         /\ checks' = Logged(C, outcome)
         /\ Recounted(C, [r \in C |-> task[w][r].prior], outcome)
    /\ Release(w, C)

\* An exception: _abort rolls back what the chunk has not committed yet and
\* leaves the leases to expire.  As in ParseQueue the ORM may take the rest of
\* the batch along.
AbortChunk(w, C) ==
    /\ "abort" \in Faults
    /\ Chunk(w, C)
    /\ Release(w, C) \/ Release(w, held(w))
    /\ UNCHANGED <<res, checks, validCount>>

FinishChunk(w) == \E C \in SUBSET held(w) : CommitChunk(w, C) \/ AbortChunk(w, C)

Crash(w) ==
    /\ "crash" \in Faults
    /\ held(w) # {}
    /\ Release(w, held(w))
    /\ UNCHANGED <<res, checks, validCount>>

-----------------------------------------------------------------------------
(* The pipeline: services/verify/concurrent_runner.py.  It reads due rows   *)
(* page by page, probes them in threads and writes batches of verdicts; it  *)
(* neither takes nor looks at leases.                                       *)

Fetch(p) ==
    \E page \in SUBSET {r \in Resources \ flying[p] : Due(r)} :
      /\ page # {}
      /\ flying' = [flying EXCEPT ![p] = @ \cup page]
      /\ UNCHANGED <<res, checks, validCount, seen, task, ticked>>

\* _flush_once loads the rows afresh: the baseline is whatever status they
\* have by then, the placeholder of a claim included.
Flush(p) ==
    \E C \in SUBSET flying[p] :
      /\ C # {} /\ Cardinality(C) <= WriteBatch
      /\ \E outcome \in [C -> Outcomes] :
           /\ res' = [r \in Resources |->
                        IF r \in C
                        THEN persist_check_outcome(res[r], res[r].status,
                                                   res[r].attempts, outcome[r])
                        ELSE res[r]]
           /\ checks' = Logged(C, outcome)
           /\ Recounted(C, [r \in C |-> res[r].status], outcome)
      /\ flying' = [flying EXCEPT ![p] = @ \ C]
      /\ UNCHANGED <<seen, task, ticked>>

-----------------------------------------------------------------------------
(* The environment                                                         *)

past(t) == IF t > 0 THEN t - 1 ELSE t

Tick ==
    /\ \A w \in Workers : DOMAIN seen[w] = {} /\ ~ticked[w]
    /\ res' = [r \in Resources |-> [res[r] EXCEPT !.lease = past(@), !.due = past(@)]]
    /\ ticked' = [w \in Workers |-> held(w) # {}]
    /\ UNCHANGED <<checks, validCount, seen, task, flying>>

\* maintenance.py: a probe was added, all unsupported resources are queued.
RequeueNowCheckable ==
    /\ \E r \in Resources : res[r].status = "UNSUPPORTED"
    /\ res' = [r \in Resources |-> IF res[r].status = "UNSUPPORTED"
                                   THEN [res[r] EXCEPT !.status = "UNCHECKED", !.due = 0]
                                   ELSE res[r]]
    /\ UNCHANGED <<checks, validCount, seen, task, ticked, flying>>

Worker(w)   == ReadCandidates(w) \/ ClaimRows(w) \/ FinishChunk(w)
Pipeline(p) == Fetch(p) \/ Flush(p)

Next ==
    \/ \E w \in Workers : Worker(w) \/ Crash(w)
    \/ \E p \in Pipelines : Pipeline(p)
    \/ Tick
    \/ RequeueNowCheckable

Spec == Init /\ [][Next]_vars

\* Queue workers run on, and time passes however often somebody is claiming
\* while the clock is looked at.  A worker that gets to check a
\* resource again and again finishes one of the checks in the end: there is no
\* retry limit here, so nothing else ends a series of crashes.
Fairness ==
    /\ \A w \in Workers \ Manual : WF_vars(Worker(w))
    /\ \A w \in Manual : WF_vars(ClaimRows(w) \/ FinishChunk(w))
    /\ \A w \in Workers, r \in Resources :
         SF_vars(\E C \in SUBSET held(w) : r \in C /\ CommitChunk(w, C))
    /\ SF_vars(Tick)

FairSpec == Spec /\ Fairness

-----------------------------------------------------------------------------
(* Properties                                                              *)

probing(x) == IF x \in Workers THEN held(x) ELSE flying[x]

\* No resource is being checked twice at the same time: the leases among
\* workers, and DESIGN.md's single flight among all that probe.
SingleFlight ==
    \A x, y \in Workers \cup Pipelines : x # y => probing(x) \cap probing(y) = {}

Concluded(r) == res[r].status \in Verdicts
Confirmed(r) == checks[r] = <<"INVALID", "INVALID">>

\* DESIGN.md 6.4: an invalid link is given up on when two checks in a row found
\* it invalid, no sooner and no later.  check_attempts is reset, kept and
\* counted up in several places so that this comes out; link_check says what
\* was really probed.
RetiredIffConfirmed ==
    \A r \in Resources :
      res[r].status = "INVALID" => (res[r].due = Never <=> Confirmed(r))

\* A claim whose worker is gone comes back: its placeholder status never stands
\* without a due time, or no claim would find it again.
NotForgotten ==
    \A r \in Resources :
      (res[r].status = "CHECKING" /\ \A w \in Workers : r \notin held(w))
        => res[r].due # Never

\* The confirmation of an invalid link waits for its re-check date.
RetiresWhenDue ==
    [][\A r \in Resources :
         (res'[r].status = "INVALID" /\ res'[r].due = Never /\ checks'[r] # checks[r])
           => res[r].due <= 0]_vars

\* A work never promises more valid links than checks have left it: a link that
\* was VALID and is found otherwise is taken off the count.
NeverOverstates ==
    validCount <= Cardinality({r \in Resources :
                     checks[r] # <<>> /\ checks[r][Len(checks[r])] = "VALID"})

\* When nothing is being checked, the count is that of the VALID links.
CountExact ==
    (\A r \in Resources : res[r].status # "CHECKING")
      => validCount = Cardinality({r \in Resources : res[r].status = "VALID"})

\* Every resource that waits for a check, or whose check was cut short, gets
\* its verdict.
Concludes == \A r \in Resources : ~Concluded(r) ~> Concluded(r)
=============================================================================
