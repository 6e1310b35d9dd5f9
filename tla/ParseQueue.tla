----------------------------- MODULE ParseQueue -----------------------------
(***************************************************************************)
(* The parse queue: the rows of raw_document are the queue, a status       *)
(* column and a lease are the ticket, and any number of worker processes   *)
(* claim, parse and commit them (worker/claim.py, worker/tasks.py,         *)
(* services/extract/runner.py, services/repair/requeue.py).                *)
(*                                                                         *)
(* Time.  One tick is an upper bound on the time a worker spends on one    *)
(* write_batch chunk: the clock moves at most once while a chunk is being  *)
(* worked on, and never inside a claim transaction.  Instants are stored   *)
(* as the number of ticks left; 0 stands for NULL and for the past, which  *)
(* no query on raw_document tells apart.                                   *)
(***************************************************************************)
EXTENDS Backoff, FiniteSets

CONSTANTS
    Docs,                 \* the rows of raw_document
    Workers,              \* the worker processes
    MAX_PARSE_ATTEMPTS,
    Lease,                \* lease length, in ticks
    Limit,                \* documents claimed at a time (worker_parse_batch)
    WriteBatch,           \* documents committed at a time (worker_write_batch)
    MaxVersion,           \* bound on the rule versions ever deployed
    Faults,               \* what may go wrong in this instance, see FaultKinds
    Poison                \* documents whose extract() always raises

FaultKinds == {"crash", "abort", "conflict", "failure"}

ASSUME ParseQueueAssumption ==
    /\ MAX_PARSE_ATTEMPTS \in Nat \ {0}
    /\ Lease \in Nat \ {0}
    /\ Limit \in Nat \ {0}
    /\ WriteBatch \in Nat \ {0}
    /\ MaxVersion \in Nat \ {0}
    /\ IsFiniteSet(Docs)
    /\ Poison \subseteq Docs

VARIABLES
    doc,      \* the committed row of each document
    version,  \* PARSE_RULES_VERSION of the deployed code
    seen,     \* seen[w]: candidate rows as w's claim query read them
    base,     \* base[w]: parse_attempts of the rows w holds, as loaded
    ticked    \* ticked[w]: the clock moved since w began its current chunk

vars == <<doc, version, seen, base, ticked>>

ParseStatus == {"PENDING", "RUNNING", "DONE", "FAILED", "SKIPPED"}
Terminal    == {"DONE", "FAILED", "SKIPPED"}

Row == [status   : ParseStatus,
        attempts : 0..MAX_PARSE_ATTEMPTS,
        lease    : 0..Lease,
        due      : 0..MaxBackoff,
        ver      : 0..MaxVersion]     \* parse_rules_version, 0 is NULL

\* The columns the claim query selects besides the key.
Candidate == [status : {"PENDING", "RUNNING"}, attempts : 0..MAX_PARSE_ATTEMPTS - 1]

Nothing == [d \in {} |-> 0]

held(w) == DOMAIN base[w]
Idle(w) == DOMAIN seen[w] = {} /\ held(w) = {}

TypeOK ==
    /\ doc \in [Docs -> Row]
    /\ version \in 1..MaxVersion
    /\ DOMAIN seen = Workers
    /\ \A w \in Workers : DOMAIN seen[w] \subseteq Docs
                          /\ \A d \in DOMAIN seen[w] : seen[w][d] \in Candidate
    /\ DOMAIN base = Workers
    /\ \A w \in Workers : held(w) \subseteq Docs
                          /\ \A d \in held(w) : base[w][d] \in 0..MAX_PARSE_ATTEMPTS - 1
    /\ ticked \in [Workers -> BOOLEAN]

Init ==
    /\ doc = [d \in Docs |-> [status |-> "PENDING", attempts |-> 0,
                              lease |-> 0, due |-> 0, ver |-> 0]]
    /\ version = 1
    /\ seen = [w \in Workers |-> Nothing]
    /\ base = [w \in Workers |-> Nothing]
    /\ ticked = [w \in Workers |-> FALSE]

-----------------------------------------------------------------------------
(* Claiming: worker/claim.py                                               *)

\* Mutant: a claim that does not look at leases.
ClaimableLeased(d) == doc[d].status \in {"PENDING", "RUNNING"} /\ doc[d].due = 0

\* Mutant: a claim that takes new documents only and never reclaims.
ClaimableNew(d) == doc[d].status = "PENDING" /\ doc[d].lease = 0 /\ doc[d].due = 0

\* The conditions shared by the candidate query and the guarded UPDATE.
Claimable(d) ==
    /\ doc[d].status \in {"PENDING", "RUNNING"}
    /\ doc[d].lease = 0
    /\ doc[d].due = 0

\* decide(): a RUNNING candidate is one a former claim left behind.
IsReclaim(c) == c.status = "RUNNING"

\* Mutant: the reclaim that uses the last attempt up goes ahead.
IsTerminalLate(c) == IsReclaim(c) /\ c.attempts >= MAX_PARSE_ATTEMPTS

IsTerminal(c) == IsReclaim(c) /\ c.attempts + 1 >= MAX_PARSE_ATTEMPTS

Decide(row, c) ==
    IF IsTerminal(c)
    THEN [row EXCEPT !.status = "FAILED", !.attempts = c.attempts + 1,
                     !.lease = 0, !.due = 0]
    ELSE [row EXCEPT !.status = "RUNNING", !.lease = Lease,
                     !.attempts = IF IsReclaim(c) THEN c.attempts + 1 ELSE c.attempts]

\* The candidate SELECT; the overfetch takes in every row of the instance.
ReadCandidates(w) ==
    /\ Idle(w)
    /\ \E d \in Docs : Claimable(d)
    /\ seen' = [seen EXCEPT ![w] =
                  [d \in {e \in Docs : Claimable(e)} |->
                     [status |-> doc[d].status, attempts |-> doc[d].attempts]]]
    /\ UNCHANGED <<doc, version, base, ticked>>

\* The guarded UPDATE of each candidate in turn and the one commit after them.
\* A row is decided on the values the SELECT read and guarded on its current
\* ones; row locks last until the commit, so other workers see one step.  The
\* loop stops once Limit rows are claimed; abandoned rows do not count.
ClaimRows(w) ==
    /\ DOMAIN seen[w] # {}
    /\ LET open == {d \in DOMAIN seen[w] : Claimable(d)} IN
       \E hit \in SUBSET open :
         LET took == {d \in hit : ~IsTerminal(seen[w][d])} IN
         /\ Cardinality(took) <= Limit
         /\ hit # open => Cardinality(took) = Limit
         /\ doc' = [d \in Docs |-> IF d \in hit THEN Decide(doc[d], seen[w][d]) ELSE doc[d]]
         /\ base' = [base EXCEPT ![w] =
                       [d \in took |-> Decide(doc[d], seen[w][d]).attempts]]
    /\ seen' = [seen EXCEPT ![w] = Nothing]
    /\ UNCHANGED <<version, ticked>>

-----------------------------------------------------------------------------
(* Parsing a chunk: _parse_one_batch, parse_batch, _persist_chunk          *)

\* What _persist_chunk can make of a chunk that fits one SAVEPOINT: all parsed
\* (a catalogue post is skipped), all rolled back by a unique-key conflict, or
\* one document to blame and the others rolled back along with it.
Results(C) ==
    [C -> {"DONE", "SKIPPED"}]
    \cup (IF "conflict" \in Faults THEN {[d \in C |-> "conflict"]} ELSE {})
    \cup (IF "failure" \in Faults
          THEN {[d \in C |-> IF d = f THEN "failure" ELSE "collateral"] : f \in C}
          ELSE {})

\* The columns a session writes back: UPDATE sets what the session changed, so
\* parse_attempts is the loaded value plus one and a rolled-back document only
\* loses its lease, to _mark_done.
WriteBack(row, attempts, result) ==
    CASE result \in {"DONE", "SKIPPED"} ->
           [row EXCEPT !.status = result, !.lease = 0, !.due = 0, !.ver = version]
      [] result = "failure" ->
           IF attempts + 1 >= MAX_PARSE_ATTEMPTS
           THEN [row EXCEPT !.status = "FAILED", !.attempts = attempts + 1,
                            !.lease = 0, !.due = 0]
           ELSE [row EXCEPT !.status = "PENDING", !.attempts = attempts + 1,
                            !.lease = 0, !.due = backoff(attempts + 1)]
      [] OTHER -> [row EXCEPT !.lease = 0]

\* The chunk w turns to next: documents of one extractor, WriteBatch at most.
Chunk(w, C) == C \subseteq held(w) /\ C # {} /\ Cardinality(C) <= WriteBatch

Release(w, C) ==
    /\ base' = [base EXCEPT ![w] = [d \in held(w) \ C |-> base[w][d]]]
    /\ ticked' = [ticked EXCEPT ![w] = FALSE]
    /\ UNCHANGED <<version, seen>>

CommitChunk(w, C) ==
    /\ Chunk(w, C)
    /\ C \cap Poison = {}
    /\ \E result \in Results(C) :
         doc' = [d \in Docs |-> IF d \in C THEN WriteBack(doc[d], base[w][d], result[d])
                                ELSE doc[d]]
    /\ Release(w, C)

\* An exception that leaves parse_batch, extract() raising among them: _abort
\* rolls the chunk back and leaves the leases to expire.  The rollback expires
\* every row the session holds; whether the loop survives reading the next one
\* is the ORM's business, so the rest of the batch may be dropped along with it.
AbortChunk(w, C) ==
    /\ Chunk(w, C)
    /\ "abort" \in Faults \/ C \cap Poison # {}
    /\ Release(w, C) \/ Release(w, held(w))
    /\ UNCHANGED doc

FinishChunk(w) == \E C \in SUBSET held(w) : CommitChunk(w, C) \/ AbortChunk(w, C)

\* The process dies: what it had not committed is gone, the leases stay.  A
\* death inside the claim transaction leaves the rows as if it never read them.
Crash(w) ==
    /\ "crash" \in Faults
    /\ held(w) # {}
    /\ Release(w, held(w))
    /\ UNCHANGED doc

-----------------------------------------------------------------------------
(* The environment: time, deployments, repair requeue                      *)

Tick ==
    /\ \A w \in Workers : DOMAIN seen[w] = {} /\ ~ticked[w]
    /\ doc' = [d \in Docs |->
                 [doc[d] EXCEPT !.lease = IF @ > 0 THEN @ - 1 ELSE 0,
                                !.due   = IF @ > 0 THEN @ - 1 ELSE 0]]
    /\ ticked' = [w \in Workers |-> held(w) # {}]
    /\ UNCHANGED <<version, seen, base>>

Deploy ==
    /\ version < MaxVersion
    /\ version' = version + 1
    /\ UNCHANGED <<doc, seen, base, ticked>>

\* requeue_stale_documents: any number of the parsed rows stamped by other rules.
Requeue ==
    \E S \in SUBSET {d \in Docs : doc[d].status = "DONE" /\ doc[d].ver # version} :
      /\ S # {}
      /\ doc' = [d \in Docs |->
                   IF d \in S
                   THEN [doc[d] EXCEPT !.status = "PENDING", !.attempts = 0,
                                       !.lease = 0, !.due = 0]
                   ELSE doc[d]]
      /\ UNCHANGED <<version, seen, base, ticked>>

Worker(w) == ReadCandidates(w) \/ ClaimRows(w) \/ FinishChunk(w)

Next ==
    \/ \E w \in Workers : Worker(w) \/ Crash(w)
    \/ Tick
    \/ Deploy
    \/ Requeue

Spec == Init /\ [][Next]_vars

\* A worker that is not killed runs its loop on, and time passes.  Crashes,
\* deployments and requeues are never forced.
Fairness ==
    /\ \A w \in Workers : WF_vars(Worker(w))
    /\ WF_vars(Tick)

FairSpec == Spec /\ Fairness

-----------------------------------------------------------------------------
(* Properties                                                              *)

\* Two live workers never hold the same document: this is what the guarded
\* UPDATE and the lease are for, and one parse costs an LLM call.
NoDoubleParse ==
    \A v, w \in Workers : v # w => held(v) \cap held(w) = {}

\* A held document is still RUNNING under a lease that will last until its
\* holder has worked through every chunk it may still have before it.
LeaseCovers ==
    \A w \in Workers : \A d \in held(w) :
      /\ doc[d].status = "RUNNING"
      /\ doc[d].attempts = base[w][d]
      /\ doc[d].lease + (IF ticked[w] THEN 1 ELSE 0) > Cardinality(held(w))

\* The retry limit: a document still in the queue has attempts left, and one
\* given up on has used all of them, however claims, reclaims, late commits
\* and requeues interleave.
RetryLimit ==
    \A d \in Docs :
      /\ doc[d].status \in {"PENDING", "RUNNING"} => doc[d].attempts < MAX_PARSE_ATTEMPTS
      /\ doc[d].status = "FAILED" => doc[d].attempts = MAX_PARSE_ATTEMPTS

\* A document that reached a terminal state leaves it only because its rules
\* are outdated: no late commit of a worker reopens or overwrites it.
StaysTerminal(d) ==
    doc[d].status \in Terminal =>
      \/ doc'[d] = doc[d]
      \/ /\ doc[d].status = "DONE" /\ doc[d].ver # version
         /\ doc'[d].status = "PENDING" /\ doc'[d].attempts = 0

TerminalStable == [][\A d \in Docs : StaysTerminal(d)]_vars

\* The queue keeps the promise of TaskQueue: a document is a task, open until
\* it reaches a terminal state.
Queue == INSTANCE TaskQueue WITH
           Tasks <- Docs,
           open  <- {d \in Docs : doc[d].status \notin Terminal},
           holds <- [w \in Workers |-> held(w)]

ImplementsTaskQueue == Queue!Spec

\* Every document in the queue is eventually parsed, skipped or given up on,
\* whatever crashes, conflicts and failures meet it on the way.
Settles ==
    \A d \in Docs : doc[d].status \notin Terminal ~> doc[d].status \in Terminal

\* runner.py and tests: a write conflict is not the document's fault and does
\* not count as an attempt.  Read in an instance where nothing else goes wrong.
ConflictsCostNothing ==
    Faults \subseteq {"conflict"} /\ Poison = {} => \A d \in Docs : doc[d].attempts = 0

\* tasks.py: an exception of one document's extraction advances that
\* document's own state machine.  Read in an instance where nothing else goes
\* wrong: a document that extracts well is never given up on.
HealthyNeverFails ==
    Faults = {} => \A d \in Docs \ Poison : doc[d].status # "FAILED"
=============================================================================
