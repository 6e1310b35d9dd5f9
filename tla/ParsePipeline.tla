----------------------------- MODULE ParsePipeline -----------------------------
(***************************************************************************)
(* `funflix parse` (services/extract/concurrent_runner.py): processes that *)
(* share the pending documents by the last digit of their ids.  In each a  *)
(* producer pages through its share in the order (last_parsed_at, id),     *)
(* threads extract, one consumer stores batches; both queues are bounded.  *)
(* No document is leased.  What a batch writes is Persist's; here it only  *)
(* settles documents or leaves them pending.                               *)
(***************************************************************************)
EXTENDS Integers, FiniteSets

CONSTANTS
    MaxDoc,       \* documents are 1..MaxDoc, the order of their ids
    Shards,       \* the number of processes, N of `--shard i/N`
    PageDocs,     \* batch_size
    WriteBatch,
    InCap, OutCap, Threads,
    Limits,       \* the values of --limit a run may be given
    FirstPapers,  \* the rows at first
    LastTime,     \* bound on the clock
    MaxTrouble    \* bound: exceptions while storing, crashes, requeues

ASSUME ParsePipelineAssumption ==
    /\ {MaxDoc, Shards, PageDocs, WriteBatch, InCap, OutCap, Threads} \subseteq Nat \ {0}
    /\ Limits \subseteq Nat /\ LastTime \in Nat \ {0} /\ MaxTrouble \in Nat

Papers == 1..MaxDoc
Shard == 0..Shards - 1

VARIABLES
    paper,    \* paper[d]: the row of d; ts 0 stands for NULL
    clock,
    visit,    \* visit[i]: the run of process i, its cursor, what is left of its limit,
              \* and the documents due when it began that it has not handed out
    where,    \* where[i][d]: where in process i document d is
    trouble

parse == <<paper, clock, visit, where, trouble>>

Place == {"none", "buffer", "in", "hand", "out", "batch"}

PaperRow == [state : {"pending", "done", "failed"}, ts : 0..LastTime, due : 0..LastTime + 1]

ASSUME FirstPapersAssumption == FirstPapers \subseteq [Papers -> PaperRow]

NoVisit == [stage |-> "off", last |-> <<0, 0>>, left |-> 0, dry |-> FALSE, owed |-> {}]

PipeTypeOK ==
    /\ paper \in [Papers -> PaperRow]
    /\ clock \in 1..LastTime
    /\ \A i \in Shard : visit[i].stage \in {"off", "running", "draining", "stopping"}
    /\ where \in [Shard -> [Papers -> Place]]
    /\ trouble \in 0..MaxTrouble

PipeInit ==
    /\ paper \in FirstPapers
    /\ clock = 1
    /\ visit = [i \in Shard |-> NoVisit]
    /\ where = [i \in Shard |-> [d \in Papers |-> "none"]]
    /\ trouble = 0

At(i, places) == {d \in Papers : where[i][d] \in places}
InFlight(i) == At(i, Place \ {"none"})
Put(i, D, place) == where' = [where EXCEPT ![i] = [d \in Papers |-> IF d \in D THEN place ELSE @[d]]]

Trouble == trouble < MaxTrouble /\ trouble' = trouble + 1

\* shard_condition and shard_digits: by the last hexadecimal digit.
Own(i, d) == (d % 16) % Shards = i

\* _pending_conditions
Due(i) == {d \in Papers : Own(i, d) /\ paper[d].state = "pending" /\ paper[d].due <= clock}

\* Mutant: the cursor looks at the id alone.
BeyondId(d, last) == d > last[2]

\* keyset_after: later in the order (last_parsed_at NULLS FIRST, id).
Beyond(d, last) == paper[d].ts > last[1] \/ (paper[d].ts = last[1] /\ d > last[2])

\* ORDER BY last_parsed_at NULLS FIRST, id
Rank(D, d) ==
    Cardinality({e \in D : paper[e].ts < paper[d].ts \/ (paper[e].ts = paper[d].ts /\ e <= d)})

\* The next page of the producer.
PageOf(i) ==
    LET rest == {d \in Due(i) : Beyond(d, visit[i].last)}
        n    == IF visit[i].left < PageDocs THEN visit[i].left ELSE PageDocs
    IN {d \in rest : Rank(rest, d) <= n}

Begin(i) ==
    /\ visit[i].stage = "off"
    /\ \E limit \in Limits :
         visit' = [visit EXCEPT ![i] = [NoVisit EXCEPT !.stage = "running", !.left = limit, !.owed = Due(i)]]
    /\ UNCHANGED <<paper, clock, where, trouble>>

Fetching(i) == visit[i].stage = "running" /\ At(i, {"buffer"}) = {} /\ ~visit[i].dry /\ visit[i].left > 0

FetchPage(i) ==
    /\ Fetching(i)
    /\ LET page == PageOf(i)
           end  == CHOOSE d \in page : Rank(page, d) = Cardinality(page)
       IN IF page = {} THEN visit' = [visit EXCEPT ![i].dry = TRUE] /\ UNCHANGED where
          ELSE /\ visit' = [visit EXCEPT ![i].last = <<paper[end].ts, end>>,
                                         ![i].left = @ - Cardinality(page),
                                         ![i].owed = @ \ page]
               /\ Put(i, page, "buffer")
    /\ UNCHANGED <<paper, clock, trouble>>

\* produce: blocks while the queue is full.
Produce(i) ==
    /\ visit[i].stage = "running"
    /\ Cardinality(At(i, {"in"})) < InCap
    /\ \E d \in At(i, {"buffer"}) : Put(i, {d}, "in")
    /\ UNCHANGED <<paper, clock, visit, trouble>>

\* StopIteration: nothing is left, or the time is up and the buffer is dropped.
ProducerEnds(i) ==
    /\ visit[i].stage = "running"
    /\ visit' = [visit EXCEPT ![i].stage = "draining"]
    /\ Put(i, At(i, {"buffer"}), "none")
    /\ UNCHANGED <<paper, clock, trouble>>

Process(i) ==
    /\ Cardinality(At(i, {"hand"})) < Threads
    /\ \E d \in At(i, {"in"}) : Put(i, {d}, "hand")
    /\ UNCHANGED <<paper, clock, visit, trouble>>

\* An exception of the extractor travels on as data, see StoreBatch.
Extract(i) ==
    /\ Cardinality(At(i, {"out"})) < OutCap
    /\ \E d \in At(i, {"hand"}) : Put(i, {d}, "out")
    /\ UNCHANGED <<paper, clock, visit, trouble>>

Gather(i) ==
    /\ Cardinality(At(i, {"batch"})) < WriteBatch
    /\ \E d \in At(i, {"out"}) : Put(i, {d}, "batch")
    /\ UNCHANGED <<paper, clock, visit, trouble>>

\* _flush_batch, when the batch is full or old enough: documents whose
\* extraction raised are charged and come back later or never, the others are
\* done, or collide and stay as they are.
StoreBatch(i) ==
    LET batch == At(i, {"batch"}) IN
    /\ batch # {}
    /\ \E raised \in SUBSET batch : \E stored \in {batch \ raised, {}}, again \in BOOLEAN :
         paper' = [d \in Papers |->
           CASE d \in stored          -> [state |-> "done", ts |-> clock, due |-> 0]
             [] d \in raised /\ again  -> [state |-> "pending", ts |-> clock, due |-> clock + 1]
             [] d \in raised /\ ~again -> [state |-> "failed", ts |-> clock, due |-> 0]
             [] OTHER -> paper[d]]
    /\ Put(i, batch, "none")
    /\ UNCHANGED <<clock, visit, trouble>>

\* An exception reaches the consumer: rolled back, and the batch is gone.
StoreRaises(i) ==
    /\ At(i, {"batch"}) # {} /\ Trouble
    /\ Put(i, At(i, {"batch"}), "none")
    /\ UNCHANGED <<paper, clock, visit>>

\* _pipeline_pending: both queues are empty; documents in hand or in the batch
\* are waited for by pipeline.stop().
Stop(i) ==
    /\ visit[i].stage = "draining" /\ At(i, {"in", "out"}) = {}
    /\ visit' = [visit EXCEPT ![i].stage = "stopping"]
    /\ UNCHANGED <<paper, clock, where, trouble>>

End(i) ==
    /\ visit[i].stage = "stopping" /\ InFlight(i) = {}
    /\ visit' = [visit EXCEPT ![i] = NoVisit]
    /\ UNCHANGED <<paper, clock, where, trouble>>

PipeCrash(i) ==
    /\ visit[i].stage # "off" /\ Trouble
    /\ visit' = [visit EXCEPT ![i] = NoVisit]
    /\ Put(i, Papers, "none")
    /\ UNCHANGED <<paper, clock>>

\* `repair requeue` keeps last_parsed_at.
RequeueDone(d) ==
    /\ paper[d].state = "done" /\ Trouble
    /\ paper' = [paper EXCEPT ![d].state = "pending"]
    /\ UNCHANGED <<clock, visit, where>>

PipeTick ==
    /\ clock < LastTime
    /\ clock' = clock + 1
    /\ UNCHANGED <<paper, visit, where, trouble>>

PipeStep(i) ==
    \/ FetchPage(i) \/ Produce(i) \/ ProducerEnds(i)
    \/ Process(i) \/ Extract(i) \/ Gather(i) \/ StoreBatch(i) \/ Stop(i) \/ End(i)

PipeNext ==
    \/ \E i \in Shard : PipeStep(i) \/ Begin(i) \/ StoreRaises(i) \/ PipeCrash(i)
    \/ \E d \in Papers : RequeueDone(d)
    \/ PipeTick

PipeSpec == PipeInit /\ [][PipeNext]_parse

-----------------------------------------------------------------------------
\* Every document is handed out, and once: a producer that has run dry has handed
\* out every document of its share that was due when the run began, although its
\* own consumer, and the clock, moved documents in the order it pages through;
\* and no page holds a document that is on its way through this process or
\* another one (runner.py:230-244, concurrent_runner.py:114-145, 273-328).
EachOnce ==
    /\ \A i \in Shard : visit[i].dry => visit[i].owed = {}
    /\ \A i, j \in Shard : Fetching(i) => PageOf(i) \cap InFlight(j) = {}
=============================================================================
