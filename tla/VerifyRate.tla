------------------------------ MODULE VerifyRate ------------------------------
(***************************************************************************)
(* The pace of `funflix verify` (services/verify/concurrent_runner.py,     *)
(* runner.py): one producer hands links to probing threads, provider by    *)
(* provider in a strict rotation, each no sooner than its interval after   *)
(* the last one of that provider.  The threads stretch the interval of a   *)
(* provider that answers "too many requests" and shrink it again after     *)
(* answers that settle something, while the producer sleeps.  What becomes *)
(* of the answers is VerifyQueue's.                                        *)
(***************************************************************************)
EXTENDS Integers, FiniteSets, FiniteSetsExt

CONSTANTS
    LastProvider,   \* providers are 1..LastProvider, the order of the rotation
    BaseInterval,   \* BaseInterval[p]: ticks between two requests; 0: not limited
    MaxStretch,     \* _MAX_INTERVAL_FACTOR
    Backlog,        \* Backlog[p]: the links that are due
    PageLinks,      \* batch_size
    VerifyLimit,    \* --limit
    TimeBudget,     \* --max-seconds, in ticks
    QueueCap, ProbeThreads

Providers == 1..LastProvider

ASSUME VerifyRateAssumption ==
    /\ {LastProvider, MaxStretch, PageLinks, QueueCap, ProbeThreads} \subseteq Nat \ {0}
    /\ {VerifyLimit, TimeBudget} \subseteq Nat
    /\ BaseInterval \in [Providers -> Nat] /\ Backlog \in [Providers -> Nat]

VARIABLES
    age,        \* age[p]: ticks since the last token of p, up to MaxAge
    stretch,    \* stretch[p]: the factor on the interval
    supply,     \* supply[p]: links in the buffer and beyond its cursor
    producer,
    queued, probing,   \* links of p in the queue, and in the hands of threads
    budget,     \* ticks to the deadline
    served      \* served[p]: providers that had a token since the last one of p

rate == <<age, stretch, supply, producer, queued, probing, budget, served>>

MaxAge == 1 + MaxStretch * Max({BaseInterval[p] : p \in Providers})

RateTypeOK ==
    /\ age \in [Providers -> 0..MaxAge] /\ stretch \in [Providers -> 1..MaxStretch]
    /\ queued \in [Providers -> 0..QueueCap] /\ probing \in [Providers -> 0..ProbeThreads]
    /\ producer.stage \in {"call", "turn", "sleep", "take", "put", "ended"}
    /\ {producer.turn, producer.item} \subseteq Providers /\ producer.left \in 0..VerifyLimit
    /\ producer.nap \in 0..MaxAge /\ budget \in 0..TimeBudget

RateInit ==
    /\ age = [p \in Providers |-> MaxAge]
    /\ stretch = [p \in Providers |-> 1]
    /\ supply = [p \in Providers |-> [buffer |-> 0, rest |-> Backlog[p], exhausted |-> FALSE]]
    /\ producer = [stage |-> "call", turn |-> 1, looked |-> 0, nap |-> 0, left |-> VerifyLimit, item |-> 1]
    /\ queued = [p \in Providers |-> 0] /\ probing = [p \in Providers |-> 0]
    /\ budget = TimeBudget
    /\ served = [p \in Providers |-> Providers]

SumOf(count) == MapThenSumSet(LAMBDA p : count[p], Providers)

\* _interval_table and interval_for.
IntervalFor(p) == BaseInterval[p] * stretch[p]

\* Mutant: stretched beyond the highest factor.
ScaledUncapped(p, step) ==
    IF BaseInterval[p] = 0 THEN stretch ELSE [stretch EXCEPT ![p] = Max({1, @ + step})]

\* _scale: up to the highest factor, down to 1, and not for an unlimited one.
Scaled(p, step) ==
    IF BaseInterval[p] = 0 THEN stretch
    ELSE [stretch EXCEPT ![p] = Min({MaxStretch, Max({1, @ + step})})]

\* Mutant: the time waited is taken for enough.
TokenReadyAwake(p) == TRUE

TokenReady(p) == age[p] >= IntervalFor(p)

Current == producer.turn
Advanced == (producer.turn % LastProvider) + 1

BeginCall ==
    /\ producer.stage = "call"
    /\ producer' = [producer EXCEPT !.looked = 0,
                      !.stage = IF budget = 0 \/ producer.left = 0 THEN "ended" ELSE "turn"]
    /\ UNCHANGED <<age, stretch, supply, queued, probing, budget, served>>

Turn(p) == producer.stage = "turn" /\ p = Current /\ producer.looked < LastProvider

\* _fetch_page
FetchLinks(p) ==
    /\ Turn(p) /\ supply[p].buffer = 0 /\ ~supply[p].exhausted
    /\ LET n == Min({PageLinks, supply[p].rest})
       IN supply' = [supply EXCEPT ![p] = [buffer |-> n, rest |-> @.rest - n, exhausted |-> n = 0]]
    /\ UNCHANGED <<age, stretch, producer, queued, probing, budget, served>>

\* A provider without links gives up its turn; after a round of them all is done.
Pass(p) ==
    /\ Turn(p) /\ supply[p].buffer = 0 /\ supply[p].exhausted
    /\ producer' = [producer EXCEPT !.turn = Advanced, !.looked = @ + 1,
                      !.stage = IF producer.looked + 1 = LastProvider THEN "ended" ELSE @]
    /\ UNCHANGED <<age, stretch, supply, queued, probing, budget, served>>

\* wait_time: the turn stays where it is, and it ends when the wait is too long.
LookAtWait(p) ==
    /\ Turn(p) /\ supply[p].buffer > 0
    /\ LET wait == IntervalFor(p) - age[p] IN
       producer' = IF wait <= 0 THEN [producer EXCEPT !.stage = "take"]
                   ELSE IF wait >= budget THEN [producer EXCEPT !.stage = "ended"]
                   ELSE [producer EXCEPT !.stage = "sleep", !.nap = wait]
    /\ UNCHANGED <<age, stretch, supply, queued, probing, budget, served>>

Awake ==
    /\ producer.stage = "sleep" /\ producer.nap = 0
    /\ producer' = [producer EXCEPT !.stage = "take"]
    /\ UNCHANGED <<age, stretch, supply, queued, probing, budget, served>>

\* try_acquire
TakeToken(p) ==
    /\ producer.stage = "take" /\ p = Current /\ TokenReady(p)
    /\ age' = IF BaseInterval[p] = 0 THEN age ELSE [age EXCEPT ![p] = 0]
    /\ supply' = [supply EXCEPT ![p].buffer = @ - 1]
    /\ producer' = [producer EXCEPT !.stage = "put", !.item = p, !.turn = Advanced,
                                   !.left = @ - 1]
    /\ served' = [q \in Providers |-> IF q = p THEN {} ELSE served[q] \cup {p}]
    /\ UNCHANGED <<stretch, queued, probing, budget>>

\* SKIP: the interval was stretched meanwhile.
TokenRefused(p) ==
    /\ producer.stage = "take" /\ p = Current /\ ~TokenReady(p)
    /\ producer' = [producer EXCEPT !.stage = "call"]
    /\ UNCHANGED <<age, stretch, supply, queued, probing, budget, served>>

\* The link goes into the queue, when there is room.
PutLink(p) ==
    /\ producer.stage = "put" /\ p = producer.item /\ SumOf(queued) < QueueCap
    /\ queued' = [queued EXCEPT ![p] = @ + 1]
    /\ producer' = [producer EXCEPT !.stage = "call"]
    /\ UNCHANGED <<age, stretch, supply, probing, budget, served>>

Probe(p) ==
    /\ queued[p] > 0 /\ SumOf(probing) < ProbeThreads
    /\ queued' = [queued EXCEPT ![p] = @ - 1] /\ probing' = [probing EXCEPT ![p] = @ + 1]
    /\ UNCHANGED <<age, stretch, supply, producer, budget, served>>

\* _feed_back: too many requests, something settled, or an error, which has no
\* vote.  One settled answer shrinks a little, some of them a whole step.
Answer(p) ==
    /\ probing[p] > 0
    /\ probing' = [probing EXCEPT ![p] = @ - 1]
    /\ \E step \in {1, -1, 0} : stretch' = Scaled(p, step)
    /\ UNCHANGED <<age, supply, producer, queued, budget, served>>

RateTick ==
    /\ age' = [p \in Providers |-> Min({MaxAge, age[p] + 1})]
    /\ budget' = Max({0, budget - 1})
    /\ producer' = [producer EXCEPT !.nap = Max({0, @ - 1})]
    /\ UNCHANGED <<stretch, supply, queued, probing, served>>

RateNext ==
    \/ BeginCall \/ Awake \/ RateTick
    \/ \E p \in Providers :
         \/ FetchLinks(p) \/ Pass(p) \/ LookAtWait(p)
         \/ TakeToken(p) \/ TokenRefused(p) \/ PutLink(p)
         \/ Probe(p) \/ Answer(p)

RateSpec == RateInit /\ [][RateNext]_rate

-----------------------------------------------------------------------------
\* However the answers change an interval while the producer sleeps or waits for
\* room in the queue, a token is taken after the interval then in force, and
\* since the last one of that provider every other one that still has links in
\* its buffer had one: no fast provider is asked time after time while a slow
\* one cools down (concurrent_runner.py:208-270, runner.py:109-179).
Paced ==
    [][\A p \in Providers :
         supply'[p].buffer < supply[p].buffer =>
           /\ age[p] >= IntervalFor(p)
           /\ \A q \in Providers \ {p} : supply[q].buffer > 0 => q \in served[p]]_rate
=============================================================================
