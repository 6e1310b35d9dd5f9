----------------------------- MODULE TaskQueue -----------------------------
(***************************************************************************)
(* What a queue of leased tasks promises, whatever keeps the promise: an   *)
(* open task is with at most one worker, a closed one with none, and only  *)
(* the worker that has a task closes it.  A worker may also put a task     *)
(* down unfinished, and a task nobody has may be given up on or, once      *)
(* closed, reopened.                                                       *)
(***************************************************************************)
EXTENDS TLAPS

CONSTANTS Tasks, Workers

VARIABLES
    open,    \* the tasks that wait for work or are being worked on
    holds    \* holds[w]: the tasks worker w has

qvars == <<open, holds>>

Free == {t \in open : \A w \in Workers : t \notin holds[w]}

Init == open = Tasks /\ holds = [w \in Workers |-> {}]

\* w takes S and gives up on A, none of which anybody has.
Take(w) ==
    /\ holds[w] = {}
    /\ \E S, A \in SUBSET Free :
         /\ S \cap A = {}
         /\ holds' = [holds EXCEPT ![w] = S]
         /\ open' = open \ A

\* w puts down S, of which it has finished D.
PutDown(w) ==
    \E S \in SUBSET holds[w] : \E D \in SUBSET S :
      /\ holds' = [holds EXCEPT ![w] = @ \ S]
      /\ open' = open \ D

Reopen ==
    /\ \E S \in SUBSET (Tasks \ open) : open' = open \cup S
    /\ UNCHANGED holds

Next == (\E w \in Workers : Take(w) \/ PutDown(w)) \/ Reopen

Spec == Init /\ [][Next]_qvars

\* The promise: a task is with one worker at most, and it is open.
Exclusive ==
    \A w \in Workers :
      /\ holds[w] \subseteq open
      /\ \A v \in Workers : v # w => holds[v] \cap holds[w] = {}

\* The promise is kept by every queue that behaves like this one.
THEOREM ExclusiveHolds == Spec => []Exclusive
<1> DEFINE Inv == DOMAIN holds = Workers /\ Exclusive
<1>1. Init => Inv
  BY DEF Init, Exclusive
<1>2. ASSUME Inv, [Next]_qvars PROVE Inv'
  <2>1. ASSUME NEW w \in Workers, Take(w) PROVE Inv'
    <3>1. PICK S \in SUBSET Free, A \in SUBSET Free :
            /\ S \cap A = {}
            /\ holds' = [holds EXCEPT ![w] = S]
            /\ open' = open \ A
      BY <2>1 DEF Take
    <3>2. /\ S \subseteq open /\ \A v \in Workers : (S \cup A) \cap holds[v] = {}
          /\ S \cap A = {}
      BY <3>1 DEF Free
    <3>3. holds'[w] = S /\ \A v \in Workers : v # w => holds'[v] = holds[v]
      BY <1>2, <3>1
    <3>4. QED
      BY <1>2, <3>1, <3>2, <3>3, Zenon DEF Exclusive
  <2>2. ASSUME NEW w \in Workers, PutDown(w) PROVE Inv'
    <3>1. PICK S, D : /\ S \in SUBSET holds[w] /\ D \in SUBSET S
                      /\ holds' = [holds EXCEPT ![w] = holds[w] \ S]
                      /\ open' = open \ D
      BY <2>2 DEF PutDown
    <3>2. S \subseteq holds[w] /\ D \subseteq S
      BY <3>1
    <3>3. holds'[w] = holds[w] \ S /\ \A v \in Workers : v # w => holds'[v] = holds[v]
      BY <1>2, <3>1
    <3>4. QED
      BY <1>2, <3>1, <3>2, <3>3, Zenon DEF Exclusive
  <2>3. CASE Reopen
    BY <1>2, <2>3, Zenon DEF Exclusive, Reopen
  <2>4. CASE UNCHANGED qvars
    BY <1>2, <2>4, Zenon DEF Exclusive, qvars
  <2>5. QED
    BY <1>2, <2>1, <2>2, <2>3, <2>4, Zenon DEF Next
<1>3. QED
  BY <1>1, <1>2, PTL DEF Spec
=============================================================================
