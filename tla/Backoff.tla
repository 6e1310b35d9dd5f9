------------------------------ MODULE Backoff ------------------------------
(* The failure back-off curve shared by the three pipelines                 *)
(* (src/funflix/base/backoff.py), in units of BASE_BACKOFF = 60 s.          *)
EXTENDS Integers

CONSTANTS
    MaxBackoff,    \* MAX_BACKOFF in units of BASE_BACKOFF (360 in the code)
    MaxExponent    \* _MAX_EXPONENT (20 in the code)

ASSUME BackoffAssumption == MaxBackoff \in Nat \ {0} /\ MaxExponent \in Nat

\* Mutant: the curve without its cap.
uncapped(n) == IF n <= 0 THEN 1 ELSE 2 ^ n

\* min(BASE * 2 ** min(n, _MAX_EXPONENT), MAX); a first or negative count still
\* waits one base interval.  2 ^ e is at least 1, so an e for which it is
\* outside 1..MaxBackoff is one for which it is above the cap.
backoff(n) ==
    LET doubled == 2 ^ (IF n < MaxExponent THEN n ELSE MaxExponent)
    IN  IF n <= 0 THEN 1
        ELSE IF doubled \in 1..MaxBackoff THEN doubled ELSE MaxBackoff
=============================================================================
