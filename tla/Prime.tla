-------------------------------- MODULE Prime --------------------------------
(***************************************************************************)
(* The search for a prime size, prime.c, and the path on which             *)
(* bdd_setcacheratio comes to it.  The rounds of the Miller-Rabin test     *)
(* take a random witness each, so that what a search returns is any of     *)
(* several numbers: one step is one round, for any witness.                *)
(***************************************************************************)
EXTENDS Integers, FiniteSets

CONSTANTS
  CHECKTIMES,   \* rounds of the test (20 in the code)
  Requests,     \* bound: arguments bdd_prime_gte and bdd_prime_lte are called with
  NodeSizes,    \* bound: values of bddnodesize when bdd_setcacheratio is called
  Ratios        \* bound: arguments of bdd_setcacheratio

ASSUME PrimeAssumption ==
  /\ CHECKTIMES \in Nat \ {0}
  /\ Requests \subseteq Nat /\ NodeSizes \subseteq Nat /\ Ratios \subseteq Nat \ {0}

VARIABLES
  phase,    \* "idle", "up" (bdd_prime_gte runs), "down" (bdd_prime_lte), "trapped"
  request,  \* the argument it was called with
  src,      \* the candidate
  rounds    \* how many rounds the candidate has passed

vars == <<phase, request, src, rounds>>

\* Mutant: a prime is its own factor.
hasAnyFactor(s, n) == s % n = 0

hasFactor(s, n) == s # n /\ s % n = 0
hasEasyFactors(s) == \E n \in {3, 5, 7, 11, 13} : hasFactor(s, n)

numberOfBits(s) == CHOOSE b \in 0..s : 2^b > s /\ (b = 0 \/ 2^(b - 1) <= s)
BitIsSet(s, b) == (s \div 2^b) % 2 = 1

\* isWitness: the power witness^(s-1) modulo s, from the bits of s-1 above i
\* and i itself.  A square that is one, of a number that is neither 1 nor
\* s-1, gives s away at once; it is the value 0 here, which stays 0.
isWitness(witness, s) ==
  LET bitNum == numberOfBits(s - 1) - 1
      Power[i \in Nat] ==
        LET d == IF i = bitNum THEN 1 ELSE Power[i + 1]
            square == (d * d) % s
        IN  IF square = 1 /\ d \notin {1, s - 1} THEN 0
            ELSE IF BitIsSet(s - 1, i) THEN (square * witness) % s
            ELSE square
  IN  Power[0] # 1

----------------------------------------------------------------------------
Init == phase = "idle" /\ request = 0 /\ src = 0 /\ rounds = 0

\* bdd_prime_gte and bdd_prime_lte make the argument odd, upward or downward.
Search(direction, n) ==
  /\ phase' = direction
  /\ request' = n
  /\ src' = IF n % 2 = 1 THEN n ELSE IF direction = "up" THEN n + 1 ELSE n - 1
  /\ rounds' = 0

PrimeGte(n) == phase = "idle" /\ Search("up", n)
PrimeLte(n) == phase = "idle" /\ Search("down", n)

\* bdd_setcacheratio resizes the caches to nodesize / r, with BddCache_resize.
SetCacheRatio(nodesize, r) == phase = "idle" /\ Search("up", nodesize \div r)

\* The next candidate.
Reject ==
  /\ src' = IF phase = "up" THEN src + 2 ELSE src - 2
  /\ rounds' = 0
  /\ UNCHANGED <<phase, request>>

Searching == phase \in {"up", "down"} /\ rounds < CHECKTIMES

RejectEasy == Searching /\ rounds = 0 /\ hasEasyFactors(src) /\ Reject

\* Random(src-1) is rand() modulo src-1, plus one.
Trap ==
  /\ Searching /\ ~hasEasyFactors(src)
  /\ src = 1
  /\ phase' = "trapped"
  /\ UNCHANGED <<request, src, rounds>>

Round(witness) ==
  /\ Searching /\ ~hasEasyFactors(src)
  /\ witness \in 1..(src - 1)
  /\ IF isWitness(witness, src) THEN Reject
     ELSE rounds' = rounds + 1 /\ UNCHANGED <<phase, request, src>>

\* All rounds passed: src is returned.
Return ==
  /\ phase \in {"up", "down"} /\ rounds = CHECKTIMES
  /\ phase' = "idle"
  /\ UNCHANGED <<request, src, rounds>>

Next ==
  \/ \E n \in Requests : PrimeGte(n)
  \/ \E n \in Requests : PrimeLte(n)
  \/ \E size \in NodeSizes : \E r \in Ratios : SetCacheRatio(size, r)
  \/ RejectEasy
  \/ Trap
  \/ \E witness \in 1..(src - 1) : Round(witness)
  \/ Return

Spec == Init /\ [][Next]_vars

----------------------------------------------------------------------------
\* Properties.

IsPrime(n) == n > 1 /\ \A d \in {k \in 2..n : k * k <= n} : n % d # 0

\* A prime passes every round, so a search never goes past one: up, it
\* returns at most the least odd prime from the argument on, down, at least
\* the largest odd prime up to the argument.
NeverPastPrime ==
  /\ phase = "up" => \A n \in request..(src - 1) : n > 2 => ~IsPrime(n)
  /\ phase = "down" => \A n \in (src + 1)..request : n > 2 => ~IsPrime(n)

\* A composite candidate passes a round with at most a quarter of the
\* witnesses there are: with 20 rounds, one time in 4^20.
FewLiars ==
  phase \in {"up", "down"} /\ src > 1 /\ ~IsPrime(src) /\ ~hasEasyFactors(src) =>
    4 * Cardinality({w \in 1..(src - 1) : ~isWitness(w, src)}) <= src - 1

=============================================================================
