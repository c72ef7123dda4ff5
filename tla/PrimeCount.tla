----------------------------- MODULE PrimeCount ------------------------------
(***************************************************************************)
(* prime_count of src/src/tasks.rs: the primes in lo..hi-1, counted with a *)
(* table of small primes and a sieve of one segment at a time.  A step is  *)
(* a segment.  The bounds of the task are integers of any size; those of   *)
(* the sieve are words of at most Word.  The base table may not be allocated; a  *)
(* segment always is, as its allocation cannot fail without an abort.      *)
(***************************************************************************)
EXTENDS Integers, FiniteSets, FiniteSetsExt

CONSTANTS Word,      \* u64::MAX
          Segment    \* 1_000_000

ASSUME PrimeAssumption == Word \in Nat /\ Segment \in Nat \ {0}

VARIABLES range,   \* the parameters lo and hi
          start,   \* where the next segment starts
          count    \* total, or why there is none

Failed == -1    \* the range does not fit into words
NoTable == -2   \* the base table could not be allocated

PrimeError == count \in {Failed, NoTable}

primeVars == <<range, start, count>>

CeilDiv(a, b) == (a + b - 1) \div b
Isqrt(n) == CHOOSE r \in 0..n : r * r <= n /\ (r + 1) * (r + 1) > n

\* The multiples of p in from..below-1, from being one of them: step_by(p).
Multiples(from, below, p) == {x \in from..(below - 1) : (x - from) % p = 0}

\* The primes up to limit: every p not yet crossed out crosses out its multiples.
Base(limit) ==
  LET kept[p \in Nat] ==
        IF p < 2 THEN 2..limit
        ELSE kept[p - 1] \ (IF p \in kept[p - 1] THEN Multiples(p * p, limit + 1, p) ELSE {})
  IN  kept[Isqrt(limit)]

\* (Fault: the first multiple is found in one word.)
FirstWord(from, p) == Max({CeilDiv(from, p) * p, p * p}) % (Word + 1)

\* The first multiple of p to cross out: in u128, so it may lie beyond a word.
First(from, p) == Max({CeilDiv(from, p) * p, p * p})

Primes(from, below, limit) ==
  (from..(below - 1)) \ UNION {Multiples(First(from, p), below, p) : p \in Base(limit)}

Smallest(a, b) == IF a <= b THEN a ELSE b

\* start.saturating_add(1_000_000).min(hi)
Stop(from, hi) == Smallest(Smallest(from + Segment, Word), hi)

PrimeInit(lo, hi) ==
  /\ range = [lo |-> lo, hi |-> hi]
  /\ start = Max({lo, 2})
  /\ count \in IF hi <= start THEN {0}
              ELSE IF start > Word \/ hi > Word THEN {Failed}
              ELSE {0, NoTable}

CountSegment ==
  /\ ~PrimeError
  /\ start < range.hi
  /\ start' = Stop(start, range.hi)
  /\ count' = count + Cardinality(Primes(start, start', Isqrt(range.hi - 1)))
  /\ UNCHANGED range

PrimeDone == PrimeError \/ start >= range.hi

-----------------------------------------------------------------------------

IsPrime(n) == n > 1 /\ \A d \in 2..(n - 1) : n % d # 0
PrimesIn(lo, hi) == {n \in lo..(hi - 1) : IsPrime(n)}

\* At every segment the total is the number of primes before it: no prime is
\* crossed out, no multiple left over and none counted twice where segments meet,
\* where p * p lies beyond a segment, and at the largest word.  The count fails
\* only for a range that has elements: because it does not fit into words, or
\* because memory is short.
PrimesCounted ==
  /\ count = Failed => range.hi > Word /\ range.hi > range.lo
  /\ count = NoTable => range.hi <= Word /\ range.hi > range.lo
  /\ ~PrimeError => count = Cardinality(PrimesIn(range.lo, Smallest(start, range.hi)))
  /\ ~PrimeError /\ PrimeDone => count = Cardinality(PrimesIn(range.lo, range.hi))
=============================================================================
