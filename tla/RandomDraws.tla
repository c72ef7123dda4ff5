---------------------------- MODULE RandomDraws ------------------------------
(***************************************************************************)
(* below_u64 and below_big of src/src/random.rs: a number below a bound    *)
(* from a stream of random words, by rejection.  The generator itself is   *)
(* not modelled: every sequence of words may come.  A word has w bits (32) *)
(* and below_u64 takes bounds of at most two words (64 bits).              *)
(***************************************************************************)
EXTENDS Integers, FiniteSets, Functions

power[n \in Nat] == IF n = 0 THEN 1 ELSE 2 * power[n - 1]
TwoTo(n) == power[n]

Words(w) == 0..(TwoTo(w) - 1)

\* The bits of a number: 64 - leading_zeros, or BigUint::bits.
Bits(n) == CHOOSE b \in 0..n : TwoTo(b) > n /\ (b > 0 => TwoTo(b - 1) <= n)

\* How many words one candidate takes.
Taken(w, upper) == (Bits(upper) + w - 1) \div w
Streams(w, upper) == [1..Taken(w, upper) -> Words(w)]

\* next_u32() >> n
Shift(word, n) == word \div TwoTo(n)

\* (Fault: the second word is shifted by the bits it keeps.)
CandidateHigh(w, upper, words) ==
  LET bits == Bits(upper)
  IN  IF bits <= w THEN Shift(words[1], w - bits)
      ELSE words[1] + TwoTo(w) * Shift(words[2], bits - w)

\* below_u64: the high bits of a word, or a low word and the high bits of a second.
Candidate(w, upper, words) ==
  LET bits == Bits(upper)
  IN  IF bits <= w THEN Shift(words[1], w - bits)
      ELSE words[1] + TwoTo(w) * Shift(words[2], 2 * w - bits)

\* below_big: full words, the least significant first, and the high bits of the last.
CandidateBig(w, upper, words) ==
  LET left(k) == Bits(upper) - w * (k - 1)
      digit(k) == Shift(words[k], w - (IF left(k) < w THEN left(k) ELSE w))
  IN  SumFunction([k \in 1..Taken(w, upper) |-> TwoTo(w * (k - 1)) * digit(k)])

-----------------------------------------------------------------------------

\* Every number below the bound is drawn, all from equally many candidates.
Unbiased(w, upper) ==
  LET From(v) == {words \in Streams(w, upper) : CandidateBig(w, upper, words) = v}
  IN  \A v \in 0..(upper - 1) : From(v) # {} /\ Cardinality(From(v)) = Cardinality(From(0))

\* Both functions draw the same numbers from the same words.
SameDraws(w, upper) ==
  Bits(upper) <= 2 * w =>
    \A words \in Streams(w, upper) : Candidate(w, upper, words) = CandidateBig(w, upper, words)
=============================================================================
