----------------------------- MODULE RunTaskProofs ----------------------------
(***************************************************************************)
(* The results of run_task, for every size of the parameters, of a word    *)
(* and of a segment.                                                       *)
(***************************************************************************)
EXTENDS RunTask, SumTheorems

-----------------------------------------------------------------------------
(* Powers of two.                                                          *)

LEMMA PowerIs ==
  /\ power \in [Nat -> Nat]
  /\ power[0] = 1
  /\ \A n \in Nat : power[n + 1] = 2 * power[n]
<1> DEFINE Is(f) == f = [n \in Nat |-> IF n = 0 THEN 1 ELSE 2 * f[n - 1]]
           F == [x \in Nat \X Nat |-> 2 * x[2]]
<1>1. F \in [Nat \X Nat -> Nat] /\ \A n, v \in Nat : F[<<n, v>>] = 2 * v
  OBVIOUS
<1> HIDE DEF F
<1>2. PICK f : Recursive(f, Nat, 1, F)
  BY <1>1, RecursionOnNat
<1>3. f \in [Nat -> Nat] /\ f[0] = 1 /\ \A n \in Nat : f[n + 1] = 2 * f[n]
  BY <1>1, <1>2 DEF Recursive
<1>4. Is(f)
  <2>1. ASSUME NEW n \in Nat, n # 0 PROVE f[n] = 2 * f[n - 1]
    <3>1. n - 1 \in Nat /\ (n - 1) + 1 = n
      BY <2>1
    <3> QED BY <1>3, <3>1
  <2>2. \A n \in Nat : f[n] = IF n = 0 THEN 1 ELSE 2 * f[n - 1]
    BY <1>3, <2>1
  <2>3. f = [n \in Nat |-> f[n]]
    BY <1>3
  <2> QED BY <2>2, <2>3
<1>5. Is(power)
  <2>1. power = CHOOSE h : Is(h)
    BY DEF power
  <2> HIDE DEF Is
  <2> QED BY <1>4, <2>1
<1> DEFINE N == {n \in Nat : power[n] \in Nat}
<1>6. \A n \in Nat : power[n] = IF n = 0 THEN 1 ELSE 2 * power[n - 1]
  BY <1>5
<1>7. \A n \in Nat : power[n + 1] = 2 * power[n]
  <2> TAKE n \in Nat
  <2>1. n + 1 \in Nat /\ n + 1 # 0 /\ (n + 1) - 1 = n
    OBVIOUS
  <2> QED BY <1>6, <2>1
<1>8. N = Nat
  <2>1. 0 \in N
    BY <1>6
  <2>2. \A n \in N : n + 1 \in N
    BY <1>7
  <2> HIDE DEF N
  <2> QED BY <2>1, <2>2, SetInduction DEF N
<1>9. \A n \in Nat : power[n] \in Nat
  BY <1>8
<1>10. power = [n \in Nat |-> power[n]]
  BY <1>5
<1> HIDE DEF N, Is
<1> QED BY <1>6, <1>7, <1>9, <1>10

LEMMA TwoToIs ==
  /\ TwoTo(0) = 1
  /\ \A n \in Nat : TwoTo(n) \in Nat \ {0} /\ TwoTo(n + 1) = 2 * TwoTo(n)
<1> DEFINE N == {n \in Nat : TwoTo(n) \in Nat \ {0}}
<1>1. TwoTo(0) = 1 /\ \A n \in Nat : TwoTo(n + 1) = 2 * TwoTo(n)
  BY PowerIs DEF TwoTo
<1>2. 0 \in N /\ \A n \in N : n + 1 \in N
  BY <1>1
<1>3. N = Nat
  <2> HIDE DEF N
  <2> QED BY <1>2, SetInduction DEF N
<1> QED BY <1>1, <1>3

LEMMA TwoToSum ==
  ASSUME NEW a \in Nat, NEW b \in Nat
  PROVE  TwoTo(a + b) = TwoTo(a) * TwoTo(b)
<1> DEFINE N == {n \in Nat : TwoTo(a + n) = TwoTo(a) * TwoTo(n)}
<1>1. 0 \in N
  BY TwoToIs
<1>2. ASSUME NEW n \in N PROVE n + 1 \in N
  <2>1. a + (n + 1) = (a + n) + 1 /\ a + n \in Nat
    OBVIOUS
  <2>2. TwoTo(a + (n + 1)) = 2 * TwoTo(a + n) /\ TwoTo(n + 1) = 2 * TwoTo(n)
    BY <2>1, TwoToIs
  <2>3. TwoTo(a) \in Nat /\ TwoTo(n) \in Nat /\ TwoTo(a + n) = TwoTo(a) * TwoTo(n)
    BY TwoToIs
  <2>4. TwoTo(a) * (2 * TwoTo(n)) = 2 * (TwoTo(a) * TwoTo(n))
    BY <2>3
  <2> QED BY <2>2, <2>3, <2>4
<1>3. N = Nat
  <2> HIDE DEF N
  <2> QED BY <1>1, <1>2, SetInduction DEF N
<1> QED BY <1>3

LEMMA TwoToGrows ==
  ASSUME NEW a \in Nat, NEW b \in Nat
  PROVE  /\ a <= b => TwoTo(a) <= TwoTo(b)
         /\ TwoTo(a) <= TwoTo(b) => a <= b
<1>1. ASSUME NEW c \in Nat, NEW d \in Nat PROVE TwoTo(c) <= TwoTo(c + d)
  <2>1. TwoTo(c + d) = TwoTo(c) * TwoTo(d) /\ TwoTo(c) \in Nat /\ TwoTo(d) \in Nat \ {0}
    BY TwoToSum, TwoToIs
  <2> QED BY <2>1
<1>2. a <= b => TwoTo(a) <= TwoTo(b)
  <2> HAVE a <= b
  <2>1. b - a \in Nat /\ a + (b - a) = b
    OBVIOUS
  <2>2. TwoTo(a) <= TwoTo(a + (b - a))
    BY <1>1, <2>1
  <2> QED BY <2>1, <2>2
<1>3. b < a => TwoTo(b) < TwoTo(a)
  <2> HAVE b < a
  <2>1. (a - 1) - b \in Nat /\ b + ((a - 1) - b) = a - 1 /\ a - 1 \in Nat /\ (a - 1) + 1 = a
    OBVIOUS
  <2>2. TwoTo(b) <= TwoTo(b + ((a - 1) - b))
    BY <1>1, <2>1
  <2>3. TwoTo(b) <= TwoTo(a - 1)
    BY <2>1, <2>2
  <2>4. TwoTo((a - 1) + 1) = 2 * TwoTo(a - 1) /\ TwoTo(a - 1) \in Nat \ {0} /\ TwoTo(b) \in Nat
    BY <2>1, TwoToIs
  <2>5. TwoTo(a) = 2 * TwoTo(a - 1)
    BY <2>1, <2>4
  <2> QED BY <2>3, <2>4, <2>5
<1>4. TwoTo(a) \in Nat /\ TwoTo(b) \in Nat
  BY TwoToIs
<1> QED BY <1>2, <1>3, <1>4

LEMMA TwoToBeyond ==
  ASSUME NEW n \in Nat
  PROVE  TwoTo(n) > n
<1> DEFINE N == {k \in Nat : TwoTo(k) > k}
<1>1. 0 \in N
  BY TwoToIs
<1>2. \A k \in N : k + 1 \in N
  BY TwoToIs
<1>3. N = Nat
  <2> HIDE DEF N
  <2> QED BY <1>1, <1>2, SetInduction DEF N
<1> QED BY <1>3

LEMMA BitsAre ==
  ASSUME NEW n \in Nat
  PROVE  /\ Bits(n) \in Nat /\ TwoTo(Bits(n)) > n
         /\ Bits(n) > 0 => TwoTo(Bits(n) - 1) <= n
         /\ n > 0 => Bits(n) > 0
<1> DEFINE S == {b \in Nat : TwoTo(b) > n}
           Is(b) == TwoTo(b) > n /\ (b > 0 => TwoTo(b - 1) <= n)
<1>1. n \in S /\ S \in SUBSET Nat
  BY TwoToBeyond
<1>2. PICK b \in S : \A c \in S : b <= c
  <2> HIDE DEF S
  <2> QED BY <1>1, LeastExists
<1>3. b \in 0..n
  BY <1>1, <1>2
<1>4. Is(b)
  <2>1. ASSUME b > 0 PROVE TwoTo(b - 1) <= n
    <3>1. b - 1 \in Nat /\ ~(b <= b - 1)
      BY <2>1
    <3>2. b - 1 \notin S
      BY <1>2, <3>1
    <3>3. TwoTo(b - 1) \in Nat
      BY <3>1, TwoToIs
    <3> QED BY <3>1, <3>2, <3>3
  <2> QED BY <1>2, <2>1
<1>5. Bits(n) = CHOOSE c \in 0..n : Is(c)
  BY DEF Bits
<1>6. Bits(n) \in 0..n /\ Is(Bits(n))
  <2> HIDE DEF Is
  <2> QED BY <1>3, <1>4, <1>5
<1>7. n > 0 => Bits(n) > 0
  BY <1>6, TwoToIs
<1> QED BY <1>6, <1>7

-----------------------------------------------------------------------------
(* Division.                                                               *)

LEMMA DivMod ==
  ASSUME NEW a \in Int, NEW b \in Nat \ {0}
  PROVE  /\ a \div b \in Int /\ a % b \in 0..(b - 1)
         /\ a = b * (a \div b) + (a % b)
         /\ a \in Nat => a \div b \in Nat
<1>1. a \div b \in Int
  OBVIOUS
<1>2. a % b \in 0..(b - 1)
  OBVIOUS
<1>3. a = b * (a \div b) + (a % b)
  OBVIOUS
<1>4. a \in Nat => a \div b \in Nat
  OBVIOUS
<1> QED BY <1>1, <1>2, <1>3, <1>4

LEMMA DivModUnique ==
  ASSUME NEW b \in Nat \ {0}, NEW q \in Int, NEW r \in 0..(b - 1)
  PROVE  (b * q + r) \div b = q /\ (b * q + r) % b = r
<1> DEFINE a == b * q + r
           p == a \div b
           s == a % b
<1>1. a \in Int /\ p \in Int /\ s \in 0..(b - 1) /\ a = b * p + s
  <2>1. a \in Int
    OBVIOUS
  <2> HIDE DEF a
  <2> QED BY <2>1, DivMod
<1>2. b * p + s = b * q + r
  BY <1>1
<1> HIDE DEF p, s
<1>3. ~(p > q)
  <2> SUFFICES ASSUME p > q PROVE FALSE
    OBVIOUS
  <2>1. PICK d \in Nat : p = q + 1 + d
    <3>1. p - q - 1 \in Nat /\ p = q + 1 + (p - q - 1)
      BY <1>1
    <3> QED BY <3>1
  <2>2. b * p = b * q + b + b * d /\ b * d \in Nat
    BY <2>1
  <2> QED BY <1>1, <1>2, <2>2
<1>4. ~(q > p)
  <2> SUFFICES ASSUME q > p PROVE FALSE
    OBVIOUS
  <2>1. PICK d \in Nat : q = p + 1 + d
    <3>1. q - p - 1 \in Nat /\ q = p + 1 + (q - p - 1)
      BY <1>1
    <3> QED BY <3>1
  <2>2. b * q = b * p + b + b * d /\ b * d \in Nat
    BY <1>1, <2>1
  <2> QED BY <1>1, <1>2, <2>2
<1>5. p = q /\ s = r
  <2>1. p = q
    BY <1>1, <1>3, <1>4
  <2>2. b * p = b * q /\ b * q \in Int
    BY <2>1
  <2> QED BY <1>1, <1>2, <2>1, <2>2
<1> QED BY <1>5 DEF p, s

LEMMA ModSmall ==
  ASSUME NEW m \in Nat \ {0}, NEW a \in 0..(m - 1)
  PROVE  a % m = a
<1>1. m * 0 + a = a /\ 0 \in Int
  OBVIOUS
<1>2. (m * 0 + a) % m = a
  BY <1>1, DivModUnique
<1> QED BY <1>1, <1>2

LEMMA ModAdd ==
  ASSUME NEW m \in Nat \ {0}, NEW a \in Int, NEW b \in Int
  PROVE  ((a % m) + b) % m = (a + b) % m
<1> DEFINE q == a \div m
           r == a % m
           p == (r + b) \div m
           s == (r + b) % m
<1>1. q \in Int /\ r \in 0..(m - 1) /\ a = m * q + r
  BY DivMod
<1> HIDE DEF q, r
<1>2. p \in Int /\ s \in 0..(m - 1) /\ r + b = m * p + s
  <2>1. r + b \in Int
    BY <1>1
  <2> QED BY <2>1, DivMod
<1> HIDE DEF p, s
<1>3. a + b = m * (q + p) + s /\ q + p \in Int
  BY <1>1, <1>2
<1>4. (m * (q + p) + s) % m = s
  BY <1>2, <1>3, DivModUnique
<1> QED BY <1>3, <1>4 DEF r, s

LEMMA ModTimes ==
  ASSUME NEW m \in Nat \ {0}, NEW a \in Int, NEW b \in Int
  PROVE  ((a % m) * (b % m)) % m = (a * b) % m
<1> DEFINE q == a \div m
           r == a % m
           p == b \div m
           s == b % m
           u == (r * s) \div m
           v == (r * s) % m
<1>1. q \in Int /\ r \in 0..(m - 1) /\ a = m * q + r
  BY DivMod
<1>2. p \in Int /\ s \in 0..(m - 1) /\ b = m * p + s
  BY DivMod
<1> HIDE DEF q, r, p, s
<1>3. u \in Int /\ v \in 0..(m - 1) /\ r * s = m * u + v
  <2>1. r * s \in Int
    BY <1>1, <1>2
  <2> QED BY <2>1, DivMod
<1> HIDE DEF u, v
<1> DEFINE w == q * b + r * p + u
<1>4. w \in Int /\ a * b = m * w + v
  <2>1. a * b = (m * q) * b + r * b
    BY <1>1
  <2>2. r * b = r * (m * p) + r * s
    BY <1>1, <1>2
  <2>3. (m * q) * b = m * (q * b) /\ r * (m * p) = m * (r * p)
    BY <1>1, <1>2
  <2>4. q * b \in Int /\ r * p \in Int /\ u \in Int
    BY <1>1, <1>2, <1>3
  <2>5. m * w = m * (q * b) + m * (r * p) + m * u
    BY <2>4
  <2> QED BY <1>3, <2>1, <2>2, <2>3, <2>4, <2>5
<1> HIDE DEF w
<1>5. (m * w + v) % m = v
  BY <1>3, <1>4, DivModUnique
<1> QED BY <1>4, <1>5 DEF r, s, v

\* What Reduced makes of a sum on either path.
Kept(native, m, x) == IF native THEN x % m ELSE x

LEMMA KeptIs ==
  ASSUME NEW native \in BOOLEAN, NEW m \in Nat \ {0}, NEW a \in Nat, NEW b \in Nat
  PROVE  /\ Kept(native, m, a) \in Nat
         /\ native => Kept(native, m, a) \in 0..(m - 1)
         /\ Kept(native, m, Kept(native, m, a) + b) = Kept(native, m, a + b)
         /\ Kept(native, m, Kept(native, m, a) * Kept(native, m, b)) = Kept(native, m, a * b)
         /\ Kept(native, m, a + Kept(native, m, b)) = Kept(native, m, a + b)
         /\ Kept(native, m, 0) = 0
<1>1. a % m \in 0..(m - 1) /\ 0 % m = 0 /\ b % m \in 0..(m - 1)
  BY DivMod, ModSmall
<1>2. ((a % m) + b) % m = (a + b) % m /\ ((a % m) * (b % m)) % m = (a * b) % m
  <2>1. a \in Int /\ b \in Int
    OBVIOUS
  <2>2. ((a % m) + b) % m = (a + b) % m
    BY ONLY m \in Nat \ {0}, <2>1, ModAdd
  <2>3. ((a % m) * (b % m)) % m = (a * b) % m
    BY ONLY m \in Nat \ {0}, <2>1, ModTimes
  <2> QED BY <2>2, <2>3
<1>3. (a + (b % m)) % m = (a + b) % m
  <2>1. a \in Int /\ b \in Int
    OBVIOUS
  <2>2. ((b % m) + a) % m = (b + a) % m
    BY ONLY m \in Nat \ {0}, <2>1, ModAdd
  <2>3. (b % m) + a = a + (b % m) /\ b + a = a + b
    BY <1>1
  <2> QED BY <2>2, <2>3
<1>4. CASE native
  BY <1>1, <1>2, <1>3, <1>4 DEF Kept
<1>5. CASE ~native
  BY <1>5 DEF Kept
<1> QED BY <1>4, <1>5

-----------------------------------------------------------------------------
(* Candidates.                                                             *)

LEMMA TakenIs ==
  ASSUME NEW w \in Nat \ {0}, NEW upper \in Nat \ {0}
  PROVE  /\ Taken(w, upper) \in Nat \ {0}
         /\ w * (Taken(w, upper) - 1) < Bits(upper) /\ Bits(upper) <= w * Taken(w, upper)
<1> DEFINE bits == Bits(upper)
           t == Taken(w, upper)
           r == (bits + w - 1) % w
<1>1. bits \in Nat /\ bits > 0
  BY BitsAre
<1> HIDE DEF bits
<1>2. t \in Int /\ r \in 0..(w - 1) /\ bits + w - 1 = w * t + r
  <2>1. bits + w - 1 \in Int /\ t = (bits + w - 1) \div w
    BY <1>1 DEF bits, Taken
  <2> HIDE DEF t
  <2> QED BY <2>1, DivMod
<1> HIDE DEF t, r
<1>3. w * (t - 1) = w * t - w
  BY <1>2
<1>4. w * (t - 1) < bits /\ bits <= w * t
  BY <1>1, <1>2, <1>3
<1>5. t > 0
  <2> SUFFICES ASSUME t <= 0 PROVE FALSE
    BY <1>2
  <2>1. -t \in Nat /\ w * t = -(w * (-t)) /\ w * (-t) \in Nat
    BY <1>2
  <2> QED BY <1>1, <1>4, <2>1
<1> QED BY <1>2, <1>4, <1>5 DEF bits, t

LEMMA ShiftIs ==
  ASSUME NEW word \in Nat, NEW n \in Nat
  PROVE  Shift(word, n) \in Nat
<1>1. TwoTo(n) \in Nat \ {0}
  BY TwoToIs
<1> QED BY <1>1, DivMod DEF Shift

LEMMA StreamsAre ==
  ASSUME NEW w \in Nat \ {0}, NEW upper \in Nat \ {0}, NEW words \in Streams(w, upper)
  PROVE  \A k \in 1..Taken(w, upper) : words[k] \in Nat /\ words[k] \in 0..(TwoTo(w) - 1)
<1>1. TwoTo(w) \in Nat \ {0}
  BY TwoToIs
<1> QED BY <1>1 DEF Streams, Words

LEMMA CandidateIsNat ==
  ASSUME NEW w \in Nat \ {0}, NEW upper \in Nat \ {0}, NEW words \in Streams(w, upper),
         upper <= TwoTo(2 * w) - 1
  PROVE  Candidate(w, upper, words) \in Nat
<1> DEFINE bits == Bits(upper)
           t == Taken(w, upper)
<1>1. bits \in Nat /\ bits > 0 /\ TwoTo(bits) > upper /\ TwoTo(bits - 1) <= upper
  BY BitsAre
<1>2. t \in Nat \ {0} /\ bits <= w * t
  BY TakenIs
<1>3. \A k \in 1..t : words[k] \in Nat
  BY StreamsAre
<1> HIDE DEF t
<1>4. CASE bits <= w
  <2>1. w - bits \in Nat /\ words[1] \in Nat
    BY <1>1, <1>2, <1>3, <1>4
  <2> QED BY <1>4, <2>1, ShiftIs DEF Candidate
<1>5. CASE ~(bits <= w)
  <2>1. bits <= 2 * w
    <3>1. bits - 1 \in Nat /\ 2 * w \in Nat /\ TwoTo(2 * w) \in Nat /\ TwoTo(bits - 1) \in Nat
      BY <1>1, TwoToIs
    <3>2. ~(TwoTo(2 * w) <= TwoTo(bits - 1))
      BY <1>1, <3>1
    <3>3. ~(2 * w <= bits - 1)
      BY <3>1, <3>2, TwoToGrows
    <3> QED BY <1>1, <3>3
  <2>2. t >= 2
    <3>1. t = 1 => w * t = w
      OBVIOUS
    <3> QED BY <1>1, <1>2, <1>5, <3>1
  <2>3. words[1] \in Nat /\ words[2] \in Nat /\ 2 * w - bits \in Nat
    <3>1. 1 \in 1..t /\ 2 \in 1..t
      BY <1>2, <2>2
    <3> QED BY <1>1, <1>3, <2>1, <3>1
  <2>4. Shift(words[2], 2 * w - bits) \in Nat /\ TwoTo(w) \in Nat
    BY <2>3, ShiftIs, TwoToIs
  <2>5. TwoTo(w) * Shift(words[2], 2 * w - bits) \in Nat
    BY <2>4
  <2> QED BY <1>5, <2>3, <2>5 DEF Candidate
<1> QED BY <1>4, <1>5

\* The bits that are used of the word at k, of the bits left from there on.
Used(w, upper, k) == LET left == Bits(upper) - w * (k - 1)
                     IN  IF left < w THEN left ELSE w

\* What the word at k stands for in a candidate of below_big.
Digit(w, upper, words, k) == TwoTo(w * (k - 1)) * Shift(words[k], w - Used(w, upper, k))

LEMMA CandidateBigIs ==
  ASSUME NEW w \in Nat \ {0}, NEW upper \in Nat \ {0}, NEW words \in Streams(w, upper)
  PROVE  /\ \A k \in 1..Taken(w, upper) :
              /\ Used(w, upper, k) \in 1..w /\ w * (k - 1) \in Nat
              /\ Digit(w, upper, words, k) \in Nat
         /\ CandidateBig(w, upper, words)
              = SumOver([k \in 1..Taken(w, upper) |-> Digit(w, upper, words, k)], 1..Taken(w, upper))
         /\ CandidateBig(w, upper, words) \in Nat
<1> DEFINE t == Taken(w, upper)
           f == [k \in 1..t |-> Digit(w, upper, words, k)]
<1>1. t \in Nat \ {0} /\ w * (t - 1) < Bits(upper)
  BY TakenIs
<1>2. ASSUME NEW k \in 1..t
      PROVE  Used(w, upper, k) \in 1..w /\ w * (k - 1) \in Nat /\ Digit(w, upper, words, k) \in Nat
  <2>1. w * (k - 1) \in Nat /\ w * (k - 1) <= w * (t - 1)
    <3>1. k - 1 \in Nat /\ (t - 1) - (k - 1) \in Nat /\ t - 1 \in Nat
      BY <1>1
    <3>2. w * (k - 1) \in Nat /\ w * ((t - 1) - (k - 1)) \in Nat
      BY <3>1
    <3>3. w * ((t - 1) - (k - 1)) = w * (t - 1) - w * (k - 1)
      BY <3>1
    <3>4. w * (t - 1) \in Nat
      BY <3>1
    <3> QED BY <3>2, <3>3, <3>4
  <2>2. Bits(upper) \in Nat /\ w * (t - 1) \in Int
    BY <1>1, BitsAre
  <2>3. Used(w, upper, k) \in 1..w
    BY <1>1, <2>1, <2>2 DEF Used
  <2>4. w - Used(w, upper, k) \in Nat /\ words[k] \in Nat
    BY <2>3, StreamsAre
  <2>5. Shift(words[k], w - Used(w, upper, k)) \in Nat /\ TwoTo(w * (k - 1)) \in Nat
    BY <2>1, <2>4, ShiftIs, TwoToIs
  <2> QED BY <2>1, <2>3, <2>5 DEF Digit
<1>3. CandidateBig(w, upper, words) = SumFunction(f)
  BY DEF CandidateBig, Digit, Used
<1>4. DOMAIN f = 1..t /\ IsFiniteSet(1..t) /\ \A k \in 1..t : f[k] \in Nat
  BY <1>1, <1>2, FS_Interval
<1>5. SumFunction(f) = SumOver(f, 1..t)
  BY <1>4, SumFunctionIs
<1>6. SumOver(f, 1..t) \in Nat
  <2> DEFINE S == 1..t
  <2>1. IsFiniteSet(S) /\ \A k \in S : f[k] \in Nat
    BY <1>4
  <2> HIDE DEF f, S
  <2>2. SumOver(f, S) \in Nat
    BY <2>1, SumMonotone
  <2> QED BY <2>2 DEF S
<1> QED BY <1>2, <1>3, <1>5, <1>6

-----------------------------------------------------------------------------
(* The elements that are drawn, by columns of the first and rows of the    *)
(* second matrix: d are the draws, n the order, l how many there are.      *)

ColumnAt(n, k, l) == {i \in 1..l : ((i - 1) % n) + 1 = k}
ColumnSum(n, d, k, l) == SumOver(d, ColumnAt(n, k, l))

RowFrom(n, r) == n * n + n * (r - 1)
RowAt(n, r, l) == (RowFrom(n, r) + 1)..l
RowSum(n, d, r, l) == SumOver(d, RowAt(n, r, l))

\* Column k of the first matrix times row k of the second.
Product(n, d, k) == ColumnSum(n, d, k, n * n) * RowSum(n, d, k, RowFrom(n, k) + n)
Products(n, d) == [k \in 1..n |-> Product(n, d, k)]

Numbers(d) == \A i \in DOMAIN d : d[i] \in Nat

LEMMA PartSum ==
  ASSUME NEW d \in Seq(Nat), NEW S \in SUBSET (1..Len(d))
  PROVE  IsFiniteSet(S) /\ Summable(d, S) /\ SumOver(d, S) \in Nat
<1>1. IsFiniteSet(S)
  <2>1. IsFiniteSet(1..Len(d))
    BY FS_Interval
  <2> QED BY <2>1, FS_Subset
<1>2. \A i \in S : d[i] \in Nat
  OBVIOUS
<1>3. SumOver(d, S) \in Nat
  BY <1>1, <1>2, SumMonotone
<1> QED BY <1>1, <1>2, <1>3 DEF Summable

\* One more draw changes no sum of earlier ones.
LEMMA AppendKeepsSum ==
  ASSUME NEW d \in Seq(Nat), NEW x \in Nat, NEW S \in SUBSET (1..Len(d))
  PROVE  SumOver(Append(d, x), S) = SumOver(d, S)
<1> DEFINE e == Append(d, x)
<1>1. \A i \in S : e[i] = d[i]
  OBVIOUS
<1> HIDE DEF e
<1>2. SumOver(e, S) = SumOver(d, S)
  BY <1>1, PartSum, SumSame
<1> QED BY <1>2 DEF e

\* ... and is added to those it belongs to.
LEMMA AppendAdds ==
  ASSUME NEW d \in Seq(Nat), NEW x \in Nat, NEW S \in SUBSET (1..Len(d))
  PROVE  SumOver(Append(d, x), S \cup {Len(d) + 1}) = SumOver(d, S) + x
<1> DEFINE e == Append(d, x)
           l == Len(d) + 1
<1>1. e \in Seq(Nat) /\ Len(e) = l /\ e[l] = x /\ l \notin S /\ S \cup {l} \in SUBSET (1..Len(e))
  <2>1. e \in Seq(Nat) /\ Len(e) = l /\ e[l] = x
    OBVIOUS
  <2>2. Len(d) \in Nat /\ \A i \in S : i \in 1..Len(d)
    OBVIOUS
  <2>3. l \notin S /\ \A i \in S \cup {l} : i \in 1..l
    BY <2>2
  <2> QED BY <2>1, <2>3
<1>2. SumOver(e, S) = SumOver(d, S)
  BY AppendKeepsSum
<1> HIDE DEF e, l
<1>3. IsFiniteSet(S) /\ SumOver(d, S) \in Nat
  BY PartSum
<1>4. \A i \in S \cup {l} : e[i] \in Int
  BY <1>1, PartSum DEF Summable
<1>5. SumOver(e, S \cup {l}) = e[l] + SumOver(e, S)
  BY <1>1, <1>3, <1>4, SumInsert
<1> QED BY <1>1, <1>2, <1>3, <1>5 DEF e, l

-----------------------------------------------------------------------------
(* The state of a sum of order n modulo m, on the native path or not, after *)
(* the draws d: the columns c of the first matrix, the row r that is being *)
(* added up and the total t.                                               *)

ColumnsSum(n, m, native, d, c, l) ==
  \A k \in 1..n : c[k] = Kept(native, m, ColumnSum(n, d, k, l))

\* The draws when that many rows of the second matrix are done, and part of the next.
Place(n, done, part) == n * n + n * done + part

SecondSum(n, m, native, d, r, t, done, part) ==
  /\ Len(d) = Place(n, done, part)
  /\ r = Kept(native, m, RowSum(n, d, done + 1, Len(d)))
  /\ t = Kept(native, m, SumOver(Products(n, d), 1..done))

SumState(n, m, native, d, c, r, t) ==
  /\ d \in Seq(Nat) /\ Len(d) <= 2 * n * n
  /\ c \in [1..n -> Nat] /\ r \in Nat /\ t \in Nat
  /\ native => (\A k \in 1..n : c[k] \in 0..(m - 1)) /\ r \in 0..(m - 1) /\ t \in 0..(m - 1)
  /\ Len(d) <= n * n => ColumnsSum(n, m, native, d, c, Len(d)) /\ r = 0 /\ t = 0
  /\ n > 0 /\ Len(d) >= n * n =>
       /\ ColumnsSum(n, m, native, d, c, n * n)
       /\ \E done \in 0..n, part \in 0..(n - 1) : SecondSum(n, m, native, d, r, t, done, part)

LEMMA ColumnGrows ==
  ASSUME NEW n \in Nat \ {0}, NEW d \in Seq(Nat), NEW x \in Nat, NEW k \in 1..n
  PROVE  ColumnSum(n, Append(d, x), k, Len(d) + 1)
           = ColumnSum(n, d, k, Len(d)) + (IF k = (Len(d) % n) + 1 THEN x ELSE 0)
<1> DEFINE S == ColumnAt(n, k, Len(d))
           T == ColumnAt(n, k, Len(d) + 1)
<1>1. S \in SUBSET (1..Len(d)) /\ SumOver(d, S) \in Nat
  <2>1. S \in SUBSET (1..Len(d))
    BY DEF ColumnAt
  <2> HIDE DEF S
  <2> QED BY <2>1, PartSum
<1>2. CASE k = (Len(d) % n) + 1
  <2>1. T = S \cup {Len(d) + 1}
    <3>1. Len(d) \in Nat /\ (Len(d) + 1) - 1 = Len(d)
      OBVIOUS
    <3>2. \A i \in 1..(Len(d) + 1) : i \in 1..Len(d) \/ i = Len(d) + 1
      OBVIOUS
    <3> QED BY <1>2, <3>1, <3>2 DEF ColumnAt
  <2> HIDE DEF S, T
  <2>2. SumOver(Append(d, x), T) = SumOver(d, S) + x
    BY <1>1, <2>1, AppendAdds
  <2> QED BY <1>2, <2>2 DEF ColumnSum, S, T
<1>3. CASE k # (Len(d) % n) + 1
  <2>1. T = S
    BY <1>3 DEF ColumnAt
  <2> HIDE DEF S, T
  <2>2. SumOver(Append(d, x), T) = SumOver(d, S)
    BY <1>1, <2>1, AppendKeepsSum
  <2> QED BY <1>1, <1>3, <2>2 DEF ColumnSum, S, T
<1> QED BY <1>2, <1>3

LEMMA EmptyRow ==
  ASSUME NEW n \in Nat \ {0}, NEW d, NEW r \in Nat \ {0}
  PROVE  RowSum(n, d, r, RowFrom(n, r)) = 0
<1>1. RowFrom(n, r) \in Int
  BY DEF RowFrom
<1>2. RowAt(n, r, RowFrom(n, r)) = {}
  BY <1>1 DEF RowAt
<1> QED BY <1>2, SumEmpty DEF RowSum

LEMMA FirstStep ==
  ASSUME NEW n \in Nat \ {0}, NEW m \in Nat \ {0}, NEW native \in BOOLEAN, NEW d, NEW c, NEW r, NEW t,
         SumState(n, m, native, d, c, r, t), Len(d) < n * n, NEW x \in Nat,
         NEW e, e = [c EXCEPT ![(Len(d) % n) + 1] = Kept(native, m, c[(Len(d) % n) + 1] + x)]
  PROVE  SumState(n, m, native, Append(d, x), e, r, t)
<1> DEFINE l == Len(d)
           j == (l % n) + 1
           f == Append(d, x)
<1>1. d \in Seq(Nat) /\ l \in Nat /\ n * n \in Nat /\ l < n * n
  BY DEF SumState
<1>2. f \in Seq(Nat) /\ Len(f) = l + 1
  BY <1>1
<1>3. c \in [1..n -> Nat] /\ r = 0 /\ t = 0 /\ ColumnsSum(n, m, native, d, c, l)
  BY <1>1 DEF SumState
<1>4. j \in 1..n
  <2>1. l % n \in 0..(n - 1)
    BY <1>1, DivMod
  <2> QED BY <2>1
<1> HIDE DEF f, l, j
<1>5. \A k \in 1..n : /\ e[k] = Kept(native, m, ColumnSum(n, f, k, l + 1))
                      /\ e[k] \in Nat /\ (native => e[k] \in 0..(m - 1))
  <2> TAKE k \in 1..n
  <2> DEFINE a == ColumnSum(n, d, k, l)
             b == ColumnSum(n, f, k, l + 1)
  <2>1. a \in Nat
    <3>1. ColumnAt(n, k, l) \in SUBSET (1..l)
      BY DEF ColumnAt
    <3> QED BY <1>1, <3>1, PartSum DEF ColumnSum, l
  <2>2. c[k] = Kept(native, m, a) /\ c[k] \in Nat
    BY <1>3 DEF ColumnsSum
  <2>3. b = a + (IF k = j THEN x ELSE 0)
    BY <1>1, ColumnGrows DEF f, l, j
  <2> HIDE DEF a, b
  <2>4. CASE k = j
    <3>1. e[k] = Kept(native, m, c[k] + x)
      BY <1>3, <1>4, <2>4 DEF j, l
    <3>2. b = a + x /\ b \in Nat
      BY <2>1, <2>3, <2>4
    <3>3. Kept(native, m, Kept(native, m, a) + x) = Kept(native, m, a + x)
      BY <2>1, KeptIs
    <3>4. Kept(native, m, b) \in Nat /\ (native => Kept(native, m, b) \in 0..(m - 1))
      BY <3>2, KeptIs
    <3>5. e[k] = Kept(native, m, b)
      BY <2>2, <3>1, <3>2, <3>3
    <3> QED BY <3>4, <3>5 DEF b
  <2>5. CASE k # j
    <3>1. e[k] = c[k]
      BY <1>3, <1>4, <2>5 DEF j, l
    <3>2. b = a
      BY <2>1, <2>3, <2>5
    <3>3. Kept(native, m, b) \in Nat /\ (native => Kept(native, m, b) \in 0..(m - 1))
      BY <2>1, <3>2, KeptIs
    <3> QED BY <2>2, <3>1, <3>2, <3>3 DEF b
  <2> QED BY <2>4, <2>5
<1>6. e \in [1..n -> Nat]
  <2>1. DOMAIN e = 1..n /\ e = [k \in 1..n |-> e[k]]
    BY <1>3
  <2> QED BY <1>5, <2>1
<1>7. ColumnsSum(n, m, native, f, e, l + 1)
  BY <1>5 DEF ColumnsSum
<1>8. ASSUME l + 1 >= n * n
      PROVE  l + 1 = n * n /\ SecondSum(n, m, native, f, r, t, 0, 0)
  <2>1. l + 1 = n * n
    BY <1>1, <1>8
  <2>2. Len(f) = Place(n, 0, 0)
    BY <1>1, <1>2, <2>1 DEF Place
  <2>3. RowFrom(n, 0 + 1) = l + 1
    BY <1>1, <2>1 DEF RowFrom
  <2>4. RowSum(n, f, 0 + 1, Len(f)) = 0
    <3>1. 0 + 1 \in Nat \ {0}
      OBVIOUS
    <3>2. RowSum(n, f, 0 + 1, RowFrom(n, 0 + 1)) = 0
      BY <3>1, EmptyRow
    <3> QED BY <1>2, <2>3, <3>2
  <2>5. SumOver(Products(n, f), 1..0) = 0
    <3>1. 1..0 = {}
      OBVIOUS
    <3> QED BY <3>1, SumEmpty
  <2>6. Kept(native, m, 0) = 0
    <3>1. 0 \in Nat
      OBVIOUS
    <3> QED BY <3>1, KeptIs
  <2> QED BY <1>3, <2>1, <2>2, <2>4, <2>5, <2>6 DEF SecondSum
<1>9. l + 1 <= 2 * n * n
  <2>1. 2 * n * n = n * n + n * n
    OBVIOUS
  <2> QED BY <1>1, <2>1
<1>10. 0 \in 0..n /\ 0 \in 0..(n - 1) /\ 0 \in Nat /\ 0 \in 0..(m - 1)
  OBVIOUS
<1>11. n > 0 /\ Len(f) >= n * n =>
         /\ ColumnsSum(n, m, native, f, e, n * n)
         /\ \E done \in 0..n, part \in 0..(n - 1) : SecondSum(n, m, native, f, r, t, done, part)
  BY <1>2, <1>7, <1>8, <1>10
<1>12. native => (\A k \in 1..n : e[k] \in 0..(m - 1)) /\ r \in 0..(m - 1) /\ t \in 0..(m - 1)
  BY <1>3, <1>5, <1>10
<1>13. r \in Nat /\ t \in Nat
  BY <1>3
<1> QED BY <1>2, <1>3, <1>6, <1>7, <1>9, <1>11, <1>12, <1>13 DEF SumState, f

LEMMA SecondPlace ==
  ASSUME NEW n \in Nat \ {0}, NEW done \in 0..n, NEW part \in 0..(n - 1),
         NEW l, l = Place(n, done, part)
  PROVE  /\ l = n * n + n * done + part
         /\ l \in Nat /\ n * n \in Nat /\ n * done \in Nat
         /\ l < 2 * n * n => done < n
         /\ l = 2 * n * n => done = n /\ part = 0
         /\ (l - n * n) \div n = done
         /\ (l + 1) % n = IF part = n - 1 THEN 0 ELSE part + 1
<1>1. l = n * n + n * done + part /\ n * n \in Nat /\ n * done \in Nat /\ l \in Nat
  BY DEF Place
<1>2. 2 * n * n = n * n + n * n
  OBVIOUS
<1>3. ASSUME l < 2 * n * n PROVE done < n
  <2>1. done = n => n * done = n * n
    OBVIOUS
  <2> QED BY <1>1, <1>2, <1>3, <2>1
<1>4. ASSUME l = 2 * n * n PROVE done = n /\ part = 0
  <2>1. n * n = n * done + part
    BY <1>1, <1>2, <1>4
  <2>2. (n * done + part) \div n = done /\ (n * done + part) % n = part
    BY DivModUnique
  <2>3. (n * n + 0) \div n = n /\ (n * n + 0) % n = 0
    <3>1. 0 \in 0..(n - 1) /\ n \in Int /\ done \in Int
      OBVIOUS
    <3> QED BY <3>1, DivModUnique
  <2>4. n * n + 0 = n * n
    BY <1>1
  <2> QED BY <2>1, <2>2, <2>3, <2>4
<1>5. (l - n * n) \div n = done
  <2>1. l - n * n = n * done + part
    BY <1>1
  <2>2. (n * done + part) \div n = done
    BY DivModUnique
  <2> QED BY <2>1, <2>2
<1>6. (l + 1) % n = IF part = n - 1 THEN 0 ELSE part + 1
  <2>1. n * (n + done) = n * n + n * done /\ n + done \in Int
    OBVIOUS
  <2>2. CASE part = n - 1
    <3>1. n * (n + done + 1) = n * n + n * done + n /\ n + done + 1 \in Int /\ 0 \in 0..(n - 1)
      OBVIOUS
    <3>2. l + 1 = n * (n + done + 1) + 0
      BY <1>1, <2>2, <3>1
    <3>3. (n * (n + done + 1) + 0) % n = 0
      BY <3>1, DivModUnique
    <3> QED BY <2>2, <3>2, <3>3
  <2>3. CASE part # n - 1
    <3>1. part + 1 \in 0..(n - 1) /\ l + 1 = n * (n + done) + (part + 1)
      BY <1>1, <2>1, <2>3
    <3>2. (n * (n + done) + (part + 1)) % n = part + 1
      BY <2>1, <3>1, DivModUnique
    <3>3. (l + 1) % n = part + 1
      BY <3>1, <3>2
    <3> QED BY <2>3, <3>1, <3>3
  <2> QED BY <2>2, <2>3
<1> QED BY <1>1, <1>3, <1>4, <1>5, <1>6

LEMMA LastPlace ==
  ASSUME NEW n \in Nat \ {0}, NEW done \in 0..n, NEW part \in 0..(n - 1),
         Place(n, done, part) = 2 * n * n
  PROVE  done = n
<1> DEFINE l == Place(n, done, part)
<1> HIDE DEF l
<1>1. l = Place(n, done, part)
  BY DEF l
<1> QED BY <1>1, SecondPlace

LEMMA RowGrows ==
  ASSUME NEW n \in Nat \ {0}, NEW d \in Seq(Nat), NEW x \in Nat, NEW done \in Nat,
         RowFrom(n, done + 1) <= Len(d)
  PROVE  /\ RowSum(n, d, done + 1, Len(d)) \in Nat
         /\ RowSum(n, Append(d, x), done + 1, Len(d) + 1) = RowSum(n, d, done + 1, Len(d)) + x
<1> DEFINE S == RowAt(n, done + 1, Len(d))
           T == RowAt(n, done + 1, Len(d) + 1)
<1>1. RowFrom(n, done + 1) \in Nat
  <2>1. n * n \in Nat /\ n * ((done + 1) - 1) \in Nat
    OBVIOUS
  <2> QED BY <2>1 DEF RowFrom
<1>2. S \in SUBSET (1..Len(d))
  BY <1>1 DEF RowAt
<1>3. T = S \cup {Len(d) + 1}
  BY <1>1 DEF RowAt
<1> HIDE DEF S, T
<1>4. SumOver(d, S) \in Nat /\ SumOver(Append(d, x), T) = SumOver(d, S) + x
  BY <1>2, <1>3, PartSum, AppendAdds
<1> QED BY <1>4 DEF RowSum, S, T

\* The products of the rows that are complete do not change with a further draw.
LEMMA ProductsKept ==
  ASSUME NEW n \in Nat \ {0}, NEW d \in Seq(Nat), NEW x \in Nat, NEW done \in 0..n,
         n * n + n * done <= Len(d)
  PROVE  /\ \A k \in 1..done : /\ Product(n, Append(d, x), k) = Product(n, d, k)
                               /\ Product(n, d, k) \in Nat
         /\ \A k \in 1..n : ColumnSum(n, Append(d, x), k, n * n) = ColumnSum(n, d, k, n * n)
                            /\ ColumnSum(n, d, k, n * n) \in Nat
         /\ SumOver(Products(n, Append(d, x)), 1..done) = SumOver(Products(n, d), 1..done)
         /\ SumOver(Products(n, d), 1..done) \in Nat
<1> DEFINE f == Append(d, x)
<1>1. n * n \in Nat /\ n * done \in Nat /\ Len(d) \in Nat /\ n * n <= Len(d)
  OBVIOUS
<1>2. \A k \in 1..n : ColumnSum(n, f, k, n * n) = ColumnSum(n, d, k, n * n)
                       /\ ColumnSum(n, d, k, n * n) \in Nat
  <2> TAKE k \in 1..n
  <2> DEFINE S == ColumnAt(n, k, n * n)
  <2>1. S \in SUBSET (1..Len(d))
    BY <1>1 DEF ColumnAt
  <2> HIDE DEF S
  <2>2. SumOver(f, S) = SumOver(d, S) /\ SumOver(d, S) \in Nat
    BY <2>1, AppendKeepsSum, PartSum
  <2> QED BY <2>2 DEF ColumnSum, S
<1>3. \A k \in 1..done : /\ RowSum(n, f, k, RowFrom(n, k) + n) = RowSum(n, d, k, RowFrom(n, k) + n)
                         /\ RowSum(n, d, k, RowFrom(n, k) + n) \in Nat
  <2> TAKE k \in 1..done
  <2> DEFINE S == RowAt(n, k, RowFrom(n, k) + n)
  <2>1. RowFrom(n, k) \in Nat /\ RowFrom(n, k) + n <= Len(d)
    <3>1. n * (k - 1) \in Nat /\ n * (done - k) \in Nat /\ n * done = n * (k - 1) + n + n * (done - k)
      <4>1. k - 1 \in Nat /\ done - k \in Nat
        OBVIOUS
      <4>2. n * (k - 1) = n * k - n /\ n * (done - k) = n * done - n * k
        OBVIOUS
      <4> QED BY <4>1, <4>2
    <3> QED BY <1>1, <3>1 DEF RowFrom
  <2>2. S \in SUBSET (1..Len(d))
    BY <1>1, <2>1 DEF RowAt
  <2> HIDE DEF S
  <2>3. SumOver(f, S) = SumOver(d, S) /\ SumOver(d, S) \in Nat
    BY <2>2, AppendKeepsSum, PartSum
  <2> QED BY <2>3 DEF RowSum, S
<1> HIDE DEF f
<1>4. \A k \in 1..done : Product(n, f, k) = Product(n, d, k) /\ Product(n, d, k) \in Nat
  <2> TAKE k \in 1..done
  <2>1. k \in 1..n
    OBVIOUS
  <2> QED BY <1>2, <1>3, <2>1 DEF Product
<1>5. SumOver(Products(n, f), 1..done) = SumOver(Products(n, d), 1..done)
      /\ SumOver(Products(n, d), 1..done) \in Nat
  <2> DEFINE S == 1..done
             p == Products(n, d)
             q == Products(n, f)
  <2>1. \A k \in S : q[k] = p[k] /\ p[k] \in Nat
    BY <1>4 DEF Products
  <2>2. IsFiniteSet(S)
    BY FS_Interval
  <2> HIDE DEF S, p, q
  <2>3. Summable(p, S)
    BY <2>1 DEF Summable
  <2>4. SumOver(q, S) = SumOver(p, S)
    BY <2>1, <2>2, <2>3, SumSame
  <2>5. SumOver(p, S) \in Nat
    BY <2>1, <2>2, SumMonotone
  <2> QED BY <2>4, <2>5 DEF S, p, q
<1> QED BY <1>2, <1>4, <1>5 DEF f

LEMMA SecondStep ==
  ASSUME NEW n \in Nat \ {0}, NEW m \in Nat \ {0}, NEW native \in BOOLEAN, NEW d, NEW c, NEW r, NEW t,
         SumState(n, m, native, d, c, r, t), Len(d) >= n * n, Len(d) < 2 * n * n, NEW x \in Nat,
         NEW k, k = (Len(d) - n * n) \div n + 1, NEW sum, sum = Kept(native, m, r + x),
         NEW s, NEW u,
         IF (Len(d) + 1) % n = 0
         THEN s = 0 /\ u = Kept(native, m, t + Kept(native, m, c[k] * sum))
         ELSE s = sum /\ u = t
  PROVE  SumState(n, m, native, Append(d, x), c, s, u)
<1> DEFINE l == Len(d)
           f == Append(d, x)
<1>1. /\ d \in Seq(Nat) /\ l \in Nat /\ c \in [1..n -> Nat] /\ r \in Nat /\ t \in Nat
      /\ native => (\A j \in 1..n : c[j] \in 0..(m - 1)) /\ r \in 0..(m - 1) /\ t \in 0..(m - 1)
      /\ ColumnsSum(n, m, native, d, c, n * n)
  <2>1. d \in Seq(Nat) /\ c \in [1..n -> Nat] /\ r \in Nat /\ t \in Nat
    BY DEF SumState
  <2>2. native => (\A j \in 1..n : c[j] \in 0..(m - 1)) /\ r \in 0..(m - 1) /\ t \in 0..(m - 1)
    BY DEF SumState
  <2>3. ColumnsSum(n, m, native, d, c, n * n)
    BY DEF SumState
  <2> QED BY <2>1, <2>2, <2>3
<1>2. PICK done \in 0..n, part \in 0..(n - 1) : SecondSum(n, m, native, d, r, t, done, part)
  BY DEF SumState
<1>3. f \in Seq(Nat) /\ Len(f) = l + 1
  BY <1>1
<1>4. l = Place(n, done, part)
  BY <1>2 DEF SecondSum
<1>5. /\ n * n \in Nat /\ n * done \in Nat /\ l = n * n + n * done + part
      /\ done < n /\ (l - n * n) \div n = done
      /\ (l + 1) % n = 0 <=> part = n - 1
  <2> HIDE DEF l
  <2>1. l < 2 * n * n
    BY DEF l
  <2>2. /\ l \in Nat /\ n * n \in Nat /\ n * done \in Nat /\ l = n * n + n * done + part
        /\ l < 2 * n * n => done < n
        /\ (l - n * n) \div n = done
        /\ (l + 1) % n = 0 <=> part = n - 1
    <3>1. l \in Nat /\ n * n \in Nat /\ n * done \in Nat /\ l = n * n + n * done + part
      BY ONLY n \in Nat \ {0}, done \in 0..n, part \in 0..(n - 1), <1>4, SecondPlace
    <3>2. l < 2 * n * n => done < n
      BY ONLY n \in Nat \ {0}, done \in 0..n, part \in 0..(n - 1), <1>4, SecondPlace
    <3>3. (l - n * n) \div n = done
      BY ONLY n \in Nat \ {0}, done \in 0..n, part \in 0..(n - 1), <1>4, SecondPlace
    <3>4. (l + 1) % n = IF part = n - 1 THEN 0 ELSE part + 1
      BY ONLY n \in Nat \ {0}, done \in 0..n, part \in 0..(n - 1), <1>4, SecondPlace
    <3>5. (l + 1) % n = 0 <=> part = n - 1
      BY <3>4
    <3> QED BY <3>1, <3>2, <3>3, <3>5
  <2> QED BY <2>1, <2>2
<1>6. k = done + 1 /\ k \in 1..n
  BY <1>5
<1> DEFINE before == RowSum(n, d, k, l)
           after == RowSum(n, f, k, l + 1)
<1>7. before \in Nat /\ after = before + x /\ after \in Nat
  <2>1. RowFrom(n, k) <= l
    BY <1>5, <1>6 DEF RowFrom
  <2>2. done \in Nat /\ RowFrom(n, done + 1) <= Len(d)
    BY <1>6, <2>1
  <2>3. /\ RowSum(n, d, done + 1, Len(d)) \in Nat
        /\ RowSum(n, f, done + 1, Len(d) + 1) = RowSum(n, d, done + 1, Len(d)) + x
    BY ONLY n \in Nat \ {0}, x \in Nat, <1>1, <2>2, RowGrows
  <2> QED BY <1>6, <2>3
<1>8. r = Kept(native, m, before)
  BY <1>2, <1>6 DEF SecondSum
<1> HIDE DEF before
<1>9. sum = Kept(native, m, after)
  <2>1. Kept(native, m, Kept(native, m, before) + x) = Kept(native, m, before + x)
    BY <1>7, KeptIs
  <2> QED BY <1>7, <1>8, <2>1
<1> HIDE DEF f, after
<1> DEFINE old == SumOver(Products(n, d), 1..done)
<1>10. /\ \A j \in 1..n : ColumnSum(n, f, j, n * n) = ColumnSum(n, d, j, n * n)
                         /\ ColumnSum(n, d, j, n * n) \in Nat
       /\ \A j \in 1..done : Product(n, f, j) \in Nat
       /\ SumOver(Products(n, f), 1..done) = old /\ old \in Nat
  <2>1. n * n + n * done <= Len(d)
    BY <1>5
  <2>2. /\ \A j \in 1..done : /\ Product(n, Append(d, x), j) = Product(n, d, j)
                                /\ Product(n, d, j) \in Nat
        /\ \A j \in 1..n : ColumnSum(n, Append(d, x), j, n * n) = ColumnSum(n, d, j, n * n)
                            /\ ColumnSum(n, d, j, n * n) \in Nat
        /\ SumOver(Products(n, Append(d, x)), 1..done) = SumOver(Products(n, d), 1..done)
        /\ SumOver(Products(n, d), 1..done) \in Nat
    BY ONLY n \in Nat \ {0}, <1>1, x \in Nat, done \in 0..n, <2>1, ProductsKept
  <2> QED BY <2>2 DEF f
<1>11. t = Kept(native, m, old)
  BY <1>2 DEF SecondSum
<1> HIDE DEF old
<1>12. ColumnsSum(n, m, native, f, c, n * n)
  BY <1>1, <1>10 DEF ColumnsSum
<1>13. l + 1 <= 2 * n * n /\ ~(l + 1 <= n * n)
  <2>1. l < 2 * n * n /\ l >= n * n
    OBVIOUS
  <2>2. 2 * n * n \in Nat
    OBVIOUS
  <2> QED BY <1>1, <1>5, <2>1, <2>2
<1>14. ASSUME NEW more \in 0..n, NEW rest \in 0..(n - 1), s \in Nat, u \in Nat,
              native => s \in 0..(m - 1) /\ u \in 0..(m - 1),
              SecondSum(n, m, native, f, s, u, more, rest)
       PROVE  SumState(n, m, native, f, c, s, u)
  <2>1. native => (\A j \in 1..n : c[j] \in 0..(m - 1)) /\ s \in 0..(m - 1) /\ u \in 0..(m - 1)
    BY <1>1, <1>14
  <2>2. ~(Len(f) <= n * n)
    BY <1>3, <1>13
  <2> QED BY <1>1, <1>3, <1>12, <1>13, <1>14, <2>1, <2>2 DEF SumState
<1>15. CASE part # n - 1
  <2>1. s = sum /\ u = t
    BY <1>5, <1>15
  <2>2. s = Kept(native, m, after) /\ u = Kept(native, m, old)
    BY <1>9, <1>11, <2>1
  <2>3. s \in Nat /\ u \in Nat /\ (native => s \in 0..(m - 1) /\ u \in 0..(m - 1))
    <3>1. s \in Nat /\ (native => s \in 0..(m - 1))
      BY <1>7, <2>2, KeptIs
    <3> QED BY <1>1, <2>1, <3>1
  <2>4. Len(f) = Place(n, done, part + 1) /\ part + 1 \in 0..(n - 1)
    BY <1>3, <1>5, <1>15 DEF Place
  <2>5. SecondSum(n, m, native, f, s, u, done, part + 1)
    BY <1>3, <1>6, <1>10, <2>2, <2>4 DEF SecondSum, after
  <2> QED BY <1>14, <2>3, <2>4, <2>5 DEF f
<1>16. CASE part = n - 1
  <2>1. s = 0 /\ u = Kept(native, m, t + Kept(native, m, c[k] * sum))
    BY <1>5, <1>16
  <2> DEFINE column == ColumnSum(n, d, k, n * n)
             product == column * after
  <2>2. column \in Nat /\ product \in Nat /\ c[k] = Kept(native, m, column)
    <3>1. column \in Nat
      BY <1>6, <1>10
    <3>2. c[k] = Kept(native, m, column)
      BY <1>1, <1>6 DEF ColumnsSum
    <3>3. column * after \in Nat
      <4> HIDE DEF column
      <4> QED BY <1>7, <3>1
    <3> QED BY <3>1, <3>2, <3>3
  <2>3. Product(n, f, k) = product
    <3>1. RowFrom(n, k) + n = l + 1
      BY <1>5, <1>6, <1>16 DEF RowFrom
    <3> QED BY <1>6, <1>10, <3>1 DEF Product, after
  <2> HIDE DEF column
  <2>4. Kept(native, m, c[k] * sum) = Kept(native, m, product)
    BY <1>7, <1>9, <2>2, KeptIs
  <2> HIDE DEF product
  <2>5. u = Kept(native, m, old + product)
    <3>1. u = Kept(native, m, Kept(native, m, old) + Kept(native, m, product))
      BY <1>11, <2>1, <2>4
    <3>2. Kept(native, m, old) \in Nat
      BY <1>10, KeptIs
    <3>3. Kept(native, m, Kept(native, m, old) + Kept(native, m, product))
            = Kept(native, m, Kept(native, m, old) + product)
      BY <2>2, <3>2, KeptIs
    <3>4. Kept(native, m, Kept(native, m, old) + product) = Kept(native, m, old + product)
      BY <1>10, <2>2, KeptIs
    <3> QED BY <3>1, <3>3, <3>4
  <2>6. u \in Nat /\ (native => u \in 0..(m - 1))
    <3>1. old + product \in Nat
      BY <1>10, <2>2
    <3> QED BY <2>5, <3>1, KeptIs
  <2>7. SumOver(Products(n, f), 1..k) = old + product
    <3> DEFINE p == Products(n, f)
               S == 1..done
    <3>1. 1..k = S \cup {k} /\ k \notin S /\ IsFiniteSet(S)
      <4>1. 0 \in Int /\ 1 \in Int /\ done \in Int
        OBVIOUS
      <4>2. IsFiniteSet(1..done)
        BY ONLY <4>1, FS_Interval
      <4>3. 1..k = S \cup {k} /\ k \notin S
        BY <1>6
      <4> QED BY <4>2, <4>3
    <3>2. \A j \in S \cup {k} : p[j] \in Int
      BY <1>6, <1>10, <2>2, <2>3 DEF Products
    <3>3. p[k] = product
      BY <1>6, <2>3 DEF Products
    <3> HIDE DEF p, S
    <3>4. SumOver(p, S \cup {k}) = p[k] + SumOver(p, S)
      BY <3>1, <3>2, SumInsert
    <3>5. SumOver(p, S) = old
      BY <1>10 DEF p, S
    <3>6. SumOver(p, 1..k) = product + old
      BY <3>1, <3>3, <3>4, <3>5
    <3> QED BY <1>10, <2>2, <3>6 DEF p
  <2>8. Len(f) = Place(n, k, 0) /\ Len(f) = RowFrom(n, k + 1)
    <3>1. n * k = n * done + n /\ (k + 1) - 1 = k /\ k \in Nat /\ n * k \in Nat
      BY <1>6
    <3> QED BY <1>3, <1>5, <1>16, <3>1 DEF RowFrom, Place
  <2>9. RowSum(n, f, k + 1, Len(f)) = 0
    <3>1. k + 1 \in Nat \ {0}
      BY <1>6
    <3>2. RowSum(n, f, k + 1, RowFrom(n, k + 1)) = 0
      BY <3>1, EmptyRow
    <3> QED BY <2>8, <3>2
  <2>10. Kept(native, m, 0) = 0
    <3>1. 0 \in Nat
      OBVIOUS
    <3> QED BY <3>1, KeptIs
  <2>11. SecondSum(n, m, native, f, s, u, k, 0)
    BY <2>1, <2>5, <2>7, <2>8, <2>9, <2>10 DEF SecondSum
  <2>12. k \in 0..n /\ 0 \in 0..(n - 1) /\ s \in Nat /\ 0 \in 0..(m - 1)
    BY <1>6, <2>1
  <2> QED BY <1>14, <2>1, <2>6, <2>11, <2>12 DEF f
<1> QED BY <1>15, <1>16 DEF f

-----------------------------------------------------------------------------
(* The factorisation: the sum of all elements of a product of matrices is  *)
(* the sum of the products of column and row sums.                         *)

FirstAt(n, i, k) == n * (i - 1) + k
SecondAt(n, k, j) == n * n + n * (k - 1) + j

LEMMA PlacesAre ==
  ASSUME NEW n \in Nat, NEW i \in 1..n, NEW k \in 1..n
  PROVE  /\ FirstAt(n, i, k) \in 1..(n * n)
         /\ SecondAt(n, i, k) \in (n * n + 1)..(2 * n * n)
         /\ FirstAt(n, i, k) - 1 = n * (i - 1) + (k - 1)
         /\ SecondAt(n, i, k) = RowFrom(n, i) + k
<1>1. n * (i - 1) \in Nat /\ n * (i - 1) + n <= n * n
  <2>1. i - 1 \in Nat /\ n - i \in Nat
    OBVIOUS
  <2>2. n * (i - 1) \in Nat /\ n * (n - i) \in Nat
    BY <2>1
  <2>3. n * (i - 1) = n * i - n /\ n * (n - i) = n * n - n * i
    OBVIOUS
  <2> QED BY <2>2, <2>3
<1>2. n * n \in Nat /\ 2 * n * n = n * n + n * n
  OBVIOUS
<1> QED BY <1>1, <1>2 DEF FirstAt, SecondAt, RowFrom

\* The elements of a column are the draws at every n-th place.
LEMMA ColumnIs ==
  ASSUME NEW n \in Nat, NEW d \in Seq(Nat), Len(d) = 2 * n * n, NEW k \in 1..n
  PROVE  /\ Summable([i \in 1..n |-> d[FirstAt(n, i, k)]], 1..n)
         /\ SumOver([i \in 1..n |-> d[FirstAt(n, i, k)]], 1..n) = ColumnSum(n, d, k, n * n)
<1> DEFINE I == 1..n
           g == [i \in I |-> FirstAt(n, i, k)]
           h == [i \in I |-> d[FirstAt(n, i, k)]]
           S == ColumnAt(n, k, n * n)
<1>1. n * n \in Nat /\ 2 * n * n = n * n + n * n /\ n \in Nat \ {0}
  OBVIOUS
<1>2. \A i \in I : /\ g[i] \in 1..(n * n) /\ (g[i] - 1) \div n = i - 1 /\ (g[i] - 1) % n = k - 1
                   /\ d[g[i]] \in Nat /\ h[i] = d[g[i]]
  <2> TAKE i \in I
  <2>1. g[i] \in 1..(n * n) /\ g[i] - 1 = n * (i - 1) + (k - 1)
    BY PlacesAre
  <2>2. (n * (i - 1) + (k - 1)) \div n = i - 1 /\ (n * (i - 1) + (k - 1)) % n = k - 1
    <3>1. i - 1 \in Int /\ k - 1 \in 0..(n - 1)
      OBVIOUS
    <3> QED BY <1>1, <3>1, DivModUnique
  <2>3. g[i] \in 1..Len(d)
    BY <1>1, <2>1
  <2> QED BY <2>1, <2>2, <2>3
<1>3. \A i, j \in I : g[i] = g[j] => i = j
  <2> TAKE i, j \in I
  <2> HAVE g[i] = g[j]
  <2>1. i - 1 = j - 1
    BY <1>2
  <2> QED BY <2>1
<1>4. {g[i] : i \in I} = S
  <2>1. ASSUME NEW i \in I PROVE g[i] \in S
    <3>1. g[i] \in 1..(n * n) /\ ((g[i] - 1) % n) + 1 = k
      BY <1>2
    <3> HIDE DEF g
    <3> QED BY <3>1 DEF ColumnAt
  <2>2. ASSUME NEW x \in S PROVE \E i \in I : g[i] = x
    <3> DEFINE q == (x - 1) \div n
               r == (x - 1) % n
    <3>1. x \in 1..(n * n) /\ r + 1 = k
      BY DEF ColumnAt
    <3>2. q \in Nat /\ x - 1 = n * q + r /\ r \in 0..(n - 1)
      <4>1. x - 1 \in Int /\ x - 1 \in Nat
        BY <3>1
      <4> QED BY <1>1, <4>1, DivMod
    <3> HIDE DEF q, r
    <3>3. q < n
      <4> SUFFICES ASSUME q >= n PROVE FALSE
        BY <3>2
      <4>1. q - n \in Nat /\ n * (q - n) \in Nat /\ n * q = n * n + n * (q - n)
        BY <3>2
      <4>2. n * q >= n * n /\ n * q \in Nat
        BY <1>1, <3>2, <4>1
      <4>3. n * q < n * n
        <5>1. x \in Nat /\ x <= n * n /\ r \in Nat /\ x - 1 = n * q + r
          BY <1>1, <3>1, <3>2
        <5> HIDE DEF I
        <5> QED BY <1>1, <4>2, <5>1
      <4> QED BY <1>1, <4>2, <4>3
    <3>4. q + 1 \in I /\ (q + 1) - 1 = q
      BY <3>2, <3>3
    <3>5. x = n * q + k
      BY <3>1, <3>2
    <3>6. g[q + 1] = n * ((q + 1) - 1) + k
      BY <3>4 DEF FirstAt
    <3> QED BY <3>4, <3>5, <3>6
  <2> HIDE DEF g, S
  <2> QED BY <2>1, <2>2
<1>5. IsFiniteSet(I)
  BY FS_Interval
<1>6. Summable(h, I)
  BY <1>2 DEF Summable
<1> HIDE DEF g, h, I, S
<1>7. \A i \in I : d[g[i]] \in Int /\ h[i] = d[g[i]]
  BY <1>2
<1>8. SumOver(h, I) = SumOver(d, {g[i] : i \in I})
  BY ONLY <1>3, <1>5, <1>7, SumImage
<1> QED BY <1>4, <1>6, <1>8 DEF h, I, S, ColumnSum

LEMMA RowIs ==
  ASSUME NEW n \in Nat, NEW d \in Seq(Nat), Len(d) = 2 * n * n, NEW k \in 1..n
  PROVE  /\ Summable([j \in 1..n |-> d[SecondAt(n, k, j)]], 1..n)
         /\ SumOver([j \in 1..n |-> d[SecondAt(n, k, j)]], 1..n) = RowSum(n, d, k, RowFrom(n, k) + n)
<1> DEFINE I == 1..n
           g == [j \in I |-> SecondAt(n, k, j)]
           h == [j \in I |-> d[SecondAt(n, k, j)]]
           b == RowFrom(n, k)
           S == (b + 1)..(b + n)
<1>1. b \in Nat
  <2>1. n * n \in Nat /\ n * (k - 1) \in Nat
    OBVIOUS
  <2> QED BY <2>1 DEF RowFrom
<1> HIDE DEF b
<1>2. \A j \in I : g[j] = b + j /\ d[g[j]] \in Nat /\ h[j] = d[g[j]]
  <2> TAKE j \in I
  <2>1. g[j] = b + j /\ g[j] \in (n * n + 1)..(2 * n * n)
    BY PlacesAre DEF b
  <2>2. g[j] \in 1..Len(d)
    <3>1. n * n \in Nat
      OBVIOUS
    <3> QED BY <2>1, <3>1
  <2> QED BY <2>1, <2>2
<1>3. \A i, j \in I : g[i] = g[j] => i = j
  BY <1>1, <1>2
<1>4. {g[j] : j \in I} = S
  <2>1. ASSUME NEW j \in I PROVE g[j] \in S
    BY <1>1, <1>2
  <2>2. ASSUME NEW x \in S PROVE \E j \in I : g[j] = x
    <3>1. x - b \in I /\ b + (x - b) = x
      BY <1>1
    <3> QED BY <1>2, <3>1
  <2> HIDE DEF g, S
  <2> QED BY <2>1, <2>2
<1>5. IsFiniteSet(I)
  BY FS_Interval
<1>6. Summable(h, I)
  BY <1>2 DEF Summable
<1> HIDE DEF g, h, I, S
<1>7. \A j \in I : d[g[j]] \in Int /\ h[j] = d[g[j]]
  BY <1>2
<1>8. SumOver(h, I) = SumOver(d, {g[j] : j \in I})
  BY ONLY <1>3, <1>5, <1>7, SumImage
<1> QED BY <1>4, <1>6, <1>8 DEF h, I, S, b, RowSum, RowAt

\* The sum over the products of the elements of a column of the first and of a row
\* of the second matrix.
LEMMA ProductIs ==
  ASSUME NEW n \in Nat, NEW d \in Seq(Nat), Len(d) = 2 * n * n, NEW k \in 1..n,
         NEW G, \A i, j \in 1..n : G[<<i, j>>] = d[FirstAt(n, i, k)] * d[SecondAt(n, k, j)]
  PROVE  SumOver(G, (1..n) \X (1..n)) = Product(n, d, k)
<1> DEFINE I == 1..n
           a == [i \in I |-> d[FirstAt(n, i, k)]]
           b == [j \in I |-> d[SecondAt(n, k, j)]]
           g == [i \in I |-> SumOver([j \in I |-> G[<<i, j>>]], I)]
           column == ColumnSum(n, d, k, n * n)
           line == RowSum(n, d, k, RowFrom(n, k) + n)
<1>1. IsFiniteSet(I)
  BY FS_Interval
<1>2. Summable(a, I) /\ SumOver(a, I) = column
  BY ColumnIs
<1>3. Summable(b, I) /\ SumOver(b, I) = line
  BY RowIs
<1>4. \A i \in I : a[i] \in Int /\ b[i] \in Int
  BY <1>2, <1>3 DEF Summable
<1>5. \A i, j \in I : G[<<i, j>>] = a[i] * b[j] /\ G[<<i, j>>] \in Int
  <2>1. \A i, j \in I : G[<<i, j>>] = a[i] * b[j]
    OBVIOUS
  <2> HIDE DEF a, b
  <2>2. ASSUME NEW i \in I, NEW j \in I PROVE a[i] * b[j] \in Int
    <3>1. a[i] \in Int /\ b[j] \in Int
      BY <1>4
    <3> QED BY <3>1
  <2> QED BY <2>1, <2>2
<1> HIDE DEF a, b, column, line
<1>6. Summable(G, I \X I)
  <2>1. \A p \in I \X I : p = <<p[1], p[2]>> /\ p[1] \in I /\ p[2] \in I
    OBVIOUS
  <2> HIDE DEF I
  <2> QED BY <1>5, <2>1 DEF Summable
<1>7. column \in Int /\ line \in Int
  <2> HIDE DEF I
  <2>1. SumOver(a, I) \in Int /\ SumOver(b, I) \in Int
    BY <1>1, <1>4, SumRemove
  <2> QED BY <1>2, <1>3, <2>1
<1>8. \A i \in I : g[i] = line * a[i]
  <2> TAKE i \in I
  <2> DEFINE e == [j \in I |-> G[<<i, j>>]]
  <2>1. g[i] = SumOver(e, I)
    OBVIOUS
  <2>2. \A j \in I : e[j] = a[i] * b[j]
    BY <1>5
  <2> HIDE DEF e, g, I
  <2>3. a[i] \in Int
    BY <1>4
  <2>4. SumOver(e, I) = a[i] * SumOver(b, I)
    BY <1>1, <1>3, <2>2, <2>3, SumTimes
  <2>5. a[i] * line = line * a[i]
    BY <1>7, <2>3
  <2> QED BY <1>3, <2>1, <2>4, <2>5
<1>9. RowSums(G, I, I, g)
  BY DEF RowSums
<1> HIDE DEF g, I
<1>10. SumOver(G, I \X I) = SumOver(g, I)
  BY <1>1, <1>6, <1>9, SumPairs
<1>11. SumOver(g, I) = line * SumOver(a, I)
  <2>1. Summable(a, I) /\ line \in Int
    BY <1>2, <1>7
  <2> QED BY ONLY <1>1, <1>8, <2>1, SumTimes
<1>12. line * column = column * line
  BY <1>7
<1>13. SumOver(G, I \X I) = Product(n, d, k)
  BY <1>2, <1>10, <1>11, <1>12 DEF Product, column, line
<1> QED BY <1>13 DEF I

\* An element of the product of the matrices.
Element(n, d, i, j) == SumFunction([k \in 1..n |-> d[FirstAt(n, i, k)] * d[SecondAt(n, k, j)]])

LEMMA Factorised ==
  ASSUME NEW n \in Nat, NEW d \in Seq(Nat), Len(d) = 2 * n * n
  PROVE  SumFunction([e \in (1..n) \X (1..n) |-> Element(n, d, e[1], e[2])])
           = SumOver(Products(n, d), 1..n)
<1> DEFINE I == 1..n
           P == I \X I
           at(i, j, k) == d[FirstAt(n, i, k)] * d[SecondAt(n, k, j)]
           F == [p \in P \X I |-> at(p[1][1], p[1][2], p[2])]
           h == [e \in P |-> Element(n, d, e[1], e[2])]
           v == Products(n, d)
<1>1. IsFiniteSet(I)
  BY FS_Interval
<1>2. \A i, j, k \in I : at(i, j, k) \in Int
  <2> TAKE i, j, k \in I
  <2>1. n * n \in Nat /\ 2 * n * n = n * n + n * n
    OBVIOUS
  <2>2. FirstAt(n, i, k) \in 1..Len(d) /\ SecondAt(n, k, j) \in 1..Len(d)
    <3>1. FirstAt(n, i, k) \in 1..(n * n)
      BY ONLY n \in Nat, i \in 1..n, k \in 1..n, PlacesAre
    <3>2. SecondAt(n, k, j) \in (n * n + 1)..(2 * n * n)
      BY ONLY n \in Nat, k \in 1..n, j \in 1..n, PlacesAre
    <3> QED BY <2>1, <3>1, <3>2
  <2>3. d[FirstAt(n, i, k)] \in Nat /\ d[SecondAt(n, k, j)] \in Nat
    BY <2>2
  <2> QED BY <2>3
<1>3. ASSUME NEW e \in P PROVE e = <<e[1], e[2]>> /\ e[1] \in I /\ e[2] \in I
  OBVIOUS
<1>4. ASSUME NEW e \in P, NEW k \in I
      PROVE  F[<<e, k>>] = at(e[1], e[2], k) /\ F[<<e, k>>] \in Int
  <2>1. <<e, k>> \in P \X I /\ <<e, k>>[1] = e /\ <<e, k>>[2] = k
    OBVIOUS
  <2>2. F[<<e, k>>] = at(e[1], e[2], k)
    <3> HIDE DEF at, P, I
    <3> QED BY <2>1
  <2> HIDE DEF F, at, P
  <2> QED BY <1>2, <1>3, <2>2
<1>5. Summable(F, P \X I)
  <2>1. ASSUME NEW p \in P \X I PROVE p = <<p[1], p[2]>> /\ p[1] \in P /\ p[2] \in I
    <3> HIDE DEF P, I
    <3> QED OBVIOUS
  <2> HIDE DEF F, P, I
  <2> QED BY <1>4, <2>1 DEF Summable
<1>6. RowSums(F, P, I, h)
  <2> SUFFICES ASSUME NEW e \in P PROVE h[e] = SumOver([k \in I |-> F[<<e, k>>]], I)
    BY DEF RowSums
  <2> DEFINE c == [k \in I |-> at(e[1], e[2], k)]
  <2>1. h[e] = SumFunction(c)
    BY DEF Element
  <2>2. c = [k \in I |-> F[<<e, k>>]]
    <3>1. \A k \in I : F[<<e, k>>] = at(e[1], e[2], k)
      BY <1>4
    <3> HIDE DEF F, at, I
    <3> QED BY <3>1
  <2>3. DOMAIN c = I
    OBVIOUS
  <2> HIDE DEF c, h, F, I
  <2>4. SumFunction(c) = SumOver(c, I)
    BY <2>3, SumFunctionIs
  <2> QED BY <2>1, <2>2, <2>4
<1>7. ColumnSums(F, P, I, v)
  <2> SUFFICES ASSUME NEW k \in I PROVE v[k] = SumOver([e \in P |-> F[<<e, k>>]], P)
    BY DEF ColumnSums
  <2> DEFINE G == [e \in P |-> F[<<e, k>>]]
  <2>1. \A i, j \in I : G[<<i, j>>] = at(i, j, k)
    <3> TAKE i, j \in I
    <3>1. <<i, j>> \in P /\ <<i, j>>[1] = i /\ <<i, j>>[2] = j
      OBVIOUS
    <3>2. F[<<<<i, j>>, k>>] = at(<<i, j>>[1], <<i, j>>[2], k)
      BY <1>4, <3>1
    <3> HIDE DEF F, P, I
    <3> QED BY <3>1, <3>2
  <2> HIDE DEF G, F
  <2>2. SumOver(G, (1..n) \X (1..n)) = Product(n, d, k)
    <3>1. \A i, j \in 1..n : G[<<i, j>>] = d[FirstAt(n, i, k)] * d[SecondAt(n, k, j)]
      BY <2>1
    <3>2. k \in 1..n
      OBVIOUS
    <3> QED BY <3>1, <3>2, ProductIs
  <2>3. v[k] = Product(n, d, k)
    BY DEF Products
  <2> QED BY <2>2, <2>3 DEF G
<1>8. SumFunction(h) = SumOver(h, P)
  <2>1. DOMAIN h = P
    OBVIOUS
  <2> HIDE DEF h, P
  <2> QED BY <2>1, SumFunctionIs
<1>9. IsFiniteSet(P)
  <2> DEFINE o == [x \in I |-> SumOver([y \in I |-> [q \in P |-> 0][<<x, y>>]], I)]
             z == [q \in P |-> 0]
  <2>1. Summable(z, I \X I)
    BY DEF Summable
  <2>2. RowSums(z, I, I, o)
    BY DEF RowSums
  <2> HIDE DEF I, z, o
  <2>3. IsFiniteSet(I \X I)
    BY <1>1, <2>1, <2>2, SumPairs
  <2> QED BY <2>3
<1> HIDE DEF F, P, h, v, I
<1>10. SumOver(h, P) = SumOver(v, I)
  BY ONLY <1>1, <1>5, <1>6, <1>7, <1>9, SumSwap
<1>11. SumFunction(h) = SumOver(v, I)
  BY <1>8, <1>10
<1> QED BY <1>11 DEF h, P, v, I

-----------------------------------------------------------------------------
(* The sum of a run.                                                       *)

TaskTypeOK == task \in [n : Int, m : Int]

SumHolds ==
  IF task.m <= 0 THEN total = Refused
  ELSE \/ total = NoColumns /\ task.n > 0
       \/ SumState(Order, task.m, Native, draws, columns, row, total)

MatrixInv == TaskTypeOK /\ SumHolds

LEMMA OrderIs ==
  ASSUME TaskTypeOK
  PROVE  /\ Order \in Nat /\ Native \in BOOLEAN
         /\ task.m > 0 => task.m \in Nat \ {0}
         /\ Native => task.m <= TwoTo(2 * WordBits) - 1
<1>1. task.n \in Int /\ task.m \in Int
  BY DEF TaskTypeOK
<1>2. Order \in Nat
  BY <1>1, MaxOfTwo DEF Order
<1> QED BY <1>1, <1>2 DEF Native, NativeMax

LEMMA ReducedIs == \A x : Reduced(x) = Kept(Native, task.m, x)
  BY DEF Reduced, Kept

LEMMA DrawnIsNat ==
  ASSUME TaskTypeOK, task.m > 0, NEW words \in Streams(WordBits, task.m)
  PROVE  Drawn(words) \in Nat
<1>1. WordBits \in Nat \ {0} /\ task.m \in Nat \ {0}
  BY OrderIs, WordAssumption
<1>2. CASE Native
  <2>1. task.m <= TwoTo(2 * WordBits) - 1
    BY <1>2, OrderIs
  <2> QED BY <1>1, <1>2, <2>1, CandidateIsNat DEF Drawn
<1>3. CASE ~Native
  BY <1>1, <1>3, CandidateBigIs DEF Drawn
<1> QED BY <1>2, <1>3

LEMMA NothingDrawn ==
  ASSUME NEW n \in Nat, NEW m \in Nat \ {0}, NEW native \in BOOLEAN
  PROVE  SumState(n, m, native, <<>>, [k \in 1..n |-> 0], 0, 0)
<1> DEFINE c == [k \in 1..n |-> 0]
<1>1. n * n \in Nat /\ 2 * n * n \in Nat /\ (n > 0 => n * n > 0)
  <2>1. n * n \in Nat /\ 2 * n * n = n * n + n * n
    OBVIOUS
  <2>2. n > 0 => n * n > 0
    OBVIOUS
  <2> QED BY <2>1, <2>2
<1>2. <<>> \in Seq(Nat) /\ Len(<<>>) = 0
  OBVIOUS
<1>3. 0 \in Nat /\ 0 \in 0..(m - 1)
  OBVIOUS
<1>4. \A k \in 1..n : ColumnSum(n, <<>>, k, 0) = 0
  <2> TAKE k \in 1..n
  <2>1. ColumnAt(n, k, 0) = {}
    BY DEF ColumnAt
  <2> QED BY <2>1, SumEmpty DEF ColumnSum
<1>5. Kept(native, m, 0) = 0
  BY <1>3, KeptIs
<1>6. ColumnsSum(n, m, native, <<>>, c, 0)
  BY <1>4, <1>5 DEF ColumnsSum
<1>7. c \in [1..n -> Nat] /\ \A k \in 1..n : c[k] \in 0..(m - 1)
  BY <1>3
<1> HIDE DEF c
<1>8. SumState(n, m, native, <<>>, c, 0, 0)
  BY <1>1, <1>2, <1>3, <1>6, <1>7 DEF SumState
<1> QED BY <1>8 DEF c

LEMMA MatrixInitially ==
  ASSUME NEW n \in Int, NEW m \in Int, MatrixInit(n, m)
  PROVE  MatrixInv
<1>1. TaskTypeOK
  BY DEF MatrixInit, TaskTypeOK
<1>2. task.n = n /\ task.m = m
  BY DEF MatrixInit
<1>3. CASE m <= 0
  BY <1>1, <1>2, <1>3 DEF MatrixInit, MatrixInv, SumHolds
<1>4. CASE m > 0
  <2>1. Order \in Nat /\ task.m \in Nat \ {0} /\ Native \in BOOLEAN
    BY <1>1, <1>2, <1>4, OrderIs
  <2>2. /\ draws = <<>> /\ columns = [k \in 1..Order |-> 0] /\ row = 0
        /\ total = 0 \/ (total = NoColumns /\ n > 0)
    BY <1>2, <1>4 DEF MatrixInit, Order
  <2>3. SumState(Order, task.m, Native, <<>>, [k \in 1..Order |-> 0], 0, 0)
    BY <2>1, NothingDrawn
  <2> QED BY <1>1, <1>2, <1>4, <2>2, <2>3 DEF MatrixInv, SumHolds
<1> QED BY <1>3, <1>4

LEMMA MatrixStep ==
  ASSUME MatrixInv, NEW words \in Streams(WordBits, task.m), Draw(words)
  PROVE  MatrixInv'
<1> DEFINE x == Drawn(words)
           n == Order
           m == task.m
           native == Native
<1>1. task' = task /\ TaskTypeOK /\ ~MatrixError /\ Len(draws) < 2 * n * n
      /\ draws' = Append(draws, x)
  BY DEF Draw, MatrixInv
<1>2. m > 0 /\ SumState(n, m, native, draws, columns, row, total)
  <2>1. task.m \in Int
    BY <1>1 DEF TaskTypeOK
  <2> QED BY <1>1, <2>1 DEF MatrixInv, SumHolds, MatrixError
<1>3. n \in Nat /\ m \in Nat \ {0} /\ native \in BOOLEAN /\ x \in Nat
  BY <1>1, <1>2, OrderIs, DrawnIsNat
<1>4. n \in Nat \ {0}
  <2>1. Len(draws) \in Nat
    BY <1>2 DEF SumState
  <2>2. n = 0 => 2 * n * n = 0
    BY <1>3
  <2> QED BY <1>1, <1>3, <2>1, <2>2
<1>5. n' = n /\ m' = m /\ native' = native /\ TaskTypeOK'
  BY <1>1 DEF Order, Native, TaskTypeOK
<1>6. \A y : Reduced(y) = Kept(native, m, y)
  BY ReducedIs
<1>7. IF Len(draws) < n * n THEN FirstMatrix(x) ELSE SecondMatrix(x)
  BY DEF Draw
<1>8. SumState(n, m, native, Append(draws, x), columns', row', total')
  <2>1. CASE Len(draws) < n * n
    <3>1. /\ columns' = [columns EXCEPT ![(Len(draws) % n) + 1] = Reduced(columns[(Len(draws) % n) + 1] + x)]
          /\ row' = row /\ total' = total
      BY <1>7, <2>1 DEF FirstMatrix
    <3> HIDE DEF x, n, m, native
    <3>2. columns' = [columns EXCEPT ![(Len(draws) % n) + 1]
                                       = Kept(native, m, columns[(Len(draws) % n) + 1] + x)]
      BY <1>6, <3>1
    <3> QED BY <1>2, <1>3, <1>4, <2>1, <3>1, <3>2, FirstStep
  <2>2. CASE ~(Len(draws) < n * n)
    <3> DEFINE k == (Len(draws) - n * n) \div n + 1
               sum == Kept(native, m, row + x)
    <3>1. /\ IF (Len(draws) + 1) % n = 0
             THEN row' = 0 /\ total' = Kept(native, m, total + Kept(native, m, columns[k] * sum))
             ELSE row' = sum /\ total' = total
          /\ columns' = columns
      BY <1>6, <1>7, <2>2 DEF SecondMatrix
    <3> HIDE DEF x, n, m, native
    <3>2. Len(draws) >= n * n
      <4>1. Len(draws) \in Nat /\ n * n \in Nat
        BY <1>2, <1>3 DEF SumState
      <4> QED BY <2>2, <4>1
    <3> HIDE DEF k, sum
    <3>3. k = (Len(draws) - n * n) \div n + 1 /\ sum = Kept(native, m, row + x)
      BY DEF k, sum
    <3>4. Len(draws) < 2 * n * n
      BY <1>1
    <3>5. SumState(n, m, native, Append(draws, x), columns, row', total')
      BY <1>2, <1>3, <1>4, <3>1, <3>2, <3>3, <3>4, SecondStep
    <3> QED BY <3>1, <3>5
  <2> QED BY <2>1, <2>2
<1>9. SumState(Order', task'.m, Native', draws', columns', row', total')
  BY <1>1, <1>5, <1>8
<1>10. ~(task'.m <= 0)
  BY <1>1, <1>3
<1> QED BY <1>5, <1>9, <1>10 DEF MatrixInv, SumHolds

LEMMA MatrixKept ==
  ASSUME MatrixInv, UNCHANGED matrixVars
  PROVE  MatrixInv'
  BY DEF MatrixInv, TaskTypeOK, SumHolds, matrixVars, Order, Native

LEMMA MatrixInvariant == Spec => []MatrixInv
<1>1. Init => MatrixInv
  <2> SUFFICES ASSUME Init PROVE MatrixInv
    OBVIOUS
  <2>1. CASE kind = "prime_count"
    <3>1. MatrixInit(0, 1)
      BY <2>1 DEF Init
    <3> QED BY <3>1, MatrixInitially
  <2>2. CASE kind # "prime_count"
    <3>1. PICK n \in Orders, m \in Moduli : MatrixInit(n, m)
      BY <2>2 DEF Init
    <3>2. n \in Int /\ m \in Int
      BY RunAssumption
    <3> QED BY <3>1, <3>2, MatrixInitially
  <2> QED BY <2>1, <2>2
<1>2. MatrixInv /\ [Next]_vars => MatrixInv'
  <2> SUFFICES ASSUME MatrixInv, [Next]_vars PROVE MatrixInv'
    OBVIOUS
  <2>1. CASE CountSegment /\ UNCHANGED matrixVars
    BY <2>1, MatrixKept
  <2>2. ASSUME NEW words \in Streams(WordBits, task.m), Draw(words) PROVE MatrixInv'
    BY <2>2, MatrixStep
  <2>3. CASE UNCHANGED vars
    <3>1. UNCHANGED matrixVars
      BY <2>3 DEF vars, matrixVars
    <3> QED BY <3>1, MatrixKept
  <2> QED BY <2>1, <2>2, <2>3 DEF Next
<1> QED BY <1>1, <1>2, PTL DEF Spec

\* The native path of matmul_mod computes in u128 (tasks.rs) without overflow, whatever
\* the order, the modulus and the elements that are drawn.
THEOREM ProductsFit == Spec => []InRange
<1>1. MatrixInv => InRange
  <2> SUFFICES ASSUME MatrixInv, ~MatrixError, Native,
                      NEW k \in DOMAIN columns, NEW d \in 0..(task.m - 1)
               PROVE  LET product == columns[k] * Reduced(row + d)
                      IN  {columns[k] + d, row + d, product, total + Reduced(product)} \subseteq 0..DoubleMax
    BY DEF InRange
  <2> DEFINE m == task.m
             M == TwoTo(2 * WordBits)
             c == columns[k]
             s == Reduced(row + d)
             product == c * s
  <2>1. TaskTypeOK /\ m \in Nat \ {0} /\ m <= M - 1
    <3>1. task.m \in Int /\ TaskTypeOK
      BY DEF MatrixInv, TaskTypeOK
    <3>2. task.m > 0
      BY <3>1 DEF MatrixInv, SumHolds, MatrixError
    <3> QED BY <3>1, <3>2, OrderIs
  <2>2. SumState(Order, m, Native, draws, columns, row, total)
    BY <2>1 DEF MatrixInv, SumHolds, MatrixError
  <2>3. c \in 0..(m - 1) /\ row \in 0..(m - 1) /\ total \in 0..(m - 1)
    <3>1. DOMAIN columns = 1..Order
      BY <2>2 DEF SumState
    <3> QED BY <2>2, <3>1 DEF SumState
  <2>4. M \in Nat /\ M >= 2 /\ DoubleMax = M * M - 1
    <3>1. 2 * WordBits \in Nat /\ 1 \in Nat /\ 1 <= 2 * WordBits /\ 4 * WordBits = 2 * WordBits + 2 * WordBits
      BY WordAssumption
    <3>2. M \in Nat /\ TwoTo(1) = 2 * TwoTo(0) /\ TwoTo(0) = 1 /\ 0 + 1 = 1
      <4>1. 0 \in Nat /\ 0 + 1 = 1
        OBVIOUS
      <4>2. TwoTo(0 + 1) = 2 * TwoTo(0)
        BY <4>1, TwoToIs
      <4> QED BY <3>1, <4>1, <4>2, TwoToIs
    <3>3. TwoTo(1) <= M
      BY <3>1, TwoToGrows
    <3>4. TwoTo(2 * WordBits + 2 * WordBits) = M * M
      BY <3>1, TwoToSum
    <3> QED BY <3>1, <3>2, <3>3, <3>4 DEF DoubleMax
  <2> HIDE DEF M, c, m
  <2>5. s \in 0..(m - 1)
    <3>1. (row + d) % m \in 0..(m - 1)
      <4>1. row + d \in Int
        BY <2>1, <2>3 DEF m
      <4> QED BY <2>1, <4>1, DivMod
    <3> QED BY <3>1 DEF Reduced, m
  <2> HIDE DEF s
  <2>6. product \in Nat /\ product <= (M - 1) * (M - 1)
    <3>1. c \in Nat /\ s \in Nat /\ c <= M - 1 /\ s <= M - 1 /\ M - 1 \in Nat
      BY <2>1, <2>3, <2>4, <2>5
    <3>2. c * s \in Nat
      BY <3>1
    <3>3. c * s <= (M - 1) * s
      <4>1. (M - 1) - c \in Nat /\ ((M - 1) - c) * s \in Nat
        BY <3>1
      <4>2. ((M - 1) - c) * s = (M - 1) * s - c * s
        BY <3>1
      <4> QED BY <3>1, <4>1, <4>2
    <3>4. (M - 1) * s <= (M - 1) * (M - 1)
      <4>1. (M - 1) - s \in Nat /\ (M - 1) * ((M - 1) - s) \in Nat
        BY <3>1
      <4>2. (M - 1) * ((M - 1) - s) = (M - 1) * (M - 1) - (M - 1) * s
        BY <3>1
      <4> QED BY <3>1, <4>1, <4>2
    <3>5. (M - 1) * s \in Nat /\ (M - 1) * (M - 1) \in Nat
      BY <3>1
    <3> QED BY <3>2, <3>3, <3>4, <3>5
  <2>7. Reduced(product) \in 0..(m - 1)
    <3> HIDE DEF product
    <3>1. product % m \in 0..(m - 1)
      BY <2>1, <2>6, DivMod
    <3> QED BY <3>1 DEF Reduced, m
  <2>8. (M - 1) * (M - 1) = M * M - 2 * M + 1 /\ M * M >= 2 * M /\ M * M \in Nat
    <3>1. M - 2 \in Nat /\ M * (M - 2) \in Nat /\ M * (M - 2) = M * M - 2 * M
      BY <2>4
    <3>2. (M - 1) * (M - 1) = M * M - 2 * M + 1
      BY <2>4
    <3> QED BY <2>4, <3>1, <3>2
  <2>9. product \in 0..DoubleMax
    <3> HIDE DEF product
    <3> QED BY <2>4, <2>6, <2>8
  <2>10. d \in 0..(m - 1)
    BY DEF m
  <2>11. c + d \in 0..DoubleMax /\ row + d \in 0..DoubleMax /\ total + Reduced(product) \in 0..DoubleMax
    <3> HIDE DEF product
    <3> QED BY <2>1, <2>3, <2>4, <2>7, <2>8, <2>10
  <2> QED BY <2>9, <2>11 DEF c, s
<1> QED BY <1>1, MatrixInvariant, PTL

\* What matmul_mod returns is the sum of the elements of the product of the two matrices
\* it drew, modulo m, for every order and on both paths (tasks.rs); m below 1 is refused, and no sum
\* is missing otherwise but for want of memory.
THEOREM FactorisationCorrect == Spec => []ChecksumCorrect
<1>1. MatrixInv => ChecksumCorrect
  <2> SUFFICES ASSUME MatrixInv, task.m > 0, ~MatrixError, MatrixDone PROVE Result = Checksum
    <3> SUFFICES ASSUME MatrixInv
                 PROVE  /\ total = Refused <=> task.m <= 0
                        /\ total = NoColumns => task.n > 0
                        /\ ~MatrixError => task.m > 0
      BY DEF ChecksumCorrect
    <3>1. CASE task.m <= 0
      BY <3>1 DEF MatrixInv, SumHolds, MatrixError, Refused, NoColumns
    <3>2. CASE ~(task.m <= 0)
      <4>1. task.m > 0
        BY <3>2 DEF MatrixInv, TaskTypeOK
      <4>2. CASE total = NoColumns /\ task.n > 0
        BY <3>2, <4>1, <4>2 DEF Refused, NoColumns
      <4>3. CASE SumState(Order, task.m, Native, draws, columns, row, total)
        <5>1. total \in Nat
          BY <4>3 DEF SumState
        <5> QED BY <3>2, <4>1, <5>1 DEF Refused, NoColumns
      <4> QED BY <3>2, <4>2, <4>3 DEF MatrixInv, SumHolds
    <3> QED BY <3>1, <3>2
  <2> DEFINE n == Order
             m == task.m
             s == SumOver(Products(n, draws), 1..n)
  <2>1. TaskTypeOK /\ m \in Nat \ {0} /\ n \in Nat /\ Native \in BOOLEAN
    <3>1. TaskTypeOK
      BY DEF MatrixInv
    <3> QED BY <3>1, OrderIs
  <2>2. SumState(n, m, Native, draws, columns, row, total)
    <3>1. ~(task.m <= 0)
      BY <2>1
    <3> QED BY <3>1 DEF MatrixInv, SumHolds, MatrixError
  <2>3. draws \in Seq(Nat) /\ Len(draws) = 2 * n * n
    <3>1. draws \in Seq(Nat) /\ total \in Nat
      BY <2>2 DEF SumState
    <3> QED BY <3>1 DEF MatrixDone
  <2>4. total = Kept(Native, m, s) /\ s \in Int
    <3>1. CASE n = 0
      <4>1. Len(draws) = 0 /\ 1..n = {}
        BY <2>1, <2>3, <3>1
      <4>2. n * n = 0
        BY <3>1
      <4>3. total = 0
        BY <2>1, <2>2, <4>1, <4>2 DEF SumState
      <4>4. s = 0
        BY <4>1, SumEmpty
      <4>5. Kept(Native, m, 0) = 0
        <5>1. 0 \in Nat
          OBVIOUS
        <5> QED BY <2>1, <5>1, KeptIs
      <4> QED BY <4>3, <4>4, <4>5
    <3>2. CASE n # 0
      <4>1. n \in Nat \ {0} /\ n > 0 /\ Len(draws) >= n * n
        <5>1. n * n \in Nat /\ 2 * n * n = n * n + n * n
          BY <2>1
        <5> QED BY <2>1, <2>3, <3>2, <5>1
      <4>2. PICK done \in 0..n, part \in 0..(n - 1) :
              SecondSum(n, m, Native, draws, row, total, done, part)
        BY <2>2, <4>1 DEF SumState
      <4> HIDE DEF n, m
      <4>3. done = n
        <5>1. Len(draws) = Place(n, done, part)
          BY <4>2 DEF SecondSum
        <5>2. Place(n, done, part) = 2 * n * n
          BY <2>3, <5>1
        <5> QED BY ONLY done \in 0..n, part \in 0..(n - 1), <4>1, <5>2, LastPlace
      <4>4. s \in Int
        <5>1. n * n + n * n <= Len(draws)
          <6>1. n * n + n * n = 2 * n * n /\ n * n \in Nat
            BY <2>1
          <6> QED BY <2>3, <6>1
        <5>2. n \in 0..n
          BY <2>1
        <5>3. SumOver(Products(n, draws), 1..n) \in Nat
          <6>1. \A x \in Nat, k \in 0..n : n * n + n * k <= Len(draws) =>
                   SumOver(Products(n, draws), 1..k) \in Nat
            BY <2>3, <4>1, ProductsKept
          <6> QED BY <5>1, <5>2, <6>1
        <5> QED BY <5>3
      <4> QED BY <4>2, <4>3, <4>4 DEF SecondSum
    <3> QED BY <3>1, <3>2
  <2>5. Result = s % m
    <3> HIDE DEF s
    <3> QED BY <2>4 DEF Result, Kept
  <2>6. Checksum = s % m
    <3>1. \A i, j : SumFunction([k \in 1..Order |-> A(i, k) * B(k, j)]) = Element(n, draws, i, j)
      BY DEF A, B, Element, FirstAt, SecondAt
    <3>2. Checksum = SumFunction([e \in (1..n) \X (1..n) |-> Element(n, draws, e[1], e[2])]) % m
      BY <3>1 DEF Checksum
    <3>3. SumFunction([e \in (1..n) \X (1..n) |-> Element(n, draws, e[1], e[2])]) = s
      <4> HIDE DEF n
      <4> QED BY <2>1, <2>3, Factorised
    <3> QED BY <3>2, <3>3
  <2> QED BY <2>5, <2>6
<1> QED BY <1>1, MatrixInvariant, PTL

-----------------------------------------------------------------------------
(* The sieve.                                                              *)

LEMMA DividesIs ==
  ASSUME NEW x \in Int, NEW p \in Nat \ {0}
  PROVE  /\ x % p = 0 => x \div p \in Int /\ x = p * (x \div p)
         /\ \A q \in Int : x = p * q => x % p = 0
<1>1. x % p = 0 => x \div p \in Int /\ x = p * (x \div p)
  BY DivMod
<1>2. ASSUME NEW q \in Int, x = p * q PROVE x % p = 0
  <2>1. 0 \in 0..(p - 1) /\ p * q + 0 = p * q
    OBVIOUS
  <2>2. (p * q + 0) % p = 0
    BY <2>1, DivModUnique
  <2> QED BY <1>2, <2>1, <2>2
<1> QED BY <1>1, <1>2

\* A number is divided by what divides a divisor.
LEMMA DividesOn ==
  ASSUME NEW x \in Int, NEW p \in Nat \ {0}, NEW d \in Nat \ {0}, x % p = 0, p % d = 0
  PROVE  x % d = 0
<1>1. PICK q \in Int : x = p * q
  BY DividesIs
<1>2. PICK r \in Int : p = d * r
  BY DividesIs
<1>3. x = d * (r * q) /\ r * q \in Int
  <2>1. (d * r) * q = d * (r * q)
    OBVIOUS
  <2> QED BY <1>1, <1>2, <2>1
<1> QED BY <1>3, DividesIs

\* The multiples of p from one of its multiples on.
LEMMA MultiplesAre ==
  ASSUME NEW p \in Nat \ {0}, NEW k \in Int, NEW below \in Int
  PROVE  Multiples(p * k, below, p) = {x \in (p * k)..(below - 1) : x % p = 0}
<1>1. p * k \in Int
  OBVIOUS
<1>2. ASSUME NEW x \in Int PROVE (x - p * k) % p = 0 <=> x % p = 0
  <2>1. ASSUME (x - p * k) % p = 0 PROVE x % p = 0
    <3>1. x - p * k \in Int
      BY <1>1
    <3>2. PICK q \in Int : x - p * k = p * q
      BY <2>1, <3>1, DividesIs
    <3>3. x = p * (q + k) /\ q + k \in Int
      BY <1>1, <3>2
    <3> QED BY <3>3, DividesIs
  <2>2. ASSUME x % p = 0 PROVE (x - p * k) % p = 0
    <3>1. PICK q \in Int : x = p * q
      BY <2>2, DividesIs
    <3>2. x - p * k = p * (q - k) /\ q - k \in Int /\ x - p * k \in Int
      BY <1>1, <3>1
    <3> QED BY <3>2, DividesIs
  <2> QED BY <2>1, <2>2
<1>3. \A x \in (p * k)..(below - 1) : x \in Int
  BY <1>1
<1> QED BY <1>2, <1>3 DEF Multiples

LEMMA IsqrtIs ==
  ASSUME NEW n \in Nat
  PROVE  Isqrt(n) \in 0..n /\ Isqrt(n) * Isqrt(n) <= n /\ (Isqrt(n) + 1) * (Isqrt(n) + 1) > n
<1> DEFINE Root(k, r) == r * r <= k /\ (r + 1) * (r + 1) > k
           N == {k \in Nat : \E r \in 0..k : Root(k, r)}
<1>1. 0 \in N
  <2>1. 0 \in 0..0 /\ Root(0, 0)
    OBVIOUS
  <2> QED BY <2>1
<1>2. ASSUME NEW k \in N PROVE k + 1 \in N
  <2>1. PICK r \in 0..k : Root(k, r)
    OBVIOUS
  <2>2. CASE (r + 1) * (r + 1) <= k + 1
    <3>1. r + 1 \in 0..(k + 1) /\ r + 1 \in Nat
      OBVIOUS
    <3>2. ((r + 1) + 1) * ((r + 1) + 1) = (r + 1) * (r + 1) + 2 * (r + 1) + 1
      BY <3>1
    <3>3. (r + 1) * (r + 1) \in Nat
      BY <3>1
    <3>4. Root(k + 1, r + 1)
      BY <2>1, <2>2, <3>1, <3>2, <3>3
    <3> HIDE DEF Root
    <3> QED BY <3>1, <3>4
  <2>3. CASE ~((r + 1) * (r + 1) <= k + 1)
    <3>1. r \in 0..(k + 1) /\ r * r \in Nat /\ (r + 1) * (r + 1) \in Nat
      OBVIOUS
    <3>2. Root(k + 1, r)
      BY <2>1, <2>3, <3>1
    <3> QED BY <3>1, <3>2
  <2> QED BY <2>2, <2>3
<1>3. N = Nat
  <2> HIDE DEF N
  <2> QED BY <1>1, <1>2, SetInduction DEF N
<1>4. \E r \in 0..n : Root(n, r)
  BY <1>3
<1>5. Isqrt(n) = CHOOSE r \in 0..n : Root(n, r)
  BY DEF Isqrt
<1>6. Isqrt(n) \in 0..n /\ Root(n, Isqrt(n))
  <2> HIDE DEF Root
  <2> QED BY <1>4, <1>5
<1> QED BY <1>6

\* Squares grow.
LEMMA SquareGrows ==
  ASSUME NEW a \in Nat, NEW b \in Nat
  PROVE  /\ a <= b => a * a <= b * b /\ a * a <= a * b
         /\ a * a <= b => a <= b
         /\ a > 1 => a < a * a
<1>1. ASSUME a <= b PROVE a * a <= a * b /\ a * b <= b * b
  <2>1. b - a \in Nat /\ a * (b - a) \in Nat /\ (b - a) * b \in Nat
    BY <1>1
  <2>2. a * (b - a) = a * b - a * a /\ (b - a) * b = b * b - a * b
    OBVIOUS
  <2>3. a * a \in Nat /\ a * b \in Nat /\ b * b \in Nat
    OBVIOUS
  <2> QED BY <2>1, <2>2, <2>3
<1>2. a * a >= a /\ (a > 1 => a < a * a)
  <2>1. CASE a = 0
    BY <2>1
  <2>2. CASE a > 0
    <3>1. a - 1 \in Nat /\ a * (a - 1) = a * a - a /\ a * (a - 1) \in Nat
      BY <2>2
    <3>2. a > 1 => a * (a - 1) > 0
      BY <3>1
    <3>3. a * a \in Nat
      OBVIOUS
    <3> QED BY <3>1, <3>2, <3>3
  <2> QED BY <2>1, <2>2
<1>3. a * a <= b => a <= b
  <2>1. a * a \in Nat
    OBVIOUS
  <2> QED BY <1>2, <2>1
<1>4. a * a \in Nat /\ a * b \in Nat /\ b * b \in Nat
  OBVIOUS
<1> QED BY <1>1, <1>2, <1>3, <1>4

\* What is kept when all divisors up to p have crossed out their multiples.
Sifted(limit, p) == {x \in 2..limit : \A d \in 2..p : d * d <= x => x % d # 0}

\* One more divisor, which is kept only if it is a prime.
LEMMA SiftedNext ==
  ASSUME NEW limit \in Nat, NEW p \in Nat, p >= 2, NEW kept, kept = Sifted(limit, p - 1)
  PROVE  kept \ (IF p \in kept THEN Multiples(p * p, limit + 1, p) ELSE {}) = Sifted(limit, p)
<1>1. Multiples(p * p, limit + 1, p) = {x \in (p * p)..limit : x % p = 0}
  <2>1. p \in Nat \ {0} /\ p \in Int /\ limit + 1 \in Int /\ (limit + 1) - 1 = limit
    OBVIOUS
  <2> QED BY <2>1, MultiplesAre
<1>2. p * p \in Nat
  OBVIOUS
<1>3. \A x \in 2..limit : x \in Sifted(limit, p) <=> x \in kept /\ ~(p * p <= x /\ x % p = 0)
  <2>1. \A d \in 2..p : d \in 2..(p - 1) \/ d = p
    OBVIOUS
  <2>2. p \in 2..p /\ \A d \in 2..(p - 1) : d \in 2..p
    OBVIOUS
  <2> QED BY <2>1, <2>2 DEF Sifted
<1>4. CASE p \in kept
  <2>1. \A x \in kept : x \in 2..limit
    BY DEF Sifted
  <2>2. \A x \in Sifted(limit, p) : x \in 2..limit
    BY DEF Sifted
  <2>3. \A x \in 2..limit : x \in Multiples(p * p, limit + 1, p) <=> p * p <= x /\ x % p = 0
    BY <1>1, <1>2
  <2> QED BY <1>3, <1>4, <2>1, <2>2, <2>3
<1>5. CASE p \notin kept
  <2>1. ASSUME NEW x \in kept, p * p <= x, x % p = 0 PROVE FALSE
    <3>1. x \in 2..limit /\ p <= x
      <4>1. x \in 2..limit
        BY DEF Sifted
      <4> QED BY <2>1, <4>1, SquareGrows
    <3>2. p \in 2..limit
      BY <3>1
    <3>3. PICK d \in 2..(p - 1) : d * d <= p /\ p % d = 0
      BY <1>5, <3>2 DEF Sifted
    <3>4. x % d = 0
      <4>1. x \in Int /\ p \in Nat \ {0} /\ d \in Nat \ {0}
        BY <3>1
      <4> QED BY ONLY <2>1, <3>3, <4>1, DividesOn
    <3>5. d * d <= x
      <4>1. d * d \in Nat
        OBVIOUS
      <4> QED BY <3>1, <3>3, <4>1
    <3>6. ~(d * d <= x /\ x % d = 0)
      BY DEF Sifted
    <3> QED BY <3>4, <3>5, <3>6
  <2>2. \A x \in kept : x \in 2..limit
    BY DEF Sifted
  <2>3. \A x \in Sifted(limit, p) : x \in 2..limit
    BY DEF Sifted
  <2> QED BY <1>3, <1>5, <2>1, <2>2, <2>3
<1> QED BY <1>4, <1>5

\* Primes have no divisor up to the root.
LEMMA SiftedAre ==
  ASSUME NEW limit \in Nat
  PROVE  Sifted(limit, Isqrt(limit)) = {x \in 2..limit : IsPrime(x)}
<1> DEFINE r == Isqrt(limit)
<1>1. r \in Nat /\ (r + 1) * (r + 1) > limit
  BY IsqrtIs
<1> HIDE DEF r
<1>2. ASSUME NEW x \in 2..limit, x \in Sifted(limit, r) PROVE IsPrime(x)
  <2> SUFFICES ASSUME NEW d \in 2..(x - 1), x % d = 0 PROVE FALSE
    BY DEF IsPrime
  <2>1. PICK q \in Int : x = d * q
    <3>1. x \in Int /\ d \in Nat \ {0} /\ x % d = 0
      OBVIOUS
    <3> QED BY ONLY <3>1, DividesIs
  <2>2. x = q * d
    BY <2>1
  <2>3. q \in 2..(x - 1)
    <3>1. ~(q <= 0)
      <4> SUFFICES ASSUME q <= 0 PROVE FALSE
        OBVIOUS
      <4>1. -q \in Nat /\ d * (-q) \in Nat /\ d * q = -(d * (-q))
        BY <2>1
      <4> QED BY <2>1, <4>1
    <3>2. q # 1
      BY <2>1
    <3>3. q - 1 \in Nat /\ q \in Nat
      BY <3>1
    <3>4. d * q = q + (d - 1) * q /\ (d - 1) * q \in Nat /\ (d - 1) * q >= q
      <4>1. d - 1 \in Nat /\ d - 2 \in Nat /\ (d - 2) * q \in Nat
        BY <3>3
      <4>2. (d - 1) * q = q + (d - 2) * q
        BY <3>3, <4>1
      <4> QED BY <3>3, <4>1, <4>2
    <3> QED BY <2>1, <3>1, <3>2, <3>3, <3>4
  <2>4. ASSUME NEW e \in 2..(x - 1), e * e <= x, x % e = 0 PROVE FALSE
    <3>1. e <= r
      <4> SUFFICES ASSUME e >= r + 1 PROVE FALSE
        BY <1>1
      <4>1. (r + 1) * (r + 1) <= e * e
        BY <1>1, SquareGrows
      <4>2. e * e \in Nat /\ (r + 1) * (r + 1) \in Nat
        BY <1>1
      <4> QED BY <1>1, <2>4, <4>1, <4>2
    <3>2. e \in 2..r
      BY <1>1, <3>1
    <3> QED BY <1>2, <2>4, <3>2 DEF Sifted
  <2>5. CASE d <= q
    <3>1. d * d <= x
      BY <2>1, <2>3, <2>5, SquareGrows
    <3> QED BY <2>4, <3>1
  <2>6. CASE q <= d
    <3>1. q * q <= x
      BY <2>2, <2>3, <2>6, SquareGrows
    <3>2. x % q = 0
      BY <2>2, <2>3, DividesIs
    <3> QED BY <2>3, <2>4, <3>1, <3>2
  <2> QED BY <2>3, <2>5, <2>6
<1>3. ASSUME NEW x \in 2..limit, IsPrime(x) PROVE x \in Sifted(limit, r)
  <2> SUFFICES ASSUME NEW d \in 2..r, d * d <= x PROVE x % d # 0
    BY DEF Sifted
  <2>1. d < d * d /\ d * d \in Nat
    BY SquareGrows
  <2>2. d \in 2..(x - 1)
    BY <2>1
  <2> QED BY <1>3, <2>2 DEF IsPrime
<1> QED BY <1>2, <1>3 DEF r, Sifted

LEMMA BaseIs ==
  ASSUME NEW limit \in Nat
  PROVE  Base(limit) = {x \in 2..limit : IsPrime(x)}
<1> DEFINE Crossed(v, p) == v \ (IF p \in v THEN Multiples(p * p, limit + 1, p) ELSE {})
           Is(f) == f = [p \in Nat |-> IF p < 2 THEN 2..limit ELSE Crossed(f[p - 1], p)]
           s == [p \in Nat |-> Sifted(limit, p)]
           kept == CHOOSE f : Is(f)
<1>1. \A p \in Nat : p < 2 => Sifted(limit, p) = 2..limit
  <2>1. \A p \in Nat : p < 2 => 2..p = {}
    OBVIOUS
  <2> QED BY <2>1 DEF Sifted
<1>2. Is(s)
  <2>1. ASSUME NEW p \in Nat, ~(p < 2) PROVE s[p] = Crossed(s[p - 1], p)
    <3>1. p >= 2 /\ p - 1 \in Nat
      BY <2>1
    <3>2. s[p] = Sifted(limit, p) /\ s[p - 1] = Sifted(limit, p - 1)
      BY <3>1
    <3> DEFINE v == s[p - 1]
    <3> HIDE DEF s
    <3>3. v = Sifted(limit, p - 1)
      BY <3>2
    <3> HIDE DEF v
    <3>4. Crossed(v, p) = Sifted(limit, p)
      BY <3>1, <3>3, SiftedNext
    <3> QED BY <3>2, <3>4 DEF v
  <2>2. \A p \in Nat : s[p] = IF p < 2 THEN 2..limit ELSE Crossed(s[p - 1], p)
    <3>1. \A p \in Nat : s[p] = Sifted(limit, p)
      OBVIOUS
    <3> HIDE DEF s, Crossed
    <3> QED BY <1>1, <2>1, <3>1
  <2>3. s = [p \in Nat |-> s[p]]
    OBVIOUS
  <2> HIDE DEF s, Crossed
  <2> QED BY <2>2, <2>3
<1>3. Is(kept)
  <2> HIDE DEF Is
  <2> QED BY <1>2
<1>4. Base(limit) = kept[Isqrt(limit)]
  BY DEF Base
<1> HIDE DEF kept
<1>5. \A p \in Nat : kept[p] = IF p < 2 THEN 2..limit ELSE Crossed(kept[p - 1], p)
  BY <1>3
<1> HIDE DEF Is
<1>6. \A p \in Nat : kept[p] = Sifted(limit, p)
  <2> DEFINE N == {p \in Nat : kept[p] = Sifted(limit, p)}
  <2>1. 0 \in N
    <3> HIDE DEF Crossed
    <3>1. 0 \in Nat /\ 0 < 2
      OBVIOUS
    <3>2. kept[0] = 2..limit /\ Sifted(limit, 0) = 2..limit
      BY <1>1, <1>5, <3>1
    <3> QED BY <3>1, <3>2
  <2>2. ASSUME NEW p \in N PROVE p + 1 \in N
    <3>1. CASE p + 1 < 2
      <4> HIDE DEF Crossed
      <4>1. p + 1 \in Nat
        OBVIOUS
      <4>2. kept[p + 1] = 2..limit /\ Sifted(limit, p + 1) = 2..limit
        BY <1>1, <1>5, <3>1, <4>1
      <4> QED BY <4>1, <4>2
    <3>2. CASE ~(p + 1 < 2)
      <4> DEFINE q == p + 1
                 v == kept[q - 1]
      <4>1. q \in Nat /\ q >= 2 /\ q - 1 = p /\ v = Sifted(limit, q - 1)
        BY <3>2
      <4>2. kept[q] = Crossed(v, q)
        BY <1>5, <3>2, <4>1
      <4> HIDE DEF q, v
      <4>3. Crossed(v, q) = Sifted(limit, q)
        BY <4>1, SiftedNext
      <4>4. kept[q] = Sifted(limit, q)
        BY <4>2, <4>3
      <4> QED BY <4>1, <4>4 DEF q
    <3> QED BY <3>1, <3>2
  <2>3. N = Nat
    <3> HIDE DEF N
    <3> QED BY <2>1, <2>2, SetInduction DEF N
  <2> QED BY <2>3
<1>7. Isqrt(limit) \in Nat
  BY IsqrtIs
<1> QED BY <1>4, <1>6, <1>7, SiftedAre

\* A number that is not a prime has a prime divisor up to its root.
LEMMA SmallDivisor ==
  ASSUME NEW x \in Nat, x >= 2, ~IsPrime(x)
  PROVE  \E p \in 2..(x - 1) : IsPrime(p) /\ x % p = 0 /\ p * p <= x
<1> DEFINE S == {e \in 2..(x - 1) : x % e = 0}
<1>1. S # {} /\ S \in SUBSET Nat
  <2>1. \E e \in 2..(x - 1) : x % e = 0
    <3>1. x > 1
      OBVIOUS
    <3> QED BY ONLY ~IsPrime(x), <3>1, Zenon DEF IsPrime
  <2>2. \A e \in 2..(x - 1) : e \in Nat
    OBVIOUS
  <2> QED BY <2>1, <2>2
<1>2. PICK p \in S : \A e \in S : p <= e
  <2> HIDE DEF S
  <2> QED BY <1>1, LeastExists
<1>3. p \in 2..(x - 1) /\ x % p = 0
  OBVIOUS
<1>4. IsPrime(p)
  <2>4. p > 1
    BY <1>3
  <2> SUFFICES ASSUME NEW e \in 2..(p - 1), p % e = 0 PROVE FALSE
    BY <2>4 DEF IsPrime
  <2>1. x \in Int /\ p \in Nat \ {0} /\ e \in Nat \ {0} /\ p % e = 0
    BY <1>3
  <2>2. x % e = 0
    BY ONLY <1>3, <2>1, DividesOn
  <2>3. e \in S /\ e < p /\ e \in Int /\ p \in Int
    <3>1. e \in 2..(x - 1) /\ e < p
      BY <1>3
    <3> QED BY <1>3, <2>2, <3>1
  <2> HIDE DEF S
  <2>5. p <= e
    BY <1>2, <2>3
  <2> QED BY <2>3, <2>5
<1>5. PICK q \in Int : x = p * q
  <2>1. x \in Int /\ p \in Nat \ {0}
    BY <1>3
  <2> QED BY ONLY <1>3, <2>1, DividesIs
<1>6. q \in 2..(x - 1)
  <2>1. ~(q <= 0)
    <3> SUFFICES ASSUME q <= 0 PROVE FALSE
      OBVIOUS
    <3>1. -q \in Nat /\ p * (-q) \in Nat /\ p * q = -(p * (-q))
      BY <1>3, <1>5
    <3> QED BY <1>5, <3>1
  <2>2. q # 1
    BY <1>3, <1>5
  <2>3. p * q = q + q + (p - 2) * q /\ (p - 2) * q \in Nat
    <3>1. p - 2 \in Nat /\ q \in Nat
      BY <1>3, <2>1
    <3>2. (p - 2) * q = p * q - 2 * q /\ (p - 2) * q \in Nat
      BY <3>1
    <3> QED BY <3>1, <3>2
  <2> QED BY <1>5, <2>1, <2>2, <2>3
<1>7. x % q = 0
  <2>1. x = q * p /\ x \in Int /\ q \in Nat \ {0} /\ p \in Int
    BY <1>3, <1>5, <1>6
  <2> QED BY ONLY <2>1, DividesIs
<1>8. p <= q
  BY <1>2, <1>6, <1>7
<1>9. p * p <= p * q
  BY <1>3, <1>6, <1>8, SquareGrows
<1> QED BY <1>3, <1>4, <1>5, <1>9

\* The first multiple that is crossed out.
LEMMA FirstIs ==
  ASSUME NEW from \in Nat, NEW p \in Nat \ {0}
  PROVE  /\ First(from, p) >= p * p
         /\ \E k \in Int : First(from, p) = p * k
         /\ \A x \in Int : x >= from /\ x >= p * p /\ x % p = 0 => x >= First(from, p)
<1> DEFINE c == CeilDiv(from, p)
           r == (from + p - 1) % p
<1>1. c \in Int /\ r \in 0..(p - 1) /\ from + p - 1 = p * c + r
  <2>1. from + p - 1 \in Int /\ c = (from + p - 1) \div p
    BY DEF CeilDiv
  <2> HIDE DEF c
  <2> QED BY <2>1, DivMod
<1> HIDE DEF c, r
<1>2. c * p = p * c /\ c * p \in Int /\ p * p \in Int
  BY <1>1
<1>3. First(from, p) = IF c * p >= p * p THEN c * p ELSE p * p
  BY <1>2, MaxOfTwo DEF First, c
<1>4. ASSUME NEW x \in Int, x >= from, x % p = 0 PROVE x >= c * p
  <2>1. PICK q \in Int : x = p * q
    BY <1>4, DividesIs
  <2>2. ~(c > q)
    <3> SUFFICES ASSUME c > q PROVE FALSE
      OBVIOUS
    <3>1. c - q - 1 \in Nat /\ p * (c - q - 1) \in Nat /\ p * (c - q - 1) = p * c - p * q - p
      BY <1>1, <2>1
    <3>2. p * q \in Int /\ p * c \in Int
      BY <1>1, <2>1
    <3> QED BY <1>1, <1>4, <2>1, <3>1, <3>2
  <2>3. q - c \in Nat /\ p * (q - c) \in Nat /\ p * (q - c) = p * q - p * c
    BY <1>1, <2>1, <2>2
  <2>4. p * q \in Int /\ p * c \in Int
    BY <1>1, <2>1
  <2> QED BY <1>2, <2>1, <2>3, <2>4
<1>5. First(from, p) >= p * p
  BY <1>2, <1>3
<1>6. \E k \in Int : First(from, p) = p * k
  <2>1. p \in Int /\ (First(from, p) = p * c \/ First(from, p) = p * p)
    BY <1>2, <1>3
  <2> QED BY <1>1, <2>1
<1>7. \A x \in Int : x >= from /\ x >= p * p /\ x % p = 0 => x >= First(from, p)
  BY <1>3, <1>4
<1> QED BY <1>5, <1>6, <1>7

\* A segment of the sieve keeps the primes in it, and only them.
LEMMA SegmentIs ==
  ASSUME NEW from \in Nat, from >= 2, NEW below \in Int, NEW hi \in Int, below <= hi, from < below
  PROVE  Primes(from, below, Isqrt(hi - 1)) = PrimesIn(from, below)
<1> DEFINE limit == Isqrt(hi - 1)
<1>1. hi - 1 \in Nat /\ limit \in Nat /\ (limit + 1) * (limit + 1) > hi - 1
  <2>1. hi - 1 \in Nat
    OBVIOUS
  <2> QED BY <2>1, IsqrtIs
<1> HIDE DEF limit
<1>2. Base(limit) = {p \in 2..limit : IsPrime(p)}
  BY <1>1, BaseIs
<1>3. ASSUME NEW p \in Base(limit), NEW x \in Int
      PROVE  x \in Multiples(First(from, p), below, p)
               <=> x \in First(from, p)..(below - 1) /\ x % p = 0
  <2>1. p \in Nat \ {0}
    BY <1>2
  <2>2. PICK k \in Int : First(from, p) = p * k
    BY <2>1, FirstIs
  <2>3. Multiples(p * k, below, p) = {y \in (p * k)..(below - 1) : y % p = 0}
    BY <2>1, MultiplesAre
  <2> QED BY <2>2, <2>3
<1>4. ASSUME NEW x \in from..(below - 1), IsPrime(x), NEW p \in Base(limit),
             x \in Multiples(First(from, p), below, p)
      PROVE  FALSE
  <2>1. p \in 2..limit /\ p \in Nat \ {0} /\ p \in Nat /\ p > 1
    BY <1>1, <1>2
  <2>2. x >= p * p /\ x % p = 0
    <3>1. First(from, p) >= p * p /\ x % p = 0 /\ x \in First(from, p)..(below - 1)
      BY <1>3, <1>4, <2>1, FirstIs
    <3>2. PICK k \in Int : First(from, p) = p * k
      BY <2>1, FirstIs
    <3>3. First(from, p) \in Int /\ p * p \in Int
      BY <2>1, <3>2
    <3> QED BY <3>1, <3>3
  <2>3. p < p * p /\ p * p \in Nat
    BY <2>1, SquareGrows
  <2>4. p \in 2..(x - 1)
    BY <2>1, <2>2, <2>3
  <2> QED BY <1>4, <2>2, <2>4 DEF IsPrime
<1>5. ASSUME NEW x \in from..(below - 1), ~IsPrime(x)
      PROVE  \E p \in Base(limit) : x \in Multiples(First(from, p), below, p)
  <2>1. x \in Nat /\ x >= 2
    OBVIOUS
  <2>2. PICK p \in 2..(x - 1) : IsPrime(p) /\ x % p = 0 /\ p * p <= x
    BY <1>5, <2>1, SmallDivisor
  <2>3. p <= limit
    <3> SUFFICES ASSUME p >= limit + 1 PROVE FALSE
      BY <1>1
    <3>1. (limit + 1) * (limit + 1) <= p * p
      BY <1>1, SquareGrows
    <3>2. (limit + 1) * (limit + 1) \in Nat /\ p * p \in Nat
      BY <1>1
    <3> QED BY <1>1, <2>1, <2>2, <3>1, <3>2
  <2>4. p \in Base(limit)
    BY <1>1, <1>2, <2>2, <2>3
  <2>5. x >= First(from, p)
    <3>1. p \in Nat \ {0} /\ x \in Int /\ x >= from /\ x >= p * p /\ x % p = 0
      BY <2>1, <2>2
    <3> QED BY ONLY from \in Nat, <3>1, FirstIs
  <2>6. x \in First(from, p)..(below - 1)
    <3>1. PICK k \in Int : First(from, p) = p * k
      <4>1. p \in Nat \ {0}
        OBVIOUS
      <4> QED BY <4>1, FirstIs
    <3>2. First(from, p) \in Int
      BY <3>1
    <3> QED BY <2>5, <3>2
  <2>7. x \in Multiples(First(from, p), below, p)
    BY <1>3, <2>1, <2>2, <2>4, <2>6
  <2> QED BY <2>4, <2>7
<1> HIDE DEF IsPrime
<1> QED BY <1>4, <1>5 DEF Primes, PrimesIn, limit

-----------------------------------------------------------------------------
(* Counting by segments.                                                   *)

PrimeInv ==
  /\ range \in [lo : Int, hi : Int]
  /\ count = Failed => range.hi > Word /\ range.hi > range.lo
  /\ count = NoTable => range.hi <= Word /\ range.hi > range.lo
  /\ ~PrimeError =>
          /\ start \in Nat /\ start >= 2 /\ start >= range.lo
          /\ start < range.hi => range.hi <= Word
          /\ count = Cardinality(PrimesIn(range.lo, Smallest(start, range.hi)))

\* Primes are finitely many in an interval, and those of two parts are counted apart.
LEMMA PrimesInParts ==
  ASSUME NEW lo \in Int, NEW mid \in Int, NEW hi \in Int, lo <= mid, mid <= hi
  PROVE  /\ IsFiniteSet(PrimesIn(lo, mid)) /\ Cardinality(PrimesIn(lo, mid)) \in Nat
         /\ Cardinality(PrimesIn(lo, hi))
              = Cardinality(PrimesIn(lo, mid)) + Cardinality(PrimesIn(mid, hi))
<1> DEFINE A1 == PrimesIn(lo, mid)
           A2 == PrimesIn(mid, hi)
<1>1. A1 \in SUBSET (lo..(mid - 1)) /\ A2 \in SUBSET (mid..(hi - 1))
  BY DEF PrimesIn
<1>2. IsFiniteSet(lo..(mid - 1)) /\ IsFiniteSet(mid..(hi - 1))
  BY FS_Interval
<1>3. PrimesIn(lo, hi) = A1 \cup A2
  <2>1. \A x \in lo..(hi - 1) : x \in lo..(mid - 1) \/ x \in mid..(hi - 1)
    OBVIOUS
  <2>2. \A x \in lo..(mid - 1) : x \in lo..(hi - 1)
    OBVIOUS
  <2>3. \A x \in mid..(hi - 1) : x \in lo..(hi - 1)
    OBVIOUS
  <2> QED BY <2>1, <2>2, <2>3 DEF PrimesIn
<1>4. A1 \cap A2 = {}
  BY DEF PrimesIn
<1> HIDE DEF A1, A2
<1>5. IsFiniteSet(A1) /\ IsFiniteSet(A2)
  BY <1>1, <1>2, FS_Subset
<1>6. Cardinality(A1) \in Nat /\ Cardinality(A2) \in Nat
  BY <1>5, FS_CardinalityType
<1>7. Cardinality(A1 \cup A2) = Cardinality(A1) + Cardinality(A2) - Cardinality({})
  BY <1>4, <1>5, FS_Union
<1>8. Cardinality({}) = 0
  BY FS_EmptySet
<1> QED BY <1>3, <1>5, <1>6, <1>7, <1>8 DEF A1, A2

LEMMA PrimeInitially ==
  ASSUME NEW lo \in Int, NEW hi \in Int, PrimeInit(lo, hi)
  PROVE  PrimeInv
<1>1. range = [lo |-> lo, hi |-> hi] /\ start = (IF lo >= 2 THEN lo ELSE 2)
  BY MaxOfTwo DEF PrimeInit
<1>2. start \in Nat /\ start >= 2 /\ start >= lo
  BY <1>1
<1>3. count \in IF hi <= start THEN {0}
              ELSE IF start > Word \/ hi > Word THEN {Failed}
              ELSE {0, NoTable}
  BY DEF PrimeInit
<1>4. range \in [lo : Int, hi : Int] /\ range.lo = lo /\ range.hi = hi
  BY <1>1
<1>5. CASE hi > start /\ (start > Word \/ hi > Word)
  <2>1. hi > Word /\ hi > lo /\ count = Failed
    BY <1>2, <1>3, <1>5, PrimeAssumption
  <2> QED BY <1>4, <2>1 DEF PrimeInv, PrimeError, Failed, NoTable
<1>6. CASE ~(hi > start /\ (start > Word \/ hi > Word))
  <2>1. count = 0 \/ (count = NoTable /\ hi > start)
    BY <1>2, <1>3, <1>6
  <2>2. start < hi => hi <= Word
    BY <1>2, <1>6, PrimeAssumption
  <2>3. PrimesIn(lo, Smallest(start, hi)) = {}
    <3>1. Smallest(start, hi) \in Int /\ Smallest(start, hi) <= start
      BY <1>2 DEF Smallest
    <3>2. \A x \in lo..(Smallest(start, hi) - 1) : ~(x > 1)
      BY <1>1, <3>1
    <3> QED BY <3>2 DEF PrimesIn, IsPrime
  <2>4. Cardinality({}) = 0
    BY FS_EmptySet
  <2>5. CASE count = 0
    BY <1>2, <1>4, <2>2, <2>3, <2>4, <2>5 DEF PrimeInv, Failed, NoTable
  <2>6. CASE count = NoTable /\ hi > start
    BY <1>2, <1>4, <2>2, <2>6 DEF PrimeInv, PrimeError, Failed, NoTable
  <2> QED BY <2>1, <2>5, <2>6
<1> QED BY <1>5, <1>6

LEMMA PrimeStep ==
  ASSUME PrimeInv, CountSegment
  PROVE  PrimeInv'
<1>1. /\ ~PrimeError /\ start < range.hi /\ range' = range
      /\ start' = Stop(start, range.hi)
      /\ count' = count + Cardinality(Primes(start, start', Isqrt(range.hi - 1)))
  BY DEF CountSegment
<1>2. PICK lo \in Int, hi \in Int : range.lo = lo /\ range.hi = hi
  BY DEF PrimeInv
<1>3. /\ start \in Nat /\ start >= 2 /\ start >= lo /\ start < hi /\ hi <= Word
      /\ count = Cardinality(PrimesIn(lo, Smallest(start, hi)))
  BY <1>1, <1>2 DEF PrimeInv
<1>4. PICK stop \in Int : stop = start'
  <2>1. Stop(start, hi) \in Int
    BY <1>3, PrimeAssumption DEF Stop, Smallest
  <2> QED BY <1>1, <1>2, <2>1
<1>5. stop <= hi /\ stop > start
  BY <1>1, <1>2, <1>3, <1>4, PrimeAssumption DEF Stop, Smallest
<1>6. Primes(start, stop, Isqrt(hi - 1)) = PrimesIn(start, stop)
  BY <1>3, <1>5, SegmentIs
<1>7. Smallest(start, hi) = start /\ Smallest(stop, hi) = stop
  BY <1>3, <1>5 DEF Smallest
<1>8. /\ Cardinality(PrimesIn(lo, start)) \in Nat /\ Cardinality(PrimesIn(lo, stop)) \in Nat
      /\ Cardinality(PrimesIn(lo, stop))
           = Cardinality(PrimesIn(lo, start)) + Cardinality(PrimesIn(start, stop))
  <2>1. start \in Int /\ lo <= start /\ start <= stop /\ lo <= stop /\ stop <= stop
    BY <1>3, <1>5
  <2> QED BY <2>1, PrimesInParts
<1>9. count' = Cardinality(PrimesIn(lo, Smallest(stop, hi)))
  BY <1>1, <1>2, <1>3, <1>4, <1>6, <1>7, <1>8
<1>10. count' # Failed /\ count' # NoTable
  BY <1>7, <1>8, <1>9 DEF Failed, NoTable
<1>11. stop \in Nat /\ stop >= 2 /\ stop >= lo
  BY <1>3, <1>5
<1>12. range' = range /\ range \in [lo : Int, hi : Int]
  BY <1>1 DEF PrimeInv
<1> QED BY <1>2, <1>3, <1>4, <1>9, <1>10, <1>11, <1>12 DEF PrimeInv, Smallest

\* prime_count returns the number of primes in lo..hi-1, for every range, size of a
\* segment and of a word, and fails only where the range does not fit into words
\* or the base table into memory (tasks.rs): every segment is counted completely, and once.
THEOREM PrimesAreCounted == Spec => []PrimesCounted
<1>1. Init => PrimeInv
  <2> SUFFICES ASSUME Init PROVE PrimeInv
    OBVIOUS
  <2>1. CASE kind = "prime_count"
    <3>1. PICK lo \in Lows, hi \in Highs : PrimeInit(lo, hi)
      BY <2>1 DEF Init
    <3>2. lo \in Int /\ hi \in Int
      BY RunAssumption
    <3> QED BY <3>1, <3>2, PrimeInitially
  <2>2. CASE kind # "prime_count"
    <3>1. PrimeInit(0, 0)
      BY <2>2 DEF Init
    <3> QED BY <3>1, PrimeInitially
  <2> QED BY <2>1, <2>2
<1>2. PrimeInv /\ [Next]_vars => PrimeInv'
  <2> SUFFICES ASSUME PrimeInv, [Next]_vars PROVE PrimeInv'
    OBVIOUS
  <2>1. CASE CountSegment
    BY <2>1, PrimeStep
  <2>2. CASE UNCHANGED primeVars
    BY <2>2 DEF primeVars, PrimeInv, PrimeError, PrimesIn, IsPrime, Smallest
  <2>3. CASE UNCHANGED vars
    <3>1. UNCHANGED primeVars
      BY <2>3 DEF vars, primeVars
    <3> QED BY <2>2, <3>1
  <2> QED BY <2>1, <2>2, <2>3 DEF Next
<1>3. PrimeInv => PrimesCounted
  <2> SUFFICES ASSUME PrimeInv PROVE PrimesCounted
    OBVIOUS
  <2>1. CASE PrimeError
    BY <2>1 DEF PrimeInv, PrimesCounted
  <2>2. CASE ~PrimeError
    <3>1. /\ count = Cardinality(PrimesIn(range.lo, Smallest(start, range.hi)))
          /\ start \in Nat /\ range.hi \in Int
      BY <2>2 DEF PrimeInv
    <3>2. PrimeDone => Smallest(start, range.hi) = range.hi
      BY <2>2, <3>1 DEF PrimeDone, Smallest
    <3> QED BY <2>2, <3>1, <3>2 DEF PrimeInv, PrimesCounted
  <2> QED BY <2>1, <2>2
<1> QED BY <1>1, <1>2, <1>3, PTL DEF Spec

-----------------------------------------------------------------------------
(* Candidates as numerals, whose digits are the words.                     *)

Digits(w, e, n) == \A k \in 1..n : e[k] \in Words(w)

\* The number with the first n words of e as digits.
Low(w, e, n) == SumOver([k \in 1..n |-> TwoTo(w * (k - 1)) * e[k]], 1..n)

LEMMA WordsAre ==
  ASSUME NEW w \in Nat
  PROVE  TwoTo(w) \in Nat \ {0} /\ \A x : x \in Words(w) <=> x \in Nat /\ x < TwoTo(w)
<1>1. TwoTo(w) \in Nat \ {0}
  BY TwoToIs
<1> QED BY <1>1 DEF Words

LEMMA LowNext ==
  ASSUME NEW w \in Nat, NEW n \in Nat, NEW e, Digits(w, e, n + 1)
  PROVE  /\ Digits(w, e, n) /\ e[n + 1] \in Words(w) /\ Low(w, e, n) \in Int
         /\ Low(w, e, n + 1) = TwoTo(w * n) * e[n + 1] + Low(w, e, n)
<1> DEFINE f == [k \in 1..n |-> TwoTo(w * (k - 1)) * e[k]]
           g == [k \in 1..(n + 1) |-> TwoTo(w * (k - 1)) * e[k]]
           S == 1..n
<1>1. 1..(n + 1) = S \cup {n + 1} /\ n + 1 \notin S /\ (n + 1) - 1 = n
  OBVIOUS
<1>2. \A k \in 1..(n + 1) : e[k] \in Nat /\ w * (k - 1) \in Nat /\ TwoTo(w * (k - 1)) \in Nat
                            /\ TwoTo(w * (k - 1)) * e[k] \in Int
  <2> TAKE k \in 1..(n + 1)
  <2>1. e[k] \in Nat
    BY WordsAre DEF Digits
  <2>2. w * (k - 1) \in Nat
    <3>1. k - 1 \in Nat
      OBVIOUS
    <3> QED BY <3>1
  <2>3. TwoTo(w * (k - 1)) \in Nat
    BY <2>2, TwoToIs
  <2> QED BY <2>1, <2>2, <2>3
<1>3. Digits(w, e, n) /\ e[n + 1] \in Words(w)
  BY <1>1 DEF Digits
<1>4. IsFiniteSet(S)
  BY FS_Interval
<1>5. Summable(f, S) /\ \A k \in S : g[k] = f[k]
  BY <1>2 DEF Summable
<1>6. \A k \in S \cup {n + 1} : g[k] \in Int
  BY <1>1, <1>2
<1>7. g[n + 1] = TwoTo(w * n) * e[n + 1]
  BY <1>1
<1>8. Low(w, e, n) = SumOver(f, S) /\ Low(w, e, n + 1) = SumOver(g, 1..(n + 1))
  BY DEF Low
<1> HIDE DEF f, g, S
<1>9. SumOver(g, S) = SumOver(f, S) /\ SumOver(f, S) \in Int
  BY <1>4, <1>5, SumSame
<1>10. SumOver(g, S \cup {n + 1}) = g[n + 1] + SumOver(g, S)
  BY <1>1, <1>4, <1>6, SumInsert
<1> QED BY <1>1, <1>3, <1>7, <1>8, <1>9, <1>10

LEMMA LowEmpty ==
  ASSUME NEW w, NEW e
  PROVE  Low(w, e, 0) = 0
<1>1. 1..0 = {}
  OBVIOUS
<1> QED BY <1>1, SumEmpty DEF Low

\* A digit more.
LEMMA BelowProduct ==
  ASSUME NEW M \in Nat \ {0}, NEW N \in Nat \ {0}, NEW q \in Int, NEW r \in 0..(M - 1)
  PROVE  /\ q \in 0..(N - 1) => M * q + r \in 0..(M * N - 1)
         /\ M * q + r \in 0..(M * N - 1) => q \in 0..(N - 1)
<1>1. M * N \in Nat /\ M * q \in Int
  OBVIOUS
<1>2. ASSUME q \in 0..(N - 1) PROVE M * q + r \in 0..(M * N - 1)
  <2>1. (N - 1) - q \in Nat /\ M * ((N - 1) - q) \in Nat
    BY <1>2
  <2>2. M * ((N - 1) - q) = M * N - M - M * q
    OBVIOUS
  <2>3. M * q \in Nat
    BY <1>2
  <2> QED BY <1>1, <2>1, <2>2, <2>3
<1>3. ASSUME M * q + r \in 0..(M * N - 1) PROVE q \in 0..(N - 1)
  <2>1. ~(q < 0)
    <3> SUFFICES ASSUME q < 0 PROVE FALSE
      OBVIOUS
    <3>1. -q - 1 \in Nat /\ M * (-q - 1) \in Nat /\ M * (-q - 1) = -(M * q) - M
      OBVIOUS
    <3> QED BY <1>1, <1>3, <3>1
  <2>2. ~(q >= N)
    <3> SUFFICES ASSUME q >= N PROVE FALSE
      OBVIOUS
    <3>1. q - N \in Nat /\ M * (q - N) \in Nat /\ M * (q - N) = M * q - M * N
      OBVIOUS
    <3> QED BY <1>1, <1>3, <3>1
  <2> QED BY <2>1, <2>2
<1> QED BY <1>2, <1>3

LEMMA LowIs ==
  ASSUME NEW w \in Nat, NEW n \in Nat
  PROVE  /\ w * n \in Nat /\ TwoTo(w * n) \in Nat \ {0}
         /\ \A e : Digits(w, e, n) => Low(w, e, n) \in 0..(TwoTo(w * n) - 1)
<1> DEFINE Good(k) == \A e : Digits(w, e, k) => Low(w, e, k) \in 0..(TwoTo(w * k) - 1)
           N == {k \in Nat : Good(k)}
<1>1. \A k \in Nat : w * k \in Nat /\ TwoTo(w * k) \in Nat \ {0}
  <2> TAKE k \in Nat
  <2>1. w * k \in Nat
    OBVIOUS
  <2> QED BY <2>1, TwoToIs
<1>2. 0 \in N
  <2>1. TwoTo(w * 0) \in Nat \ {0}
    BY <1>1
  <2> QED BY <2>1, LowEmpty
<1>3. ASSUME NEW k \in N PROVE k + 1 \in N
  <2> SUFFICES ASSUME NEW e, Digits(w, e, k + 1) PROVE Low(w, e, k + 1) \in 0..(TwoTo(w * (k + 1)) - 1)
    OBVIOUS
  <2>1. /\ Digits(w, e, k) /\ e[k + 1] \in Words(w) /\ Low(w, e, k) \in Int
        /\ Low(w, e, k + 1) = TwoTo(w * k) * e[k + 1] + Low(w, e, k)
    BY LowNext
  <2>2. Low(w, e, k) \in 0..(TwoTo(w * k) - 1)
    BY <2>1
  <2>3. TwoTo(w * (k + 1)) = TwoTo(w * k) * TwoTo(w)
    <3>1. w * (k + 1) = w * k + w /\ w * k \in Nat
      OBVIOUS
    <3> QED BY <3>1, TwoToSum
  <2>4. TwoTo(w * k) \in Nat \ {0} /\ TwoTo(w) \in Nat \ {0} /\ e[k + 1] \in 0..(TwoTo(w) - 1)
    BY <1>1, <2>1, WordsAre DEF Words
  <2>5. e[k + 1] \in Int
    BY <2>4
  <2>6. TwoTo(w * k) * e[k + 1] + Low(w, e, k) \in 0..(TwoTo(w * k) * TwoTo(w) - 1)
    BY <2>2, <2>4, <2>5, BelowProduct
  <2> QED BY <2>1, <2>3, <2>6
<1>4. N = Nat
  <2> HIDE DEF N
  <2> QED BY <1>2, <1>3, SetInduction DEF N
<1> QED BY <1>1, <1>4

\* A number has only one digit at every place.
LEMMA LowUnique ==
  ASSUME NEW w \in Nat, NEW n \in Nat, NEW e, NEW f, Digits(w, e, n), Digits(w, f, n),
         Low(w, e, n) = Low(w, f, n)
  PROVE  \A k \in 1..n : e[k] = f[k]
<1> DEFINE N == {j \in Nat : j <= n => (Low(w, e, j) = Low(w, f, j) => \A k \in 1..j : e[k] = f[k])}
<1>1. ASSUME NEW j \in Nat, j <= n PROVE Digits(w, e, j) /\ Digits(w, f, j)
  <2>1. \A k \in 1..j : k \in 1..n
    BY <1>1
  <2> QED BY <2>1 DEF Digits
<1>2. 0 \in N
  OBVIOUS
<1>3. ASSUME NEW j \in N PROVE j + 1 \in N
  <2> SUFFICES ASSUME j + 1 <= n, Low(w, e, j + 1) = Low(w, f, j + 1)
               PROVE  \A k \in 1..(j + 1) : e[k] = f[k]
    OBVIOUS
  <2> DEFINE M == TwoTo(w * j)
  <2>1. Digits(w, e, j + 1) /\ Digits(w, f, j + 1) /\ j \in Nat
    BY <1>1
  <2>2. /\ Digits(w, e, j) /\ e[j + 1] \in Words(w)
        /\ Low(w, e, j + 1) = M * e[j + 1] + Low(w, e, j)
    BY <2>1, LowNext
  <2>3. /\ Digits(w, f, j) /\ f[j + 1] \in Words(w)
        /\ Low(w, f, j + 1) = M * f[j + 1] + Low(w, f, j)
    BY <2>1, LowNext
  <2>4. M \in Nat \ {0} /\ Low(w, e, j) \in 0..(M - 1) /\ Low(w, f, j) \in 0..(M - 1)
    BY <2>1, <2>2, <2>3, LowIs
  <2> HIDE DEF M
  <2>5. e[j + 1] \in Int /\ f[j + 1] \in Int
    BY <2>2, <2>3, WordsAre
  <2>6. /\ (M * e[j + 1] + Low(w, e, j)) \div M = e[j + 1]
        /\ (M * e[j + 1] + Low(w, e, j)) % M = Low(w, e, j)
    BY <2>4, <2>5, DivModUnique
  <2>7. /\ (M * f[j + 1] + Low(w, f, j)) \div M = f[j + 1]
        /\ (M * f[j + 1] + Low(w, f, j)) % M = Low(w, f, j)
    BY <2>4, <2>5, DivModUnique
  <2>8. e[j + 1] = f[j + 1] /\ Low(w, e, j) = Low(w, f, j)
    BY <2>2, <2>3, <2>6, <2>7
  <2>9. \A k \in 1..j : e[k] = f[k]
    BY <2>8
  <2>10. \A k \in 1..(j + 1) : k \in 1..j \/ k = j + 1
    OBVIOUS
  <2> QED BY <2>8, <2>9, <2>10
<1>4. N = Nat
  <2> HIDE DEF N
  <2> QED BY <1>2, <1>3, SetInduction DEF N
<1> QED BY <1>4

\* The number does not depend on later words.
Agree(e, f, n) == \A k \in 1..n : f[k] = e[k]

LEMMA LowSame ==
  ASSUME NEW w \in Nat, NEW n \in Nat, NEW e, NEW f, Digits(w, e, n), Agree(e, f, n)
  PROVE  Low(w, f, n) = Low(w, e, n) /\ Digits(w, f, n)
<1>1. [k \in 1..n |-> TwoTo(w * (k - 1)) * f[k]] = [k \in 1..n |-> TwoTo(w * (k - 1)) * e[k]]
  BY DEF Agree
<1> QED BY <1>1 DEF Low, Digits, Agree

\* Every number has digits.
LEMMA LowExists ==
  ASSUME NEW w \in Nat, NEW n \in Nat, NEW v \in 0..(TwoTo(w * n) - 1)
  PROVE  \E e \in [1..n -> Words(w)] : Low(w, e, n) = v
<1> DEFINE Good(j) == \A x \in 0..(TwoTo(w * j) - 1) : \E e \in [1..j -> Words(w)] : Low(w, e, j) = x
           N == {j \in Nat : Good(j)}
<1>1. 0 \in N
  <2>1. TwoTo(w * 0) = 1
    <3>1. w * 0 = 0
      OBVIOUS
    <3> QED BY <3>1, TwoToIs
  <2>2. [k \in 1..0 |-> 0] \in [1..0 -> Words(w)]
    OBVIOUS
  <2>3. Low(w, [k \in 1..0 |-> 0], 0) = 0
    BY LowEmpty
  <2>4. \A x \in 0..(TwoTo(w * 0) - 1) : x = 0
    BY <2>1
  <2>5. Good(0)
    BY <2>2, <2>3, <2>4
  <2> QED BY <2>5
<1>2. ASSUME NEW j \in N PROVE j + 1 \in N
  <2> SUFFICES ASSUME NEW x \in 0..(TwoTo(w * (j + 1)) - 1)
               PROVE  \E e \in [1..(j + 1) -> Words(w)] : Low(w, e, j + 1) = x
    OBVIOUS
  <2> DEFINE M == TwoTo(w * j)
             q == x \div M
             r == x % M
  <2>1. M \in Nat \ {0} /\ TwoTo(w) \in Nat \ {0}
    BY LowIs, WordsAre
  <2>2. TwoTo(w * (j + 1)) = M * TwoTo(w)
    <3>1. w * (j + 1) = w * j + w /\ w * j \in Nat
      OBVIOUS
    <3> QED BY <3>1, TwoToSum
  <2> HIDE DEF M
  <2>3. q \in Int /\ r \in 0..(M - 1) /\ x = M * q + r
    <3>1. x \in Int
      OBVIOUS
    <3> QED BY <2>1, <3>1, DivMod
  <2> HIDE DEF q, r
  <2>4. q \in 0..(TwoTo(w) - 1)
    <3>1. M * q + r \in 0..(M * TwoTo(w) - 1)
      BY <2>2, <2>3
    <3> QED BY <2>1, <2>3, <3>1, BelowProduct
  <2>5. PICK e \in [1..j -> Words(w)] : Low(w, e, j) = r
    BY <2>3 DEF M
  <2> DEFINE f == [k \in 1..(j + 1) |-> IF k = j + 1 THEN q ELSE e[k]]
  <2>6. \A k \in 1..(j + 1) : f[k] \in Words(w)
    <3>1. \A k \in 1..(j + 1) : k = j + 1 \/ k \in 1..j
      OBVIOUS
    <3> QED BY <2>4, <3>1 DEF Words
  <2>7. Agree(e, f, j)
    <3>1. \A k \in 1..j : k \in 1..(j + 1) /\ k # j + 1
      OBVIOUS
    <3> QED BY <3>1 DEF Agree
  <2>8. f[j + 1] = q /\ f \in [1..(j + 1) -> Words(w)]
    BY <2>6
  <2> HIDE DEF f
  <2>9. Digits(w, e, j) /\ Digits(w, f, j + 1)
    BY <2>6 DEF Digits
  <2>10. Low(w, f, j) = r
    BY <2>5, <2>7, <2>9, LowSame
  <2>11. Low(w, f, j + 1) = M * q + r
    BY <2>8, <2>9, <2>10, LowNext DEF M
  <2> QED BY <2>3, <2>8, <2>11
<1>3. N = Nat
  <2> HIDE DEF N
  <2> QED BY <1>1, <1>2, SetInduction DEF N
<1> QED BY <1>3

\* The bits below the last word of a candidate, and those of the last word that are dropped.
Full(w, upper) == w * (Taken(w, upper) - 1)
Spare(w, upper) == w - Used(w, upper, Taken(w, upper))

LEMMA UsedIs ==
  ASSUME NEW w \in Nat \ {0}, NEW upper \in Nat \ {0}
  PROVE  /\ Full(w, upper) \in Nat /\ Spare(w, upper) \in Nat /\ w - Spare(w, upper) \in Nat
         /\ Full(w, upper) + (w - Spare(w, upper)) = Bits(upper)
         /\ \A k \in 1..(Taken(w, upper) - 1) : Used(w, upper, k) = w
<1> DEFINE t == Taken(w, upper)
           bits == Bits(upper)
<1>1. t \in Nat \ {0} /\ w * (t - 1) < bits /\ bits <= w * t /\ bits \in Nat
  BY TakenIs, BitsAre
<1> HIDE DEF t, bits
<1>2. w * (t - 1) \in Nat /\ w * t = w * (t - 1) + w
  <2>1. t - 1 \in Nat /\ t = (t - 1) + 1
    BY <1>1
  <2> QED BY <2>1
<1>3. Used(w, upper, t) = bits - w * (t - 1)
  BY <1>1, <1>2 DEF Used, bits
<1>4. ASSUME NEW k \in 1..(t - 1) PROVE Used(w, upper, k) = w
  <2>1. (t - 1) - k \in Nat /\ k \in Nat /\ t - 1 \in Nat
    BY <1>1
  <2>2. w * ((t - 1) - k) \in Nat /\ w * ((t - 1) - k) = w * (t - 1) - w * k /\ w * k \in Nat
    BY <2>1
  <2>3. w * (k - 1) = w * k - w
    BY <2>1
  <2>4. ~(bits - w * (k - 1) < w)
    BY <1>1, <1>2, <2>2, <2>3
  <2> QED BY <2>4 DEF Used, bits
<1> QED BY <1>1, <1>2, <1>3, <1>4 DEF Full, Spare, t, bits

LEMMA CandidateSplits ==
  ASSUME NEW w \in Nat \ {0}, NEW upper \in Nat \ {0}, NEW words \in Streams(w, upper)
  PROVE  /\ Digits(w, words, Taken(w, upper) - 1) /\ words[Taken(w, upper)] \in Words(w)
         /\ CandidateBig(w, upper, words)
              = TwoTo(Full(w, upper)) * Shift(words[Taken(w, upper)], Spare(w, upper))
                + Low(w, words, Taken(w, upper) - 1)
<1> DEFINE t == Taken(w, upper)
           n == t - 1
           S == 1..n
           f == [k \in 1..t |-> Digit(w, upper, words, k)]
           g == [k \in 1..n |-> TwoTo(w * (k - 1)) * words[k]]
<1>1. t \in Nat \ {0} /\ n \in Nat /\ t = n + 1 /\ n + 1 \notin S /\ S \cup {n + 1} = 1..t
  <2>1. t \in Nat \ {0}
    BY TakenIs
  <2> HIDE DEF t
  <2>2. n \in Nat /\ t = n + 1
    BY <2>1
  <2> HIDE DEF n
  <2> QED BY <2>1, <2>2
<1>2. \A k \in 1..t : words[k] \in Words(w)
  BY DEF Streams
<1>3. /\ \A k \in 1..t : Digit(w, upper, words, k) \in Nat
      /\ CandidateBig(w, upper, words) = SumOver(f, 1..t)
  BY CandidateBigIs
<1>4. \A k \in S : k \in 1..t /\ f[k] = g[k] /\ g[k] \in Int
  <2> TAKE k \in S
  <2>1. k \in 1..t /\ words[k] \in Nat /\ Used(w, upper, k) = w
    BY <1>1, <1>2, UsedIs, WordsAre
  <2>2. Shift(words[k], w - w) = words[k]
    <3>1. w - w = 0 /\ words[k] \div 1 = words[k]
      BY <2>1
    <3> QED BY <3>1, TwoToIs DEF Shift
  <2>3. f[k] = g[k]
    BY <2>1, <2>2 DEF Digit
  <2> QED BY <1>3, <2>1, <2>3
<1>5. \A k \in S \cup {n + 1} : f[k] \in Int
  BY <1>1, <1>3
<1>6. f[n + 1] = TwoTo(Full(w, upper)) * Shift(words[t], Spare(w, upper))
  BY <1>1 DEF Digit, Full, Spare
<1>7. IsFiniteSet(S)
  BY <1>1, FS_Interval
<1>8. Low(w, words, n) = SumOver(g, S)
  BY DEF Low
<1>9. Summable(g, S)
  BY <1>4 DEF Summable
<1>10. Digits(w, words, n)
  BY <1>2, <1>4 DEF Digits
<1>11. SumOver(f, S \cup {n + 1}) = SumOver(f, 1..t)
  BY <1>1
<1>12. words[t] \in Words(w)
  BY <1>1, <1>2
<1>13. \A k \in S : f[k] = g[k]
  BY <1>4
<1> HIDE DEF f, g, S
<1>14. SumOver(f, S) = SumOver(g, S)
  BY <1>7, <1>9, <1>13, SumSame
<1>15. SumOver(f, S \cup {n + 1}) = f[n + 1] + SumOver(f, S)
  BY <1>1, <1>5, <1>7, SumInsert
<1> QED BY <1>3, <1>6, <1>8, <1>10, <1>11, <1>12, <1>14, <1>15

\* Every number below TwoTo(Bits(upper)) has as many streams as the spare bits have values.
LEMMA StreamsFor ==
  ASSUME NEW w \in Nat \ {0}, NEW upper \in Nat \ {0}, NEW v \in 0..(upper - 1)
  PROVE  ExistsBijection(0..(TwoTo(Spare(w, upper)) - 1),
                         {words \in Streams(w, upper) : CandidateBig(w, upper, words) = v})
<1> DEFINE t == Taken(w, upper)
           n == t - 1
           s == Spare(w, upper)
           L == TwoTo(s)
           M == TwoTo(Full(w, upper))
           Q == TwoTo(w - s)
           From == {words \in Streams(w, upper) : CandidateBig(w, upper, words) = v}
           q == v \div M
           r == v % M
<1>1. /\ t \in Nat \ {0} /\ n \in Nat /\ t = n + 1
      /\ L \in Nat \ {0} /\ M \in Nat \ {0} /\ Q \in Nat \ {0}
      /\ L * Q = TwoTo(w) /\ M = TwoTo(w * n) /\ M * Q = TwoTo(Bits(upper))
  <2>1. t \in Nat \ {0}
    BY TakenIs
  <2>2. n \in Nat /\ t = n + 1
    BY <2>1
  <2>3. s \in Nat /\ w - s \in Nat /\ Full(w, upper) \in Nat /\ Full(w, upper) + (w - s) = Bits(upper)
    BY UsedIs
  <2>4. s + (w - s) = w
    BY <2>3
  <2>5. L \in Nat \ {0} /\ M \in Nat \ {0} /\ Q \in Nat \ {0}
    BY <2>3, TwoToIs
  <2>6. L * Q = TwoTo(w)
    <3> HIDE DEF s
    <3>1. TwoTo(s + (w - s)) = TwoTo(s) * TwoTo(w - s)
      BY <2>3, TwoToSum
    <3> QED BY <2>4, <3>1
  <2>7. M * Q = TwoTo(Bits(upper))
    <3> HIDE DEF s
    <3>1. TwoTo(Full(w, upper) + (w - s)) = TwoTo(Full(w, upper)) * TwoTo(w - s)
      BY <2>3, TwoToSum
    <3> QED BY <2>3, <3>1
  <2>8. M = TwoTo(w * n)
    BY DEF Full
  <2> HIDE DEF t, s, L, M, Q
  <2> QED BY <2>1, <2>2, <2>5, <2>6, <2>7, <2>8
<1> HIDE DEF L, M, Q, s, t, n
<1>2. q \in Int /\ r \in 0..(M - 1) /\ v = M * q + r
  <2>1. v \in Int
    OBVIOUS
  <2> QED BY <1>1, <2>1, DivMod
<1> HIDE DEF q, r
<1>3. q \in 0..(Q - 1)
  <2>1. TwoTo(Bits(upper)) > upper /\ TwoTo(Bits(upper)) \in Nat
    BY BitsAre, TwoToIs
  <2>2. M * q + r \in 0..(M * Q - 1)
    BY <1>1, <1>2, <2>1
  <2> QED BY <1>1, <1>2, <2>2, BelowProduct
<1>4. PICK e \in [1..n -> Words(w)] : Low(w, e, n) = r
  <2>1. r \in 0..(TwoTo(w * n) - 1)
    BY <1>1, <1>2
  <2> QED BY <1>1, <2>1, LowExists
<1>5. Digits(w, e, n)
  BY DEF Digits
<1> DEFINE F == [j \in 0..(L - 1) |-> [k \in 1..t |-> IF k = t THEN L * q + j ELSE e[k]]]
<1>6. ASSUME NEW words \in Streams(w, upper)
      PROVE  /\ Digits(w, words, n) /\ words[t] \in Words(w) /\ words[t] \in Int
             /\ DOMAIN words = 1..t
             /\ CandidateBig(w, upper, words) = M * (words[t] \div L) + Low(w, words, n)
             /\ Low(w, words, n) \in 0..(M - 1)
  <2>1. /\ Digits(w, words, n) /\ words[t] \in Words(w)
        /\ CandidateBig(w, upper, words) = M * (words[t] \div L) + Low(w, words, n)
    BY CandidateSplits DEF t, n, M, L, s, Shift
  <2>2. Low(w, words, n) \in 0..(M - 1)
    BY <1>1, <2>1, LowIs
  <2>3. DOMAIN words = 1..t
    BY DEF Streams, t
  <2>4. words[t] \in Int
    <3>1. w \in Nat
      OBVIOUS
    <3>2. words[t] \in Nat
      BY ONLY <2>1, <3>1, WordsAre
    <3> QED BY <3>2
  <2> QED BY ONLY <2>1, <2>2, <2>3, <2>4
<1>7. ASSUME NEW j \in 0..(L - 1)
      PROVE  F[j] \in From /\ F[j][t] = L * q + j
  <2>1. L * q + j \in Words(w)
    <3>1. L * q + j \in 0..(L * Q - 1)
      BY <1>1, <1>2, <1>3, BelowProduct
    <3> QED BY <1>1, <3>1 DEF Words
  <2> DEFINE f == [k \in 1..t |-> IF k = t THEN L * q + j ELSE e[k]]
  <2>2. F[j] = f
    OBVIOUS
  <2>3. f[t] = L * q + j
    BY <1>1
  <2>4. \A k \in 1..t : k = t \/ k \in 1..n
    BY <1>1
  <2>5. f \in [1..t -> Words(w)]
    BY <2>1, <2>4
  <2>6. Agree(e, f, n)
    <3>1. \A k \in 1..n : k \in 1..t /\ k # t
      BY <1>1
    <3> QED BY <3>1 DEF Agree
  <2> HIDE DEF F, f
  <2>7. f \in Streams(w, upper)
    BY <2>5 DEF Streams, t
  <2>8. Low(w, f, n) = r
    BY <1>1, <1>4, <1>5, <2>6, LowSame
  <2>9. (L * q + j) \div L = q
    BY <1>1, <1>2, DivModUnique
  <2>10. CandidateBig(w, upper, f) = M * q + r
    BY <1>6, <2>3, <2>7, <2>8, <2>9
  <2> QED BY <1>2, <2>2, <2>3, <2>7, <2>10
<1>8. F \in [0..(L - 1) -> From]
  BY <1>7
<1>9. ASSUME NEW i \in 0..(L - 1), NEW j \in 0..(L - 1), F[i] = F[j] PROVE i = j
  <2> HIDE DEF F
  <2>1. L * q + i = L * q + j
    BY <1>7, <1>9
  <2>2. L * q \in Int
    BY <1>1, <1>2
  <2> HIDE DEF q
  <2> QED BY <2>1, <2>2
<1>10. ASSUME NEW words \in From PROVE \E j \in 0..(L - 1) : F[j] = words
  <2> DEFINE p == words[t] \div L
             j == words[t] % L
  <2>1. words \in Streams(w, upper) /\ CandidateBig(w, upper, words) = v
    OBVIOUS
  <2>2. /\ Digits(w, words, n) /\ words[t] \in Int /\ DOMAIN words = 1..t
        /\ M * p + Low(w, words, n) = v /\ Low(w, words, n) \in 0..(M - 1)
    BY <1>6, <2>1
  <2>3. p \in Int /\ j \in 0..(L - 1) /\ words[t] = L * p + j
    <3>1. words[t] \in Int
      BY <2>2
    <3> QED BY <1>1, <3>1, DivMod
  <2> HIDE DEF p, j
  <2>4. (M * p + Low(w, words, n)) \div M = p /\ (M * p + Low(w, words, n)) % M = Low(w, words, n)
    BY <1>1, <2>2, <2>3, DivModUnique
  <2>5. (M * q + r) \div M = q /\ (M * q + r) % M = r
    BY <1>1, <1>2, DivModUnique
  <2>6. p = q /\ Low(w, words, n) = r
    BY <1>2, <2>2, <2>4, <2>5
  <2>7. \A k \in 1..n : words[k] = e[k]
    <3>1. Low(w, words, n) = Low(w, e, n)
      BY <1>4, <2>6
    <3>2. w \in Nat /\ n \in Nat /\ Digits(w, words, n) /\ Digits(w, e, n)
      BY <1>1, <1>5, <2>2
    <3> QED BY ONLY <3>1, <3>2, LowUnique
  <2>8. F[j] = [k \in 1..t |-> IF k = t THEN L * q + j ELSE e[k]]
    BY <2>3
  <2>9. \A k \in 1..t : k = t \/ k \in 1..n
    BY <1>1
  <2>10. \A k \in 1..t : F[j][k] = words[k]
    BY <2>3, <2>6, <2>7, <2>8, <2>9
  <2>11. DOMAIN F[j] = 1..t /\ F[j] = [k \in 1..t |-> F[j][k]]
    BY <2>8
  <2>12. words = [k \in 1..t |-> words[k]]
    BY <2>1, <2>2 DEF Streams, t
  <2> HIDE DEF F
  <2>13. F[j] = words
    BY <2>10, <2>11, <2>12
  <2> QED BY <2>3, <2>13
<1> HIDE DEF F, From
<1>11. F \in Bijection(0..(L - 1), From)
  <2> DEFINE J == 0..(L - 1)
  <2> HIDE DEF J
  <2>1. F \in [J -> From] /\ DOMAIN F = J
    BY <1>8 DEF J
  <2>2. F \in Injection(J, From)
    BY <1>9, <2>1 DEF J, Injection, IsInjective
  <2>3. F \in Surjection(J, From)
    BY <1>10, <2>1 DEF J, Surjection
  <2> QED BY <2>2, <2>3 DEF J, Bijection
<1>12. ExistsBijection(0..(L - 1), From)
  BY <1>11, Zenon DEF ExistsBijection
<1> QED BY <1>12 DEF From, L, s

LEMMA AreUnbiased ==
  ASSUME NEW w \in Nat \ {0}, NEW upper \in Nat \ {0}
  PROVE  Unbiased(w, upper)
<1> DEFINE From(v) == {words \in Streams(w, upper) : CandidateBig(w, upper, words) = v}
           L == TwoTo(Spare(w, upper))
           J == 0..(L - 1)
<1>1. L \in Nat \ {0}
  BY UsedIs, TwoToIs
<1>2. IsFiniteSet(J) /\ Cardinality(J) = L
  <2> HIDE DEF L
  <2>1. 0 \in Int /\ L - 1 \in Int
    BY <1>1
  <2>2. IsFiniteSet(J) /\ Cardinality(J) = IF 0 > L - 1 THEN 0 ELSE (L - 1) - 0 + 1
    BY <2>1, FS_Interval
  <2> QED BY <1>1, <2>2
<1>3. ASSUME NEW v \in 0..(upper - 1) PROVE From(v) # {} /\ Cardinality(From(v)) = L
  <2>1. ExistsBijection(J, From(v))
    BY StreamsFor
  <2> HIDE DEF J, From
  <2>2. IsFiniteSet(From(v)) /\ Cardinality(From(v)) = L
    BY <1>2, <2>1, FS_Bijection
  <2>3. From(v) # {}
    <3> HIDE DEF L
    <3> SUFFICES ASSUME From(v) = {} PROVE FALSE
      OBVIOUS
    <3>1. Cardinality(From(v)) = 0
      BY FS_EmptySet
    <3> QED BY <1>1, <2>2, <3>1
  <2> QED BY <2>2, <2>3
<1>4. 0 \in 0..(upper - 1)
  OBVIOUS
<1> HIDE DEF From, L
<1>5. \A v \in 0..(upper - 1) : From(v) # {} /\ Cardinality(From(v)) = Cardinality(From(0))
  BY <1>3, <1>4
<1> QED BY <1>5 DEF Unbiased, From

LEMMA AreSameDraws ==
  ASSUME NEW w \in Nat \ {0}, NEW upper \in Nat \ {0}
  PROVE  SameDraws(w, upper)
<1> SUFFICES ASSUME Bits(upper) <= 2 * w, NEW words \in Streams(w, upper)
             PROVE  Candidate(w, upper, words) = CandidateBig(w, upper, words)
  BY DEF SameDraws
<1> DEFINE t == Taken(w, upper)
           bits == Bits(upper)
           s == Spare(w, upper)
<1>1. t \in Nat \ {0} /\ w * (t - 1) < bits /\ bits <= w * t /\ bits \in Nat
  BY TakenIs, BitsAre
<1>2. /\ Full(w, upper) = w * (t - 1)
      /\ Full(w, upper) \in Nat /\ s \in Nat /\ Full(w, upper) + (w - s) = bits
  BY UsedIs DEF Full
<1>3. /\ Digits(w, words, t - 1)
      /\ CandidateBig(w, upper, words) = TwoTo(Full(w, upper)) * Shift(words[t], s) + Low(w, words, t - 1)
  BY CandidateSplits
<1>4. \A k \in 1..t : words[k] \in Nat
  BY StreamsAre
<1>5. t = 1 \/ t = 2
  <2> HIDE DEF t, bits
  <2> SUFFICES ASSUME t > 2 PROVE FALSE
    BY <1>1
  <2>1. PICK d \in Nat : t = d + 3
    <3>1. t - 3 \in Nat /\ t = (t - 3) + 3
      BY <1>1
    <3> QED BY <3>1
  <2>2. w * (t - 1) = w * d + 2 * w /\ w * d \in Nat
    BY <2>1
  <2> QED BY <1>1, <2>2 DEF bits
<1>6. CASE t = 1
  <2>1. Full(w, upper) = 0 /\ bits <= w /\ s = w - bits
    BY <1>1, <1>2, <1>6
  <2>2. Low(w, words, t - 1) = 0
    <3>1. t - 1 = 0
      BY <1>6
    <3> QED BY <3>1, LowEmpty
  <2>3. Shift(words[1], s) \in Nat
    <3>1. words[1] \in Nat /\ s \in Nat
      BY <1>2, <1>4, <1>6
    <3> QED BY ONLY <3>1, ShiftIs
  <2>4. TwoTo(0) = 1
    BY TwoToIs
  <2> HIDE DEF t, s
  <2>5. CandidateBig(w, upper, words) = Shift(words[1], s)
    BY <1>3, <1>6, <2>1, <2>2, <2>3, <2>4
  <2>6. Candidate(w, upper, words) = Shift(words[1], w - bits)
    BY <2>1 DEF Candidate
  <2> QED BY <2>1, <2>5, <2>6
<1>7. CASE t = 2
  <2>1. Full(w, upper) = w /\ ~(bits <= w) /\ s = 2 * w - bits /\ t - 1 = 0 + 1
    BY <1>1, <1>2, <1>7
  <2>2. words[1] \in Nat /\ words[2] \in Nat
    BY <1>4, <1>7
  <2>3. Low(w, words, t - 1) = words[1]
    <3>1. Low(w, words, 0 + 1) = TwoTo(w * 0) * words[0 + 1] + Low(w, words, 0)
      <4>1. Digits(w, words, 0 + 1)
        BY <1>3, <2>1
      <4> QED BY <4>1, LowNext
    <3>2. w * 0 = 0 /\ 0 + 1 = 1 /\ Low(w, words, 0) = 0 /\ TwoTo(0) = 1
      BY LowEmpty, TwoToIs
    <3> QED BY <2>1, <2>2, <3>1, <3>2
  <2>4. Shift(words[2], s) \in Nat /\ TwoTo(w) \in Nat
    BY <1>2, <2>2, ShiftIs, TwoToIs
  <2> HIDE DEF t, s
  <2>5. CandidateBig(w, upper, words) = words[1] + TwoTo(w) * Shift(words[2], s)
    <3>1. TwoTo(w) * Shift(words[2], s) \in Nat
      BY <2>4
    <3> QED BY <1>3, <1>7, <2>1, <2>2, <2>3, <3>1
  <2>6. Candidate(w, upper, words) = words[1] + TwoTo(w) * Shift(words[2], 2 * w - bits)
    BY <2>1 DEF Candidate
  <2> QED BY <2>1, <2>5, <2>6
<1> QED BY <1>5, <1>6, <1>7

\* For every modulus and every word width, a candidate below the modulus is as likely as
\* any other, and below_big draws what below_u64 draws from the same words (random.rs),
\* as far as below_u64 reaches: which function an executor calls does not show.
THEOREM DrawsAreUnbiased == Spec => []DrawsUnbiased
<1>1. MatrixInv => DrawsUnbiased
  <2> SUFFICES ASSUME MatrixInv, task.m > 0, NEW w \in Widths
               PROVE  Unbiased(w, task.m) /\ SameDraws(w, task.m)
    BY DEF DrawsUnbiased
  <2>1. task.m \in Nat \ {0}
    BY DEF MatrixInv, TaskTypeOK
  <2>2. w \in Nat \ {0}
    BY RunAssumption
  <2> QED BY <2>1, <2>2, AreUnbiased, AreSameDraws
<1> QED BY <1>1, MatrixInvariant, PTL

=============================================================================
