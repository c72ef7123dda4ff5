----------------------------- MODULE SumTheorems ------------------------------
(***************************************************************************)
(* Induction on the natural numbers and on finite sets, recursion, least   *)
(* and greatest elements, and what follows about the sums over finite sets *)
(* that the models are built from (MapThenSumSet, SumFunction).            *)
(***************************************************************************)
EXTENDS Integers, FiniteSets, FiniteSetsExt, FiniteSetTheorems, WellFoundedInduction, TLAPS

\* What holds of 0 and of every next number holds of all: S is the set of the numbers
\* it holds of.
LEMMA SetInduction ==
  ASSUME NEW S \in SUBSET Nat, 0 \in S, \A n \in S : n + 1 \in S
  PROVE  S = Nat
<1> DEFINE T == Nat \ S
           R == OpToRel(<, Nat)
<1> SUFFICES ASSUME T # {} PROVE FALSE
  OBVIOUS
<1>1. T \subseteq Nat /\ IsWellFoundedOn(R, Nat)
  BY NatLessThanWellFounded
<1>2. \A x, y \in Nat : y < x => <<y, x>> \in R
  BY Zenon DEF OpToRel
<1> HIDE DEF R
<1>3. PICK x \in T : \A y \in T : ~ (<<y, x>> \in R)
  <2> HIDE DEF T
  <2> QED BY <1>1, WFMin
<1>4. x # 0 /\ x \in Nat
  OBVIOUS
<1>5. x - 1 \in Nat /\ x - 1 < x
  BY <1>4
<1>6. x - 1 \in S
  BY <1>2, <1>3, <1>4, <1>5
<1> QED BY <1>5, <1>6

-----------------------------------------------------------------------------

SumOver(f, S) == MapThenSumSet(LAMBDA x : f[x], S)

Chosen(s) == CHOOSE x \in s : TRUE

\* g sums f over every member of T, an element at a time.
Sums(f, T, g) == g = [s \in T |-> IF s = {} THEN 0 ELSE f[Chosen(s)] + g[s \ {Chosen(s)}]]

LEMMA SumsExist ==
  ASSUME NEW f, NEW S, IsFiniteSet(S)
  PROVE  \E g : Sums(f, SUBSET S, g)
<1> DEFINE Small(n) == {s \in SUBSET S : Cardinality(s) <= n}
           N == {n \in Nat : \E g : Sums(f, Small(n), g)}
<1>1. \A s \in SUBSET S : IsFiniteSet(s) /\ Cardinality(s) \in Nat /\ Cardinality(s) <= Cardinality(S)
  BY FS_Subset, FS_CardinalityType
<1>2. 0 \in N
  <2>1. \A s \in Small(0) : s = {}
    BY <1>1, FS_EmptySet
  <2>2. Sums(f, Small(0), [s \in Small(0) |-> 0])
    <3> HIDE DEF Small
    <3> QED BY <2>1 DEF Sums
  <2> QED BY <2>2
<1>3. ASSUME NEW n \in N PROVE n + 1 \in N
  <2>1. PICK g : Sums(f, Small(n), g)
    OBVIOUS
  <2> DEFINE h == [s \in Small(n + 1) |-> IF s = {} THEN 0 ELSE f[Chosen(s)] + g[s \ {Chosen(s)}]]
  <2>2. \A s \in Small(n + 1) : s # {} => s \ {Chosen(s)} \in Small(n)
    <3> TAKE s \in Small(n + 1)
    <3> HAVE s # {}
    <3>1. Chosen(s) \in s
      BY DEF Chosen
    <3>2. Cardinality(s \ {Chosen(s)}) = Cardinality(s) - 1 /\ s \ {Chosen(s)} \in SUBSET S
      BY <1>1, <3>1, FS_RemoveElement
    <3> QED BY <1>1, <3>2
  <2>3. Small(n) \subseteq Small(n + 1)
    BY <1>1
  <2> HIDE DEF Small
  <2>4. \A s \in Small(n) : h[s] = g[s]
    BY <2>1, <2>3 DEF Sums
  <2>5. Sums(f, Small(n + 1), h)
    BY <2>2, <2>4 DEF Sums
  <2> QED BY <2>5
<1>4. N = Nat
  <2> HIDE DEF N
  <2> QED BY <1>2, <1>3, SetInduction DEF N
<1>5. Cardinality(S) \in N /\ Small(Cardinality(S)) = SUBSET S
  BY <1>1, <1>4, FS_CardinalityType
<1> QED BY <1>5

\* The value of the fold is one of those sums.
LEMMA SumIs ==
  ASSUME NEW f, NEW S, IsFiniteSet(S)
  PROVE  \E g : Sums(f, SUBSET S, g) /\ SumOver(f, S) = g[S]
<1> DEFINE g == CHOOSE h : Sums(f, SUBSET S, h)
<1>1. Sums(f, SUBSET S, g)
  BY SumsExist
<1>2. SumOver(f, S) = g[S]
  BY DEF SumOver, MapThenSumSet, MapThenFoldSet, Sums, Chosen
<1> HIDE DEF g
<1> QED BY <1>1, <1>2

LEMMA SumsAgree ==
  ASSUME NEW f, NEW S, IsFiniteSet(S), NEW U \in SUBSET S, NEW g, NEW h,
         Sums(f, SUBSET S, g), Sums(f, SUBSET U, h)
  PROVE  g[U] = h[U]
<1> DEFINE N == {n \in Nat : \A s \in SUBSET U : Cardinality(s) <= n => g[s] = h[s]}
<1>1. \A s \in SUBSET S : IsFiniteSet(s) /\ Cardinality(s) \in Nat
  BY FS_Subset, FS_CardinalityType
<1>2. g[{}] = 0 /\ h[{}] = 0
  BY DEF Sums
<1>3. 0 \in N
  <2>1. \A s \in SUBSET U : Cardinality(s) <= 0 => s = {}
    BY <1>1, FS_EmptySet
  <2> QED BY <1>2, <2>1
<1>4. ASSUME NEW n \in N PROVE n + 1 \in N
  <2> SUFFICES ASSUME NEW s \in SUBSET U, Cardinality(s) <= n + 1, s # {} PROVE g[s] = h[s]
    BY <1>2
  <2>1. Chosen(s) \in s
    BY DEF Chosen
  <2>2. Cardinality(s \ {Chosen(s)}) = Cardinality(s) - 1 /\ s \ {Chosen(s)} \in SUBSET U
    BY <1>1, <2>1, FS_RemoveElement
  <2>3. g[s \ {Chosen(s)}] = h[s \ {Chosen(s)}]
    BY <1>1, <2>2
  <2>4. g[s] = f[Chosen(s)] + g[s \ {Chosen(s)}] /\ h[s] = f[Chosen(s)] + h[s \ {Chosen(s)}]
    <3>1. s \in SUBSET S /\ s \in SUBSET U /\ s # {}
      OBVIOUS
    <3> QED BY ONLY <3>1, Sums(f, SUBSET S, g), Sums(f, SUBSET U, h) DEF Sums
  <2> QED BY <2>3, <2>4
<1>5. N = Nat
  <2> HIDE DEF N
  <2> QED BY <1>3, <1>4, SetInduction DEF N
<1> QED BY <1>1, <1>5

LEMMA SumEmpty ==
  ASSUME NEW f
  PROVE  SumOver(f, {}) = 0
<1>1. IsFiniteSet({})
  BY FS_EmptySet
<1>2. PICK g : Sums(f, SUBSET {}, g) /\ SumOver(f, {}) = g[{}]
  BY <1>1, SumIs
<1> QED BY <1>2 DEF Sums

LEMMA SumFirst ==
  ASSUME NEW f, NEW S, IsFiniteSet(S), S # {}
  PROVE  Chosen(S) \in S /\ SumOver(f, S) = f[Chosen(S)] + SumOver(f, S \ {Chosen(S)})
<1> DEFINE U == S \ {Chosen(S)}
<1>1. Chosen(S) \in S
  BY DEF Chosen
<1>2. IsFiniteSet(U)
  BY FS_RemoveElement
<1>3. PICK g : Sums(f, SUBSET S, g) /\ SumOver(f, S) = g[S]
  BY SumIs
<1>4. PICK h : Sums(f, SUBSET U, h) /\ SumOver(f, U) = h[U]
  BY <1>2, SumIs
<1>5. g[U] = h[U]
  <2>1. U \in SUBSET S
    OBVIOUS
  <2> HIDE DEF U
  <2> QED BY <1>3, <1>4, <2>1, SumsAgree
<1>6. g[S] = f[Chosen(S)] + g[U]
  BY <1>3 DEF Sums
<1> QED BY <1>1, <1>3, <1>4, <1>5, <1>6

\* The order in which a sum is taken does not matter.
LEMMA SumRemove ==
  ASSUME NEW f, NEW S, IsFiniteSet(S), \A x \in S : f[x] \in Int
  PROVE  /\ SumOver(f, S) \in Int
         /\ \A x \in S : SumOver(f, S) = f[x] + SumOver(f, S \ {x})
<1> DEFINE Good(s) == /\ SumOver(f, s) \in Int
                      /\ \A x \in s : SumOver(f, s) = f[x] + SumOver(f, s \ {x})
           N == {n \in Nat : \A s \in SUBSET S : Cardinality(s) <= n => Good(s)}
<1>1. \A s \in SUBSET S : IsFiniteSet(s) /\ Cardinality(s) \in Nat
  BY FS_Subset, FS_CardinalityType
<1>2. Good({})
  BY SumEmpty
<1>3. 0 \in N
  <2> HIDE DEF Good
  <2> QED BY <1>1, <1>2, FS_EmptySet
<1>4. ASSUME NEW n \in N PROVE n + 1 \in N
  <2> SUFFICES ASSUME NEW s \in SUBSET S, Cardinality(s) <= n + 1, s # {} PROVE Good(s)
    <3> HIDE DEF Good
    <3> QED BY <1>2
  <2> DEFINE p == Chosen(s)
  <2>1. p \in s /\ SumOver(f, s) = f[p] + SumOver(f, s \ {p})
    BY <1>1, SumFirst
  <2> HIDE DEF p
  <2>2. \A x \in s : Good(s \ {x})
    <3> TAKE x \in s
    <3>1. Cardinality(s \ {x}) = Cardinality(s) - 1 /\ s \ {x} \in SUBSET S
      BY <1>1, FS_RemoveElement
    <3> HIDE DEF Good
    <3> QED BY <1>1, <3>1
  <2>3. SumOver(f, s) \in Int
    BY <2>1, <2>2
  <2>4. ASSUME NEW x \in s, x # p PROVE SumOver(f, s) = f[x] + SumOver(f, s \ {x})
    <3> DEFINE r == s \ {p, x}
    <3>1. (s \ {p}) \ {x} = r /\ (s \ {x}) \ {p} = r
      OBVIOUS
    <3>2. SumOver(f, s \ {p}) = f[x] + SumOver(f, r)
      <4>1. x \in s \ {p}
        BY <2>4
      <4> QED BY <2>1, <2>2, <3>1, <4>1
    <3>3. SumOver(f, s \ {x}) = f[p] + SumOver(f, r)
      <4>1. p \in s \ {x}
        BY <2>1, <2>4
      <4> QED BY <2>2, <3>1, <4>1
    <3>4. SumOver(f, r) \in Int
      <4>1. Cardinality(s \ {p}) = Cardinality(s) - 1 /\ s \ {p} \in SUBSET S
        BY <1>1, <2>1, FS_RemoveElement
      <4>2. Cardinality((s \ {p}) \ {x}) = Cardinality(s \ {p}) - 1
        BY <1>1, <2>4, <4>1, FS_RemoveElement
      <4>3. Cardinality(r) <= n /\ r \in SUBSET S
        <5>1. Cardinality(r) = Cardinality(s \ {p}) - 1 /\ n \in Nat
          BY <3>1, <4>2
        <5>2. r \in SUBSET S
          OBVIOUS
        <5> HIDE DEF r
        <5> QED BY <1>1, <4>1, <5>1, <5>2
      <4>4. Good(r)
        <5> HIDE DEF Good, r
        <5> QED BY <4>3
      <4> QED BY <4>4
    <3> HIDE DEF r
    <3>5. f[p] \in Int /\ f[x] \in Int
      BY <2>1
    <3> QED BY <2>1, <3>2, <3>3, <3>4, <3>5
  <2> QED BY <2>1, <2>3, <2>4
<1>5. N = Nat
  <2> HIDE DEF N
  <2> QED BY <1>3, <1>4, SetInduction DEF N
<1>6. Good(S)
  <2> HIDE DEF Good
  <2> QED BY <1>1, <1>5
<1> QED BY <1>6

\* What holds of the empty set and is kept when an element is added holds of every
\* finite set: C is the set of the sets it holds of.
LEMMA FiniteInduction ==
  ASSUME NEW S, IsFiniteSet(S), NEW C, {} \in C,
         \A T \in SUBSET S : \A x \in S \ T : T \in C => T \cup {x} \in C
  PROVE  S \in C
<1> DEFINE N == {n \in Nat : \A T \in SUBSET S : Cardinality(T) = n => T \in C}
<1>1. \A T \in SUBSET S : IsFiniteSet(T) /\ Cardinality(T) \in Nat
  BY FS_Subset, FS_CardinalityType
<1>2. 0 \in N
  <2>1. \A T \in SUBSET S : Cardinality(T) = 0 => T = {}
    BY <1>1, FS_EmptySet
  <2> QED BY <2>1
<1>3. ASSUME NEW n \in N PROVE n + 1 \in N
  <2> SUFFICES ASSUME NEW T \in SUBSET S, Cardinality(T) = n + 1 PROVE T \in C
    OBVIOUS
  <2>1. PICK x \in T : TRUE
    BY <1>1, FS_EmptySet
  <2>2. Cardinality(T \ {x}) = n /\ T \ {x} \in SUBSET S
    <3>1. Cardinality(T \ {x}) = Cardinality(T) - 1
      BY <1>1, FS_RemoveElement
    <3> QED BY <3>1
  <2>3. T \ {x} \in C /\ (T \ {x}) \cup {x} = T
    BY <2>2
  <2> QED BY <2>3
<1>4. N = Nat
  <2> HIDE DEF N
  <2> QED BY <1>2, <1>3, SetInduction DEF N
<1> QED BY <1>1, <1>4

LEMMA SumInsert ==
  ASSUME NEW f, NEW S, IsFiniteSet(S), NEW x, x \notin S, \A y \in S \cup {x} : f[y] \in Int
  PROVE  /\ SumOver(f, S) \in Int
         /\ SumOver(f, S \cup {x}) = f[x] + SumOver(f, S)
<1>1. IsFiniteSet(S \cup {x}) /\ (S \cup {x}) \ {x} = S
  BY FS_AddElement
<1>2. SumOver(f, S \cup {x}) = f[x] + SumOver(f, (S \cup {x}) \ {x})
  BY <1>1, SumRemove
<1> QED BY <1>1, <1>2, SumRemove

LEMMA SumMonotone ==
  ASSUME NEW f, NEW S, IsFiniteSet(S), \A x \in S : f[x] \in Nat, NEW T \in SUBSET S
  PROVE  SumOver(f, S) \in Nat /\ SumOver(f, T) \in Nat /\ SumOver(f, T) <= SumOver(f, S)
<1> DEFINE C == {U \in SUBSET S : SumOver(f, U) \in Nat /\ SumOver(f, U \cap T) \in Nat
                                    /\ SumOver(f, U \cap T) <= SumOver(f, U)}
<1>1. {} \in C
  <2>1. {} \cap T = {}
    OBVIOUS
  <2> QED BY <2>1, SumEmpty
<1>2. ASSUME NEW U \in SUBSET S, NEW x \in S \ U, U \in C PROVE U \cup {x} \in C
  <2>1. IsFiniteSet(U) /\ IsFiniteSet(U \cap T)
    BY FS_Subset
  <2>2. SumOver(f, U \cup {x}) = f[x] + SumOver(f, U)
    BY <2>1, SumInsert
  <2>3. CASE x \in T
    <3>1. (U \cup {x}) \cap T = (U \cap T) \cup {x}
      BY <2>3
    <3>2. SumOver(f, (U \cap T) \cup {x}) = f[x] + SumOver(f, U \cap T)
      BY <2>1, SumInsert
    <3> QED BY <1>2, <2>2, <3>1, <3>2
  <2>4. CASE x \notin T
    <3>1. (U \cup {x}) \cap T = U \cap T
      BY <2>4
    <3>2. f[x] \in Nat
      OBVIOUS
    <3>3. SumOver(f, U) \in Nat /\ SumOver(f, U \cap T) <= SumOver(f, U) /\ SumOver(f, U \cap T) \in Nat
      BY <1>2
    <3>4. SumOver(f, U \cup {x}) \in Nat /\ SumOver(f, U \cap T) <= SumOver(f, U \cup {x})
      BY <2>2, <3>2, <3>3
    <3> QED BY <3>1, <3>3, <3>4
  <2> QED BY <2>3, <2>4
<1>3. S \in C
  <2> HIDE DEF C
  <2> QED BY <1>1, <1>2, FiniteInduction
<1>4. S \cap T = T
  OBVIOUS
<1> QED BY <1>3, <1>4

\* A sum over indices is the sum over what they stand for, each counted once.
LEMMA SumImage ==
  ASSUME NEW S, IsFiniteSet(S), NEW g, \A x, y \in S : g[x] = g[y] => x = y,
         NEW f, NEW h, \A x \in S : f[g[x]] \in Int /\ h[x] = f[g[x]]
  PROVE  SumOver(h, S) = SumOver(f, {g[x] : x \in S})
<1> DEFINE Image(T) == {g[x] : x \in T}
           C == {T \in SUBSET S : IsFiniteSet(Image(T)) /\ SumOver(h, T) = SumOver(f, Image(T))}
<1>1. {} \in C
  <2>1. Image({}) = {}
    OBVIOUS
  <2> QED BY <2>1, SumEmpty, FS_EmptySet
<1>2. ASSUME NEW T \in SUBSET S, NEW x \in S \ T, T \in C PROVE T \cup {x} \in C
  <2>1. Image(T \cup {x}) = Image(T) \cup {g[x]} /\ g[x] \notin Image(T)
    OBVIOUS
  <2>2. IsFiniteSet(T) /\ IsFiniteSet(Image(T)) /\ IsFiniteSet(Image(T) \cup {g[x]})
    BY <1>2, FS_Subset, FS_AddElement
  <2>3. SumOver(h, T \cup {x}) = h[x] + SumOver(h, T)
    BY <2>2, SumInsert
  <2>4. SumOver(f, Image(T) \cup {g[x]}) = f[g[x]] + SumOver(f, Image(T))
    <3>1. \A y \in Image(T) \cup {g[x]} : f[y] \in Int
      OBVIOUS
    <3> HIDE DEF Image
    <3> QED BY <2>1, <2>2, <3>1, SumInsert
  <2> QED BY <1>2, <2>1, <2>2, <2>3, <2>4
<1>3. S \in C
  <2> HIDE DEF C
  <2> QED BY <1>1, <1>2, FiniteInduction
<1> QED BY <1>3

LEMMA LeastExists ==
  ASSUME NEW S \in SUBSET Nat, S # {}
  PROVE  \E x \in S : \A y \in S : x <= y
<1> DEFINE Below == {n \in Nat : \A y \in S : n <= y}
<1>1. 0 \in Below
  OBVIOUS
<1>2. CASE \A n \in Below : n + 1 \in Below
  <2>1. Below = Nat
    <3> HIDE DEF Below
    <3>1. Below \in SUBSET Nat
      BY DEF Below
    <3> QED BY <1>1, <1>2, <3>1, SetInduction
  <2>2. PICK y \in S : TRUE
    OBVIOUS
  <2>3. y + 1 \in Below /\ y \in Nat
    BY <2>1
  <2> QED BY <2>2, <2>3
<1>3. CASE \E n \in Below : n + 1 \notin Below
  <2>1. PICK n \in Below : n + 1 \notin Below
    BY <1>3
  <2>2. PICK y \in S : ~(n + 1 <= y)
    BY <2>1
  <2>3. y = n
    BY <2>2
  <2> QED BY <2>3
<1> QED BY <1>2, <1>3

LEMMA GreatestExists ==
  ASSUME NEW S \in SUBSET Int, IsFiniteSet(S), S # {}
  PROVE  \E x \in S : \A y \in S : y <= x
<1> DEFINE C == {T \in SUBSET S : T # {} => \E x \in T : \A y \in T : y <= x}
<1>1. {} \in C
  OBVIOUS
<1>2. ASSUME NEW T \in SUBSET S, NEW x \in S \ T, T \in C PROVE T \cup {x} \in C
  <2>1. CASE T = {}
    BY <2>1
  <2>2. CASE T # {}
    <3>1. PICK g \in T : \A y \in T : y <= g
      BY <1>2, <2>2
    <3>2. CASE x <= g
      BY <3>1, <3>2
    <3>3. CASE g <= x
      <4>1. \A y \in T \cup {x} : y <= x
        BY <3>1, <3>3
      <4> QED BY <4>1
    <3> QED BY <3>2, <3>3
  <2> QED BY <2>1, <2>2
<1>3. S \in C
  <2> HIDE DEF C
  <2> QED BY <1>1, <1>2, FiniteInduction
<1> QED BY <1>3

LEMMA MaxOfTwo ==
  ASSUME NEW a \in Int, NEW b \in Int
  PROVE  Max({a, b}) = IF a >= b THEN a ELSE b
<1>1. PICK m \in {a, b} : \A y \in {a, b} : m >= y
  OBVIOUS
<1>2. Max({a, b}) \in {a, b} /\ \A y \in {a, b} : Max({a, b}) >= y
  BY <1>1 DEF Max
<1> QED BY <1>2

-----------------------------------------------------------------------------

\* f is a at 0, and at n + 1 what the step F makes of n and its value at n.
Recursive(f, V, a, F) == /\ f \in [Nat -> V] /\ f[0] = a
                         /\ \A n \in Nat : f[n + 1] = F[<<n, f[n]>>]

\* A function on the natural numbers may be defined that way.
LEMMA RecursionOnNat ==
  ASSUME NEW V, NEW a \in V, NEW F \in [Nat \X V -> V]
  PROVE  \E f : Recursive(f, V, a, F)
<1> DEFINE UpTo(n, g) == /\ g \in [0..n -> V] /\ g[0] = a
                         /\ \A i \in 0..(n - 1) : g[i + 1] = F[<<i, g[i]>>]
<1>1. ASSUME NEW n \in Nat, NEW m \in Nat, NEW g, NEW h, UpTo(n, g), UpTo(m, h), n <= m
      PROVE  g[n] = h[n]
  <2> DEFINE N == {i \in Nat : i <= n => g[i] = h[i]}
  <2>1. 0 \in N
    BY <1>1
  <2>2. ASSUME NEW i \in N PROVE i + 1 \in N
    <3> SUFFICES ASSUME i + 1 <= n PROVE g[i + 1] = h[i + 1]
      OBVIOUS
    <3>1. i \in 0..(n - 1) /\ i \in 0..(m - 1) /\ g[i] = h[i]
      BY <1>1
    <3>2. g[i + 1] = F[<<i, g[i]>>] /\ h[i + 1] = F[<<i, h[i]>>]
      BY <1>1, <3>1
    <3> QED BY <3>1, <3>2
  <2>3. N = Nat
    <3> HIDE DEF N
    <3> QED BY <2>1, <2>2, SetInduction DEF N
  <2> QED BY <2>3
<1>2. \A n \in Nat : \E g : UpTo(n, g)
  <2> DEFINE N == {n \in Nat : \E g : UpTo(n, g)}
  <2>1. 0 \in N
    <3>1. UpTo(0, [i \in 0..0 |-> a])
      OBVIOUS
    <3> QED BY <3>1
  <2>2. ASSUME NEW n \in N PROVE n + 1 \in N
    <3>1. PICK g : UpTo(n, g)
      OBVIOUS
    <3> DEFINE h == [i \in 0..(n + 1) |-> IF i <= n THEN g[i] ELSE F[<<n, g[n]>>]]
    <3>2. h \in [0..(n + 1) -> V]
      <4>1. \A i \in 0..n : g[i] \in V
        BY <3>1
      <4> QED BY <4>1
    <3>3. h[0] = a
      BY <3>1
    <3>4. ASSUME NEW i \in 0..n PROVE h[i + 1] = F[<<i, h[i]>>]
      <4>1. CASE i = n
        <5>1. n + 1 \in 0..(n + 1) /\ ~(n + 1 <= n) /\ n \in 0..(n + 1)
          OBVIOUS
        <5>2. h[n + 1] = F[<<n, g[n]>>] /\ h[n] = g[n]
          BY <5>1
        <5> QED BY <4>1, <5>2
      <4>2. CASE i < n
        <5>1. i \in 0..(n - 1) /\ i + 1 \in 0..n
          BY <4>2
        <5> QED BY <3>1, <5>1
      <4> QED BY <4>1, <4>2
    <3>5. (n + 1) - 1 = n
      OBVIOUS
    <3> HIDE DEF h
    <3>6. UpTo(n + 1, h)
      BY <3>2, <3>3, <3>4, <3>5
    <3> QED BY <3>6
  <2>3. N = Nat
    <3> HIDE DEF N
    <3> QED BY <2>1, <2>2, SetInduction DEF N
  <2> QED BY <2>3
<1> DEFINE g(n) == CHOOSE h : UpTo(n, h)
           f == [n \in Nat |-> g(n)[n]]
<1>3. \A n \in Nat : UpTo(n, g(n))
  <2> HIDE DEF UpTo
  <2> QED BY <1>2
<1> HIDE DEF g
<1>4. f \in [Nat -> V] /\ f[0] = a
  BY <1>3
<1>5. ASSUME NEW n \in Nat PROVE f[n + 1] = F[<<n, f[n]>>]
  <2>1. g(n + 1)[n + 1] = F[<<n, g(n + 1)[n]>>]
    <3>1. UpTo(n + 1, g(n + 1)) /\ n \in 0..((n + 1) - 1)
      BY <1>3
    <3> QED BY <3>1
  <2>2. g(n)[n] = g(n + 1)[n]
    <3>1. UpTo(n, g(n)) /\ UpTo(n + 1, g(n + 1)) /\ n <= n + 1 /\ n + 1 \in Nat
      BY <1>3
    <3> HIDE DEF UpTo
    <3> QED BY <1>1, <3>1
  <2> QED BY <2>1, <2>2
<1> HIDE DEF f
<1> QED BY <1>4, <1>5 DEF Recursive

-----------------------------------------------------------------------------

LEMMA SumFunctionIs ==
  ASSUME NEW f
  PROVE  SumFunction(f) = SumOver(f, DOMAIN f)
  BY DEF SumFunction, SumFunctionOnSet, FoldFunctionOnSet, SumOver, MapThenSumSet

\* f has an integer for every element of S.
Summable(f, S) == \A x \in S : f[x] \in Int

LEMMA SumSame ==
  ASSUME NEW f, NEW g, NEW S, IsFiniteSet(S), Summable(f, S), \A x \in S : g[x] = f[x]
  PROVE  SumOver(g, S) = SumOver(f, S) /\ SumOver(f, S) \in Int
<1> DEFINE C == {T \in SUBSET S : SumOver(g, T) = SumOver(f, T)}
<1>1. {} \in C
  BY SumEmpty
<1>2. ASSUME NEW T \in SUBSET S, NEW x \in S \ T, T \in C PROVE T \cup {x} \in C
  <2>1. IsFiniteSet(T)
    BY FS_Subset
  <2>2. SumOver(f, T \cup {x}) = f[x] + SumOver(f, T)
    BY <2>1, SumInsert DEF Summable
  <2>3. SumOver(g, T \cup {x}) = g[x] + SumOver(g, T)
    BY <2>1, SumInsert DEF Summable
  <2> QED BY <1>2, <2>2, <2>3
<1>3. S \in C
  <2> HIDE DEF C
  <2> QED BY <1>1, <1>2, FiniteInduction
<1>4. SumOver(f, S) \in Int
  BY SumRemove DEF Summable
<1> QED BY <1>3, <1>4

LEMMA SumPlus ==
  ASSUME NEW f, NEW g, NEW h, NEW S, IsFiniteSet(S), Summable(f, S), Summable(g, S),
         \A x \in S : h[x] = f[x] + g[x]
  PROVE  SumOver(h, S) = SumOver(f, S) + SumOver(g, S)
<1> DEFINE C == {T \in SUBSET S : SumOver(h, T) = SumOver(f, T) + SumOver(g, T)}
<1>1. {} \in C
  BY SumEmpty
<1>2. ASSUME NEW T \in SUBSET S, NEW x \in S \ T, T \in C PROVE T \cup {x} \in C
  <2>1. IsFiniteSet(T)
    BY FS_Subset
  <2>2. SumOver(f, T \cup {x}) = f[x] + SumOver(f, T) /\ SumOver(f, T) \in Int
    BY <2>1, SumInsert DEF Summable
  <2>3. SumOver(g, T \cup {x}) = g[x] + SumOver(g, T) /\ SumOver(g, T) \in Int
    BY <2>1, SumInsert DEF Summable
  <2>4. SumOver(h, T \cup {x}) = h[x] + SumOver(h, T)
    BY <2>1, SumInsert DEF Summable
  <2>5. h[x] = f[x] + g[x] /\ f[x] \in Int /\ g[x] \in Int
    BY DEF Summable
  <2> QED BY <1>2, <2>2, <2>3, <2>4, <2>5
<1>3. S \in C
  <2> HIDE DEF C
  <2> QED BY <1>1, <1>2, FiniteInduction
<1> QED BY <1>3

LEMMA SumTimes ==
  ASSUME NEW c \in Int, NEW f, NEW h, NEW S, IsFiniteSet(S), Summable(f, S),
         \A x \in S : h[x] = c * f[x]
  PROVE  SumOver(h, S) = c * SumOver(f, S)
<1> DEFINE C == {T \in SUBSET S : SumOver(h, T) = c * SumOver(f, T)}
<1>1. {} \in C
  BY SumEmpty
<1>2. ASSUME NEW T \in SUBSET S, NEW x \in S \ T, T \in C PROVE T \cup {x} \in C
  <2>1. IsFiniteSet(T)
    BY FS_Subset
  <2>2. SumOver(f, T \cup {x}) = f[x] + SumOver(f, T) /\ SumOver(f, T) \in Int
    BY <2>1, SumInsert DEF Summable
  <2>3. f[x] \in Int /\ h[x] = c * f[x]
    BY DEF Summable
  <2>4. \A y \in T \cup {x} : h[y] \in Int
    BY DEF Summable
  <2>5. SumOver(h, T \cup {x}) = h[x] + SumOver(h, T)
    BY <2>1, <2>4, SumInsert
  <2>6. c * (f[x] + SumOver(f, T)) = c * f[x] + c * SumOver(f, T)
    BY <2>2, <2>3
  <2> QED BY <1>2, <2>2, <2>3, <2>5, <2>6
<1>3. S \in C
  <2> HIDE DEF C
  <2> QED BY <1>1, <1>2, FiniteInduction
<1> QED BY <1>3

LEMMA SumUnion ==
  ASSUME NEW f, NEW S, IsFiniteSet(S), NEW T, IsFiniteSet(T), S \cap T = {},
         Summable(f, S \cup T)
  PROVE  SumOver(f, S \cup T) = SumOver(f, S) + SumOver(f, T)
<1> DEFINE C == {U \in SUBSET T : SumOver(f, S \cup U) = SumOver(f, S) + SumOver(f, U)}
<1>1. SumOver(f, S) \in Int
  BY SumRemove DEF Summable
<1>2. {} \in C
  <2>1. S \cup {} = S
    OBVIOUS
  <2> QED BY <1>1, <2>1, SumEmpty
<1>3. ASSUME NEW U \in SUBSET T, NEW x \in T \ U, U \in C PROVE U \cup {x} \in C
  <2>1. IsFiniteSet(U) /\ IsFiniteSet(S \cup U)
    BY FS_Subset, FS_Union
  <2>2. SumOver(f, U \cup {x}) = f[x] + SumOver(f, U) /\ SumOver(f, U) \in Int
    BY <2>1, SumInsert DEF Summable
  <2>3. S \cup (U \cup {x}) = (S \cup U) \cup {x} /\ x \notin S \cup U
    OBVIOUS
  <2>4. SumOver(f, (S \cup U) \cup {x}) = f[x] + SumOver(f, S \cup U)
    BY <2>1, <2>3, SumInsert DEF Summable
  <2>5. f[x] \in Int
    BY DEF Summable
  <2>6. SumOver(f, S \cup U) = SumOver(f, S) + SumOver(f, U)
    BY <1>3
  <2> HIDE DEF C
  <2>7. SumOver(f, S \cup (U \cup {x})) = SumOver(f, S) + SumOver(f, U \cup {x})
    <3>1. SumOver(f, S \cup (U \cup {x})) = SumOver(f, (S \cup U) \cup {x})
      BY <2>3
    <3> QED BY <1>1, <2>2, <2>4, <2>5, <2>6, <3>1
  <2> QED BY <2>7 DEF C
<1>4. T \in C
  <2> HIDE DEF C
  <2> QED BY <1>2, <1>3, FiniteInduction
<1> QED BY <1>4

\* h[x] is the sum of f over the pairs of x with T.
RowSums(f, S, T, h) == \A x \in S : h[x] = SumOver([y \in T |-> f[<<x, y>>]], T)

LEMMA RowSummable ==
  ASSUME NEW f, NEW S, NEW T, IsFiniteSet(T), Summable(f, S \X T), NEW h, RowSums(f, S, T, h),
         NEW x \in S
  PROVE  /\ Summable([y \in T |-> f[<<x, y>>]], T)
         /\ h[x] = SumOver([y \in T |-> f[<<x, y>>]], T) /\ h[x] \in Int
<1> DEFINE r == [y \in T |-> f[<<x, y>>]]
<1>1. Summable(r, T)
  BY DEF Summable
<1>2. h[x] = SumOver(r, T)
  BY DEF RowSums
<1> HIDE DEF r
<1>3. SumOver(r, T) \in Int
  BY <1>1, SumRemove DEF Summable
<1> QED BY <1>1, <1>2, <1>3 DEF r

LEMMA SumPairs ==
  ASSUME NEW f, NEW S, IsFiniteSet(S), NEW T, IsFiniteSet(T), Summable(f, S \X T),
         NEW h, RowSums(f, S, T, h)
  PROVE  IsFiniteSet(S \X T) /\ SumOver(f, S \X T) = SumOver(h, S) /\ Summable(h, S)
<1> DEFINE Good(U) == IsFiniteSet(U \X T) /\ SumOver(f, U \X T) = SumOver(h, U)
           C == {U \in SUBSET S : Good(U)}
<1>1. {} \in C
  <2>1. {} \X T = {}
    OBVIOUS
  <2> QED BY <2>1, SumEmpty, FS_EmptySet
<1>2. Summable(h, S)
  BY RowSummable DEF Summable
<1>3. ASSUME NEW U \in SUBSET S, NEW x \in S \ U, Good(U) PROVE Good(U \cup {x})
  <2> DEFINE r == [y \in T |-> f[<<x, y>>]]
             g == [y \in T |-> <<x, y>>]
             Image == {g[y] : y \in T}
  <2>1. Image = {x} \X T
    OBVIOUS
  <2>2. \A y, z \in T : g[y] = g[z] => y = z
    OBVIOUS
  <2>3. \A y \in T : f[g[y]] \in Int /\ r[y] = f[g[y]]
    BY DEF Summable
  <2>4. IsFiniteSet(Image)
    <3> DEFINE D == {V \in SUBSET T : IsFiniteSet({g[y] : y \in V})}
    <3>1. {} \in D
      <4>1. {g[y] : y \in {}} = {}
        OBVIOUS
      <4> QED BY <4>1, FS_EmptySet
    <3>2. ASSUME NEW V \in SUBSET T, NEW z \in T \ V, V \in D PROVE V \cup {z} \in D
      <4>1. {g[y] : y \in V \cup {z}} = {g[y] : y \in V} \cup {g[z]}
        OBVIOUS
      <4>2. IsFiniteSet({g[y] : y \in V})
        BY <3>2
      <4>3. IsFiniteSet({g[y] : y \in V} \cup {g[z]})
        <5> DEFINE W == {g[y] : y \in V}
        <5> HIDE DEF W
        <5>1. IsFiniteSet(W) => IsFiniteSet(W \cup {g[z]})
          BY FS_AddElement
        <5> QED BY <4>2, <5>1 DEF W
      <4> QED BY <4>1, <4>3
    <3> HIDE DEF D
    <3>3. T \in D
      BY <3>1, <3>2, FiniteInduction
    <3> QED BY <3>3 DEF D
  <2>5. SumOver(r, T) = SumOver(f, Image)
    <3> HIDE DEF r, g
    <3> QED BY ONLY IsFiniteSet(T), <2>2, <2>3, SumImage
  <2>6. h[x] = SumOver(r, T) /\ h[x] \in Int
    BY RowSummable
  <2>7. SumOver(h, U \cup {x}) = h[x] + SumOver(h, U)
    <3>1. IsFiniteSet(U) /\ \A y \in U \cup {x} : h[y] \in Int
      BY <1>2, FS_Subset DEF Summable
    <3> QED BY <3>1, SumInsert
  <2>8. SumOver(f, (U \X T) \cup ({x} \X T)) = SumOver(f, U \X T) + SumOver(f, {x} \X T)
        /\ IsFiniteSet((U \X T) \cup ({x} \X T))
    <3> DEFINE P == U \X T
               Q == {x} \X T
    <3>1. P \cap Q = {}
      OBVIOUS
    <3>2. Summable(f, P \cup Q)
      BY DEF Summable
    <3>3. IsFiniteSet(P) /\ IsFiniteSet(Q)
      BY <1>3, <2>1, <2>4
    <3> HIDE DEF P, Q
    <3>4. SumOver(f, P \cup Q) = SumOver(f, P) + SumOver(f, Q) /\ IsFiniteSet(P \cup Q)
      BY <3>1, <3>2, <3>3, SumUnion, FS_Union
    <3> QED BY <3>4 DEF P, Q
  <2>9. (U \cup {x}) \X T = (U \X T) \cup ({x} \X T)
    OBVIOUS
  <2>10. SumOver(h, U) \in Int
    <3>1. IsFiniteSet(U) /\ \A y \in U : h[y] \in Int
      BY <1>2, FS_Subset DEF Summable
    <3> QED BY <3>1, SumRemove
  <2>11. SumOver(f, U \X T) = SumOver(h, U)
    BY <1>3
  <2> HIDE DEF r, g
  <2>12. SumOver(f, (U \cup {x}) \X T) = SumOver(h, U \cup {x})
    <3>1. SumOver(f, {x} \X T) = h[x]
      BY <2>1, <2>5, <2>6
    <3>2. SumOver(f, (U \cup {x}) \X T) = SumOver(h, U) + h[x]
      BY <2>8, <2>9, <2>11, <3>1
    <3> QED BY <2>6, <2>7, <2>10, <3>2
  <2> QED BY <2>8, <2>9, <2>12
<1>4. S \in C
  <2>1. ASSUME NEW U \in SUBSET S, NEW x \in S \ U, U \in C PROVE U \cup {x} \in C
    <3> HIDE DEF Good
    <3> QED BY <1>3, <2>1
  <2> HIDE DEF C
  <2> QED BY <1>1, <2>1, FiniteInduction
<1> QED BY <1>2, <1>4

\* v[y] is the sum of f over the pairs of S with y.
ColumnSums(f, S, T, v) == \A y \in T : v[y] = SumOver([x \in S |-> f[<<x, y>>]], S)

\* A double sum may be taken by rows or by columns.
LEMMA SumSwap ==
  ASSUME NEW f, NEW S, IsFiniteSet(S), NEW T, IsFiniteSet(T), Summable(f, S \X T),
         NEW h, RowSums(f, S, T, h), NEW v, ColumnSums(f, S, T, v)
  PROVE  SumOver(h, S) = SumOver(v, T)
<1> DEFINE w(U) == [y \in T |-> SumOver([x \in S |-> f[<<x, y>>]], U)]
           C == {U \in SUBSET S : SumOver(h, U) = SumOver(w(U), T)}
<1>1. ASSUME NEW y \in T, NEW U \in SUBSET S
      PROVE  /\ w(U)[y] = SumOver([x \in S |-> f[<<x, y>>]], U) /\ w(U)[y] \in Int
             /\ \A x \in S \ U : w(U \cup {x})[y] = f[<<x, y>>] + w(U)[y]
  <2> DEFINE c == [x \in S |-> f[<<x, y>>]]
  <2>1. w(U)[y] = SumOver(c, U) /\ \A x \in S \ U : w(U \cup {x})[y] = SumOver(c, U \cup {x})
    OBVIOUS
  <2>2. \A x \in S : c[x] = f[<<x, y>>] /\ c[x] \in Int
    BY DEF Summable
  <2> HIDE DEF c, w
  <2>3. IsFiniteSet(U)
    BY FS_Subset
  <2>4. SumOver(c, U) \in Int
    BY <2>2, <2>3, SumRemove
  <2>5. \A x \in S \ U : SumOver(c, U \cup {x}) = c[x] + SumOver(c, U)
    BY <2>2, <2>3, SumInsert
  <2> QED BY <2>1, <2>2, <2>4, <2>5 DEF c
<1> HIDE DEF w
<1>2. Summable(h, S)
  BY RowSummable DEF Summable
<1>3. {} \in C
  <2> DEFINE zero == [y \in T |-> 0]
             D == {V \in SUBSET T : SumOver(zero, V) = 0}
  <2>1. \A y \in T : w({})[y] = 0
    <3> TAKE y \in T
    <3>1. w({})[y] = SumOver([x \in S |-> f[<<x, y>>]], {})
      BY <1>1
    <3> QED BY <3>1, SumEmpty
  <2>2. SumOver(w({}), T) = 0 * SumOver(zero, T)
    <3>1. Summable(zero, T) /\ \A y \in T : w({})[y] = 0 * zero[y]
      BY <2>1 DEF Summable
    <3> HIDE DEF zero
    <3> QED BY <3>1, SumTimes
  <2>3. SumOver(zero, T) \in Int
    <3>1. \A y \in T : zero[y] \in Int
      OBVIOUS
    <3> HIDE DEF zero
    <3> QED BY <3>1, SumRemove
  <2> HIDE DEF zero
  <2> QED BY <2>2, <2>3, SumEmpty
<1>4. ASSUME NEW U \in SUBSET S, NEW x \in S \ U, U \in C PROVE U \cup {x} \in C
  <2> DEFINE r == [y \in T |-> f[<<x, y>>]]
  <2>1. Summable(r, T) /\ h[x] = SumOver(r, T) /\ h[x] \in Int
    <3>1. x \in S
      OBVIOUS
    <3>2. Summable(r, T)
      BY <3>1 DEF Summable
    <3>3. h[x] = SumOver(r, T) /\ h[x] \in Int
      BY ONLY <3>1, IsFiniteSet(T), Summable(f, S \X T), RowSums(f, S, T, h), RowSummable
    <3> QED BY <3>2, <3>3
  <2>2. Summable(w(U), T)
    BY <1>1 DEF Summable
  <2>3. \A y \in T : w(U \cup {x})[y] = r[y] + w(U)[y]
    BY <1>1
  <2> HIDE DEF r
  <2>4. SumOver(w(U \cup {x}), T) = SumOver(r, T) + SumOver(w(U), T)
    <3> DEFINE a == w(U)
               b == w(U \cup {x})
    <3>1. Summable(a, T) /\ \A y \in T : b[y] = r[y] + a[y]
      BY <2>2, <2>3
    <3> HIDE DEF a, b
    <3>2. SumOver(b, T) = SumOver(r, T) + SumOver(a, T)
      BY <2>1, <3>1, SumPlus
    <3> QED BY <3>2 DEF a, b
  <2>5. SumOver(h, U \cup {x}) = h[x] + SumOver(h, U)
    <3>1. IsFiniteSet(U) /\ \A y \in U \cup {x} : h[y] \in Int
      BY <1>2, FS_Subset DEF Summable
    <3> QED BY <3>1, SumInsert
  <2> QED BY <1>4, <2>1, <2>4, <2>5
<1>5. S \in C
  <2> HIDE DEF C
  <2> QED BY <1>3, <1>4, FiniteInduction
<1>6. SumOver(v, T) = SumOver(w(S), T)
  <2>1. Summable(w(S), T)
    BY <1>1 DEF Summable
  <2>2. \A y \in T : v[y] = w(S)[y]
    BY <1>1 DEF ColumnSums
  <2> QED BY <2>1, <2>2, SumSame
<1> QED BY <1>5, <1>6

=============================================================================
