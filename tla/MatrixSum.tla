------------------------------ MODULE MatrixSum ------------------------------
(***************************************************************************)
(* matmul_mod of src/src/tasks.rs: the sum of all elements of A * B modulo *)
(* m, for random n x n matrices A and B, from the column sums of A and the *)
(* row sums of B.  A step is one draw.  Moduli of a word (u64) are         *)
(* computed in double words (u128), larger ones in integers of any size.   *)
(***************************************************************************)
EXTENDS Integers, Sequences, FiniteSetsExt, RandomDraws

CONSTANT WordBits   \* 32

ASSUME WordAssumption == WordBits \in Nat \ {0}

VARIABLES task,      \* the parameters n and m
          draws,     \* history: the elements of A, then of B, row by row
          columns,   \* the sums of A's columns
          row,       \* the sum of B's present row
          total      \* the sum so far, or why there is none

matrixVars == <<task, draws, columns, row, total>>

Refused == -1     \* a modulus below 1
NoColumns == -2   \* n column sums cannot be addressed or allocated

MatrixError == total \in {Refused, NoColumns}

\* u64::MAX and u128::MAX
NativeMax == TwoTo(2 * WordBits) - 1
DoubleMax == TwoTo(4 * WordBits) - 1

Native == task.m <= NativeMax

\* (Fault: sums are reduced only at the end.)
ReducedLate(x) == x

\* Every sum and product of the native path is reduced at once.
Reduced(x) == IF Native THEN x % task.m ELSE x

Order == Max({task.n, 0})

MatrixInit(n, m) ==
  /\ task = [n |-> n, m |-> m]
  /\ draws = <<>>
  /\ columns = [k \in 1..Max({n, 0}) |-> 0]
  /\ row = 0
  /\ total \in IF m <= 0 THEN {Refused}
              ELSE IF n <= 0 THEN {0}
              ELSE {0, NoColumns}

\* random.below_u64, random.below_big: a candidate is accepted, or drawn again.
Drawn(words) == IF Native THEN Candidate(WordBits, task.m, words)
                ELSE CandidateBig(WordBits, task.m, words)

\* (Fault: elements are added up along the rows of A.)
FirstMatrixRows(d) ==
  LET k == (Len(draws) \div Order) + 1
  IN  /\ columns' = [columns EXCEPT ![k] = Reduced(@ + d)]
      /\ UNCHANGED <<row, total>>

\* for _ in 0..n { for column in &mut columns { .. } }
FirstMatrix(d) ==
  LET k == (Len(draws) % Order) + 1
  IN  /\ columns' = [columns EXCEPT ![k] = Reduced(@ + d)]
      /\ UNCHANGED <<row, total>>

\* for column in columns { for _ in 0..n { .. } .. }
SecondMatrix(d) ==
  LET k == ((Len(draws) - Order * Order) \div Order) + 1
      sum == Reduced(row + d)
  IN  /\ IF (Len(draws) + 1) % Order = 0
         THEN /\ row' = 0
              /\ total' = Reduced(total + Reduced(columns[k] * sum))
         ELSE /\ row' = sum
              /\ UNCHANGED total
      /\ UNCHANGED columns

Draw(words) ==
  /\ ~MatrixError
  /\ Len(draws) < 2 * Order * Order
  /\ Drawn(words) < task.m
  /\ draws' = Append(draws, Drawn(words))
  /\ IF Len(draws) < Order * Order THEN FirstMatrix(Drawn(words)) ELSE SecondMatrix(Drawn(words))
  /\ UNCHANGED task

MatrixDone == MatrixError \/ Len(draws) = 2 * Order * Order

-----------------------------------------------------------------------------
(* Properties.                                                             *)

A(i, j) == draws[Order * (i - 1) + j]
B(i, j) == draws[Order * Order + Order * (i - 1) + j]

\* The sum of the elements of the product, straight from the definition.
Checksum ==
  LET Element(i, j) == SumFunction([k \in 1..Order |-> A(i, k) * B(k, j)])
  IN  SumFunction([e \in (1..Order) \X (1..Order) |-> Element(e[1], e[2])]) % task.m

Result == IF Native THEN total ELSE total % task.m

\* The factorised sum is the checksum of the product of the two matrices that
\* were drawn, on the native path and on the other; a modulus below 1 is
\* an error, and nothing else is but an order that memory has no room for.
ChecksumCorrect ==
  /\ total = Refused <=> task.m <= 0
  /\ total = NoColumns => task.n > 0
  /\ ~MatrixError /\ MatrixDone => Result = Checksum

\* No sum and no product of the native path exceeds a double word, whatever is
\* drawn next.
InRange ==
  ~MatrixError /\ Native =>
    \A k \in DOMAIN columns, d \in 0..(task.m - 1) :
      LET product == columns[k] * Reduced(row + d)
      IN  {columns[k] + d, row + d, product, total + Reduced(product)} \subseteq 0..DoubleMax
=============================================================================
