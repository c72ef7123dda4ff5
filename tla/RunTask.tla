------------------------------- MODULE RunTask -------------------------------
(***************************************************************************)
(* run_task of src/src/tasks.rs for two of its task types, one call of     *)
(* each, on the worker: which of the two goes first does not matter.       *)
(***************************************************************************)
EXTENDS PrimeCount, MatrixSum

CONSTANTS Lows, Highs,       \* bounds of prime_count
          Orders, Moduli,    \* parameters of matmul_mod
          Widths             \* widths of a random word for which draws are compared

ASSUME RunAssumption == /\ Lows \cup Highs \cup Orders \cup Moduli \subseteq Int
                        /\ Widths \subseteq Nat \ {0}

VARIABLE kind   \* task_type

vars == <<kind, range, start, count, task, draws, columns, row, total>>

Init ==
  /\ kind \in {"prime_count", "matmul_mod"}
  /\ IF kind = "prime_count"
     THEN /\ \E lo \in Lows, hi \in Highs : PrimeInit(lo, hi)
          /\ MatrixInit(0, 1)
     ELSE /\ PrimeInit(0, 0)
          /\ \E n \in Orders, m \in Moduli : MatrixInit(n, m)

Next ==
  \/ /\ kind = "prime_count"
     /\ CountSegment
     /\ UNCHANGED <<kind, matrixVars>>
  \/ /\ kind = "matmul_mod" /\ ~MatrixError
     /\ \E words \in Streams(WordBits, task.m) : Draw(words)
     /\ UNCHANGED <<kind, primeVars>>

Spec == Init /\ [][Next]_vars

\* Numbers below the modulus are drawn without bias, and a modulus just beyond
\* u64 takes them from the stream as one just within does (random.rs:78, 95),
\* whatever part of a last word is used.
DrawsUnbiased ==
  draws = <<>> /\ task.m > 0 =>
    \A w \in Widths : Unbiased(w, task.m) /\ SameDraws(w, task.m)
=============================================================================
