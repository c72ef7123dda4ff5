-------------------------- MODULE MCLearningStore --------------------------
EXTENDS Forecast, TLC
Symmetry == Permutations(Procs)

\* Seven observations: two inputs of one type and a hash search, with slow,
\* fast and equal runs, and bills above and below the manager's clock.
Clocks(key, type, local, queue, manager, billed) ==
  [key |-> key, type |-> type, baseline |-> 10, local |-> local, queue |-> queue,
   manager |-> manager, billed |-> billed]
Clocked == << Clocks("a", "prime_count", 12, 0, 60, 60), Clocks("b", "prime_count", 9, 5, 40, 20),
              Clocks("a", "prime_count", 7, 0, 7, 9), Clocks("h", "hash_search", 30, 0, 31, 31),
              Clocks("a", "prime_count", 12, 3, 14, 90), Clocks("a", "prime_count", 8, 1, 20, 20),
              Clocks("a", "prime_count", 20, 2, 30, 30) >>
Offered == { [key |-> "a", type |-> "prime_count"], [key |-> "c", type |-> "prime_count"],
             [key |-> "h", type |-> "hash_search"], [key |-> "g", type |-> "hash_search"] }
=============================================================================
