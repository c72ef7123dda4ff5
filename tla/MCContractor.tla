---------------------------- MODULE MCContractor ----------------------------
EXTENDS Contractor, TLC
Symmetry == Permutations(Ids)
=============================================================================
