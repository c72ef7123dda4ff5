--------------------------- MODULE MCContractNet ---------------------------
EXTENDS ContractNet
Symmetry == Permutations(Ids)
=============================================================================
