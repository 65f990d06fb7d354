--------------------------- MODULE MC_CDCManager ----------------------------
EXTENDS CDCManager, TLC

Symmetry == Permutations(Handlers) \cup Permutations(Functions) \cup Permutations(Tables)
=============================================================================
