-------------------------- MODULE MC_Deployments ---------------------------
EXTENDS Deployments, TLC

Symmetry == Permutations(Handlers) \cup Permutations(Versions)
=============================================================================
