----------------------------- MODULE MCFixedPool -----------------------------
EXTENDS FixedPool, TLC
Symmetry == Permutations(Workers) \cup Permutations(Clients \ {Owner}) \cup Permutations(Work)
=============================================================================
