---------------------------- MODULE MCDynamicPool ----------------------------
EXTENDS DynamicPool, TLC

\* Safety does not depend on which worker, client or Runnable is which.
Symmetry == Permutations(Workers) \cup Permutations(Clients \ {Owner}) \cup Permutations(Work)
=============================================================================
