---------------------------- MODULE MCDiffChain ----------------------------
EXTENDS DiffChain, TLC

Symmetry == Permutations(Values)
=============================================================================
