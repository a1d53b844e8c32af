----------------------------- MODULE MCVirtioBlk -----------------------------
EXTENDS VirtioBlk, TLC

Symmetry == Permutations(Values)
=============================================================================
