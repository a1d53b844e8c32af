------------------------------ MODULE MCSockets ------------------------------
EXTENDS Sockets, TLC

Symmetry == Permutations(Procs)
=============================================================================
