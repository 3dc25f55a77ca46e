----------------------------- MODULE MCIdentity -----------------------------
EXTENDS Identity, TLC
CONSTANTS c1, c2
MCCalls == {c1, c2}
Symmetry == Permutations(MCCalls)
=============================================================================
