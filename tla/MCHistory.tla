----------------------------- MODULE MCHistory -----------------------------
EXTENDS History, TLC

Symmetry == Permutations(Turns)
============================================================================
