--------------------------- MODULE MCSpeechYield ---------------------------
EXTENDS SpeechYield, TLC

Symmetry == Permutations(Turns) \cup Permutations(Speaks)
============================================================================
