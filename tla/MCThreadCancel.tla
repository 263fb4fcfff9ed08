--------------------------- MODULE MCThreadCancel ---------------------------
\* Small instances of ThreadCancel for TLC.
EXTENDS ThreadCancel, TLC

Symmetry == Permutations(Activities) \cup Permutations(Threads)
=============================================================================
