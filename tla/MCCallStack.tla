----------------------------- MODULE MCCallStack -----------------------------
EXTENDS CallStack

Symmetry == Permutations(Frames) \cup Permutations(Observers)
=============================================================================
