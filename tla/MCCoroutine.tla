----------------------------- MODULE MCCoroutine -----------------------------
EXTENDS Coroutine, TLC

Symmetry == Permutations(Threads) \cup Permutations(Coroutines)
=============================================================================
