----------------------------- MODULE MCNachosFS -----------------------------
EXTENDS NachosFS, TLC

CONSTANTS p1, p2, a, b, d1

Sym == Permutations({p1, p2}) \cup Permutations({a, b})
=============================================================================
