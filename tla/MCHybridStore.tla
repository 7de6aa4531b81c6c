--------------------------- MODULE MCHybridStore ----------------------------
EXTENDS HybridStore, TLC

CONSTANTS h1, h2, p1, p2, p3

TwoHashes == {h1, h2}
ThreeCallers == {p1, p2, p3}

Symmetry == Permutations(Callers) \cup Permutations(Hashes)
=============================================================================
