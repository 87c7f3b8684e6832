----------------------------- MODULE MCPagerWal -----------------------------
EXTENDS PagerStore, TLC
Symmetry == Permutations(Salts)
=============================================================================
