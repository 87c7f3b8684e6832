---- MODULE MCDbCatalog ----
EXTENDS DbCatalog, TLC

CONSTANTS A, B, orders, users, logs

Sym == Permutations(Threads)
====
