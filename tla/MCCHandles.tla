---- MODULE MCCHandles ----
EXTENDS CHandles, TLC

CONSTANTS A, B, orders, users, logs

Sym == Permutations(Threads)
====
