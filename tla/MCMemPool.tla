----------------------------- MODULE MCMemPool ------------------------------
(* Symmetry for the TLC runs of MemPool: threads are interchangeable.      *)
EXTENDS MemPool, TLC

CONSTANTS t1, t2, t3

Symmetry == Permutations(Threads)
=============================================================================
