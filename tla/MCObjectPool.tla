---------------------------- MODULE MCObjectPool ----------------------------
(* An instance of ObjectPool for TLC: two threads and three slots. *)
EXTENDS ObjectPool, TLC

CONSTANTS t1, t2

Interchangeable == Permutations(Threads)
=============================================================================
