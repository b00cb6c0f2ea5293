----------------------------- MODULE MCWorkQueue -----------------------------
(* A pool of three threads and three jobs; threads and jobs are symmetric.  *)
EXTENDS WorkQueue, TLC

Symmetry == Permutations(Workers) \cup Permutations(Items)
=============================================================================
