----------------------------- MODULE MCLiballoc -----------------------------
(* Liballoc on a small heap; the threads are alike.                         *)
EXTENDS Liballoc

ThreadSymmetry == Permutations(Threads)
=============================================================================
