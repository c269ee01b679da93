---------------------------- MODULE MCInterrupts ----------------------------
(***************************************************************************)
(* Interrupts on a small instance.  The CPUs are alike, and so are the     *)
(* threads of one kind.                                                    *)
(***************************************************************************)
EXTENDS Interrupts, TLC

Symmetric == Permutations(CPUs) \cup Permutations(UserThreads) \cup Permutations(KernelThreads)
=============================================================================
