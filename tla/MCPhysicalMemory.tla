-------------------------- MODULE MCPhysicalMemory --------------------------
(* PhysicalMemory on a bitmap of a few bytes.                               *)
EXTENDS PhysicalMemory, TLC

CPUSymmetry == Permutations(CPUs)
=============================================================================
