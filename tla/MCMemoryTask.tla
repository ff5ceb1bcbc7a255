---------------------------- MODULE MCMemoryTask ----------------------------
(* MemoryTask with file names that TLC may permute.                        *)
EXTENDS MemoryTaskInv, TLC

Symmetry == Permutations(Ids)
=============================================================================
