--------------------------- MODULE MCMountSearch ---------------------------
(* MountSearch on a table of 32 descriptors: every number of records, the  *)
(* last one closed or not, and every place of a damaged descriptor.        *)
EXTENDS MountSearch

MCLevels == 3
MCSlots == 32
MCStepSize == [i \in 0 .. MCLevels |-> <<1, 2, 4, 8>>[i + 1]]
============================================================================
