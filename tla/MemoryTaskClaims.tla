-------------------------- MODULE MemoryTaskClaims --------------------------
(***************************************************************************)
(* What documents and comments of the repository say of the record memory, *)
(* and the code does not do.  Each claim is checked by a run of its own    *)
(* that ends with a counterexample.                                        *)
(***************************************************************************)
EXTENDS MemoryTask

Wiped == \E i \in Slot : Closed(mem, i) /\ mem'.flash.table[i] = ErasedSlot

(* An interrupted record is repaired ("probably a repair is required",     *)
(* myfs.cpp:240; init_fs mounts again after REPAIR_HAS_BEEN_PERFORMED), so *)
(* records are wiped by the format command only.                           *)
InterruptedRecordIsRepaired == [][Wiped => phase = "format"]_vars

(* The file size is "a marker that file has been closed after the write"   *)
(* (myfs.h:99): a record without it does not lend its pages to another.    *)
RecordsDoNotOverlap ==
  \A p \in FirstPage .. Pages - 1 : \A v, w \in mem.flash.pages[p] :
    StrayDescriptor \notin {v, w} => v[1] = w[1]
=============================================================================
