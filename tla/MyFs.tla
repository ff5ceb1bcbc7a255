------------------------------- MODULE MyFs -------------------------------
(***************************************************************************)
(* The file system of the record flash, lib/myfs/myfs.cpp: what each of    *)
(* its calls returns and does to the flash, to the myfs_t in RAM and to    *)
(* the one file that can be open.                                          *)
(*                                                                         *)
(* The state s of these operators is a record [flash, fs, file]:           *)
(*   flash  the marker, the descriptor table and, per data page, the set   *)
(*          of writers that programmed it since it was erased;             *)
(*   fs     the myfs_t;                                                    *)
(*   file   the myfs_file_t (_active_file of tasks/memory).                *)
(* X(s) is the state after call X, XResult(s) what the call returns.       *)
(*                                                                         *)
(* Addresses are page numbers, sizes are multiples of the smallest write.  *)
(* The bytes of record r in page k of its extent are the writer <<r, k>>.  *)
(***************************************************************************)
EXTENDS Integers, FiniteSets

CONSTANTS
  Slots,       \* max_files_in_fs: the marker's slot and the descriptors
  FirstPage,   \* the page of get_first_file_offset(), after the table
  Pages,       \* pages of the file system, block_count * block_size / page_size
  PageSize,    \* page_size
  Chunk,       \* the size of a write: one audio sample of the recorder
  FullMargin,  \* the 1024 bytes of myfs.cpp:186, in pages
  Ids,         \* file names
  NoId,        \* the file name of no file
  MaxRecords   \* bound: how many records are created

ASSUME MyFsAssumption ==
  /\ NoId \notin Ids
  /\ Slots \in {4, 8, 16, 32, 64, 128, 256, 512, 1024, 2048}
  /\ FirstPage \in Nat /\ FirstPage > 0
  /\ FullMargin \in Nat
  /\ Pages \in Nat /\ Pages > FirstPage + FullMargin
  /\ PageSize \in Nat \ {0}
  /\ Chunk \in 1 .. PageSize
  /\ MaxRecords \in Nat

Slot     == 1 .. Slots - 1
Record   == 1 .. MaxRecords
DataPage == FirstPage .. Pages   \* and the first page after the file system

EmptyWord == -1   \* empty_word_value, the erased word: a size not yet written

(* A descriptor; the record number stands for its magic word, 0 is erased. *)
ErasedSlot == [rec |-> 0, id |-> NoId, start |-> 0, size |-> EmptyWord]
Descriptor ==
  [rec : Record, id : Ids, start : FirstPage .. Pages - 1, size : Nat \cup {EmptyWord}]
    \cup {ErasedSlot}

(* A descriptor programmed into a data page, when it misses the table.     *)
StrayDescriptor == <<0, 0>>
Writer == {StrayDescriptor} \cup Record \X Nat

FlashType == [marker : BOOLEAN, table : [Slot -> Descriptor],
              pages : [DataPage -> SUBSET Writer]]
FsType    == [mounted : BOOLEAN, full : BOOLEAN, open : BOOLEAN,
              files : 0 .. Slots - 1, nextSlot : 0 .. Slots, nextStart : Nat,
              bufpos : 0 .. PageSize - 1, listPos : 1 .. Slots]
FileType  == [open : BOOLEAN, write : BOOLEAN, rec : {0} \cup Record,
              size : Nat, pos : Nat, start : {0} \cup FirstPage .. Pages - 1]

ErasedFlash ==
  [marker |-> FALSE,
   table  |-> [i \in Slot |-> ErasedSlot],
   pages  |-> [p \in DataPage |-> {}]]

PowerOnFs ==
  [mounted |-> FALSE, full |-> FALSE, open |-> FALSE, files |-> 0,
   nextSlot |-> 0, nextStart |-> 0, bufpos |-> 0, listPos |-> 1]

(* The fields of a file that is not open are not read before they are set. *)
NoFile == [open |-> FALSE, write |-> FALSE, rec |-> 0, size |-> 0, pos |-> 0, start |-> 0]

----------------------------------------------------------------------------
(* Descriptors and extents                                                 *)

Written(s, i) == s.flash.table[i].rec # 0
Closed(s, i)  == Written(s, i) /\ s.flash.table[i].size # EmptyWord

(* The number of written slots: slots are written one after another.       *)
Last(s) == CHOOSE n \in 0 .. Slots - 1 : \A i \in Slot : Written(s, i) <=> i <= n

LastUnclosed(s) == Last(s) > 0 /\ ~Closed(s, Last(s))

(* Mutant: a record that fills its last page exactly takes no other page.  *)
PagesTakenRounded(size) == (size + PageSize - 1) \div PageSize

(* (size / page_size) + 1 in 32 bits, where the erased word wraps to 0.    *)
PagesTaken(size) == IF size = EmptyWord THEN 0 ELSE size \div PageSize + 1

(* The first page after the last record, as myfs_mount derives it: the     *)
(* only record of a table of one is taken to start at the first page.      *)
NextStartOnFlash(s) ==
  CASE Last(s) = 0 -> FirstPage
    [] Last(s) = 1 -> FirstPage + PagesTaken(s.flash.table[1].size)
    [] OTHER -> s.flash.table[Last(s)].start + PagesTaken(s.flash.table[Last(s)].size)

(* write_myfs_descriptor: the slot behind the table is the head of the     *)
(* first data page.                                                        *)
WriteDescriptor(s, i, d) ==
  IF i \in Slot THEN [s EXCEPT !.flash.table[i] = d]
                ELSE [s EXCEPT !.flash.pages[FirstPage] = @ \cup {StrayDescriptor}]

(* config.prog: flash cells can be programmed again, only not erased.      *)
Program(s, page, k) ==
  [s EXCEPT !.flash.pages[page] = @ \cup {<<s.file.rec, k>>}]

----------------------------------------------------------------------------
(* myfs_format: erase, which stops before the page after the file system,  *)
(* then program the marker.                                                *)
Erase(s) ==
  [s EXCEPT !.flash = [ErasedFlash EXCEPT !.pages[Pages] = s.flash.pages[Pages]]]

Format(s) ==
  [Erase(s) EXCEPT !.flash.marker = TRUE,
                   !.fs = [@ EXCEPT !.files = 0, !.full = FALSE, !.open = FALSE,
                                    !.mounted = FALSE]]

----------------------------------------------------------------------------
(* myfs_mount.  The binary search ends on the odd slot that is the last    *)
(* record's or follows it, and has probed the last record if its slot is   *)
(* even (module MountSearch).                                              *)

(* myfs_repair compares the address, not the word read, with the erased    *)
(* word, so its scan never finds the end of the record.                    *)
RepairResult == "GENERIC_ERROR"

TableFull(s) == Last(s) >= Slots - 2

MemoryFull(s) ==
  IF Last(s) <= 1 THEN NextStartOnFlash(s) >= Pages - FullMargin
                  ELSE NextStartOnFlash(s) > Pages

MountResult(s) ==
  CASE s.fs.mounted -> "REMOUNT_ATTEMPTED"
    [] ~s.fs.mounted /\ ~s.flash.marker -> "INTERNAL_ERROR"
    [] OTHER ->
         IF LastUnclosed(s) /\ Last(s) % 2 = 0 THEN RepairResult
         ELSE IF TableFull(s) THEN "NO_SPACE_LEFT"
         ELSE IF LastUnclosed(s) /\ Last(s) # 1 THEN "FS_CORRUPT_REPAIRABLE"
         ELSE IF MemoryFull(s) THEN "NO_SPACE_LEFT"
         ELSE "OK"

(* A full table is reported before the file system is marked as mounted or *)
(* full; a full memory leaves the old pointers unless it holds one record. *)
Mount(s) ==
  LET mounts   == /\ MountResult(s) \in {"OK", "NO_SPACE_LEFT"}
                  /\ ~TableFull(s)
      pointers == ~MemoryFull(s) \/ Last(s) <= 1
  IN  [s EXCEPT !.fs =
         [@ EXCEPT !.mounted   = s.fs.mounted \/ mounts,
                   !.full      = s.fs.full \/ (mounts /\ MemoryFull(s)),
                   !.files     = IF mounts /\ pointers THEN Last(s) ELSE s.fs.files,
                   !.nextSlot  = IF mounts /\ pointers THEN Last(s) + 1 ELSE s.fs.nextSlot,
                   !.nextStart = IF mounts /\ pointers THEN NextStartOnFlash(s) ELSE s.fs.nextStart]]

Unmount(s) == [s EXCEPT !.fs.mounted = FALSE]

----------------------------------------------------------------------------
(* myfs_file_open with MYFS_CREATE_FLAG; ok: the descriptor was programmed. *)

(* Mutant: a record may start behind the end of the file system.           *)
CreateResultUnbounded(s, ok) ==
  IF s.fs.open \/ ~ok THEN "GENERIC_ERROR" ELSE "OK"

CreateResult(s, ok) ==
  IF s.fs.open THEN "GENERIC_ERROR"
  ELSE IF s.fs.nextStart >= Pages THEN "NO_SPACE_LEFT"
  ELSE IF ~ok THEN "GENERIC_ERROR"
  ELSE "OK"

Create(s, id, rec, ok) ==
  IF CreateResult(s, ok) # "OK" THEN s
  ELSE [WriteDescriptor(s, s.fs.nextSlot,
          [rec |-> rec, id |-> id, start |-> s.fs.nextStart, size |-> EmptyWord])
        EXCEPT !.fs   = [@ EXCEPT !.open = TRUE, !.bufpos = 0],
               !.file = [NoFile EXCEPT !.open = TRUE, !.write = TRUE, !.rec = rec]]

(* myfs_file_open with MYFS_READ_FLAG: the first descriptor of that name.  *)
Named(s, id) == {i \in Slot : Written(s, i) /\ s.flash.table[i].id = id}
First(S)     == CHOOSE i \in S : \A j \in S : i <= j

OpenReadResult(s, id) ==
  IF s.fs.open \/ Named(s, id) = {} THEN "GENERIC_ERROR" ELSE "OK"

OpenRead(s, id) ==
  IF OpenReadResult(s, id) # "OK" THEN s
  ELSE LET d == s.flash.table[First(Named(s, id))]
       IN  [s EXCEPT !.fs   = [@ EXCEPT !.open = TRUE, !.bufpos = 0],
                     !.file = [open |-> TRUE, write |-> FALSE, rec |-> d.rec,
                               size |-> d.size, pos |-> 0, start |-> d.start]]

----------------------------------------------------------------------------
(* myfs_file_write; ok: the page was programmed.                           *)

ProgPage(s) == s.fs.nextStart + s.file.size \div PageSize
Aligned(s)  == s.file.size % PageSize = 0

WriteResult(s, ok) ==
  IF ~s.file.open \/ ~s.file.write THEN "INVALID_PARAMETERS"
  ELSE IF PageSize - s.fs.bufpos > Chunk THEN "OK"
  ELSE IF ProgPage(s) >= Pages THEN "NO_SPACE_LEFT"
  ELSE IF ~Aligned(s) THEN "ALIGNMENT_ERROR"
  ELSE IF ~ok THEN "INTERNAL_ERROR"
  ELSE "OK"

Write(s, ok) ==
  IF WriteResult(s, ok) # "OK" THEN s
  ELSE IF PageSize - s.fs.bufpos > Chunk
  THEN [s EXCEPT !.fs.bufpos = @ + Chunk]
  ELSE [Program(s, ProgPage(s), s.file.size \div PageSize)
        EXCEPT !.fs.bufpos = @ + Chunk - PageSize,
               !.file.size = @ + PageSize]

----------------------------------------------------------------------------
(* myfs_file_close; ok: the descriptor was programmed.  A written file     *)
(* gets its last, zero-padded page even if no byte of it is the record's,  *)
(* and then its size.                                                      *)

CloseResult(s, ok) ==
  IF ~s.file.open THEN "GENERIC_ERROR"
  ELSE IF ~s.file.write THEN "OK"
  ELSE IF ~(s.fs.nextSlot \in Slot /\ Written(s, s.fs.nextSlot)) THEN "GENERIC_ERROR"
  ELSE IF ~Aligned(s) \/ ~ok THEN "GENERIC_ERROR"
  ELSE "OK"

(* Mutant: the size counts the last page, but nothing is flushed.          *)
FlushNothing(s) == [s EXCEPT !.file.size = @ + s.fs.bufpos]

FlushLastPage(s) ==
  [Program(s, ProgPage(s), s.file.size \div PageSize)
   EXCEPT !.file.size = @ + s.fs.bufpos]

(* Mutant: the next descriptor is written over the one just closed.        *)
CompleteNoSlot(s) ==
  [WriteDescriptor(s, s.fs.nextSlot,
     [s.flash.table[s.fs.nextSlot] EXCEPT !.size = s.file.size])
   EXCEPT !.fs = [@ EXCEPT !.nextStart = s.fs.nextStart + PagesTaken(s.file.size),
                           !.files     = s.fs.files + 1,
                           !.bufpos    = 0,
                           !.open      = FALSE],
          !.file = NoFile]

Complete(s) ==
  [WriteDescriptor(s, s.fs.nextSlot,
     [s.flash.table[s.fs.nextSlot] EXCEPT !.size = s.file.size])
   EXCEPT !.fs = [@ EXCEPT !.nextSlot  = s.fs.nextSlot + 1,
                           !.nextStart = s.fs.nextStart + PagesTaken(s.file.size),
                           !.files     = s.fs.files + 1,
                           !.bufpos    = 0,
                           !.open      = FALSE],
          !.file = NoFile]

Close(s, ok) ==
  LET writing == s.file.open /\ s.file.write
      valid   == s.fs.nextSlot \in Slot /\ Written(s, s.fs.nextSlot) /\ Aligned(s)
  IN  IF ~writing THEN
        IF s.file.open THEN [s EXCEPT !.file = NoFile, !.fs.open = FALSE] ELSE s
      ELSE IF ~valid THEN s
      ELSE IF ok THEN Complete(FlushLastPage(s)) ELSE FlushLastPage(s)

----------------------------------------------------------------------------
(* myfs_file_read of at most max bytes.                                    *)

(* Mutant: the read position runs past the end of the file.                *)
ReadPast(s, max) ==
  IF s.file.open /\ ~s.file.write THEN [s EXCEPT !.file.pos = @ + max] ELSE s

Read(s, max) ==
  LET left == s.file.size - s.file.pos
  IN  IF ~s.file.open \/ s.file.write THEN s
      ELSE [s EXCEPT !.file.pos = @ + (IF max < left THEN max ELSE left)]

(* myfs_rewind_dir, and n successful myfs_get_next_id calls.               *)
RewindDir(s) == IF s.fs.mounted THEN [s EXCEPT !.fs.listPos = 1] ELSE s
IdsLeft(s)   == IF s.fs.listPos > Last(s) THEN 0 ELSE Last(s) - s.fs.listPos + 1
NextIds(s, n) == [s EXCEPT !.fs.listPos = @ + n]
============================================================================
