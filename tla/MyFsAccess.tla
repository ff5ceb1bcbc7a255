----------------------------- MODULE MyFsAccess -----------------------------
(***************************************************************************)
(* The memory task's access to the file system,                            *)
(* targets/dictofun/tasks/memory/myfs_access.cpp.  The state of MyFs gets  *)
(* a fourth part, list: the bookkeeping of a files list sent in pieces     *)
(* (_is_files_list_next_needed and _total_files_left).                     *)
(***************************************************************************)
EXTENDS MyFs

CONSTANTS
  ListFirst,  \* file names that fit in the first piece, 7 in the firmware
  ListNext    \* and in every other, 8

ASSUME AccessAssumption == ListFirst \in Nat \ {0} /\ ListNext \in Nat \ {0}

MemType ==
  [flash : FlashType, fs : FsType, file : FileType,
   list : [needed : BOOLEAN, left : Nat]]

PowerOn(flash) ==
  [flash |-> flash, fs |-> PowerOnFs, file |-> NoFile,
   list |-> [needed |-> FALSE, left |-> 0]]

(* init_fs: mount, and format when the mount fails for any reason but a    *)
(* full file system.  A repair never succeeds, so none is ever reported.   *)
InitFormats(s) == MountResult(s) \notin {"OK", "NO_SPACE_LEFT"}

InitResult(s) ==
  IF MountResult(s) = "NO_SPACE_LEFT" THEN "ERROR_OUT_OF_MEMORY"
  ELSE IF InitFormats(s) /\ MountResult(Format(s)) # "OK" THEN "ERROR_GENERAL"
  ELSE "OK"

InitFs(s) ==
  LET mounted == IF InitFormats(s) THEN Mount(Format(s)) ELSE Mount(s)
  IN  IF InitResult(s) # "OK" THEN mounted
      ELSE [mounted EXCEPT !.list.needed = FALSE, !.file = NoFile]

(* close_file reports success when there is nothing to close.              *)
CloseFileResult(s, ok) ==
  IF s.file.open /\ CloseResult(s, ok) # "OK" THEN "ERROR_GENERAL" ELSE "OK"

CloseFile(s, ok) == Close(s, ok)

(* Mutant: the file is closed but the file system stays mounted.           *)
DeinitFsNoUnmount(s, ok) == [CloseFile(s, ok) EXCEPT !.file = NoFile]

(* deinit_fs: a file that cannot be closed is forgotten.                   *)
DeinitFs(s, ok) == Unmount([CloseFile(s, ok) EXCEPT !.file = NoFile])

CreateFileResult(s, ok) ==
  IF s.fs.full \/ CreateResult(s, ok) = "NO_SPACE_LEFT" THEN "ERROR_OUT_OF_MEMORY"
  ELSE IF CreateResult(s, ok) # "OK" THEN "ERROR_GENERAL"
  ELSE "OK"

CreateFile(s, id, rec, ok) == IF s.fs.full THEN s ELSE Create(s, id, rec, ok)

WriteDataResult(s, ok) ==
  IF s.fs.full \/ WriteResult(s, ok) = "NO_SPACE_LEFT" THEN "ERROR_OUT_OF_MEMORY"
  ELSE IF WriteResult(s, ok) # "OK" THEN "ERROR_GENERAL"
  ELSE "OK"

WriteData(s, ok) == IF s.fs.full THEN s ELSE Write(s, ok)

(* open_file: the size is asked for first, so an unclosed record of that   *)
(* name cannot be opened.                                                  *)
OpenFileResult(s, id) ==
  IF s.file.open \/ OpenReadResult(s, id) # "OK" THEN "ERROR_GENERAL"
  ELSE IF s.flash.table[First(Named(s, id))].size = EmptyWord THEN "ERROR_GENERAL"
  ELSE "OK"

OpenFile(s, id) == IF OpenFileResult(s, id) = "OK" THEN OpenRead(s, id) ELSE s

GetFileData(s, max) == IF s.fs.open /\ ~s.file.write THEN Read(s, max) ELSE s

(* The number of records the host is told: the count in RAM.               *)
ReportedCount(s) == s.fs.files

GetFilesList(s) ==
  LET dir   == RewindDir(s)
      sent  == IF IdsLeft(dir) < ListFirst THEN IdsLeft(dir) ELSE ListFirst
      needed == ~(sent = 0 /\ s.fs.files # 0) /\ sent < s.fs.files
  IN  [NextIds(dir, sent) EXCEPT !.list =
         [needed |-> needed, left |-> IF needed THEN s.fs.files - sent ELSE @.left]]

(* get_files_list_next: the flag is never cleared here.                    *)
GetFilesListNext(s) ==
  LET sent == IF IdsLeft(s) < ListNext THEN IdsLeft(s) ELSE ListNext
  IN  IF ~s.list.needed THEN s
      ELSE [NextIds(s, sent) EXCEPT !.list.left = IF sent < @ THEN @ - sent ELSE @]

(* get_fs_stat fails on an unmounted file system and on an unclosed record; *)
(* otherwise it sums up the sizes of the records, in bytes.                *)
StatFails(s) == ~s.fs.mounted \/ \E i \in Slot : Written(s, i) /\ ~Closed(s, i)

SizesUpTo(s) ==
  LET sum[n \in 0 .. Slots - 1] ==
        IF n = 0 THEN 0 ELSE sum[n - 1] + (IF Closed(s, n) THEN s.flash.table[n].size ELSE 0)
  IN  sum

Occupied(s) == FirstPage * PageSize + SizesUpTo(s)[Slots - 1]
=============================================================================
