----------------------------- MODULE MemoryTask -----------------------------
(***************************************************************************)
(* The memory task (targets/dictofun/tasks/memory/task_memory.cpp): the    *)
(* commands of the state task and the requests of the BLE side, executed   *)
(* one at a time on the file system.  The state task appears as the phase  *)
(* of a recorder session, which fixes the order in which it sends its      *)
(* commands (tasks/systemstate/task_state.cpp); the host may ask for       *)
(* anything while BLE owns the memory; the power may go at any moment.     *)
(***************************************************************************)
EXTENDS MyFsAccess

CONSTANTS
  ReadSize,         \* bytes returned by one GET_FILE_DATA
  MaxFaults,        \* bound: flash program operations that fail
  FirstRecordLoss   \* may the device restart with the first record unclosed?

ASSUME MemoryTaskAssumption ==
  /\ ReadSize \in Nat \ {0}
  /\ MaxFaults \in Nat
  /\ FirstRecordLoss \in BOOLEAN

VARIABLES
  mem,       \* flash, myfs, _active_file and the list bookkeeping
  owner,     \* _memory_owner
  ctx,       \* _file_operation_context
  allowed,   \* is_formatting_allowed
  status,    \* the state task's memory_status
  phase,     \* where the state task is in its session
  records,   \* records created so far
  faults     \* program operations that have failed so far

vars == <<mem, owner, ctx, allowed, status, phase, records, faults>>

Phases   == {"off", "idle", "ble", "prepare", "recording", "recorded",
             "out_of_memory", "corrupt", "format"}
Statuses == {"BUSY", "READY", "OUT_OF_MEMORY", "CORRUPT"}

ClosedContext == [open |-> FALSE, id |-> NoId]

Init ==
  /\ mem = PowerOn(ErasedFlash)
  /\ owner = "AUDIO"
  /\ ctx = ClosedContext
  /\ allowed = FALSE
  /\ status = "BUSY"
  /\ phase = "off"
  /\ records = 0
  /\ faults = 0

(* Whether the program operation of this step succeeds.                    *)
Programs(ok) ==
  /\ ok \in IF faults < MaxFaults THEN BOOLEAN ELSE {TRUE}
  /\ faults' = IF ok THEN faults ELSE faults + 1

----------------------------------------------------------------------------
(* Commands of the state task                                              *)

RestartAllowed ==
  FirstRecordLoss \/ ~(Last(mem) = 1 /\ LastUnclosed(mem))

(* task_memory's prologue; the state task hears IS_READY or ERROR_BUSY.    *)
Boot ==
  /\ phase = "off"
  /\ RestartAllowed
  /\ mem' = InitFs(mem)
  /\ status' = IF InitResult(mem) = "OK" THEN "READY" ELSE "BUSY"
  /\ phase' = "idle"
  /\ UNCHANGED <<owner, ctx, allowed, records, faults>>

(* All of RAM is lost, the flash stays.                                    *)
PowerOff ==
  /\ mem' = PowerOn(mem.flash)
  /\ owner' = "AUDIO"
  /\ ctx' = ClosedContext
  /\ allowed' = FALSE
  /\ status' = "BUSY"
  /\ phase' = "off"
  /\ UNCHANGED <<records, faults>>

PowerLoss == phase # "off" /\ PowerOff

(* The power goes while the flash is being erased, before the marker is    *)
(* programmed again.                                                       *)
PowerLossInFormat ==
  /\ phase = "format"
  /\ mem.fs.mounted
  /\ mem' = PowerOn(Erase(mem).flash)
  /\ owner' = "AUDIO"
  /\ ctx' = ClosedContext
  /\ allowed' = FALSE
  /\ status' = "BUSY"
  /\ phase' = "off"
  /\ UNCHANGED <<records, faults>>

(* SELECT_OWNER_BLE, sent on the way into BLE_OPERATION: a full file       *)
(* system is good enough to read from.                                     *)
SelectOwnerBle ==
  /\ phase \in {"idle", "recorded", "out_of_memory"}
  /\ \E ok \in BOOLEAN :
       /\ Programs(ok)
       /\ LET closed == DeinitFs(mem, ok)
          IN  /\ mem' = InitFs(closed)
              /\ owner' = IF InitResult(closed) = "ERROR_GENERAL" THEN owner ELSE "BLE"
  /\ phase' = "ble"
  /\ UNCHANGED <<ctx, allowed, status, records>>

(* SELECT_OWNER_AUDIO, when the button is pressed.  The state task goes on *)
(* whatever the answer is.                                                 *)
SelectOwnerAudio ==
  /\ phase \in {"idle", "ble"}
  /\ status = "READY"
  /\ \E ok \in BOOLEAN :
       /\ Programs(ok)
       /\ LET closed == DeinitFs(mem, ok)
          IN  /\ mem' = InitFs(closed)
              /\ owner' = IF InitResult(closed) = "OK" THEN "AUDIO" ELSE owner
  /\ phase' = "prepare"
  /\ UNCHANGED <<ctx, allowed, status, records>>

(* CREATE_RECORD: the state task starts to record whatever the answer is.  *)
CreateRecord ==
  /\ phase = "prepare"
  /\ records < MaxRecords
  /\ \E ok \in BOOLEAN, id \in Ids :
       /\ Programs(ok)
       /\ mem' = CreateFile(mem, id, records + 1, ok)
       /\ IF CreateFileResult(mem, ok) = "OK"
          THEN records' = records + 1 /\ ctx' = [ctx EXCEPT !.open = TRUE]
          ELSE UNCHANGED <<records, ctx>>
  /\ phase' = "recording"
  /\ UNCHANGED <<owner, allowed, status>>

(* One audio sample taken from the audio queue, whatever the state task is *)
(* doing: recording is not stopped when the button is released.  Without   *)
(* space the memory task closes the record itself and reports the event.   *)
AudioData ==
  /\ phase # "off"
  /\ owner = "AUDIO"
  /\ ctx.open
  /\ \E ok \in BOOLEAN :
       /\ Programs(ok)
       /\ IF WriteDataResult(mem, ok) # "ERROR_OUT_OF_MEMORY"
          THEN /\ mem' = WriteData(mem, ok)
               /\ UNCHANGED <<ctx, status>>
          ELSE /\ mem' = [CloseFile(mem, ok) EXCEPT !.fs.full = TRUE]
               /\ ctx' = [ctx EXCEPT !.open = FALSE]
               /\ status' = IF CloseFileResult(mem, ok) = "OK"
                            THEN "OUT_OF_MEMORY" ELSE "CORRUPT"
  /\ UNCHANGED <<owner, allowed, phase, records>>

(* The state task has seen the event of a failed write: RECORD_END leads   *)
(* to OUT_OF_MEMORY or MEMORY_IS_CORRUPT without a closure request.        *)
RecordAborted ==
  /\ phase = "recording"
  /\ status \in {"OUT_OF_MEMORY", "CORRUPT"}
  /\ phase' = IF status = "CORRUPT" THEN "corrupt" ELSE "out_of_memory"
  /\ UNCHANGED <<mem, owner, ctx, allowed, status, records, faults>>

(* CLOSE_WRITTEN_FILE, when the button is released.                        *)
CloseWrittenFile ==
  /\ phase = "recording"
  /\ status = "READY"
  /\ \E ok \in BOOLEAN :
       /\ Programs(ok)
       /\ mem' = CloseFile(mem, ok)
       /\ IF CloseFileResult(mem, ok) = "OK"
          THEN ctx' = [ctx EXCEPT !.open = FALSE] /\ phase' = "recorded"
          ELSE phase' = "corrupt" /\ UNCHANGED ctx
  /\ UNCHANGED <<owner, allowed, status, records>>

(* PERFORM_MEMORY_CHECK asks for a format above nine tenths of the memory, *)
(* or with more than 254 records (the table's size less two).  A full file *)
(* system counts as completely occupied.                                   *)
FormatRequired ==
  /\ ~StatFails(mem)
  /\ \/ mem.fs.full
     \/ 10 * Occupied(mem) > 9 * Pages * PageSize
     \/ Last(mem) > Slots - 2

(* SHUTDOWN, after a timeout in BLE_OPERATION or a corrupt memory.         *)
MemoryCheck ==
  /\ phase \in {"ble", "corrupt"}
  /\ \/ FormatRequired /\ phase' = "format"
        /\ UNCHANGED <<mem, owner, ctx, allowed, status, records, faults>>
     \/ ~FormatRequired /\ PowerOff

(* FORMAT_FS is an init_fs: of a mounted file system, so that the mount    *)
(* fails and the flash is formatted.  Then the device switches itself off. *)
FormatFs ==
  /\ phase = "format"
  /\ mem' = PowerOn(InitFs(mem).flash)
  /\ owner' = "AUDIO"
  /\ ctx' = ClosedContext
  /\ allowed' = FALSE
  /\ status' = "BUSY"
  /\ phase' = "off"
  /\ UNCHANGED <<records, faults>>

----------------------------------------------------------------------------
(* Requests of the host, through the BLE task.  GET_FILE_INFO and          *)
(* GET_FS_STATUS change nothing.                                           *)

FromBle ==
  /\ phase # "off"
  /\ owner = "BLE"
  /\ UNCHANGED <<owner, status, phase, records, faults>>

BleGetFilesList ==
  /\ FromBle
  /\ mem' = GetFilesList(mem)
  /\ UNCHANGED <<ctx, allowed>>

BleGetFilesListNext ==
  /\ FromBle
  /\ mem' = GetFilesListNext(mem)
  /\ UNCHANGED <<ctx, allowed>>

BleOpenFile(id) ==
  /\ FromBle
  /\ ~ctx.open
  /\ OpenFileResult(mem, id) = "OK"
  /\ mem' = OpenFile(mem, id)
  /\ ctx' = [open |-> TRUE, id |-> id]
  /\ UNCHANGED allowed

(* Mutant: the context is forgotten although the file was never closed.    *)
BleForgetFile(id) ==
  /\ FromBle
  /\ ctx.open /\ ctx.id = id
  /\ ctx' = ClosedContext
  /\ UNCHANGED <<mem, allowed>>

BleCloseFile(id) ==
  /\ FromBle
  /\ ctx.open /\ ctx.id = id
  /\ CloseFileResult(mem, TRUE) = "OK"
  /\ mem' = CloseFile(mem, TRUE)
  /\ ctx' = ClosedContext
  /\ UNCHANGED allowed

BleGetFileData ==
  /\ FromBle
  /\ mem' = GetFileData(mem, ReadSize)
  /\ UNCHANGED <<ctx, allowed>>

BleAllowFormatting ==
  /\ FromBle
  /\ allowed' = TRUE
  /\ UNCHANGED <<mem, ctx>>

BleRequest ==
  \/ BleGetFilesList \/ BleGetFilesListNext
  \/ BleGetFileData \/ BleAllowFormatting
  \/ \E id \in Ids : BleOpenFile(id) \/ BleCloseFile(id)

----------------------------------------------------------------------------
Next ==
  \/ Boot \/ PowerLoss \/ PowerLossInFormat
  \/ SelectOwnerBle \/ SelectOwnerAudio
  \/ CreateRecord \/ AudioData \/ RecordAborted \/ CloseWrittenFile
  \/ MemoryCheck \/ FormatFs
  \/ BleRequest

Spec == Init /\ [][Next]_vars

----------------------------------------------------------------------------
(* Properties                                                              *)

(* The state is well formed; a record starts inside the file system.       *)
TypeOK ==
  /\ mem \in MemType
  /\ owner \in {"AUDIO", "BLE"}
  /\ ctx \in [open : BOOLEAN, id : Ids \cup {NoId}]
  /\ allowed \in BOOLEAN
  /\ status \in Statuses
  /\ phase \in Phases
  /\ records \in 0 .. MaxRecords
  /\ faults \in 0 .. MaxFaults

(* The page a reader finds k pages into record i, and the pages that hold  *)
(* its bytes.                                                              *)
PageOf(s, i, k)  == s.flash.pages[s.flash.table[i].start + k]
PagesOf(s, i)    ==
  {k \in 0 .. s.flash.table[i].size \div PageSize : s.flash.table[i].start + k < Pages}

(* The last slot has a closed record: the next descriptor misses the table *)
(* and lands at the head of the first data page.                           *)
TableUsedUp(s) == Closed(s, Slots - 1)

(* A closed record is read back as it was written: every page of its       *)
(* extent was programmed with its bytes, in their place, and with nothing  *)
(* else since the last erase (myfs.cpp:418-471, 346-416, 78-248).  One     *)
(* page is not safe, the first page of the first record, and that only     *)
(* once the table is used up: a descriptor can be programmed over it, too  *)
(* (myfs.cpp:259-277).                                                     *)
ClosedRecordsReadBack ==
  \A i \in Slot : Closed(mem, i) =>
    \A k \in PagesOf(mem, i) :
      LET own == <<mem.flash.table[i].rec, k>>
      IN  \/ PageOf(mem, i, k) = {own}
          \/ i = 1 /\ k = 0 /\ TableUsedUp(mem) /\ PageOf(mem, i, k) = {own, StrayDescriptor}

(* Between records the pointers kept in RAM are the ones a mount would     *)
(* find on the flash, so that the next record overwrites nothing and is    *)
(* not found twice or never (myfs.cpp:395-404 against 161-242).            *)
RamMatchesFlash ==
  mem.fs.mounted /\ ~mem.fs.full /\ ~mem.fs.open =>
    /\ mem.fs.nextSlot = Last(mem) + 1
    /\ mem.fs.nextStart = NextStartOnFlash(mem)
    /\ mem.fs.files = Last(mem)

(* Records disappear only in the format command or when a mount finds the  *)
(* last record unclosed (myfs_access.cpp:25-54): every other command, the  *)
(* change of owner above all, keeps them.                                  *)
WipedOnlyByFormatOrRepair ==
  [][(\E i \in Slot : Written(mem, i) /\ mem'.flash.table[i] = ErasedSlot)
       => phase = "format" \/ LastUnclosed(mem)]_vars

(* In BLE_OPERATION a file that is open was opened by the host and is      *)
(* known to the memory task by its name, so that the host can close it and *)
(* open another (task_memory.cpp:329-370, myfs_access.cpp:62-98).          *)
HostCanCloseTheFile ==
  phase = "ble" /\ owner = "BLE" /\ mem.file.open =>
    /\ ctx.open /\ ~mem.file.write
    /\ \E i \in Named(mem, ctx.id) : mem.flash.table[i].rec = mem.file.rec

(* A file open for reading is a closed record, and no read goes past its   *)
(* end (myfs_access.cpp:249-302, myfs.cpp:473-500).                        *)
ReaderSeesClosedRecord ==
  mem.file.open /\ ~mem.file.write =>
    /\ mem.file.pos <= mem.file.size
    /\ \E i \in Slot :
         /\ Closed(mem, i)
         /\ mem.flash.table[i].rec = mem.file.rec
         /\ mem.flash.table[i].size = mem.file.size
         /\ mem.flash.table[i].start = mem.file.start

----------------------------------------------------------------------------
(* The memory implements a RecordStore.  A record whose closing failed is  *)
(* no longer being written: its size is not a multiple of the page any     *)
(* more, and nothing can be added to it.                                   *)

WholePages(r, bytes) == [k \in 0 .. bytes \div PageSize |-> {<<r, k>>}]

(* The page behind the file system is not looked at: the last bytes of the *)
(* record that filled the memory are there.                                *)
ContentOf(s, i) ==
  LET d == s.flash.table[i]
  IN  [k \in 0 .. d.size \div PageSize |->
         IF d.start + k < Pages THEN PageOf(s, i, k) ELSE {<<d.rec, k>>}]

SavedRecords ==
  [i \in {j \in Slot : Written(mem, j) /\ Closed(mem, j)} |-> [rec     |-> mem.flash.table[i].rec,
                        size    |-> mem.flash.table[i].size,
                        content |-> ContentOf(mem, i)]]

OpenRecord ==
  IF mem.file.open /\ mem.file.write /\ Aligned(mem)
  THEN {[rec |-> mem.file.rec, bytes |-> mem.file.size + mem.fs.bufpos]}
  ELSE {}

(* A descriptor that missed the table is programmed over the first page.   *)
WithDescriptor(content) == [content EXCEPT ![0] = @ \cup {StrayDescriptor}]

Store == INSTANCE RecordStore
           WITH saved <- SavedRecords, writing <- OpenRecord,
                Sample <- Chunk, Content <- WholePages,
                Capacity <- Slots - 1, Spoilt <- WithDescriptor

(* Whatever the order of commands, requests, faults and power losses, the  *)
(* host sees a list of complete records that only grows or is wiped; its   *)
(* first record is spoilt when one more is begun than the table has slots, *)
(* and only then, and that one is never saved.                             *)
ImplementsRecordStore == Store!Spec
=============================================================================
