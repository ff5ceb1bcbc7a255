-------------------------- MODULE MemoryTaskProofs --------------------------
(***************************************************************************)
(* The memory task keeps its invariant, and what follows from it, for      *)
(* every size of the table, the pages and the memory, every set of names,  *)
(* and any number of records and of failed program operations.             *)
(***************************************************************************)
EXTENDS MemoryRecords

(* What a step does to the fault counter.                                  *)
LEMMA FaultsCounted ==
  ASSUME TypeOK, NEW ok, Programs(ok)
  PROVE  ok \in BOOLEAN /\ faults' \in 0 .. MaxFaults
<1>1. faults \in 0 .. MaxFaults /\ MaxFaults \in Nat
  BY MemoryTaskAssumption DEF TypeOK
<1>2. CASE faults < MaxFaults
  <2>1. ok \in BOOLEAN
    BY <1>2 DEF Programs
  <2>2. faults' = faults \/ faults' = faults + 1
    BY DEF Programs
  <2> QED BY <1>1, <1>2, <2>1, <2>2
<1>3. CASE ~(faults < MaxFaults)
  <2>1. ok = TRUE
    BY <1>3 DEF Programs
  <2>2. faults' = faults
    BY <2>1 DEF Programs
  <2> QED BY <1>1, <2>1, <2>2
<1> QED BY <1>2, <1>3

(* A new device, with an erased flash, starts in order.                    *)
LEMMA InvInit == Init => CoreInv
<1> SUFFICES ASSUME Init PROVE CoreInv
  OBVIOUS
<1> DEFINE s == PowerOn(ErasedFlash)
<1>1. s \in MemType /\ s.flash = ErasedFlash
  <2>1. ErasedFlash \in FlashType
    BY DEF ErasedFlash, FlashType, Descriptor
  <2>2. PowerOnFs \in FsType
    BY MyFsAssumption, SlotsEven DEF PowerOnFs, FsType
  <2>3. NoFile \in FileType
    BY MyFsAssumption DEF NoFile, FileType
  <2> QED BY <2>1, <2>2, <2>3 DEF PowerOn, MemType
<1>2. TableShape(s, 0) /\ FlashInv(s, 0)
  <2>1. /\ ErasedFlash.table = [i \in Slot |-> ErasedSlot]
        /\ \A p \in FirstPage .. Pages - 1 : ErasedFlash.pages[p] = {}
    BY MyFsAssumption DEF ErasedFlash, DataPage
  <2> HIDE DEF s
  <2> QED BY <1>1, <2>1, ErasedInv
<1>3. MemInv(s, 0)
  <2>1. PowerOn(s.flash) = s
    BY <1>1
  <2> HIDE DEF s
  <2> QED BY <1>1, <1>2, <2>1, PowerOnInv
<1>4. MemoryInOrder
  BY <1>3, SlotsEven DEF Init, MemoryInOrder
<1>5. CommandsInOrder
  BY <1>1 DEF Init, CommandsInOrder, ClosedContext
<1>6. TypeOK
  <2>1. mem \in MemType /\ owner \in {"AUDIO", "BLE"} /\ allowed \in BOOLEAN
        /\ status \in Statuses /\ phase \in Phases
    BY <1>1 DEF Init, Statuses, Phases
  <2>2. ctx \in [open : BOOLEAN, id : Ids \cup {NoId}]
    BY DEF Init, ClosedContext
  <2>3. records \in 0 .. MaxRecords /\ faults \in 0 .. MaxFaults
    BY MemoryTaskAssumption, MyFsAssumption DEF Init
  <2> QED BY <2>1, <2>2, <2>3 DEF TypeOK
<1> QED BY <1>4, <1>5, <1>6 DEF CoreInv

----------------------------------------------------------------------------
(* The steps                                                               *)

(* After a restart nothing but the flash counts.                           *)
LEMMA InvRestart ==
  ASSUME CoreInv, NEW n \in 0 .. Slots - 1, MemInv(mem', n), mem' = PowerOn(mem'.flash),
         ctx' = ClosedContext, owner' = "AUDIO", allowed' = FALSE,
         status' = "BUSY", phase' = "off",
         records' = records, faults' = faults
  PROVE  CoreInv'
<1>1. MemoryInOrder'
  BY DEF MemoryInOrder
<1>2. CommandsInOrder'
  BY DEF CommandsInOrder, ClosedContext
<1>3. TypeOK'
  BY DEF CoreInv, TypeOK, MemInv, ClosedContext, Statuses, Phases
<1> QED BY <1>1, <1>2, <1>3 DEF CoreInv

(* Power off and power loss.                                               *)
LEMMA InvPowerOff == CoreInv /\ PowerOff => CoreInv'
<1> SUFFICES ASSUME CoreInv, PowerOff PROVE CoreInv'
  OBVIOUS
<1>1. PICK n \in 0 .. Slots - 1 : MemInv(mem, n)
  BY DEF CoreInv, MemoryInOrder
<1>2. MemInv(PowerOn(mem.flash), n)
  BY <1>1, PowerOnInv DEF MemInv
<1>3. mem' = PowerOn(mem.flash) /\ mem'.flash = mem.flash
  BY DEF PowerOff, PowerOn
<1> QED BY <1>1, <1>2, <1>3, InvRestart DEF PowerOff

(* A power loss in the middle of a format.                                 *)
LEMMA InvPowerLossInFormat == CoreInv /\ PowerLossInFormat => CoreInv'
<1> SUFFICES ASSUME CoreInv, PowerLossInFormat PROVE CoreInv'
  OBVIOUS
<1> DEFINE e == Erase(mem)
<1>1. e \in MemType /\ TableShape(e, 0) /\ FlashInv(e, 0)
  BY ErasedFlashType, ErasedInv DEF CoreInv, TypeOK
<1>2. MemInv(PowerOn(e.flash), 0) /\ 0 \in 0 .. Slots - 1
  BY <1>1, PowerOnInv, SlotsEven
<1>3. mem' = PowerOn(e.flash) /\ mem'.flash = e.flash
  BY DEF PowerLossInFormat, PowerOn
<1> QED BY <1>2, <1>3, InvRestart DEF PowerLossInFormat

(* The format command.                                                     *)
LEMMA InvFormatFs == CoreInv /\ FormatFs => CoreInv'
<1> SUFFICES ASSUME CoreInv, FormatFs PROVE CoreInv'
  OBVIOUS
<1>1. PICK n \in 0 .. Slots - 1 : MemInv(mem, n)
  BY DEF CoreInv, MemoryInOrder
<1>2. PICK m \in 0 .. Slots - 1 : MemInv(PowerOn(InitFs(mem).flash), m)
  BY <1>1, InitFsThenPowerOn
<1>3. mem' = PowerOn(InitFs(mem).flash) /\ mem'.flash = InitFs(mem).flash
  BY DEF FormatFs, PowerOn
<1> QED BY <1>2, <1>3, InvRestart DEF FormatFs

(* The only record is closed when the device starts, so the first mount    *)
(* finds its end.                                                          *)
LEMMA InvBoot ==
  ASSUME ~FirstRecordLoss
  PROVE  CoreInv /\ Boot => CoreInv'
<1> SUFFICES ASSUME CoreInv, Boot PROVE CoreInv'
  OBVIOUS
<1>1. PICK n \in 0 .. Slots - 1 : MemInv(mem, n)
  BY DEF CoreInv, MemoryInOrder
<1>2. FirstRecordGuarded(mem, n)
  BY <1>1, LastIs, LastUnclosedIs DEF Boot, RestartAllowed, MemInv, FirstRecordGuarded
<1>3. mem.file = NoFile /\ ~ctx.open
  BY DEF CoreInv, CommandsInOrder, Boot, PowerOn
<1>4. /\ \E m \in 0 .. Slots - 1 :
           MemInv(InitFs(mem), m) /\ FirstRecordGuarded(InitFs(mem), m)
      /\ InitResult(mem) = "OK" => InitFs(mem).fs.nextSlot > 0
  BY <1>1, <1>2, <1>3, InitFsKeeps
<1>5. MemoryInOrder'
  BY <1>4 DEF Boot, MemoryInOrder
<1>6. CommandsInOrder'
  BY <1>3, <1>4 DEF Boot, CommandsInOrder
<1>7. TypeOK'
  BY <1>4 DEF Boot, CoreInv, TypeOK, MemInv, Statuses, Phases
<1> QED BY <1>5, <1>6, <1>7 DEF CoreInv

(* A change of owner: deinit_fs, then init_fs.                             *)
LEMMA OwnerChangeKeeps ==
  ASSUME CoreInv, phase # "off", NEW ok
  PROVE  /\ \E m \in 0 .. Slots - 1 : /\ MemInv(InitFs(DeinitFs(mem, ok)), m)
                                     /\ FirstRecordGuarded(InitFs(DeinitFs(mem, ok)), m)
         /\ InitFs(DeinitFs(mem, ok)).file = NoFile
         /\ mem.fs.nextSlot > 0 => InitFs(DeinitFs(mem, ok)).fs.nextSlot > 0
<1>1. PICK n \in 0 .. Slots - 1 : MemInv(mem, n) /\ FirstRecordGuarded(mem, n)
  BY DEF CoreInv, MemoryInOrder
<1> DEFINE d == DeinitFs(mem, ok)
<1>2. /\ MemInv(d, n) /\ FirstRecordGuarded(d, n) /\ d.file = NoFile
      /\ mem.fs.nextSlot > 0 => d.fs.nextSlot > 0
  BY <1>1, DeinitFsKeeps
<1> HIDE DEF d
<1>3. /\ \E m \in 0 .. Slots - 1 : MemInv(InitFs(d), m) /\ FirstRecordGuarded(InitFs(d), m)
      /\ InitFs(d).file = NoFile
      /\ d.fs.nextSlot > 0 => InitFs(d).fs.nextSlot > 0
  BY <1>2, InitFsKeeps
<1> QED BY <1>2, <1>3 DEF d

(* Both commands that select an owner.                                     *)
LEMMA InvSelectOwner == CoreInv /\ (SelectOwnerBle \/ SelectOwnerAudio) => CoreInv'
<1>1. ASSUME CoreInv, SelectOwnerBle PROVE CoreInv'
  <2>1. PICK ok \in BOOLEAN :
          /\ Programs(ok) /\ mem' = InitFs(DeinitFs(mem, ok))
          /\ owner' \in {owner, "BLE"}
    BY <1>1 DEF SelectOwnerBle
  <2>2. /\ phase # "off" /\ phase' = "ble" /\ ctx' = ctx /\ allowed' = allowed
        /\ status' = status /\ records' = records
    BY <1>1 DEF SelectOwnerBle
  <2>3. /\ \E m \in 0 .. Slots - 1 : MemInv(mem', m) /\ FirstRecordGuarded(mem', m)
        /\ mem.fs.nextSlot > 0 => mem'.fs.nextSlot > 0
    BY <1>1, <2>1, <2>2, OwnerChangeKeeps
  <2>4. MemoryInOrder'
    BY <2>3 DEF MemoryInOrder
  <2>5. CommandsInOrder'
    BY <1>1, <2>1, <2>2, <2>3 DEF CoreInv, CommandsInOrder
  <2>6. TypeOK'
    BY <1>1, <2>1, <2>2, <2>3, FaultsCounted DEF CoreInv, TypeOK, MemInv, Phases
  <2> QED BY <2>4, <2>5, <2>6 DEF CoreInv
<1>2. ASSUME CoreInv, SelectOwnerAudio PROVE CoreInv'
  <2>1. PICK ok \in BOOLEAN :
          /\ Programs(ok) /\ mem' = InitFs(DeinitFs(mem, ok))
          /\ owner' \in {owner, "AUDIO"}
    BY <1>2 DEF SelectOwnerAudio
  <2>2. /\ phase # "off" /\ phase' = "prepare" /\ ctx' = ctx /\ allowed' = allowed
        /\ status' = status /\ status = "READY" /\ records' = records
    BY <1>2 DEF SelectOwnerAudio
  <2>3. /\ \E m \in 0 .. Slots - 1 : MemInv(mem', m) /\ FirstRecordGuarded(mem', m)
        /\ mem.fs.nextSlot > 0 => mem'.fs.nextSlot > 0
    BY <1>2, <2>1, <2>2, OwnerChangeKeeps
  <2>4. MemoryInOrder'
    BY <2>3 DEF MemoryInOrder
  <2>5. CommandsInOrder'
    BY <1>2, <2>2, <2>3 DEF CoreInv, CommandsInOrder
  <2>6. TypeOK'
    BY <1>2, <2>1, <2>2, <2>3, FaultsCounted DEF CoreInv, TypeOK, MemInv, Phases
  <2> QED BY <2>4, <2>5, <2>6 DEF CoreInv
<1> QED BY <1>1, <1>2

(* CREATE_RECORD finds the pointers of a mount that worked.                *)
LEMMA InvCreateRecord == CoreInv /\ CreateRecord => CoreInv'
<1> SUFFICES ASSUME CoreInv, CreateRecord PROVE CoreInv'
  OBVIOUS
<1>1. PICK ok \in BOOLEAN, id \in Ids :
        /\ Programs(ok) /\ mem' = CreateFile(mem, id, records + 1, ok)
        /\ \/ records' = records + 1 /\ ctx' = [ctx EXCEPT !.open = TRUE]
           \/ records' = records /\ ctx' = ctx
  BY DEF CreateRecord
<1>2. /\ phase = "prepare" /\ phase' = "recording" /\ owner' = owner
      /\ allowed' = allowed /\ status' = status /\ records < MaxRecords
  BY DEF CreateRecord
<1>3. PICK n \in 0 .. Slots - 1 : MemInv(mem, n) /\ FirstRecordGuarded(mem, n)
  BY <1>2 DEF CoreInv, MemoryInOrder
<1>4. status # "BUSY" /\ mem.fs.nextSlot > 0
  BY <1>2 DEF CoreInv, CommandsInOrder
<1>5. records + 1 \in Record /\ records + 1 \in 0 .. MaxRecords
  BY <1>2, MyFsAssumption DEF CoreInv, TypeOK, Record
<1>6. /\ \E m \in 0 .. Slots - 1 : MemInv(mem', m) /\ FirstRecordGuarded(mem', m)
      /\ mem'.fs.nextSlot = mem.fs.nextSlot
  BY <1>1, <1>3, <1>4, <1>5, CreateFileKeeps
<1>7. MemoryInOrder'
  BY <1>6 DEF MemoryInOrder
<1>8. CommandsInOrder'
  BY <1>2, <1>4, <1>6 DEF CommandsInOrder
<1>9. ctx' \in [open : BOOLEAN, id : Ids \cup {NoId}] /\ records' \in 0 .. MaxRecords
  BY <1>1, <1>5 DEF CoreInv, TypeOK
<1>10. TypeOK'
  BY <1>1, <1>2, <1>6, <1>9, FaultsCounted DEF CoreInv, TypeOK, MemInv, Phases
<1> QED BY <1>7, <1>8, <1>10 DEF CoreInv

(* A sample is written, or the record is closed because it was refused.    *)
LEMMA InvAudioData == CoreInv /\ AudioData => CoreInv'
<1> SUFFICES ASSUME CoreInv, AudioData PROVE CoreInv'
  OBVIOUS
<1>1. PICK ok \in BOOLEAN :
        /\ Programs(ok)
        /\ \/ /\ mem' = WriteData(mem, ok)
              /\ ctx' = ctx /\ status' = status
           \/ /\ mem' = [CloseFile(mem, ok) EXCEPT !.fs.full = TRUE]
              /\ ctx' = [ctx EXCEPT !.open = FALSE]
              /\ status' \in {"OUT_OF_MEMORY", "CORRUPT"}
  BY DEF AudioData
<1>2. /\ phase # "off" /\ phase' = phase /\ owner = "AUDIO" /\ owner' = owner /\ ctx.open
      /\ allowed' = allowed /\ records' = records
  BY DEF AudioData
<1>3. PICK n \in 0 .. Slots - 1 : MemInv(mem, n) /\ FirstRecordGuarded(mem, n)
  BY <1>2 DEF CoreInv, MemoryInOrder
<1>4. status # "BUSY" /\ mem.fs.nextSlot > 0
  BY <1>2 DEF CoreInv, CommandsInOrder
<1>5. /\ MemInv(mem', n) /\ FirstRecordGuarded(mem', n)
      /\ mem'.fs.nextSlot > 0
  <2>1. CASE mem' = WriteData(mem, ok)
    BY <1>3, <1>4, <2>1, WriteDataKeeps
  <2>2. CASE mem' = [CloseFile(mem, ok) EXCEPT !.fs.full = TRUE]
    <3> DEFINE c == CloseFile(mem, ok)
    <3>1. MemInv(c, n) /\ FirstRecordGuarded(c, n) /\ c.fs.nextSlot > 0
      BY <1>3, <1>4, CloseFileKeeps
    <3>2. c \in MemType
      BY <3>1 DEF MemInv
    <3>3. mem' = [c EXCEPT !.fs.full = TRUE]
      BY <2>2
    <3> HIDE DEF c
    <3>4. MemInv(mem', n)
      BY <3>1, <3>3, FullKeeps
    <3>5. mem'.flash = c.flash /\ mem'.fs.open = c.fs.open /\ mem'.fs.nextSlot = c.fs.nextSlot
      BY <3>2, <3>3 DEF MemType, FsType
    <3> QED BY <3>1, <3>4, <3>5 DEF FirstRecordGuarded, UnclosedAt, SizeOf
  <2> QED BY <1>1, <2>1, <2>2
<1>6. MemoryInOrder'
  BY <1>5 DEF MemoryInOrder
<1>7. status' \in Statuses /\ status' # "BUSY"
  BY <1>1, <1>4 DEF CoreInv, TypeOK, Statuses
<1>8. CommandsInOrder'
  BY <1>2, <1>5, <1>7 DEF CommandsInOrder
<1>9. ctx' \in [open : BOOLEAN, id : Ids \cup {NoId}]
  BY <1>1 DEF CoreInv, TypeOK
<1>10. TypeOK'
  BY <1>1, <1>2, <1>5, <1>7, <1>9, FaultsCounted DEF CoreInv, TypeOK, MemInv
<1> QED BY <1>6, <1>8, <1>10 DEF CoreInv

(* CLOSE_WRITTEN_FILE completes the record or leaves it as it is.          *)
LEMMA InvCloseWrittenFile == CoreInv /\ CloseWrittenFile => CoreInv'
<1> SUFFICES ASSUME CoreInv, CloseWrittenFile PROVE CoreInv'
  OBVIOUS
<1>1. PICK ok \in BOOLEAN :
        /\ Programs(ok) /\ mem' = CloseFile(mem, ok)
        /\ \/ ctx' = [ctx EXCEPT !.open = FALSE] /\ phase' = "recorded"
           \/ ctx' = ctx /\ phase' = "corrupt"
  BY DEF CloseWrittenFile
<1>2. /\ phase = "recording" /\ status = "READY" /\ owner' = owner
      /\ allowed' = allowed /\ status' = status /\ records' = records
  BY DEF CloseWrittenFile
<1>3. PICK n \in 0 .. Slots - 1 : MemInv(mem, n) /\ FirstRecordGuarded(mem, n)
  BY <1>2 DEF CoreInv, MemoryInOrder
<1>4. mem.fs.nextSlot > 0
  BY <1>2 DEF CoreInv, CommandsInOrder
<1>5. MemInv(mem', n) /\ FirstRecordGuarded(mem', n) /\ mem'.fs.nextSlot > 0
  BY <1>1, <1>3, <1>4, CloseFileKeeps
<1>6. MemoryInOrder'
  BY <1>5 DEF MemoryInOrder
<1>7. CommandsInOrder'
  BY <1>1, <1>2, <1>5 DEF CommandsInOrder
<1>8. ctx' \in [open : BOOLEAN, id : Ids \cup {NoId}] /\ phase' \in Phases
  BY <1>1 DEF CoreInv, TypeOK, Phases
<1>9. TypeOK'
  BY <1>1, <1>2, <1>5, <1>8, FaultsCounted DEF CoreInv, TypeOK, MemInv
<1> QED BY <1>6, <1>7, <1>9 DEF CoreInv

(* The state task moves on; the memory task does nothing.                  *)
LEMMA InvStateTaskMoves == CoreInv /\ (RecordAborted \/ MemoryCheck) => CoreInv'
<1>1. ASSUME CoreInv, UNCHANGED <<mem, owner, ctx, allowed, status, records, faults>>,
             phase # "off", phase' \in {"corrupt", "out_of_memory", "format"}
      PROVE  CoreInv'
  <2>1. MemoryInOrder'
    BY <1>1 DEF CoreInv, MemoryInOrder
  <2>2. CommandsInOrder'
    BY <1>1 DEF CoreInv, CommandsInOrder
  <2>3. TypeOK'
    BY <1>1 DEF CoreInv, TypeOK, Phases
  <2> QED BY <2>1, <2>2, <2>3 DEF CoreInv
<1>2. ASSUME CoreInv, RecordAborted PROVE CoreInv'
  BY <1>1, <1>2 DEF RecordAborted
<1>3. ASSUME CoreInv, MemoryCheck PROVE CoreInv'
  <2>1. CASE FormatRequired
    BY <1>1, <1>3, <2>1 DEF MemoryCheck
  <2>2. CASE ~FormatRequired
    BY <1>3, <2>2, InvPowerOff DEF MemoryCheck
  <2> QED BY <2>1, <2>2
<1> QED BY <1>2, <1>3

(* Requests of the host.                                                   *)
LEMMA InvBleRequest == CoreInv /\ BleRequest => CoreInv'
<1>1. ASSUME CoreInv, FromBle, NEW n \in 0 .. Slots - 1,
             MemInv(mem', n), FirstRecordGuarded(mem', n),
             mem.fs.nextSlot > 0 => mem'.fs.nextSlot > 0,
             ctx' \in [open : BOOLEAN, id : Ids \cup {NoId}], allowed' \in BOOLEAN
      PROVE  CoreInv'
  <2>1. MemoryInOrder'
    BY <1>1 DEF MemoryInOrder
  <2>2. CommandsInOrder'
    BY <1>1 DEF CoreInv, CommandsInOrder, FromBle
  <2>3. TypeOK'
    BY <1>1 DEF CoreInv, TypeOK, MemInv, FromBle
  <2> QED BY <2>1, <2>2, <2>3 DEF CoreInv
<1> SUFFICES ASSUME CoreInv, BleRequest PROVE CoreInv'
  OBVIOUS
<1>2. FromBle /\ phase # "off"
  BY DEF BleRequest, BleGetFilesList, BleGetFilesListNext, BleGetFileData,
         BleAllowFormatting, BleOpenFile, BleCloseFile, FromBle
<1>3. PICK n \in 0 .. Slots - 1 : MemInv(mem, n) /\ FirstRecordGuarded(mem, n)
  BY <1>2 DEF CoreInv, MemoryInOrder
<1>4. ctx \in [open : BOOLEAN, id : Ids \cup {NoId}] /\ allowed \in BOOLEAN
  BY DEF CoreInv, TypeOK
<1>5. CASE BleGetFilesList
  <2>1. /\ MemInv(mem', n) /\ FirstRecordGuarded(mem', n)
        /\ mem'.fs.nextSlot = mem.fs.nextSlot /\ ctx' = ctx /\ allowed' = allowed
    BY <1>3, <1>5, GetFilesListKeeps DEF BleGetFilesList
  <2> QED BY <1>1, <1>2, <1>4, <2>1
<1>6. CASE BleGetFilesListNext
  <2>1. /\ MemInv(mem', n) /\ FirstRecordGuarded(mem', n)
        /\ mem'.fs.nextSlot = mem.fs.nextSlot /\ ctx' = ctx /\ allowed' = allowed
    BY <1>3, <1>6, GetFilesListNextKeeps DEF BleGetFilesListNext
  <2> QED BY <1>1, <1>2, <1>4, <2>1
<1>7. CASE BleGetFileData
  <2>1. /\ MemInv(mem', n) /\ FirstRecordGuarded(mem', n)
        /\ mem'.fs.nextSlot = mem.fs.nextSlot /\ ctx' = ctx /\ allowed' = allowed
    BY <1>3, <1>7, GetFileDataKeeps DEF BleGetFileData
  <2> QED BY <1>1, <1>2, <1>4, <2>1
<1>8. CASE BleAllowFormatting
  <2>1. mem' = mem /\ ctx' = ctx /\ allowed' \in BOOLEAN
    BY <1>8 DEF BleAllowFormatting
  <2> QED BY <1>1, <1>2, <1>3, <1>4, <2>1
<1>9. ASSUME NEW id \in Ids, BleOpenFile(id) PROVE CoreInv'
  <2>1. /\ MemInv(mem', n) /\ FirstRecordGuarded(mem', n)
        /\ mem'.fs.nextSlot = mem.fs.nextSlot
    BY <1>3, <1>9, OpenFileKeeps DEF BleOpenFile
  <2>2. ctx' = [open |-> TRUE, id |-> id] /\ allowed' = allowed
    BY <1>9 DEF BleOpenFile
  <2> QED BY <1>1, <1>2, <1>4, <2>1, <2>2
<1>10. ASSUME NEW id \in Ids, BleCloseFile(id) PROVE CoreInv'
  <2>1. /\ MemInv(mem', n) /\ FirstRecordGuarded(mem', n)
        /\ mem.fs.nextSlot > 0 => mem'.fs.nextSlot > 0
    BY <1>3, <1>10, CloseFileKeeps DEF BleCloseFile
  <2>2. ctx' = ClosedContext /\ allowed' = allowed
    BY <1>10 DEF BleCloseFile
  <2> QED BY <1>1, <1>2, <1>4, <2>1, <2>2 DEF ClosedContext
<1> QED BY <1>5, <1>6, <1>7, <1>8, <1>9, <1>10 DEF BleRequest

(* This part of the invariant is inductive by itself.                      *)
LEMMA InvNext ==
  ASSUME ~FirstRecordLoss
  PROVE  CoreInv /\ [Next]_vars => CoreInv'
<1> SUFFICES ASSUME CoreInv, [Next]_vars PROVE CoreInv'
  OBVIOUS
<1>1. CASE Boot
  BY <1>1, InvBoot
<1>2. CASE PowerLoss
  BY <1>2, InvPowerOff DEF PowerLoss
<1>3. CASE PowerLossInFormat
  BY <1>3, InvPowerLossInFormat
<1>4. CASE SelectOwnerBle \/ SelectOwnerAudio
  BY <1>4, InvSelectOwner
<1>5. CASE CreateRecord
  BY <1>5, InvCreateRecord
<1>6. CASE AudioData
  BY <1>6, InvAudioData
<1>7. CASE RecordAborted \/ MemoryCheck
  BY <1>7, InvStateTaskMoves
<1>8. CASE CloseWrittenFile
  BY <1>8, InvCloseWrittenFile
<1>9. CASE FormatFs
  BY <1>9, InvFormatFs
<1>10. CASE BleRequest
  BY <1>10, InvBleRequest
<1>11. CASE UNCHANGED vars
  BY <1>11 DEF vars, CoreInv, MemoryInOrder, CommandsInOrder, TypeOK
<1> QED BY <1>1, <1>2, <1>3, <1>4, <1>5, <1>6, <1>7, <1>8, <1>9, <1>10, <1>11 DEF Next

----------------------------------------------------------------------------
(* The records                                                             *)

(* How a step may change the records of the flash, t being the new state   *)
(* of the memory: it is a step of RecordStore, and records disappear only  *)
(* in the format command or if the last one was unclosed.                  *)
Orderly(t) ==
  /\ RecordStep(mem, t)
  /\ phase' # "off" => t.flash.marker
  /\ t.flash.marker \/ \A i \in Slot : ~Written(t, i)
  /\ \/ KeepsRecords(mem, t)
     \/ phase = "format" \/ LastUnclosed(mem) \/ \A i \in Slot : ~Written(mem, i)

(* After a restart on the same flash the open record is lost.              *)
LEMMA OrderlyRestart ==
  ASSUME IInv, NEW t, t = PowerOn(mem.flash), phase' = "off"
  PROVE  Orderly(t)
<1>1. t.flash = mem.flash /\ t.file = NoFile
  BY DEF PowerOn
<1>2. OpenIn(t) = {} /\ SavedIn(t) = SavedIn(mem) /\ KeepsRecords(mem, t)
  BY <1>1, NothingOpen, SameTableSaved, SameTableKeeps DEF NoFile, Strayed
<1>3. t.flash.marker \/ \A i \in Slot : ~Written(t, i)
  BY <1>1 DEF IInv, MarkerInOrder, Written
<1> QED BY <1>2, <1>3 DEF Orderly, RecordStep, Abandons

(* On a marked flash, keeping the records is enough.                       *)
LEMMA OrderlyKeeps ==
  ASSUME IInv, phase # "off", NEW t, RecordStep(mem, t), KeepsRecords(mem, t)
  PROVE  Orderly(t)
BY DEF IInv, MarkerInOrder, KeepsRecords, Orderly

(* A call that reads leaves the flash and the open record alone.           *)
LEMMA OrderlyRead ==
  ASSUME IInv, phase # "off", NEW t, t.flash = mem.flash, OpenIn(t) = OpenIn(mem)
  PROVE  Orderly(t)
<1>1. SavedIn(t) = SavedIn(mem) /\ KeepsRecords(mem, t)
  BY SameTableSaved, SameTableKeeps DEF Strayed
<1> QED BY <1>1, OrderlyKeeps DEF RecordStep, Rests

(* The start: init_fs of a memory without a file.                          *)
LEMMA OrderlyBoot ==
  ASSUME IInv, Boot, NEW t, t = mem'
  PROVE  Orderly(t)
<1>1. PICK n \in 0 .. Slots - 1 : MemInv(mem, n)
  BY DEF IInv, CoreInv, MemoryInOrder
<1>2. mem = PowerOn(mem.flash) /\ t = InitFs(mem)
  BY DEF IInv, CoreInv, CommandsInOrder, Boot
<1>3. mem.file = NoFile /\ ~mem.fs.mounted
  <2>1. PowerOn(mem.flash).file = NoFile /\ ~PowerOn(mem.flash).fs.mounted
    BY DEF PowerOn, PowerOnFs
  <2> QED BY <1>2, <2>1
<1>4. /\ t.flash.marker
      /\ \/ t.flash = mem.flash
         \/ /\ t.flash.table = [i \in Slot |-> ErasedSlot]
            /\ ~mem.flash.marker \/ LastUnclosed(mem)
  BY <1>1, <1>2, <1>3, InitFsDoes
<1>5. OpenIn(mem) = {}
  BY <1>3, NothingOpen DEF NoFile
<1>6. t.file = NoFile
  <2>1. InitFs(mem) = Mount(mem) \/ InitFs(mem) = Mount(Format(mem))
        \/ InitFs(mem) = [Mount(mem) EXCEPT !.list.needed = FALSE, !.file = NoFile]
        \/ InitFs(mem) = [Mount(Format(mem)) EXCEPT !.list.needed = FALSE, !.file = NoFile]
    BY DEF InitFs
  <2>2. mem \in MemType /\ Extents(mem, n) /\ TableShape(mem, n)
    BY <1>1 DEF MemInv, FlashInv
  <2>3. Mount(mem).file = NoFile /\ Mount(mem) \in MemType
    BY <1>3, <2>2, MountType
  <2>4. Mount(Format(mem)).file = NoFile /\ Mount(Format(mem)) \in MemType
    <3>1. Formatted(mem, Format(mem))
      BY <2>2, FormatIs
    <3>2. Format(mem).file = mem.file
      BY <2>2 DEF Format, Erase, MemType
    <3> QED BY <1>3, <2>2, <3>1, <3>2, FormattedMounts
  <2> DEFINE u == Mount(mem)
             v == Mount(Format(mem))
  <2> HIDE DEF u, v
  <2>5. [u EXCEPT !.list.needed = FALSE, !.file = NoFile].file = NoFile
        /\ [v EXCEPT !.list.needed = FALSE, !.file = NoFile].file = NoFile
    BY <2>3, <2>4 DEF MemType, u, v
  <2> QED BY <1>2, <2>1, <2>3, <2>4, <2>5 DEF u, v
<1>7. OpenIn(t) = {}
  BY <1>6, NothingOpen DEF NoFile
<1>8. CASE t.flash = mem.flash
  <2>1. SavedIn(t) = SavedIn(mem) /\ KeepsRecords(mem, t)
    BY <1>8, SameTableSaved, SameTableKeeps DEF Strayed
  <2> QED BY <1>4, <1>5, <1>7, <2>1 DEF Orderly, RecordStep, Rests
<1>9. CASE t.flash # mem.flash
  <2>1. Wipes(mem, t)
    BY <1>4, <1>7, <1>9, ErasedSaves DEF Wipes
  <2>2. ~mem.flash.marker => \A i \in Slot : ~Written(mem, i)
    BY DEF IInv, MarkerInOrder
  <2> QED BY <1>4, <1>9, <2>1, <2>2 DEF Orderly, RecordStep
<1> QED BY <1>8, <1>9

(* A format, whether it is interrupted or not.                             *)
LEMMA OrderlyFormat ==
  ASSUME IInv, PowerLossInFormat \/ FormatFs, NEW t, t = mem'
  PROVE  Orderly(t)
<1>1. PICK n \in 0 .. Slots - 1 : MemInv(mem, n)
  BY DEF IInv, CoreInv, MemoryInOrder
<1>2. phase = "format" /\ phase' = "off" /\ mem \in MemType
  BY <1>1 DEF PowerLossInFormat, FormatFs, MemInv
<1>3. CASE PowerLossInFormat
  <2>1. t.file = NoFile /\ t.flash = Erase(mem).flash
    BY <1>3 DEF PowerLossInFormat, PowerOn
  <2>2. t.flash.table = [i \in Slot |-> ErasedSlot]
    BY <1>2, <2>1, ErasedFlashType
  <2>3. OpenIn(t) = {}
    BY <2>1, NothingOpen DEF NoFile
  <2> QED BY <1>2, <2>2, <2>3, ErasedSaves DEF Orderly, RecordStep, Wipes
<1>4. CASE FormatFs
  <2>1. t.file = NoFile /\ t.flash = InitFs(mem).flash
    BY <1>4 DEF FormatFs, PowerOn
  <2>2. OpenIn(t) = {}
    BY <2>1, NothingOpen DEF NoFile
  <2>3. /\ t.flash.marker
        /\ t.flash = mem.flash \/ t.flash.table = [i \in Slot |-> ErasedSlot]
    BY <1>1, <2>1, InitFsDoes
  <2>4. Abandons(mem, t) \/ Wipes(mem, t)
    BY <2>2, <2>3, SameTableSaved, ErasedSaves DEF Abandons, Wipes, Strayed
  <2> QED BY <1>2, <2>3, <2>4 DEF Orderly, RecordStep
<1> QED BY <1>3, <1>4

(* A change of owner closes the record, or gives it up.                    *)
LEMMA OrderlyOwner ==
  ASSUME IInv, SelectOwnerBle \/ SelectOwnerAudio, NEW t, t = mem'
  PROVE  Orderly(t)
<1>1. PICK ok \in BOOLEAN : t = InitFs(DeinitFs(mem, ok))
  BY DEF SelectOwnerBle, SelectOwnerAudio
<1>2. phase # "off" /\ mem.flash.marker
  BY DEF SelectOwnerBle, SelectOwnerAudio, IInv, MarkerInOrder
<1>3. PICK n \in 0 .. Slots - 1 : MemInv(mem, n) /\ FirstRecordGuarded(mem, n)
  BY <1>2 DEF IInv, CoreInv, MemoryInOrder
<1>4. /\ Abandons(mem, t) \/ SavesRecord(mem, t) \/ Wipes(mem, t)
      /\ t.flash.marker
      /\ KeepsRecords(mem, t) \/ LastUnclosed(mem)
  BY <1>1, <1>2, <1>3, OwnerSteps
<1> QED BY <1>4 DEF Orderly, RecordStep

(* Creating, writing and closing.                                          *)
LEMMA OrderlyRecording ==
  ASSUME IInv, CreateRecord \/ AudioData \/ CloseWrittenFile, NEW t, t = mem'
  PROVE  Orderly(t)
<1>1. phase # "off"
  BY DEF CreateRecord, AudioData, CloseWrittenFile
<1>2. PICK n \in 0 .. Slots - 1 : MemInv(mem, n) /\ FirstRecordGuarded(mem, n)
  BY <1>1 DEF IInv, CoreInv, MemoryInOrder
<1>3. mem \in MemType
  BY <1>2 DEF MemInv
<1>4. RecordStep(mem, t) /\ KeepsRecords(mem, t)
  <2>1. CASE t = mem
    BY <2>1 DEF RecordStep, Rests, KeepsRecords
  <2>2. CASE CreateRecord
    <3>1. PICK ok \in BOOLEAN, id \in Ids : t = CreateFile(mem, id, records + 1, ok)
      BY <2>2 DEF CreateRecord
    <3>2. records + 1 \in Record
      BY <2>2, MyFsAssumption DEF CreateRecord, IInv, CoreInv, TypeOK, Record
    <3>3. t = mem \/ Created(mem, t, id, records + 1)
      BY <1>3, <3>1, CreateDoes
    <3>4. CASE Created(mem, t, id, records + 1)
      <4>1. mem.fs.nextSlot > 0
        BY <2>2 DEF CreateRecord, IInv, CoreInv, CommandsInOrder
      <4> QED BY <1>2, <3>2, <3>4, <4>1, CreateSteps DEF RecordStep
    <3> QED BY <2>1, <3>3, <3>4
  <2>3. ASSUME NEW ok, t = WriteData(mem, ok) PROVE RecordStep(mem, t) /\ KeepsRecords(mem, t)
    <3>1. t = mem \/ Wrote(mem, t)
      BY <1>2, <2>3, WriteDoes
    <3> QED BY <1>3, <2>1, <3>1, WriteSteps DEF RecordStep
  <2>4. ASSUME NEW ok, NEW c, c = CloseFile(mem, ok)
        PROVE  RecordStep(mem, c) /\ KeepsRecords(mem, c) /\ c \in MemType
    BY <1>2, <2>4, CloseSteps, CloseFileKeeps DEF RecordStep, MemInv
  <2>5. ASSUME NEW ok, t = [CloseFile(mem, ok) EXCEPT !.fs.full = TRUE]
        PROVE  RecordStep(mem, t) /\ KeepsRecords(mem, t)
    <3>1. PICK c : c = CloseFile(mem, ok)
      OBVIOUS
    <3>2. RecordStep(mem, c) /\ KeepsRecords(mem, c) /\ c \in MemType
      BY <2>4, <3>1
    <3>3. t.flash = c.flash /\ t.file = c.file /\ t.fs.bufpos = c.fs.bufpos
      BY <2>5, <3>1, <3>2 DEF MemType, FsType
    <3>4. SavedIn(t) = SavedIn(c) /\ OpenIn(t) = OpenIn(c)
      BY <3>3, SameTableSaved, SameOpen DEF Strayed
    <3>5. RecordStep(mem, t)
      BY <3>2, <3>4 DEF RecordStep, Rests, Abandons, Wipes, SavesRecord, AddsSample, Begins,
                        BeginsBeyond
    <3>6. KeepsRecords(mem, t)
      BY <3>2, <3>3 DEF KeepsRecords, Written, Closed
    <3> QED BY <3>5, <3>6
  <2>6. CASE AudioData
    <3>1. \E ok \in BOOLEAN : t = WriteData(mem, ok)
                              \/ t = [CloseFile(mem, ok) EXCEPT !.fs.full = TRUE]
      BY <2>6 DEF AudioData
    <3> QED BY <2>3, <2>5, <3>1
  <2>7. CASE CloseWrittenFile
    <3>1. \E ok \in BOOLEAN : t = CloseFile(mem, ok)
      BY <2>7 DEF CloseWrittenFile
    <3> QED BY <2>4, <3>1
  <2> QED BY <2>2, <2>6, <2>7
<1> QED BY <1>1, <1>4, OrderlyKeeps

(* Listing the records reads the descriptor table.                         *)
LEMMA ListsRead ==
  ASSUME NEW s \in MemType, NEW t, t = GetFilesList(s) \/ t = GetFilesListNext(s)
  PROVE  t.flash = s.flash /\ t.fs.bufpos = s.fs.bufpos
<1>1. CASE t = GetFilesList(s)
  <2> DEFINE m == IF IdsLeft(RewindDir(s)) < ListFirst THEN IdsLeft(RewindDir(s)) ELSE ListFirst
             l == [needed |-> ~(m = 0 /\ s.fs.files # 0) /\ m < s.fs.files,
                   left |-> IF ~(m = 0 /\ s.fs.files # 0) /\ m < s.fs.files
                            THEN s.fs.files - m ELSE NextIds(RewindDir(s), m).list.left]
  <2>1. t = [NextIds(RewindDir(s), m) EXCEPT !.list = l]
    BY <1>1 DEF GetFilesList
  <2> HIDE DEF m, l
  <2> QED BY <2>1 DEF NextIds, RewindDir, MemType, FsType
<1>2. CASE t = GetFilesListNext(s)
  <2> DEFINE m == IF IdsLeft(s) < ListNext THEN IdsLeft(s) ELSE ListNext
  <2>1. \/ t = s
        \/ t = [NextIds(s, m) EXCEPT !.list.left = IF m < @ THEN @ - m ELSE @]
    BY <1>2 DEF GetFilesListNext
  <2> HIDE DEF m
  <2>2. PICK u : u = NextIds(s, m)
    OBVIOUS
  <2>3. u \in [DOMAIN s -> {u[f] : f \in DOMAIN s}] /\ u.flash = s.flash /\ u.fs.bufpos = s.fs.bufpos
    BY <2>2 DEF NextIds, MemType, FsType
  <2> QED BY <2>1, <2>2, <2>3 DEF MemType
<1> QED BY <1>1, <1>2

(* The host closes what it reads, and otherwise changes no record.         *)
LEMMA OrderlyBle ==
  ASSUME IInv, BleRequest, NEW t, t = mem'
  PROVE  Orderly(t)
<1>1. phase # "off"
  BY DEF BleRequest, BleGetFilesList, BleGetFilesListNext, BleGetFileData,
         BleAllowFormatting, BleOpenFile, BleCloseFile, FromBle
<1>2. PICK n \in 0 .. Slots - 1 : MemInv(mem, n) /\ FirstRecordGuarded(mem, n)
  BY <1>1 DEF IInv, CoreInv, MemoryInOrder
<1>3. /\ mem \in MemType /\ mem.fs \in FsType /\ mem.file \in FileType /\ Ram(mem, n)
      /\ ListNext \in Nat /\ ListFirst \in Nat
  BY <1>2, AccessAssumption DEF MemInv, MemType
<1>4. CASE BleGetFilesList \/ BleGetFilesListNext
  <2>1. t = GetFilesList(mem) \/ t = GetFilesListNext(mem)
    BY <1>4 DEF BleGetFilesList, BleGetFilesListNext
  <2>2. t.file = mem.file
    BY <1>2, <2>1, GetFilesListKeeps, GetFilesListNextKeeps
  <2>3. t.flash = mem.flash /\ t.fs.bufpos = mem.fs.bufpos
    BY <1>3, <2>1, ListsRead
  <2> QED BY <1>1, <2>2, <2>3, SameOpen, OrderlyRead
<1>5. CASE BleGetFileData
  <2>1. t = GetFileData(mem, ReadSize)
    BY <1>5 DEF BleGetFileData
  <2>2. t.fs = mem.fs /\ t.file.write = mem.file.write /\ t.flash = mem.flash
    <3>1. t.fs = mem.fs /\ t.file.write = mem.file.write
      BY <1>2, <2>1, GetFileDataKeeps
    <3>2. t.flash = mem.flash
      BY <1>3, <2>1 DEF GetFileData, Read, MemType
    <3> QED BY <3>1, <3>2
  <2>3. CASE mem.file.write
    <3>1. t = mem
      BY <2>1, <2>3 DEF GetFileData
    <3> QED BY <1>1, <3>1, OrderlyRead
  <2>4. CASE ~mem.file.write
    <3>1. OpenIn(t) = {} /\ OpenIn(mem) = {}
      BY <2>2, <2>4, NothingOpen
    <3> QED BY <1>1, <2>2, <3>1, OrderlyRead
  <2> QED BY <2>3, <2>4
<1>6. CASE BleAllowFormatting
  <2>1. t = mem
    BY <1>6 DEF BleAllowFormatting
  <2> QED BY <1>1, <2>1, OrderlyRead
<1>7. ASSUME NEW id \in Ids, BleOpenFile(id) PROVE Orderly(t)
  <2>1. t = OpenRead(mem, id) /\ OpenFileResult(mem, id) = "OK"
    <3>1. t = OpenFile(mem, id) /\ OpenFileResult(mem, id) = "OK"
      BY <1>7 DEF BleOpenFile
    <3> QED BY <3>1, Zenon DEF OpenFile
  <2>2. OpenReadResult(mem, id) = "OK" /\ ~mem.file.open
    BY <2>1 DEF OpenFileResult
  <2> DEFINE d == mem.flash.table[First(Named(mem, id))]
             f == [open |-> TRUE, write |-> FALSE, rec |-> d.rec,
                   size |-> d.size, pos |-> 0, start |-> d.start]
             g == [mem.fs EXCEPT !.open = TRUE, !.bufpos = 0]
  <2>3. t = [mem EXCEPT !.fs = g, !.file = f] /\ ~f.write
    BY <2>1, <2>2 DEF OpenRead
  <2> HIDE DEF f, g
  <2>4. t.file = f /\ t.flash = mem.flash
    BY <1>3, <2>3 DEF MemType
  <2>5. OpenIn(t) = {} /\ OpenIn(mem) = {}
    BY <2>2, <2>3, <2>4, NothingOpen
  <2> QED BY <1>1, <2>4, <2>5, OrderlyRead
<1>8. ASSUME NEW id \in Ids, BleCloseFile(id) PROVE Orderly(t)
  <2>1. t = CloseFile(mem, TRUE)
    BY <1>8 DEF BleCloseFile
  <2>2. RecordStep(mem, t) /\ KeepsRecords(mem, t)
    BY <1>2, <2>1, CloseSteps DEF RecordStep
  <2> QED BY <1>1, <2>2, OrderlyKeeps
<1> QED BY <1>4, <1>5, <1>6, <1>7, <1>8 DEF BleRequest

(* Every step is orderly.                                                  *)
LEMMA NextOrderly ==
  ASSUME IInv, Next, NEW t, t = mem'
  PROVE  Orderly(t)
<1>1. CASE Boot
  BY <1>1, OrderlyBoot
<1>2. CASE PowerLoss
  BY <1>2, OrderlyRestart DEF PowerLoss, PowerOff
<1>3. CASE PowerLossInFormat \/ FormatFs
  BY <1>3, OrderlyFormat
<1>4. CASE SelectOwnerBle \/ SelectOwnerAudio
  BY <1>4, OrderlyOwner
<1>5. CASE CreateRecord \/ AudioData \/ CloseWrittenFile
  BY <1>5, OrderlyRecording
<1>6. CASE RecordAborted
  BY <1>6, OrderlyRead DEF RecordAborted
<1>7. CASE MemoryCheck
  <2>1. CASE FormatRequired
    BY <1>7, <2>1, OrderlyRead DEF MemoryCheck
  <2>2. CASE ~FormatRequired
    BY <1>7, <2>2, OrderlyRestart DEF MemoryCheck, PowerOff
  <2> QED BY <2>1, <2>2
<1>8. CASE BleRequest
  BY <1>8, OrderlyBle
<1> QED BY <1>1, <1>2, <1>3, <1>4, <1>5, <1>6, <1>7, <1>8 DEF Next

(* The memory task keeps the invariant, whatever the order of commands,    *)
(* requests, faults and power losses (task_memory.cpp:109-637).            *)
THEOREM MemoryInvariant ==
  ASSUME ~FirstRecordLoss
  PROVE  Spec => []IInv
<1>1. Init => IInv
  <2>1. Init => MarkerInOrder
    BY DEF Init, MarkerInOrder, PowerOn, ErasedFlash, ErasedSlot, Written
  <2> QED BY <2>1, InvInit DEF IInv, CoreInv
<1>2. IInv /\ [Next]_vars => IInv'
  <2> SUFFICES ASSUME IInv, [Next]_vars PROVE IInv'
    OBVIOUS
  <2>1. CoreInv'
    BY InvNext DEF IInv, CoreInv
  <2>2. MarkerInOrder'
    <3>1. CASE Next
      <4>1. PICK t : t = mem'
        OBVIOUS
      <4>2. Orderly(t)
        BY <3>1, <4>1, NextOrderly
      <4> QED BY <4>1, <4>2 DEF Orderly, MarkerInOrder, Written
    <3>2. CASE UNCHANGED vars
      BY <3>2 DEF vars, IInv, MarkerInOrder, Written
    <3> QED BY <3>1, <3>2
  <2> QED BY <2>1, <2>2 DEF IInv
<1> QED BY <1>1, <1>2, PTL DEF Spec

----------------------------------------------------------------------------
(* What follows                                                            *)

(* The state is well formed; above all, every pointer, size and read       *)
(* position stays in its range and every record starts inside the file     *)
(* system (myfs.cpp:250-416).                                              *)
THEOREM TypeCorrect ==
  ASSUME ~FirstRecordLoss
  PROVE  Spec => []TypeOK
<1>1. IInv => TypeOK
  BY DEF IInv, CoreInv
<1> QED BY <1>1, MemoryInvariant, PTL

(* The pages of the extents of two records are not the same, so what is    *)
(* found in a page of a closed record is that page of that record, and in  *)
(* the first page of the first one a descriptor if it missed the table.    *)
LEMMA PageOfClosedRecord ==
  ASSUME NEW s, NEW n, MemInv(s, n), NEW i \in Slot, Closed(s, i), NEW k \in PagesOf(s, i)
  PROVE  PageOf(s, i, k) = {<<RecOf(s, i), k>>}
           \cup (IF i = 1 /\ k = 0 /\ Strayed(s) THEN {StrayDescriptor} ELSE {})
<1>1. s \in MemType /\ TableShape(s, n) /\ FlashInv(s, n) /\ n \in 0 .. Slots - 1
  BY DEF MemInv, TableShape
<1>2. i \in 1 .. n /\ SizeOf(s, i) # EmptyWord
  BY <1>1, SlotsEven DEF Closed, Written, TableShape, RecOf, SizeOf, Slot
<1>3. /\ RecOf(s, i) \in Record /\ StartOf(s, i) \in FirstPage .. Pages - 1
      /\ SizeOf(s, i) \in Nat /\ EndOf(s, i) = StartOf(s, i) + SizeOf(s, i) \div PageSize + 1
  BY <1>1, <1>2, SlotFacts
<1> DEFINE q == SizeOf(s, i) \div PageSize
           p == StartOf(s, i) + k
<1>4. q \in Nat /\ k \in 0 .. q /\ p < Pages
  BY <1>3, DivDef DEF PagesOf, SizeOf, StartOf
<1>5. p \in FirstPage .. Pages - 1 /\ p < EndOf(s, i) /\ p >= StartOf(s, i)
      /\ StartOf(s, i) \in Nat
  BY <1>3, <1>4, MyFsAssumption
<1>6. s.flash.pages[p] \subseteq Writer
  BY <1>1, <1>5, PageFacts
<1>7. <<RecOf(s, i), k>> \in s.flash.pages[p]
  BY <1>1, <1>2, <1>4 DEF FlashInv, ClosedComplete
<1>8. <<RecOf(s, i), k>> # StrayDescriptor
  BY <1>3 DEF StrayDescriptor, Record
<1>9. ASSUME NEW w \in s.flash.pages[p], w # StrayDescriptor
      PROVE  w = <<RecOf(s, i), k>>
  <2>1. w \in Record \X Nat /\ w[2] \in Nat
    BY <1>6, <1>9 DEF Writer
  <2>2. /\ \A j \in 1 .. n : j < i => EndOf(s, j) <= StartOf(s, i)
        /\ \A j \in 1 .. n : i < j => EndOf(s, i) <= StartOf(s, j)
    BY <1>1, <1>2 DEF FlashInv, Extents
  <2>3. \/ \E j \in 1 .. n : BelongsTo(s, j, p, w)
        \/ p >= EndOf(s, n)
    BY <1>1, <1>5, <1>9 DEF FlashInv, PageWriters
  <2>4. ~(p >= EndOf(s, n))
    <3>1. n \in 1 .. n /\ EndOf(s, n) \in Nat /\ EndOf(s, n) >= StartOf(s, n)
          /\ EndOf(s, i) \in Nat /\ StartOf(s, n) \in FirstPage .. Pages - 1
      <4>1. n \in 1 .. n
        BY <1>1, <1>2, SlotsEven
      <4> QED BY <1>1, <1>2, <4>1, SlotFacts
    <3>2. n = i \/ i < n
      BY <1>1, <1>2, SlotsEven
    <3>3. EndOf(s, i) <= EndOf(s, n)
      BY <2>2, <3>1, <3>2, MyFsAssumption
    <3> QED BY <1>5, <3>1, <3>3, MyFsAssumption
  <2>5. PICK j \in 1 .. n : BelongsTo(s, j, p, w)
    BY <2>3, <2>4
  <2>6. /\ StartOf(s, j) \in Nat /\ EndOf(s, j) \in Nat
        /\ SizeOf(s, j) # EmptyWord =>
             /\ EndOf(s, j) = StartOf(s, j) + SizeOf(s, j) \div PageSize + 1
             /\ SizeOf(s, j) \div PageSize \in Nat
    <3>1. /\ StartOf(s, j) \in FirstPage .. Pages - 1 /\ EndOf(s, j) \in Nat
          /\ SizeOf(s, j) \in Nat \cup {EmptyWord}
          /\ SizeOf(s, j) # EmptyWord =>
               EndOf(s, j) = StartOf(s, j) + SizeOf(s, j) \div PageSize + 1
      BY <1>1, SlotFacts
    <3>2. StartOf(s, j) \in Nat
      BY <3>1, MyFsAssumption
    <3>3. SizeOf(s, j) # EmptyWord => SizeOf(s, j) \div PageSize \in Nat
      BY <3>1, DivDef
    <3> QED BY <3>1, <3>2, <3>3
  <2>7. /\ w[1] = RecOf(s, j) /\ p = StartOf(s, j) + w[2]
        /\ SizeOf(s, j) # EmptyWord => w[2] <= SizeOf(s, j) \div PageSize
    BY <2>5 DEF BelongsTo
  <2>8. ~(j < i)
    <3>1. SUFFICES ASSUME j < i PROVE FALSE
      OBVIOUS
    <3>2. SizeOf(s, j) # EmptyWord
      BY <1>1, <1>2, <3>1, SlotsEven DEF TableShape
    <3>3. p < EndOf(s, j)
      BY <2>1, <2>6, <2>7, <3>2
    <3>4. EndOf(s, j) <= StartOf(s, i)
      BY <2>2, <3>1
    <3> QED BY <1>5, <2>6, <3>3, <3>4
  <2>9. ~(i < j)
    <3>1. SUFFICES ASSUME i < j PROVE FALSE
      OBVIOUS
    <3>2. EndOf(s, i) <= StartOf(s, j) /\ EndOf(s, i) \in Nat
      BY <1>1, <1>2, <2>2, <3>1, SlotFacts
    <3> QED BY <1>5, <2>1, <2>6, <2>7, <3>2
  <2>10. j = i
    BY <1>1, <1>2, <2>8, <2>9, SlotsEven
  <2>11. w[2] = k
    BY <1>4, <1>5, <2>1, <2>7, <2>10
  <2> QED BY <2>1, <2>7, <2>10, <2>11
<1>10. PageOf(s, i, k) = s.flash.pages[p]
  BY DEF PageOf, StartOf
<1>11. p = FirstPage <=> i = 1 /\ k = 0
  <2>1. StartOf(s, 1) = FirstPage
    BY <1>1, <1>2, SlotsEven DEF FlashInv, Extents
  <2>2. i = 1 /\ k = 0 => p = FirstPage
    BY <2>1, <1>5
  <2>3. ASSUME p = FirstPage, i # 1 PROVE FALSE
    <3>1. 1 \in 1 .. n /\ i \in 1 .. n /\ 1 < i
      BY <1>1, <1>2, <2>3, SlotsEven
    <3>2. EndOf(s, 1) <= StartOf(s, i)
      BY <1>1, <3>1 DEF FlashInv, Extents
    <3>3. SizeOf(s, 1) # EmptyWord
      BY <1>1, <1>2, <3>1, SlotsEven DEF TableShape
    <3>4. EndOf(s, 1) = StartOf(s, 1) + SizeOf(s, 1) \div PageSize + 1
          /\ SizeOf(s, 1) \div PageSize \in Nat
      BY <1>1, <3>1, <3>3, SlotFacts, DivDef
    <3> QED BY <1>4, <1>5, <2>1, <2>3, <3>2, <3>4, MyFsAssumption
  <2>4. p = FirstPage /\ i = 1 => k = 0
    BY <2>1, <1>4, MyFsAssumption
  <2> QED BY <2>2, <2>3, <2>4
<1>12. StrayDescriptor \in s.flash.pages[p] <=> i = 1 /\ k = 0 /\ Strayed(s)
  <2>1. StrayDescriptor \in s.flash.pages[p] => p = FirstPage
    BY <1>1, <1>5 DEF FlashInv, StrayInOrder
  <2> QED BY <1>11, <2>1 DEF Strayed
<1> HIDE DEF p
<1> QED BY <1>7, <1>8, <1>9, <1>10, <1>12

(* A descriptor misses the table only if its last slot has a closed record. *)
LEMMA StrayedUsesUp ==
  ASSUME NEW s, NEW n, MemInv(s, n), Strayed(s)
  PROVE  TableUsedUp(s)
<1>1. n = Slots - 1 /\ ~UnclosedAt(s, n)
  BY MyFsAssumption DEF MemInv, FlashInv, StrayInOrder, Strayed
<1>2. Slots - 1 \in Slot /\ RecOf(s, Slots - 1) # 0 /\ SizeOf(s, Slots - 1) # EmptyWord
  BY <1>1, SlotsEven DEF MemInv, TableShape, UnclosedAt, Slot
<1> QED BY <1>2 DEF TableUsedUp, Closed, Written, RecOf, SizeOf

(* Every page of a closed record holds its bytes and nothing else, however *)
(* many records are created, closed and lost; except that the first page   *)
(* of the first record may hold a descriptor besides, once the table's     *)
(* last slot has a closed record (myfs.cpp:78-471, 259-277).               *)
THEOREM ClosedRecordsSafe ==
  ASSUME ~FirstRecordLoss
  PROVE  Spec => []ClosedRecordsReadBack
<1>1. IInv => ClosedRecordsReadBack
  <2> SUFFICES ASSUME IInv, NEW i \in Slot, Closed(mem, i), NEW k \in PagesOf(mem, i)
               PROVE  LET own == <<mem.flash.table[i].rec, k>>
                      IN  \/ PageOf(mem, i, k) = {own}
                          \/ /\ i = 1 /\ k = 0 /\ TableUsedUp(mem)
                             /\ PageOf(mem, i, k) = {own, StrayDescriptor}
    BY Zenon DEF ClosedRecordsReadBack
  <2>1. PICK n \in 0 .. Slots - 1 : MemInv(mem, n)
    BY DEF IInv, CoreInv, MemoryInOrder
  <2>2. PageOf(mem, i, k) = {<<mem.flash.table[i].rec, k>>}
          \cup (IF i = 1 /\ k = 0 /\ Strayed(mem) THEN {StrayDescriptor} ELSE {})
    BY <2>1, PageOfClosedRecord, Zenon DEF RecOf
  <2>3. Strayed(mem) => TableUsedUp(mem)
    BY <2>1, StrayedUsesUp
  <2> QED BY <2>2, <2>3
<1> QED BY <1>1, MemoryInvariant, PTL

(* The pointers a record leaves in RAM are those the next mount derives    *)
(* from the flash (myfs.cpp:395-404 against 161-242).                      *)
THEOREM PointersSafe ==
  ASSUME ~FirstRecordLoss
  PROVE  Spec => []RamMatchesFlash
<1>1. IInv => RamMatchesFlash
  <2> SUFFICES ASSUME IInv, mem.fs.mounted, ~mem.fs.full, ~mem.fs.open
               PROVE  /\ mem.fs.nextSlot = Last(mem) + 1
                      /\ mem.fs.nextStart = NextStartOnFlash(mem)
                      /\ mem.fs.files = Last(mem)
    BY DEF RamMatchesFlash
  <2>1. PICK n \in 0 .. Slots - 1 : MemInv(mem, n)
    BY DEF IInv, CoreInv, MemoryInOrder
  <2>2. Last(mem) = n /\ NextStartOnFlash(mem) = EndOfRecords(mem, n)
    BY <2>1, LastIs, NextStartIs DEF MemInv, FlashInv
  <2>3. mem.fs.nextSlot > 0 /\ PointersAt(mem, n)
    BY <2>1 DEF MemInv, Ram
  <2>4. mem.fs.files = IF mem.fs.nextSlot = 0 THEN 0 ELSE mem.fs.nextSlot - 1
    BY <2>1 DEF MemInv, Ram
  <2> QED BY <2>2, <2>3, <2>4, SlotsEven DEF PointersAt
<1> QED BY <1>1, MemoryInvariant, PTL

(* The host reads closed records only, and never past their end            *)
(* (myfs_access.cpp:249-302).                                              *)
THEOREM ReaderSafe ==
  ASSUME ~FirstRecordLoss
  PROVE  Spec => []ReaderSeesClosedRecord
<1>1. IInv => ReaderSeesClosedRecord
  <2> SUFFICES ASSUME IInv, mem.file.open, ~mem.file.write
               PROVE  /\ mem.file.pos <= mem.file.size
                      /\ \E i \in Slot :
                           /\ Closed(mem, i)
                           /\ mem.flash.table[i].rec = mem.file.rec
                           /\ mem.flash.table[i].size = mem.file.size
                           /\ mem.flash.table[i].start = mem.file.start
    BY DEF ReaderSeesClosedRecord
  <2>1. PICK n \in 0 .. Slots - 1 : MemInv(mem, n)
    BY DEF IInv, CoreInv, MemoryInOrder
  <2>2. mem \in MemType /\ TableShape(mem, n) /\ mem.file.size \in Nat
    BY <2>1 DEF MemInv, MemType, FileType
  <2>3. PICK i \in 1 .. n : /\ mem.file.rec = RecOf(mem, i)
                            /\ mem.file.size = SizeOf(mem, i)
                            /\ mem.file.start = StartOf(mem, i)
    BY <2>1 DEF MemInv, Reading
  <2>4. mem.file.pos <= mem.file.size
    BY <2>1 DEF MemInv, Reading
  <2>5. i \in Slot /\ RecOf(mem, i) \in Record
    BY <2>2, SlotFacts
  <2>6. Closed(mem, i)
    BY <2>2, <2>3, <2>5 DEF Closed, Written, RecOf, SizeOf, Record, EmptyWord
  <2> QED BY <2>3, <2>4, <2>5, <2>6 DEF RecOf, SizeOf, StartOf
<1> QED BY <1>1, MemoryInvariant, PTL

(* A file that is open while BLE owns the memory was opened by the host    *)
(* under the name the memory task remembers, and can be closed by it       *)
(* (task_memory.cpp:329-370).                                              *)
THEOREM HostCanClose ==
  ASSUME ~FirstRecordLoss
  PROVE  Spec => []HostCanCloseTheFile
<1>1. Init => HostCanCloseTheFile
  BY DEF Init, HostCanCloseTheFile
<1>2. ASSUME IInv, HostCanCloseTheFile, [Next]_vars PROVE HostCanCloseTheFile'
  <2> DEFINE Changed == phase' = "ble" /\ owner' = "BLE" /\ mem'.file.open
             Known(s, id) == \E i \in Named(s, id) : s.flash.table[i].rec = s.file.rec
             Goal == ctx'.open /\ ~mem'.file.write /\ Known(mem', ctx'.id)
  <2> SUFFICES ASSUME Changed PROVE Goal
    BY Zenon DEF HostCanCloseTheFile
  <2>1. CASE SelectOwnerBle
    <3>1. PICK ok \in BOOLEAN : mem' = InitFs(DeinitFs(mem, ok))
      BY <2>1 DEF SelectOwnerBle
    <3>2. phase # "off"
      BY <2>1 DEF SelectOwnerBle
    <3>3. mem'.file = NoFile
      BY <1>2, <3>1, <3>2, OwnerChangeKeeps DEF IInv
    <3> QED BY <3>3 DEF NoFile
  <2>2. CASE AudioData
    BY <2>2 DEF AudioData
  <2>3. CASE BleRequest
    <3>1. FromBle /\ phase' = phase /\ owner = "BLE" /\ phase # "off"
      BY <2>3 DEF BleRequest, BleGetFilesList, BleGetFilesListNext, BleGetFileData,
                  BleAllowFormatting, BleOpenFile, BleCloseFile, FromBle
    <3>2. mem.file.open => ctx.open /\ ~mem.file.write /\ Known(mem, ctx.id)
      BY <1>2, <3>1 DEF HostCanCloseTheFile
    <3>3. PICK n \in 0 .. Slots - 1 : MemInv(mem, n) /\ FirstRecordGuarded(mem, n)
      BY <1>2, <3>1 DEF IInv, CoreInv, MemoryInOrder
    <3>4. CASE BleGetFilesList \/ BleGetFilesListNext \/ BleGetFileData \/ BleAllowFormatting
      <4>1. /\ mem'.file.open = mem.file.open /\ mem'.file.write = mem.file.write
            /\ mem'.file.rec = mem.file.rec /\ mem'.flash = mem.flash /\ ctx' = ctx
        <5>0. mem \in MemType
          BY <3>3 DEF MemInv
        <5>1. CASE BleGetFilesList
          BY <3>3, <5>0, <5>1, GetFilesListKeeps, ListsRead DEF BleGetFilesList
        <5>2. CASE BleGetFilesListNext
          BY <3>3, <5>0, <5>2, GetFilesListNextKeeps, ListsRead DEF BleGetFilesListNext
        <5>3. CASE BleGetFileData
          <6>1. mem' = GetFileData(mem, ReadSize) /\ ctx' = ctx
            BY <5>3 DEF BleGetFileData
          <6>2. mem'.file.rec = mem.file.rec /\ mem'.flash = mem.flash
            BY <5>0, <6>1 DEF GetFileData, Read, MemType, FileType
          <6> QED BY <3>3, <6>1, <6>2, GetFileDataKeeps
        <5>4. CASE BleAllowFormatting
          BY <5>4 DEF BleAllowFormatting
        <5> QED BY <3>4, <5>1, <5>2, <5>3, <5>4
      <4>2. Known(mem, ctx.id) => Known(mem', ctx'.id)
        BY <4>1 DEF Named, Written
      <4> QED BY <3>2, <4>1, <4>2
    <3>5. ASSUME NEW id \in Ids, BleOpenFile(id) PROVE Goal
      <4>1. ctx'.open /\ OpenFileResult(mem, id) = "OK" /\ mem' = OpenRead(mem, id)
        <5>1. ctx' = [open |-> TRUE, id |-> id] /\ OpenFileResult(mem, id) = "OK"
              /\ mem' = OpenFile(mem, id)
          BY <3>5 DEF BleOpenFile
        <5> QED BY <5>1, Zenon DEF OpenFile
      <4>2. OpenReadResult(mem, id) = "OK"
        BY <4>1 DEF OpenFileResult
      <4>3. ~mem'.file.write /\ Known(mem', id) /\ ctx'.id = id
        <5> DEFINE d == mem.flash.table[First(Named(mem, id))]
                   f == [open |-> TRUE, write |-> FALSE, rec |-> d.rec,
                         size |-> d.size, pos |-> 0, start |-> d.start]
                   g == [mem.fs EXCEPT !.open = TRUE, !.bufpos = 0]
        <5>1. mem' = [mem EXCEPT !.fs = g, !.file = f]
          BY <4>1, <4>2 DEF OpenRead
        <5>2. mem \in MemType /\ ~f.write /\ f.rec = d.rec
          BY <3>3 DEF MemInv
        <5>4. First(Named(mem, id)) \in Named(mem, id)
          <6>1. Named(mem, id) \in SUBSET Nat
            BY SlotsEven DEF Named, Slot
          <6>2. Named(mem, id) # {}
            BY <4>2 DEF OpenReadResult
          <6> QED BY <6>1, <6>2, Smallest
        <5>5. ctx'.id = id
          BY <3>5 DEF BleOpenFile
        <5> HIDE DEF f, g
        <5>3. mem'.file = f /\ mem'.flash = mem.flash
          BY <5>1, <5>2 DEF MemType
        <5>6. Known(mem', id)
          BY <5>2, <5>3, <5>4 DEF Named, Written
        <5> QED BY <5>2, <5>3, <5>5, <5>6
      <4> QED BY <4>1, <4>3
    <3>6. ASSUME NEW id \in Ids, BleCloseFile(id) PROVE FALSE
      <4>1. mem' = CloseFile(mem, TRUE)
        BY <3>6 DEF BleCloseFile
      <4>2. CASE mem.file.open
        BY <3>2, <3>3, <4>1, <4>2, CloseFileKeeps
      <4>3. CASE ~mem.file.open
        BY <4>1, <4>3 DEF CloseFile, Close
      <4> QED BY <4>2, <4>3
    <3> QED BY <2>3, <3>4, <3>5, <3>6 DEF BleRequest
  <2>4. CASE Boot \/ PowerLoss \/ PowerLossInFormat \/ SelectOwnerAudio \/ CreateRecord
             \/ RecordAborted \/ CloseWrittenFile \/ FormatFs
    BY <2>4 DEF Boot, PowerLoss, PowerOff, PowerLossInFormat, SelectOwnerAudio, CreateRecord,
                RecordAborted, CloseWrittenFile, FormatFs
  <2>5. CASE MemoryCheck
    BY <2>5 DEF MemoryCheck, PowerOff
  <2>6. CASE UNCHANGED vars
    BY <1>2, <2>6 DEF vars, HostCanCloseTheFile
  <2> QED BY <1>2, <2>1, <2>2, <2>3, <2>4, <2>5, <2>6 DEF Next
<1> QED BY <1>1, <1>2, MemoryInvariant, PTL DEF Spec

----------------------------------------------------------------------------
(* The records as a RecordStore                                            *)

(* Records disappear only in the format command or when a mount finds the  *)
(* last record unclosed: no other command, request, power loss or failed   *)
(* program operation erases a descriptor (myfs_access.cpp:25-54).          *)
THEOREM RecordsAreKept ==
  ASSUME ~FirstRecordLoss
  PROVE  Spec => WipedOnlyByFormatOrRepair
<1> DEFINE Wiped == \E i \in Slot : Written(mem, i) /\ mem'.flash.table[i] = ErasedSlot
           Reason == phase = "format" \/ LastUnclosed(mem)
<1>1. IInv /\ [Next]_vars => [Wiped => Reason]_vars
  <2> SUFFICES ASSUME IInv, Next, NEW i \in Slot, Written(mem, i),
                      mem'.flash.table[i] = ErasedSlot
               PROVE  Reason
    OBVIOUS
  <2>1. PICK t : t = mem'
    OBVIOUS
  <2>2. Orderly(t) /\ ~Written(t, i)
    BY <2>1, NextOrderly DEF Written, ErasedSlot
  <2> QED BY <2>2 DEF Orderly, KeepsRecords
<1> QED BY <1>1, MemoryInvariant, PTL DEF Spec, WipedOnlyByFormatOrRepair

(* SavedRecords of a state s.                                              *)
ReadBack(s) ==
  [i \in {j \in Slot : Written(s, j) /\ Closed(s, j)} |->
     [rec     |-> s.flash.table[i].rec,
      size    |-> s.flash.table[i].size,
      content |-> ContentOf(s, i)]]

(* What is read back of the saved records is what their descriptors say,   *)
(* spoilt by a descriptor that missed the table.                           *)
LEMMA ReadBackIs ==
  ASSUME NEW s, NEW n, MemInv(s, n)
  PROVE  ReadBack(s) = SavedIn(s)
<1> DEFINE Spoils(i) == i = 1 /\ Strayed(s)
           whole(i)  == WholePages(RecOf(s, i), SizeOf(s, i))
<1>1. ASSUME NEW i \in ClosedSlots(s)
      PROVE  ContentOf(s, i) = IF Spoils(i) THEN WithDescriptor(whole(i)) ELSE whole(i)
  <2> DEFINE q == SizeOf(s, i) \div PageSize
             page(k) == IF StartOf(s, i) + k < Pages THEN PageOf(s, i, k) ELSE {<<RecOf(s, i), k>>}
  <2>1. i \in Slot /\ Closed(s, i)
    BY <1>1 DEF ClosedSlots
  <2>2. ContentOf(s, i) = [k \in 0 .. q |-> page(k)]
    BY Zenon DEF ContentOf, SizeOf, StartOf, RecOf
  <2>3. whole(i) = [k \in 0 .. q |-> {<<RecOf(s, i), k>>}]
    BY DEF WholePages
  <2>4. q \in Nat /\ (i = 1 => StartOf(s, i) = FirstPage)
    <3>1. i \in 1 .. n
      BY <2>1, SlotsEven DEF MemInv, TableShape, Closed, Written, RecOf, Slot
    <3>2. SizeOf(s, i) \in Nat
      BY <2>1, <3>1, SlotFacts DEF MemInv, Closed, SizeOf
    <3>3. i = 1 => StartOf(s, i) = FirstPage
      BY <3>1, SlotsEven DEF MemInv, TableShape, FlashInv, Extents
    <3> QED BY <3>2, <3>3, DivDef
  <2>5. ASSUME NEW k \in 0 .. q
        PROVE  page(k) = {<<RecOf(s, i), k>>} \cup (IF Spoils(i) /\ k = 0 THEN {StrayDescriptor} ELSE {})
    <3>1. CASE StartOf(s, i) + k < Pages
      <4>1. k \in PagesOf(s, i)
        BY <3>1 DEF PagesOf, SizeOf, StartOf
      <4> QED BY <2>1, <3>1, <4>1, PageOfClosedRecord
    <3>2. CASE ~(StartOf(s, i) + k < Pages)
      <4>1. ~(i = 1 /\ k = 0)
        BY <2>4, <3>2, MyFsAssumption
      <4> QED BY <3>2, <4>1
    <3> QED BY <3>1, <3>2
  <2>6. CASE Spoils(i)
    <3> DEFINE w == whole(i)
               spoilt(k) == {<<RecOf(s, i), k>>} \cup (IF k = 0 THEN {StrayDescriptor} ELSE {})
    <3>1. WithDescriptor(w) = [w EXCEPT ![0] = @ \cup {StrayDescriptor}]
      BY DEF WithDescriptor
    <3>2. w = [k \in 0 .. q |-> {<<RecOf(s, i), k>>}] /\ q \in Nat
      BY <2>3, <2>4
    <3>3. [k \in 0 .. q |-> page(k)] = [k \in 0 .. q |-> spoilt(k)]
      BY <2>5, <2>6, Zenon
    <3> HIDE DEF w, q, page
    <3>4. WithDescriptor(w) = [k \in 0 .. q |-> spoilt(k)]
      BY <3>1, <3>2
    <3>5. WithDescriptor(w) = ContentOf(s, i)
      BY <2>2, <3>3, <3>4, Zenon DEF page, q
    <3> QED BY <2>6, <3>5 DEF w
  <2>7. CASE ~Spoils(i)
    BY <2>2, <2>3, <2>5, <2>7
  <2> QED BY <2>6, <2>7
<1>2. ASSUME NEW i \in ClosedSlots(s)
      PROVE  [rec |-> RecOf(s, i), size |-> SizeOf(s, i), content |-> ContentOf(s, i)] = EntryAt(s, i)
  BY <1>1 DEF EntryAt, SpoiltEntry, Entry
<1>3. ReadBack(s) = [i \in ClosedSlots(s) |->
        [rec |-> RecOf(s, i), size |-> SizeOf(s, i), content |-> ContentOf(s, i)]]
  BY Zenon DEF ReadBack, ClosedSlots, RecOf, SizeOf
<1> QED BY <1>2, <1>3, Zenon DEF SavedIn

(* The memory task implements RecordStore: whatever the order of commands, *)
(* requests, faults and power losses, the host sees a list of complete     *)
(* records that only grows, by the record just written and by exactly the  *)
(* samples written to it, or is wiped as a whole; and its first record is  *)
(* spoilt exactly when one more is begun than the table has slots          *)
(* (myfs.cpp, myfs_access.cpp).                                            *)
THEOREM MemoryIsARecordStore ==
  ASSUME ~FirstRecordLoss
  PROVE  Spec => ImplementsRecordStore
<1>1. Init => Store!Init
  <2> SUFFICES ASSUME Init PROVE SavedRecords = <<>> /\ OpenRecord = {}
    BY DEF Store!Init
  <2>1. mem = PowerOn(ErasedFlash)
    BY DEF Init
  <2>2. PICK n \in 0 .. Slots - 1 : MemInv(mem, n)
    BY InvInit DEF CoreInv, MemoryInOrder
  <2>3. mem.flash.table = [i \in Slot |-> ErasedSlot] /\ ~mem.file.open
    BY <2>1 DEF PowerOn, ErasedFlash, NoFile
  <2>4. SavedRecords = SavedIn(mem)
    BY <2>2, ReadBackIs DEF SavedRecords, ReadBack
  <2> QED BY <2>3, <2>4, ErasedSaves DEF OpenRecord
<1>2. IInv /\ IInv' /\ [Next]_vars => [Store!Next]_<<SavedRecords, OpenRecord>>
  <2> SUFFICES ASSUME IInv, IInv', [Next]_vars
               PROVE  [Store!Next]_<<SavedRecords, OpenRecord>>
    OBVIOUS
  <2>1. PICK s, t : s = mem /\ t = mem'
    OBVIOUS
  <2>2. SavedRecords = SavedIn(s) /\ OpenRecord = OpenIn(s)
    <3>1. PICK n \in 0 .. Slots - 1 : MemInv(s, n)
      BY <2>1 DEF IInv, CoreInv, MemoryInOrder
    <3>2. SavedRecords = ReadBack(s) /\ OpenRecord = OpenIn(s)
      BY <2>1 DEF SavedRecords, ReadBack, OpenRecord, OpenIn
    <3> QED BY <3>1, <3>2, ReadBackIs
  <2>3. SavedRecords' = SavedIn(t) /\ OpenRecord' = OpenIn(t)
    <3>1. PICK n \in 0 .. Slots - 1 : MemInv(t, n)
      BY <2>1 DEF IInv, CoreInv, MemoryInOrder
    <3>2. SavedRecords' = ReadBack(t) /\ OpenRecord' = OpenIn(t)
      BY <2>1 DEF SavedRecords, ReadBack, OpenRecord, OpenIn
    <3> QED BY <3>1, <3>2, ReadBackIs
  <2>4. CASE UNCHANGED vars
    BY <2>1, <2>2, <2>3, <2>4 DEF vars
  <2>5. CASE Next
    <3>1. RecordStep(s, t)
      BY <2>1, <2>5, NextOrderly DEF Orderly
    <3> HIDE DEF SavedRecords, OpenRecord
    <3>2. CASE Rests(s, t)
      BY <2>2, <2>3, <3>2 DEF Rests
    <3>3. CASE Abandons(s, t)
      BY <2>2, <2>3, <3>3 DEF Abandons, Store!Next, Store!Abandon
    <3>4. CASE Wipes(s, t)
      BY <2>2, <2>3, <3>4 DEF Wipes, Store!Next, Store!Abandon, Store!Wipe
    <3>5. CASE SavesRecord(s, t)
      BY <2>2, <2>3, <3>5 DEF SavesRecord, Entry, Store!Next, Store!Save
    <3>6. CASE AddsSample(s, t)
      BY <2>2, <2>3, <3>6 DEF AddsSample, Store!Next, Store!AddSample
    <3>7. ASSUME NEW rec \in Record, Begins(s, t, rec)
          PROVE  [Store!Next]_<<SavedRecords, OpenRecord>>
      BY <2>2, <2>3, <3>7 DEF Begins, Store!Next, Store!Begin
    <3>8. ASSUME NEW rec \in Record, BeginsBeyond(s, t, rec)
          PROVE  [Store!Next]_<<SavedRecords, OpenRecord>>
      BY <2>2, <2>3, <3>8 DEF BeginsBeyond, Store!Next, Store!BeginBeyond
    <3> QED BY <3>1, <3>2, <3>3, <3>4, <3>5, <3>6, <3>7, <3>8 DEF RecordStep
  <2> QED BY <2>4, <2>5
<1> QED BY <1>1, <1>2, MemoryInvariant, PTL DEF Spec, ImplementsRecordStore, Store!Spec,
        Store!storeVars
=============================================================================
