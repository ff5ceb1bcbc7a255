---------------------------- MODULE MemoryCalls ----------------------------
(***************************************************************************)
(* Every call of myfs_access keeps the invariant of MemoryTaskInv: opening *)
(* and listing, creating, writing, closing, and then what happens between  *)
(* two owners: reading, unmounting, mounting and formatting.  Before that  *)
(* the arithmetic of pages, what Last is in a well-shaped table, and which *)
(* changes of the memory's state keep which part of the invariant.         *)
(***************************************************************************)
EXTENDS MemoryTaskInv, WellFoundedInduction, TLAPS

----------------------------------------------------------------------------
(* Numbers                                                                 *)

(* The table has an even number of slots, at least four.                   *)
LEMMA SlotsEven == Slots \in Nat /\ Slots >= 4 /\ Slots % 2 = 0
BY MyFsAssumption

(* Division by the page size.                                              *)
LEMMA DivDef ==
  ASSUME NEW a \in Nat
  PROVE  /\ a \div PageSize \in Nat
         /\ a % PageSize \in 0 .. PageSize - 1
         /\ a = PageSize * (a \div PageSize) + (a % PageSize)
BY MyFsAssumption

(* A quotient and a remainder determine the number.                        *)
LEMMA DivUnique ==
  ASSUME NEW q \in Nat, NEW r \in 0 .. PageSize - 1
  PROVE  /\ (PageSize * q + r) \div PageSize = q
         /\ (PageSize * q + r) % PageSize = r
BY MyFsAssumption, Z3

(* A file of whole pages: adding less than a page adds no whole page, and  *)
(* adding a page adds one.                                                 *)
LEMMA WholePagesGrow ==
  ASSUME NEW a \in Nat, a % PageSize = 0
  PROVE  /\ \A b \in 0 .. PageSize - 1 : (a + b) \div PageSize = a \div PageSize
         /\ (a + PageSize) \div PageSize = a \div PageSize + 1
         /\ (a + PageSize) % PageSize = 0
<1> DEFINE q == a \div PageSize
<1>1. q \in Nat /\ a = PageSize * q /\ PageSize \in Nat \ {0}
  BY DivDef, MyFsAssumption
<1>2. ASSUME NEW b \in 0 .. PageSize - 1 PROVE (a + b) \div PageSize = q
  BY <1>1, DivUnique
<1>3. a + PageSize = PageSize * (q + 1) + 0 /\ q + 1 \in Nat /\ 0 \in 0 .. PageSize - 1
  BY <1>1
<1>4. (a + PageSize) \div PageSize = q + 1 /\ (a + PageSize) % PageSize = 0
  BY <1>3, DivUnique
<1> QED BY <1>2, <1>4

(* An empty file has no page.                                              *)
LEMMA NoWholePage == 0 \div PageSize = 0 /\ 0 % PageSize = 0
BY MyFsAssumption

(* A closed record takes one page more than it fills.                      *)
LEMMA PagesTakenFacts ==
  ASSUME NEW size \in Nat \cup {EmptyWord}
  PROVE  /\ PagesTaken(size) \in Nat
         /\ size # EmptyWord => PagesTaken(size) = size \div PageSize + 1
BY DivDef DEF PagesTaken, EmptyWord

(* myfs_file_open finds the first of the descriptors it looks for.         *)
LEMMA Smallest ==
  ASSUME NEW S \in SUBSET Nat, S # {}
  PROVE  First(S) \in S /\ \A j \in S : First(S) <= j
<1> DEFINE LT == {ss \in Nat \X Nat : ss[1] < ss[2]}
<1>1. IsWellFoundedOn(LT, Nat)
  BY NatLessThanWellFounded, Zenon DEF OpToRel
<1> HIDE DEF LT
<1>2. PICK m \in S : \A y \in S : ~(<<y, m>> \in LT)
  BY <1>1, WFMin, Zenon
<1>3. ASSUME NEW j \in S PROVE m <= j
  <2>1. j \in Nat /\ m \in Nat
    OBVIOUS
  <2>2. j < m => <<j, m>> \in LT
    BY <2>1 DEF LT
  <2> QED BY <1>2, <2>1, <2>2
<1> QED BY <1>2, <1>3 DEF First

----------------------------------------------------------------------------
(* The state                                                               *)

(* A written slot holds a descriptor with a record, a name and an extent.  *)
LEMMA SlotFacts ==
  ASSUME NEW s \in MemType, NEW n, TableShape(s, n), NEW i \in 1 .. n
  PROVE  /\ i \in Slot /\ RecOf(s, i) \in Record
         /\ s.flash.table[i].id \in Ids
         /\ StartOf(s, i) \in FirstPage .. Pages - 1
         /\ SizeOf(s, i) \in Nat \cup {EmptyWord}
         /\ EndOf(s, i) \in Nat /\ EndOf(s, i) >= StartOf(s, i)
         /\ SizeOf(s, i) # EmptyWord =>
              EndOf(s, i) = StartOf(s, i) + SizeOf(s, i) \div PageSize + 1
<1>1. i \in Slot /\ RecOf(s, i) # 0
  BY SlotsEven DEF TableShape, Slot
<1>2. s.flash.table[i] \in Descriptor
  BY <1>1 DEF MemType, FlashType
<1>3. s.flash.table[i] \in
        [rec : Record, id : Ids, start : FirstPage .. Pages - 1, size : Nat \cup {EmptyWord}]
  BY <1>1, <1>2 DEF Descriptor, ErasedSlot, RecOf
<1>4. /\ RecOf(s, i) \in Record /\ s.flash.table[i].id \in Ids
      /\ StartOf(s, i) \in FirstPage .. Pages - 1
      /\ SizeOf(s, i) \in Nat \cup {EmptyWord}
  BY <1>3 DEF RecOf, StartOf, SizeOf
<1>5. /\ PagesTaken(SizeOf(s, i)) \in Nat
      /\ SizeOf(s, i) # EmptyWord =>
           PagesTaken(SizeOf(s, i)) = SizeOf(s, i) \div PageSize + 1
  BY <1>4, PagesTakenFacts
<1>6. SizeOf(s, i) # EmptyWord => SizeOf(s, i) \div PageSize \in Nat
  BY <1>4, DivDef
<1>7. StartOf(s, i) \in Nat
  BY <1>4, MyFsAssumption
<1> QED BY <1>1, <1>4, <1>5, <1>6, <1>7, Z3 DEF EndOf

(* The written slots are counted by their shape.                           *)
LEMMA LastIs ==
  ASSUME NEW s, NEW n, TableShape(s, n)
  PROVE  Last(s) = n
<1>1. n \in 0 .. Slots - 1 /\ \A i \in Slot : Written(s, i) <=> i <= n
  BY DEF TableShape, RecOf, Written
<1>2. ASSUME NEW m \in 0 .. Slots - 1, \A i \in Slot : Written(s, i) <=> i <= m
      PROVE  m = n
  BY <1>1, <1>2, SlotsEven DEF Slot
<1> QED BY <1>1, <1>2 DEF Last

(* The last record is unclosed exactly if its size is the erased word.     *)
LEMMA LastUnclosedIs ==
  ASSUME NEW s, NEW n, TableShape(s, n)
  PROVE  LastUnclosed(s) <=> UnclosedAt(s, n)
<1>1. Last(s) = n
  BY LastIs
<1>2. n > 0 => n \in Slot /\ Written(s, n)
  BY SlotsEven DEF TableShape, Slot, Written, RecOf
<1> QED BY <1>1, <1>2 DEF LastUnclosed, UnclosedAt, Closed, SizeOf

(* The page myfs_mount derives for the next record is the end of the last. *)
LEMMA NextStartIs ==
  ASSUME NEW s \in MemType, NEW n, TableShape(s, n), Extents(s, n)
  PROVE  NextStartOnFlash(s) = EndOfRecords(s, n) /\ EndOfRecords(s, n) \in Nat
         /\ EndOfRecords(s, n) >= FirstPage
<1>1. Last(s) = n /\ n \in 0 .. Slots - 1
  BY LastIs DEF TableShape
<1>2. CASE n = 0
  BY <1>1, <1>2, MyFsAssumption DEF NextStartOnFlash, EndOfRecords
<1>3. CASE n > 0
  <2>1. EndOf(s, n) \in Nat /\ EndOf(s, n) >= FirstPage
    BY <1>3, <1>1, SlotFacts, MyFsAssumption, SlotsEven
  <2>2. n = 1 => StartOf(s, 1) = FirstPage
    BY <1>3 DEF Extents
  <2>3. NextStartOnFlash(s) = EndOf(s, n)
    BY <1>1, <1>3, <2>2 DEF NextStartOnFlash, EndOf, StartOf, SizeOf
  <2> QED BY <1>3, <2>1, <2>3, MyFsAssumption DEF EndOfRecords
<1> QED BY <1>1, <1>2, <1>3, SlotsEven

(* The flash's part of the invariant looks at the table and the pages only. *)
LEMMA SameFlash ==
  ASSUME NEW s, NEW t, NEW n, TableShape(s, n), FlashInv(s, n),
         t.flash.table = s.flash.table, t.flash.pages = s.flash.pages
  PROVE  TableShape(t, n) /\ FlashInv(t, n)
BY Zenon DEF TableShape, FlashInv, Extents, PageWriters, StrayInOrder, ClosedComplete,
             BelongsTo, EndOf, StartOf, SizeOf, RecOf, UnclosedAt

(* All that the RAM's part looks at.                                       *)
SamePointers(s, t) ==
  /\ t.fs.mounted = s.fs.mounted /\ t.fs.full = s.fs.full /\ t.fs.open = s.fs.open
  /\ t.fs.files = s.fs.files /\ t.fs.nextSlot = s.fs.nextSlot
  /\ t.fs.nextStart = s.fs.nextStart

(* Nothing else is looked at by the rest of the invariant.                 *)
LEMMA SameRam ==
  ASSUME NEW s, NEW t, NEW n, MemInv(s, n), t \in MemType,
         t.flash.table = s.flash.table, t.flash.pages = s.flash.pages,
         SamePointers(s, t), t.file = s.file
  PROVE  MemInv(t, n)
<1>1. TableShape(t, n) /\ FlashInv(t, n)
  BY SameFlash DEF MemInv
<1>2. Ram(t, n)
  BY DEF SamePointers, MemInv, Ram, PointersAt, EndOfRecords, EndOf, StartOf, SizeOf, UnclosedAt
<1>3. Writing(t, n)
  BY DEF SamePointers, MemInv, Writing, WritesLast, WritesNowhere, EndOf, StartOf, SizeOf,
         RecOf, UnclosedAt
<1>4. Reading(t, n)
  BY DEF MemInv, Reading, StartOf, SizeOf, RecOf, UnclosedAt
<1> QED BY <1>1, <1>2, <1>3, <1>4 DEF MemInv

(* A restart forgets the RAM and keeps the flash in order.                 *)
LEMMA PowerOnInv ==
  ASSUME NEW s \in MemType, NEW n, TableShape(s, n), FlashInv(s, n)
  PROVE  MemInv(PowerOn(s.flash), n)
<1> DEFINE t == PowerOn(s.flash)
<1>1. t \in MemType /\ t.flash = s.flash /\ t.fs = PowerOnFs /\ t.file = NoFile
  BY MyFsAssumption, SlotsEven DEF MemType, FsType, FileType, PowerOn, PowerOnFs, NoFile
<1>2. TableShape(t, n) /\ FlashInv(t, n)
  BY <1>1, SameFlash
<1>3. Ram(t, n) /\ Writing(t, n) /\ Reading(t, n)
  BY <1>1 DEF Ram, Writing, Reading, PowerOnFs, NoFile, TableShape
<1> QED BY <1>1, <1>2, <1>3 DEF MemInv

(* An erased flash holds no record.                                        *)
LEMMA ErasedInv ==
  ASSUME NEW s \in MemType, s.flash.table = [i \in Slot |-> ErasedSlot],
         \A p \in FirstPage .. Pages - 1 : s.flash.pages[p] = {}
  PROVE  TableShape(s, 0) /\ FlashInv(s, 0)
<1>1. TableShape(s, 0)
  BY SlotsEven DEF TableShape, RecOf, ErasedSlot, Slot
<1>2. FlashInv(s, 0)
  BY SlotsEven DEF FlashInv, Extents, PageWriters, StrayInOrder, ClosedComplete
<1> QED BY <1>1, <1>2

----------------------------------------------------------------------------
(* Reading                                                                 *)

(* A read moves the position up to the end of the file.                    *)
LEMMA ReadKeeps ==
  ASSUME NEW s, NEW n, MemInv(s, n), NEW max \in Nat
  PROVE  MemInv(Read(s, max), n) /\ Read(s, max).fs = s.fs
<1> DEFINE t == Read(s, max)
<1>0. s \in MemType
  BY DEF MemInv
<1>1. CASE s.file.open /\ ~s.file.write
  <2> DEFINE left == s.file.size - s.file.pos
             pos  == s.file.pos + (IF max < left THEN max ELSE left)
  <2>1. pos \in Nat /\ pos <= s.file.size
    BY <1>0, <1>1 DEF MemType, FileType, MemInv, Reading
  <2>2. t = [s EXCEPT !.file.pos = pos]
    BY <1>1 DEF Read
  <2>3. /\ t \in MemType /\ t.flash = s.flash /\ t.fs = s.fs
        /\ t.file = [s.file EXCEPT !.pos = pos]
    BY <2>1, <2>2, <1>0 DEF MemType, FileType
  <2>4. TableShape(t, n) /\ FlashInv(t, n)
    BY <2>3, SameFlash DEF MemInv
  <2>5. Ram(t, n) /\ Writing(t, n) /\ Reading(t, n)
    BY <2>3, <1>1, <2>1, <1>0
    DEF MemInv, MemType, FileType, Ram, Writing, Reading, PointersAt, EndOfRecords,
        EndOf, StartOf, SizeOf, RecOf, UnclosedAt, NoFile
  <2> QED BY <2>3, <2>4, <2>5 DEF MemInv
<1> QED BY <1>1 DEF Read

----------------------------------------------------------------------------
(* The calls                                                               *)

(* What is programmed into a page are writers.                             *)
LEMMA PageFacts ==
  ASSUME NEW s \in MemType, NEW p \in FirstPage .. Pages - 1
  PROVE  p \in DataPage /\ s.flash.pages[p] \subseteq Writer
<1>1. p \in DataPage
  BY MyFsAssumption DEF DataPage
<1> QED BY <1>1 DEF MemType, FlashType

(* open_file opens closed records only.                                    *)
LEMMA OpenFileKeeps ==
  ASSUME NEW s, NEW n, MemInv(s, n), FirstRecordGuarded(s, n), NEW id \in Ids
  PROVE  /\ MemInv(OpenFile(s, id), n) /\ FirstRecordGuarded(OpenFile(s, id), n)
         /\ OpenFile(s, id).fs.nextSlot = s.fs.nextSlot
         /\ OpenFileResult(s, id) = "OK" => OpenFile(s, id).file.open
<1> DEFINE t == OpenFile(s, id)
<1>0. s \in MemType /\ TableShape(s, n)
  BY DEF MemInv
<1>1. CASE OpenFileResult(s, id) = "OK"
  <2> DEFINE i == First(Named(s, id))
             d == s.flash.table[i]
  <2>1. ~s.file.open /\ OpenReadResult(s, id) = "OK" /\ d.size # EmptyWord
    BY <1>1 DEF OpenFileResult
  <2>2. ~s.fs.open /\ Named(s, id) # {}
    BY <2>1 DEF OpenReadResult
  <2>3. i \in Named(s, id)
    <3>1. Named(s, id) \in SUBSET Nat
      BY SlotsEven DEF Named, Slot
    <3> QED BY <2>2, <3>1, Smallest
  <2>4. i \in 1 .. n
    <3>1. ASSUME NEW j \in Named(s, id) PROVE j \in 1 .. n
      BY <1>0, SlotsEven DEF Named, Written, TableShape, RecOf, Slot
    <3> QED BY <2>3, <3>1, Zenon
  <2>5. /\ d.rec = RecOf(s, i) /\ d.size = SizeOf(s, i) /\ d.start = StartOf(s, i)
        /\ d.rec \in Record /\ d.size \in Nat /\ d.start \in FirstPage .. Pages - 1
    BY <2>1, <2>4, <1>0, SlotFacts DEF RecOf, SizeOf, StartOf
  <2> DEFINE f == [open |-> TRUE, write |-> FALSE, rec |-> d.rec,
                   size |-> d.size, pos |-> 0, start |-> d.start]
  <2>6. t = [s EXCEPT !.fs = [@ EXCEPT !.open = TRUE, !.bufpos = 0], !.file = f]
    BY <1>1, <2>1 DEF OpenFile, OpenRead
  <2>7. /\ t.flash = s.flash /\ t.file = f
        /\ t.fs = [s.fs EXCEPT !.open = TRUE, !.bufpos = 0]
        /\ t \in MemType
    <3>1. f \in FileType
      BY <2>5 DEF FileType
    <3>2. s.fs \in FsType /\ 0 \in 0 .. PageSize - 1
      BY <1>0, MyFsAssumption DEF MemType
    <3>3. [s.fs EXCEPT !.open = TRUE, !.bufpos = 0] \in FsType
      BY <3>2 DEF FsType
    <3> HIDE DEF f
    <3> QED BY <2>6, <3>1, <3>3, <1>0 DEF MemType
  <2>8. TableShape(t, n) /\ FlashInv(t, n)
    BY <2>7, SameFlash DEF MemInv
  <2>9. Ram(t, n)
    BY <2>2, <2>7, <1>0 DEF MemInv, MemType, FsType, Ram, PointersAt, EndOfRecords, EndOf, StartOf,
                       SizeOf, UnclosedAt
  <2>10. Writing(t, n)
    BY <2>7 DEF Writing
  <2>11. Reading(t, n)
    BY <2>2, <2>4, <2>5, <2>7 DEF Reading, FirstRecordGuarded, RecOf, SizeOf, StartOf, UnclosedAt
  <2>12. FirstRecordGuarded(t, n) /\ t.fs.nextSlot = s.fs.nextSlot /\ t.file.open
    BY <2>7, <1>0 DEF FirstRecordGuarded, MemType, FsType
  <2> QED BY <2>7, <2>8, <2>9, <2>10, <2>11, <2>12 DEF MemInv
<1>2. CASE OpenFileResult(s, id) # "OK"
  BY <1>2 DEF OpenFile
<1> QED BY <1>1, <1>2

----------------------------------------------------------------------------
(* Lists of files                                                          *)

(* The directory is read up to the slot behind the last record.            *)
LEMMA IdsLeftFacts ==
  ASSUME NEW s \in MemType, NEW n, TableShape(s, n)
  PROVE  IdsLeft(s) \in Nat /\ s.fs.listPos + IdsLeft(s) \in 1 .. Slots
<1>1. Last(s) = n /\ n \in 0 .. Slots - 1
  BY LastIs DEF TableShape
<1> QED BY <1>1, SlotsEven DEF IdsLeft, MemType, FsType

(* Moving the position in the directory disturbs nothing.                  *)
LEMMA DirKeeps ==
  ASSUME NEW s, NEW n, MemInv(s, n), NEW pos \in 1 .. Slots
  PROVE  MemInv([s EXCEPT !.fs.listPos = pos], n)
<1> DEFINE t == [s EXCEPT !.fs.listPos = pos]
<1>0. s \in MemType
  BY DEF MemInv
<1>1. /\ t.flash = s.flash /\ t.file = s.file /\ t.fs = [s.fs EXCEPT !.listPos = pos]
      /\ t.list = s.list
  BY <1>0 DEF MemType
<1>2. t.fs \in FsType
  BY <1>0, <1>1 DEF MemType, FsType
<1>3. t \in MemType
  BY <1>0, <1>1, <1>2 DEF MemType
<1>4. SamePointers(s, t)
  BY <1>0, <1>1 DEF SamePointers, MemType, FsType
<1> HIDE DEF t
<1>5. MemInv(t, n)
  BY <1>1, <1>3, <1>4, SameRam DEF MemType
<1> QED BY <1>5 DEF t

(* The bookkeeping of a list disturbs nothing.                             *)
LEMMA ListKeeps ==
  ASSUME NEW s, NEW n, MemInv(s, n), NEW l \in [needed : BOOLEAN, left : Nat]
  PROVE  MemInv([s EXCEPT !.list = l], n)
<1> DEFINE t == [s EXCEPT !.list = l]
<1>0. s \in MemType
  BY DEF MemInv
<1>1. t.flash = s.flash /\ t.file = s.file /\ t.fs = s.fs /\ t \in MemType
  BY <1>0 DEF MemType
<1> HIDE DEF t
<1>2. MemInv(t, n)
  BY <1>1, SameRam DEF SamePointers
<1> QED BY <1>2 DEF t

(* myfs_rewind_dir disturbs nothing else.                                  *)
LEMMA RewindKeeps ==
  ASSUME NEW s, NEW n, MemInv(s, n)
  PROVE  MemInv(RewindDir(s), n) /\ RewindDir(s).fs.open = s.fs.open
         /\ RewindDir(s).fs.nextSlot = s.fs.nextSlot /\ RewindDir(s).flash = s.flash
         /\ RewindDir(s).file = s.file /\ RewindDir(s).list = s.list
<1>0. s \in MemType /\ 1 \in 1 .. Slots
  BY SlotsEven DEF MemInv
<1>1. MemInv([s EXCEPT !.fs.listPos = 1], n)
  BY <1>0, DirKeeps
<1> QED BY <1>0, <1>1 DEF RewindDir, MemType, FsType

(* Reading names moves the position in the directory only.                 *)
LEMMA NextIdsKeeps ==
  ASSUME NEW s, NEW n, MemInv(s, n), NEW m \in 0 .. IdsLeft(s)
  PROVE  MemInv(NextIds(s, m), n) /\ NextIds(s, m).fs.open = s.fs.open
         /\ NextIds(s, m).fs.nextSlot = s.fs.nextSlot /\ NextIds(s, m).flash = s.flash
         /\ NextIds(s, m).file = s.file /\ NextIds(s, m).list = s.list
<1>0. s \in MemType /\ TableShape(s, n) /\ s.fs.listPos \in 1 .. Slots
  BY DEF MemInv, MemType, FsType
<1>1. IdsLeft(s) \in Nat /\ s.fs.listPos + IdsLeft(s) \in 1 .. Slots
  BY <1>0, IdsLeftFacts
<1>2. s.fs.listPos + m \in 1 .. Slots
  BY <1>0, <1>1, SlotsEven
<1>3. MemInv([s EXCEPT !.fs.listPos = s.fs.listPos + m], n)
  BY <1>2, DirKeeps
<1> QED BY <1>0, <1>3 DEF NextIds, MemType, FsType

(* get_files_list keeps the invariant.                                     *)
LEMMA GetFilesListKeeps ==
  ASSUME NEW s, NEW n, MemInv(s, n), FirstRecordGuarded(s, n)
  PROVE  /\ MemInv(GetFilesList(s), n) /\ FirstRecordGuarded(GetFilesList(s), n)
         /\ GetFilesList(s).fs.nextSlot = s.fs.nextSlot
         /\ GetFilesList(s).file = s.file
<1> DEFINE dir  == RewindDir(s)
           sent == IF IdsLeft(dir) < ListFirst THEN IdsLeft(dir) ELSE ListFirst
           u    == NextIds(dir, sent)
           needed == ~(sent = 0 /\ s.fs.files # 0) /\ sent < s.fs.files
           l    == [needed |-> needed, left |-> IF needed THEN s.fs.files - sent ELSE u.list.left]
<1>1. /\ MemInv(dir, n) /\ dir.fs.open = s.fs.open /\ dir.fs.nextSlot = s.fs.nextSlot
      /\ dir.flash = s.flash /\ dir.file = s.file
  BY RewindKeeps
<1>2. dir \in MemType /\ TableShape(dir, n) /\ s.fs.files \in Nat
  BY <1>1, SlotsEven DEF MemInv, MemType, FsType
<1>3. IdsLeft(dir) \in Nat /\ sent \in 0 .. IdsLeft(dir)
  BY <1>2, IdsLeftFacts, AccessAssumption
<1> HIDE DEF dir
<1>4. /\ MemInv(u, n) /\ u.fs.open = dir.fs.open /\ u.fs.nextSlot = dir.fs.nextSlot
      /\ u.flash = dir.flash /\ u.file = dir.file
  BY <1>1, <1>3, NextIdsKeeps
<1>5. u.list.left \in Nat /\ u \in MemType
  BY <1>4 DEF MemInv, MemType
<1> HIDE DEF u
<1>6. l \in [needed : BOOLEAN, left : Nat]
  BY <1>2, <1>3, <1>5
<1>7. GetFilesList(s) = [u EXCEPT !.list = l]
  BY DEF GetFilesList, dir, u
<1> HIDE DEF l
<1>8. MemInv([u EXCEPT !.list = l], n)
  BY <1>4, <1>6, ListKeeps
<1>9. /\ [u EXCEPT !.list = l].fs = u.fs /\ [u EXCEPT !.list = l].flash = u.flash
      /\ [u EXCEPT !.list = l].file = u.file
  BY <1>5 DEF MemType
<1> QED BY <1>1, <1>4, <1>7, <1>8, <1>9 DEF FirstRecordGuarded, UnclosedAt, SizeOf

(* get_files_list_next keeps the invariant.                                *)
LEMMA GetFilesListNextKeeps ==
  ASSUME NEW s, NEW n, MemInv(s, n), FirstRecordGuarded(s, n)
  PROVE  /\ MemInv(GetFilesListNext(s), n) /\ FirstRecordGuarded(GetFilesListNext(s), n)
         /\ GetFilesListNext(s).fs.nextSlot = s.fs.nextSlot
         /\ GetFilesListNext(s).file = s.file
<1> DEFINE sent == IF IdsLeft(s) < ListNext THEN IdsLeft(s) ELSE ListNext
           u    == NextIds(s, sent)
           left == IF sent < u.list.left THEN u.list.left - sent ELSE u.list.left
           l    == [needed |-> u.list.needed, left |-> left]
<1>1. s \in MemType /\ TableShape(s, n)
  BY DEF MemInv
<1>2. IdsLeft(s) \in Nat /\ sent \in 0 .. IdsLeft(s)
  BY <1>1, IdsLeftFacts, AccessAssumption
<1>3. /\ MemInv(u, n) /\ u.fs.open = s.fs.open /\ u.fs.nextSlot = s.fs.nextSlot
      /\ u.flash = s.flash /\ u.file = s.file
  BY <1>2, NextIdsKeeps
<1>4. u.list \in [needed : BOOLEAN, left : Nat] /\ u \in MemType
  BY <1>3 DEF MemInv, MemType
<1>5. CASE s.list.needed
  <2>1. GetFilesListNext(s) = [u EXCEPT !.list.left = left]
    BY <1>5 DEF GetFilesListNext
  <2> HIDE DEF u
  <2>2. l \in [needed : BOOLEAN, left : Nat]
    BY <1>2, <1>4
  <2>3. [u EXCEPT !.list.left = left] = [u EXCEPT !.list = l]
    BY <1>4 DEF MemType
  <2> HIDE DEF l
  <2>4. MemInv([u EXCEPT !.list = l], n)
    BY <1>3, <2>2, ListKeeps
  <2>5. /\ [u EXCEPT !.list = l].fs = u.fs /\ [u EXCEPT !.list = l].flash = u.flash
        /\ [u EXCEPT !.list = l].file = u.file
    BY <1>4 DEF MemType
  <2> QED BY <1>3, <2>1, <2>3, <2>4, <2>5 DEF FirstRecordGuarded, UnclosedAt, SizeOf
<1>6. CASE ~s.list.needed
  BY <1>6 DEF GetFilesListNext
<1> QED BY <1>5, <1>6

----------------------------------------------------------------------------
(* Creating a record                                                       *)

(* What create does to the RAM.                                            *)
StartsWriting(s, t, rec) ==
  /\ t.fs.mounted = s.fs.mounted /\ t.fs.full = s.fs.full /\ t.fs.open
  /\ t.fs.files = s.fs.files /\ t.fs.nextSlot = s.fs.nextSlot
  /\ t.fs.nextStart = s.fs.nextStart
  /\ t.file.open /\ t.file.write /\ t.file.rec = rec /\ t.file.size = 0

(* The record's descriptor takes the next slot.                            *)
LEMMA CreateInTable ==
  ASSUME NEW s, NEW n, MemInv(s, n), n + 1 \in Slot,
         PointersAt(s, n), s.fs.nextStart < Pages,
         NEW id \in Ids, NEW rec \in Record, NEW t,
         t \in MemType,
         NEW d,
         d = [rec |-> rec, id |-> id, start |-> s.fs.nextStart, size |-> EmptyWord],
         t.flash.pages = s.flash.pages,
         t.flash.table = [s.flash.table EXCEPT ![n + 1] = d],
         StartsWriting(s, t, rec)
  PROVE  MemInv(t, n + 1)
<1>0. /\ s \in MemType /\ TableShape(s, n) /\ FlashInv(s, n) /\ Ram(s, n)
      /\ n \in 0 .. Slots - 1 /\ n \in Nat /\ n + 1 \in 1 .. Slots - 1
  BY SlotsEven DEF MemInv, TableShape, Slot
<1>1. /\ t.flash.pages = s.flash.pages
      /\ t.flash.table[n + 1] = d
      /\ \A i \in Slot : i # n + 1 => t.flash.table[i] = s.flash.table[i]
  BY <1>0 DEF MemType, FlashType
<1>2. ~UnclosedAt(s, n) /\ s.fs.nextSlot = n + 1 /\ s.fs.nextStart = EndOfRecords(s, n)
  BY DEF PointersAt
<1>3. s.fs.nextStart \in FirstPage .. Pages - 1
  BY <1>0, <1>2, MyFsAssumption DEF MemType, FsType, Ram
<1>4. /\ RecOf(t, n + 1) = rec /\ SizeOf(t, n + 1) = EmptyWord
      /\ StartOf(t, n + 1) = s.fs.nextStart /\ EndOf(t, n + 1) = s.fs.nextStart
      /\ UnclosedAt(t, n + 1)
  <2>1. PagesTaken(EmptyWord) = 0
    BY DEF PagesTaken
  <2> QED BY <1>0, <1>1, <1>3, <2>1, MyFsAssumption
          DEF RecOf, SizeOf, StartOf, EndOf, UnclosedAt
<1>5. \A i \in 1 .. n : /\ i \in Slot /\ RecOf(t, i) = RecOf(s, i) /\ SizeOf(t, i) = SizeOf(s, i)
                       /\ StartOf(t, i) = StartOf(s, i) /\ EndOf(t, i) = EndOf(s, i)
  <2>1. ASSUME NEW i \in 1 .. n PROVE i \in Slot /\ t.flash.table[i] = s.flash.table[i]
    <3>1. i \in Slot /\ i # n + 1
      BY <1>0, SlotsEven DEF Slot
    <3> QED BY <3>1, <1>1
  <2> QED BY <2>1 DEF RecOf, SizeOf, StartOf, EndOf
<1>6. \A i \in 1 .. n : SizeOf(s, i) # EmptyWord
  BY <1>0, <1>2 DEF TableShape, UnclosedAt
<1>7. TableShape(t, n + 1)
  <2>1. ASSUME NEW i \in Slot PROVE RecOf(t, i) # 0 <=> i <= n + 1
    <3>1. CASE i = n + 1
      BY <1>4, <3>1, <1>0 DEF Record
    <3>2. CASE i # n + 1
      BY <1>0, <1>1, <3>2 DEF TableShape, RecOf, Slot
    <3> QED BY <3>1, <3>2
  <2>2. \A i \in 1 .. (n + 1) - 1 : SizeOf(t, i) # EmptyWord
    BY <1>0, <1>5, <1>6
  <2> QED BY <1>0, <2>1, <2>2 DEF TableShape
<1>8. \A i \in 1 .. n : EndOf(s, i) <= s.fs.nextStart
  <2>1. ASSUME NEW i \in 1 .. n PROVE EndOf(s, i) <= EndOf(s, n)
    <3>1. n \in 1 .. n
      BY <1>0
    <3>2. /\ EndOf(s, i) \in Nat /\ EndOf(s, n) \in Nat /\ EndOf(s, n) >= StartOf(s, n)
          /\ StartOf(s, n) \in FirstPage .. Pages - 1
      BY <1>0, <3>1, SlotFacts
    <3>3. i < n => EndOf(s, i) <= StartOf(s, n)
      BY <1>0, <3>1 DEF FlashInv, Extents
    <3> QED BY <3>2, <3>3, <1>0, MyFsAssumption
  <2> QED BY <1>0, <1>2, <2>1 DEF EndOfRecords
<1>9. Extents(t, n + 1)
  <2>1. StartOf(t, 1) = FirstPage
    <3>1. CASE n = 0
      BY <3>1, <1>2, <1>4 DEF EndOfRecords
    <3>2. CASE n > 0
      BY <3>2, <1>0, <1>5 DEF FlashInv, Extents
    <3> QED BY <3>1, <3>2, <1>0
  <2>2. ASSUME NEW i \in 1 .. n + 1, NEW j \in 1 .. n + 1, i < j
        PROVE  EndOf(t, i) <= StartOf(t, j)
    <3>1. i \in 1 .. n
      BY <2>2, <1>0
    <3>2. CASE j = n + 1
      BY <3>1, <3>2, <1>4, <1>5, <1>8
    <3>3. CASE j \in 1 .. n
      BY <3>1, <3>3, <2>2, <1>0, <1>5 DEF FlashInv, Extents
    <3> QED BY <3>2, <3>3, <1>0
  <2> QED BY <2>1, <2>2 DEF Extents
<1>10. ASSUME NEW p \in FirstPage .. Pages - 1, NEW w \in s.flash.pages[p], w # StrayDescriptor
       PROVE  \E i \in 1 .. n : BelongsTo(s, i, p, w)
  BY <1>0, <1>10, SlotsEven DEF FlashInv, PageWriters
<1>11. PageWriters(t, n + 1)
  <2>1. ASSUME NEW p \in FirstPage .. Pages - 1, NEW w \in t.flash.pages[p],
               w # StrayDescriptor
        PROVE  \E i \in 1 .. n + 1 : BelongsTo(t, i, p, w)
    <3>1. PICK i \in 1 .. n : BelongsTo(s, i, p, w)
      BY <2>1, <1>1, <1>10
    <3>2. BelongsTo(t, i, p, w)
      BY <3>1, <1>5 DEF BelongsTo
    <3> QED BY <3>2, <1>0
  <2> QED BY <2>1 DEF PageWriters
<1>12. ClosedComplete(t, n + 1)
  <2>1. ASSUME NEW i \in 1 .. n + 1, SizeOf(t, i) # EmptyWord PROVE i \in 1 .. n
    BY <2>1, <1>0, <1>4
  <2> QED BY <2>1, <1>0, <1>1, <1>5 DEF FlashInv, ClosedComplete
<1>13. t.fs.mounted = s.fs.mounted /\ t.fs.full = s.fs.full /\ t.fs.open
       /\ t.fs.files = s.fs.files /\ t.fs.nextSlot = n + 1 /\ t.fs.nextStart = s.fs.nextStart
  BY <1>2 DEF StartsWriting
<1>14. t.file.open /\ t.file.write /\ t.file.rec = rec /\ t.file.size = 0
  BY DEF StartsWriting
<1>15. Ram(t, n + 1)
  <2>1. /\ t.fs.nextSlot <= n + 2
        /\ t.fs.files = IF t.fs.nextSlot = 0 THEN 0 ELSE t.fs.nextSlot - 1
        /\ t.fs.mounted /\ ~t.fs.full => t.fs.nextSlot > 0
        /\ t.fs.nextSlot > 0 => t.fs.nextStart >= FirstPage
    BY <1>0, <1>2, <1>13 DEF Ram
  <2> QED BY <1>0, <1>13, <1>14, <2>1 DEF Ram
<1>16. WritesLast(t, n + 1)
  <2>1. ASSUME NEW p \in FirstPage .. Pages - 1, NEW w \in t.flash.pages[p],
               w # StrayDescriptor
        PROVE  p <= s.fs.nextStart + 0
    <3>1. PICK i \in 1 .. n : BelongsTo(s, i, p, w)
      BY <2>1, <1>1, <1>10
    <3>2. p = StartOf(s, i) + w[2] /\ w[2] <= SizeOf(s, i) \div PageSize
      BY <3>1, <1>6 DEF BelongsTo
    <3>3. /\ EndOf(s, i) = StartOf(s, i) + SizeOf(s, i) \div PageSize + 1
          /\ StartOf(s, i) \in FirstPage .. Pages - 1 /\ SizeOf(s, i) \in Nat
      BY <1>0, <1>6, SlotFacts
    <3>4. SizeOf(s, i) \div PageSize \in Nat
      BY <3>3, DivDef
    <3>5. w \in Writer
      BY <2>1, <1>0, <1>1, PageFacts
    <3>6. w[2] \in Nat
      BY <3>5 DEF Writer, StrayDescriptor
    <3> QED BY <3>2, <3>3, <3>4, <3>6, <1>3, <1>8, MyFsAssumption
  <2> QED BY <1>4, <1>13, <1>14, <2>1, NoWholePage DEF WritesLast
<1>17. Writing(t, n + 1) /\ Reading(t, n + 1)
  BY <1>14, <1>16 DEF Writing, Reading, Record
<1>18. StrayInOrder(t, n + 1)
  BY <1>0, <1>1, SlotsEven DEF FlashInv, StrayInOrder
<1> QED BY <1>7, <1>9, <1>11, <1>12, <1>15, <1>17, <1>18 DEF MemInv, FlashInv

(* No slot is left: the descriptor is programmed into the first data page. *)
LEMMA CreateBehindTable ==
  ASSUME NEW s, NEW n, MemInv(s, n), n = Slots - 1,
         PointersAt(s, n), NEW rec \in Record, NEW t,
         t \in MemType,
         t.flash.table = s.flash.table,
         t.flash.pages = [s.flash.pages EXCEPT ![FirstPage] = @ \cup {StrayDescriptor}],
         StartsWriting(s, t, rec)
  PROVE  MemInv(t, n)
<1>0. /\ s \in MemType /\ TableShape(s, n) /\ FlashInv(s, n) /\ Ram(s, n)
      /\ n \in 0 .. Slots - 1 /\ n > 0
  BY SlotsEven DEF MemInv, TableShape
<1>1. \A i : RecOf(t, i) = RecOf(s, i) /\ SizeOf(t, i) = SizeOf(s, i)
             /\ StartOf(t, i) = StartOf(s, i) /\ EndOf(t, i) = EndOf(s, i)
  BY DEF RecOf, SizeOf, StartOf, EndOf
<1>2. UnclosedAt(t, n) <=> UnclosedAt(s, n)
  BY <1>1 DEF UnclosedAt
<1>3. TableShape(t, n) /\ Extents(t, n)
  BY <1>0, <1>1 DEF TableShape, FlashInv, Extents
<1>4. \A p \in FirstPage .. Pages - 1 :
        /\ s.flash.pages[p] \subseteq t.flash.pages[p]
        /\ t.flash.pages[p] \subseteq s.flash.pages[p] \cup {StrayDescriptor}
  BY <1>0, MyFsAssumption DEF MemType, FlashType, DataPage
<1>5. PageWriters(t, n)
  <2>1. ASSUME NEW p \in FirstPage .. Pages - 1, NEW w \in t.flash.pages[p],
               w # StrayDescriptor
        PROVE  \/ \E i \in 1 .. n : BelongsTo(t, i, p, w)
               \/ n = Slots - 1 /\ ~UnclosedAt(t, n) /\ p >= EndOf(t, n)
    <3>1. w \in s.flash.pages[p]
      BY <2>1, <1>4
    <3>2. \/ \E i \in 1 .. n : BelongsTo(s, i, p, w)
          \/ n = Slots - 1 /\ ~UnclosedAt(s, n) /\ p >= EndOf(s, n)
      BY <3>1, <2>1, <1>0 DEF FlashInv, PageWriters
    <3> QED BY <3>2, <1>1, <1>2 DEF BelongsTo
  <2> QED BY <2>1 DEF PageWriters
<1>6. ClosedComplete(t, n)
  <2>1. ASSUME NEW i \in 1 .. n, SizeOf(t, i) # EmptyWord,
               NEW k \in 0 .. SizeOf(t, i) \div PageSize, StartOf(t, i) + k < Pages
        PROVE  <<RecOf(t, i), k>> \in t.flash.pages[StartOf(t, i) + k]
    <3>1. <<RecOf(s, i), k>> \in s.flash.pages[StartOf(s, i) + k]
      BY <2>1, <1>0, <1>1 DEF FlashInv, ClosedComplete
    <3>2. StartOf(s, i) + k \in FirstPage .. Pages - 1
      <4>1. StartOf(s, i) \in FirstPage .. Pages - 1
        BY <1>0, SlotFacts
      <4> QED BY <4>1, <2>1, <1>1, MyFsAssumption
    <3> QED BY <3>1, <3>2, <1>1, <1>4
  <2> QED BY <2>1 DEF ClosedComplete
<1>7. t.fs.mounted = s.fs.mounted /\ t.fs.full = s.fs.full /\ t.fs.open
      /\ t.fs.files = s.fs.files /\ t.fs.nextSlot = s.fs.nextSlot
      /\ t.fs.nextStart = s.fs.nextStart
  BY DEF StartsWriting
<1>8. t.file.open /\ t.file.write /\ t.file.rec = rec
  BY DEF StartsWriting
<1>9. Ram(t, n)
  BY <1>0, <1>7, <1>8 DEF Ram
<1>10. WritesNowhere(t, n)
  <2>1. EndOf(t, n) = EndOf(s, n) /\ n # 0 /\ n + 1 = Slots
    BY <1>0, <1>1, SlotsEven
  <2> QED BY <2>1, <1>2, <1>7 DEF WritesNowhere, PointersAt, EndOfRecords
<1>11. Writing(t, n) /\ Reading(t, n)
  BY <1>8, <1>10 DEF Writing, Reading, Record
<1>12. StrayInOrder(t, n)
  <2>1. \A p \in FirstPage .. Pages - 1 : p # FirstPage => t.flash.pages[p] = s.flash.pages[p]
    BY <1>0, MyFsAssumption DEF MemType, FlashType, DataPage
  <2>2. ~UnclosedAt(t, n)
    BY <1>2 DEF PointersAt
  <2> QED BY <2>1, <2>2, <1>0 DEF FlashInv, StrayInOrder
<1> QED BY <1>3, <1>5, <1>6, <1>9, <1>11, <1>12 DEF MemInv, FlashInv

(* create_file keeps the invariant, with one slot more at most.            *)
LEMMA CreateFileKeeps ==
  ASSUME NEW s, NEW n, MemInv(s, n), FirstRecordGuarded(s, n), s.fs.nextSlot > 0,
         NEW id \in Ids, NEW rec \in Record, NEW ok
  PROVE  /\ \E m \in 0 .. Slots - 1 : /\ MemInv(CreateFile(s, id, rec, ok), m)
                                     /\ FirstRecordGuarded(CreateFile(s, id, rec, ok), m)
         /\ CreateFile(s, id, rec, ok).fs.nextSlot = s.fs.nextSlot
<1> DEFINE t == CreateFile(s, id, rec, ok)
           d == [rec |-> rec, id |-> id, start |-> s.fs.nextStart, size |-> EmptyWord]
           f == [NoFile EXCEPT !.open = TRUE, !.write = TRUE, !.rec = rec]
           u == WriteDescriptor(s, s.fs.nextSlot, d)
           g == [s.fs EXCEPT !.open = TRUE, !.bufpos = 0]
<1>0. s \in MemType /\ TableShape(s, n) /\ FlashInv(s, n) /\ Ram(s, n) /\ n \in 0 .. Slots - 1
  BY DEF MemInv, TableShape
<1>1. CASE s.fs.full \/ CreateResult(s, ok) # "OK"
  BY <1>0, <1>1 DEF CreateFile, Create
<1>2. CASE ~s.fs.full /\ CreateResult(s, ok) = "OK"
  <2>1. ~s.fs.open /\ s.fs.nextStart < Pages
    BY <1>2, <1>0, MyFsAssumption DEF CreateResult, MemType, FsType
  <2>2. PointersAt(s, n)
    BY <1>0, <1>2, <2>1 DEF Ram
  <2>3. s.fs.nextSlot = n + 1 /\ s.fs.nextStart \in FirstPage .. Pages - 1
    BY <1>0, <2>1, <2>2, MyFsAssumption DEF PointersAt, Ram, MemType, FsType
  <2>4. t = [u EXCEPT !.fs = g, !.file = f]
    <3>1. u.fs = s.fs
      BY <1>0 DEF WriteDescriptor, MemType
    <3>2. t = [u EXCEPT !.fs = [u.fs EXCEPT !.open = TRUE, !.bufpos = 0], !.file = f]
      BY <1>2 DEF CreateFile, Create
    <3> QED BY <3>1, <3>2
  <2>5. f \in FileType
    <3>1. NoFile \in FileType
      BY MyFsAssumption DEF NoFile, FileType
    <3> QED BY <3>1 DEF FileType
  <2>6. g \in FsType
    <3>1. s.fs \in FsType /\ 0 \in 0 .. PageSize - 1
      BY <1>0, MyFsAssumption DEF MemType
    <3> QED BY <3>1 DEF FsType
  <2>7. d \in Descriptor
    BY <2>3 DEF Descriptor
  <2>8. s.flash \in FlashType /\ s.fs.nextSlot = n + 1
    BY <1>0, <2>3 DEF MemType
  <2>11. /\ g.mounted = s.fs.mounted /\ g.full = s.fs.full /\ g.open
         /\ g.files = s.fs.files /\ g.nextSlot = s.fs.nextSlot
         /\ g.nextStart = s.fs.nextStart
         /\ f.open /\ f.write /\ f.rec = rec /\ f.size = 0
    BY <1>0 DEF MemType, FsType, NoFile
  <2>9. CASE n + 1 \in Slot
    <3>1. u = [s EXCEPT !.flash.table[n + 1] = d]
      BY <2>8, <2>9, Zenon DEF WriteDescriptor
    <3> HIDE DEF d, f, g, u
    <3>2. [s.flash EXCEPT !.table[n + 1] = d] \in FlashType
      BY <2>7, <2>8, <2>9 DEF FlashType
    <3>3. /\ t.flash = [s.flash EXCEPT !.table[n + 1] = d] /\ t.fs = g /\ t.file = f
          /\ t \in MemType
      BY <1>0, <2>4, <2>5, <2>6, <3>1, <3>2 DEF MemType
    <3>4. t.flash.pages = s.flash.pages /\ t.flash.table = [s.flash.table EXCEPT ![n + 1] = d]
      BY <2>8, <3>3 DEF FlashType
    <3> HIDE DEF t
    <3>8. StartsWriting(s, t, rec)
      BY <2>11, <3>3 DEF StartsWriting
    <3>9. d = [rec |-> rec, id |-> id, start |-> s.fs.nextStart, size |-> EmptyWord]
      BY DEF d
    <3>7. MemInv(t, n + 1)
      BY <2>1, <2>2, <2>9, <3>3, <3>4, <3>8, <3>9, CreateInTable
    <3>5. t.fs.open /\ t.fs.nextSlot = s.fs.nextSlot
      BY <1>0, <3>3 DEF g, MemType, FsType
    <3>6. n + 1 \in 0 .. Slots - 1
      BY <2>9, SlotsEven DEF Slot
    <3> QED BY <3>5, <3>6, <3>7 DEF FirstRecordGuarded, t
  <2>10. CASE n + 1 \notin Slot
    <3>1. n = Slots - 1
      BY <1>0, <2>10, SlotsEven DEF Slot
    <3>2. u = [s EXCEPT !.flash.pages[FirstPage] = @ \cup {StrayDescriptor}]
      BY <2>8, <2>10, Zenon DEF WriteDescriptor
    <3> HIDE DEF d, f, g, u
    <3> DEFINE fl == [s.flash EXCEPT !.pages[FirstPage] = @ \cup {StrayDescriptor}]
    <3>3. fl \in FlashType
      BY <2>8 DEF FlashType, Writer
    <3>4. t.flash = fl /\ t.fs = g /\ t.file = f /\ t \in MemType
      BY <1>0, <2>4, <2>5, <2>6, <3>2, <3>3 DEF MemType
    <3>5. /\ t.flash.table = s.flash.table
          /\ t.flash.pages = [s.flash.pages EXCEPT ![FirstPage] = @ \cup {StrayDescriptor}]
      BY <3>4, <2>8 DEF FlashType
    <3> HIDE DEF t, fl
    <3>8. StartsWriting(s, t, rec)
      BY <2>11, <3>4 DEF StartsWriting
    <3>6. MemInv(t, n)
      BY <2>2, <3>1, <3>4, <3>5, <3>8, CreateBehindTable
    <3>7. t.fs.open /\ t.fs.nextSlot = s.fs.nextSlot
      BY <1>0, <3>4 DEF g, MemType, FsType
    <3> QED BY <1>0, <3>6, <3>7 DEF FirstRecordGuarded, t
  <2> QED BY <2>9, <2>10
<1> QED BY <1>1, <1>2

----------------------------------------------------------------------------
(* Writing                                                                 *)

(* Programming the next page of the record being written.                  *)
PageOfWriter(s) == s.file.size \div PageSize

ProgramsPage(s, t) ==
  /\ t.flash.table = s.flash.table
  /\ t.flash.pages = [s.flash.pages EXCEPT ![ProgPage(s)] = @ \cup {<<s.file.rec, PageOfWriter(s)>>}]

PagesGrow(s, t) ==
  /\ ProgPage(s) < Pages => <<s.file.rec, PageOfWriter(s)>> \in t.flash.pages[ProgPage(s)]
  /\ \A x \in FirstPage .. Pages - 1 :
       /\ s.flash.pages[x] \subseteq t.flash.pages[x]
       /\ x # ProgPage(s) => t.flash.pages[x] = s.flash.pages[x]
       /\ t.flash.pages[x] \subseteq s.flash.pages[x] \cup {<<s.file.rec, PageOfWriter(s)>>}

(* A page programmed for the open record belongs to it.                    *)
LEMMA ProgramKeeps ==
  ASSUME NEW s, NEW t, NEW n, MemInv(s, n), s.file.open, s.file.write,
         t \in MemType, ProgramsPage(s, t)
  PROVE  TableShape(t, n) /\ FlashInv(t, n) /\ PagesGrow(s, t)
<1> DEFINE q == PageOfWriter(s)
           p == ProgPage(s)
<1>9. /\ q = s.file.size \div PageSize /\ p = s.fs.nextStart + q
      /\ t.flash.table = s.flash.table
      /\ t.flash.pages = [s.flash.pages EXCEPT ![p] = @ \cup {<<s.file.rec, q>>}]
  BY DEF PageOfWriter, ProgPage, ProgramsPage
<1> HIDE DEF q, p
<1>0. /\ s \in MemType /\ TableShape(s, n) /\ FlashInv(s, n) /\ Ram(s, n) /\ Writing(s, n)
      /\ n \in 0 .. Slots - 1
  BY DEF MemInv, TableShape
<1>1. /\ q \in Nat /\ s.fs.nextStart \in Nat /\ p \in Nat
      /\ s.file.rec \in Record /\ s.fs.nextSlot > 0 /\ n > 0 /\ p >= FirstPage
  <2>1. q \in Nat
    BY <1>0, <1>9, DivDef DEF MemType, FileType
  <2>2. s.file.rec \in Record /\ s.fs.nextStart \in Nat
    BY <1>0 DEF Writing, MemType, FsType, FileType
  <2>3. s.fs.nextSlot > 0 /\ n > 0
    BY <1>0, SlotsEven DEF Writing, WritesLast, WritesNowhere, UnclosedAt
  <2> QED BY <1>0, <1>9, <2>1, <2>2, <2>3, MyFsAssumption DEF Ram
<1>2. \A i : RecOf(t, i) = RecOf(s, i) /\ SizeOf(t, i) = SizeOf(s, i)
             /\ StartOf(t, i) = StartOf(s, i) /\ EndOf(t, i) = EndOf(s, i)
  BY <1>9 DEF RecOf, SizeOf, StartOf, EndOf
<1>3. UnclosedAt(t, n) <=> UnclosedAt(s, n)
  BY <1>2 DEF UnclosedAt
<1>4. TableShape(t, n) /\ Extents(t, n)
  BY <1>0, <1>2 DEF TableShape, FlashInv, Extents
<1>10. p = s.fs.nextStart + q
  BY <1>9
<1>11. \A x \in FirstPage .. Pages - 1 :
         t.flash.pages[x] =
           IF x = p THEN s.flash.pages[x] \cup {<<s.file.rec, q>>} ELSE s.flash.pages[x]
  <2>1. \A x \in FirstPage .. Pages - 1 : x \in DataPage
    BY <1>0, PageFacts
  <2>2. s.flash.pages \in [DataPage -> SUBSET Writer]
    BY <1>0 DEF MemType, FlashType
  <2> QED BY <1>9, <2>1, <2>2
<1>5. \A x \in FirstPage .. Pages - 1 :
        /\ s.flash.pages[x] \subseteq t.flash.pages[x]
        /\ x # p => t.flash.pages[x] = s.flash.pages[x]
        /\ t.flash.pages[x] \subseteq s.flash.pages[x] \cup {<<s.file.rec, q>>}
  BY <1>11
<1>6. p < Pages => <<s.file.rec, q>> \in t.flash.pages[p]
  <2>1. p < Pages => p \in FirstPage .. Pages - 1
    BY <1>1, MyFsAssumption
  <2> QED BY <1>11, <2>1
<1>7. PageWriters(t, n)
  <2>1. ASSUME NEW x \in FirstPage .. Pages - 1, NEW w \in t.flash.pages[x],
               w # StrayDescriptor
        PROVE  \/ \E i \in 1 .. n : BelongsTo(t, i, x, w)
               \/ n = Slots - 1 /\ ~UnclosedAt(t, n) /\ x >= EndOf(t, n)
    <3>1. CASE w \in s.flash.pages[x]
      <4>1. \/ \E i \in 1 .. n : BelongsTo(s, i, x, w)
            \/ n = Slots - 1 /\ ~UnclosedAt(s, n) /\ x >= EndOf(s, n)
        BY <3>1, <2>1, <1>0 DEF FlashInv, PageWriters
      <4> QED BY <4>1, <1>2, <1>3 DEF BelongsTo
    <3>2. CASE w \notin s.flash.pages[x]
      <4>1. x = p /\ w = <<s.file.rec, q>>
        BY <3>2, <2>1, <1>5
      <4>2. CASE WritesLast(s, n)
        <5>1. n \in 1 .. n /\ BelongsTo(t, n, x, w)
          <6>1. UnclosedAt(s, n) /\ RecOf(s, n) = s.file.rec /\ StartOf(s, n) = s.fs.nextStart
            BY <4>2 DEF WritesLast
          <6>2. SizeOf(s, n) = EmptyWord
            BY <6>1 DEF UnclosedAt
          <6>3. x = StartOf(t, n) + q
            BY <4>1, <6>1, <1>2, <1>10
          <6>4. w[1] = RecOf(t, n) /\ w[2] = q /\ SizeOf(t, n) = EmptyWord
            BY <4>1, <6>1, <6>2, <1>2
          <6>5. n \in 1 .. n
            BY <1>0, <1>1
          <6> QED BY <6>3, <6>4, <6>5 DEF BelongsTo
        <5> QED BY <5>1
      <4>3. CASE WritesNowhere(s, n)
        <5>1. n = Slots - 1 /\ ~UnclosedAt(t, n) /\ EndOf(t, n) = s.fs.nextStart
          BY <4>3, <1>2, <1>3 DEF WritesNowhere
        <5>2. x >= s.fs.nextStart
          BY <4>1, <1>1, <1>10
        <5> QED BY <5>1, <5>2
      <4> QED BY <4>2, <4>3, <1>0 DEF Writing
    <3> QED BY <3>1, <3>2
  <2> QED BY <2>1 DEF PageWriters
<1>8. ClosedComplete(t, n)
  <2>1. ASSUME NEW i \in 1 .. n, SizeOf(t, i) # EmptyWord,
               NEW k \in 0 .. SizeOf(t, i) \div PageSize, StartOf(t, i) + k < Pages
        PROVE  <<RecOf(t, i), k>> \in t.flash.pages[StartOf(t, i) + k]
    <3>1. <<RecOf(s, i), k>> \in s.flash.pages[StartOf(s, i) + k]
      BY <2>1, <1>0, <1>2 DEF FlashInv, ClosedComplete
    <3>2. StartOf(s, i) + k \in FirstPage .. Pages - 1
      <4>1. StartOf(s, i) \in FirstPage .. Pages - 1
        BY <1>0, SlotFacts
      <4> QED BY <4>1, <2>1, <1>2, MyFsAssumption
    <3> QED BY <3>1, <3>2, <1>2, <1>5
  <2> QED BY <2>1 DEF ClosedComplete
<1>12. StrayInOrder(t, n)
  <2>1. <<s.file.rec, q>> # StrayDescriptor
    BY <1>1 DEF StrayDescriptor, Record
  <2>2. ASSUME NEW x \in FirstPage .. Pages - 1, StrayDescriptor \in t.flash.pages[x]
        PROVE  StrayDescriptor \in s.flash.pages[x]
    BY <1>5, <2>1, <2>2
  <2> QED BY <1>0, <1>3, <2>2 DEF FlashInv, StrayInOrder
<1> QED BY <1>4, <1>5, <1>6, <1>7, <1>8, <1>12 DEF FlashInv, PagesGrow, p, q

(* write_data keeps the invariant.                                         *)
LEMMA WriteDataKeeps ==
  ASSUME NEW s, NEW n, MemInv(s, n), FirstRecordGuarded(s, n), NEW ok
  PROVE  /\ MemInv(WriteData(s, ok), n) /\ FirstRecordGuarded(WriteData(s, ok), n)
         /\ WriteData(s, ok).fs.nextSlot = s.fs.nextSlot
<1> DEFINE t == WriteData(s, ok)
<1>0. /\ s \in MemType /\ TableShape(s, n) /\ FlashInv(s, n) /\ Ram(s, n) /\ Writing(s, n)
      /\ s.fs \in FsType /\ s.file \in FileType /\ s.flash \in FlashType
      /\ s.fs.bufpos \in 0 .. PageSize - 1 /\ Chunk \in 1 .. PageSize
      /\ PageSize \in Nat \ {0} /\ s.fs.nextStart \in Nat /\ s.file.size \in Nat
  BY MyFsAssumption DEF MemInv, MemType, FsType, FileType
<1>1. CASE s.fs.full \/ WriteResult(s, ok) # "OK"
  BY <1>1 DEF WriteData, Write
<1>2. CASE ~s.fs.full /\ WriteResult(s, ok) = "OK" /\ PageSize - s.fs.bufpos > Chunk
  <2> DEFINE u == [s EXCEPT !.fs.bufpos = s.fs.bufpos + Chunk]
  <2>1. t = u
    BY <1>2 DEF WriteData, Write
  <2>2. s.fs.bufpos + Chunk \in 0 .. PageSize - 1
    BY <1>0, <1>2
  <2>3. u.fs = [s.fs EXCEPT !.bufpos = s.fs.bufpos + Chunk]
        /\ u.flash = s.flash /\ u.file = s.file /\ u.list = s.list
    BY <1>0 DEF MemType
  <2>4. u.fs \in FsType /\ SamePointers(s, u)
    BY <1>0, <2>2, <2>3 DEF FsType, SamePointers
  <2>5. u \in MemType
    BY <1>0, <2>3, <2>4 DEF MemType
  <2> HIDE DEF u
  <2>6. MemInv(u, n)
    BY <2>3, <2>4, <2>5, SameRam
  <2> QED BY <2>1, <2>3, <2>4, <2>6 DEF FirstRecordGuarded, UnclosedAt, SizeOf, SamePointers
<1>3. CASE ~s.fs.full /\ WriteResult(s, ok) = "OK" /\ ~(PageSize - s.fs.bufpos > Chunk)
  <2> DEFINE q   == s.file.size \div PageSize
             p   == s.fs.nextStart + q
             buf == s.fs.bufpos + Chunk - PageSize
             sz  == s.file.size + PageSize
             pgs == [s.flash.pages EXCEPT ![p] = @ \cup {<<s.file.rec, q>>}]
             u   == Program(s, p, q)
  <2>1. /\ s.file.open /\ s.file.write /\ p < Pages /\ s.file.size % PageSize = 0
        /\ q \in Nat
    <3>1. q \in Nat
      BY <1>0, DivDef
    <3> QED BY <1>0, <1>3, <3>1, MyFsAssumption DEF WriteResult, ProgPage, Aligned
  <2>2. s.file.rec \in Record
    BY <1>0, <2>1 DEF Writing, FileType
  <2>3. t = [u EXCEPT !.fs.bufpos = u.fs.bufpos + Chunk - PageSize,
                      !.file.size = u.file.size + PageSize]
    BY <1>3 DEF WriteData, Write, ProgPage
  <2>4. u = [s EXCEPT !.flash.pages[p] = @ \cup {<<s.file.rec, q>>}]
    BY DEF Program
  <2>5. /\ u.flash.table = s.flash.table /\ u.flash.pages = pgs
        /\ u.flash.marker = s.flash.marker
        /\ u.fs = s.fs /\ u.file = s.file /\ u.list = s.list
        /\ DOMAIN u = DOMAIN s
    <3> HIDE DEF u, p, q
    <3> QED BY <1>0, <2>4 DEF MemType, FlashType
  <2>6. pgs \in [DataPage -> SUBSET Writer]
    <3>1. <<s.file.rec, q>> \in Writer
      BY <2>1, <2>2 DEF Writer
    <3>2. s.flash.pages \in [DataPage -> SUBSET Writer]
      BY <1>0 DEF FlashType
    <3> HIDE DEF p, q
    <3> QED BY <3>1, <3>2
  <2>7. u \in MemType
    <3>1. u.flash = [s.flash EXCEPT !.pages = pgs]
      BY <1>0, <2>4 DEF MemType, FlashType
    <3> HIDE DEF pgs
    <3>2. u.flash \in FlashType
      BY <1>0, <2>6, <3>1 DEF FlashType
    <3> HIDE DEF u
    <3>3. u = [s EXCEPT !.flash = u.flash]
      BY <1>0, <2>4, <2>5, <3>1 DEF MemType, u
    <3> QED BY <1>0, <3>2, <3>3 DEF MemType
  <2> HIDE DEF u, pgs
  <2>8. buf \in 0 .. PageSize - 1 /\ sz \in Nat
    BY <1>0, <1>3
  <2>9. /\ t.flash = u.flash /\ t.list = s.list
        /\ t.fs = [s.fs EXCEPT !.bufpos = buf] /\ t.file = [s.file EXCEPT !.size = sz]
    BY <1>0, <2>3, <2>5, <2>7 DEF MemType
  <2>10. t.fs \in FsType /\ t.file \in FileType /\ SamePointers(s, t)
    BY <1>0, <2>8, <2>9 DEF FsType, FileType, SamePointers
  <2>11. t = [u EXCEPT !.fs = t.fs, !.file = t.file]
    BY <2>3, <2>7, <2>9, <2>5 DEF MemType
  <2>23. q = s.file.size \div PageSize /\ p = s.fs.nextStart + q
    OBVIOUS
  <2> HIDE DEF t, buf, sz, p, q
  <2>12. t \in MemType
    BY <2>7, <2>10, <2>11 DEF MemType
  <2>13. t.flash.table = s.flash.table
         /\ t.flash.pages = [s.flash.pages EXCEPT ![p] = @ \cup {<<s.file.rec, q>>}]
    BY <2>5, <2>9 DEF pgs
  <2>14. TableShape(t, n) /\ FlashInv(t, n) /\ PagesGrow(s, t)
    <3>1. ProgramsPage(s, t)
      BY <2>13, <2>23 DEF ProgramsPage, ProgPage, PageOfWriter
    <3> QED BY <2>1, <2>12, <3>1, ProgramKeeps
  <2>24. /\ p < Pages => <<s.file.rec, q>> \in t.flash.pages[p]
         /\ \A x \in FirstPage .. Pages - 1 :
              /\ s.flash.pages[x] \subseteq t.flash.pages[x]
              /\ x # p => t.flash.pages[x] = s.flash.pages[x]
    BY <2>14, <2>23 DEF PagesGrow, ProgPage, PageOfWriter
  <2>15. /\ t.file.open /\ t.file.write /\ t.file.rec = s.file.rec /\ t.file.size = sz
         /\ sz \div PageSize = q + 1
    <3>1. sz \div PageSize = q + 1
      BY <1>0, <2>1, <2>23, WholePagesGrow DEF sz
    <3> QED BY <1>0, <2>1, <2>9, <3>1 DEF FileType
  <2>16. \A i : RecOf(t, i) = RecOf(s, i) /\ SizeOf(t, i) = SizeOf(s, i)
               /\ StartOf(t, i) = StartOf(s, i) /\ EndOf(t, i) = EndOf(s, i)
    BY <2>13 DEF RecOf, SizeOf, StartOf, EndOf
  <2>17. UnclosedAt(t, n) <=> UnclosedAt(s, n)
    BY <2>16 DEF UnclosedAt
  <2>18. Ram(t, n)
    BY <1>0, <2>1, <2>10, <2>15 DEF Ram, SamePointers
  <2>19. WritesLast(s, n) => WritesLast(t, n)
    <3> SUFFICES ASSUME WritesLast(s, n) PROVE WritesLast(t, n)
      OBVIOUS
    <3>0. /\ UnclosedAt(t, n) /\ t.fs.nextSlot = n /\ RecOf(t, n) = t.file.rec
          /\ StartOf(t, n) = t.fs.nextStart /\ t.fs.nextStart = s.fs.nextStart
      BY <2>10, <2>15, <2>16, <2>17 DEF WritesLast, SamePointers
    <3>1. ASSUME NEW k \in 0 .. q, s.fs.nextStart + k < Pages
          PROVE  <<s.file.rec, k>> \in t.flash.pages[s.fs.nextStart + k]
      <4>1. CASE k = q
        BY <4>1, <3>1, <2>24, <2>23
      <4>2. CASE k # q
        <5>1. k \in 0 .. q - 1
          BY <4>2, <2>1
        <5>2. <<s.file.rec, k>> \in s.flash.pages[s.fs.nextStart + k]
          BY <5>1, <3>1, <2>23 DEF WritesLast
        <5>3. s.fs.nextStart + k \in FirstPage .. Pages - 1
          <6>1. s.fs.nextStart >= FirstPage
            <7>1. s.fs.nextSlot > 0
              BY <1>0 DEF WritesLast, UnclosedAt
            <7> QED BY <7>1, <1>0 DEF Ram
          <6> QED BY <6>1, <3>1, <1>0, <2>1, MyFsAssumption
        <5> QED BY <5>2, <5>3, <2>24
      <4> QED BY <4>1, <4>2
    <3>2. ASSUME NEW x \in FirstPage .. Pages - 1, NEW w \in t.flash.pages[x],
                 w # StrayDescriptor
          PROVE  x <= s.fs.nextStart + q + 1
      <4>1. CASE x = p
        BY <4>1, <1>0, <2>1, <2>23
      <4>2. CASE x # p
        <5>1. w \in s.flash.pages[x]
          BY <4>2, <2>24, <3>2
        <5>2. x <= s.fs.nextStart + q
          BY <5>1, <3>2, <2>23 DEF WritesLast
        <5> QED BY <5>2, <1>0, <2>1, MyFsAssumption
      <4> QED BY <4>1, <4>2
    <3>3. \A k \in 0 .. t.file.size \div PageSize - 1 :
            t.fs.nextStart + k < Pages => <<t.file.rec, k>> \in t.flash.pages[t.fs.nextStart + k]
      <4>1. ASSUME NEW k \in 0 .. t.file.size \div PageSize - 1 PROVE k \in 0 .. q
        BY <2>1, <2>15
      <4> QED BY <4>1, <3>0, <3>1, <2>15
    <3>4. \A x \in FirstPage .. Pages - 1 : \A w \in t.flash.pages[x] :
            w # StrayDescriptor => x <= t.fs.nextStart + t.file.size \div PageSize
      <4>1. t.fs.nextStart + t.file.size \div PageSize = s.fs.nextStart + q + 1
        BY <1>0, <2>1, <2>15, <3>0
      <4> QED BY <3>2, <4>1
    <3> QED BY <3>0, <3>3, <3>4 DEF WritesLast
  <2>20. WritesNowhere(s, n) => WritesNowhere(t, n)
    BY <2>10, <2>16, <2>17 DEF WritesNowhere, SamePointers
  <2>21. Writing(t, n) /\ Reading(t, n)
    BY <1>0, <2>1, <2>15, <2>19, <2>20 DEF Writing, Reading
  <2>22. MemInv(t, n) /\ FirstRecordGuarded(t, n) /\ t.fs.nextSlot = s.fs.nextSlot
    BY <2>10, <2>12, <2>14, <2>17, <2>18, <2>21 DEF MemInv, FirstRecordGuarded, SamePointers
  <2> QED BY <2>22 DEF t
<1> QED BY <1>1, <1>2, <1>3

(* The flag of a full file system only ever switches the writer off.       *)
LEMMA FullKeeps ==
  ASSUME NEW s, NEW n, MemInv(s, n)
  PROVE  MemInv([s EXCEPT !.fs.full = TRUE], n)
<1> DEFINE t == [s EXCEPT !.fs.full = TRUE]
<1>0. s \in MemType /\ s.fs \in FsType
  BY DEF MemInv, MemType
<1>1. /\ t.flash = s.flash /\ t.file = s.file /\ t.list = s.list
      /\ t.fs = [s.fs EXCEPT !.full = TRUE]
  BY <1>0 DEF MemType
<1>2. /\ t.fs \in FsType /\ t.fs.full /\ t.fs.open = s.fs.open /\ t.fs.files = s.fs.files
      /\ t.fs.mounted = s.fs.mounted /\ t.fs.nextSlot = s.fs.nextSlot
      /\ t.fs.nextStart = s.fs.nextStart
  <2> HIDE DEF t
  <2>1. t.fs \in FsType
    BY <1>0, <1>1 DEF FsType
  <2> QED BY <1>0, <1>1, <2>1 DEF FsType
<1>3. t \in MemType
  BY <1>0, <1>1, <1>2 DEF MemType
<1> HIDE DEF t
<1>4. TableShape(t, n) /\ FlashInv(t, n)
  BY <1>1, SameFlash DEF MemInv
<1>5. Ram(t, n)
  BY <1>1, <1>2 DEF MemInv, Ram
<1>6. Writing(t, n)
  BY <1>1, <1>2
  DEF MemInv, Writing, WritesLast, WritesNowhere, EndOf, StartOf, SizeOf, RecOf, UnclosedAt
<1>7. Reading(t, n)
  BY <1>1 DEF MemInv, Reading, StartOf, SizeOf, RecOf, UnclosedAt
<1> QED BY <1>3, <1>4, <1>5, <1>6, <1>7 DEF MemInv, t

----------------------------------------------------------------------------
(* Closing                                                                 *)

(* What the flush of myfs_file_close does.                                 *)
LEMMA FlushType ==
  ASSUME NEW s, NEW n, MemInv(s, n), s.file.open, s.file.write
  PROVE  /\ FlushLastPage(s) \in MemType
         /\ ProgramsPage(s, FlushLastPage(s))
         /\ FlushLastPage(s).fs = s.fs
         /\ FlushLastPage(s).file = [s.file EXCEPT !.size = s.file.size + s.fs.bufpos]
<1> DEFINE q   == PageOfWriter(s)
           p   == ProgPage(s)
           pgs == [s.flash.pages EXCEPT ![p] = @ \cup {<<s.file.rec, q>>}]
           fl  == [s.flash EXCEPT !.pages = pgs]
           u   == Program(s, p, q)
           t   == FlushLastPage(s)
           f   == [s.file EXCEPT !.size = s.file.size + s.fs.bufpos]
<1>0. /\ s \in MemType /\ s.fs \in FsType /\ s.file \in FileType /\ s.flash \in FlashType
      /\ s.fs.bufpos \in Nat /\ s.file.size \in Nat /\ Writing(s, n)
  BY MyFsAssumption DEF MemInv, MemType, FsType, FileType
<1>1. q \in Nat /\ s.file.rec \in Record
  <2>1. s.file.size \div PageSize \in Nat
    BY <1>0, DivDef
  <2> QED BY <1>0, <2>1 DEF Writing, FileType, PageOfWriter
<1>2. <<s.file.rec, q>> \in Writer
  BY <1>1 DEF Writer
<1> HIDE DEF p, q
<1>3. pgs \in [DataPage -> SUBSET Writer]
  <2>1. s.flash.pages \in [DataPage -> SUBSET Writer]
    BY <1>0 DEF FlashType
  <2> QED BY <1>2, <2>1
<1>4. u = [s EXCEPT !.flash = fl]
  BY <1>0 DEF Program, MemType, FlashType
<1> HIDE DEF pgs
<1>5. fl \in FlashType /\ fl.table = s.flash.table /\ fl.pages = pgs
  BY <1>0, <1>3 DEF FlashType
<1> HIDE DEF fl
<1>6. f \in FileType
  <2>1. s.file.size + s.fs.bufpos \in Nat
    BY <1>0
  <2> QED BY <1>0, <2>1 DEF FileType
<1>7. t = [s EXCEPT !.flash = fl, !.file = f]
  <2>1. t = [u EXCEPT !.file.size = u.file.size + s.fs.bufpos]
    BY DEF FlushLastPage, p, q, PageOfWriter
  <2>2. u.file = s.file
    BY <1>0, <1>4 DEF MemType
  <2> HIDE DEF u
  <2> QED BY <1>0, <1>4, <2>1, <2>2 DEF MemType
<1> HIDE DEF f, t
<1>8. t \in MemType /\ t.flash = fl /\ t.file = f /\ t.fs = s.fs
  BY <1>0, <1>5, <1>6, <1>7 DEF MemType
<1>9. ProgramsPage(s, t)
  BY <1>5, <1>8 DEF ProgramsPage, pgs, p, q
<1> QED BY <1>8, <1>9 DEF t, f

(* The record with its last page on the flash, its size not yet.           *)
LEMMA FlushKeeps ==
  ASSUME NEW s, NEW n, MemInv(s, n), s.file.open, s.file.write, Aligned(s)
  PROVE  /\ MemInv(FlushLastPage(s), n)
         /\ WritesLast(s, n) => WritesLast(FlushLastPage(s), n)
         /\ FlushLastPage(s).file.size \div PageSize = PageOfWriter(s)
         /\ ProgPage(s) < Pages =>
              <<s.file.rec, PageOfWriter(s)>> \in FlushLastPage(s).flash.pages[ProgPage(s)]
<1> DEFINE t  == FlushLastPage(s)
           sz == s.file.size + s.fs.bufpos
           q  == PageOfWriter(s)
<1>0. /\ s \in MemType /\ TableShape(s, n) /\ FlashInv(s, n) /\ Ram(s, n) /\ Writing(s, n)
      /\ s.fs.bufpos \in 0 .. PageSize - 1 /\ s.file.size \in Nat
      /\ s.fs.nextStart \in Nat /\ s.file \in FileType
  BY MyFsAssumption DEF MemInv, MemType, FsType, FileType
<1>1. /\ t \in MemType /\ ProgramsPage(s, t) /\ t.fs = s.fs
      /\ t.file = [s.file EXCEPT !.size = sz]
  BY FlushType
<1> HIDE DEF t
<1>2. TableShape(t, n) /\ FlashInv(t, n) /\ PagesGrow(s, t)
  BY <1>1, ProgramKeeps
<1>3. sz \div PageSize = q /\ q \in Nat /\ ProgPage(s) = s.fs.nextStart + q
  <2>1. s.file.size \div PageSize \in Nat
    BY <1>0, DivDef
  <2> QED BY <1>0, <2>1, WholePagesGrow DEF Aligned, PageOfWriter, ProgPage
<1>4. t.file.open /\ t.file.write /\ t.file.rec = s.file.rec /\ t.file.size = sz
  BY <1>0, <1>1 DEF FileType
<1> HIDE DEF sz, q
<1>5. \A i : RecOf(t, i) = RecOf(s, i) /\ SizeOf(t, i) = SizeOf(s, i)
             /\ StartOf(t, i) = StartOf(s, i) /\ EndOf(t, i) = EndOf(s, i)
  BY <1>1 DEF RecOf, SizeOf, StartOf, EndOf, ProgramsPage
<1>6. UnclosedAt(t, n) <=> UnclosedAt(s, n)
  BY <1>5 DEF UnclosedAt
<1>7. Ram(t, n)
  BY <1>0, <1>1, <1>4 DEF Ram
<1>8. ASSUME WritesLast(s, n) PROVE WritesLast(t, n)
  <2>1. s.fs.nextStart >= FirstPage
    <3>1. s.fs.nextSlot > 0
      BY <1>8 DEF WritesLast, UnclosedAt
    <3> QED BY <3>1, <1>0 DEF Ram
  <2>2. ASSUME NEW k \in 0 .. q - 1, s.fs.nextStart + k < Pages
        PROVE  <<s.file.rec, k>> \in t.flash.pages[s.fs.nextStart + k]
    <3>1. <<s.file.rec, k>> \in s.flash.pages[s.fs.nextStart + k]
      BY <2>2, <1>8 DEF WritesLast, q, PageOfWriter
    <3>2. s.fs.nextStart + k \in FirstPage .. Pages - 1
      BY <1>0, <1>3, <2>1, <2>2, MyFsAssumption
    <3> QED BY <3>1, <3>2, <1>2 DEF PagesGrow
  <2>3. ASSUME NEW x \in FirstPage .. Pages - 1, NEW w \in t.flash.pages[x],
               w # StrayDescriptor
        PROVE  x <= s.fs.nextStart + q
    <3>1. CASE x = ProgPage(s)
      BY <3>1, <1>3, <1>0
    <3>2. CASE x # ProgPage(s)
      <4>1. w \in s.flash.pages[x]
        BY <3>2, <1>2, <2>3 DEF PagesGrow
      <4> QED BY <4>1, <2>3, <1>8 DEF WritesLast, q, PageOfWriter
    <3> QED BY <3>1, <3>2
  <2>4. t.file.size \div PageSize = q /\ t.fs.nextStart = s.fs.nextStart
    BY <1>1, <1>3, <1>4
  <2>5. /\ UnclosedAt(t, n) /\ t.fs.nextSlot = n /\ RecOf(t, n) = t.file.rec
        /\ StartOf(t, n) = t.fs.nextStart
    BY <1>1, <1>4, <1>5, <1>6, <1>8 DEF WritesLast
  <2> QED BY <1>4, <2>2, <2>3, <2>4, <2>5 DEF WritesLast
<1>9. WritesNowhere(s, n) => WritesNowhere(t, n)
  BY <1>1, <1>5, <1>6 DEF WritesNowhere
<1>10. Writing(t, n) /\ Reading(t, n)
  BY <1>0, <1>4, <1>8, <1>9 DEF Writing, Reading
<1>11. ProgPage(s) < Pages => <<s.file.rec, q>> \in t.flash.pages[ProgPage(s)]
  BY <1>2 DEF PagesGrow, q
<1> QED BY <1>1, <1>2, <1>3, <1>4, <1>7, <1>8, <1>10, <1>11 DEF MemInv, t, q

(* The size is programmed: the record is closed and the RAM moves on.      *)
MovesOn(s, t) ==
  /\ t.fs.mounted = s.fs.mounted /\ t.fs.full = s.fs.full /\ ~t.fs.open
  /\ t.fs.files = s.fs.files + 1 /\ t.fs.nextSlot = s.fs.nextSlot + 1
  /\ t.fs.nextStart = s.fs.nextStart + PagesTaken(s.file.size)
  /\ t.file = NoFile

(* The size completes the descriptor of the last record.                   *)
LEMMA CompleteKeeps ==
  ASSUME NEW s, NEW n, MemInv(s, n), WritesLast(s, n), s.file.open, s.file.write,
         NEW q, q = s.file.size \div PageSize,
         s.fs.nextStart + q < Pages => <<s.file.rec, q>> \in s.flash.pages[s.fs.nextStart + q],
         NEW t, t \in MemType, t.flash.pages = s.flash.pages,
         NEW d, d = [s.flash.table[n] EXCEPT !.size = s.file.size],
         t.flash.table = [s.flash.table EXCEPT ![n] = d],
         MovesOn(s, t)
  PROVE  MemInv(t, n)
<1>0. /\ s \in MemType /\ TableShape(s, n) /\ FlashInv(s, n) /\ Ram(s, n)
      /\ n \in 0 .. Slots - 1 /\ n > 0 /\ n \in 1 .. n /\ n \in Slot
      /\ s.file.size \in Nat /\ s.fs.nextStart \in Nat
  BY SlotsEven DEF MemInv, TableShape, Slot, WritesLast, UnclosedAt, MemType, FileType, FsType
<1>1. /\ UnclosedAt(s, n) /\ s.fs.nextSlot = n /\ StartOf(s, n) = s.fs.nextStart
      /\ RecOf(s, n) = s.file.rec
  BY DEF WritesLast
<1>2. q \in Nat /\ PagesTaken(s.file.size) = q + 1 /\ s.file.size # EmptyWord
  <2>1. s.file.size # EmptyWord
    BY <1>0 DEF EmptyWord
  <2>2. q \in Nat
    BY <1>0, DivDef
  <2> QED BY <1>0, <2>1, <2>2, PagesTakenFacts
<1>3. t.flash.table[n] = d /\ \A i \in Slot : i # n => t.flash.table[i] = s.flash.table[i]
  BY <1>0 DEF MemType, FlashType
<1>4. /\ RecOf(t, n) = RecOf(s, n) /\ StartOf(t, n) = StartOf(s, n)
      /\ SizeOf(t, n) = s.file.size /\ EndOf(t, n) = StartOf(s, n) + q + 1
  <2>1. /\ d.rec = s.flash.table[n].rec /\ d.start = s.flash.table[n].start
        /\ d.size = s.file.size
    <3>1. s.flash.table[n] \in Descriptor
      BY <1>0 DEF MemType, FlashType
    <3>2. s.flash.table[n] \in
            [rec : Record, id : Ids, start : FirstPage .. Pages - 1, size : Nat \cup {EmptyWord}]
      BY <1>0, <3>1 DEF TableShape, RecOf, Descriptor, ErasedSlot
    <3> QED BY <3>2
  <2>2. /\ RecOf(t, n) = RecOf(s, n) /\ StartOf(t, n) = StartOf(s, n)
        /\ SizeOf(t, n) = s.file.size
    BY <1>3, <2>1 DEF RecOf, SizeOf, StartOf
  <2>3. EndOf(t, n) = s.fs.nextStart + (q + 1)
    BY <1>1, <1>2, <2>2 DEF EndOf
  <2> QED BY <1>0, <1>1, <1>2, <2>2, <2>3
<1>5. \A i \in 1 .. n : i # n =>
        /\ RecOf(t, i) = RecOf(s, i) /\ SizeOf(t, i) = SizeOf(s, i)
        /\ StartOf(t, i) = StartOf(s, i) /\ EndOf(t, i) = EndOf(s, i)
  <2>1. ASSUME NEW i \in 1 .. n, i # n PROVE t.flash.table[i] = s.flash.table[i]
    BY <2>1, <1>0, <1>3, SlotsEven DEF Slot
  <2> QED BY <2>1 DEF RecOf, SizeOf, StartOf, EndOf
<1>6. \A i \in Slot : RecOf(t, i) = RecOf(s, i)
  BY <1>3, <1>4 DEF RecOf
<1>7. TableShape(t, n)
  <2>1. ASSUME NEW i \in 1 .. n - 1 PROVE i \in 1 .. n /\ i # n
    BY <1>0
  <2> QED BY <1>0, <1>5, <1>6, <2>1 DEF TableShape
<1>8. Extents(t, n)
  <2>1. StartOf(t, 1) = FirstPage
    <3>1. 1 \in 1 .. n
      BY <1>0
    <3> QED BY <3>1, <1>0, <1>4, <1>5 DEF FlashInv, Extents
  <2>2. ASSUME NEW i \in 1 .. n, NEW j \in 1 .. n, i < j
        PROVE  EndOf(t, i) <= StartOf(t, j)
    <3>1. EndOf(s, i) <= StartOf(s, j) /\ i # n
      BY <2>2, <1>0 DEF FlashInv, Extents
    <3>2. StartOf(t, j) = StartOf(s, j)
      BY <1>4, <1>5
    <3> QED BY <3>1, <3>2, <1>5
  <2> QED BY <2>1, <2>2 DEF Extents
<1>9. PageWriters(t, n)
  <2>1. ASSUME NEW p \in FirstPage .. Pages - 1, NEW w \in t.flash.pages[p],
               w # StrayDescriptor
        PROVE  \E i \in 1 .. n : BelongsTo(t, i, p, w)
    <3>1. w \in s.flash.pages[p] /\ p <= s.fs.nextStart + q
      BY <2>1 DEF WritesLast
    <3>2. PICK i \in 1 .. n : BelongsTo(s, i, p, w)
      BY <3>1, <2>1, <1>0, <1>1 DEF FlashInv, PageWriters
    <3>3. CASE i # n
      BY <3>2, <3>3, <1>5 DEF BelongsTo
    <3>4. CASE i = n
      <4>1. w[2] \in Nat
        <5>1. w \in Writer
          BY <3>1, <1>0, PageFacts
        <5> QED BY <5>1, <2>1 DEF Writer, StrayDescriptor
      <4>2. w[1] = RecOf(s, n) /\ p = s.fs.nextStart + w[2]
        BY <3>2, <3>4, <1>1 DEF BelongsTo
      <4>3. w[2] <= q
        BY <3>1, <4>1, <4>2, <1>0, <1>2
      <4> QED BY <4>2, <4>3, <1>0, <1>1, <1>4, <3>4 DEF BelongsTo
    <3> QED BY <3>3, <3>4
  <2> QED BY <2>1 DEF PageWriters
<1>10. ClosedComplete(t, n)
  <2>1. ASSUME NEW i \in 1 .. n, SizeOf(t, i) # EmptyWord,
               NEW k \in 0 .. SizeOf(t, i) \div PageSize, StartOf(t, i) + k < Pages
        PROVE  <<RecOf(t, i), k>> \in t.flash.pages[StartOf(t, i) + k]
    <3>1. CASE i # n
      BY <2>1, <3>1, <1>0, <1>5 DEF FlashInv, ClosedComplete
    <3>2. CASE i = n
      <4>1. k \in 0 .. q /\ s.fs.nextStart + k < Pages
        BY <2>1, <3>2, <1>1, <1>4
      <4>2. <<s.file.rec, k>> \in s.flash.pages[s.fs.nextStart + k]
        <5>1. CASE k = q
          BY <4>1, <5>1
        <5>2. CASE k # q
          <6>1. k \in 0 .. q - 1
            BY <4>1, <5>2, <1>2
          <6> QED BY <6>1, <4>1 DEF WritesLast
        <5> QED BY <5>1, <5>2
      <4> QED BY <4>2, <3>2, <1>1, <1>4
    <3> QED BY <3>1, <3>2
  <2> QED BY <2>1 DEF ClosedComplete
<1>11. ~UnclosedAt(t, n)
  BY <1>2, <1>4 DEF UnclosedAt
<1>12. Ram(t, n)
  <2>1. /\ t.fs.nextSlot = n + 1 /\ t.fs.nextStart = EndOf(t, n) /\ t.fs.files = n
        /\ t.fs.nextStart >= FirstPage
    <3>1. s.fs.files = n - 1 /\ s.fs.nextStart >= FirstPage
      BY <1>0, <1>1 DEF Ram
    <3> QED BY <3>1, <1>0, <1>1, <1>2, <1>4, MyFsAssumption DEF MovesOn
  <2>2. PointersAt(t, n)
    BY <2>1, <1>0, <1>11 DEF PointersAt, EndOfRecords
  <2>3. ~t.fs.open /\ t.file = NoFile /\ ~t.file.open
    BY DEF MovesOn, NoFile
  <2> QED BY <2>1, <2>2, <2>3, <1>0 DEF Ram
<1>13. Writing(t, n) /\ Reading(t, n)
  BY DEF Writing, Reading, MovesOn, NoFile
<1>14. StrayInOrder(t, n)
  <2>1. \A p \in FirstPage .. Pages - 1 : StrayDescriptor \notin s.flash.pages[p]
    BY <1>0, <1>1 DEF FlashInv, StrayInOrder
  <2> QED BY <2>1 DEF StrayInOrder
<1> QED BY <1>7, <1>8, <1>9, <1>10, <1>12, <1>13, <1>14 DEF MemInv, FlashInv

(* close_file: whatever happens, the invariant stays; a file that could    *)
(* not be closed is one that was being written.                            *)
LEMMA CloseFileKeeps ==
  ASSUME NEW s, NEW n, MemInv(s, n), FirstRecordGuarded(s, n), NEW ok
  PROVE  /\ MemInv(CloseFile(s, ok), n) /\ FirstRecordGuarded(CloseFile(s, ok), n)
         /\ s.fs.nextSlot > 0 => CloseFile(s, ok).fs.nextSlot > 0
         /\ ~s.file.write => ~CloseFile(s, ok).file.open
<1> DEFINE t == CloseFile(s, ok)
           u == FlushLastPage(s)
<1>0. /\ s \in MemType /\ TableShape(s, n) /\ FlashInv(s, n) /\ Ram(s, n) /\ Writing(s, n)
      /\ Reading(s, n) /\ s.fs \in FsType /\ s.file \in FileType /\ n \in 0 .. Slots - 1
  BY DEF MemInv, MemType, TableShape
<1>1. CASE ~s.file.open
  BY <1>1 DEF CloseFile, Close
<1>2. CASE s.file.open /\ ~s.file.write
  <2>1. t = [s EXCEPT !.file = NoFile, !.fs.open = FALSE]
    BY <1>2 DEF CloseFile, Close
  <2>2. /\ t.flash = s.flash /\ t.file = NoFile /\ t.list = s.list
        /\ t.fs = [s.fs EXCEPT !.open = FALSE]
    BY <1>0, <2>1 DEF MemType
  <2> HIDE DEF t
  <2>3. t.fs \in FsType
    BY <1>0, <2>2 DEF FsType
  <2>4. /\ t.fs.mounted = s.fs.mounted /\ t.fs.full = s.fs.full /\ ~t.fs.open
        /\ t.fs.files = s.fs.files /\ t.fs.nextSlot = s.fs.nextSlot
        /\ t.fs.nextStart = s.fs.nextStart
    BY <1>0, <2>2 DEF FsType
  <2>5. t \in MemType
    <3>1. NoFile \in FileType
      BY MyFsAssumption DEF NoFile, FileType
    <3>2. t = [s EXCEPT !.file = NoFile, !.fs = t.fs]
      BY <1>0, <2>1, <2>2 DEF MemType
    <3> QED BY <3>1, <3>2, <2>3, <1>0 DEF MemType
  <2>6. TableShape(t, n) /\ FlashInv(t, n)
    BY <2>2, <1>0, SameFlash
  <2>7. UnclosedAt(t, n) <=> UnclosedAt(s, n)
    BY <2>2 DEF UnclosedAt, SizeOf
  <2>8. Ram(t, n)
    <3>1. t.fs.nextSlot > 0 /\ ~t.fs.full => PointersAt(t, n)
      BY <1>0, <1>2, <2>2, <2>4, <2>7
      DEF Ram, PointersAt, EndOfRecords, EndOf, StartOf, SizeOf
    <3> QED BY <3>1, <1>0, <2>2, <2>4 DEF Ram, NoFile
  <2>9. Writing(t, n) /\ Reading(t, n)
    BY <2>2 DEF Writing, Reading, NoFile
  <2>10. FirstRecordGuarded(t, n)
    BY <1>0, <1>2, <2>7 DEF Reading, FirstRecordGuarded
  <2>11. ~t.file.open
    BY <2>2 DEF NoFile
  <2> QED BY <2>4, <2>5, <2>6, <2>8, <2>9, <2>10, <2>11 DEF MemInv, t
<1>3. CASE s.file.open /\ s.file.write
           /\ ~(s.fs.nextSlot \in Slot /\ Written(s, s.fs.nextSlot) /\ Aligned(s))
  BY <1>3, Zenon DEF CloseFile, Close
<1>4. CASE s.file.open /\ s.file.write
           /\ s.fs.nextSlot \in Slot /\ Written(s, s.fs.nextSlot) /\ Aligned(s)
  <2>1. /\ MemInv(u, n) /\ (WritesLast(s, n) => WritesLast(u, n))
        /\ u.file.size \div PageSize = PageOfWriter(s)
        /\ ProgPage(s) < Pages =>
              <<s.file.rec, PageOfWriter(s)>> \in u.flash.pages[ProgPage(s)]
    BY <1>4, FlushKeeps
  <2>2. /\ u \in MemType /\ u.fs = s.fs /\ u.flash.table = s.flash.table
        /\ u.file = [s.file EXCEPT !.size = s.file.size + s.fs.bufpos]
    BY <1>4, FlushType DEF ProgramsPage
  <2>3. s.fs.open
    BY <1>0, <1>4 DEF Ram
  <2>4. CASE ~ok
    <3>1. t = u
      BY <1>4, <2>4, Zenon DEF CloseFile, Close
    <3>2. FirstRecordGuarded(u, n)
      BY <2>2, <2>3 DEF FirstRecordGuarded
    <3> HIDE DEF u
    <3> QED BY <1>4, <2>1, <2>2, <3>1, <3>2
  <2>5. CASE ok
    <3>1. t = Complete(u)
      BY <1>4, <2>5, Zenon DEF CloseFile, Close
    <3>2. WritesLast(u, n) /\ s.fs.nextSlot = n /\ n \in Slot
      <4>1. WritesLast(s, n) \/ WritesNowhere(s, n)
        BY <1>0, <1>4 DEF Writing
      <4>2. ~WritesNowhere(s, n)
        BY <1>4, SlotsEven DEF WritesNowhere, Slot
      <4>3. s.fs.nextSlot = n
        BY <4>1, <4>2 DEF WritesLast
      <4> QED BY <1>4, <2>1, <4>1, <4>2, <4>3
    <3>3. u.file.open /\ u.file.write /\ u.file.rec = s.file.rec /\ u.file \in FileType
      <4> HIDE DEF u
      <4>1. u.file \in FileType
        BY <2>2 DEF MemType
      <4> QED BY <1>0, <1>4, <2>2, <4>1 DEF FileType
    <3> HIDE DEF u, t
    <3> DEFINE q  == u.file.size \div PageSize
               d  == [u.flash.table[n] EXCEPT !.size = u.file.size]
               fl == [u.flash EXCEPT !.table[n] = d]
               g  == [u.fs EXCEPT !.nextSlot  = u.fs.nextSlot + 1,
                                  !.nextStart = u.fs.nextStart + PagesTaken(u.file.size),
                                  !.files     = u.fs.files + 1,
                                  !.bufpos    = 0,
                                  !.open      = FALSE]
               v  == WriteDescriptor(u, u.fs.nextSlot, d)
    <3>4. u.fs.nextStart + q < Pages => <<u.file.rec, q>> \in u.flash.pages[u.fs.nextStart + q]
      BY <2>1, <2>2, <3>3 DEF ProgPage, PageOfWriter
    <3>5. /\ u.fs \in FsType /\ u.flash \in FlashType /\ u.file.size \in Nat
          /\ u.fs.nextSlot = n /\ u.fs.files = n - 1 /\ u.fs.nextStart \in Nat
          /\ n \in 1 .. Slots - 1 /\ 0 \in 0 .. PageSize - 1
      <4>1. Ram(u, n)
        BY <2>1 DEF MemInv
      <4>2. u.fs \in FsType /\ u.flash \in FlashType /\ u.file.size \in Nat
        BY <2>2, <3>3 DEF MemType, FileType
      <4>3. u.fs.nextSlot = n /\ n \in 1 .. Slots - 1
        BY <2>2, <3>2 DEF Slot
      <4> QED BY <4>1, <4>2, <4>3, SlotsEven, MyFsAssumption DEF Ram, FsType
    <3>6. d \in Descriptor
      <4>1. u.flash.table[n] \in Descriptor
        BY <3>2, <3>5 DEF FlashType
      <4>2. u.flash.table[n].rec # 0
        BY <2>2, <1>4, <3>2 DEF Written
      <4>3. u.flash.table[n] \in
              [rec : Record, id : Ids, start : FirstPage .. Pages - 1, size : Nat \cup {EmptyWord}]
        BY <4>1, <4>2 DEF Descriptor, ErasedSlot
      <4>4. d \in [rec : Record, id : Ids, start : FirstPage .. Pages - 1,
                   size : Nat \cup {EmptyWord}]
        BY <4>3, <3>5
      <4> QED BY <4>4 DEF Descriptor
    <3> HIDE DEF d
    <3>7. /\ fl \in FlashType /\ fl.pages = u.flash.pages
          /\ fl.table = [u.flash.table EXCEPT ![n] = d]
      BY <3>2, <3>5, <3>6 DEF FlashType
    <3>8. v = [u EXCEPT !.flash = fl]
      <4>1. v = [u EXCEPT !.flash.table[n] = d]
        BY <3>2, <3>5, Zenon DEF WriteDescriptor
      <4> QED BY <4>1
    <3> HIDE DEF fl
    <3> HIDE DEF v
    <3>9. v \in MemType /\ v.fs = u.fs /\ v.flash = fl
      BY <2>2, <3>7, <3>8 DEF MemType
    <3>10. PagesTaken(u.file.size) \in Nat
      BY <3>5, PagesTakenFacts
    <3>11. g \in FsType
      <4>1. /\ u.fs.nextSlot + 1 \in 0 .. Slots /\ u.fs.files + 1 \in 0 .. Slots - 1
            /\ u.fs.nextStart + PagesTaken(u.file.size) \in Nat
        BY <3>5, <3>10, SlotsEven
      <4> QED BY <3>5, <4>1 DEF FsType
    <3>12. t = [v EXCEPT !.fs = g, !.file = NoFile]
      <4>1. d = [u.flash.table[u.fs.nextSlot] EXCEPT !.size = u.file.size]
        BY <3>5 DEF d
      <4>2. t = [v EXCEPT !.fs = [v.fs EXCEPT !.nextSlot  = u.fs.nextSlot + 1,
                                  !.nextStart = u.fs.nextStart + PagesTaken(u.file.size),
                                  !.files     = u.fs.files + 1,
                                  !.bufpos    = 0,
                                  !.open      = FALSE],
                          !.file = NoFile]
        BY <3>1, <4>1 DEF Complete, v
      <4> QED BY <4>2, <3>9
    <3>13. NoFile \in FileType
      BY MyFsAssumption DEF NoFile, FileType
    <3>14. /\ g.mounted = u.fs.mounted /\ g.full = u.fs.full /\ ~g.open
           /\ g.files = u.fs.files + 1 /\ g.nextSlot = u.fs.nextSlot + 1
           /\ g.nextStart = u.fs.nextStart + PagesTaken(u.file.size)
      BY <3>5 DEF FsType
    <3> HIDE DEF g, v
    <3>15. t \in MemType /\ t.flash = fl /\ t.fs = g /\ t.file = NoFile
      BY <3>9, <3>11, <3>12, <3>13 DEF MemType
    <3>16. MovesOn(u, t)
      BY <3>14, <3>15 DEF MovesOn
    <3>17. MemInv(t, n)
      BY <2>1, <3>2, <3>3, <3>4, <3>7, <3>15, <3>16, CompleteKeeps DEF d
    <3>18. ~UnclosedAt(t, n)
      <4>1. fl.table[n] = d
        BY <3>2, <3>5, <3>7 DEF FlashType
      <4>2. d.size = u.file.size
        <5>1. u.flash.table[n] \in Descriptor
          BY <3>2, <3>5 DEF FlashType
        <5> QED BY <5>1 DEF d, Descriptor, ErasedSlot
      <4> QED BY <3>15, <3>5, <4>1, <4>2, MyFsAssumption DEF UnclosedAt, SizeOf, EmptyWord
    <3> QED BY <3>5, <3>16, <3>17, <3>18, <1>4 DEF FirstRecordGuarded, MovesOn, t
  <2> QED BY <2>4, <2>5
<1> QED BY <1>1, <1>2, <1>3, <1>4

----------------------------------------------------------------------------
(* The memory between two owners: reading, unmounting, mounting, formatting *)

(* A read moves nothing but the position in the file.                      *)
LEMMA GetFileDataKeeps ==
  ASSUME NEW s, NEW n, MemInv(s, n), FirstRecordGuarded(s, n)
  PROVE  /\ MemInv(GetFileData(s, ReadSize), n)
         /\ FirstRecordGuarded(GetFileData(s, ReadSize), n)
         /\ GetFileData(s, ReadSize).fs = s.fs
         /\ GetFileData(s, ReadSize).file.open = s.file.open
         /\ GetFileData(s, ReadSize).file.write = s.file.write
<1> DEFINE t == Read(s, ReadSize)
<1>1. s \in MemType /\ ReadSize \in Nat
  BY MemoryTaskAssumption DEF MemInv
<1>2. MemInv(t, n) /\ t.fs = s.fs
  BY <1>1, ReadKeeps
<1>3. t.flash = s.flash /\ t.file.open = s.file.open /\ t.file.write = s.file.write
  BY <1>1 DEF Read, MemType, FileType
<1>4. FirstRecordGuarded(t, n)
  BY <1>2, <1>3 DEF FirstRecordGuarded, UnclosedAt, SizeOf
<1> QED BY <1>2, <1>3, <1>4 DEF GetFileData

(* An unmounted file system without a file.                                *)
Forgotten(s, t) ==
  /\ t.flash = s.flash /\ t.list = s.list /\ t.file = NoFile
  /\ t.fs = [s.fs EXCEPT !.mounted = FALSE]

(* Forgetting the file disturbs nothing.                                   *)
LEMMA ForgottenKeeps ==
  ASSUME NEW s, NEW t, NEW n, MemInv(s, n), t \in MemType, Forgotten(s, t)
  PROVE  MemInv(t, n)
<1>1. s.fs \in FsType /\ TableShape(s, n) /\ FlashInv(s, n) /\ Ram(s, n)
  BY DEF MemInv, MemType
<1>2. t.flash.table = s.flash.table /\ t.flash.pages = s.flash.pages
  BY DEF Forgotten
<1>3. TableShape(t, n) /\ FlashInv(t, n)
  BY <1>1, <1>2, SameFlash
<1>4. /\ t.fs.full = s.fs.full /\ t.fs.open = s.fs.open /\ t.fs.files = s.fs.files
      /\ t.fs.nextSlot = s.fs.nextSlot /\ t.fs.nextStart = s.fs.nextStart
      /\ ~t.fs.mounted /\ t.file = NoFile
  BY <1>1 DEF Forgotten, FsType
<1>5. PointersAt(s, n) => PointersAt(t, n)
  BY <1>2, <1>4 DEF PointersAt, UnclosedAt, EndOfRecords, EndOf, StartOf, SizeOf
<1>6. Ram(t, n)
  BY <1>1, <1>4, <1>5 DEF Ram, NoFile
<1>7. Writing(t, n) /\ Reading(t, n)
  BY <1>4 DEF Writing, Reading, NoFile
<1> QED BY <1>3, <1>6, <1>7 DEF MemInv

(* deinit_fs leaves no file, whether it could be closed or not.            *)
LEMMA DeinitFsKeeps ==
  ASSUME NEW s, NEW n, MemInv(s, n), FirstRecordGuarded(s, n), NEW ok
  PROVE  /\ MemInv(DeinitFs(s, ok), n) /\ FirstRecordGuarded(DeinitFs(s, ok), n)
         /\ s.fs.nextSlot > 0 => DeinitFs(s, ok).fs.nextSlot > 0
         /\ DeinitFs(s, ok).file = NoFile
<1> DEFINE u == CloseFile(s, ok)
           t == DeinitFs(s, ok)
           g == [u.fs EXCEPT !.mounted = FALSE]
<1>1. /\ MemInv(u, n) /\ FirstRecordGuarded(u, n)
      /\ s.fs.nextSlot > 0 => u.fs.nextSlot > 0
  BY CloseFileKeeps
<1>2. u \in MemType /\ u.fs \in FsType
  BY <1>1 DEF MemInv, MemType
<1>3. t = [u EXCEPT !.file = NoFile, !.fs.mounted = FALSE]
  BY DEF DeinitFs, Unmount
<1> HIDE DEF u, t
<1>4. /\ t.flash = u.flash /\ t.list = u.list /\ t.file = NoFile /\ t.fs = g
      /\ t = [u EXCEPT !.file = NoFile, !.fs = g]
  BY <1>2, <1>3 DEF MemType
<1>5. g \in FsType /\ g.open = u.fs.open /\ g.nextSlot = u.fs.nextSlot
  BY <1>2 DEF FsType
<1>6. NoFile \in FileType
  BY MyFsAssumption DEF NoFile, FileType
<1>7. Forgotten(u, t)
  BY <1>4 DEF Forgotten
<1> HIDE DEF g
<1>8. t \in MemType
  BY <1>2, <1>4, <1>5, <1>6 DEF MemType
<1>9. MemInv(t, n)
  BY <1>1, <1>7, <1>8, ForgottenKeeps
<1>10. FirstRecordGuarded(t, n)
  BY <1>1, <1>4, <1>5 DEF FirstRecordGuarded, UnclosedAt, SizeOf
<1> QED BY <1>1, <1>4, <1>5, <1>9, <1>10 DEF t

----------------------------------------------------------------------------
(* Mounting                                                                *)

(* A mount reads the flash and sets the pointers.                          *)
LEMMA MountType ==
  ASSUME NEW s \in MemType, NEW n, TableShape(s, n), Extents(s, n)
  PROVE  /\ Mount(s) \in MemType
         /\ Mount(s).flash = s.flash /\ Mount(s).file = s.file /\ Mount(s).list = s.list
         /\ Mount(s).fs.open = s.fs.open
<1> DEFINE mounts   == MountResult(s) \in {"OK", "NO_SPACE_LEFT"} /\ ~TableFull(s)
           pointers == ~MemoryFull(s) \/ Last(s) <= 1
           files    == IF mounts /\ pointers THEN Last(s) ELSE s.fs.files
           slot     == IF mounts /\ pointers THEN Last(s) + 1 ELSE s.fs.nextSlot
           start    == IF mounts /\ pointers THEN NextStartOnFlash(s) ELSE s.fs.nextStart
           full     == s.fs.full \/ (mounts /\ MemoryFull(s))
           mounted  == s.fs.mounted \/ mounts
           g        == [s.fs EXCEPT !.mounted = mounted, !.full = full, !.files = files,
                                    !.nextSlot = slot, !.nextStart = start]
<1>1. Last(s) \in 0 .. Slots - 1 /\ NextStartOnFlash(s) \in Nat /\ s.fs \in FsType
  BY LastIs, NextStartIs DEF TableShape, MemType
<1>2. Mount(s) = [s EXCEPT !.fs = g]
  BY DEF Mount
<1>3. files \in 0 .. Slots - 1 /\ slot \in 0 .. Slots /\ start \in Nat
  BY <1>1, SlotsEven DEF FsType
<1>4. mounted \in BOOLEAN /\ full \in BOOLEAN
  <2>1. s.fs.mounted \in BOOLEAN /\ s.fs.full \in BOOLEAN
    BY <1>1 DEF FsType
  <2> HIDE DEF mounts
  <2> QED BY <2>1, Zenon
<1> HIDE DEF files, slot, start, full, mounted
<1>5. g \in FsType /\ g.open = s.fs.open
  BY <1>1, <1>3, <1>4 DEF FsType
<1> HIDE DEF g
<1> QED BY <1>2, <1>5 DEF MemType

(* A mount that succeeds, or finds no space left, knows where the next     *)
(* record goes, unless the file system is full or was left open.           *)
LEMMA MountKeeps ==
  ASSUME NEW s, NEW n, MemInv(s, n), FirstRecordGuarded(s, n), s.file = NoFile,
         MountResult(s) \in {"OK", "NO_SPACE_LEFT"}
  PROVE  /\ MemInv(Mount(s), n) /\ FirstRecordGuarded(Mount(s), n)
         /\ Mount(s).file = NoFile
         /\ s.fs.nextSlot > 0 \/ MountResult(s) = "OK" => Mount(s).fs.nextSlot > 0
<1> DEFINE t == Mount(s)
<1>1. /\ s \in MemType /\ TableShape(s, n) /\ FlashInv(s, n) /\ Extents(s, n) /\ Ram(s, n)
      /\ s.fs \in FsType /\ n \in 0 .. Slots - 1
  BY DEF MemInv, FlashInv, MemType, TableShape
<1>2. /\ Last(s) = n /\ (LastUnclosed(s) <=> UnclosedAt(s, n))
      /\ NextStartOnFlash(s) = EndOfRecords(s, n) /\ EndOfRecords(s, n) \in Nat
      /\ EndOfRecords(s, n) >= FirstPage
  BY <1>1, LastIs, LastUnclosedIs, NextStartIs
<1>3. /\ t \in MemType /\ t.flash = s.flash /\ t.file = s.file /\ t.list = s.list
      /\ t.fs.open = s.fs.open
  BY <1>1, MountType
<1>4. ~s.fs.mounted /\ (TableFull(s) \/ ~UnclosedAt(s, n) \/ n = 1)
  BY <1>2 DEF MountResult, RepairResult
<1>5. MountResult(s) = "OK" => ~TableFull(s) /\ ~MemoryFull(s)
  BY DEF MountResult, RepairResult
<1>6. TableShape(t, n) /\ FlashInv(t, n)
  BY <1>1, <1>3, SameFlash
<1>7. FirstRecordGuarded(t, n)
  BY <1>3 DEF FirstRecordGuarded, UnclosedAt, SizeOf
<1>8. Writing(t, n) /\ Reading(t, n)
  BY <1>3 DEF Writing, Reading, NoFile
<1>9. /\ UnclosedAt(t, n) <=> UnclosedAt(s, n)
      /\ EndOfRecords(t, n) = EndOfRecords(s, n)
  BY <1>3 DEF UnclosedAt, EndOfRecords, EndOf, StartOf, SizeOf
<1>10. CASE TableFull(s)
  <2>1. t.fs.mounted = s.fs.mounted /\ t.fs.full = s.fs.full /\ t.fs.files = s.fs.files
        /\ t.fs.nextSlot = s.fs.nextSlot /\ t.fs.nextStart = s.fs.nextStart
    BY <1>10, <1>1 DEF Mount, MemType, FsType
  <2>2. PointersAt(s, n) => PointersAt(t, n)
    BY <1>9, <2>1 DEF PointersAt
  <2>3. Ram(t, n)
    <3> HIDE DEF t
    <3> QED BY <1>1, <1>3, <1>4, <2>1, <2>2 DEF Ram, NoFile
  <2> QED BY <1>3, <1>5, <1>6, <1>7, <1>8, <1>10, <2>1, <2>3 DEF MemInv
<1>11. CASE ~TableFull(s) /\ (~MemoryFull(s) \/ n <= 1)
  <2>1. t.fs.mounted /\ t.fs.files = n /\ t.fs.nextSlot = n + 1
        /\ t.fs.nextStart = EndOfRecords(s, n)
    BY <1>11, <1>1, <1>2 DEF Mount, MemType, FsType
  <2>2. ~t.fs.open => PointersAt(t, n)
    <3>1. ~s.fs.open => ~UnclosedAt(s, n)
      BY <1>4, <1>11 DEF FirstRecordGuarded
    <3> QED BY <3>1, <1>3, <1>9, <2>1 DEF PointersAt
  <2>3. Ram(t, n)
    <3> HIDE DEF t
    <3> QED BY <1>1, <1>2, <1>3, <2>1, <2>2, SlotsEven DEF Ram, NoFile
  <2> QED BY <1>1, <1>3, <1>6, <1>7, <1>8, <2>1, <2>3, SlotsEven DEF MemInv
<1>12. CASE ~TableFull(s) /\ MemoryFull(s) /\ n > 1
  <2>1. t.fs.full /\ t.fs.files = s.fs.files /\ t.fs.nextSlot = s.fs.nextSlot
        /\ t.fs.nextStart = s.fs.nextStart
    <3>0. ~(Last(s) <= 1)
      BY <1>12, <1>1, <1>2, SlotsEven
    <3>1. t.fs.files = s.fs.files /\ t.fs.nextSlot = s.fs.nextSlot
          /\ t.fs.nextStart = s.fs.nextStart
      BY <1>12, <1>1, <3>0 DEF Mount, MemType, FsType
    <3> HIDE DEF t
    <3>2. t.fs.full = (s.fs.full \/ ((MountResult(s) \in {"OK", "NO_SPACE_LEFT"}
                                       /\ ~TableFull(s)) /\ MemoryFull(s)))
      BY <1>1 DEF t, Mount, MemType, FsType
    <3>3. t.fs.full
      BY <3>2, <1>12, Zenon
    <3> QED BY <3>1, <3>3
  <2>2. Ram(t, n)
    <3> HIDE DEF t
    <3> QED BY <1>1, <1>3, <2>1 DEF Ram, NoFile
  <2> QED BY <1>3, <1>5, <1>6, <1>7, <1>8, <1>12, <2>1, <2>2 DEF MemInv
<1> QED BY <1>1, <1>10, <1>11, <1>12, SlotsEven

----------------------------------------------------------------------------
(* Formatting                                                              *)

(* An erase leaves nothing but the page behind the file system.            *)
LEMMA ErasedFlashType ==
  ASSUME NEW s \in MemType
  PROVE  /\ Erase(s) \in MemType
         /\ Erase(s).flash.table = [i \in Slot |-> ErasedSlot]
         /\ \A p \in FirstPage .. Pages - 1 : Erase(s).flash.pages[p] = {}
         /\ Erase(s).fs = s.fs /\ Erase(s).file = s.file /\ Erase(s).list = s.list
<1> DEFINE pgs == [[p \in DataPage |-> {}] EXCEPT ![Pages] = s.flash.pages[Pages]]
           fl  == [ErasedFlash EXCEPT !.pages = pgs]
<1>1. Pages \in DataPage /\ \A p \in FirstPage .. Pages - 1 : p \in DataPage /\ p # Pages
  BY MyFsAssumption DEF DataPage
<1>2. s.flash.pages \in [DataPage -> SUBSET Writer]
  BY DEF MemType, FlashType
<1>3. pgs \in [DataPage -> SUBSET Writer] /\ \A p \in FirstPage .. Pages - 1 : pgs[p] = {}
  BY <1>1, <1>2
<1>4. Erase(s) = [s EXCEPT !.flash = fl]
  BY DEF Erase, ErasedFlash
<1> HIDE DEF pgs
<1>5. fl = [marker |-> FALSE, table |-> [i \in Slot |-> ErasedSlot], pages |-> pgs]
  <2> DEFINE tbl == [i \in Slot |-> ErasedSlot]
             none == [p \in DataPage |-> {}]
  <2>1. ErasedFlash = [marker |-> FALSE, table |-> tbl, pages |-> none]
    BY DEF ErasedFlash
  <2> HIDE DEF tbl, none
  <2>2. fl = [[marker |-> FALSE, table |-> tbl, pages |-> none] EXCEPT !.pages = pgs]
    BY <2>1
  <2> HIDE DEF fl
  <2>3. fl = [marker |-> FALSE, table |-> tbl, pages |-> pgs]
    BY <2>2
  <2> QED BY <2>3 DEF tbl
<1> HIDE DEF fl
<1>6. [i \in Slot |-> ErasedSlot] \in [Slot -> Descriptor]
  BY DEF Descriptor
<1>7. fl \in FlashType
  BY <1>3, <1>5, <1>6 DEF FlashType
<1>8. /\ Erase(s).flash = fl /\ Erase(s).fs = s.fs /\ Erase(s).file = s.file
      /\ Erase(s).list = s.list /\ Erase(s) \in MemType
  BY <1>4, <1>7 DEF MemType
<1> QED BY <1>3, <1>5, <1>8

(* What a format leaves: the marker alone, and an unmounted file system.   *)
Formatted(s, t) ==
  /\ t \in MemType
  /\ t.flash.marker
  /\ t.flash.table = [i \in Slot |-> ErasedSlot]
  /\ \A p \in FirstPage .. Pages - 1 : t.flash.pages[p] = {}
  /\ t.fs = [s.fs EXCEPT !.files = 0, !.full = FALSE, !.open = FALSE, !.mounted = FALSE]

(* myfs_format does that.                                                  *)
LEMMA FormatIs ==
  ASSUME NEW s \in MemType
  PROVE  Formatted(s, Format(s))
<1> DEFINE e  == Erase(s)
           fl == [e.flash EXCEPT !.marker = TRUE]
           g  == [e.fs EXCEPT !.files = 0, !.full = FALSE, !.open = FALSE, !.mounted = FALSE]
           t  == Format(s)
<1>1. /\ e \in MemType /\ e.flash.table = [i \in Slot |-> ErasedSlot]
      /\ \A p \in FirstPage .. Pages - 1 : e.flash.pages[p] = {}
      /\ e.fs = s.fs
  BY ErasedFlashType
<1>2. t = [e EXCEPT !.flash.marker = TRUE, !.fs = g]
  BY DEF Format
<1> HIDE DEF e
<1>3. e.flash \in FlashType /\ e.fs \in FsType
  BY <1>1 DEF MemType
<1>4. /\ fl \in FlashType /\ fl.table = e.flash.table /\ fl.pages = e.flash.pages
      /\ fl.marker
  BY <1>3 DEF FlashType
<1>5. g \in FsType
  <2>1. 0 \in 0 .. Slots - 1
    BY SlotsEven
  <2> QED BY <1>3, <2>1 DEF FsType
<1>6. t.fs = g /\ t.flash = fl /\ t = [e EXCEPT !.flash = fl, !.fs = g]
  BY <1>1, <1>2 DEF MemType
<1>7. g = [s.fs EXCEPT !.files = 0, !.full = FALSE, !.open = FALSE, !.mounted = FALSE]
  BY <1>1
<1> HIDE DEF fl, g, t
<1>8. t \in MemType
  BY <1>1, <1>4, <1>5, <1>6 DEF MemType
<1>9. Formatted(s, t)
  BY <1>1, <1>4, <1>6, <1>7, <1>8 DEF Formatted
<1> QED BY <1>9 DEF t

(* A formatted file system can be mounted, and holds no record.            *)
LEMMA FormattedMounts ==
  ASSUME NEW s \in MemType, NEW t, Formatted(s, t)
  PROVE  /\ TableShape(t, 0) /\ FlashInv(t, 0)
         /\ MountResult(t) = "OK"
         /\ Mount(t) \in MemType /\ Mount(t).flash = t.flash /\ Mount(t).file = t.file
         /\ Mount(t).list = t.list
         /\ Mount(t).fs.mounted /\ ~Mount(t).fs.full /\ ~Mount(t).fs.open
         /\ Mount(t).fs.files = 0 /\ Mount(t).fs.nextSlot = 1
         /\ Mount(t).fs.nextStart = FirstPage
<1>1. TableShape(t, 0) /\ FlashInv(t, 0) /\ t \in MemType
  BY ErasedInv DEF Formatted
<1>2. Extents(t, 0)
  BY <1>1 DEF FlashInv
<1>3. Last(t) = 0 /\ NextStartOnFlash(t) = FirstPage /\ ~LastUnclosed(t)
  BY <1>1, <1>2, LastIs, NextStartIs DEF EndOfRecords, LastUnclosed
<1>4. ~TableFull(t) /\ ~MemoryFull(t)
  BY <1>3, SlotsEven, MyFsAssumption DEF TableFull, MemoryFull
<1>5. s.fs \in FsType
  BY DEF MemType
<1>6. ~t.fs.mounted /\ ~t.fs.full /\ ~t.fs.open /\ t.fs.files = 0 /\ t.flash.marker
      /\ t.fs \in FsType
  BY <1>5, <1>1 DEF Formatted, FsType, MemType
<1>7. MountResult(t) = "OK"
  BY <1>3, <1>4, <1>6 DEF MountResult
<1>8. /\ Mount(t) \in MemType /\ Mount(t).flash = t.flash /\ Mount(t).file = t.file
      /\ Mount(t).list = t.list /\ Mount(t).fs.open = t.fs.open
  BY <1>1, <1>2, MountType
<1>9. /\ Mount(t).fs.mounted /\ ~Mount(t).fs.full
      /\ Mount(t).fs.files = 0 /\ Mount(t).fs.nextSlot = 1
      /\ Mount(t).fs.nextStart = FirstPage
  <2> DEFINE mounts == MountResult(t) \in {"OK", "NO_SPACE_LEFT"} /\ ~TableFull(t)
  <2>1. mounts /\ (~MemoryFull(t) \/ Last(t) <= 1)
    BY <1>4, <1>7
  <2>2. /\ Mount(t).fs.files = Last(t) /\ Mount(t).fs.nextSlot = Last(t) + 1
        /\ Mount(t).fs.nextStart = NextStartOnFlash(t)
    BY <2>1, <1>1, <1>3, <1>6 DEF Mount, MemType, FsType
  <2>3. /\ Mount(t).fs.mounted = (t.fs.mounted \/ mounts)
        /\ Mount(t).fs.full = (t.fs.full \/ (mounts /\ MemoryFull(t)))
    BY <1>1, <1>6 DEF Mount, MemType, FsType
  <2> HIDE DEF mounts
  <2>4. Mount(t).fs.mounted /\ ~Mount(t).fs.full
    BY <2>1, <2>3, <1>4, <1>6, Zenon
  <2> QED BY <2>2, <2>4, <1>3
<1> QED BY <1>1, <1>6, <1>7, <1>8, <1>9

(* init_fs ends with no file, and with the pointers set if it reports      *)
(* success; it never reports a general error.                              *)
LEMMA InitFsKeeps ==
  ASSUME NEW s, NEW n, MemInv(s, n), FirstRecordGuarded(s, n), s.file = NoFile
  PROVE  /\ \E m \in 0 .. Slots - 1 :
              MemInv(InitFs(s), m) /\ FirstRecordGuarded(InitFs(s), m)
         /\ InitFs(s).file = NoFile
         /\ s.fs.nextSlot > 0 \/ InitResult(s) = "OK" => InitFs(s).fs.nextSlot > 0
<1> DEFINE t == InitFs(s)
           l(x) == [x.list EXCEPT !.needed = FALSE]
<1>1. s \in MemType /\ n \in 0 .. Slots - 1
  BY DEF MemInv, TableShape
<1>2. CASE InitFormats(s)
  <2> DEFINE f == Format(s)
             u == Mount(f)
  <2>1. Formatted(s, f)
    BY <1>1, FormatIs
  <2>2. /\ TableShape(f, 0) /\ FlashInv(f, 0) /\ MountResult(f) = "OK"
        /\ u \in MemType /\ u.flash = f.flash
        /\ u.fs.mounted /\ ~u.fs.full /\ ~u.fs.open /\ u.fs.files = 0
        /\ u.fs.nextSlot = 1 /\ u.fs.nextStart = FirstPage
    BY <1>1, <2>1, FormattedMounts
  <2>3. InitResult(s) = "OK"
    BY <1>2, <2>2 DEF InitResult, InitFormats
  <2>4. t = [u EXCEPT !.list.needed = FALSE, !.file = NoFile]
    BY <1>2, <2>3 DEF InitFs
  <2> HIDE DEF t, u, f
  <2>5. NoFile \in FileType /\ l(u) \in [needed : BOOLEAN, left : Nat]
    <3>1. NoFile \in FileType
      BY MyFsAssumption DEF NoFile, FileType
    <3>2. u.list \in [needed : BOOLEAN, left : Nat]
      BY <2>2 DEF MemType
    <3> QED BY <3>1, <3>2
  <2>6. t = [u EXCEPT !.list = l(u), !.file = NoFile]
    BY <2>2, <2>4 DEF MemType
  <2> HIDE DEF l
  <2>7. t \in MemType /\ t.flash = f.flash /\ t.fs = u.fs /\ t.file = NoFile
    BY <2>2, <2>5, <2>6 DEF MemType
  <2>8. TableShape(t, 0) /\ FlashInv(t, 0)
    BY <2>2, <2>7, SameFlash
  <2>9. Ram(t, 0)
    BY <2>2, <2>7, MyFsAssumption DEF Ram, PointersAt, UnclosedAt, EndOfRecords, NoFile
  <2>10. Writing(t, 0) /\ Reading(t, 0) /\ FirstRecordGuarded(t, 0)
    BY <2>7 DEF Writing, Reading, NoFile, FirstRecordGuarded
  <2> QED BY <2>2, <2>7, <2>8, <2>9, <2>10, SlotsEven DEF MemInv, t
<1>3. CASE ~InitFormats(s)
  <2> DEFINE u == Mount(s)
  <2>1. /\ MemInv(u, n) /\ FirstRecordGuarded(u, n) /\ u.file = NoFile
        /\ s.fs.nextSlot > 0 \/ MountResult(s) = "OK" => u.fs.nextSlot > 0
    BY <1>3, MountKeeps DEF InitFormats
  <2>2. InitResult(s) = "OK" => MountResult(s) = "OK"
    BY <1>3 DEF InitResult, InitFormats
  <2>3. CASE InitResult(s) # "OK"
    <3>1. t = u
      BY <1>3, <2>3 DEF InitFs
    <3> QED BY <1>1, <2>1, <2>3, <3>1
  <2>4. CASE InitResult(s) = "OK"
    <3>1. t = [u EXCEPT !.list.needed = FALSE, !.file = NoFile]
      BY <1>3, <2>4 DEF InitFs
    <3>2. u \in MemType
      BY <2>1 DEF MemInv
    <3> HIDE DEF t, u
    <3>3. l(u) \in [needed : BOOLEAN, left : Nat]
      BY <3>2 DEF MemType
    <3>4. t = [u EXCEPT !.list = l(u)]
      BY <2>1, <3>1, <3>2 DEF MemType
    <3> HIDE DEF l
    <3>5. MemInv(t, n)
      BY <2>1, <3>3, <3>4, ListKeeps
    <3>6. t.fs = u.fs /\ t.flash = u.flash /\ t.file = u.file
      BY <3>2, <3>4 DEF MemType
    <3>7. FirstRecordGuarded(t, n)
      BY <2>1, <3>6 DEF FirstRecordGuarded, UnclosedAt, SizeOf
    <3> QED BY <1>1, <2>1, <2>2, <3>5, <3>6, <3>7 DEF t
  <2> QED BY <2>3, <2>4
<1> QED BY <1>2, <1>3

(* Whatever the state of the RAM, an init_fs leaves a flash that a restart *)
(* finds in order.                                                         *)
LEMMA InitFsThenPowerOn ==
  ASSUME NEW s, NEW n, MemInv(s, n)
  PROVE  \E m \in 0 .. Slots - 1 : MemInv(PowerOn(InitFs(s).flash), m)
<1>1. s \in MemType /\ TableShape(s, n) /\ FlashInv(s, n) /\ n \in 0 .. Slots - 1
  BY DEF MemInv, TableShape
<1>2. CASE InitFormats(s)
  <2> DEFINE f == Format(s)
             u == Mount(f)
  <2>1. Formatted(s, f) /\ f \in MemType
    BY <1>1, FormatIs DEF Formatted
  <2>2. TableShape(f, 0) /\ FlashInv(f, 0) /\ u.flash = f.flash /\ u \in MemType
    BY <1>1, <2>1, FormattedMounts
  <2>3. InitFs(s) = u \/ InitFs(s) = [u EXCEPT !.list.needed = FALSE, !.file = NoFile]
    BY <1>2 DEF InitFs
  <2> HIDE DEF f, u
  <2>4. InitFs(s).flash = f.flash
    BY <2>2, <2>3 DEF MemType
  <2>5. MemInv(PowerOn(f.flash), 0)
    BY <2>1, <2>2, PowerOnInv
  <2> QED BY <2>4, <2>5, SlotsEven
<1>3. CASE ~InitFormats(s)
  <2>1. Mount(s).flash = s.flash /\ Mount(s) \in MemType
    BY <1>1, MountType DEF FlashInv
  <2> DEFINE u == Mount(s)
  <2>2. InitFs(s) = u \/ InitFs(s) = [u EXCEPT !.list.needed = FALSE, !.file = NoFile]
    BY <1>3 DEF InitFs
  <2> HIDE DEF u
  <2>3. InitFs(s).flash = s.flash
    BY <2>1, <2>2 DEF MemType, u
  <2> QED BY <1>1, <2>3, PowerOnInv
<1> QED BY <1>2, <1>3
=============================================================================
