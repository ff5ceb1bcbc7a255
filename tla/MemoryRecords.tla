--------------------------- MODULE MemoryRecords ---------------------------
(***************************************************************************)
(* What the calls of myfs_access do to the records: which of them are      *)
(* saved, which one is being written, and that none disappears.  These are *)
(* the steps of RecordStore, on the memory's state s, before and t, after. *)
(***************************************************************************)
EXTENDS MemoryCalls, SequenceTheorems

(* The saved records as the descriptor table tells them.                   *)
ClosedSlots(s) == {j \in Slot : Written(s, j) /\ Closed(s, j)}

Entry(rec, size) == [rec |-> rec, size |-> size, content |-> WholePages(rec, size)]

(* A descriptor missed the table: it is among the bytes of the first one.  *)
Strayed(s) == StrayDescriptor \in s.flash.pages[FirstPage]

SpoiltEntry(rec, size) == [Entry(rec, size) EXCEPT !.content = WithDescriptor(@)]

EntryAt(s, i) ==
  IF i = 1 /\ Strayed(s) THEN SpoiltEntry(RecOf(s, i), SizeOf(s, i))
                         ELSE Entry(RecOf(s, i), SizeOf(s, i))

SavedIn(s) == [i \in ClosedSlots(s) |-> EntryAt(s, i)]

OpenIn(s) ==
  IF s.file.open /\ s.file.write /\ Aligned(s)
  THEN {[rec |-> s.file.rec, bytes |-> s.file.size + s.fs.bufpos]}
  ELSE {}

(* No record disappears, a closed one stays closed.                        *)
KeepsRecords(s, t) ==
  /\ t.flash.marker = s.flash.marker
  /\ \A i \in Slot : (Written(s, i) => Written(t, i)) /\ (Closed(s, i) => Closed(t, i))

(* The steps of RecordStore.                                               *)
SavesRecord(s, t) ==
  /\ OpenIn(s) # {} /\ OpenIn(t) = {} /\ Len(SavedIn(s)) < Slots - 1
  /\ \E w \in OpenIn(s) : SavedIn(t) = Append(SavedIn(s), Entry(w.rec, w.bytes))

Abandons(s, t) == OpenIn(t) = {} /\ SavedIn(t) = SavedIn(s)

Wipes(s, t) == OpenIn(t) = {} /\ SavedIn(t) = <<>>

AddsSample(s, t) ==
  /\ OpenIn(s) # {}
  /\ \E w \in OpenIn(s) : OpenIn(t) = {[w EXCEPT !.bytes = @ + Chunk]}
  /\ SavedIn(t) = SavedIn(s)

Begins(s, t, rec) ==
  /\ OpenIn(s) = {} /\ OpenIn(t) = {[rec |-> rec, bytes |-> 0]}
  /\ Len(SavedIn(s)) < Slots - 1
  /\ SavedIn(t) = SavedIn(s)

BeginsBeyond(s, t, rec) ==
  /\ OpenIn(s) = {} /\ OpenIn(t) = {[rec |-> rec, bytes |-> 0]}
  /\ Len(SavedIn(s)) = Slots - 1
  /\ SavedIn(t) = [SavedIn(s) EXCEPT ![1].content = WithDescriptor(@)]

Rests(s, t) == SavedIn(t) = SavedIn(s) /\ OpenIn(t) = OpenIn(s)

RecordStep(s, t) ==
  \/ Rests(s, t) \/ Abandons(s, t) \/ Wipes(s, t)
  \/ SavesRecord(s, t) \/ AddsSample(s, t)
  \/ \E rec \in Record : Begins(s, t, rec) \/ BeginsBeyond(s, t, rec)

----------------------------------------------------------------------------
(* Equal tables tell the same records.                                     *)
LEMMA SameTableKeeps ==
  ASSUME NEW s, NEW t, t.flash.table = s.flash.table, t.flash.marker = s.flash.marker
  PROVE  KeepsRecords(s, t)
BY Zenon DEF Written, Closed, KeepsRecords

LEMMA SameTableSaved ==
  ASSUME NEW s, NEW t, t.flash.table = s.flash.table, Strayed(t) <=> Strayed(s)
  PROVE  SavedIn(t) = SavedIn(s)
<1>1. ClosedSlots(t) = ClosedSlots(s) /\ \A i : EntryAt(t, i) = EntryAt(s, i)
  BY Zenon DEF ClosedSlots, EntryAt, Written, Closed, RecOf, SizeOf
<1> QED BY <1>1, Zenon DEF SavedIn

(* No file, or one that is read, is no open record.                        *)
LEMMA NothingOpen ==
  ASSUME NEW s, ~s.file.open \/ ~s.file.write
  PROVE  OpenIn(s) = {}
BY DEF OpenIn

(* The same file at the same size is the same open record.                 *)
LEMMA SameOpen ==
  ASSUME NEW s, NEW t, t.file = s.file, t.fs.bufpos = s.fs.bufpos
  PROVE  OpenIn(t) = OpenIn(s)
BY DEF OpenIn, Aligned

(* The saved records are the first n of the table, or all but the last.    *)
LEMMA ClosedSlotsAre ==
  ASSUME NEW s, NEW n, TableShape(s, n)
  PROVE  ClosedSlots(s) = 1 .. (IF UnclosedAt(s, n) THEN n - 1 ELSE n)
<1>1. /\ n \in 0 .. Slots - 1
      /\ \A i \in Slot : RecOf(s, i) # 0 <=> i <= n
      /\ \A i \in 1 .. n - 1 : SizeOf(s, i) # EmptyWord
      /\ Slots \in Nat
  BY SlotsEven DEF TableShape
<1>2. ASSUME NEW i \in ClosedSlots(s)
      PROVE  i \in 1 .. (IF UnclosedAt(s, n) THEN n - 1 ELSE n)
  <2>1. i \in Slot /\ RecOf(s, i) # 0 /\ SizeOf(s, i) # EmptyWord
    BY <1>2 DEF ClosedSlots, Written, Closed, RecOf, SizeOf
  <2>2. i \in 1 .. n
    BY <1>1, <2>1 DEF Slot
  <2> QED BY <1>1, <2>1, <2>2 DEF UnclosedAt
<1>3. ASSUME NEW i \in 1 .. (IF UnclosedAt(s, n) THEN n - 1 ELSE n)
      PROVE  i \in ClosedSlots(s)
  <2>1. i \in Slot /\ i \in 1 .. n
    BY <1>1 DEF Slot
  <2>2. RecOf(s, i) # 0 /\ SizeOf(s, i) # EmptyWord
    BY <1>1, <2>1 DEF UnclosedAt
  <2> QED BY <2>1, <2>2 DEF ClosedSlots, Written, Closed, RecOf, SizeOf
<1> QED BY <1>2, <1>3, Zenon

(* So many records are saved.                                              *)
LEMMA SavedLength ==
  ASSUME NEW s, NEW n, TableShape(s, n)
  PROVE  Len(SavedIn(s)) = IF UnclosedAt(s, n) THEN n - 1 ELSE n
<1> DEFINE m == IF UnclosedAt(s, n) THEN n - 1 ELSE n
           S == {EntryAt(s, i) : i \in 1 .. m}
<1>1. m \in Nat
  BY DEF TableShape, UnclosedAt
<1>2. SavedIn(s) = [i \in 1 .. m |-> EntryAt(s, i)]
  BY ClosedSlotsAre, Zenon DEF SavedIn
<1> HIDE DEF m
<1>3. SavedIn(s) \in [1 .. m -> S]
  BY <1>2, Zenon
<1> HIDE DEF S
<1>4. Len(SavedIn(s)) = m
  BY <1>1, <1>3, Z3
<1> QED BY <1>4 DEF m

(* While a slot is left or its record unclosed, no descriptor has strayed. *)
LEMMA NothingStrayed ==
  ASSUME NEW s, NEW n, MemInv(s, n), UnclosedAt(s, n) \/ n < Slots - 1
  PROVE  ~Strayed(s)
<1>1. FirstPage \in FirstPage .. Pages - 1
  BY MyFsAssumption
<1> QED BY <1>1, SlotsEven DEF MemInv, FlashInv, StrayInOrder, Strayed

(* A page programmed for an open record is no descriptor.                  *)
LEMMA ProgramsNoDescriptor ==
  ASSUME NEW s, NEW n, MemInv(s, n), s.file.open, s.file.write,
         NEW t, ProgramsPage(s, t)
  PROVE  Strayed(t) <=> Strayed(s)
<1>1. s.flash.pages \in [DataPage -> SUBSET Writer] /\ FirstPage \in DataPage
  BY MyFsAssumption DEF MemInv, MemType, FlashType, DataPage
<1>2. <<s.file.rec, PageOfWriter(s)>> # StrayDescriptor
  BY DEF MemInv, Writing, StrayDescriptor
<1> QED BY <1>1, <1>2 DEF ProgramsPage, Strayed

----------------------------------------------------------------------------
(* What the calls do                                                       *)

(* create_file takes the next slot, or none behind the table.              *)
Created(s, t, id, rec) ==
  /\ ~s.fs.open /\ ~s.fs.full
  /\ t.flash.marker = s.flash.marker
  /\ \/ /\ s.fs.nextSlot \notin Slot
        /\ t.flash.table = s.flash.table /\ Strayed(t)
     \/ /\ s.fs.nextSlot \in Slot
        /\ Strayed(t) <=> Strayed(s)
        /\ t.flash.table = [s.flash.table EXCEPT ![s.fs.nextSlot] =
             [rec |-> rec, id |-> id, start |-> s.fs.nextStart, size |-> EmptyWord]]
  /\ t.file.open /\ t.file.write /\ t.file.rec = rec /\ t.file.size = 0
  /\ t.fs.bufpos = 0

(* create_file does that or changes nothing.                               *)
LEMMA CreateDoes ==
  ASSUME NEW s \in MemType, NEW id, NEW rec, NEW ok
  PROVE  CreateFile(s, id, rec, ok) = s \/ Created(s, CreateFile(s, id, rec, ok), id, rec)
<1> DEFINE t == CreateFile(s, id, rec, ok)
           d == [rec |-> rec, id |-> id, start |-> s.fs.nextStart, size |-> EmptyWord]
           u == WriteDescriptor(s, s.fs.nextSlot, d)
           f == [NoFile EXCEPT !.open = TRUE, !.write = TRUE, !.rec = rec]
<1>1. CASE s.fs.full \/ CreateResult(s, ok) # "OK"
  BY <1>1 DEF CreateFile, Create
<1>2. CASE ~s.fs.full /\ CreateResult(s, ok) = "OK"
  <2>1. ~s.fs.open
    BY <1>2 DEF CreateResult
  <2>2. t = [u EXCEPT !.fs = [@ EXCEPT !.open = TRUE, !.bufpos = 0], !.file = f]
    BY <1>2 DEF CreateFile, Create
  <2>3. s.flash \in FlashType /\ s.fs \in FsType
    BY DEF MemType
  <2>4. f.open /\ f.write /\ f.rec = rec /\ f.size = 0
    BY DEF NoFile
  <2> HIDE DEF d, f, t
  <2>5. CASE s.fs.nextSlot \in Slot
    <3>1. u = [s EXCEPT !.flash.table[s.fs.nextSlot] = d]
      BY <2>5, Zenon DEF WriteDescriptor
    <3> HIDE DEF u
    <3>2. t.flash.marker = s.flash.marker /\ t.flash.pages = s.flash.pages
          /\ t.flash.table = [s.flash.table EXCEPT ![s.fs.nextSlot] = d]
          /\ t.file = f /\ t.fs.bufpos = 0
      BY <2>2, <2>3, <3>1 DEF MemType, FlashType, FsType
    <3> QED BY <1>2, <2>1, <2>4, <2>5, <3>2 DEF Created, Strayed, d, t
  <2>6. CASE s.fs.nextSlot \notin Slot
    <3>1. u = [s EXCEPT !.flash.pages[FirstPage] = @ \cup {StrayDescriptor}]
      BY <2>6, Zenon DEF WriteDescriptor
    <3> HIDE DEF u
    <3>2. t.flash.marker = s.flash.marker /\ t.flash.table = s.flash.table
          /\ t.flash.pages = [s.flash.pages EXCEPT ![FirstPage] = @ \cup {StrayDescriptor}]
          /\ t.file = f /\ t.fs.bufpos = 0
      BY <2>2, <2>3, <3>1 DEF MemType, FlashType, FsType
    <3>3. Strayed(t)
      BY <2>3, <3>2, MyFsAssumption DEF Strayed, FlashType, DataPage
    <3> QED BY <1>2, <2>1, <2>4, <2>6, <3>2, <3>3 DEF Created, t
  <2> QED BY <2>5, <2>6
<1> QED BY <1>1, <1>2

(* write_data adds a sample to the open record, in the buffer or with a    *)
(* page on the flash.                                                      *)
Wrote(s, t) ==
  /\ s.file.open /\ s.file.write
  /\ t.flash.marker = s.flash.marker /\ t.flash.table = s.flash.table
  /\ Strayed(t) <=> Strayed(s)
  /\ t.file.open /\ t.file.write /\ t.file.rec = s.file.rec
  /\ t.file.size + t.fs.bufpos = s.file.size + s.fs.bufpos + Chunk
  /\ Aligned(t) <=> Aligned(s)

(* write_data adds a sample or changes nothing.                            *)
LEMMA WriteDoes ==
  ASSUME NEW s, NEW n, MemInv(s, n), NEW ok
  PROVE  WriteData(s, ok) = s \/ Wrote(s, WriteData(s, ok))
<1> DEFINE t == WriteData(s, ok)
<1>0. /\ s \in MemType /\ s.fs \in FsType /\ s.file \in FileType /\ s.flash \in FlashType
      /\ s.fs.bufpos \in Nat /\ s.file.size \in Nat /\ Chunk \in Nat /\ PageSize \in Nat \ {0}
  BY MyFsAssumption DEF MemInv, MemType, FsType, FileType
<1>1. CASE s.fs.full \/ WriteResult(s, ok) # "OK"
  BY <1>1 DEF WriteData, Write
<1>2. CASE ~s.fs.full /\ WriteResult(s, ok) = "OK" /\ PageSize - s.fs.bufpos > Chunk
  <2>1. s.file.open /\ s.file.write
    BY <1>2 DEF WriteResult
  <2>2. t = [s EXCEPT !.fs.bufpos = s.fs.bufpos + Chunk]
    BY <1>2 DEF WriteData, Write
  <2>3. t.flash = s.flash /\ t.file = s.file /\ t.fs.bufpos = s.fs.bufpos + Chunk
    BY <1>0, <2>2 DEF MemType, FsType
  <2> HIDE DEF t
  <2>4. Wrote(s, t)
    BY <1>0, <2>1, <2>3 DEF Wrote, Aligned, Strayed
  <2> QED BY <2>4 DEF t
<1>3. CASE ~s.fs.full /\ WriteResult(s, ok) = "OK" /\ ~(PageSize - s.fs.bufpos > Chunk)
  <2> DEFINE u == Program(s, ProgPage(s), s.file.size \div PageSize)
             w == s.flash.pages[ProgPage(s)] \cup {<<s.file.rec, s.file.size \div PageSize>>}
  <2>1. s.file.open /\ s.file.write /\ Aligned(s)
    BY <1>3 DEF WriteResult
  <2>2. t = [u EXCEPT !.fs.bufpos = @ + Chunk - PageSize, !.file.size = @ + PageSize]
    BY <1>3 DEF WriteData, Write
  <2>3. u = [s EXCEPT !.flash.pages[ProgPage(s)] = w]
    BY DEF Program
  <2> HIDE DEF t, u, w
  <2>4. /\ u.flash.marker = s.flash.marker /\ u.flash.table = s.flash.table
        /\ u.flash.pages = [s.flash.pages EXCEPT ![ProgPage(s)] = w]
        /\ u.fs = s.fs /\ u.file = s.file /\ DOMAIN u = DOMAIN s
    BY <1>0, <2>3 DEF MemType, FlashType
  <2>5. /\ t.flash = u.flash
        /\ t.fs = [u.fs EXCEPT !.bufpos = @ + Chunk - PageSize]
        /\ t.file = [u.file EXCEPT !.size = @ + PageSize]
    BY <2>2, <2>4 DEF MemType
  <2>6. /\ t.flash.marker = s.flash.marker /\ t.flash.table = s.flash.table
        /\ t.fs.bufpos = s.fs.bufpos + Chunk - PageSize
        /\ t.file.size = s.file.size + PageSize
        /\ t.file.open /\ t.file.write /\ t.file.rec = s.file.rec
    BY <1>0, <2>1, <2>4, <2>5 DEF FsType, FileType
  <2>7. Aligned(t)
    BY <1>0, <2>1, <2>6, WholePagesGrow DEF Aligned
  <2>8. t.file.size + t.fs.bufpos = s.file.size + s.fs.bufpos + Chunk
    BY <1>0, <2>6
  <2>9. Strayed(t) <=> Strayed(s)
    <3>1. ProgramsPage(s, t)
      BY <2>4, <2>5 DEF ProgramsPage, PageOfWriter, w
    <3> QED BY <2>1, <3>1, ProgramsNoDescriptor
  <2> QED BY <2>1, <2>6, <2>7, <2>8, <2>9 DEF Wrote, t
<1> QED BY <1>1, <1>2, <1>3

(* close_file lets a file go that was read; one that was written gets its  *)
(* last page, and then its size if that can be programmed.                 *)
Released(s, t) ==
  /\ s.file.open /\ ~s.file.write
  /\ t.flash = s.flash /\ t.file = NoFile

Flushed(s, t) ==
  /\ s.file.open /\ s.file.write /\ Aligned(s)
  /\ t.flash.marker = s.flash.marker /\ t.flash.table = s.flash.table
  /\ Strayed(t) <=> Strayed(s)
  /\ t.file = [s.file EXCEPT !.size = s.file.size + s.fs.bufpos]
  /\ t.fs.bufpos = s.fs.bufpos

Completed(s, t) ==
  /\ s.file.open /\ s.file.write /\ Aligned(s)
  /\ s.fs.nextSlot \in Slot /\ Written(s, s.fs.nextSlot)
  /\ t.flash.marker = s.flash.marker
  /\ Strayed(t) <=> Strayed(s)
  /\ t.flash.table = [s.flash.table EXCEPT ![s.fs.nextSlot] =
       [s.flash.table[s.fs.nextSlot] EXCEPT !.size = s.file.size + s.fs.bufpos]]
  /\ t.file = NoFile

(* close_file does one of these or changes nothing.                        *)
LEMMA CloseDoes ==
  ASSUME NEW s, NEW n, MemInv(s, n), NEW ok
  PROVE  \/ CloseFile(s, ok) = s
         \/ Released(s, CloseFile(s, ok))
         \/ Flushed(s, CloseFile(s, ok))
         \/ Completed(s, CloseFile(s, ok))
<1> DEFINE t == CloseFile(s, ok)
           u == FlushLastPage(s)
           i == s.fs.nextSlot
<1>0. s \in MemType /\ s.file \in FileType /\ s.fs \in FsType /\ s.flash \in FlashType
  BY DEF MemInv, MemType
<1>1. CASE ~s.file.open
  BY <1>1 DEF CloseFile, Close
<1>2. CASE s.file.open /\ ~s.file.write
  <2>1. t = [s EXCEPT !.file = NoFile, !.fs.open = FALSE]
    BY <1>2 DEF CloseFile, Close
  <2>2. t.flash = s.flash /\ t.file = NoFile
    BY <1>0, <2>1 DEF MemType
  <2> HIDE DEF t
  <2>3. Released(s, t)
    BY <1>2, <2>2 DEF Released
  <2> QED BY <2>3 DEF t
<1>3. CASE s.file.open /\ s.file.write /\ ~(i \in Slot /\ Written(s, i) /\ Aligned(s))
  BY <1>3, Zenon DEF CloseFile, Close
<1>4. CASE s.file.open /\ s.file.write /\ i \in Slot /\ Written(s, i) /\ Aligned(s)
  <2>1. /\ u \in MemType /\ u.fs = s.fs /\ u.flash.table = s.flash.table
        /\ u.file = [s.file EXCEPT !.size = s.file.size + s.fs.bufpos]
        /\ ProgramsPage(s, u)
    BY <1>4, FlushType DEF ProgramsPage
  <2>5. Strayed(u) <=> Strayed(s)
    BY <1>4, <2>1, ProgramsNoDescriptor
  <2>2. u.flash.marker = s.flash.marker /\ u.file.size = s.file.size + s.fs.bufpos
    <3>1. u.flash.marker = s.flash.marker
      BY <1>0 DEF FlushLastPage, Program, MemType, FlashType
    <3>2. u.file.size = s.file.size + s.fs.bufpos
      <4> HIDE DEF u
      <4> QED BY <1>0, <2>1 DEF FileType
    <3> QED BY <3>1, <3>2
  <2>3. CASE ~ok
    <3>1. t = u
      BY <1>4, <2>3, Zenon DEF CloseFile, Close
    <3> HIDE DEF t, u
    <3>2. Flushed(s, t)
      BY <1>4, <2>1, <2>2, <2>5, <3>1 DEF Flushed
    <3> QED BY <3>2 DEF t
  <2>4. CASE ok
    <3> DEFINE d == [u.flash.table[u.fs.nextSlot] EXCEPT !.size = u.file.size]
               v == WriteDescriptor(u, u.fs.nextSlot, d)
    <3>1. t = Complete(u)
      BY <1>4, <2>4, Zenon DEF CloseFile, Close
    <3> HIDE DEF t, u
    <3>2. t.flash = v.flash /\ t.file = NoFile
      <4>1. v \in [flash : {v.flash}, fs : {u.fs}, file : {u.file}, list : {u.list}]
        <5>1. v = [u EXCEPT !.flash.table[u.fs.nextSlot] = d]
          BY <1>4, <2>1, Zenon DEF WriteDescriptor
        <5> HIDE DEF v, d
        <5> QED BY <2>1, <5>1 DEF MemType
      <4> HIDE DEF v
      <4> QED BY <3>1, <4>1 DEF Complete, v
    <3>3. v = [u EXCEPT !.flash.table[i] = d]
      BY <1>4, <2>1, Zenon DEF WriteDescriptor
    <3>4. d = [s.flash.table[i] EXCEPT !.size = s.file.size + s.fs.bufpos]
      BY <2>1, <2>2
    <3> HIDE DEF v, d
    <3>5. /\ v.flash.marker = s.flash.marker /\ v.flash.pages = u.flash.pages
          /\ v.flash.table = [s.flash.table EXCEPT ![i] = d]
      <4>1. u.flash \in FlashType
        BY <2>1 DEF MemType
      <4> QED BY <2>1, <2>2, <3>3, <4>1 DEF MemType, FlashType
    <3>6. Completed(s, t)
      BY <1>4, <2>5, <3>2, <3>4, <3>5 DEF Completed, Strayed
    <3> QED BY <3>6 DEF t
  <2> QED BY <2>3, <2>4
<1> QED BY <1>1, <1>2, <1>3, <1>4

----------------------------------------------------------------------------
(* The calls as steps of RecordStore                                       *)

(* What was spoilt cannot be spoilt again.                                 *)
LEMMA SpoiltTwice ==
  ASSUME NEW rec, NEW size \in Nat
  PROVE  [SpoiltEntry(rec, size) EXCEPT !.content = WithDescriptor(@)] = SpoiltEntry(rec, size)
<1> DEFINE c == WholePages(rec, size)
           a == WithDescriptor(c)
           m == size \div PageSize
           e == Entry(rec, size)
<1>1. m \in Nat
  BY DivDef
<1>2. c = [k \in 0 .. m |-> {<<rec, k>>}]
  BY DEF WholePages
<1>3. a = [c EXCEPT ![0] = @ \cup {StrayDescriptor}]
  BY DEF WithDescriptor
<1>4. WithDescriptor(a) = [a EXCEPT ![0] = @ \cup {StrayDescriptor}]
  BY DEF WithDescriptor
<1> HIDE DEF a, c, m
<1>5. WithDescriptor(a) = a
  <2>1. a[0] = c[0] \cup {StrayDescriptor}
    BY <1>1, <1>2, <1>3
  <2>2. a[0] \cup {StrayDescriptor} = a[0]
    BY <2>1
  <2>3. a = [k \in 0 .. m |-> a[k]]
    BY <1>2, <1>3
  <2>4. WithDescriptor(a) = [a EXCEPT ![0] = a[0]]
    BY <1>4, <2>2
  <2> QED BY <2>3, <2>4
<1>6. SpoiltEntry(rec, size) = [rec |-> rec, size |-> size, content |-> a]
  BY DEF SpoiltEntry, Entry, a, c
<1> QED BY <1>5, <1>6

(* A record begins with nothing in it; without a slot it begins beyond the *)
(* list and spoils its first record.                                       *)
LEMMA CreateSteps ==
  ASSUME NEW s, NEW n, MemInv(s, n), s.fs.nextSlot > 0,
         NEW t, NEW id, NEW rec, Created(s, t, id, rec)
  PROVE  (Begins(s, t, rec) \/ BeginsBeyond(s, t, rec)) /\ KeepsRecords(s, t)
<1>1. s \in MemType /\ TableShape(s, n) /\ Ram(s, n) /\ s.flash \in FlashType
  BY DEF MemInv, MemType
<1>2. OpenIn(s) = {}
  BY <1>1, NothingOpen DEF Created, Ram
<1>3. OpenIn(t) = {[rec |-> rec, bytes |-> 0]}
  BY NoWholePage DEF OpenIn, Created, Aligned
<1>6. PointersAt(s, n) /\ n \in 0 .. Slots - 1
  BY <1>1 DEF Created, Ram, TableShape
<1>7. Len(SavedIn(s)) = n /\ ClosedSlots(s) = 1 .. n /\ s.fs.nextSlot = n + 1
  BY <1>1, <1>6, SavedLength, ClosedSlotsAre DEF PointersAt
<1>4. CASE s.fs.nextSlot \notin Slot
  <2>1. /\ t.flash.table = s.flash.table /\ t.flash.marker = s.flash.marker
        /\ Strayed(t) /\ KeepsRecords(s, t)
    BY <1>4, SameTableKeeps DEF Created
  <2>2. n = Slots - 1 /\ n \in Nat /\ 1 \in 1 .. n
    BY <1>4, <1>6, <1>7, SlotsEven DEF Slot
  <2>3. ClosedSlots(t) = 1 .. n /\ \A i : RecOf(t, i) = RecOf(s, i) /\ SizeOf(t, i) = SizeOf(s, i)
    BY <1>7, <2>1 DEF ClosedSlots, Written, Closed, RecOf, SizeOf
  <2> DEFINE f == SavedIn(s)
             g == SavedIn(t)
             e == SpoiltEntry(RecOf(s, 1), SizeOf(s, 1))
  <2>4. /\ f = [i \in 1 .. n |-> EntryAt(s, i)]
        /\ g = [i \in 1 .. n |-> EntryAt(t, i)]
    BY <1>7, <2>3 DEF SavedIn
  <2>5. g[1] = e
    BY <2>1, <2>2, <2>3, <2>4 DEF EntryAt
  <2>6. [f[1] EXCEPT !.content = WithDescriptor(@)] = e
    <3>1. SizeOf(s, 1) \in Nat
      <4>1. SizeOf(s, 1) \in Nat \cup {EmptyWord}
        BY <1>1, <2>2, SlotFacts
      <4>2. SizeOf(s, 1) # EmptyWord
        BY <1>7, <2>2 DEF ClosedSlots, Closed, SizeOf
      <4> QED BY <4>1, <4>2
    <3>2. f[1] = EntryAt(s, 1)
      BY <2>2, <2>4
    <3> HIDE DEF f
    <3>3. CASE Strayed(s)
      <4>1. f[1] = e
        BY <3>2, <3>3 DEF EntryAt
      <4> QED BY <3>1, <4>1, SpoiltTwice
    <3>4. CASE ~Strayed(s)
      BY <3>2, <3>4 DEF EntryAt, SpoiltEntry
    <3> QED BY <3>3, <3>4
  <2>7. ASSUME NEW i \in 1 .. n, i # 1 PROVE g[i] = f[i]
    BY <2>3, <2>4, <2>7 DEF EntryAt
  <2> HIDE DEF f, g, e
  <2>8. g = [f EXCEPT ![1] = e]
    BY <2>2, <2>4, <2>5, <2>7
  <2>9. BeginsBeyond(s, t, rec)
    BY <1>2, <1>3, <1>7, <2>2, <2>6, <2>8 DEF BeginsBeyond, f, g
  <2> QED BY <2>1, <2>9
<1>5. CASE s.fs.nextSlot \in Slot
  <2> DEFINE i == s.fs.nextSlot
             d == [rec |-> rec, id |-> id, start |-> s.fs.nextStart, size |-> EmptyWord]
  <2>1. i \in Slot /\ t.flash.table = [s.flash.table EXCEPT ![i] = d] /\ ~s.fs.open /\ ~s.fs.full
        /\ t.flash.marker = s.flash.marker /\ (Strayed(t) <=> Strayed(s))
    BY <1>5 DEF Created
  <2>2. i = n + 1
    BY <1>1, <2>1 DEF Ram, PointersAt, Slot
  <2>3. RecOf(s, i) = 0
    BY <1>1, <2>1, <2>2 DEF TableShape
  <2>4. t.flash.table[i].size = EmptyWord /\ \A j \in Slot : j # i => t.flash.table[j] = s.flash.table[j]
    BY <1>1, <2>1 DEF FlashType
  <2>5. ClosedSlots(t) = ClosedSlots(s)
    <3>1. ASSUME NEW j \in Slot
          PROVE  Written(t, j) /\ Closed(t, j) <=> Written(s, j) /\ Closed(s, j)
      BY <2>3, <2>4 DEF Written, Closed, RecOf
    <3> QED BY <3>1 DEF ClosedSlots
  <2>6. \A j \in ClosedSlots(s) : RecOf(t, j) = RecOf(s, j) /\ SizeOf(t, j) = SizeOf(s, j)
    BY <2>3, <2>4 DEF ClosedSlots, Written, RecOf, SizeOf
  <2>7. SavedIn(t) = SavedIn(s)
    BY <2>1, <2>5, <2>6 DEF SavedIn, EntryAt
  <2>8. KeepsRecords(s, t)
    BY <2>1, <2>3, <2>4 DEF KeepsRecords, Written, Closed, RecOf
  <2>9. Len(SavedIn(s)) < Slots - 1
    BY <1>6, <1>7, <2>1, SlotsEven DEF Slot
  <2> QED BY <1>2, <1>3, <2>7, <2>8, <2>9 DEF Begins
<1> QED BY <1>4, <1>5

(* A sample is added to the open record; what is written behind a record   *)
(* whose closing failed is not part of any.                                *)
LEMMA WriteSteps ==
  ASSUME NEW s \in MemType, NEW t, Wrote(s, t)
  PROVE  (AddsSample(s, t) \/ Rests(s, t)) /\ KeepsRecords(s, t)
<1>1. SavedIn(t) = SavedIn(s) /\ KeepsRecords(s, t)
  BY SameTableSaved, SameTableKeeps DEF Wrote
<1>2. CASE Aligned(s)
  <2> DEFINE w == [rec |-> s.file.rec, bytes |-> s.file.size + s.fs.bufpos]
  <2>1. OpenIn(s) = {w}
    BY <1>2 DEF OpenIn, Wrote
  <2>2. OpenIn(t) = {[rec |-> s.file.rec, bytes |-> s.file.size + s.fs.bufpos + Chunk]}
    BY <1>2 DEF OpenIn, Wrote
  <2>3. [w EXCEPT !.bytes = @ + Chunk]
          = [rec |-> s.file.rec, bytes |-> s.file.size + s.fs.bufpos + Chunk]
    OBVIOUS
  <2> HIDE DEF w
  <2> QED BY <1>1, <2>1, <2>2, <2>3 DEF AddsSample
<1>3. CASE ~Aligned(s)
  BY <1>1, <1>3 DEF OpenIn, Wrote, Rests
<1> QED BY <1>2, <1>3

(* A file that was read, or a page that was flushed, changes no record:    *)
(* the one being written is lost unless there was nothing to flush.        *)
LEMMA FlushSteps ==
  ASSUME NEW s \in MemType, NEW t, Released(s, t) \/ Flushed(s, t)
  PROVE  (Rests(s, t) \/ Abandons(s, t)) /\ KeepsRecords(s, t)
<1>1. SavedIn(t) = SavedIn(s) /\ KeepsRecords(s, t)
  BY SameTableSaved, SameTableKeeps DEF Released, Flushed, Strayed
<1>2. CASE Released(s, t)
  <2>1. OpenIn(t) = {}
    BY <1>2, NothingOpen DEF Released, NoFile
  <2> QED BY <1>1, <2>1 DEF Abandons
<1>3. CASE Flushed(s, t)
  <2>1. /\ s.fs.bufpos \in 0 .. PageSize - 1 /\ s.file.size \in Nat /\ s.file \in FileType
        /\ s.file.size % PageSize = 0 /\ PageSize \in Nat \ {0}
    BY <1>3, MyFsAssumption DEF MemType, FsType, FileType, Flushed, Aligned
  <2>2. t.file.size = s.file.size + s.fs.bufpos /\ t.fs.bufpos = s.fs.bufpos
    BY <1>3, <2>1 DEF Flushed, FileType
  <2>3. CASE s.fs.bufpos = 0
    <3>0. t.file = [s.file EXCEPT !.size = s.file.size] /\ s.file \in FileType
      <4>1. t.file = [s.file EXCEPT !.size = s.file.size + s.fs.bufpos]
        BY <1>3 DEF Flushed
      <4>2. s.file.size + s.fs.bufpos = s.file.size
        BY <2>1, <2>3
      <4> QED BY <2>1, <4>1, <4>2
    <3>1. t.file = s.file
      BY <3>0 DEF FileType
    <3> QED BY <1>1, <2>2, <3>1, SameOpen DEF Rests
  <2>4. CASE s.fs.bufpos # 0
    <3>1. s.file.size = PageSize * (s.file.size \div PageSize) /\ s.file.size \div PageSize \in Nat
      BY <2>1, DivDef
    <3>2. (s.file.size + s.fs.bufpos) % PageSize = s.fs.bufpos
      <4> DEFINE q == s.file.size \div PageSize
      <4>1. q \in Nat /\ s.file.size = PageSize * q
        BY <3>1
      <4> HIDE DEF q
      <4>2. (PageSize * q + s.fs.bufpos) % PageSize = s.fs.bufpos
        BY <2>1, <4>1, DivUnique
      <4> QED BY <4>1, <4>2
    <3>3. OpenIn(t) = {}
      BY <2>2, <2>4, <3>2 DEF OpenIn, Aligned
    <3> QED BY <1>1, <3>3 DEF Abandons
  <2> QED BY <2>3, <2>4
<1> QED BY <1>2, <1>3

(* A list with one element more is the list with that element appended.    *)
LEMMA ListGrows ==
  ASSUME NEW n \in Nat \ {0}, NEW S, NEW f \in [1 .. n - 1 -> S], NEW g \in [1 .. n -> S],
         \A i \in 1 .. n - 1 : g[i] = f[i]
  PROVE  g = Append(f, g[n])
<1>1. f \in Seq(S) /\ Len(f) = n - 1 /\ g \in Seq(S) /\ Len(g) = n /\ g[n] \in S
  BY Z3
<1>2. /\ Append(f, g[n]) \in Seq(S) /\ Len(Append(f, g[n])) = n
      /\ \A i \in 1 .. n - 1 : Append(f, g[n])[i] = f[i]
      /\ Append(f, g[n])[n] = g[n]
  BY <1>1, AppendProperties
<1>3. \A i \in 1 .. n : g[i] = Append(f, g[n])[i]
  <2>1. ASSUME NEW i \in 1 .. n PROVE i = n \/ i \in 1 .. n - 1
    OBVIOUS
  <2> QED BY <1>2, <2>1
<1>4. Len(g) = Len(Append(f, g[n])) /\ \A i \in 1 .. Len(g) : g[i] = Append(f, g[n])[i]
  BY <1>1, <1>2, <1>3, Zenon
<1> QED BY <1>1, <1>2, <1>4, SeqEqual

(* The record that is closed joins the list with what was written to it.   *)
LEMMA CompleteSteps ==
  ASSUME NEW s, NEW n, MemInv(s, n), NEW t, MemInv(t, n), Completed(s, t)
  PROVE  SavesRecord(s, t) /\ KeepsRecords(s, t)
<1> DEFINE sz == s.file.size + s.fs.bufpos
           d  == [s.flash.table[n] EXCEPT !.size = sz]
<1>0. /\ s \in MemType /\ TableShape(s, n) /\ TableShape(t, n) /\ Writing(s, n)
      /\ n \in 0 .. Slots - 1 /\ s.flash \in FlashType /\ s.file.rec # 0
      /\ s.file.size \in Nat /\ s.fs.bufpos \in Nat
  BY MyFsAssumption DEF MemInv, TableShape, MemType, FileType, FsType, Writing, Completed
<1>1. WritesLast(s, n)
  BY <1>0, SlotsEven DEF Writing, WritesNowhere, Completed, Slot
<1>2. /\ UnclosedAt(s, n) /\ RecOf(s, n) = s.file.rec /\ n \in Slot /\ n \in 1 .. n
      /\ s.fs.nextSlot = n
  BY <1>0, <1>1, SlotsEven DEF WritesLast, UnclosedAt, Slot
<1>3. /\ t.flash.table = [s.flash.table EXCEPT ![n] = d] /\ t.flash.marker = s.flash.marker
      /\ t.file = NoFile /\ Aligned(s)
  BY <1>2 DEF Completed
<1>4. sz \in Nat /\ sz # EmptyWord
  BY <1>0 DEF EmptyWord
<1>5. d.rec = s.flash.table[n].rec /\ d.size = sz
  <2>1. s.flash.table[n] \in
          [rec : Record, id : Ids, start : FirstPage .. Pages - 1, size : Nat \cup {EmptyWord}]
    BY <1>0, <1>2 DEF FlashType, Descriptor, ErasedSlot, RecOf
  <2> HIDE DEF sz
  <2> QED BY <2>1
<1> HIDE DEF d, sz
<1>6. t.flash.table[n] = d /\ \A j \in Slot : j # n => t.flash.table[j] = s.flash.table[j]
  BY <1>0, <1>2, <1>3 DEF FlashType
<1>7. KeepsRecords(s, t)
  BY <1>3, <1>4, <1>5, <1>6 DEF KeepsRecords, Written, Closed
<1>8. OpenIn(s) = {[rec |-> RecOf(s, n), bytes |-> sz]}
  BY <1>2, <1>3 DEF OpenIn, Completed, sz
<1>9. OpenIn(t) = {}
  BY <1>3, NothingOpen DEF NoFile
<1>10. RecOf(t, n) = RecOf(s, n) /\ SizeOf(t, n) = sz
       /\ \A i \in 1 .. n - 1 : RecOf(t, i) = RecOf(s, i) /\ SizeOf(t, i) = SizeOf(s, i)
  <2>1. \A i \in 1 .. n - 1 : i \in Slot /\ i # n
    BY <1>0, SlotsEven DEF Slot
  <2> QED BY <1>5, <1>6, <2>1 DEF RecOf, SizeOf
<1>11. ClosedSlots(s) = 1 .. n - 1 /\ ClosedSlots(t) = 1 .. n
  <2>1. ~UnclosedAt(t, n)
    BY <1>4, <1>10 DEF UnclosedAt
  <2> QED BY <1>0, <1>2, <2>1, ClosedSlotsAre
<1>12. SavedIn(t) = Append(SavedIn(s), Entry(RecOf(s, n), sz))
  <2> DEFINE f == SavedIn(s)
             g == SavedIn(t)
             S == {g[i] : i \in 1 .. n}
  <2>1. /\ f = [i \in 1 .. n - 1 |-> Entry(RecOf(s, i), SizeOf(s, i))]
        /\ g = [i \in 1 .. n |-> Entry(RecOf(t, i), SizeOf(t, i))]
    <3>1. ~Strayed(s) /\ ~Strayed(t)
      BY <1>2, NothingStrayed DEF Completed
    <3> QED BY <1>11, <3>1 DEF SavedIn, EntryAt
  <2>2. n \in Nat \ {0}
    BY <1>0, <1>2
  <2> HIDE DEF f, g
  <2>3. /\ \A i \in 1 .. n - 1 : g[i] = f[i] /\ f[i] = Entry(RecOf(s, i), SizeOf(s, i))
        /\ g[n] = Entry(RecOf(s, n), sz)
    BY <1>10, <2>1, <2>2
  <2>4. f \in [1 .. n - 1 -> S] /\ g \in [1 .. n -> S]
    <3>1. \A i \in 1 .. n - 1 : i \in 1 .. n
      BY <2>2
    <3>2. \A i \in 1 .. n : g[i] \in S
      BY Zenon
    <3> HIDE DEF S
    <3> QED BY <2>1, <2>3, <3>1, <3>2
  <2> HIDE DEF S
  <2>5. g = Append(f, g[n])
    BY <2>2, <2>3, <2>4, ListGrows
  <2> QED BY <2>3, <2>5 DEF f, g
<1>13. Len(SavedIn(s)) < Slots - 1
  BY <1>0, <1>2, SavedLength, SlotsEven
<1> QED BY <1>7, <1>8, <1>9, <1>12, <1>13 DEF SavesRecord

(* close_file.                                                             *)
LEMMA CloseSteps ==
  ASSUME NEW s, NEW n, MemInv(s, n), FirstRecordGuarded(s, n), NEW ok
  PROVE  /\ \/ Rests(s, CloseFile(s, ok))
            \/ Abandons(s, CloseFile(s, ok))
            \/ SavesRecord(s, CloseFile(s, ok))
         /\ KeepsRecords(s, CloseFile(s, ok))
<1> DEFINE t == CloseFile(s, ok)
<1>1. MemInv(t, n) /\ s \in MemType
  BY CloseFileKeeps DEF MemInv
<1>2. t = s \/ Released(s, t) \/ Flushed(s, t) \/ Completed(s, t)
  BY CloseDoes
<1> HIDE DEF t
<1>3. (Rests(s, t) \/ Abandons(s, t) \/ SavesRecord(s, t)) /\ KeepsRecords(s, t)
  <2>1. CASE t = s
    BY <2>1 DEF Rests, KeepsRecords
  <2>2. CASE Released(s, t) \/ Flushed(s, t)
    BY <1>1, <2>2, FlushSteps
  <2>3. CASE Completed(s, t)
    BY <1>1, <2>3, CompleteSteps
  <2> QED BY <1>2, <2>1, <2>2, <2>3
<1> QED BY <1>3 DEF t

----------------------------------------------------------------------------
(* Mounting and formatting                                                 *)

(* An erased table holds no record.                                        *)
LEMMA ErasedSaves ==
  ASSUME NEW s, s.flash.table = [i \in Slot |-> ErasedSlot]
  PROVE  SavedIn(s) = <<>> /\ \A i \in Slot : ~Written(s, i)
<1>1. \A i \in Slot : ~Written(s, i)
  BY DEF Written, ErasedSlot
<1>2. ClosedSlots(s) = {}
  BY <1>1 DEF ClosedSlots
<1>3. SavedIn(s) = [i \in {} |-> EntryAt(s, i)]
  BY <1>2 DEF SavedIn
<1>4. DOMAIN SavedIn(s) = 1 .. 0
  BY <1>3
<1> DEFINE f == SavedIn(s)
<1>5. f \in [1 .. 0 -> {}]
  BY <1>3, <1>4
<1> HIDE DEF f
<1>6. f \in Seq({}) /\ Len(f) = 0
  BY <1>5, Z3
<1>7. f = <<>>
  BY <1>6, EmptySeq
<1> QED BY <1>1, <1>7 DEF f

(* init_fs formats a marked, unmounted flash only if the last record is    *)
(* unclosed; otherwise it keeps the flash.  The marker is there afterwards. *)
LEMMA InitFsDoes ==
  ASSUME NEW s, NEW n, MemInv(s, n)
  PROVE  /\ InitFs(s).flash.marker
         /\ \/ InitFs(s).flash = s.flash
            \/ /\ InitFs(s).flash.table = [i \in Slot |-> ErasedSlot]
               /\ s.fs.mounted \/ ~s.flash.marker \/ LastUnclosed(s)
<1>1. s \in MemType /\ TableShape(s, n) /\ Extents(s, n) /\ s.flash.marker \in BOOLEAN
  BY DEF MemInv, FlashInv, MemType, FlashType
<1>2. CASE InitFormats(s)
  <2> DEFINE f == Format(s)
             u == Mount(f)
  <2>1. Formatted(s, f)
    BY <1>1, FormatIs
  <2>2. u.flash = f.flash /\ u \in MemType
    BY <1>1, <2>1, FormattedMounts
  <2>3. InitFs(s) = u \/ InitFs(s) = [u EXCEPT !.list.needed = FALSE, !.file = NoFile]
    BY <1>2 DEF InitFs
  <2> HIDE DEF f, u
  <2>4. InitFs(s).flash = f.flash
    BY <2>2, <2>3 DEF MemType
  <2>5. s.fs.mounted \/ ~s.flash.marker \/ LastUnclosed(s)
    BY <1>2, Zenon DEF InitFormats, MountResult, RepairResult
  <2> QED BY <2>1, <2>4, <2>5 DEF Formatted
<1>3. CASE ~InitFormats(s)
  <2> DEFINE u == Mount(s)
  <2>1. u.flash = s.flash /\ u \in MemType
    BY <1>1, MountType
  <2>2. InitFs(s) = u \/ InitFs(s) = [u EXCEPT !.list.needed = FALSE, !.file = NoFile]
    BY <1>3 DEF InitFs
  <2>3. s.flash.marker
    BY <1>3, Zenon DEF InitFormats, MountResult
  <2> HIDE DEF u
  <2>4. InitFs(s).flash = s.flash
    BY <2>1, <2>2 DEF MemType
  <2> QED BY <2>3, <2>4
<1> QED BY <1>2, <1>3

(* deinit_fs closes the file or forgets it.                                *)
LEMMA DeinitSteps ==
  ASSUME NEW s, NEW n, MemInv(s, n), FirstRecordGuarded(s, n), NEW ok
  PROVE  /\ Abandons(s, DeinitFs(s, ok)) \/ SavesRecord(s, DeinitFs(s, ok))
         /\ KeepsRecords(s, DeinitFs(s, ok))
         /\ ~DeinitFs(s, ok).fs.mounted
<1> DEFINE u == CloseFile(s, ok)
           t == DeinitFs(s, ok)
<1>1. /\ Rests(s, u) \/ Abandons(s, u) \/ SavesRecord(s, u)
      /\ KeepsRecords(s, u)
  BY CloseSteps
<1>2. u \in MemType
  BY CloseFileKeeps DEF MemInv
<1>3. t = [u EXCEPT !.file = NoFile, !.fs.mounted = FALSE]
  BY DEF DeinitFs, Unmount
<1> HIDE DEF u, t
<1>4. t.flash = u.flash /\ t.file = NoFile /\ ~t.fs.mounted
  BY <1>2, <1>3 DEF MemType, FsType
<1>5. SavedIn(t) = SavedIn(u) /\ OpenIn(t) = {}
  BY SMTT(30), <1>4, SameTableSaved, NothingOpen DEF NoFile, Strayed
<1>6. KeepsRecords(s, t)
  BY <1>1, <1>4 DEF KeepsRecords, Written, Closed
<1>7. Abandons(s, t) \/ SavesRecord(s, t)
  BY <1>1, <1>5 DEF Rests, Abandons, SavesRecord
<1> QED BY <1>4, <1>6, <1>7 DEF t

(* A change of owner closes, forgets or wipes; it wipes only if the last   *)
(* record was unclosed before.                                             *)
LEMMA OwnerSteps ==
  ASSUME NEW s, NEW n, MemInv(s, n), FirstRecordGuarded(s, n), NEW ok
  PROVE  /\ \/ Abandons(s, InitFs(DeinitFs(s, ok)))
            \/ SavesRecord(s, InitFs(DeinitFs(s, ok)))
            \/ Wipes(s, InitFs(DeinitFs(s, ok)))
         /\ InitFs(DeinitFs(s, ok)).flash.marker
         /\ s.flash.marker => \/ KeepsRecords(s, InitFs(DeinitFs(s, ok)))
                              \/ LastUnclosed(s)
<1> DEFINE d == DeinitFs(s, ok)
           t == InitFs(d)
<1>1. MemInv(d, n) /\ FirstRecordGuarded(d, n) /\ d.file = NoFile
  BY DeinitFsKeeps
<1>2. (Abandons(s, d) \/ SavesRecord(s, d)) /\ KeepsRecords(s, d) /\ ~d.fs.mounted
  BY DeinitSteps
<1> HIDE DEF d
<1>3. /\ t.flash.marker
      /\ \/ t.flash = d.flash
         \/ t.flash.table = [i \in Slot |-> ErasedSlot] /\ (~d.flash.marker \/ LastUnclosed(d))
  BY <1>1, <1>2, InitFsDoes
<1>4. t.file = NoFile
  BY <1>1, InitFsKeeps
<1>5. OpenIn(t) = {}
  BY <1>4, NothingOpen DEF NoFile
<1> HIDE DEF t
<1>6. CASE t.flash = d.flash
  <2>1. SavedIn(t) = SavedIn(d)
    BY <1>6, SameTableSaved DEF Strayed
  <2>2. Abandons(s, t) \/ SavesRecord(s, t)
    BY <1>2, <1>5, <2>1 DEF Abandons, SavesRecord
  <2>3. KeepsRecords(s, t)
    BY <1>2, <1>6 DEF KeepsRecords, Written, Closed
  <2> QED BY <1>3, <2>2, <2>3 DEF t, d
<1>7. CASE t.flash.table = [i \in Slot |-> ErasedSlot] /\ (~d.flash.marker \/ LastUnclosed(d))
  <2>1. Wipes(s, t)
    BY <1>5, <1>7, ErasedSaves DEF Wipes
  <2>2. ASSUME s.flash.marker PROVE LastUnclosed(s)
    <3>1. d.flash.marker
      BY <1>2, <2>2 DEF KeepsRecords
    <3>2. UnclosedAt(d, n) /\ TableShape(d, n) /\ TableShape(s, n) /\ n \in Slot
      <4>1. TableShape(d, n) /\ TableShape(s, n)
        BY <1>1 DEF MemInv
      <4>2. UnclosedAt(d, n)
        BY <1>7, <3>1, <4>1, LastUnclosedIs
      <4>3. n \in Slot
        BY <4>1, <4>2, SlotsEven DEF UnclosedAt, TableShape, Slot
      <4> QED BY <4>1, <4>2, <4>3
    <3>3. RecOf(s, n) # 0
      BY <3>2 DEF TableShape
    <3>4. UnclosedAt(s, n)
      BY <1>2, <3>2, <3>3 DEF KeepsRecords, UnclosedAt, Closed, Written, RecOf, SizeOf
    <3> QED BY <3>2, <3>4, LastUnclosedIs
  <2> QED BY <1>3, <2>1, <2>2 DEF t, d
<1> QED BY <1>3, <1>6, <1>7
=============================================================================
