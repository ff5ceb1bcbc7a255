--------------------------- MODULE MemoryTaskInv ---------------------------
(***************************************************************************)
(* The inductive invariant of MemoryTask, as a conjunction of named parts. *)
(* s is the memory's state (mem of MemoryTask), n the number of slots of   *)
(* its descriptor table that are written.                                  *)
(***************************************************************************)
EXTENDS MemoryTask

SizeOf(s, i)  == s.flash.table[i].size
StartOf(s, i) == s.flash.table[i].start
RecOf(s, i)   == s.flash.table[i].rec
EndOf(s, i)   == StartOf(s, i) + PagesTaken(SizeOf(s, i))

(* The page behind n records.                                              *)
EndOfRecords(s, n) == IF n = 0 THEN FirstPage ELSE EndOf(s, n)

(* The written slots are the first n, only the last may be unclosed.       *)
TableShape(s, n) ==
  /\ n \in 0 .. Slots - 1
  /\ \A i \in Slot : RecOf(s, i) # 0 <=> i <= n
  /\ \A i \in 1 .. n - 1 : SizeOf(s, i) # EmptyWord

UnclosedAt(s, n) == n > 0 /\ SizeOf(s, n) = EmptyWord

(* Records lie one behind another.                                         *)
Extents(s, n) ==
  /\ n > 0 => StartOf(s, 1) = FirstPage
  /\ \A i, j \in 1 .. n : i < j => EndOf(s, i) <= StartOf(s, j)

(* What is programmed into page p belongs there: it is page w[2] of the    *)
(* record w[1].  Only when no slot is left, a record without a descriptor  *)
(* may have been written behind all others.                                *)
BelongsTo(s, i, p, w) ==
  /\ w[1] = RecOf(s, i)
  /\ p = StartOf(s, i) + w[2]
  /\ SizeOf(s, i) # EmptyWord => w[2] <= SizeOf(s, i) \div PageSize

PageWriters(s, n) ==
  \A p \in FirstPage .. Pages - 1 : \A w \in s.flash.pages[p] :
    \/ w = StrayDescriptor
    \/ \E i \in 1 .. n : BelongsTo(s, i, p, w)
    \/ n = Slots - 1 /\ ~UnclosedAt(s, n) /\ p >= EndOf(s, n)

(* A descriptor is among the data only at their head, and only when no     *)
(* slot was left for it.                                                   *)
StrayInOrder(s, n) ==
  \A p \in FirstPage .. Pages - 1 :
    StrayDescriptor \in s.flash.pages[p] => p = FirstPage /\ n = Slots - 1 /\ ~UnclosedAt(s, n)

(* A closed record has all its pages.                                      *)
ClosedComplete(s, n) ==
  \A i \in 1 .. n : SizeOf(s, i) # EmptyWord =>
    \A k \in 0 .. SizeOf(s, i) \div PageSize :
      StartOf(s, i) + k < Pages => <<RecOf(s, i), k>> \in s.flash.pages[StartOf(s, i) + k]

(* Outside of a record the RAM knows the next slot and the next page.      *)
PointersAt(s, n) ==
  /\ ~UnclosedAt(s, n)
  /\ s.fs.nextSlot = n + 1
  /\ s.fs.nextStart = EndOfRecords(s, n)

Ram(s, n) ==
  /\ s.fs.nextSlot <= n + 1
  /\ s.fs.files = IF s.fs.nextSlot = 0 THEN 0 ELSE s.fs.nextSlot - 1
  /\ s.fs.mounted /\ ~s.fs.full => s.fs.nextSlot > 0
  /\ s.fs.nextSlot > 0 => s.fs.nextStart >= FirstPage
  /\ s.file.open => s.fs.open
  /\ ~s.file.open => s.file = NoFile
  /\ (~s.fs.open \/ (s.file.open /\ ~s.file.write)) /\ s.fs.nextSlot > 0 /\ ~s.fs.full
       => PointersAt(s, n)

(* The record being written: the last, unclosed one, with its whole pages  *)
(* on the flash and nothing behind the page that comes next, or one        *)
(* without a descriptor.                                                   *)
WritesLast(s, n) ==
  /\ UnclosedAt(s, n)
  /\ s.fs.nextSlot = n
  /\ RecOf(s, n) = s.file.rec
  /\ StartOf(s, n) = s.fs.nextStart
  /\ \A k \in 0 .. s.file.size \div PageSize - 1 :
       s.fs.nextStart + k < Pages =>
         <<s.file.rec, k>> \in s.flash.pages[s.fs.nextStart + k]
  /\ \A p \in FirstPage .. Pages - 1 : \A w \in s.flash.pages[p] :
       w # StrayDescriptor => p <= s.fs.nextStart + s.file.size \div PageSize

WritesNowhere(s, n) ==
  /\ n = Slots - 1
  /\ s.fs.nextSlot = Slots
  /\ ~UnclosedAt(s, n)
  /\ s.fs.nextStart = EndOf(s, n)

Writing(s, n) ==
  s.file.open /\ s.file.write =>
    s.file.rec # 0 /\ (WritesLast(s, n) \/ WritesNowhere(s, n))

(* The record being read is closed.                                        *)
Reading(s, n) ==
  s.file.open /\ ~s.file.write =>
    /\ s.file.pos <= s.file.size
    /\ \E i \in 1 .. n : /\ s.file.rec = RecOf(s, i)
                       /\ s.file.size = SizeOf(s, i)
                       /\ s.file.start = StartOf(s, i)
    /\ n = 1 => ~UnclosedAt(s, n)

FlashInv(s, n) ==
  Extents(s, n) /\ PageWriters(s, n) /\ StrayInOrder(s, n) /\ ClosedComplete(s, n)

MemInv(s, n) ==
  /\ s \in MemType
  /\ TableShape(s, n)
  /\ FlashInv(s, n)
  /\ Ram(s, n)
  /\ Writing(s, n)
  /\ Reading(s, n)

(* The only record is unclosed only while a file is open: what RestartAllowed *)
(* keeps out of a start, and what mount takes for an empty record.         *)
FirstRecordGuarded(s, n) == n = 1 /\ UnclosedAt(s, n) => s.fs.open

MemoryInOrder ==
  \E n \in 0 .. Slots - 1 :
    MemInv(mem, n) /\ (phase # "off" => FirstRecordGuarded(mem, n))

(* Records are created and written only after a mount that worked.         *)
CommandsInOrder ==
  /\ phase = "off" => mem = PowerOn(mem.flash) /\ ~ctx.open
  /\ status # "BUSY" => mem.fs.nextSlot > 0
  /\ phase \in {"prepare", "recording"} => status # "BUSY"
  /\ owner = "AUDIO" /\ ctx.open => status # "BUSY"

(* A flash without the marker is erased: only a power loss in a format, or *)
(* no start at all, leaves one.                                            *)
MarkerInOrder ==
  /\ phase # "off" => mem.flash.marker
  /\ ~mem.flash.marker => \A i \in Slot : ~Written(mem, i)

CoreInv == MemoryInOrder /\ CommandsInOrder /\ TypeOK

(* The inductive invariant.                                                *)
IInv == CoreInv /\ MarkerInOrder
=============================================================================
