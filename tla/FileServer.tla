----------------------------- MODULE FileServer -----------------------------
(***************************************************************************)
(* The memory task as the file transfer service sees it: one answer per    *)
(* request, process_request_from_ble in                                    *)
(* targets/dictofun/tasks/memory/task_memory.cpp, on a memory of closed    *)
(* records (module MemoryTask has the records themselves).  Its state is a *)
(* record m:                                                               *)
(*   owner     who may ask, _memory_owner                                  *)
(*   context   the open file in _file_operation_context, or NoFile         *)
(*   file, at  the file open in the file system, and the read position     *)
(*   elem      data_queue_elem: static, so it keeps the last data          *)
(*   needed, listed   a files list sent in pieces: next piece allowed,     *)
(*                    and the number of names handed out                   *)
(* Data are sequences of units; one unit is any number of bytes.           *)
(***************************************************************************)
EXTENDS Integers, Sequences, FiniteSets

CONSTANTS
  Sizes,        \* the sizes of the closed records, in units
  BufferSize,   \* units in a data element and in the transfer buffer, 256 bytes
  ListFirst,    \* names in the first piece of a files list
  ListNext      \* and in every other

ASSUME FileServerAssumption ==
  /\ Sizes \in Seq(Nat \ {0}) /\ Sizes # <<>>
  /\ {BufferSize, ListFirst, ListNext} \subseteq Nat \ {0}
  /\ ListFirst < BufferSize /\ ListNext <= BufferSize

File   == DOMAIN Sizes
NoFile == 0
FileId == 1 .. Len(Sizes) + 1       \* the last one names no file

Least(a, b) == IF a < b THEN a ELSE b

FileUnits(f) == [n \in 1 .. Sizes[f] |-> <<"data", f, n>>]
Names        == [f \in File |-> <<"name", f>>]
InfoUnit(f)  == <<"info", f, Sizes[f]>>
StatUnit     == <<"files", Len(Sizes)>>

ServerUnit ==
  (UNION {{FileUnits(f)[n] : n \in 1 .. Sizes[f]} : f \in File})
    \cup {Names[f] : f \in File} \cup {InfoUnit(f) : f \in File} \cup {StatUnit}

CommandToMemory ==
  {"GET_FILES_LIST", "GET_FILES_LIST_NEXT", "GET_FILE_INFO", "OPEN_FILE",
   "CLOSE_FILE", "GET_FILE_DATA", "GET_FS_STATUS", "ALLOW_MEMORY_FORMATTING"}

Server ==
  [owner : {"AUDIO", "BLE"}, context : FileId \cup {NoFile}, file : File \cup {NoFile},
   at : Nat, elem : Seq(ServerUnit), needed : BOOLEAN, listed : 0 .. Len(Sizes)]

ServerStart ==
  [owner |-> "BLE", context |-> NoFile, file |-> NoFile, at |-> 0, elem |-> <<>>,
   needed |-> FALSE, listed |-> 0]

(* The status put into the queue for a command.                            *)
ResultOfCommand ==
  {"OK", "ERROR_OTHER", "ERROR_FILE_NOT_FOUND", "ERROR_FILE_ALREADY_OPEN"}

Result(m, cmd, id) ==
  CASE cmd = "GET_FILES_LIST_NEXT" /\ ~m.needed -> "ERROR_OTHER"
    [] cmd = "GET_FILE_INFO" /\ id \notin File -> "ERROR_FILE_NOT_FOUND"
    [] cmd = "OPEN_FILE" /\ m.context # NoFile -> "ERROR_FILE_ALREADY_OPEN"
    [] cmd = "OPEN_FILE" /\ m.context = NoFile /\ id \notin File -> "ERROR_FILE_NOT_FOUND"
    [] cmd = "CLOSE_FILE" /\ (m.context = NoFile \/ id # m.context) -> "ERROR_OTHER"
    [] cmd = "GET_FILE_DATA" /\ m.file = NoFile -> "ERROR_OTHER"
    [] OTHER -> "OK"

(* Mutant: the next read starts one unit early.                            *)
ChunkOverlapping(m) ==
  SubSeq(FileUnits(m.file), IF m.at = 0 THEN 1 ELSE m.at,
         Least(Sizes[m.file], m.at + BufferSize))

Chunk(m) ==
  SubSeq(FileUnits(m.file), m.at + 1, Least(Sizes[m.file], m.at + BufferSize))

(* The state after a command that succeeds.                                *)
Executed(m, cmd, id) ==
  CASE cmd = "GET_FILES_LIST" ->
         [m EXCEPT !.elem = SubSeq(Names, 1, Least(ListFirst, Len(Sizes))),
                   !.listed = Least(ListFirst, Len(Sizes)),
                   !.needed = ListFirst < Len(Sizes)]
    [] cmd = "GET_FILES_LIST_NEXT" ->
         LET upTo == Least(m.listed + ListNext, Len(Sizes))
         IN  [m EXCEPT !.elem = SubSeq(Names, m.listed + 1, upTo), !.listed = upTo]
    [] cmd = "GET_FILE_INFO" -> [m EXCEPT !.elem = <<InfoUnit(id)>>]
    [] cmd = "OPEN_FILE" -> [m EXCEPT !.context = id, !.file = id, !.at = 0]
    [] cmd = "CLOSE_FILE" -> [m EXCEPT !.context = NoFile, !.file = NoFile]
    [] cmd = "GET_FILE_DATA" ->
         [m EXCEPT !.elem = Chunk(m), !.at = m.at + Len(Chunk(m))]
    [] cmd = "GET_FS_STATUS" -> [m EXCEPT !.elem = <<StatUnit>>]
    [] OTHER -> m

(* data_size in the status: of the whole list, of the opened file.         *)
Reportable == {Len(Sizes)} \cup {Sizes[f] : f \in File} \cup 0 .. BufferSize

ReportedSize(m, cmd, id) ==
  CASE cmd = "GET_FILES_LIST" -> Len(Sizes)
    [] cmd = "OPEN_FILE" -> Sizes[id]
    [] cmd = "GET_FILE_DATA" -> Len(Chunk(m))
    [] OTHER -> 0

Serve(m, cmd, id) ==
  IF Result(m, cmd, id) = "OK" THEN Executed(m, cmd, id) ELSE m

(* A change of owner and back: the file system is mounted anew, the context *)
(* stays.                                                                  *)
OwnerChanged(m) == [m EXCEPT !.file = NoFile, !.needed = FALSE]
=============================================================================
