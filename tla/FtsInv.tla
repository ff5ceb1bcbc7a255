------------------------------- MODULE FtsInv -------------------------------
(***************************************************************************)
(* The inductive invariant of Fts while a client waits for its answers and *)
(* the memory task is in time: links may break, transmissions complete     *)
(* early and requests come before notifications are enabled (MildRaces).   *)
(* It follows one request from the control point to its last notification. *)
(***************************************************************************)
EXTENDS Fts

MildRaces == {"lost_link", "early_tx", "early_request"}

RequestOf(op) ==
  CASE op = "list" -> "REQ_FILES_LIST"   [] op = "info" -> "REQ_FILE_INFO"
    [] op \in {"open", "read"} -> "REQ_FILE_DATA"  [] op = "stat" -> "REQ_FS_STATUS"

----------------------------------------------------------------------------
(* Whatever the environment does                                           *)

(* Only the buffer that was never filled has its packet behind the end,    *)
(* and nothing is pushed from it.                                          *)
Pointers ==
  \/ tx.idx + tx.packet <= Len(tx.buf)
  \/ tx.buf = <<>> /\ active \notin Characteristic
     /\ (task.at = "finish" => task.op # "accept")

Located == mem.file # NoFile => mem.at <= Sizes[mem.file]

NeedsFile == {"REQ_FILE_INFO", "REQ_FILE_DATA"}

FileNamed == task.op \in {"info", "open"} \/ pending \in NeedsFile => tx.file # NoFile

TypeInv ==
  /\ TypeOK /\ Pointers /\ Located /\ FileNamed
  /\ task.at = "finish" => task.op \in Outcome

----------------------------------------------------------------------------
(* The exchange with the memory task                                       *)

AtRest == cmdQ = <<>> /\ statusQ = <<>> /\ answering = "none"

Total == Len(Sizes)

(* What the memory's state is before it serves a call                      *)
Ready(op) ==
  /\ op = "read" => mem.at = 0
  /\ op = "more" => mem.at = tx.sent /\ tx.sent < tx.fileSize
  /\ op \in {"read", "more"} =>
       tx.file \in File /\ mem.file = tx.file /\ tx.fileSize = Sizes[tx.file]
  /\ op = "next" => mem.needed /\ tx.left \in 1 .. Total /\ mem.listed = Total - tx.left

(* and after it, if the status says OK and size.                           *)
Served(op, size) ==
  /\ op = "list" =>
       /\ size = Total /\ mem.listed = Least(ListFirst, Total)
       /\ ListFirst < Total => mem.needed
       /\ mem.elem = SubSeq(Names, 1, mem.listed)
  /\ op = "next" =>
       /\ mem.needed /\ tx.left \in 1 .. Total
       /\ mem.listed = Least(Total - tx.left + ListNext, Total)
       /\ mem.elem = SubSeq(Names, Total - tx.left + 1, mem.listed)
  /\ op = "info" => tx.file \in File /\ mem.elem = <<InfoUnit(tx.file)>>
  /\ op = "open" =>
       tx.file \in File /\ mem.file = tx.file /\ mem.at = 0 /\ size = Sizes[tx.file]
  /\ op = "stat" => mem.elem = <<StatUnit>>
  /\ op \in {"read", "more"} =>
       LET from == IF op = "read" THEN 0 ELSE tx.sent
       IN  /\ tx.file \in File /\ mem.file = tx.file /\ tx.fileSize = Sizes[tx.file]
           /\ from < tx.fileSize
           /\ mem.at = Least(from + BufferSize, tx.fileSize)
           /\ mem.elem = SubSeq(FileUnits(tx.file), from + 1, mem.at)

Element(op) == [cmd |-> CommandOf(op), units |-> mem.elem]

Asked ==
  /\ task.at = "status" /\ statusQ = <<>> /\ answering = "none"
  /\ Len(cmdQ) = 1 /\ cmdQ[1].cmd = CommandOf(task.op)
  /\ task.op # "close" => cmdQ[1].id = tx.file
  /\ Ready(task.op)

StatusThere ==
  /\ task.at = "status" /\ cmdQ = <<>>
  /\ Len(statusQ) = 1 /\ statusQ[1].cmd = CommandOf(task.op)
  /\ \/ /\ statusQ[1].result = "OK" /\ Served(task.op, statusQ[1].size)
        /\ \/ answering = CommandOf(task.op)
           \/ answering = "none" /\ dataQ = <<Element(task.op)>>
     \/ /\ statusQ[1].result # "OK" /\ answering = "none"
        /\ task.op \in {"info", "open", "close"}

DataThere ==
  /\ task.at = "data" /\ AtRest /\ task.op \notin {"open", "close"}
  /\ dataQ = <<Element(task.op)>> /\ Served(task.op, task.size)

Exchange ==
  \/ task = Loop /\ (AtRest \/ active = "REQ_RECEIVE_COMPLETE")
  \/ task.at = "finish" /\ task.op \in {"accept", "keep", "idle"} /\ AtRest
  \/ /\ task.op \in CallOp
     /\ Asked \/ StatusThere \/ DataThere

----------------------------------------------------------------------------
(* What the client has                                                     *)

Wanted(c) == [cmd |-> c, id |-> IF c \in NeedsFile THEN tx.file ELSE NoFile]

(* The client, if it is still there, waits for the answer to c and has n   *)
(* units of it.                                                            *)
Agrees(c, n) ==
  want = NoRequest \/
    /\ want = Wanted(c) /\ Len(got) = n
    /\ \A i \in 1 .. n : got[i] = Answer(want)[i]

DataBuffer ==
  /\ tx.file \in File /\ tx.fileSize = Sizes[tx.file]
  /\ tx.sent + Len(tx.buf) <= tx.fileSize /\ Len(tx.buf) <= BufferSize
  /\ \A i \in 1 .. Len(tx.buf) : tx.buf[i] = FileUnits(tx.file)[tx.sent + i]
  /\ system = "on" => mem.file = tx.file /\ mem.at = tx.sent + Len(tx.buf)
  /\ Agrees("REQ_FILE_DATA", tx.sent + tx.idx)

(* The list is a count and the names; left names are not sent yet.         *)
ListUnit(i) == IF i = 1 THEN Count(Total) ELSE Names[i - 1]
ListBuffer ==
  LET before == 1 + Total - tx.left - Len(tx.buf)
  IN  /\ before \in Nat
      /\ \A i \in 1 .. Len(tx.buf) : tx.buf[i] = ListUnit(before + i)
      /\ system = "on" =>
           /\ mem.listed = Total - tx.left
           /\ tx.left > 0 => mem.needed
      /\ Agrees("REQ_FILES_LIST", before + tx.idx)

OneBuffer(c, u) == tx.buf = <<u>> /\ tx.idx = 0 /\ Agrees(c, 0)

Window ==
  /\ tx.idx <= Len(tx.buf)
  /\ tx.packet = Least(Len(tx.buf) - tx.idx, PacketSize)

Carried(p) ==
  /\ Window /\ p = Packet(p.char, tx)
  /\ \/ p.char = "REQ_FILE_DATA" /\ DataBuffer
     \/ p.char \in {"REQ_FILES_LIST", "REQ_FILES_LIST_NEXT"} /\ ListBuffer
        /\ tx.idx = 0 /\ Len(tx.buf) <= PacketSize
     \/ p.char = "REQ_FILE_INFO" /\ tx.file \in File /\ OneBuffer(p.char, InfoUnit(tx.file))
     \/ p.char = "REQ_FS_STATUS" /\ OneBuffer(p.char, StatUnit)
     \/ p.char = "GENERAL_STATUS" /\ Len(tx.buf) = 1 /\ IsStatus(tx.buf[1]) /\ tx.idx = 0

----------------------------------------------------------------------------
(* The opcodes                                                             *)

Calling ==
  task.at \in {"status", "data"} =>
    /\ air = {}
    /\ task.op \in {"list", "info", "open", "read", "stat"} =>
         pending = RequestOf(task.op) /\ ~IsRequest(active) /\ Agrees(pending, 0)
    /\ task.op = "more" =>
         /\ pending = "FINALIZE_TRANSACTION" /\ active = "REQ_FILE_DATA"
         /\ Agrees("REQ_FILE_DATA", tx.sent)
    /\ task.op = "next" =>
         /\ pending = "FINALIZE_TRANSACTION" /\ active = "REQ_FILES_LIST"
         /\ Agrees("REQ_FILES_LIST", 1 + Total - tx.left)
    /\ task.op = "close" => active = "IDLE"

Looping ==
  task = Loop \/ task.op = "close" =>
    /\ pending \in ReadingRequest => air = {} /\ Agrees(pending, 0)
    /\ pending \notin {"IDLE"} => air = {}
    /\ pending = "PUSH_DATA_PACKETS" =>
         task = Loop /\ active = "REQ_FILE_DATA" /\ DataBuffer /\ Window
    /\ pending = "FINALIZE_TRANSACTION" =>
         /\ task = Loop
         /\ active = "REQ_FILE_DATA" => DataBuffer /\ tx.idx = Len(tx.buf)
         /\ active = "REQ_FILES_LIST" => ListBuffer /\ tx.idx = Len(tx.buf)
    /\ \A p \in air :
         /\ Carried(p)
         /\ p.char = "REQ_FILE_DATA" <=> active = "REQ_FILE_DATA"
         /\ p.char \in {"REQ_FILES_LIST", "REQ_FILES_LIST_NEXT"} <=> active = "REQ_FILES_LIST"

Finishing ==
  task.at = "finish" =>
    /\ pending # "REQ_RECEIVE_COMPLETE"
    /\ \A p \in air :
         /\ Carried(p)
         /\ \/ /\ task.op = "accept" /\ pending = p.char
               /\ p.char \in {"REQ_FILES_LIST", "REQ_FILE_INFO", "REQ_FILE_DATA"}
            \/ task.op = "idle" /\ p.char = "REQ_FS_STATUS"
            \/ task.op = "keep" /\ p.char = "REQ_FILE_DATA" /\ active = "REQ_FILE_DATA"
            \/ task.op = "keep" /\ p.char = "REQ_FILES_LIST_NEXT" /\ active = "REQ_FILES_LIST"
            \/ task.op = "keep" /\ p.char = "GENERAL_STATUS" /\ ~IsRequest(active)

Link ==
  /\ ~conn => air = {} /\ want = NoRequest /\ got = <<>>
  /\ active = "REQ_RECEIVE_COMPLETE" => ~conn /\ pending = "IDLE" /\ task = Loop /\ system = "on"
  /\ system = "on" => mem.owner = "BLE"
  /\ system # "on" => task = Loop
  /\ system = "off" => ~conn /\ pending = "IDLE" /\ active = "IDLE"

MildInv ==
  Exchange /\ Calling /\ Looping /\ Finishing /\ Link /\ NothingForeign

ServiceInv == TypeInv /\ MildInv

----------------------------------------------------------------------------
(* And when nothing unusual happens at all: Races = {}                     *)

Quiet == task = Loop /\ pending = "IDLE" /\ air = {} /\ ~IsRequest(active)

Listening == system = "on" /\ enabled /\ (Quiet \/ (conn /\ subscribed))

(* A request that is active has a notification under way.                  *)
Moving ==
  /\ ActiveRequestIsMoving
  /\ pending \in ReadingRequest \cup {"REQ_RECEIVE_COMPLETE"} => ~IsRequest(active)
  /\ task.at = "finish" =>
       (task.op = "accept" \/ (task.op = "keep" /\ IsRequest(active)) => air # {})

(* The file is open from the answer to "open" to the answer to "close".    *)
FileOpen ==
  /\ mem.context = mem.file
  /\ task = Loop => (mem.file # NoFile <=> active = "REQ_FILE_DATA")
  /\ task.at = "finish" =>
       (mem.file # NoFile <=>
          \/ task.op = "accept" /\ pending = "REQ_FILE_DATA"
          \/ task.op = "keep" /\ active = "REQ_FILE_DATA")
  /\ task.op \in {"list", "next", "info", "stat"} => mem.file = NoFile
  /\ task.op = "open" => (mem.file # NoFile <=> statusQ # <<>> /\ statusQ[1].result = "OK")
  /\ task.op = "close" =>
       /\ cmdQ = <<>> => mem.file = NoFile
       /\ cmdQ # <<>> => mem.file # NoFile /\ cmdQ[1].id = mem.file

(* The memory task only refuses files that do not exist.                   *)
Refused ==
  task.at = "status" /\ statusQ # <<>> /\ statusQ[1].result # "OK" =>
    /\ task.op \in {"info", "open"} /\ tx.file \notin File
    /\ statusQ[1].result = "ERROR_FILE_NOT_FOUND"

(* After the completion only the permission to format may be on its way.   *)
Completed ==
  active = "REQ_RECEIVE_COMPLETE" =>
    \A i \in DOMAIN cmdQ : cmdQ[i].cmd = "ALLOW_MEMORY_FORMATTING"

Complete == want = NoRequest \/ got = Answer(want)

Received ==
  /\ want = NoRequest => got = <<>>
  /\ want # NoRequest =>
       /\ Len(got) <= Len(Answer(want))
       /\ \A i \in 1 .. Len(got) : got[i] = Answer(want)[i]
  /\ pending = "REQ_RECEIVE_COMPLETE" => Complete
  /\ \A p \in air : p.char = "GENERAL_STATUS" =>
       /\ tx.file \notin File /\ tx.buf = <<NotFound(tx.file)>>
       /\ \E c \in NeedsFile : Agrees(c, 0)

CalmInv == Listening /\ Moving /\ FileOpen /\ Refused /\ Completed /\ Received
=============================================================================
