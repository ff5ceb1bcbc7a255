-------------------------------- MODULE Fts --------------------------------
(***************************************************************************)
(* The file transfer service, lib/ble_fts/ble_fts.cpp, between a client    *)
(* and the memory task.  Three contexts take turns:                        *)
(*   - the SoftDevice's task runs the event handlers: control point writes,*)
(*     connection events, transmission complete;                           *)
(*   - the BLE task runs process() and in it the glue's blocking calls     *)
(*     (tasks/ble/ble_fts_glue_target.cpp);                                *)
(*   - the memory task answers (FileServer), in two steps.                 *)
(* The first two share pending_command, active_command and the transaction *)
(* without a lock.  Races names what the environment may do beyond the     *)
(* ordinary course:                                                        *)
(*   "eager"         a client writes requests while another is answered    *)
(*   "early_request" a client asks before it enabled notifications         *)
(*   "lost_link"     the link breaks, or the state task stops BLE          *)
(*   "completion"    a client comes back after it confirmed completion     *)
(*   "battery"       the battery service notifies on the same link         *)
(*   "early_tx"      a transmission completes between the call that starts *)
(*                   it and the assignments after that call                *)
(*   "early_switch"  the BLE task runs between the memory task's status    *)
(*                   and its data                                          *)
(*   "slow_memory"   an answer takes longer than the caller waits          *)
(*   "overlap"       the state task stops BLE and gives the memory to audio*)
(*                   while the BLE task waits for the memory task          *)
(***************************************************************************)
EXTENDS FileServer

CONSTANTS
  PacketSize,    \* units in one notification, 200 bytes
  FsIssueMax,    \* empty chunks tolerated before a reset
  Repertoire,    \* the opcodes a client writes
  Races

ReadingRequest == {"REQ_FILES_LIST", "REQ_FILE_INFO", "REQ_FILE_DATA", "REQ_FS_STATUS"}

ASSUME FtsAssumption ==
  /\ PacketSize \in Nat \ {0} /\ FsIssueMax \in Nat \ {0}
  /\ ListFirst < PacketSize /\ ListNext <= PacketSize
  /\ Repertoire \subseteq ReadingRequest \cup {"REQ_FILES_LIST_NEXT", "REQ_RECEIVE_COMPLETE"}
  /\ Races \subseteq {"eager", "early_request", "lost_link", "completion", "battery",
                      "early_tx", "early_switch", "slow_memory", "overlap"}

VARIABLES
  conn, subscribed,  \* the link, and the client's CCCDs as the SoftDevice has them
  air,               \* the notification the SoftDevice holds: at most one
  want, got,         \* client: its latest request, what it received for it
  pending, active,   \* _context.pending_command, .active_command
  enabled,           \* the ClientContext's notification flags
  tx,                \* _transaction_ctx
  task,              \* where the BLE task is in process()
  cmdQ, statusQ, dataQ,   \* queues to and from the memory task, one element each
  mem, answering,         \* memory task; the command whose data it has yet to send
  system                  \* the BLE system: on, to be stopped (STOP is queued), off

radio   == <<conn, subscribed, air>>
client  == <<want, got>>
opcodes == <<pending, active>>
queues  == <<cmdQ, statusQ, dataQ>>
memory  == <<mem, answering>>
vars    == <<conn, subscribed, air, want, got, pending, active, enabled, tx, task,
             cmdQ, statusQ, dataQ, mem, answering, system>>

ControlPointOpcode ==
  ReadingRequest \cup
    {"REQ_FILES_LIST_NEXT", "REQ_RECEIVE_COMPLETE", "PUSH_DATA_PACKETS",
     "FINALIZE_TRANSACTION", "IDLE"}

Characteristic == ReadingRequest \cup {"REQ_FILES_LIST_NEXT", "GENERAL_STATUS"}

NotFound(id) == <<"FILE_NOT_FOUND", id>>
FsCorrupt    == <<"FS_CORRUPT">>
IsStatus(u)  == u[1] \in {"FILE_NOT_FOUND", "FS_CORRUPT"}
Count(n)     == <<"count", n>>
Zero         == <<"zero">>

Unit ==
  ServerUnit \cup {NotFound(id) : id \in FileId} \cup {FsCorrupt, Zero}
    \cup {Count(n) : n \in Reportable}

(*--------------------------------- client --------------------------------*)
NoRequest == [cmd |-> "IDLE", id |-> NoFile]

Request ==
  LET asked(cs) == Repertoire \cap cs IN
  [cmd : asked({"REQ_FILES_LIST", "REQ_FS_STATUS", "REQ_FILES_LIST_NEXT"}), id : {NoFile}]
    \cup [cmd : asked({"REQ_FILE_INFO", "REQ_FILE_DATA"}), id : FileId]

Answer(r) ==
  CASE r.cmd = "REQ_FILES_LIST" -> <<Count(Len(Sizes))>> \o Names
    [] r.cmd = "REQ_FS_STATUS" -> <<StatUnit>>
    [] r.id \in FileId \ File -> <<NotFound(r.id)>>
    [] r.cmd = "REQ_FILE_INFO" /\ r.id \in File -> <<InfoUnit(r.id)>>
    [] r.cmd = "REQ_FILE_DATA" /\ r.id \in File -> FileUnits(r.id)
    [] OTHER -> Names

(* A client stops at the length it expects, or at a general status.        *)
Waiting ==
  /\ want # NoRequest
  /\ Len(got) < Len(Answer(want))
  /\ \A i \in DOMAIN got : ~IsStatus(got[i])

ListensTo(r) ==
  {r.cmd, "GENERAL_STATUS"}
    \cup (IF r.cmd = "REQ_FILES_LIST" THEN {"REQ_FILES_LIST_NEXT"} ELSE {})

Receive(p) ==
  /\ got' = IF Waiting /\ p.char \in ListensTo(want) THEN got \o p.units ELSE got
  /\ UNCHANGED want

(*----------------------- transaction and notifications -------------------*)
Loop   == [at |-> "loop", op |-> "none", size |-> 0]
At(where, op) == [at |-> where, op |-> op, size |-> 0]

TransactionStart ==
  [file |-> NoFile, buf |-> <<>>, idx |-> 0, packet |-> PacketSize, fileSize |-> 0,
   sent |-> 0, left |-> 0, issues |-> FsIssueMax]

(* Mutant: the limit of a packet is not applied.                           *)
UpdateNextPacketSizeUnlimited(t) == [t EXCEPT !.packet = Len(t.buf) - t.idx]

(* size - idx is unsigned: behind the end it is a large number.            *)
UpdateNextPacketSize(t) ==
  [t EXCEPT !.packet = IF t.idx > Len(t.buf) THEN PacketSize
                       ELSE Least(Len(t.buf) - t.idx, PacketSize)]

(* Mutant: the data pointer is not moved along.                            *)
PacketFromStart(op, t) == [char |-> op, units |-> SubSeq(t.buf, 1, t.packet)]

Packet(op, t) ==
  [char |-> op, units |-> SubSeq(t.buf, t.idx + 1, t.idx + t.packet)]

(* sd_ble_gatts_hvx: INVALID_CONN_HANDLE, INVALID_STATE (the client did    *)
(* not subscribe), RESOURCES (one notification is waiting already), or an  *)
(* attribute handle that push_data_packets found no characteristic for.    *)
CanNotify(op) == conn /\ subscribed /\ air = {} /\ op \in Characteristic

(* Push the next packet of t; then the caller's assignments to the         *)
(* opcodes, which depend on whether this succeeded (Finish).               *)
Push(op, t, done, failed) ==
  /\ tx' = UpdateNextPacketSize(t)
  /\ air' = IF CanNotify(op) THEN {Packet(op, UpdateNextPacketSize(t))} ELSE air
  /\ task' = At("finish", IF CanNotify(op) THEN done ELSE failed)

UpdateGeneralStatus(status, after) ==
  Push("GENERAL_STATUS", [tx EXCEPT !.buf = <<status>>, !.idx = 0], after, after)

(*------------------------------- the glue --------------------------------*)
CommandOf(op) ==
  CASE op = "list" -> "GET_FILES_LIST"     [] op = "next" -> "GET_FILES_LIST_NEXT"
    [] op = "info" -> "GET_FILE_INFO"      [] op = "open" -> "OPEN_FILE"
    [] op = "close" -> "CLOSE_FILE"        [] op = "stat" -> "GET_FS_STATUS"
    [] op \in {"read", "more"} -> "GET_FILE_DATA"

(* A call up to its first wait.  Some calls reset a queue before they send.*)
Call(op) ==
  /\ \/ /\ cmdQ = <<>> \/ op = "next"
        /\ cmdQ' = <<[cmd |-> CommandOf(op), id |-> tx.file]>>
        /\ task' = At("status", op)
     \/ /\ cmdQ # <<>> /\ op # "next"
        /\ task' = At("unsent", op)
        /\ UNCHANGED cmdQ
  /\ dataQ' = IF op \in {"list", "read", "more"} THEN <<>> ELSE dataQ

(* The callers of the glue on an error: a general status to the client and *)
(* what becomes of the opcodes.                                            *)
Failed(op, result) ==
  \/ /\ op \in {"list", "read", "stat"} \/ (op = "info" /\ result # "ERROR_FILE_NOT_FOUND")
     /\ UpdateGeneralStatus(FsCorrupt, "keep")
  \/ /\ op = "open" \/ (op = "info" /\ result = "ERROR_FILE_NOT_FOUND")
     /\ UpdateGeneralStatus(NotFound(tx.file), "keep")
  \/ op = "next" /\ UpdateGeneralStatus(FsCorrupt, "idle")
  \/ op = "more" /\ task' = At("finish", "idle") /\ UNCHANGED <<tx, air>>
  \/ op = "close" /\ task' = Loop /\ UNCHANGED <<tx, air>>

(* Tasks of one priority: the memory task keeps the processor from its     *)
(* status to its data unless a task of higher priority comes in between.   *)
BleTurn == answering = "none" \/ "early_switch" \in Races

TakeStatus ==
  /\ BleTurn
  /\ task.at = "status" /\ statusQ # <<>>
  /\ LET status == Head(statusQ) IN
     \/ /\ status.result # "OK"
        /\ Failed(task.op, status.result)
        /\ statusQ' = <<>>
        /\ UNCHANGED <<cmdQ, dataQ>>
     \/ /\ status.result = "OK" /\ task.op = "close"
        /\ task' = Loop
        /\ statusQ' = <<>>
        /\ UNCHANGED <<cmdQ, dataQ, tx, air>>
     \/ /\ status.result = "OK" /\ task.op \notin {"open", "close"}
        /\ task' = [At("data", task.op) EXCEPT !.size = status.size]
        /\ statusQ' = <<>>
        /\ UNCHANGED <<cmdQ, dataQ, tx, air>>
  /\ UNCHANGED <<opcodes, conn, subscribed, client, enabled, system, memory>>

(* send_file_data goes on with the first read.                             *)
Opened ==
  /\ BleTurn
  /\ task.at = "status" /\ task.op = "open"
  /\ statusQ # <<>> /\ Head(statusQ).result = "OK"
  /\ tx' = [tx EXCEPT !.idx = 0, !.fileSize = Head(statusQ).size]
  /\ statusQ' = <<>>
  /\ Call("read")
  /\ UNCHANGED <<opcodes, radio, client, enabled, system, memory>>

(* A call that was not sent, or not answered in time.  Without "slow_memory"*)
(* the time limit expires only when there is no answer to come.            *)
NoAnswer ==
  /\ BleTurn
  /\ \/ task.at = "unsent"
     \/ /\ \/ task.at = "status" /\ statusQ = <<>>
           \/ task.at = "data" /\ dataQ = <<>>
        /\ \/ "slow_memory" \in Races
           \/ answering = "none" /\ (cmdQ = <<>> \/ mem.owner = "AUDIO")
  /\ Failed(task.op, "ERROR_GENERAL")
  /\ UNCHANGED <<opcodes, conn, subscribed, client, enabled, system, queues, memory>>

SendFilesList(count, units) ==
  Push("REQ_FILES_LIST",
       [tx EXCEPT !.left = IF count > ListFirst THEN count - ListFirst ELSE 0,
                  !.buf = <<Count(count)>>
                            \o SubSeq(units, 1, Least(count, Least(ListFirst, Len(units)))),
                  !.idx = 0],
       "accept", "accept")

ContinueSendingFilesList(units) ==
  Push("REQ_FILES_LIST_NEXT",
       [tx EXCEPT !.left = IF tx.left > Len(units) THEN tx.left - Len(units) ELSE 0,
                  !.buf = units, !.idx = 0],
       "keep", "keep")

SendFileInfo(units) ==
  Push("REQ_FILE_INFO", [tx EXCEPT !.buf = units, !.idx = 0], "accept", "accept")

SendFileData(units) ==
  Push("REQ_FILE_DATA", [tx EXCEPT !.buf = units, !.idx = 0, !.sent = 0], "accept", "keep")

SendFsStatus(units) ==
  Push("REQ_FS_STATUS", [tx EXCEPT !.buf = units, !.idx = 0], "idle", "idle")

(* An empty chunk is replaced by zeros up to the end of the file, whose    *)
(* unsigned distance is a large number behind the end.                     *)
Stuffing ==
  [i \in 1 .. IF tx.sent > tx.fileSize THEN BufferSize
              ELSE Least(tx.fileSize - tx.sent, BufferSize) |-> Zero]

ContinueSendingFileData(units) ==
  Push("REQ_FILE_DATA",
       IF units # <<>> THEN [tx EXCEPT !.buf = units, !.idx = 0]
       ELSE [tx EXCEPT !.buf = Stuffing, !.idx = 0, !.issues = @ - 1],
       "keep", "idle")

Init ==
  /\ conn = FALSE /\ subscribed = FALSE /\ air = {}
  /\ want = NoRequest /\ got = <<>>
  /\ pending = "IDLE" /\ active = "IDLE"
  /\ enabled = TRUE       \* the flags alias the canaries, which are not zero
  /\ tx = TransactionStart /\ task = Loop
  /\ cmdQ = <<>> /\ statusQ = <<>> /\ dataQ = <<>>
  /\ mem = ServerStart /\ answering = "none"
  /\ system = "on"

Restart ==
  /\ conn' = FALSE /\ subscribed' = FALSE /\ air' = {}
  /\ want' = NoRequest /\ got' = <<>>
  /\ pending' = "IDLE" /\ active' = "IDLE" /\ enabled' = TRUE
  /\ tx' = TransactionStart /\ task' = Loop
  /\ cmdQ' = <<>> /\ statusQ' = <<>> /\ dataQ' = <<>>
  /\ mem' = ServerStart /\ answering' = "none"
  /\ system' = "on"

TakeData ==
  /\ BleTurn
  /\ task.at = "data" /\ dataQ # <<>>
  /\ LET units == Head(dataQ).units IN
     \/ task.op = "list" /\ SendFilesList(task.size, units)
     \/ task.op = "next" /\ ContinueSendingFilesList(units)
     \/ task.op = "info" /\ SendFileInfo(units)
     \/ task.op = "read" /\ SendFileData(units)
     \/ task.op = "stat" /\ SendFsStatus(units)
     \/ /\ task.op = "more" /\ (units # <<>> \/ tx.issues > 1)
        /\ ContinueSendingFileData(units)
  /\ dataQ' = <<>>
  /\ UNCHANGED <<opcodes, conn, subscribed, client, enabled, system, cmdQ, statusQ,
                 memory>>

(* Mutant: an empty chunk is read again.                                   *)
SystemResetReadsAgain ==
  /\ BleTurn
  /\ task.at = "data" /\ task.op = "more"
  /\ dataQ # <<>> /\ Head(dataQ).units = <<>> /\ tx.issues = 1
  /\ Call("more")
  /\ UNCHANGED <<opcodes, radio, client, enabled, system, tx, statusQ, memory>>

(* NVIC_SystemReset after too many empty chunks.                           *)
SystemReset ==
  /\ BleTurn
  /\ task.at = "data" /\ task.op = "more"
  /\ dataQ # <<>> /\ Head(dataQ).units = <<>> /\ tx.issues = 1
  /\ Restart

(*-------------------------------- process() ------------------------------*)
IsRequest(op) == op \in ReadingRequest

(* The loop of the BLE task takes a command of the state task first.       *)
Processing == BleTurn /\ system # "stop"

(* The assignments after a call that pushed a packet or gave up.           *)
Finish ==
  /\ BleTurn
  /\ task.at = "finish"
  /\ active' = CASE task.op = "accept" -> pending
                 [] task.op = "idle" -> "IDLE"
                 [] task.op = "keep" -> active
  /\ pending' = "IDLE"
  /\ task' = Loop
  /\ UNCHANGED <<radio, client, enabled, system, tx, queues, memory>>

Idle == pending' = "IDLE" /\ active' = "IDLE"

(* Mutant: the file stays open.                                            *)
FileTransferredNotClosed ==
  /\ Idle
  /\ tx' = [tx EXCEPT !.sent = tx.sent + Len(tx.buf)]
  /\ UNCHANGED <<task, cmdQ, dataQ>>

FileTransferred ==
  /\ Idle
  /\ tx' = [tx EXCEPT !.sent = tx.sent + Len(tx.buf)]
  /\ Call("close")

FinalizeTransaction ==
  /\ Processing
  /\ task = Loop /\ pending = "FINALIZE_TRANSACTION"
  /\ \/ /\ active = "REQ_FILE_DATA" /\ tx.sent + Len(tx.buf) = tx.fileSize
        /\ FileTransferred
     \/ /\ active = "REQ_FILE_DATA" /\ tx.sent + Len(tx.buf) # tx.fileSize
        /\ tx' = [tx EXCEPT !.sent = tx.sent + Len(tx.buf)]
        /\ Call("more")
        /\ UNCHANGED opcodes
     \/ /\ active = "REQ_FILES_LIST" /\ tx.left > 0
        /\ Call("next")
        /\ UNCHANGED <<opcodes, tx>>
     \/ /\ active # "REQ_FILE_DATA" /\ ~(active = "REQ_FILES_LIST" /\ tx.left > 0)
        /\ Idle
        /\ UNCHANGED <<tx, task, cmdQ, dataQ>>
  /\ UNCHANGED <<radio, client, enabled, system, statusQ, memory>>

PushDataPackets ==
  /\ Processing
  /\ task = Loop /\ pending = "PUSH_DATA_PACKETS"
  /\ Push(active, tx, "keep", "idle")
  /\ UNCHANGED <<conn, subscribed, opcodes, client, enabled, system, queues, memory>>

(* "command requested before previous command has been processed", or the  *)
(* client did not enable notifications: the request is dropped.            *)
Refuse ==
  /\ Processing
  /\ task = Loop
  /\ \/ pending \in ReadingRequest /\ (IsRequest(active) \/ ~enabled)
     \/ pending = "REQ_RECEIVE_COMPLETE" /\ IsRequest(active)
  /\ pending' = "IDLE"
  /\ UNCHANGED <<active, radio, client, enabled, system, tx, task, queues, memory>>

ProcessClientRequest ==
  /\ Processing
  /\ task = Loop /\ pending \in ReadingRequest /\ ~IsRequest(active) /\ enabled
  /\ Call(CASE pending = "REQ_FILES_LIST" -> "list" [] pending = "REQ_FILE_INFO" -> "info"
            [] pending = "REQ_FILE_DATA" -> "open" [] pending = "REQ_FS_STATUS" -> "stat")
  /\ UNCHANGED <<opcodes, radio, client, enabled, system, tx, statusQ, memory>>

LinkDown ==
  /\ conn' = FALSE /\ subscribed' = FALSE /\ air' = {}
  /\ want' = NoRequest /\ got' = <<>>

(* receive_completed sends and does not wait for the status; then the link *)
(* is closed (services_process).                                           *)
ReceiveCompleted ==
  /\ Processing
  /\ task = Loop /\ pending = "REQ_RECEIVE_COMPLETE" /\ ~IsRequest(active)
  /\ cmdQ' = <<[cmd |-> "ALLOW_MEMORY_FORMATTING", id |-> NoFile]>>
  /\ active' = pending /\ pending' = "IDLE"
  /\ LinkDown
  /\ UNCHANGED <<enabled, system, tx, task, statusQ, dataQ, memory>>

(*------------------------------ memory task ------------------------------*)
(* The status is not waited for: if the queue holds one, it is dropped and *)
(* no data follow.                                                         *)
MemoryServes ==
  /\ answering = "none" /\ cmdQ # <<>> /\ mem.owner = "BLE"
  /\ LET c == Head(cmdQ)
         r == Result(mem, c.cmd, c.id)
     IN  /\ mem' = Serve(mem, c.cmd, c.id)
         /\ statusQ' = IF statusQ # <<>> THEN statusQ
                       ELSE <<[cmd |-> c.cmd, result |-> r,
                               size |-> IF r = "OK" THEN ReportedSize(mem, c.cmd, c.id) ELSE 0]>>
         /\ answering' = IF statusQ = <<>> /\ r = "OK" THEN c.cmd ELSE "none"
  /\ cmdQ' = <<>>
  /\ UNCHANGED <<radio, client, opcodes, enabled, system, tx, task, dataQ>>

(* Mutant: old data in the queue are kept and the new ones dropped.        *)
MemoryKeepsOldData ==
  /\ answering # "none"
  /\ dataQ' = IF dataQ = <<>> THEN <<[cmd |-> answering, units |-> mem.elem]>> ELSE dataQ
  /\ answering' = "none"
  /\ UNCHANGED <<radio, client, opcodes, enabled, system, tx, task, cmdQ, statusQ, mem>>

(* Data follow every status that says OK, whatever the command was.        *)
MemorySendsData ==
  /\ answering # "none"
  /\ dataQ' = <<[cmd |-> answering, units |-> mem.elem]>>
  /\ answering' = "none"
  /\ UNCHANGED <<radio, client, opcodes, enabled, system, tx, task, cmdQ, statusQ, mem>>

(*-------------------- events in the SoftDevice's task --------------------*)
(* process_hvn_tx_callback, for a notification of whatever service.  idx   *)
(* is capped: behind the longest buffer its value makes no difference.     *)
Advance(t) ==
  UpdateNextPacketSize(
    [t EXCEPT !.idx = Least(t.idx + t.packet, BufferSize + ListFirst + PacketSize)])

(* Mutant: the end of the buffer is not noticed.                           *)
HvnTxCallbackNoEnd ==
  /\ tx' = Advance(tx)
  /\ pending' = IF Advance(tx).packet = 0 THEN "IDLE" ELSE "PUSH_DATA_PACKETS"

(* Mutant: it goes on pushing behind the end.                              *)
HvnTxCallbackPushes == tx' = Advance(tx) /\ pending' = "PUSH_DATA_PACKETS"

HvnTxCallback ==
  /\ tx' = Advance(tx)
  /\ pending' = IF Advance(tx).packet = 0 THEN "FINALIZE_TRANSACTION"
                ELSE "PUSH_DATA_PACKETS"

NotificationSent ==
  /\ air # {}
  /\ task.at # "finish" \/ "early_tx" \in Races
  /\ \E p \in air : Receive(p)
  /\ air' = {}
  /\ HvnTxCallback
  /\ UNCHANGED <<conn, subscribed, active, enabled, system, task, queues, memory>>

OnConnect ==
  /\ ~conn /\ system = "on"
  /\ active # "REQ_RECEIVE_COMPLETE" \/ "completion" \in Races
  /\ conn' = TRUE /\ subscribed' = FALSE
  /\ UNCHANGED <<air, client, opcodes, enabled, system, tx, task, queues, memory>>

(* The service keeps its opcodes, its transaction and the open file.       *)
OnDisconnect ==
  /\ conn /\ "lost_link" \in Races
  /\ LinkDown
  /\ UNCHANGED <<opcodes, enabled, system, tx, task, queues, memory>>

WriteCccd(on) ==
  /\ conn /\ subscribed # on
  /\ on \/ "early_request" \in Races
  /\ subscribed' = on /\ enabled' = on
  /\ UNCHANGED <<conn, air, client, opcodes, system, tx, task, queues, memory>>

(* A client that is not eager has its answer and gives the service a       *)
(* connection interval to finish.                                          *)
MayWrite ==
  /\ conn
  /\ subscribed \/ "early_request" \in Races
  /\ \/ ~Waiting /\ air = {} /\ pending = "IDLE" /\ task.at # "finish"
     \/ "eager" \in Races

OnControlPointWrite(r) ==
  /\ MayWrite
  /\ want' = r /\ got' = <<>>
  /\ pending' = IF r.cmd = "REQ_FILES_LIST_NEXT" THEN pending ELSE r.cmd
  /\ tx' = IF r.id = NoFile THEN tx ELSE [tx EXCEPT !.file = r.id]
  /\ UNCHANGED <<active, radio, enabled, system, task, queues, memory>>

ConfirmCompletion ==
  /\ MayWrite /\ "REQ_RECEIVE_COMPLETE" \in Repertoire
  /\ pending' = "REQ_RECEIVE_COMPLETE"
  /\ UNCHANGED <<active, radio, client, enabled, system, tx, task, queues, memory>>

(* battery_level_update from the BLE task's loop.                          *)
BatteryLevel ==
  /\ "battery" \in Races
  /\ BleTurn
  /\ task = Loop /\ conn /\ air = {}
  /\ air' = {[char |-> "battery", units |-> <<>>]}
  /\ UNCHANGED <<conn, subscribed, client, opcodes, enabled, system, tx, task, queues,
                 memory>>

(* A press of the button: the state task sends STOP to the BLE task, and   *)
(* SELECT_OWNER_AUDIO to the memory task.                                  *)
StateStopsBle ==
  /\ \/ "lost_link" \in Races /\ task = Loop /\ cmdQ = <<>> /\ answering = "none"
     \/ "overlap" \in Races
  /\ system = "on"
  /\ active # "REQ_RECEIVE_COMPLETE" \/ "completion" \in Races
  /\ system' = "stop"
  /\ UNCHANGED <<radio, client, opcodes, enabled, tx, task, queues, memory>>

(* stop: the link is closed and the service's context reset.               *)
BleStop ==
  /\ system = "stop" /\ task = Loop
  /\ Idle
  /\ LinkDown
  /\ system' = "off"
  /\ UNCHANGED <<enabled, tx, task, queues, memory>>

(* The memory task takes the state task's commands first, and none of the  *)
(* BLE task's while audio owns the memory.                                 *)
SelectOwner(owner) ==
  /\ answering = "none" /\ system # "on" /\ mem.owner # owner
  /\ mem' = [OwnerChanged(mem) EXCEPT !.owner = owner]
  /\ UNCHANGED <<radio, client, opcodes, enabled, tx, task, queues, answering, system>>

(* START follows the change of the owner back to BLE.                      *)
BleStart ==
  /\ system = "off" /\ mem.owner = "BLE"
  /\ system' = "on"
  /\ UNCHANGED <<radio, client, opcodes, enabled, tx, task, queues, memory>>

(* The device goes off some seconds after the completion was confirmed.    *)
PowerOff == active = "REQ_RECEIVE_COMPLETE" /\ ~conn /\ Restart

BleStep ==
  \/ TakeStatus \/ Opened \/ TakeData \/ SystemReset \/ NoAnswer \/ Finish
  \/ FinalizeTransaction \/ PushDataPackets \/ Refuse
  \/ ProcessClientRequest \/ ReceiveCompleted \/ BleStop

MemoryStep == MemoryServes \/ MemorySendsData

Next ==
  \/ BleStep \/ MemoryStep \/ NotificationSent
  \/ OnConnect \/ OnDisconnect \/ (\E on \in BOOLEAN : WriteCccd(on))
  \/ (\E r \in Request : OnControlPointWrite(r)) \/ ConfirmCompletion
  \/ BatteryLevel \/ PowerOff
  \/ StateStopsBle \/ (\E owner \in {"AUDIO", "BLE"} : SelectOwner(owner)) \/ BleStart

(* The tasks run when they have something to do, and a notification on a   *)
(* link that is up is transmitted.  Nothing is asked of the client.        *)
Fairness ==
  WF_vars(BleStep) /\ WF_vars(MemoryStep) /\ WF_vars(NotificationSent)

Spec     == Init /\ [][Next]_vars
FairSpec == Spec /\ Fairness

(*------------------------------- properties ------------------------------*)
PacketType == [char : Characteristic \cup {"battery"}, units : Seq(Unit)]

Transaction ==
  [file : FileId \cup {NoFile}, buf : Seq(Unit), idx : Nat, packet : 0 .. PacketSize,
   fileSize : Nat, sent : Nat, left : Nat, issues : 1 .. FsIssueMax]

CallOp    == {"list", "next", "info", "open", "read", "more", "close", "stat"}
Outcome   == {"accept", "idle", "keep"}
TaskState == [at : {"loop", "status", "data", "unsent", "finish"},
              op : {"none"} \cup CallOp \cup Outcome, size : Reportable]

RadioOK ==
  /\ {conn, subscribed, enabled} \subseteq BOOLEAN
  /\ air \subseteq PacketType /\ Cardinality(air) <= 1

ClientOK == want \in Request \cup {NoRequest} /\ got \in Seq(Unit)

ServiceOK ==
  /\ {pending, active} \subseteq ControlPointOpcode
  /\ tx \in Transaction /\ task \in TaskState
  /\ system \in {"on", "stop", "off"}

CommandElement == [cmd : CommandToMemory, id : FileId \cup {NoFile}]
StatusElement  == [cmd : CommandToMemory, result : ResultOfCommand, size : Reportable]
DataElement    == [cmd : CommandToMemory, units : Seq(Unit)]

QueuesOK ==
  /\ cmdQ \in Seq(CommandElement) /\ Len(cmdQ) <= 1
  /\ statusQ \in Seq(StatusElement) /\ Len(statusQ) <= 1
  /\ dataQ \in Seq(DataElement) /\ Len(dataQ) <= 1

MemoryOK == mem \in Server /\ answering \in CommandToMemory \cup {"none"}

(* The buffer, the queues and the client hold known units; queues and the  *)
(* SoftDevice hold at most one element.                                    *)
TypeOK == RadioOK /\ ClientOK /\ ServiceOK /\ QueuesOK /\ MemoryOK

(* The service does what a transfer should: answers are complete, in order *)
(* and of the request (module Transfer).                                   *)
Promised == INSTANCE Transfer

ImplementsTransfer == Promised!Spec

(* An accepted request is answered (process, process_client_request).      *)
RequestServed == Waiting ~> ~Waiting

(* When the BLE task looks into a queue, what it finds there answers the   *)
(* command it sent, not an earlier one (the glue's resets and time limits).*)
AnswersMatchCommands ==
  answering = "none" =>
    /\ task.at = "status" =>
         \A i \in DOMAIN statusQ : statusQ[i].cmd = CommandOf(task.op)
    /\ task.at = "data" =>
         \A i \in DOMAIN dataQ : dataQ[i].cmd = CommandOf(task.op)

(* While a request is active and the BLE task has nothing to do, a         *)
(* notification is under way that will wake it (process_hvn_tx_callback).  *)
ActiveRequestIsMoving ==
  task = Loop /\ pending = "IDLE" /\ IsRequest(active) => air # {}

(* The memory has a file open exactly as long as it is transferred; the    *)
(* next open is never refused (send_file_data, process).                   *)
OpenOnlyWhileTransferred ==
  task = Loop /\ cmdQ = <<>> /\ answering = "none" =>
    (mem.context # NoFile <=> active = "REQ_FILE_DATA")

(* Whatever happens to the link and the opcodes, a client never takes      *)
(* bytes of another file, another position or another request for those it *)
(* asked for (_transaction_ctx outlives connections).                      *)
NothingForeign ==
  \A i \in DOMAIN got :
    IsStatus(got[i]) \/ (i <= Len(Answer(want)) /\ got[i] = Answer(want)[i])

(* However answers get lost or late, the glue's time limits bring the BLE  *)
(* task back to its loop, where it hears the state task's STOP.            *)
BleTaskReturns == []<>(task = Loop)
=============================================================================
