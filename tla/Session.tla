------------------------------ MODULE Session ------------------------------
(***************************************************************************)
(* When a device with a valid configuration switches itself off: the time  *)
(* stamps and timeouts of the state task (process_timeouts in              *)
(* task_state.cpp) and what feeds them, the keep-alive messages of the BLE *)
(* task (task_ble.cpp) about the link (ble_system.cpp).  One unit of time  *)
(* is five seconds; a pass of the state task's loop is one step, and every *)
(* unit has one.  The memory always does what it is asked (Recorder has    *)
(* the rest), so preparing and ending a record takes no time here.         *)
(***************************************************************************)
EXTENDS Integers, Sequences

CONSTANTS
  MaxOperation,  \* max_operation_duration in units, 96 in the firmware
  MaxTime,       \* bound: the device is not watched any longer
  MaxRecords     \* bound: records made

(* The other timeouts of process_timeouts.                                 *)
NoRecord == 4
AfterRecord == 5
KeepAlive == 3
AfterDisconnect == 1

ASSUME SessionAssumption ==
  /\ MaxOperation \in Nat /\ MaxOperation >= NoRecord
  /\ MaxTime \in Nat /\ MaxRecords \in Nat

Reasons == {"norecord", "afterrecord", "disconnect", "keepalive", "max"}

VARIABLES
  now,           \* xTaskGetTickCount
  polled,        \* the state task's loop has run in this unit
  system_state,
  context,       \* [active, ble, expired], the flags of systemstate::Context
  stamps,        \* [started, end, activity, disconnect], Context::timestamps
  keepalive,     \* the queue ble_keepalive, one element
  commands,      \* the queue ble_commands
  task,          \* where the BLE task is: its loop or in stop()
  sdh,           \* the SoftDevice's task: "cold", "runs", "paused"
  flags,         \* [connect, disconnect], _has_connect_happened and so on
  handle,        \* m_conn_handle is valid
  radio,         \* the SoftDevice's link
  events,        \* events of the SoftDevice that its task has not taken
  heard,         \* history: when a request of the phone was last served
  told,          \* history: when the state task last took a keep-alive
  records        \* history: records started

state == <<polled, system_state, context, stamps, records, told>>
link == <<task, sdh, flags, handle, radio, events>>
vars == <<now, state, keepalive, commands, link, heard>>

Never == -1
On == system_state # "OFF"

OfferUnbounded(q, e) == Append(q, e)
Offer(q, e) == IF q = <<>> THEN <<e>> ELSE q
BleDepth == 2
Room == Len(commands) < BleDepth

----------------------------------------------------------------------------
(* The state task                                                          *)

(* Incremented nowhere in the code.                                        *)
RecordsPerLaunchCounter == 0

RequestsUnnoted(s, k) ==
  IF k = <<>> THEN s
  ELSE IF Head(k) = "CONNECTED" THEN [s EXCEPT !.activity = now]
  ELSE IF Head(k) = "DISCONNECTED" THEN [s EXCEPT !.disconnect = now]
  ELSE s

(* What a keep-alive message changes.                                      *)
Noted(s, k) ==
  IF k = <<>> THEN s
  ELSE IF Head(k) = "DISCONNECTED" /\ RecordsPerLaunchCounter <= 1
  THEN [s EXCEPT !.disconnect = now]
  ELSE [s EXCEPT !.activity = now]

LinkExpires(s, r) ==
  /\ s.started /\ s.activity # Never
  /\ \/ r = "disconnect" /\ s.disconnect # Never /\ now - s.disconnect > AfterDisconnect
     \/ r = "keepalive" /\ s.disconnect = Never /\ now - s.activity > KeepAlive

(* The time after a record is left once any message has come.              *)
WaitsForALink(s, r) ==
  \/ r = "norecord" /\ ~s.started /\ now > NoRecord
  \/ r = "afterrecord" /\ s.started /\ s.activity = Never /\ s.disconnect = Never
     /\ now - s.end > AfterRecord
  \/ LinkExpires(s, r)
  \/ r = "max" /\ s.started /\ now > MaxOperation

(* The longest time is not looked at while a phone is there.               *)
BusyWithoutLimit(s, r) ==
  \/ r = "norecord" /\ ~s.started /\ now > NoRecord
  \/ r = "afterrecord" /\ s.started /\ s.activity = Never /\ now - s.end > AfterRecord
  \/ LinkExpires(s, r)
  \/ r = "max" /\ s.started /\ s.activity = Never /\ now > MaxOperation

(* The timeouts of the loop.  With no record made the longest one is not   *)
(* reached; a disconnection counts after a sign of life only.              *)
Expires(s, r) ==
  \/ r = "norecord" /\ ~s.started /\ now > NoRecord
  \/ r = "afterrecord" /\ s.started /\ s.activity = Never /\ now - s.end > AfterRecord
  \/ LinkExpires(s, r)
  \/ r = "max" /\ s.started /\ now > MaxOperation

Expired(s) == {r \in Reasons : Expires(s, r)}

(* The end of the loop: process_timeouts with the stamps s.                *)
ProcessTimeouts(active, ble, s) ==
  LET t == Noted(s, keepalive)
  IN  /\ keepalive' = <<>>
      /\ told' = IF keepalive = <<>> THEN told ELSE now
      /\ stamps' = IF active THEN [t EXCEPT !.end = now] ELSE t
      /\ context' = [active |-> active, ble |-> ble,
                     expired |-> IF active THEN {} ELSE Expired(t)]
      /\ polled' = TRUE
      /\ UNCHANGED <<now, link, heard>>

Pass(s) == system_state = s

(* disable_ble_subsystem, RECORD_PREPARE and the start of the record; the  *)
(* time stamps of the previous session are reset.                          *)
StartRecord ==
  /\ records < MaxRecords
  /\ records' = records + 1
  /\ system_state' = "RECORDING"
  /\ commands' = IF context.ble /\ Room THEN Append(commands, "STOP") ELSE commands
  /\ ProcessTimeouts(TRUE, context.ble /\ ~Room,
       [stamps EXCEPT !.started = TRUE, !.activity = Never, !.disconnect = Never])

(* enable_ble_subsystem on the way into BLE_OPERATION.                     *)
EnterBle(s) ==
  /\ system_state' = "BLE_OPERATION"
  /\ UNCHANGED records
  /\ commands' = IF ~context.ble /\ Room THEN Append(commands, "START") ELSE commands
  /\ ProcessTimeouts(FALSE, context.ble \/ Room, s)

Wait ==
  /\ UNCHANGED <<system_state, records, commands>>
  /\ ProcessTimeouts(context.active, context.ble, stamps)

PassInit == Pass("INIT") /\ (StartRecord \/ EnterBle(stamps))

(* The loop noted the end of the record ten ticks before it saw the button *)
(* released.                                                               *)
PassRecording ==
  /\ Pass("RECORDING")
  /\ Wait \/ EnterBle([stamps EXCEPT !.end = now])

PassBle ==
  /\ Pass("BLE_OPERATION")
  /\ context.expired = {}
  /\ Wait \/ StartRecord

(* The timeouts are before the button.                                     *)
ShutDown ==
  /\ Pass("BLE_OPERATION")
  /\ context.expired # {}
  /\ system_state' = "OFF"
  /\ UNCHANGED <<now, polled, context, stamps, records, told, keepalive,
                 commands, link, heard>>

StateTask == PassInit \/ PassRecording \/ PassBle \/ ShutDown

----------------------------------------------------------------------------
(* The BLE task and the task of the SoftDevice, which have one priority:   *)
(* events are taken when the BLE task waits, in its loop or in stop().     *)

Ble == On /\ UNCHANGED <<now, state>>

BleStart ==
  /\ Ble /\ task = "loop"
  /\ commands # <<>> /\ Head(commands) = "START"
  /\ commands' = Tail(commands)
  /\ sdh' = "runs"
  /\ radio' = IF sdh = "cold" THEN "advertising" ELSE radio
  /\ UNCHANGED <<keepalive, task, flags, handle, events, heard>>

(* stop: the link is to be closed, then the file transfer service waits    *)
(* for the memory, and at last the SoftDevice's task is suspended.         *)
BleStop ==
  /\ Ble /\ task = "loop"
  /\ commands # <<>> /\ Head(commands) = "STOP"
  /\ commands' = Tail(commands)
  /\ IF handle /\ radio = "connected"
     THEN handle' = FALSE /\ radio' = "closing"
     ELSE UNCHANGED <<handle, radio>>
  /\ task' = "stop"
  /\ UNCHANGED <<keepalive, sdh, flags, events, heard>>

BlePause ==
  /\ Ble /\ task = "stop"
  /\ sdh' = IF sdh = "runs" THEN "paused" ELSE sdh
  /\ task' = "loop"
  /\ UNCHANGED <<keepalive, commands, flags, handle, radio, events, heard>>

(* A request of the phone is served, a call of the glue succeeds.          *)
BleServe ==
  /\ Ble /\ task = "loop"
  /\ handle /\ sdh = "runs"
  /\ keepalive' = Offer(keepalive, "FILESYSTEM_EVENT")
  /\ heard' = now
  /\ UNCHANGED <<commands, link>>

(* The loop asks for a new connection first and then for a lost one; the   *)
(* state task may empty the queue in between.                              *)
ReportConnect ==
  /\ Ble /\ task = "loop"
  /\ flags.connect
  /\ keepalive' = Offer(keepalive, "CONNECTED")
  /\ flags' = [flags EXCEPT !.connect = FALSE]
  /\ UNCHANGED <<commands, task, sdh, handle, radio, events, heard>>

ReportDisconnect ==
  /\ Ble /\ task = "loop"
  /\ ~flags.connect /\ flags.disconnect
  /\ keepalive' = Offer(keepalive, "DISCONNECTED")
  /\ flags' = [flags EXCEPT !.disconnect = FALSE]
  /\ UNCHANGED <<commands, task, sdh, handle, radio, events, heard>>

(* ble_evt_handler; advertising starts again after a link.                 *)
Taken(e) == events # <<>> /\ Head(events) = e /\ events' = Tail(events)

SdhConnected ==
  /\ Ble /\ sdh = "runs"
  /\ Taken("CONNECTED")
  /\ handle' = TRUE
  /\ flags' = [flags EXCEPT !.connect = TRUE]
  /\ UNCHANGED <<keepalive, commands, task, sdh, radio, heard>>

SdhDisconnected ==
  /\ Ble /\ sdh = "runs"
  /\ Taken("DISCONNECTED")
  /\ handle' = FALSE
  /\ flags' = [connect |-> FALSE, disconnect |-> TRUE]
  /\ radio' = "advertising"
  /\ UNCHANGED <<keepalive, commands, task, sdh, heard>>

----------------------------------------------------------------------------
(* The phone and the SoftDevice, which works while its task is suspended.  *)
(* Both tasks here loop every few ticks: making a link takes longer than   *)
(* that, and no unit of time ends with work left for them.                 *)
Settled ==
  /\ task = "loop" /\ commands = <<>>
  /\ ~flags.connect /\ ~flags.disconnect
  /\ events = <<>> \/ sdh # "runs"

Connect ==
  /\ Ble
  /\ keepalive = <<>> /\ Settled
  /\ radio = "advertising"
  /\ radio' = "connected"
  /\ events' = Append(events, "CONNECTED")
  /\ UNCHANGED <<keepalive, commands, task, sdh, flags, handle, heard>>

LinkEnds ==
  /\ Ble
  /\ radio \in {"connected", "closing"}
  /\ radio' = "idle"
  /\ events' = Append(events, "DISCONNECTED")
  /\ UNCHANGED <<keepalive, commands, task, sdh, flags, handle, heard>>

BleTask ==
  \/ BleStart \/ BleStop \/ BlePause \/ BleServe \/ ReportConnect \/ ReportDisconnect

Tick ==
  /\ On
  /\ polled /\ Settled
  /\ context.expired = {} \/ system_state # "BLE_OPERATION"
  /\ now < MaxTime
  /\ now' = now + 1
  /\ polled' = FALSE
  /\ UNCHANGED <<system_state, context, stamps, records, told, keepalive,
                 commands, link, heard>>

Init ==
  /\ now = 0
  /\ polled = FALSE
  /\ system_state = "INIT"
  /\ context = [active |-> FALSE, ble |-> FALSE, expired |-> {}]
  /\ stamps = [started |-> FALSE, end |-> 0, activity |-> Never, disconnect |-> Never]
  /\ keepalive = <<>> /\ commands = <<>> /\ events = <<>>
  /\ task = "loop" /\ sdh = "cold" /\ handle = FALSE /\ radio = "idle"
  /\ flags = [connect |-> FALSE, disconnect |-> FALSE]
  /\ heard = Never /\ told = Never
  /\ records = 0

Next ==
  \/ StateTask \/ BleTask \/ SdhConnected \/ SdhDisconnected
  \/ Connect \/ LinkEnds \/ Tick

Spec == Init /\ [][Next]_vars

----------------------------------------------------------------------------
(* Properties                                                              *)

Messages == {"CONNECTED", "DISCONNECTED", "FILESYSTEM_EVENT"}
Past == Never..now

TimeOK == now \in 0..MaxTime /\ heard \in Past /\ told \in Past

StampsOK ==
  /\ stamps \in [started : BOOLEAN, end : Past, activity : Past, disconnect : Past]
  /\ stamps.end # Never
  /\ stamps.activity <= told /\ stamps.disconnect <= told

StateOK ==
  /\ polled \in BOOLEAN /\ records \in 0..MaxRecords
  /\ system_state \in {"INIT", "RECORDING", "BLE_OPERATION", "OFF"}
  /\ context \in [active : BOOLEAN, ble : BOOLEAN, expired : SUBSET Reasons]

QueuesOK ==
  /\ keepalive \in {<<>>} \cup {<<e>> : e \in Messages}
  /\ commands \in Seq({"START", "STOP"}) /\ Len(commands) <= BleDepth
  /\ events \in {<<>>, <<"CONNECTED">>, <<"DISCONNECTED">>, <<"CONNECTED", "DISCONNECTED">>}

LinkOK ==
  /\ task \in {"loop", "stop"} /\ sdh \in {"cold", "runs", "paused"}
  /\ radio \in {"idle", "advertising", "connected", "closing"}
  /\ flags \in [connect : BOOLEAN, disconnect : BOOLEAN] /\ handle \in BOOLEAN

(* The types, with the stamps in the past.                                 *)
TypeOK == TimeOK /\ StampsOK /\ StateOK /\ QueuesOK /\ LinkOK

(* A pass of the loop does not find the phone quiet when a request of it   *)
(* was served within the last three units, although its keep-alive message *)
(* shares a queue of one element with those about the link.                *)
ServedIsNotCut ==
  [][context.expired = {} /\ context'.expired \cap {"keepalive", "afterrecord"} # {} /\ heard # Never
     => now - heard >= KeepAlive]_vars

Later(a, b) == IF a > b THEN a ELSE b

(* Out of a record the device is on no longer than the longest timeout     *)
(* after the last record or message, whatever was lost or came late.       *)
QuietSwitchesOff ==
  system_state = "BLE_OPERATION" => now - Later(stamps.end, told) <= AfterRecord + 1

(* And it is never on for longer than max_operation_duration, unless that  *)
(* time passes in a record.                                                *)
LimitedOperation ==
  system_state = "BLE_OPERATION" => now <= Later(stamps.end, MaxOperation) + 1

=============================================================================
