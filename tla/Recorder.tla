------------------------------ MODULE Recorder ------------------------------
(***************************************************************************)
(* The state task (targets/dictofun/tasks/systemstate/task_state.cpp) with *)
(* the tasks it commands through queues of one or two elements: the memory *)
(* task, the audio task and the BLE task.  The state and the audio task    *)
(* have a higher priority than the memory and the BLE task (main.cpp), so  *)
(* those run only while both wait; between two waits a task is one action. *)
(* A wait ends with an element of the queue or, if the memory task works   *)
(* on an operation of Long or will not answer at all, with the time limit. *)
(* The file system is reduced to what its answers depend on; MemoryTask    *)
(* has the rest, and Session the timeouts of process_timeouts.             *)
(***************************************************************************)
EXTENDS Naturals, Sequences, FiniteSets

CONSTANTS
  DataDepth,   \* length of the audio data queue, 4 in the firmware
  MaxPresses,  \* bound: times the button is pressed
  Long,        \* operations of the memory task that outlast time limits
  Faults,      \* what may fail: "mount", "create", "write", "close", "fills"
  Configs,     \* what load_early finds: "FIELD", "NONE"
  Starts       \* reset_reason: "UNKNOWN", "FILE_SYSTEM_ERROR_DURING_BLE"

Commands == {"SELECT_OWNER_AUDIO", "SELECT_OWNER_BLE", "CREATE_RECORD",
             "CLOSE_WRITTEN_FILE", "PERFORM_MEMORY_CHECK", "FORMAT_FS"}

ASSUME RecorderAssumption ==
  /\ DataDepth \in Nat \ {0}
  /\ MaxPresses \in Nat
  /\ Long \subseteq Commands \cup {"START"}
  /\ Faults \subseteq {"mount", "create", "write", "close", "fills"}
  /\ Configs \subseteq {"FIELD", "NONE"}
  /\ Starts \subseteq {"UNKNOWN", "FILE_SYSTEM_ERROR_DURING_BLE"}

VARIABLES
  system_state,   \* context->system_state
  pc,             \* where the state task waits or goes on
  memory_status,  \* context->memory_status
  context,        \* the flags of systemstate::Context
  command,        \* the queue memory_commands, one element
  status,         \* the queue memory_status, one element
  event,          \* the queue memory_event, one element
  mem,            \* the memory task
  audio,          \* the audio task and its command queue
  data,           \* the queue audio_data: for each sample its take
  ble,            \* the BLE task and its command queue
  button,         \* [down, presses]
  age,            \* how long the device is on: 800 ticks, 2 s, 20 s, 8 min
  file            \* history: the take of the open record, foreign samples in it

task == <<system_state, pc, memory_status, context>>
vars == <<task, command, status, event, mem, audio, data, ble, button, age, file>>

States == {"INIT", "BATTERY_LOW", "RECORD_PREPARE", "RECORDING", "RECORD_END",
           "BLE_OPERATION", "OUT_OF_MEMORY", "MEMORY_IS_CORRUPT", "SHUTDOWN"}

Waits == {"own_audio", "own_ble", "own_config", "own_reset", "create", "close",
          "check", "format"}
Points == Waits \cup {"poll", "look", "start_ble", "start_config", "start_reset",
                     "stop_config", "release", "off"}

On == pc # "off"

----------------------------------------------------------------------------
(* Queues                                                                  *)

(* xQueueSend without waiting into a queue of one element.                 *)
Offer(q, e) == IF q = <<>> THEN <<e>> ELSE q

Results == {"OK", "IS_READY", "FORMAT_REQUIRED", "ERROR_BUSY", "ERROR_GENERAL",
            "ERROR_FATAL", "ERROR_OUT_OF_MEMORY"}
Answer(c, r) == [cmd |-> c, status |-> r]

BleDepth == 2
(* Mutant: the queue is longer than it was made.                           *)
OfferBleUnbounded(c) == ble' = [ble EXCEPT !.queue = Append(@, c)]

OfferBle(c) ==
  ble' = IF Len(ble.queue) < BleDepth THEN [ble EXCEPT !.queue = Append(@, c)] ELSE ble

(* Reset the status queue, then send the command.                          *)
Ask(c) == status' = <<>> /\ command' = Offer(command, c)

(* The tasks of high priority are waiting.                                 *)
StateReady ==
  \/ pc = "look"
  \/ pc \in Waits /\ status # <<>>
  \/ pc \in {"start_ble", "start_config", "start_reset"} /\ (context.ble \/ Len(ble.queue) < BleDepth)
LowPriorityRuns == On /\ ~StateReady /\ audio.queue = <<>>

(* Nothing is finished or begun by the memory task for a long time.        *)
SlowOrIdle == mem.doing \in Long \/ (mem.doing = "none" /\ command = <<>>)

(* The time limit of a wait for the memory task passes.                    *)
LimitPasses == status = <<>> /\ SlowOrIdle

(* Mutant: the state task does not wait for the answer.                    *)
WokenAtOnce == TRUE

Woken == status # <<>> \/ LimitPasses

----------------------------------------------------------------------------
(* Requests of the state task                                              *)

(* set_memory_ownership: BLE is told to use the real file system, then the *)
(* memory task is asked and the answer is awaited.                         *)
SetMemoryOwnership(owner, at) ==
  /\ OfferBle("CONNECT_FS")
  /\ Ask(owner)
  /\ pc' = at

(* Mutant: an audio task that still records is not told to start.          *)
RequestRecordStartOnce ==
  /\ audio' = IF audio.recording THEN audio
              ELSE [audio EXCEPT !.queue = Offer(@, "RECORD_START")]
  /\ context' = [context EXCEPT !.started = TRUE, !.active = TRUE]
  /\ system_state' = "RECORDING"
  /\ pc' = "poll"

(* request_record_start; on success the state is RECORDING even if the     *)
(* record could not be created.                                            *)
RequestRecordStart ==
  /\ audio' = [audio EXCEPT !.queue = Offer(@, "RECORD_START")]
  /\ context' = [context EXCEPT !.started = TRUE,
                                !.active = @ \/ audio.queue = <<>>]
  /\ system_state' = IF audio.queue = <<>> THEN "RECORDING" ELSE "MEMORY_IS_CORRUPT"
  /\ pc' = "poll"

(* Mutant: the flag is cleared whether or not STOP could be sent.          *)
DisableBleAnyway(flags) ==
  IF context.ble
  THEN /\ context' = [flags EXCEPT !.ble = FALSE]
       /\ IF Len(ble.queue) < BleDepth THEN OfferBle("STOP") ELSE UNCHANGED ble
  ELSE UNCHANGED ble /\ context' = flags

(* disable_ble_subsystem: the flag follows the command.                    *)
DisableBle(flags) ==
  IF context.ble /\ Len(ble.queue) < BleDepth
  THEN OfferBle("STOP") /\ context' = [flags EXCEPT !.ble = FALSE]
  ELSE UNCHANGED ble /\ context' = flags

(* The end of the loop body: the new state, and BLE enabled on the way     *)
(* into BLE_OPERATION.                                                     *)
Transition(s) ==
  IF s = "BLE_OPERATION"
  THEN SetMemoryOwnership("SELECT_OWNER_BLE", "own_ble") /\ UNCHANGED system_state
  ELSE system_state' = s /\ pc' = "poll" /\ UNCHANGED <<ble, command, status>>

Stay == pc' = "poll" /\ UNCHANGED <<system_state, context, command, status, audio, ble>>

(* The rest of the world during a step of the state task.                  *)
Others == UNCHANGED <<mem, data, button, age, file>>

----------------------------------------------------------------------------
(* One state of the machine, from the top of the loop to the next wait     *)

Look(s) == pc = "look" /\ system_state = s /\ Others /\ UNCHANGED <<memory_status, event>>

LookInit ==
  /\ Look("INIT")
  /\ UNCHANGED audio
  /\ \/ age >= 1 /\ Transition("BLE_OPERATION") /\ UNCHANGED context
     \/ age = 0 /\ button.down /\ Transition("RECORD_PREPARE") /\ UNCHANGED context
     \/ age = 0 /\ ~button.down /\ Stay

LookRecordPrepare ==
  /\ Look("RECORD_PREPARE")
  /\ \/ memory_status = "BUSY" /\ Stay
     \/ /\ memory_status = "READY"
        /\ SetMemoryOwnership("SELECT_OWNER_AUDIO", "own_audio")
        /\ UNCHANGED <<system_state, context, audio>>
     \/ /\ memory_status = "OUT_OF_MEMORY" /\ Transition("OUT_OF_MEMORY")
        /\ UNCHANGED <<context, audio>>
     \/ /\ memory_status = "CORRUPT" /\ Transition("MEMORY_IS_CORRUPT")
        /\ UNCHANGED <<context, audio>>

(* Mutant: a record ends with a timeout only, which it holds back itself.  *)
LookRecordingExpires ==
  /\ Look("RECORDING")
  /\ UNCHANGED audio
  /\ IF context.expired
     THEN context' = [context EXCEPT !.active = FALSE] /\ Transition("RECORD_END")
     ELSE pc' = "poll" /\ UNCHANGED <<system_state, context, command, status, ble>>

(* A release is not followed by a stop of the audio task; after a problem  *)
(* of the memory the record stays active.                                  *)
LookRecording ==
  /\ Look("RECORDING")
  /\ IF memory_status \in {"OUT_OF_MEMORY", "CORRUPT"}
     THEN /\ audio' = [audio EXCEPT !.queue = Offer(@, "RECORD_STOP")]
          /\ Transition("RECORD_END")
          /\ UNCHANGED context
     ELSE IF button.down THEN Stay
     ELSE /\ context' = [context EXCEPT !.active = FALSE]
          /\ Transition("RECORD_END")
          /\ UNCHANGED audio

LookRecordEnd ==
  /\ Look("RECORD_END")
  /\ UNCHANGED <<context, audio>>
  /\ \/ memory_status = "OUT_OF_MEMORY" /\ Transition("OUT_OF_MEMORY")
     \/ memory_status = "CORRUPT" /\ Transition("MEMORY_IS_CORRUPT")
     \/ /\ memory_status \in {"READY", "BUSY"}
        /\ IF command = <<>>
           THEN /\ Ask("CLOSE_WRITTEN_FILE")
                /\ pc' = "close"
                /\ UNCHANGED <<system_state, ble>>
           ELSE /\ status' = <<>>
                /\ system_state' = "MEMORY_IS_CORRUPT"
                /\ pc' = "poll"
                /\ UNCHANGED <<command, ble>>

(* Every later reason to leave overrides the earlier ones.                 *)
LookBleOperation ==
  /\ Look("BLE_OPERATION")
  /\ UNCHANGED <<audio, command, status>>
  /\ LET pressed == button.down /\ memory_status # "OUT_OF_MEMORY"
     IN  /\ system_state' = IF context.expired THEN "SHUTDOWN"
                            ELSE IF context.low THEN "BATTERY_LOW"
                            ELSE IF pressed THEN "RECORD_PREPARE"
                            ELSE "BLE_OPERATION"
         /\ IF context.expired \/ context.low \/ pressed
            THEN DisableBle(context)
            ELSE UNCHANGED <<ble, context>>
  /\ pc' = "poll"

(* BATTERY_LOW, OUT_OF_MEMORY and MEMORY_IS_CORRUPT are indicated for five *)
(* seconds.  The two last ones share a time stamp.                         *)
AfterIndication ==
  [BATTERY_LOW |-> "SHUTDOWN", OUT_OF_MEMORY |-> "BLE_OPERATION",
   MEMORY_IS_CORRUPT |-> "SHUTDOWN"]

LookIndication ==
  \E s \in DOMAIN AfterIndication :
    /\ Look(s)
    /\ context' = IF s = "BATTERY_LOW" THEN [context EXCEPT !.low_seen = TRUE]
                  ELSE [context EXCEPT !.issue_seen = TRUE]
    /\ pc' = "poll"
    /\ UNCHANGED <<system_state, command, status, audio, ble>>

IndicationOver ==
  \E s \in DOMAIN AfterIndication :
    /\ Look(s)
    /\ IF s = "BATTERY_LOW" THEN context.low_seen ELSE context.issue_seen
    /\ Transition(AfterIndication[s])
    /\ UNCHANGED <<context, audio>>

(* perform_pre_shutdown_check, unless the battery is low.                  *)
LookShutdown ==
  /\ Look("SHUTDOWN")
  /\ UNCHANGED <<system_state, context, audio, ble>>
  /\ IF context.low \/ command # <<>>
     THEN pc' = "release" /\ UNCHANGED <<command, status>>
     ELSE pc' = "check" /\ Ask("PERFORM_MEMORY_CHECK")

----------------------------------------------------------------------------
(* The state task after a wait                                             *)

Wake(at) == pc = at /\ Woken /\ Others /\ UNCHANGED event

(* Mutant: the record is started and not created.                          *)
OwnedByAudioStarts ==
  /\ Wake("own_audio")
  /\ status' = <<>>
  /\ UNCHANGED <<memory_status, command, ble>>
  /\ RequestRecordStart

(* The owner switch's result is ignored; request_record_creation.          *)
OwnedByAudio ==
  /\ Wake("own_audio")
  /\ status' = <<>>
  /\ UNCHANGED <<memory_status, ble>>
  /\ IF command = <<>>
     THEN command' = <<"CREATE_RECORD">> /\ pc' = "create"
          /\ UNCHANGED <<system_state, context, audio>>
     ELSE UNCHANGED command /\ RequestRecordStart

RecordCreated ==
  /\ Wake("create")
  /\ status' = <<>>
  /\ RequestRecordStart
  /\ UNCHANGED <<memory_status, command, ble>>

RecordClosed ==
  /\ Wake("close")
  /\ UNCHANGED <<memory_status, context, audio>>
  /\ IF status # <<>> /\ Head(status).status = "OK"
     THEN Transition("BLE_OPERATION")
     ELSE /\ status' = <<>>
          /\ system_state' = "MEMORY_IS_CORRUPT"
          /\ pc' = "poll"
          /\ UNCHANGED <<command, ble>>

OwnedByBle ==
  /\ pc \in {"own_ble", "own_config", "own_reset"}
  /\ Wake(pc)
  /\ status' = <<>>
  /\ pc' = CASE pc = "own_ble" -> "start_ble"
             [] pc = "own_config" -> "start_config"
             [] pc = "own_reset" -> "start_reset"
  /\ UNCHANGED <<system_state, memory_status, context, command, audio, ble>>

(* START waits for room in the queue, for a fifth of a second; the result  *)
(* of enable_ble_subsystem is ignored on the way into BLE_OPERATION, and   *)
(* after a reset, when the state task only then chooses its first state.   *)
FirstState(mode, down) == IF mode = "FIELD" /\ down THEN "RECORD_PREPARE" ELSE "INIT"

StartBle ==
  /\ pc \in {"start_ble", "start_reset"}
  /\ IF context.ble THEN UNCHANGED <<ble, context>>
     ELSE \/ /\ Len(ble.queue) < BleDepth
             /\ OfferBle("START")
             /\ context' = [context EXCEPT !.ble = TRUE]
          \/ Len(ble.queue) = BleDepth /\ UNCHANGED <<ble, context>>
  /\ system_state' = IF pc = "start_ble" THEN "BLE_OPERATION"
                      ELSE FirstState(context.mode, button.down)
  /\ pc' = IF pc = "start_ble" THEN "poll" ELSE "look"
  /\ UNCHANGED <<memory_status, command, status, event, audio>>
  /\ Others

(* Mutant: the format is not waited for.                                   *)
CheckAnsweredLeaves ==
  /\ Wake("check")
  /\ status' = <<>>
  /\ UNCHANGED <<system_state, memory_status, context, audio, ble>>
  /\ command' = IF status = <<>> \/ Head(status).status = "FORMAT_REQUIRED"
                THEN Offer(command, "FORMAT_FS") ELSE command
  /\ pc' = "release"

CheckAnswered ==
  /\ Wake("check")
  /\ status' = <<>>
  /\ UNCHANGED <<system_state, context, audio, ble>>
  /\ IF (status = <<>> \/ Head(status).status = "FORMAT_REQUIRED") /\ command = <<>>
     THEN command' = <<"FORMAT_FS">> /\ memory_status' = "BUSY" /\ pc' = "format"
     ELSE pc' = "release" /\ UNCHANGED <<command, memory_status>>

FormatAnswered ==
  /\ Wake("format")
  /\ status' = <<>>
  /\ pc' = "release"
  /\ UNCHANGED <<system_state, memory_status, context, command, audio, ble>>

(* shutdown_ldo, once the button is released.                              *)
PowerOff ==
  /\ pc = "release"
  /\ ~button.down
  /\ pc' = "off"
  /\ UNCHANGED <<system_state, memory_status, context, command, status, event,
                 audio, ble>>
  /\ Others

----------------------------------------------------------------------------
(* The second half of the loop: queues and timeouts                        *)

(* The first answer while memory_status is BUSY.                           *)
Reported(s) ==
  CASE s = "IS_READY"                             -> "READY"
    [] s = "ERROR_OUT_OF_MEMORY"                  -> "OUT_OF_MEMORY"
    [] s \in {"ERROR_FATAL", "ERROR_GENERAL"}     -> "CORRUPT"
    [] OTHER                                      -> "BUSY"

(* Mutant: once a record was made, no timeout expires.                     *)
ExpiredUnrecorded(flags) ==
  IF flags.mode # "FIELD" \/ flags.started THEN {FALSE}
  ELSE IF age >= 3 THEN {TRUE} ELSE {FALSE}

(* process_timeouts: the shorter ones are left open here.                  *)
Expired(flags) ==
  IF flags.mode # "FIELD" \/ flags.active THEN {FALSE}
  ELSE IF ~flags.started THEN {age >= 3}
  ELSE {TRUE} \cup (IF age < 4 THEN {FALSE} ELSE {})

LoadNow == context.mode = "NONE" /\ age >= 2

Poll ==
  /\ pc = "poll"
  /\ Others
  /\ UNCHANGED <<system_state, audio>>
  /\ LET busy  == memory_status = "BUSY"
         first == IF busy /\ status # <<>> THEN Reported(Head(status).status)
                  ELSE memory_status
     IN  /\ memory_status' = IF event = <<>> THEN first ELSE Reported(Head(event))
         /\ event' = <<>>
         /\ \E low \in BOOLEAN :
              LET flags == [context EXCEPT !.low = @ \/ low]
              IN  IF LoadNow /\ ~context.ble
                  THEN /\ context' = flags
                       /\ SetMemoryOwnership("SELECT_OWNER_BLE", "own_config")
                  ELSE /\ \E expired \in Expired(flags) :
                            context' = [flags EXCEPT !.expired = expired,
                              !.mode = IF LoadNow THEN "DEVELOPMENT" ELSE @]
                       /\ status' = IF busy THEN <<>> ELSE status
                       /\ pc' = "look"
                       /\ UNCHANGED <<command, ble>>

(* load_nvconfig, with BLE started for it: the flag stays set after the    *)
(* STOP.  A configuration that is not valid is replaced by the default.    *)
StartForConfig ==
  /\ pc = "start_config"
  /\ IF Len(ble.queue) < BleDepth
     THEN /\ OfferBle("START")
          /\ context' = [context EXCEPT !.ble = TRUE, !.mode = "DEVELOPMENT"]
          /\ pc' = "stop_config"
     ELSE /\ context' = [context EXCEPT !.mode = "DEVELOPMENT", !.expired = FALSE]
          /\ pc' = "look"
          /\ UNCHANGED ble
  /\ UNCHANGED <<system_state, memory_status, command, status, event, audio>>
  /\ Others

StopAfterConfig ==
  /\ pc = "stop_config"
  /\ OfferBle("STOP")
  /\ context' = [context EXCEPT !.expired = FALSE]
  /\ pc' = "look"
  /\ UNCHANGED <<system_state, memory_status, command, status, event, audio>>
  /\ Others

StateTask ==
  \/ Poll \/ LookInit \/ LookRecordPrepare \/ LookRecording \/ LookRecordEnd
  \/ LookBleOperation \/ LookIndication \/ IndicationOver \/ LookShutdown
  \/ OwnedByAudio \/ RecordCreated \/ RecordClosed \/ OwnedByBle \/ StartBle
  \/ StartForConfig \/ StopAfterConfig \/ CheckAnswered \/ FormatAnswered \/ PowerOff

----------------------------------------------------------------------------
(* The memory task                                                         *)

MayFail(f, r) == IF f \in Faults THEN {r} ELSE {}

Memory == LowPriorityRuns /\ UNCHANGED <<task, audio, ble, button, age>>

(* init_fs: the results, and what is left.                                 *)
Mounts ==
  {IF mem.full THEN "ERROR_OUT_OF_MEMORY" ELSE "OK"}
    \cup MayFail("fills", "ERROR_OUT_OF_MEMORY") \cup MayFail("mount", "ERROR_GENERAL")
Mounted(r) == [mem EXCEPT !.mounted = r # "ERROR_GENERAL",
                          !.full = r = "ERROR_OUT_OF_MEMORY",
                          !.writing = FALSE, !.doing = "none"]

(* The prologue, in two steps: the answer may wake the state task before   *)
(* the command queue is reset because the mount took long.                 *)
MemStarted ==
  /\ Memory /\ mem.doing = "START"
  /\ \E r \in Mounts :
       /\ mem' = [Mounted(r) EXCEPT !.doing = "RESET"]
       /\ status' = Offer(status, Answer("MOUNT_FS",
                            IF r = "OK" THEN "IS_READY" ELSE "ERROR_BUSY"))
  /\ UNCHANGED <<command, event, data, file>>

MemReset ==
  /\ Memory /\ mem.doing = "RESET"
  /\ mem' = [mem EXCEPT !.doing = "none"]
  /\ command' = IF age >= 2 THEN <<>> ELSE command
  /\ UNCHANGED <<status, event, data, file>>

(* The audio data are emptied before the next command is looked for.       *)
Draining == mem.owner = "AUDIO" /\ mem.open /\ data # <<>>

MemTake ==
  /\ Memory /\ mem.doing = "none"
  /\ ~Draining
  /\ command # <<>>
  /\ mem' = [mem EXCEPT !.doing = Head(command)]
  /\ command' = <<>>
  /\ UNCHANGED <<status, event, data, file>>

(* process_request_from_state: the end of a command, and its answer.       *)
Done(c, r) ==
  /\ status' = Offer(status, Answer(c, r))
  /\ UNCHANGED <<command, event, data>>

MemSelect ==
  /\ Memory
  /\ UNCHANGED file
  /\ \E r \in Mounts :
       \/ /\ mem.doing = "SELECT_OWNER_BLE"
          /\ mem' = [Mounted(r) EXCEPT
                       !.owner = IF r = "ERROR_GENERAL" THEN @ ELSE "BLE"]
          /\ Done(mem.doing, IF r = "ERROR_GENERAL" THEN r ELSE "OK")
       \/ /\ mem.doing = "SELECT_OWNER_AUDIO"
          /\ mem' = [Mounted(r) EXCEPT !.owner = IF r = "OK" THEN "AUDIO" ELSE @]
          /\ Done(mem.doing, r)

(* A record belongs to the next take of the audio task.                    *)
MemCreate ==
  /\ Memory /\ mem.doing = "CREATE_RECORD"
  /\ \E r \in (IF mem.full THEN {"ERROR_OUT_OF_MEMORY"}
               ELSE IF mem.writing THEN {"ERROR_GENERAL"}
               ELSE {"OK"} \cup MayFail("create", "ERROR_GENERAL")) :
       /\ IF r = "OK"
          THEN /\ mem' = [mem EXCEPT !.doing = "none", !.open = TRUE, !.writing = TRUE]
               /\ file' = [take |-> audio.takes + 1, foreign |-> 0]
          ELSE mem' = [mem EXCEPT !.doing = "none"] /\ UNCHANGED file
       /\ Done(mem.doing, r)

(* To close what is not open succeeds.                                     *)
MemClose ==
  /\ Memory /\ mem.doing = "CLOSE_WRITTEN_FILE"
  /\ \E r \in {"OK"} \cup (IF mem.writing THEN MayFail("close", "ERROR_GENERAL") ELSE {}) :
       /\ mem' = [mem EXCEPT !.doing = "none", !.writing = FALSE,
                             !.open = @ /\ r # "OK"]
       /\ Done(mem.doing, r)
  /\ UNCHANGED file

(* A memory is to be formatted when it is full or nearly so.               *)
MemCheck ==
  /\ Memory /\ mem.doing = "PERFORM_MEMORY_CHECK"
  /\ \E r \in (IF ~mem.mounted \/ mem.writing THEN {"ERROR_GENERAL"}
               ELSE IF mem.full THEN {"FORMAT_REQUIRED"}
               ELSE {"OK", "FORMAT_REQUIRED"} \cup MayFail("close", "ERROR_GENERAL")) :
       /\ mem' = [mem EXCEPT !.doing = "none"]
       /\ Done(mem.doing, r)
  /\ UNCHANGED file

(* FORMAT_FS: a mount of a mounted file system formats it.                 *)
MemFormat ==
  /\ Memory /\ mem.doing = "FORMAT_FS"
  /\ \E r \in {"OK"} \cup MayFail("mount", "ERROR_GENERAL") :
       /\ mem' = Mounted(r)
       /\ Done(mem.doing, r)
  /\ UNCHANGED file

(* One sample.  Without space the record is closed and the event sent.     *)
MemSample ==
  /\ Memory /\ mem.doing = "none"
  /\ Draining
  /\ data' = Tail(data)
  /\ UNCHANGED <<command, status>>
  /\ \/ /\ ~mem.full
        /\ file' = IF mem.writing /\ Head(data) # file.take
                   THEN [file EXCEPT !.foreign = @ + 1] ELSE file
        /\ UNCHANGED <<mem, event>>
     \/ ~mem.full /\ "write" \in Faults /\ UNCHANGED <<mem, event, file>>
     \/ /\ mem.full \/ (mem.writing /\ "fills" \in Faults)
        /\ mem' = [mem EXCEPT !.open = FALSE, !.writing = FALSE, !.full = TRUE]
        /\ \E e \in {"ERROR_OUT_OF_MEMORY"} \cup
                    (IF mem.writing THEN MayFail("close", "ERROR_FATAL") ELSE {}) :
             event' = Offer(event, e)
        /\ UNCHANGED file

(* The phone opens and closes files; is_file_open is shared with records.  *)
MemServesBle ==
  /\ Memory /\ mem.doing = "none"
  /\ mem.owner = "BLE" /\ mem.mounted /\ ble.on
  /\ mem' = [mem EXCEPT !.open = ~@]
  /\ UNCHANGED <<command, status, event, data, file>>

MemoryTask ==
  \/ MemStarted \/ MemReset \/ MemTake \/ MemSelect \/ MemCreate \/ MemClose
  \/ MemCheck \/ MemFormat \/ MemSample

----------------------------------------------------------------------------
(* The audio task, the BLE task, the user and the time                     *)

AudioTake ==
  /\ On
  /\ audio.queue # <<>>
  /\ audio' = IF Head(audio.queue) = "RECORD_START"
              THEN [queue |-> <<>>, recording |-> TRUE, takes |-> audio.takes + 1]
              ELSE [audio EXCEPT !.queue = <<>>, !.recording = FALSE]
  /\ UNCHANGED <<task, command, status, event, mem, data, ble, button, age, file>>

(* A sample that finds the queue full is lost.                             *)
AudioSample ==
  /\ On
  /\ audio.recording
  /\ Len(data) < DataDepth
  /\ data' = Append(data, audio.takes)
  /\ UNCHANGED <<task, command, status, event, mem, audio, ble, button, age, file>>

BleTake ==
  /\ LowPriorityRuns
  /\ ble.queue # <<>>
  /\ ble' = [queue |-> Tail(ble.queue),
             on    |-> IF Head(ble.queue) = "CONNECT_FS" THEN ble.on
                       ELSE Head(ble.queue) = "START"]
  /\ UNCHANGED <<task, command, status, event, mem, audio, data, button, age, file>>

Press ==
  /\ On
  /\ ~button.down /\ button.presses < MaxPresses
  /\ button' = [down |-> TRUE, presses |-> button.presses + 1]
  /\ UNCHANGED <<task, command, status, event, mem, audio, data, ble, age, file>>

Release ==
  /\ On
  /\ button.down
  /\ button' = [button EXCEPT !.down = FALSE]
  /\ UNCHANGED <<task, command, status, event, mem, audio, data, ble, age, file>>

(* The memory task does within 800 ticks what may not take long.           *)
Tick ==
  /\ On
  /\ age < 4
  /\ SlowOrIdle
  /\ age' = age + 1
  /\ UNCHANGED <<task, command, status, event, mem, audio, data, ble, button, file>>

(* After a reset by the file transfer service (Fts), analyze_reset_reason  *)
(* sends SELECT_OWNER_BLE and then enables BLE, which sends it once more   *)
(* and waits: the answer to the mount ends that wait.                      *)
FirstRequest(reason) ==
  IF reason = "UNKNOWN" THEN command = <<>> /\ ble = [queue |-> <<>>, on |-> FALSE]
  ELSE command = <<"SELECT_OWNER_BLE">> /\ ble = [queue |-> <<"CONNECT_FS">>, on |-> FALSE]

Init ==
  /\ \E down \in BOOLEAN, mode \in Configs, reason \in Starts :
       /\ button = [down |-> down, presses |-> IF down THEN 1 ELSE 0]
       /\ FirstRequest(reason)
       /\ pc = IF reason = "UNKNOWN" THEN "look" ELSE "own_reset"
       /\ system_state = FirstState(mode, down /\ reason = "UNKNOWN")
       /\ context = [active |-> FALSE, ble |-> FALSE, low |-> FALSE, expired |-> FALSE,
                     started |-> FALSE, low_seen |-> FALSE, issue_seen |-> FALSE,
                     mode |-> mode]
  /\ memory_status = "BUSY"
  /\ status = <<>> /\ event = <<>> /\ data = <<>>
  /\ \E full \in {FALSE} \cup (IF "fills" \in Faults THEN {TRUE} ELSE {}) :
       mem = [doing |-> "START", owner |-> "AUDIO", mounted |-> FALSE, full |-> full,
              open |-> FALSE, writing |-> FALSE]
  /\ audio = [queue |-> <<>>, recording |-> FALSE, takes |-> 0]
  /\ age = 0
  /\ file = [take |-> 0, foreign |-> 0]

Next ==
  \/ StateTask \/ MemoryTask \/ MemServesBle \/ AudioTake \/ AudioSample
  \/ BleTake \/ Press \/ Release \/ Tick

(* Every task runs; the processor is idle most of the state task's ten     *)
(* ticks, so that the tasks of low priority run too; time passes.  A       *)
(* sample comes every 16 ms, so that the memory task, which waits for one  *)
(* for 5 ticks, leaves its loop over the samples again and again.          *)
Fairness ==
  /\ WF_vars(StateTask) /\ SF_vars(IndicationOver)
  /\ SF_vars(MemoryTask) /\ SF_vars(MemTake)
  /\ SF_vars(BleTake) /\ WF_vars(AudioTake) /\ WF_vars(Tick)

Spec == Init /\ [][Next]_vars
LiveSpec == Spec /\ Fairness

----------------------------------------------------------------------------
(* Properties                                                              *)

(* Every variable has its type, and no queue is longer than it was made;   *)
(* in parts, each of what is changed together.                             *)
OneOf(S) == {<<>>} \cup {<<e>> : e \in S}
MemoryStatuses == {"BUSY", "READY", "OUT_OF_MEMORY", "CORRUPT"}
BleCommands == {"CONNECT_FS", "START", "STOP"}
Answers == {Answer(c, r) : c \in Commands \cup {"MOUNT_FS"}, r \in Results}
Contexts == [active: BOOLEAN, ble: BOOLEAN, low: BOOLEAN, expired: BOOLEAN,
             started: BOOLEAN, low_seen: BOOLEAN, issue_seen: BOOLEAN,
             mode: {"FIELD", "NONE", "DEVELOPMENT"}]
Mems == [doing: Commands \cup {"START", "RESET", "none"}, owner: {"AUDIO", "BLE"},
         mounted: BOOLEAN, full: BOOLEAN, open: BOOLEAN, writing: BOOLEAN]

StateOK ==
  system_state \in States /\ pc \in Points /\ memory_status \in MemoryStatuses
ContextOK == context \in Contexts
QueuesOK == command \in OneOf(Commands) /\ status \in OneOf(Answers)
EventOK == event \in OneOf({"ERROR_OUT_OF_MEMORY", "ERROR_FATAL"})
MemOK == mem \in Mems
AudioOK ==
  audio \in [queue: OneOf({"RECORD_START", "RECORD_STOP"}), recording: BOOLEAN, takes: Nat]
DataOK == data \in Seq(Nat) /\ Len(data) <= DataDepth
BleOK == ble \in [queue: Seq(BleCommands), on: BOOLEAN] /\ Len(ble.queue) <= BleDepth
WorldOK ==
  /\ button \in [down: BOOLEAN, presses: 0..(MaxPresses + 1)]
  /\ age \in 0..4
FileOK == file \in [take: Nat, foreign: Nat]

TypeOK ==
  /\ StateOK /\ ContextOK /\ QueuesOK /\ EventOK /\ MemOK /\ AudioOK
  /\ DataOK /\ BleOK /\ WorldOK /\ FileOK

(* The answer that ends a wait is the answer to the command it waits for:  *)
(* the resets of the status queue throw away every older one.  Only with a *)
(* memory task in time, Long = {}, and not for the wait after a reset,     *)
(* which takes the answer to the mount that memory_status needs.           *)
Awaited ==
  [own_audio |-> "SELECT_OWNER_AUDIO", own_ble |-> "SELECT_OWNER_BLE",
   own_config |-> "SELECT_OWNER_BLE", create |-> "CREATE_RECORD",
   close |-> "CLOSE_WRITTEN_FILE", check |-> "PERFORM_MEMORY_CHECK",
   format |-> "FORMAT_FS"]

AnswersMatch ==
  pc \in DOMAIN Awaited /\ status # <<>> => Head(status).cmd = Awaited[pc]

(* In RECORDING there is a record to write into, and the memory is the     *)
(* audio's, unless the memory task has told that it is full.  With a valid *)
(* configuration and without faults but a full memory.                     *)
RecordingHasFile ==
  system_state = "RECORDING" /\ memory_status = "READY" /\ event = <<>> /\ ~mem.full
    => mem.writing /\ mem.owner = "AUDIO"

(* The power is cut when the memory task does nothing and has no record    *)
(* open, so that neither a record nor a format is cut short.               *)
PowerOffWhenIdle ==
  pc = "off" => mem.doing = "none" /\ command = <<>> /\ ~mem.writing

(* Nobody stops the audio task between two records: what it leaves in the  *)
(* queue gets into the next record.  It is never more than a queue of it.  *)
StalePrefix == file.foreign <= DataDepth

(* What BLE is told last.                                                  *)
WillBeOn(q, on) ==
  LET told == {i \in DOMAIN q : q[i] # "CONNECT_FS"}
  IN  IF told = {} THEN on ELSE \E i \in told : q[i] = "START" /\ \A j \in told : j <= i

(* The flag is_ble_system_active agrees with what BLE has been told,       *)
(* though START and STOP share a queue of two with CONNECT_FS and may find *)
(* it full.  A configuration loaded late breaks this (load_nvconfig).      *)
BleFollows == context.mode = "FIELD" => (WillBeOn(ble.queue, ble.on) <=> context.ble)

(* A record ends after the release of the button.                          *)
RecordsEnd ==
  (mem.writing /\ ~button.down) ~> (~mem.writing \/ button.down \/ ~On)

(* With a valid configuration the device switches itself off.              *)
SwitchesOff ==
  context.mode = "FIELD" /\ []<>(~button.down) => <>(~On)
=============================================================================
