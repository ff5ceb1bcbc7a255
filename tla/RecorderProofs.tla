--------------------------- MODULE RecorderProofs ---------------------------
(***************************************************************************)
(* The state task and its queues keep their types, and the flag about BLE  *)
(* follows what BLE is told, for every depth of the data queue, every      *)
(* number of presses, and every fault, delay and configuration.  With a    *)
(* memory task in time: which answer ends a wait, when a record is open,   *)
(* when the power is cut, and what an earlier take leaves in a record.     *)
(***************************************************************************)
EXTENDS Recorder, TLAPS

(* A queue of one element, filled and emptied.                             *)
LEMMA OneElement ==
  ASSUME NEW S
  PROVE  /\ <<>> \in OneOf(S)
         /\ \A e \in S : <<e>> \in OneOf(S)
         /\ \A q \in OneOf(S), e \in S : Offer(q, e) \in OneOf(S)
         /\ \A q \in OneOf(S) : q # <<>> => Head(q) \in S
BY DEF OneOf, Offer

(* A command for BLE is dropped or fits.                                   *)
LEMMA Sent ==
  ASSUME BleOK, NEW c \in BleCommands, OfferBle(c)
  PROVE  BleOK'
BY DEF BleOK, OfferBle, BleDepth, BleCommands

LEMMA Asked ==
  ASSUME QueuesOK, NEW c \in Commands, Ask(c)
  PROVE  QueuesOK'
BY OneElement DEF QueuesOK, Ask

LEMMA OwnershipAsked ==
  ASSUME BleOK, QueuesOK, NEW owner \in Commands, NEW at \in Points,
         SetMemoryOwnership(owner, at)
  PROVE  BleOK' /\ QueuesOK' /\ pc' \in Points
<1>1. BleOK'
  BY Sent DEF SetMemoryOwnership, BleCommands
<1>2. QueuesOK'
  BY Asked DEF SetMemoryOwnership
<1> QED BY <1>1, <1>2 DEF SetMemoryOwnership

LEMMA NewState ==
  ASSUME StateOK, BleOK, QueuesOK, NEW s \in States, Transition(s),
         memory_status' = memory_status
  PROVE  StateOK' /\ BleOK' /\ QueuesOK'
<1>1. CASE s = "BLE_OPERATION"
  <2>1. SetMemoryOwnership("SELECT_OWNER_BLE", "own_ble") /\ system_state' = system_state
    BY <1>1 DEF Transition
  <2>2. BleOK' /\ QueuesOK' /\ pc' \in Points
    BY <2>1, OwnershipAsked DEF Commands, Points, Waits
  <2> QED BY <2>1, <2>2 DEF StateOK
<1>2. CASE s # "BLE_OPERATION"
  BY <1>2 DEF Transition, StateOK, BleOK, QueuesOK, Points
<1> QED BY <1>1, <1>2

LEMMA Disabled ==
  ASSUME BleOK, ContextOK, DisableBle(context)
  PROVE  BleOK' /\ ContextOK'
BY Sent DEF DisableBle, BleOK, ContextOK, Contexts, BleCommands

(* What a step of the state task leaves alone.                             *)
LEMMA OthersKept ==
  ASSUME TypeOK, Others
  PROVE  MemOK' /\ DataOK' /\ WorldOK' /\ FileOK'
BY DEF TypeOK, Others, MemOK, DataOK, WorldOK, FileOK

LEMMA RecordStarted ==
  ASSUME StateOK, ContextOK, AudioOK, RequestRecordStart, memory_status' = memory_status
  PROVE  StateOK' /\ ContextOK' /\ AudioOK'
<1>1. audio.queue \in OneOf({"RECORD_START", "RECORD_STOP"})
  BY DEF AudioOK
<1>2. Offer(audio.queue, "RECORD_START") \in OneOf({"RECORD_START", "RECORD_STOP"})
  BY <1>1, OneElement
<1>3. AudioOK'
  BY <1>2 DEF AudioOK, RequestRecordStart
<1>4. StateOK'
  BY DEF StateOK, RequestRecordStart, States, Points
<1>5. ContextOK'
  BY DEF ContextOK, Contexts, RequestRecordStart
<1> QED BY <1>3, <1>4, <1>5

(* The machine's states, one by one.                                       *)
LEMMA LookTypes ==
  ASSUME TypeOK,
         LookInit \/ LookRecordPrepare \/ LookRecording \/ LookRecordEnd
         \/ LookBleOperation \/ LookIndication \/ IndicationOver \/ LookShutdown
  PROVE  TypeOK'
<1>0. /\ MemOK' /\ DataOK' /\ WorldOK' /\ FileOK' /\ EventOK'
      /\ memory_status' = memory_status
  <2>1. Others /\ UNCHANGED <<memory_status, event>>
    BY DEF LookInit, LookRecordPrepare, LookRecording, LookRecordEnd,
           LookBleOperation, LookIndication, IndicationOver, LookShutdown, Look
  <2>2. MemOK' /\ DataOK' /\ WorldOK' /\ FileOK'
    BY <2>1, OthersKept
  <2> QED BY <2>1, <2>2 DEF TypeOK, EventOK
<1>1. StateOK /\ ContextOK /\ QueuesOK /\ AudioOK /\ BleOK
  BY DEF TypeOK
<1> SUFFICES StateOK' /\ ContextOK' /\ QueuesOK' /\ AudioOK' /\ BleOK'
  BY <1>0 DEF TypeOK
<1>2. ASSUME NEW s \in States, Transition(s)
      PROVE  StateOK' /\ BleOK' /\ QueuesOK'
  BY <1>0, <1>1, <1>2, NewState
<1>3. ASSUME Stay
      PROVE  StateOK' /\ ContextOK' /\ QueuesOK' /\ AudioOK' /\ BleOK'
  BY <1>0, <1>1, <1>3
  DEF Stay, StateOK, ContextOK, QueuesOK, AudioOK, BleOK, Points
<1>4. CASE LookInit
  <2>1. CASE Stay
    BY <2>1, <1>3
  <2>2. CASE UNCHANGED <<context, audio>>
             /\ (Transition("BLE_OPERATION") \/ Transition("RECORD_PREPARE"))
    BY <2>2, <1>1, <1>2 DEF States, ContextOK, AudioOK
  <2> QED BY <1>4, <2>1, <2>2 DEF LookInit
<1>5. CASE LookRecordPrepare
  <2>1. CASE Stay
    BY <2>1, <1>3
  <2>2. CASE /\ UNCHANGED <<system_state, context, audio>>
             /\ SetMemoryOwnership("SELECT_OWNER_AUDIO", "own_audio")
    BY <2>2, <1>0, <1>1, OwnershipAsked
    DEF Commands, Points, Waits, StateOK, ContextOK, AudioOK
  <2>3. CASE UNCHANGED <<context, audio>>
             /\ (Transition("OUT_OF_MEMORY") \/ Transition("MEMORY_IS_CORRUPT"))
    BY <2>3, <1>1, <1>2 DEF States, ContextOK, AudioOK
  <2> QED BY <1>5, <2>1, <2>2, <2>3 DEF LookRecordPrepare
<1>6. CASE LookRecording
  <2>1. CASE Stay
    BY <2>1, <1>3
  <2>2. CASE ~Stay
    <3>1. Transition("RECORD_END")
      BY <1>6, <2>2 DEF LookRecording
    <3>2. StateOK' /\ BleOK' /\ QueuesOK'
      BY <3>1, <1>2 DEF States
    <3>3. \/ audio' = [audio EXCEPT !.queue = Offer(@, "RECORD_STOP")] /\ context' = context
          \/ audio' = audio /\ context' = [context EXCEPT !.active = FALSE]
      BY <1>6, <2>2 DEF LookRecording
    <3>4. ContextOK'
      BY <3>3, <1>1 DEF ContextOK, Contexts
    <3>5. Offer(audio.queue, "RECORD_STOP") \in OneOf({"RECORD_START", "RECORD_STOP"})
      BY <1>1, OneElement DEF AudioOK
    <3>6. AudioOK'
      BY <3>3, <3>5, <1>1 DEF AudioOK
    <3> QED BY <3>2, <3>4, <3>6
  <2> QED BY <2>1, <2>2
<1>7. CASE LookRecordEnd
  <2>1. ContextOK' /\ AudioOK'
    BY <1>1, <1>7 DEF LookRecordEnd, ContextOK, AudioOK
  <2>2. CASE Transition("OUT_OF_MEMORY") \/ Transition("MEMORY_IS_CORRUPT")
    BY <2>1, <2>2, <1>2 DEF States
  <2>3. CASE Ask("CLOSE_WRITTEN_FILE") /\ pc' = "close" /\ UNCHANGED <<system_state, ble>>
    BY <2>1, <2>3, <1>0, <1>1, Asked DEF Commands, Points, Waits, StateOK, BleOK
  <2>4. CASE /\ status' = <<>> /\ system_state' = "MEMORY_IS_CORRUPT" /\ pc' = "poll"
             /\ UNCHANGED <<command, ble>>
    BY <2>1, <2>4, <1>0, <1>1, OneElement DEF Points, States, StateOK, BleOK, QueuesOK
  <2> QED BY <1>7, <2>2, <2>3, <2>4 DEF LookRecordEnd
<1>8. CASE LookBleOperation
  <2>1. AudioOK' /\ QueuesOK'
    BY <1>1, <1>8 DEF LookBleOperation, AudioOK, QueuesOK
  <2>2. StateOK'
    BY <1>0, <1>1, <1>8 DEF LookBleOperation, StateOK, States, Points
  <2>3. BleOK' /\ ContextOK'
    <3>1. DisableBle(context) \/ UNCHANGED <<ble, context>>
      BY <1>8 DEF LookBleOperation
    <3> QED BY <3>1, <1>1, Disabled DEF BleOK, ContextOK
  <2> QED BY <2>1, <2>2, <2>3
<1>9. CASE LookIndication
  BY ZenonT(60), <1>0, <1>1, <1>9
  DEF LookIndication, StateOK, ContextOK, Contexts, QueuesOK, AudioOK, BleOK, Points
<1>10. CASE IndicationOver
  <2>1. PICK s \in DOMAIN AfterIndication :
          Transition(AfterIndication[s]) /\ UNCHANGED <<context, audio>>
    BY <1>10 DEF IndicationOver
  <2>2. AfterIndication[s] \in States
    BY DEF AfterIndication, States
  <2> QED BY <2>1, <2>2, <1>1, <1>2 DEF ContextOK, AudioOK
<1>11. CASE LookShutdown
  <2>1. ContextOK' /\ AudioOK' /\ BleOK'
    BY <1>1, <1>11 DEF LookShutdown, ContextOK, AudioOK, BleOK
  <2>2. pc' \in Points /\ system_state' = system_state
    BY <1>11 DEF LookShutdown, Points, Waits
  <2>3. QueuesOK'
    BY <1>1, <1>11, Asked DEF LookShutdown, QueuesOK, Commands
  <2> QED BY <2>1, <2>2, <2>3, <1>0, <1>1 DEF StateOK
<1> QED BY <1>4, <1>5, <1>6, <1>7, <1>8, <1>9, <1>10, <1>11

(* The state task after a wait, and the start of BLE.                      *)
LEMMA WakeTypes ==
  ASSUME TypeOK,
         OwnedByAudio \/ RecordCreated \/ RecordClosed \/ OwnedByBle \/ StartBle
         \/ CheckAnswered \/ FormatAnswered \/ PowerOff
  PROVE  TypeOK'
<1>0. MemOK' /\ DataOK' /\ WorldOK' /\ FileOK' /\ EventOK'
  <2>1. Others /\ UNCHANGED event
    BY DEF OwnedByAudio, RecordCreated, RecordClosed, OwnedByBle, StartBle,
           CheckAnswered, FormatAnswered, PowerOff, Wake
  <2> QED BY <2>1, OthersKept DEF TypeOK, EventOK
<1>1. StateOK /\ ContextOK /\ QueuesOK /\ AudioOK /\ BleOK
  BY DEF TypeOK
<1> SUFFICES StateOK' /\ ContextOK' /\ QueuesOK' /\ AudioOK' /\ BleOK'
  BY <1>0 DEF TypeOK
<1>2. CASE OwnedByAudio
  <2>1. BleOK' /\ memory_status' = memory_status /\ status' = <<>>
    BY <1>1, <1>2 DEF OwnedByAudio, BleOK
  <2>2. CASE /\ command' = <<"CREATE_RECORD">> /\ pc' = "create"
             /\ UNCHANGED <<system_state, context, audio>>
    BY <2>1, <2>2, <1>1, OneElement
    DEF StateOK, ContextOK, QueuesOK, AudioOK, Points, Waits, Commands
  <2>3. CASE UNCHANGED command /\ RequestRecordStart
    BY <2>1, <2>3, <1>1, RecordStarted, OneElement DEF QueuesOK
  <2> QED BY <1>2, <2>2, <2>3 DEF OwnedByAudio
<1>3. CASE RecordCreated
  BY <1>1, <1>3, RecordStarted, OneElement DEF RecordCreated, QueuesOK, BleOK
<1>4. CASE RecordClosed
  <2>1. ContextOK' /\ AudioOK' /\ memory_status' = memory_status
    BY <1>1, <1>4 DEF RecordClosed, ContextOK, AudioOK
  <2>2. CASE Transition("BLE_OPERATION")
    BY <2>1, <2>2, <1>1, NewState DEF States
  <2>3. CASE /\ status' = <<>> /\ system_state' = "MEMORY_IS_CORRUPT" /\ pc' = "poll"
             /\ UNCHANGED <<command, ble>>
    BY <2>1, <2>3, <1>1, OneElement DEF StateOK, States, Points, QueuesOK, BleOK
  <2> QED BY <1>4, <2>2, <2>3 DEF RecordClosed
<1>5. CASE OwnedByBle
  <2>1. status' = <<>> /\ UNCHANGED <<system_state, memory_status, context, command, audio, ble>>
    BY <1>5 DEF OwnedByBle
  <2>2. pc' \in Points
    BY <1>5 DEF OwnedByBle, Points
  <2> QED BY <2>1, <2>2, <1>1, OneElement DEF StateOK, ContextOK, QueuesOK, AudioOK, BleOK
<1>6. CASE StartBle
  <2>1. QueuesOK' /\ AudioOK'
    BY <1>1, <1>6 DEF StartBle, QueuesOK, AudioOK
  <2>2. StateOK'
    BY <1>1, <1>6 DEF StartBle, StateOK, States, Points, FirstState
  <2>3. CASE OfferBle("START") /\ context' = [context EXCEPT !.ble = TRUE]
    BY <2>1, <2>2, <2>3, <1>1, Sent DEF ContextOK, Contexts, BleCommands
  <2>4. CASE UNCHANGED <<ble, context>>
    BY <2>1, <2>2, <2>4, <1>1 DEF ContextOK, BleOK
  <2> QED BY <1>6, <2>3, <2>4 DEF StartBle
<1>7. CASE CheckAnswered
  <2>1. ContextOK' /\ AudioOK' /\ BleOK' /\ system_state' = system_state /\ status' = <<>>
    BY <1>1, <1>7 DEF CheckAnswered, ContextOK, AudioOK, BleOK
  <2>2. \/ command' = <<"FORMAT_FS">> /\ memory_status' = "BUSY" /\ pc' = "format"
        \/ pc' = "release" /\ UNCHANGED <<command, memory_status>>
    BY <1>7 DEF CheckAnswered
  <2>3. StateOK'
    BY <2>1, <2>2, <1>1 DEF StateOK, Points, Waits, MemoryStatuses
  <2>4. QueuesOK'
    BY <2>1, <2>2, <1>1, OneElement DEF QueuesOK, Commands
  <2> QED BY <2>1, <2>3, <2>4
<1>8. CASE FormatAnswered
  BY <1>1, <1>8, OneElement
  DEF FormatAnswered, StateOK, ContextOK, QueuesOK, AudioOK, BleOK, Points
<1>9. CASE PowerOff
  BY <1>1, <1>9
  DEF PowerOff, StateOK, ContextOK, QueuesOK, AudioOK, BleOK, Points
<1> QED BY <1>2, <1>3, <1>4, <1>5, <1>6, <1>7, <1>8, <1>9

(* The queues and timeouts, and the late load of the configuration.        *)
LEMMA PollTypes ==
  ASSUME TypeOK, Poll \/ StartForConfig \/ StopAfterConfig
  PROVE  TypeOK'
<1>0. MemOK' /\ DataOK' /\ WorldOK' /\ FileOK'
  BY OthersKept DEF Poll, StartForConfig, StopAfterConfig
<1>1. StateOK /\ ContextOK /\ QueuesOK /\ AudioOK /\ BleOK /\ EventOK
  BY DEF TypeOK
<1>2. AudioOK' /\ system_state' = system_state
  BY <1>1 DEF Poll, StartForConfig, StopAfterConfig, AudioOK
<1>3. CASE Poll
  <2>1. \A r : Reported(r) \in MemoryStatuses
    BY DEF Reported, MemoryStatuses
  <2>2. memory_status' \in MemoryStatuses /\ event' = <<>>
    BY <1>1, <1>3, <2>1 DEF Poll, StateOK
  <2>3. EventOK'
    BY <2>2, OneElement DEF EventOK
  <2>4. PICK low \in BOOLEAN :
          LET flags == [context EXCEPT !.low = @ \/ low]
          IN  \/ /\ context' = flags
                 /\ SetMemoryOwnership("SELECT_OWNER_BLE", "own_config")
              \/ /\ \E expired \in Expired(flags) :
                       context' = [flags EXCEPT !.expired = expired,
                         !.mode = IF LoadNow THEN "DEVELOPMENT" ELSE @]
                 /\ status' \in {<<>>, status}
                 /\ pc' = "look"
                 /\ UNCHANGED <<command, ble>>
    BY <1>3 DEF Poll
  <2> DEFINE flags == [context EXCEPT !.low = @ \/ low]
  <2>5. flags \in Contexts
    BY <1>1 DEF ContextOK, Contexts
  <2>6. CASE context' = flags /\ SetMemoryOwnership("SELECT_OWNER_BLE", "own_config")
    BY <2>2, <2>3, <2>5, <2>6, <1>0, <1>1, <1>2, OwnershipAsked
    DEF TypeOK, StateOK, ContextOK, Commands, Points, Waits
  <2>7. CASE /\ \E expired \in Expired(flags) :
                  context' = [flags EXCEPT !.expired = expired,
                    !.mode = IF LoadNow THEN "DEVELOPMENT" ELSE @]
             /\ status' \in {<<>>, status} /\ pc' = "look" /\ UNCHANGED <<command, ble>>
    <3>1. Expired(flags) \subseteq BOOLEAN
      <4>1. {FALSE} \subseteq BOOLEAN /\ {age >= 3} \subseteq BOOLEAN
            /\ {TRUE} \cup (IF age < 4 THEN {FALSE} ELSE {}) \subseteq BOOLEAN
        <5>1. (age >= 3) \in BOOLEAN
          BY SMT DEF TypeOK, WorldOK
        <5> QED BY <5>1, Zenon
      <4> HIDE DEF flags
      <4> QED BY <4>1, Zenon DEF Expired
    <3>2. ContextOK'
      BY ZenonT(60), <2>5, <2>7, <3>1 DEF ContextOK, Contexts
    <3>3. QueuesOK' /\ BleOK'
      BY <2>7, <1>1, OneElement DEF QueuesOK, BleOK
    <3> QED BY <3>2, <3>3, <2>2, <2>3, <2>7, <1>0, <1>1, <1>2
        DEF TypeOK, StateOK, Points
  <2> QED BY <2>4, <2>6, <2>7
<1>4. CASE StartForConfig \/ StopAfterConfig
  <2>1. QueuesOK' /\ EventOK' /\ memory_status' = memory_status
    BY <1>1, <1>4 DEF StartForConfig, StopAfterConfig, QueuesOK, EventOK
  <2>2. BleOK'
    BY <1>1, <1>4, Sent DEF StartForConfig, StopAfterConfig, BleCommands, BleOK
  <2>3. ContextOK' /\ pc' \in Points
    BY <1>1, <1>4 DEF StartForConfig, StopAfterConfig, ContextOK, Contexts, Points
  <2> QED BY <2>1, <2>2, <2>3, <1>0, <1>1, <1>2 DEF TypeOK, StateOK
<1> QED BY <1>3, <1>4

(* The memory task.                                                        *)
LEMMA MemoryTypes ==
  ASSUME TypeOK, MemoryTask \/ MemServesBle
  PROVE  TypeOK'
<1>1. StateOK' /\ ContextOK' /\ AudioOK' /\ BleOK' /\ WorldOK'
  <2>1. Memory
    BY DEF MemoryTask, MemStarted, MemReset, MemTake, MemSelect, MemCreate, MemClose,
           MemCheck, MemFormat, MemSample, MemServesBle
  <2> QED BY <2>1
      DEF Memory, task, TypeOK, StateOK, ContextOK, AudioOK, BleOK, WorldOK
<1>2. QueuesOK /\ EventOK /\ MemOK /\ DataOK /\ FileOK /\ AudioOK
  BY DEF TypeOK
<1> SUFFICES QueuesOK' /\ EventOK' /\ MemOK' /\ DataOK' /\ FileOK'
  BY <1>1 DEF TypeOK
<1>3. ASSUME NEW r \in Results, NEW c \in Commands \cup {"MOUNT_FS"}
      PROVE  Offer(status, Answer(c, r)) \in OneOf(Answers)
  BY <1>2, OneElement DEF QueuesOK, Answers
<1>4. Mounts \subseteq Results
  BY DEF Mounts, MayFail, Results
<1>5. \A r : Mounted(r) \in Mems
  BY <1>2 DEF Mounted, MemOK, Mems
<1>6. ASSUME NEW r \in Results, NEW c \in Commands, Done(c, r)
      PROVE  QueuesOK' /\ EventOK' /\ DataOK'
  BY <1>2, <1>3, <1>6 DEF Done, QueuesOK, EventOK, DataOK
<1>7. CASE MemStarted
  <2>1. PICK r \in Mounts :
          /\ mem' = [Mounted(r) EXCEPT !.doing = "RESET"]
          /\ status' = Offer(status, Answer("MOUNT_FS",
                               IF r = "OK" THEN "IS_READY" ELSE "ERROR_BUSY"))
    BY <1>7 DEF MemStarted
  <2>2. MemOK'
    BY <1>5, <2>1 DEF MemOK, Mems
  <2>3. QueuesOK'
    BY <1>2, <1>3, <1>7, <2>1 DEF MemStarted, QueuesOK, Results
  <2> QED BY <2>2, <2>3, <1>2, <1>7 DEF MemStarted, EventOK, DataOK, FileOK
<1>8. CASE MemReset
  BY <1>2, <1>8, OneElement DEF MemReset, QueuesOK, EventOK, MemOK, Mems, DataOK, FileOK
<1>9. CASE MemTake
  <2>1. Head(command) \in Commands
    BY <1>2, <1>9, OneElement DEF MemTake, QueuesOK
  <2> QED BY <2>1, <1>2, <1>9, OneElement
      DEF MemTake, QueuesOK, EventOK, MemOK, Mems, DataOK, FileOK
<1>10. CASE MemSelect
  <2>1. PICK r \in Mounts :
          \/ /\ mem.doing = "SELECT_OWNER_BLE"
             /\ mem' = [Mounted(r) EXCEPT !.owner = IF r = "ERROR_GENERAL" THEN @ ELSE "BLE"]
             /\ Done(mem.doing, IF r = "ERROR_GENERAL" THEN r ELSE "OK")
          \/ /\ mem.doing = "SELECT_OWNER_AUDIO"
             /\ mem' = [Mounted(r) EXCEPT !.owner = IF r = "OK" THEN "AUDIO" ELSE @]
             /\ Done(mem.doing, r)
    BY <1>10 DEF MemSelect
  <2>2. MemOK'
    BY <1>5, <2>1 DEF MemOK, Mems
  <2>3. mem.doing \in Commands /\ \E q \in Results : Done(mem.doing, q)
    BY <1>4, <2>1 DEF Commands, Results
  <2> QED BY <2>2, <2>3, <1>2, <1>6, <1>10 DEF MemSelect, FileOK
<1>11. CASE MemCreate
  <2>1. PICK r \in {"ERROR_OUT_OF_MEMORY", "ERROR_GENERAL", "OK"} :
          /\ IF r = "OK"
             THEN /\ mem' = [mem EXCEPT !.doing = "none", !.open = TRUE, !.writing = TRUE]
                  /\ file' = [take |-> audio.takes + 1, foreign |-> 0]
             ELSE mem' = [mem EXCEPT !.doing = "none"] /\ UNCHANGED file
          /\ Done(mem.doing, r)
    BY <1>11 DEF MemCreate, MayFail
  <2>2. MemOK'
    <3>1. \/ mem' = [mem EXCEPT !.doing = "none", !.open = TRUE, !.writing = TRUE]
          \/ mem' = [mem EXCEPT !.doing = "none"]
      BY <2>1
    <3> QED BY <1>2, <3>1 DEF MemOK, Mems
  <2>4. FileOK'
    BY <1>2, <2>1 DEF FileOK, AudioOK
  <2>3. QueuesOK' /\ EventOK' /\ DataOK'
    BY <1>6, <1>11, <2>1 DEF MemCreate, Commands, Results
  <2> QED BY <2>2, <2>3, <2>4
<1>12. CASE MemClose
  <2>1. PICK r \in {"ERROR_GENERAL", "OK"} :
          /\ mem' = [mem EXCEPT !.doing = "none", !.writing = FALSE, !.open = @ /\ r # "OK"]
          /\ Done(mem.doing, r)
    BY <1>12 DEF MemClose, MayFail
  <2>2. MemOK' /\ FileOK'
    BY <1>2, <1>12, <2>1 DEF MemClose, MemOK, Mems, FileOK
  <2> QED BY <2>2, <1>6, <1>12, <2>1 DEF MemClose, Commands, Results
<1>13. CASE MemCheck
  <2>1. PICK r \in {"ERROR_GENERAL", "FORMAT_REQUIRED", "OK"} :
          mem' = [mem EXCEPT !.doing = "none"] /\ Done(mem.doing, r)
    BY <1>13 DEF MemCheck, MayFail
  <2>2. MemOK' /\ FileOK'
    BY <1>2, <1>13, <2>1 DEF MemCheck, MemOK, Mems, FileOK
  <2> QED BY <2>2, <1>6, <1>13, <2>1 DEF MemCheck, Commands, Results
<1>14. CASE MemFormat
  <2>1. PICK r \in {"ERROR_GENERAL", "OK"} : mem' = Mounted(r) /\ Done(mem.doing, r)
    BY <1>14 DEF MemFormat, MayFail
  <2>2. MemOK' /\ FileOK'
    BY <1>2, <1>5, <1>14, <2>1 DEF MemFormat, MemOK, FileOK
  <2> QED BY <2>2, <1>6, <1>14, <2>1 DEF MemFormat, Commands, Results
<1>15. CASE MemSample
  <2>1. data # <<>> /\ data' = Tail(data)
    BY <1>15 DEF MemSample, Draining
  <2>2. DataOK'
    BY <1>2, <2>1, RecorderAssumption DEF DataOK
  <2>3. QueuesOK'
    BY <1>2, <1>15 DEF MemSample, QueuesOK
  <2>4. \/ event' = event
        \/ \E e \in {"ERROR_OUT_OF_MEMORY", "ERROR_FATAL"} : event' = Offer(event, e)
    BY <1>15 DEF MemSample, MayFail
  <2>5. EventOK'
    BY <1>2, <2>4, OneElement DEF EventOK
  <2>6. mem' = mem \/ mem' = [mem EXCEPT !.open = FALSE, !.writing = FALSE, !.full = TRUE]
    BY <1>15 DEF MemSample
  <2>7. MemOK'
    BY <1>2, <2>6 DEF MemOK, Mems
  <2>8. file' = file \/ file' = [file EXCEPT !.foreign = @ + 1]
    BY <1>15 DEF MemSample
  <2>9. FileOK'
    BY <1>2, <2>8 DEF FileOK
  <2> QED BY <2>2, <2>3, <2>5, <2>7, <2>9
<1>16. CASE MemServesBle
  BY <1>2, <1>16 DEF MemServesBle, QueuesOK, EventOK, MemOK, Mems, DataOK, FileOK
<1> QED BY <1>7, <1>8, <1>9, <1>10, <1>11, <1>12, <1>13, <1>14, <1>15, <1>16 DEF MemoryTask

(* The audio task, the BLE task, the user and the time.                    *)
LEMMA WorldTypes ==
  ASSUME TypeOK,
         AudioTake \/ AudioSample \/ BleTake \/ Press \/ Release \/ Tick
         \/ UNCHANGED vars
  PROVE  TypeOK'
<1>1. /\ StateOK /\ ContextOK /\ QueuesOK /\ EventOK /\ MemOK /\ AudioOK
      /\ DataOK /\ BleOK /\ WorldOK /\ FileOK
  BY DEF TypeOK
<1>2. StateOK' /\ ContextOK' /\ QueuesOK' /\ EventOK' /\ MemOK' /\ FileOK'
  BY <1>1 DEF AudioTake, AudioSample, BleTake, Press, Release, Tick, vars, task,
              StateOK, ContextOK, QueuesOK, EventOK, MemOK, FileOK
<1>3. AudioOK'
  <2>1. CASE audio' = audio
    BY <1>1, <2>1 DEF AudioOK
  <2>2. CASE AudioTake
    <3>1. <<>> \in OneOf({"RECORD_START", "RECORD_STOP"})
      BY OneElement
    <3>2. \/ audio' = [queue |-> <<>>, recording |-> TRUE, takes |-> audio.takes + 1]
          \/ audio' = [audio EXCEPT !.queue = <<>>, !.recording = FALSE]
      BY <2>2 DEF AudioTake
    <3>3. CASE audio' = [queue |-> <<>>, recording |-> TRUE, takes |-> audio.takes + 1]
      <4>1. audio.takes + 1 \in Nat
        BY <1>1 DEF AudioOK
      <4> QED BY <3>1, <3>3, <4>1 DEF AudioOK
    <3>4. CASE audio' = [audio EXCEPT !.queue = <<>>, !.recording = FALSE]
      BY <1>1, <3>1, <3>4 DEF AudioOK
    <3> QED BY <3>2, <3>3, <3>4
  <2> QED BY <2>1, <2>2 DEF AudioSample, BleTake, Press, Release, Tick, vars
<1>4. DataOK'
  <2>1. CASE data' = data
    BY <1>1, <2>1 DEF DataOK
  <2>2. CASE AudioSample
    BY <1>1, <2>2, RecorderAssumption DEF AudioSample, DataOK, AudioOK
  <2> QED BY <2>1, <2>2 DEF AudioTake, BleTake, Press, Release, Tick, vars
<1>5. BleOK'
  <2>1. CASE ble' = ble
    BY <1>1, <2>1 DEF BleOK
  <2>2. CASE BleTake
    <3>1. Head(ble.queue) \in BleCommands /\ Tail(ble.queue) \in Seq(BleCommands)
          /\ Len(Tail(ble.queue)) <= BleDepth
      BY <1>1, <2>2 DEF BleTake, BleOK, BleDepth
    <3>2. (IF Head(ble.queue) = "CONNECT_FS" THEN ble.on ELSE Head(ble.queue) = "START")
            \in BOOLEAN
      BY <1>1 DEF BleOK
    <3> QED BY <3>1, <3>2, <2>2 DEF BleTake, BleOK
  <2> QED BY <2>1, <2>2 DEF AudioTake, AudioSample, Press, Release, Tick, vars
<1>6. WorldOK'
  <2>1. CASE UNCHANGED <<button, age>>
    BY <1>1, <2>1 DEF WorldOK
  <2>2. CASE Press
    BY <1>1, <2>2, RecorderAssumption DEF Press, WorldOK
  <2>3. CASE Release
    BY <1>1, <2>3 DEF Release, WorldOK
  <2>4. CASE Tick
    BY <1>1, <2>4 DEF Tick, WorldOK
  <2> QED BY <2>1, <2>2, <2>3, <2>4 DEF AudioTake, AudioSample, BleTake, vars
<1> QED BY <1>2, <1>3, <1>4, <1>5, <1>6 DEF TypeOK

LEMMA StepTypes == TypeOK /\ [Next]_vars => TypeOK'
BY LookTypes, WakeTypes, PollTypes, MemoryTypes, WorldTypes DEF Next, StateTask

LEMMA InitTypes == Init => TypeOK
<1> SUFFICES ASSUME Init PROVE TypeOK
  OBVIOUS
<1>1. PICK down \in BOOLEAN, mode \in Configs, reason \in Starts :
        /\ button = [down |-> down, presses |-> IF down THEN 1 ELSE 0]
        /\ FirstRequest(reason)
        /\ pc = IF reason = "UNKNOWN" THEN "look" ELSE "own_reset"
        /\ system_state = FirstState(mode, down /\ reason = "UNKNOWN")
        /\ context = [active |-> FALSE, ble |-> FALSE, low |-> FALSE, expired |-> FALSE,
                      started |-> FALSE, low_seen |-> FALSE, issue_seen |-> FALSE,
                      mode |-> mode]
  BY DEF Init
<1>2. StateOK
  BY <1>1 DEF Init, StateOK, States, Points, Waits, MemoryStatuses, FirstState
<1>3. ContextOK
  BY <1>1, RecorderAssumption DEF ContextOK, Contexts
<1>4. QueuesOK /\ EventOK
  BY <1>1, OneElement DEF Init, QueuesOK, EventOK, FirstRequest, Commands
<1>5. MemOK
  <2>1. PICK full \in BOOLEAN :
          mem = [doing |-> "START", owner |-> "AUDIO", mounted |-> FALSE, full |-> full,
                 open |-> FALSE, writing |-> FALSE]
    BY DEF Init
  <2> QED BY <2>1 DEF MemOK, Mems
<1>6. AudioOK /\ FileOK
  BY OneElement DEF Init, AudioOK, FileOK
<1>7. DataOK
  BY RecorderAssumption DEF Init, DataOK
<1>8. BleOK
  <2>1. PICK q \in {<<>>, <<"CONNECT_FS">>} : ble = [queue |-> q, on |-> FALSE]
    BY <1>1 DEF FirstRequest
  <2>2. q \in Seq(BleCommands) /\ Len(q) <= BleDepth
    <3>1. <<>> \in Seq(BleCommands) /\ Len(<<>>) <= BleDepth
      BY DEF BleDepth
    <3>2. <<"CONNECT_FS">> \in Seq(BleCommands) /\ Len(<<"CONNECT_FS">>) <= BleDepth
      BY DEF BleCommands, BleDepth
    <3> QED BY <3>1, <3>2
  <2> QED BY <2>1, <2>2 DEF BleOK
<1>9. WorldOK
  BY <1>1, RecorderAssumption DEF Init, WorldOK
<1> QED BY <1>2, <1>3, <1>4, <1>5, <1>6, <1>7, <1>8, <1>9 DEF TypeOK

(* Every variable keeps its type and every queue its length, whatever      *)
(* fails or comes late.                                                    *)
THEOREM TypeCorrect == Spec => []TypeOK
BY InitTypes, StepTypes, PTL DEF Spec

----------------------------------------------------------------------------
(* What BLE will be after its queue is empty, as commands come and go.     *)

LEMMA ToldNothing ==
  ASSUME NEW q \in Seq(BleCommands), NEW on \in BOOLEAN
  PROVE  WillBeOn(Append(q, "CONNECT_FS"), on) <=> WillBeOn(q, on)
<1> DEFINE t == {i \in DOMAIN q : q[i] # "CONNECT_FS"}
           a == Append(q, "CONNECT_FS")
<1>1. /\ DOMAIN a = 1 .. Len(q) + 1 /\ DOMAIN q = 1 .. Len(q) /\ Len(q) \in Nat
      /\ a[Len(q) + 1] = "CONNECT_FS"
      /\ \A i \in DOMAIN q : a[i] = q[i]
  OBVIOUS
<1>2. {i \in DOMAIN a : a[i] # "CONNECT_FS"} = t
  <2> HIDE DEF a
  <2> QED BY <1>1
<1>3. \A i \in t : a[i] = q[i]
  BY <1>1
<1> HIDE DEF t, a
<1>4. WillBeOn(a, on) <=> WillBeOn(q, on)
  BY <1>2, <1>3 DEF WillBeOn, t
<1> QED BY <1>4 DEF a

LEMMA ToldLast ==
  ASSUME NEW q \in Seq(BleCommands), NEW on \in BOOLEAN, NEW c \in {"START", "STOP"}
  PROVE  WillBeOn(Append(q, c), on) <=> c = "START"
<1> DEFINE a == Append(q, c)
           t == {i \in DOMAIN a : a[i] # "CONNECT_FS"}
           n == Len(q) + 1
<1>1. DOMAIN a = 1 .. n /\ n \in Nat \ {0} /\ a[n] = c
  OBVIOUS
<1> HIDE DEF a, n
<1>2. n \in t /\ \A i \in t : i <= n
  BY <1>1
<1>3. \A i \in t : (\A j \in t : j <= i) <=> i = n
  BY <1>1, <1>2
<1>4. WillBeOn(a, on) <=> \E i \in t : a[i] = "START" /\ \A j \in t : j <= i
  BY <1>2 DEF WillBeOn
<1> HIDE DEF t
<1>5. WillBeOn(a, on) <=> c = "START"
  BY <1>1, <1>2, <1>3, <1>4
<1> QED BY <1>5 DEF a

LEMMA ToldFirst ==
  ASSUME NEW q \in Seq(BleCommands), NEW on \in BOOLEAN, q # <<>>
  PROVE  WillBeOn(Tail(q), IF Head(q) = "CONNECT_FS" THEN on ELSE Head(q) = "START")
           <=> WillBeOn(q, on)
<1> DEFINE r == Tail(q)
           rest == {i \in DOMAIN r : r[i] # "CONNECT_FS"}
           all == {i \in DOMAIN q : q[i] # "CONNECT_FS"}
           first == IF Head(q) = "CONNECT_FS" THEN on ELSE Head(q) = "START"
<1>1. /\ DOMAIN q = 1 .. Len(q) /\ Len(q) \in Nat \ {0} /\ q[1] = Head(q)
      /\ DOMAIN r = 1 .. Len(q) - 1
      /\ \A i \in 1 .. Len(q) - 1 : r[i] = q[i + 1]
  OBVIOUS
<1> HIDE DEF r
<1>2. \A i \in rest : i \in Nat \ {0} /\ i + 1 \in all /\ r[i] = q[i + 1]
  BY <1>1
<1>3. \A i \in all : i \in Nat \ {0} /\ (i = 1 \/ i - 1 \in rest)
  BY <1>1
<1>4. 1 \in all <=> Head(q) # "CONNECT_FS"
  BY <1>1
<1>5. WillBeOn(r, first)
        <=> IF rest = {} THEN first
            ELSE \E i \in rest : r[i] = "START" /\ \A j \in rest : j <= i
  BY DEF WillBeOn
<1>6. WillBeOn(q, on)
        <=> IF all = {} THEN on
            ELSE \E i \in all : q[i] = "START" /\ \A j \in all : j <= i
  BY DEF WillBeOn
<1> HIDE DEF rest, all
<1>7. CASE rest = {}
  <2>1. all \subseteq {1}
    BY <1>3, <1>7
  <2>2. CASE Head(q) = "CONNECT_FS"
    <3>1. all = {}
      BY <2>1, <2>2, <1>4
    <3> QED BY <3>1, <2>2, <1>5, <1>6, <1>7 DEF r
  <2>3. CASE Head(q) # "CONNECT_FS"
    <3>1. all = {1}
      BY <2>1, <2>3, <1>4
    <3>2. WillBeOn(q, on) <=> Head(q) = "START"
      BY <3>1, <1>1, <1>6
    <3> QED BY <3>2, <2>3, <1>5, <1>7 DEF r
  <2> QED BY <2>2, <2>3
<1>8. CASE rest # {}
  <2>1. all # {}
    BY <1>2, <1>8
  <2>2. ASSUME NEW i \in rest
        PROVE  (\A j \in rest : j <= i) <=> (\A j \in all : j <= i + 1)
    BY <1>2, <1>3
  <2>3. ~(\A j \in all : j <= 1)
    BY <1>2, <1>8
  <2>4. (\E i \in rest : r[i] = "START" /\ \A j \in rest : j <= i)
          <=> (\E i \in all : q[i] = "START" /\ \A j \in all : j <= i)
    <3>1. ASSUME NEW i \in rest, r[i] = "START", \A j \in rest : j <= i
          PROVE  \E k \in all : q[k] = "START" /\ \A j \in all : j <= k
      BY <3>1, <2>2, <1>2
    <3>2. ASSUME NEW i \in all, q[i] = "START", \A j \in all : j <= i
          PROVE  \E k \in rest : r[k] = "START" /\ \A j \in rest : j <= k
      <4>1. i # 1
        BY <3>2, <2>3
      <4>2. i - 1 \in rest /\ (i - 1) + 1 = i
        BY <4>1, <1>3
      <4>3. r[i - 1] = "START" /\ \A j \in rest : j <= i - 1
        BY <4>2, <3>2, <2>2, <1>2
      <4> QED BY <4>2, <4>3
    <3> QED BY <3>1, <3>2
  <2> QED BY <2>1, <2>4, <1>5, <1>6, <1>8 DEF r
<1> QED BY <1>7, <1>8

(* The flag between START and STOP of a late load of the configuration is  *)
(* wrong, but then the configuration is not a valid one.                   *)
BleInv == BleFollows /\ (pc = "stop_config" => context.mode # "FIELD")

LEMMA BleInit == Init => BleInv
<1> SUFFICES ASSUME Init PROVE BleInv
  OBVIOUS
<1>1. PICK q \in {<<>>, <<"CONNECT_FS">>} : ble = [queue |-> q, on |-> FALSE]
  BY DEF Init, FirstRequest
<1>2. ~WillBeOn(q, FALSE)
  BY DEF WillBeOn
<1>3. ~context.ble /\ pc # "stop_config"
  BY DEF Init
<1> QED BY <1>1, <1>2, <1>3 DEF BleInv, BleFollows

LEMMA OwnerTold ==
  ASSUME BleOK, OfferBle("CONNECT_FS")
  PROVE  WillBeOn(ble.queue, ble.on)' <=> WillBeOn(ble.queue, ble.on)
<1>1. \/ ble' = ble
      \/ ble'.queue = Append(ble.queue, "CONNECT_FS") /\ ble'.on = ble.on
  BY DEF OfferBle, BleOK
<1> QED BY ZenonT(60), <1>1, ToldNothing DEF BleOK

LEMMA CommandTold ==
  ASSUME BleOK, NEW c \in {"START", "STOP"}, OfferBle(c), Len(ble.queue) < BleDepth
  PROVE  WillBeOn(ble.queue, ble.on)' <=> c = "START"
<1>1. ble'.queue = Append(ble.queue, c) /\ ble'.on = ble.on
  BY DEF OfferBle, BleOK
<1> QED BY <1>1, ToldLast DEF BleOK

(* Steps that tell BLE nothing and leave the flag alone.                   *)
LEMMA FlagKept ==
  ASSUME TypeOK, BleInv,
         WillBeOn(ble.queue, ble.on)' <=> WillBeOn(ble.queue, ble.on),
         context'.ble = context.ble,
         context'.mode = "FIELD" => context.mode = "FIELD",
         pc' = "stop_config" => context'.mode # "FIELD"
  PROVE  BleInv'
BY DEF BleInv, BleFollows

LEMMA FlagWithTransition ==
  ASSUME TypeOK, BleInv, NEW s \in States, Transition(s),
         context'.ble = context.ble, context'.mode = context.mode
  PROVE  BleInv'
<1>1. pc' # "stop_config"
  BY DEF Transition, SetMemoryOwnership
<1>2. WillBeOn(ble.queue, ble.on)' <=> WillBeOn(ble.queue, ble.on)
  <2>1. BleOK
    BY DEF TypeOK
  <2>2. ble' = ble \/ OfferBle("CONNECT_FS")
    BY DEF Transition, SetMemoryOwnership
  <2> QED BY <2>1, <2>2, OwnerTold
<1> QED BY <1>1, <1>2, FlagKept

LEMMA BleStep == TypeOK /\ BleInv /\ [Next]_vars => BleInv'
<1> SUFFICES ASSUME TypeOK, BleInv, [Next]_vars PROVE BleInv'
  OBVIOUS
<1>1. BleOK /\ ContextOK
  BY DEF TypeOK
<1>2. ASSUME ble' = ble, context' = context, pc' # "stop_config" \/ pc' = pc
      PROVE  BleInv'
  BY <1>2, FlagKept DEF BleInv
<1>3. CASE \/ MemoryTask \/ MemServesBle \/ AudioTake \/ AudioSample \/ Press
           \/ Release \/ Tick \/ UNCHANGED vars
  <2>1. ble' = ble /\ UNCHANGED task
    BY <1>3 DEF MemoryTask, MemStarted, MemReset, MemTake, MemSelect, MemCreate,
      MemClose, MemCheck, MemFormat, MemSample, MemServesBle, Memory, AudioTake,
      AudioSample, Press, Release, Tick, vars
  <2> QED BY <2>1, <1>2 DEF task
<1>4. CASE BleTake
  <2>1. /\ ble.queue # <<>> /\ UNCHANGED task
        /\ ble' = [queue |-> Tail(ble.queue),
                   on |-> IF Head(ble.queue) = "CONNECT_FS" THEN ble.on
                          ELSE Head(ble.queue) = "START"]
    BY <1>4 DEF BleTake
  <2>2. ble.queue \in Seq(BleCommands) /\ ble.on \in BOOLEAN
    BY <1>1 DEF BleOK
  <2>3. WillBeOn(ble.queue, ble.on)' <=> WillBeOn(ble.queue, ble.on)
    BY <2>1, <2>2, ToldFirst
  <2> QED BY <2>1, <2>3, FlagKept DEF task, BleInv
<1>5. CASE LookInit \/ LookRecordPrepare \/ LookRecordEnd \/ IndicationOver
  <2>1. context' = context
    BY <1>5 DEF LookInit, LookRecordPrepare, LookRecordEnd, IndicationOver, Stay
  <2>2. \/ \E s \in States : Transition(s)
        \/ ble' = ble /\ pc' \in {"poll", "close"}
        \/ OfferBle("CONNECT_FS") /\ pc' = "own_audio"
    <3>1. CASE LookInit
      BY <3>1 DEF LookInit, Stay, States
    <3>2. CASE LookRecordPrepare
      BY <3>2 DEF LookRecordPrepare, Stay, States, SetMemoryOwnership
    <3>3. CASE LookRecordEnd
      BY <3>3 DEF LookRecordEnd, States
    <3>4. CASE IndicationOver
      <4>1. PICK s \in DOMAIN AfterIndication : Transition(AfterIndication[s])
        BY <3>4 DEF IndicationOver
      <4>2. AfterIndication[s] \in States
        BY DEF AfterIndication, States
      <4> QED BY <4>1, <4>2
    <3> QED BY <1>5, <3>1, <3>2, <3>3, <3>4
  <2>3. CASE \E s \in States : Transition(s)
    BY <2>1, <2>3, FlagWithTransition
  <2>4. CASE ble' = ble /\ pc' \in {"poll", "close"}
    BY <2>1, <2>4, <1>2
  <2>5. CASE OfferBle("CONNECT_FS") /\ pc' = "own_audio"
    BY <2>1, <2>5, <1>1, OwnerTold, FlagKept
  <2> QED BY <2>2, <2>3, <2>4, <2>5
<1>6. CASE LookRecording
  <2>1. context'.ble = context.ble /\ context'.mode = context.mode
    BY <1>1, <1>6 DEF LookRecording, Stay, ContextOK, Contexts
  <2>2. CASE Stay
    BY <2>2, <1>2 DEF Stay
  <2>3. CASE Transition("RECORD_END")
    BY <2>1, <2>3, FlagWithTransition DEF States
  <2> QED BY <1>6, <2>2, <2>3 DEF LookRecording
<1>7. CASE LookBleOperation
  <2>1. pc' = "poll" /\ (DisableBle(context) \/ UNCHANGED <<ble, context>>)
    BY <1>7 DEF LookBleOperation
  <2>2. CASE OfferBle("STOP") /\ Len(ble.queue) < BleDepth
             /\ context' = [context EXCEPT !.ble = FALSE]
    <3>1. ~WillBeOn(ble.queue, ble.on)'
      BY <2>2, <1>1, CommandTold
    <3>2. context'.ble = FALSE
      BY <2>2, <1>1 DEF ContextOK, Contexts
    <3> QED BY <2>1, <3>1, <3>2 DEF BleInv, BleFollows
  <2>3. CASE UNCHANGED <<ble, context>>
    BY <2>1, <2>3, <1>2
  <2> QED BY <2>1, <2>2, <2>3 DEF DisableBle
<1>8. CASE LookIndication
  <2>1. pc' = "poll" /\ ble' = ble
    BY <1>8 DEF LookIndication
  <2>2. context'.ble = context.ble /\ context'.mode = context.mode
    BY <1>1, <1>8 DEF LookIndication, ContextOK, Contexts
  <2> QED BY <2>1, <2>2, FlagKept
<1>9. CASE OwnedByAudio \/ RecordCreated
  <2>1. ble' = ble /\ pc' \in {"create", "poll"}
    BY <1>9 DEF OwnedByAudio, RecordCreated, RequestRecordStart
  <2>2. context'.ble = context.ble /\ context'.mode = context.mode
    BY <1>1, <1>9 DEF OwnedByAudio, RecordCreated, RequestRecordStart, ContextOK, Contexts
  <2> QED BY <2>1, <2>2, FlagKept
<1>10. CASE RecordClosed
  <2>1. context' = context
    BY <1>10 DEF RecordClosed
  <2>2. CASE Transition("BLE_OPERATION")
    BY <2>1, <2>2, FlagWithTransition DEF States
  <2>3. CASE ble' = ble /\ pc' = "poll"
    BY <2>1, <2>3, <1>2
  <2> QED BY <1>10, <2>2, <2>3 DEF RecordClosed
<1>11. CASE LookShutdown \/ OwnedByBle \/ CheckAnswered \/ FormatAnswered \/ PowerOff
  <2>1. ble' = ble /\ context' = context /\ pc' # "stop_config"
    BY <1>11 DEF LookShutdown, OwnedByBle, CheckAnswered, FormatAnswered, PowerOff
  <2> QED BY <2>1, <1>2
<1>12. CASE StartBle
  <2>1. pc' \in {"poll", "look"}
    BY <1>12 DEF StartBle
  <2>2. CASE /\ Len(ble.queue) < BleDepth /\ OfferBle("START")
             /\ context' = [context EXCEPT !.ble = TRUE]
    <3>1. WillBeOn(ble.queue, ble.on)'
      BY <2>2, <1>1, CommandTold
    <3>2. context'.ble = TRUE
      BY <2>2, <1>1 DEF ContextOK, Contexts
    <3> QED BY <2>1, <3>1, <3>2 DEF BleInv, BleFollows
  <2>3. CASE UNCHANGED <<ble, context>>
    BY <2>1, <2>3, <1>2
  <2> QED BY <1>12, <2>2, <2>3 DEF StartBle
<1>13. CASE StartForConfig
  <2>1. context'.mode # "FIELD"
    BY <1>1, <1>13 DEF StartForConfig, ContextOK, Contexts
  <2> QED BY <2>1 DEF BleInv, BleFollows
<1>14. CASE StopAfterConfig
  <2>1. context'.mode # "FIELD"
    BY <1>1, <1>14 DEF StopAfterConfig, ContextOK, Contexts, BleInv
  <2> QED BY <2>1 DEF BleInv, BleFollows
<1>15. CASE Poll
  <2>1. pc' \in {"own_config", "look"} /\ (ble' = ble \/ OfferBle("CONNECT_FS"))
    BY <1>15 DEF Poll, SetMemoryOwnership
  <2>2. WillBeOn(ble.queue, ble.on)' <=> WillBeOn(ble.queue, ble.on)
    BY <2>1, <1>1, OwnerTold
  <2>3. context'.ble = context.ble /\ (context'.mode = "FIELD" => context.mode = "FIELD")
    BY <1>1, <1>15 DEF Poll, ContextOK, Contexts
  <2> QED BY <2>1, <2>2, <2>3, FlagKept
<1> QED
  BY <1>3, <1>4, <1>5, <1>6, <1>7, <1>8, <1>9, <1>10, <1>11, <1>12, <1>13, <1>14, <1>15
  DEF Next, StateTask

(* Whatever is dropped by BLE's queue of two commands, delayed or fails:   *)
(* with a valid configuration the flag is_ble_system_active agrees with    *)
(* what BLE was told last.                                                 *)
THEOREM BleIsFollowed == Spec => []BleFollows
<1>1. Init => TypeOK /\ BleInv
  BY InitTypes, BleInit
<1>2. TypeOK /\ BleInv /\ [Next]_vars => TypeOK' /\ BleInv'
  BY StepTypes, BleStep
<1>3. BleInv => BleFollows
  BY DEF BleInv
<1> QED BY <1>1, <1>2, <1>3, PTL DEF Spec

----------------------------------------------------------------------------
(* Why an answer is the awaited one, if the memory task is in time.  At    *)
(* most one command is on its way, and none while the state task does not  *)
(* wait, but for the one that is sent after a reset: while that one is on  *)
(* its way the state task cannot leave its first states, because           *)
(* memory_status stays BUSY and the first 800 ticks do not pass.           *)

Starting == {"START", "RESET"}

Early ==
  /\ memory_status = "BUSY" /\ age = 0 /\ event = <<>>
  /\ system_state \in {"INIT", "RECORD_PREPARE"}
  /\ pc \in {"own_reset", "start_reset", "look", "poll"}
  /\ ~mem.open /\ mem.owner = "AUDIO"

Idle == command = <<>> /\ mem.doing \in Starting \cup {"none"}

(* The command after a reset.                                              *)
Residue ==
  /\ Early
  /\ \/ command = <<"SELECT_OWNER_BLE">> /\ mem.doing \in Starting \cup {"none"}
     \/ command = <<>> /\ mem.doing = "SELECT_OWNER_BLE"
  /\ pc # "own_reset" => status = <<>>

(* The memory task has not answered the mount yet.                         *)
Mounting ==
  mem.doing = "START" =>
    /\ Early /\ status = <<>>
    /\ command # <<>> => command = <<"SELECT_OWNER_BLE">> /\ pc = "own_reset"

(* The awaited command is in the queue, being worked on, or answered.      *)
Waiting(c) ==
  \/ status = <<>> /\ command = <<c>> /\ mem.doing \in {"RESET", "none"}
  \/ status = <<>> /\ command = <<>> /\ mem.doing = c
  \/ /\ status # <<>> /\ Head(status).cmd = c
     /\ command = <<>> /\ mem.doing \in {"RESET", "none"}

AnswerInv ==
  /\ mem.doing \in Starting => age = 0
  /\ Mounting
  /\ IF pc \in DOMAIN Awaited THEN Waiting(Awaited[pc]) ELSE Idle \/ Residue

LEMMA AwaitedCommands ==
  /\ DOMAIN Awaited = {"own_audio", "own_ble", "own_config", "create", "close",
                       "check", "format"}
  /\ Awaited["own_audio"] = "SELECT_OWNER_AUDIO"
  /\ Awaited["own_ble"] = "SELECT_OWNER_BLE"
  /\ Awaited["own_config"] = "SELECT_OWNER_BLE"
  /\ Awaited["create"] = "CREATE_RECORD"
  /\ Awaited["close"] = "CLOSE_WRITTEN_FILE"
  /\ Awaited["check"] = "PERFORM_MEMORY_CHECK"
  /\ Awaited["format"] = "FORMAT_FS"
BY DEF Awaited

(* Out of its first states nothing is on its way while nothing is awaited. *)
LEMMA SettledLater ==
  ASSUME AnswerInv, pc \notin DOMAIN Awaited, ~Early
  PROVE  Idle /\ mem.doing # "START"
BY DEF AnswerInv, Mounting, Residue

(* A wait ends with an answer, and then nothing is on its way.             *)
LEMMA SettledAnswer ==
  ASSUME Long = {}, AnswerInv, pc \in DOMAIN Awaited, Woken
  PROVE  status # <<>> /\ Idle /\ mem.doing # "START"
<1>1. Waiting(Awaited[pc])
  BY DEF AnswerInv
<1>2. Awaited[pc] # "none"
  BY AwaitedCommands
<1>3. ~(status = <<>>)
  BY <1>1, <1>2 DEF Woken, LimitPasses, SlowOrIdle, Waiting
<1> QED BY <1>1, <1>3 DEF Waiting, Idle, Starting

(* Then the state task may go on without a command,                        *)
LEMMA StaysSettled ==
  ASSUME AnswerInv, Idle, mem.doing # "START",
         mem' = mem, age' = age, command' = command, pc' \notin DOMAIN Awaited
  PROVE  AnswerInv'
BY DEF AnswerInv, Mounting, Idle, Awaited

(* or send one and wait,                                                   *)
LEMMA AsksSettled ==
  ASSUME AnswerInv, Idle, mem.doing # "START",
         mem' = mem, age' = age, NEW w \in DOMAIN Awaited, pc' = w,
         status' = <<>>, command' = <<Awaited[w]>>
  PROVE  AnswerInv'
<1>1. Waiting(Awaited[w])'
  BY DEF Waiting, Idle, Starting, Awaited
<1>2. pc' \in DOMAIN Awaited' /\ Awaited' = Awaited
  BY DEF Awaited
<1>3. Waiting(Awaited[pc])'
  BY <1>1, <1>2 DEF Waiting
<1> QED BY <1>2, <1>3 DEF AnswerInv, Mounting

(* or enter another state.                                                 *)
LEMMA EntersSettled ==
  ASSUME AnswerInv, Idle, mem.doing # "START", mem' = mem, age' = age,
         NEW s \in States, Transition(s)
  PROVE  AnswerInv'
<1>1. CASE s = "BLE_OPERATION"
  <2>1. SetMemoryOwnership("SELECT_OWNER_BLE", "own_ble")
    BY <1>1 DEF Transition
  <2>2. status' = <<>> /\ command' = <<Awaited["own_ble"]>> /\ pc' = "own_ble"
    BY <2>1, AwaitedCommands DEF SetMemoryOwnership, Ask, Offer, Idle
  <2> QED BY <2>2, AwaitedCommands, AsksSettled
<1>2. CASE s # "BLE_OPERATION"
  BY <1>2, StaysSettled, AwaitedCommands DEF Transition
<1> QED BY <1>1, <1>2

(* The first states may be left only when nothing is on its way.           *)
LEMMA StaysEarly ==
  ASSUME AnswerInv, pc \notin DOMAIN Awaited, pc # "own_reset",
         mem' = mem, age' = age, command' = command,
         pc' \in {"start_reset", "look", "poll"},
         \/ Early' /\ (status = <<>> => status' = <<>>)
         \/ Idle /\ mem.doing # "START"
  PROVE  AnswerInv'
<1>1. pc' \notin DOMAIN Awaited'
  BY AwaitedCommands DEF Awaited
<1>2. CASE Idle /\ mem.doing # "START"
  BY <1>1, <1>2, StaysSettled DEF Awaited
<1>3. CASE ~(Idle /\ mem.doing # "START")
  <2>1. Early' /\ (status = <<>> => status' = <<>>)
    BY <1>3
  <2>2. status = <<>> /\ (mem.doing = "START" => command = <<>>)
    BY <1>3 DEF AnswerInv, Mounting, Residue
  <2>3. Idle' \/ Residue'
    <3>1. CASE Idle
      BY <3>1 DEF Idle, Starting
    <3>2. CASE Residue
      BY <3>2, <2>1, <2>2 DEF Residue, Starting
    <3> QED BY <3>1, <3>2 DEF AnswerInv
  <2>4. Mounting'
    BY <2>1, <2>2 DEF Mounting
  <2>5. (mem.doing \in Starting => age = 0)'
    BY DEF AnswerInv, Starting
  <2> QED BY <1>1, <2>3, <2>4, <2>5 DEF AnswerInv
<1> QED BY <1>2, <1>3

LEMMA AnswerInit == Init => AnswerInv
<1> SUFFICES ASSUME Init PROVE AnswerInv
  OBVIOUS
<1>1. PICK down \in BOOLEAN, mode \in Configs, reason \in Starts :
        /\ FirstRequest(reason)
        /\ pc = IF reason = "UNKNOWN" THEN "look" ELSE "own_reset"
        /\ system_state = FirstState(mode, down /\ reason = "UNKNOWN")
  BY DEF Init
<1>2. pc \in {"look", "own_reset"} /\ pc \notin DOMAIN Awaited
  BY <1>1, AwaitedCommands
<1>3. mem.doing = "START" /\ mem.owner = "AUDIO" /\ mem.open = FALSE
  BY DEF Init
<1>4. Early /\ status = <<>>
  BY <1>1, <1>2, <1>3 DEF Init, Early, FirstState
<1>5. \/ command = <<>>
      \/ command = <<"SELECT_OWNER_BLE">> /\ pc = "own_reset"
  BY <1>1 DEF FirstRequest
<1> QED BY <1>2, <1>3, <1>4, <1>5
    DEF Init, AnswerInv, Mounting, Idle, Residue, Starting

(* The state task.                                                         *)
LEMMA AnswerLook ==
  ASSUME TypeOK, AnswerInv,
         LookInit \/ LookRecordPrepare \/ LookRecording \/ LookRecordEnd
         \/ LookBleOperation \/ LookIndication \/ IndicationOver \/ LookShutdown
  PROVE  AnswerInv'
<1>1. /\ pc = "look" /\ mem' = mem /\ age' = age /\ event' = event
      /\ memory_status' = memory_status /\ pc \notin DOMAIN Awaited
  BY AwaitedCommands
  DEF LookInit, LookRecordPrepare, LookRecording, LookRecordEnd, LookBleOperation,
      LookIndication, IndicationOver, LookShutdown, Look, Others
<1>2. ASSUME NEW s \in States, Transition(s), ~Early
      PROVE  AnswerInv'
  BY <1>1, <1>2, SettledLater, EntersSettled
<1>3. ASSUME command' = command, pc' \in {"poll", "release"}, ~Early
      PROVE  AnswerInv'
  BY <1>1, <1>3, SettledLater, StaysSettled, AwaitedCommands
<1>4. ASSUME Stay
      PROVE  AnswerInv'
  <2>1. Early => Early' /\ status' = status
    BY <1>1, <1>4 DEF Stay, Early
  <2>2. CASE Early
    BY <1>1, <1>4, <2>1, <2>2, StaysEarly DEF Stay
  <2>3. CASE ~Early
    BY <1>4, <2>3, <1>3 DEF Stay
  <2> QED BY <2>2, <2>3
<1>5. ASSUME NEW w \in DOMAIN Awaited, Ask(Awaited[w]), pc' = w, ~Early
      PROVE  AnswerInv'
  <2>1. Idle /\ mem.doing # "START"
    BY <1>1, <1>5, SettledLater
  <2>2. status' = <<>> /\ command' = <<Awaited[w]>>
    BY <1>5, <2>1 DEF Ask, Offer, Idle
  <2> QED BY <1>1, <1>5, <2>1, <2>2, AsksSettled
<1>6. CASE LookInit
  <2>1. CASE age >= 1 /\ Transition("BLE_OPERATION")
    BY <2>1, <1>2 DEF Early, States
  <2>2. CASE Transition("RECORD_PREPARE")
    <3>1. system_state' = "RECORD_PREPARE" /\ pc' = "poll" /\ UNCHANGED <<command, status>>
      BY <2>2 DEF Transition
    <3>2. CASE Early
      BY <1>1, <3>1, <3>2, StaysEarly DEF Early
    <3>3. CASE ~Early
      BY <2>2, <3>3, <1>2 DEF States
    <3> QED BY <3>2, <3>3
  <2>3. CASE Stay
    BY <2>3, <1>4
  <2> QED BY <1>6, <2>1, <2>2, <2>3 DEF LookInit
<1>7. CASE LookRecordPrepare
  <2>1. CASE Stay
    BY <2>1, <1>4
  <2>2. CASE memory_status = "READY" /\ SetMemoryOwnership("SELECT_OWNER_AUDIO", "own_audio")
    BY <2>2, <1>5, AwaitedCommands DEF SetMemoryOwnership, Early
  <2>3. CASE /\ memory_status # "BUSY"
             /\ Transition("OUT_OF_MEMORY") \/ Transition("MEMORY_IS_CORRUPT")
    BY <2>3, <1>2 DEF Early, States
  <2> QED BY <1>7, <2>1, <2>2, <2>3 DEF LookRecordPrepare
<1>8. CASE LookRecording
  <2>1. ~Early
    BY <1>8 DEF LookRecording, Look, Early
  <2>2. Stay \/ Transition("RECORD_END")
    BY <1>8 DEF LookRecording
  <2> QED BY <2>1, <2>2, <1>2, <1>4 DEF States
<1>9. CASE LookRecordEnd
  <2>1. ~Early
    BY <1>9 DEF LookRecordEnd, Look, Early
  <2>2. \/ Transition("OUT_OF_MEMORY") \/ Transition("MEMORY_IS_CORRUPT")
        \/ Ask("CLOSE_WRITTEN_FILE") /\ pc' = "close"
        \/ command' = command /\ pc' = "poll"
    BY <1>9 DEF LookRecordEnd
  <2> QED BY <2>1, <2>2, <1>2, <1>3, <1>5, AwaitedCommands DEF States
<1>10. CASE LookBleOperation \/ LookIndication
  <2>1. ~Early /\ command' = command /\ pc' = "poll"
    BY <1>10 DEF LookBleOperation, LookIndication, Look, Early, AfterIndication
  <2> QED BY <2>1, <1>3
<1>11. CASE IndicationOver
  <2>1. PICK s \in DOMAIN AfterIndication : Look(s) /\ Transition(AfterIndication[s])
    BY <1>11 DEF IndicationOver
  <2>2. ~Early /\ AfterIndication[s] \in States
    BY <2>1 DEF Look, Early, AfterIndication, States
  <2> QED BY <2>1, <2>2, <1>2
<1>12. CASE LookShutdown
  <2>1. ~Early
    BY <1>12 DEF LookShutdown, Look, Early
  <2>2. \/ Ask("PERFORM_MEMORY_CHECK") /\ pc' = "check"
        \/ command' = command /\ pc' = "release"
    BY <1>12 DEF LookShutdown
  <2> QED BY <2>1, <2>2, <1>3, <1>5, AwaitedCommands
<1> QED BY <1>6, <1>7, <1>8, <1>9, <1>10, <1>11, <1>12

LEMMA AnswerWake ==
  ASSUME Long = {}, TypeOK, AnswerInv,
         OwnedByAudio \/ RecordCreated \/ RecordClosed \/ OwnedByBle
         \/ CheckAnswered \/ FormatAnswered
  PROVE  AnswerInv'
<1>1. mem' = mem /\ age' = age /\ pc \in Waits /\ Woken
  BY DEF OwnedByAudio, RecordCreated, RecordClosed, OwnedByBle, CheckAnswered,
         FormatAnswered, Wake, Others, Waits
<1>2. CASE pc = "own_reset"
  <2>1. OwnedByBle
    BY <1>2 DEF OwnedByAudio, RecordCreated, RecordClosed, CheckAnswered,
                FormatAnswered, Wake
  <2>2. /\ pc' = "start_reset" /\ status' = <<>>
        /\ UNCHANGED <<system_state, memory_status, command, event>>
    BY <1>2, <2>1 DEF OwnedByBle, Wake
  <2>3. mem.doing # "START"
    BY <1>1 DEF AnswerInv, Mounting, Woken, LimitPasses, SlowOrIdle
  <2>4. Idle \/ Residue
    BY <1>2, AwaitedCommands DEF AnswerInv
  <2>5. CASE Idle
    BY <1>1, <2>2, <2>3, <2>5, StaysSettled, AwaitedCommands
  <2>6. CASE Residue
    <3>1. Residue'
      BY <1>1, <2>2, <2>6 DEF Residue, Early, Starting
    <3>2. Mounting' /\ (mem.doing \in Starting => age = 0)'
      BY <1>1, <2>3 DEF Mounting, AnswerInv, Starting
    <3>3. (pc \notin DOMAIN Awaited)'
      BY <2>2, AwaitedCommands DEF Awaited
    <3> QED BY <3>1, <3>2, <3>3 DEF AnswerInv
  <2> QED BY <2>4, <2>5, <2>6
<1>3. CASE pc # "own_reset"
  <2>1. pc \in DOMAIN Awaited
    BY <1>1, <1>3, AwaitedCommands DEF Waits
  <2>2. status # <<>> /\ Idle /\ mem.doing # "START" /\ command = <<>>
    BY <1>1, <2>1, SettledAnswer DEF Idle
  <2>3. ASSUME command' = command, pc' \notin DOMAIN Awaited
        PROVE  AnswerInv'
    BY <1>1, <2>2, <2>3, StaysSettled
  <2>4. ASSUME NEW w \in DOMAIN Awaited, status' = <<>>, command' = <<Awaited[w]>>, pc' = w
        PROVE  AnswerInv'
    BY <1>1, <2>2, <2>4, AsksSettled
  <2>5. CASE OwnedByAudio
    BY <2>2, <2>4, <2>5, AwaitedCommands DEF OwnedByAudio
  <2>6. CASE RecordCreated
    BY <2>3, <2>6, AwaitedCommands DEF RecordCreated, RequestRecordStart
  <2>7. CASE RecordClosed
    <3>1. Transition("BLE_OPERATION") \/ (command' = command /\ pc' = "poll")
      BY <2>7 DEF RecordClosed
    <3> QED BY <3>1, <1>1, <2>2, <2>3, EntersSettled, AwaitedCommands DEF States
  <2>8. CASE OwnedByBle
    BY <1>3, <2>3, <2>8, AwaitedCommands DEF OwnedByBle
  <2>9. CASE CheckAnswered
    <3>1. \/ command' = <<"FORMAT_FS">> /\ pc' = "format"
          \/ command' = command /\ pc' = "release"
      BY <2>9 DEF CheckAnswered
    <3>2. status' = <<>>
      BY <2>9 DEF CheckAnswered
    <3> QED BY <3>1, <3>2, <2>3, <2>4, AwaitedCommands
  <2>10. CASE FormatAnswered
    BY <2>3, <2>10, AwaitedCommands DEF FormatAnswered
  <2> QED BY <2>5, <2>6, <2>7, <2>8, <2>9, <2>10
<1> QED BY <1>2, <1>3

LEMMA AnswerElse ==
  ASSUME TypeOK, AnswerInv,
         StartBle \/ Poll \/ StartForConfig \/ StopAfterConfig \/ PowerOff
  PROVE  AnswerInv'
<1>1. mem' = mem /\ age' = age
  BY DEF StartBle, Poll, StartForConfig, StopAfterConfig, PowerOff, Others
<1>2. pc \in {"start_ble", "start_reset", "poll", "start_config", "stop_config", "release"}
  BY DEF StartBle, Poll, StartForConfig, StopAfterConfig, PowerOff
<1>3. pc \notin DOMAIN Awaited /\ pc # "own_reset"
  BY <1>2, AwaitedCommands
<1>4. CASE StartBle
  <2>1. /\ pc' \in {"poll", "look"}
        /\ UNCHANGED <<memory_status, command, status, event>>
    BY <1>4 DEF StartBle
  <2>2. CASE Early
    <3>1. pc = "start_reset"
      BY <1>4, <2>2 DEF StartBle, Early
    <3>2. system_state' \in {"INIT", "RECORD_PREPARE"}
      BY <1>4, <3>1 DEF StartBle, FirstState
    <3>3. Early'
      BY <1>1, <2>1, <2>2, <3>2 DEF Early
    <3> QED BY <1>1, <1>3, <2>1, <3>3, StaysEarly
  <2>3. CASE ~Early
    BY <1>1, <1>3, <2>1, <2>3, SettledLater, StaysSettled, AwaitedCommands
  <2> QED BY <2>2, <2>3
<1>5. CASE Poll
  <2>1. CASE Early
    <3>1. age = 0 /\ event = <<>> /\ memory_status = "BUSY"
      BY <2>1 DEF Early
    <3>2. ~LoadNow
      BY <3>1 DEF LoadNow
    <3>3. /\ pc' = "look" /\ command' = command /\ status' = <<>> /\ event' = <<>>
          /\ system_state' = system_state
          /\ status = <<>> => memory_status' = "BUSY"
      BY <1>5, <3>1, <3>2 DEF Poll
    <3>4. CASE status = <<>>
      <4>1. Early'
        BY <1>1, <2>1, <3>3, <3>4 DEF Early
      <4> QED BY <1>1, <1>3, <3>3, <4>1, StaysEarly
    <3>5. CASE status # <<>>
      <4>1. Idle /\ mem.doing # "START"
        BY <1>3, <3>5 DEF AnswerInv, Mounting, Residue
      <4> QED BY <1>1, <3>3, <4>1, StaysSettled, AwaitedCommands
    <3> QED BY <3>4, <3>5
  <2>2. CASE ~Early
    <3>1. Idle /\ mem.doing # "START"
      BY <1>3, <2>2, SettledLater
    <3>2. \/ SetMemoryOwnership("SELECT_OWNER_BLE", "own_config")
          \/ pc' = "look" /\ command' = command
      BY <1>5 DEF Poll
    <3>3. CASE SetMemoryOwnership("SELECT_OWNER_BLE", "own_config")
      <4>1. status' = <<>> /\ command' = <<Awaited["own_config"]>> /\ pc' = "own_config"
        BY <3>1, <3>3, AwaitedCommands DEF SetMemoryOwnership, Ask, Offer, Idle
      <4> QED BY <1>1, <3>1, <4>1, AwaitedCommands, AsksSettled
    <3>4. CASE pc' = "look" /\ command' = command
      BY <1>1, <3>1, <3>4, StaysSettled, AwaitedCommands
    <3> QED BY <3>2, <3>3, <3>4
  <2> QED BY <2>1, <2>2
<1>6. CASE StartForConfig \/ StopAfterConfig \/ PowerOff
  <2>1. ~Early
    BY <1>6 DEF StartForConfig, StopAfterConfig, PowerOff, Early
  <2>2. command' = command /\ pc' \in {"stop_config", "look", "off"}
    BY <1>6 DEF StartForConfig, StopAfterConfig, PowerOff
  <2> QED BY <1>1, <1>3, <2>1, <2>2, SettledLater, StaysSettled, AwaitedCommands
<1> QED BY <1>4, <1>5, <1>6

(* The memory task runs only while the state task waits in vain.           *)
LEMMA NoAnswerYet ==
  ASSUME Memory, pc \in Waits
  PROVE  status = <<>>
BY DEF Memory, LowPriorityRuns, StateReady

(* The end of the command that is being worked on.                         *)
LEMMA AnswerDone ==
  ASSUME AnswerInv, Memory, NEW c \in Commands, mem.doing = c, mem'.doing = "none",
         NEW r, Done(c, r)
  PROVE  AnswerInv'
<1>1. pc' = pc /\ age' = age /\ command' = command /\ Awaited' = Awaited
  BY DEF Memory, task, Done, Awaited
<1>2. c \notin Starting \cup {"none"}
  BY DEF Commands, Starting
<1>3. command = <<>>
  BY <1>2 DEF AnswerInv, Idle, Residue, Waiting, Starting
<1>4. CASE pc \in DOMAIN Awaited
  <2>1. pc \in Waits
    BY <1>4, AwaitedCommands DEF Waits
  <2>2. status = <<>> /\ c = Awaited[pc]
    BY <1>2, <1>4, <2>1, NoAnswerYet DEF AnswerInv, Waiting, Starting
  <2>3. status' = <<Answer(c, r)>>
    BY <2>2 DEF Done, Offer
  <2>4. status' # <<>> /\ Head(status').cmd = c
    BY <2>3 DEF Answer
  <2>5. Waiting(Awaited[pc])'
    BY <1>1, <1>3, <2>2, <2>4 DEF Waiting
  <2> QED BY <1>1, <1>4, <2>5 DEF AnswerInv, Mounting, Starting
<1>5. CASE pc \notin DOMAIN Awaited
  BY <1>1, <1>3, <1>5 DEF AnswerInv, Mounting, Idle, Starting
<1> QED BY <1>4, <1>5

LEMMA AnswerMemory ==
  ASSUME TypeOK, AnswerInv, MemoryTask \/ MemServesBle
  PROVE  AnswerInv'
<1>1. Memory
  BY DEF MemoryTask, MemStarted, MemReset, MemTake, MemSelect, MemCreate, MemClose,
         MemCheck, MemFormat, MemSample, MemServesBle
<1>2. /\ pc' = pc /\ age' = age /\ system_state' = system_state
      /\ memory_status' = memory_status /\ Awaited' = Awaited
  BY <1>1 DEF Memory, task, Awaited
<1>3. MemOK
  BY DEF TypeOK
<1>4. CASE MemStarted
  <2>1. mem.doing = "START" /\ Early /\ status = <<>> /\ pc \notin DOMAIN Awaited
    BY <1>4, AwaitedCommands DEF MemStarted, AnswerInv, Mounting, Early
  <2>2. /\ mem'.doing = "RESET" /\ mem'.open = mem.open /\ mem'.owner = mem.owner
        /\ command' = command /\ event' = event
    BY <1>3, <1>4 DEF MemStarted, Mounted, MemOK, Mems
  <2>3. Early'
    BY <1>2, <2>1, <2>2 DEF Early
  <2>4. Idle' \/ Residue'
    BY <1>2, <2>1, <2>2, <2>3 DEF AnswerInv, Mounting, Idle, Residue, Starting
  <2> QED BY <1>2, <2>1, <2>2, <2>4 DEF AnswerInv, Mounting, Starting, Early
<1>5. CASE MemReset
  <2>1. mem.doing = "RESET" /\ age = 0
    BY <1>5 DEF MemReset, AnswerInv, Starting
  <2>2. /\ mem'.doing = "none" /\ mem'.open = mem.open /\ mem'.owner = mem.owner
        /\ command' = command /\ UNCHANGED <<status, event>>
    BY <1>3, <1>5, <2>1 DEF MemReset, MemOK, Mems
  <2>3. Early => Early'
    BY <1>2, <2>2 DEF Early
  <2>4. pc \in DOMAIN Awaited /\ Waiting(Awaited[pc]) => Waiting(Awaited[pc])'
    BY <1>2, <2>1, <2>2, AwaitedCommands DEF Waiting
  <2>5. Idle \/ Residue => Idle' \/ Residue'
    <3>1. Idle => Idle'
      BY <2>2 DEF Idle
    <3>2. Residue => Residue'
      BY <1>2, <2>1, <2>2, <2>3 DEF Residue, Starting
    <3> QED BY <3>1, <3>2
  <2> QED BY <1>2, <2>2, <2>4, <2>5 DEF AnswerInv, Mounting, Starting
<1>6. CASE MemTake
  <2>1. /\ mem.doing = "none" /\ command # <<>>
        /\ mem'.doing = Head(command) /\ command' = <<>>
        /\ mem'.open = mem.open /\ mem'.owner = mem.owner /\ UNCHANGED <<status, event>>
    BY <1>3, <1>6 DEF MemTake, MemOK, Mems
  <2>2. CASE pc \in DOMAIN Awaited
    <3>1. status = <<>> /\ command = <<Awaited[pc]>>
      BY <2>1, <2>2, AwaitedCommands DEF AnswerInv, Waiting
    <3>2. Waiting(Awaited[pc])'
      BY <1>2, <2>1, <3>1 DEF Waiting
    <3>3. mem'.doing \notin Starting
      BY <2>1, <2>2, <3>1, AwaitedCommands DEF Starting
    <3> QED BY <1>2, <2>2, <3>2, <3>3 DEF AnswerInv, Mounting, Starting
  <2>3. CASE pc \notin DOMAIN Awaited
    <3>1. Residue /\ command = <<"SELECT_OWNER_BLE">>
      BY <2>1, <2>3 DEF AnswerInv, Idle, Residue
    <3>2. Residue' /\ mem'.doing = "SELECT_OWNER_BLE"
      BY <1>2, <2>1, <3>1 DEF Residue, Early
    <3> QED BY <1>2, <2>3, <3>2 DEF AnswerInv, Mounting, Starting
  <2> QED BY <2>2, <2>3
<1>7. CASE MemSelect
  <2>1. mem.doing \in Commands /\ mem'.doing = "none" /\ \E r : Done(mem.doing, r)
    <3>1. \A r : Mounted(r) \in Mems /\ Mounted(r).doing = "none"
      BY <1>3 DEF Mounted, MemOK, Mems
    <3>2. PICK r \in Mounts :
            \/ /\ mem.doing = "SELECT_OWNER_BLE"
               /\ mem' = [Mounted(r) EXCEPT !.owner = IF r = "ERROR_GENERAL" THEN @ ELSE "BLE"]
               /\ Done(mem.doing, IF r = "ERROR_GENERAL" THEN r ELSE "OK")
            \/ /\ mem.doing = "SELECT_OWNER_AUDIO"
               /\ mem' = [Mounted(r) EXCEPT !.owner = IF r = "OK" THEN "AUDIO" ELSE @]
               /\ Done(mem.doing, r)
      BY <1>7 DEF MemSelect
    <3>3. mem'.doing = "none"
      BY <3>1, <3>2 DEF Mems
    <3> QED BY <3>2, <3>3 DEF Commands
  <2> QED BY <1>1, <2>1, AnswerDone
<1>8. CASE MemCreate \/ MemClose \/ MemCheck \/ MemFormat
  <2>1. mem.doing \in Commands
    BY <1>8 DEF MemCreate, MemClose, MemCheck, MemFormat, Commands
  <2>2. mem'.doing = "none" /\ \E r : Done(mem.doing, r)
    <3>1. CASE MemCreate
      BY <1>3, <3>1 DEF MemCreate, MemOK, Mems
    <3>2. CASE MemClose
      BY <1>3, <3>2 DEF MemClose, MemOK, Mems
    <3>3. CASE MemCheck
      BY <1>3, <3>3 DEF MemCheck, MemOK, Mems
    <3>4. CASE MemFormat
      BY <1>3, <3>4 DEF MemFormat, Mounted, MemOK, Mems
    <3> QED BY <1>8, <3>1, <3>2, <3>3, <3>4
  <2> QED BY <1>1, <2>1, <2>2, AnswerDone
<1>9. CASE MemSample \/ MemServesBle
  <2>1. ~Early
    BY <1>9 DEF MemSample, Draining, MemServesBle, Early
  <2>2. mem.doing = "none" /\ mem'.doing = "none" /\ UNCHANGED <<command, status>>
    BY <1>3, <1>9 DEF MemSample, MemServesBle, MemOK, Mems
  <2>3. Waiting(Awaited[pc]) => Waiting(Awaited[pc])'
    BY <1>2, <2>2 DEF Waiting
  <2>4. Idle => Idle'
    BY <2>2 DEF Idle
  <2> QED BY <1>2, <2>1, <2>2, <2>3, <2>4 DEF AnswerInv, Mounting, Residue, Starting
<1> QED BY <1>4, <1>5, <1>6, <1>7, <1>8, <1>9 DEF MemoryTask

LEMMA AnswerWorld ==
  ASSUME Long = {}, TypeOK, AnswerInv,
         AudioTake \/ AudioSample \/ BleTake \/ Press \/ Release \/ Tick
         \/ UNCHANGED vars
  PROVE  AnswerInv'
<1>1. UNCHANGED <<task, command, status, event, mem>> /\ Awaited' = Awaited
  BY DEF AudioTake, AudioSample, BleTake, Press, Release, Tick, vars, task, Awaited
<1>2. CASE age' = age
  BY <1>1, <1>2 DEF task, AnswerInv, Mounting, Waiting, Idle, Residue, Early
<1>3. CASE Tick
  <2>1. mem.doing = "none" /\ command = <<>>
    BY <1>3 DEF Tick, SlowOrIdle
  <2>2. Waiting(Awaited[pc]) => Waiting(Awaited[pc])'
    BY <1>1 DEF task, Waiting
  <2>3. Idle'
    BY <1>1, <2>1 DEF Idle
  <2> QED BY <1>1, <2>1, <2>2, <2>3 DEF task, AnswerInv, Mounting, Starting
<1> QED BY <1>2, <1>3 DEF AudioTake, AudioSample, BleTake, Press, Release, vars

LEMMA AnswerStep == Long = {} => (TypeOK /\ AnswerInv /\ [Next]_vars => AnswerInv')
BY AnswerLook, AnswerWake, AnswerElse, AnswerMemory, AnswerWorld DEF Next, StateTask

(* With a memory task in time, every wait of the state task ends with the  *)
(* answer to the command that it sent, whatever fails, how ever the        *)
(* samples, the button and BLE interleave, also after a reset by the file  *)
(* transfer service.                                                       *)
THEOREM AnswersAreAwaited ==
  ASSUME Long = {}
  PROVE  Spec => []AnswersMatch
<1>1. Init => TypeOK /\ AnswerInv
  BY InitTypes, AnswerInit
<1>2. TypeOK /\ AnswerInv /\ [Next]_vars => TypeOK' /\ AnswerInv'
  BY StepTypes, AnswerStep
<1>3. AnswerInv => AnswersMatch
  <2>1. ASSUME AnswerInv, pc \in DOMAIN Awaited, status # <<>>
        PROVE  Head(status).cmd = Awaited[pc]
    BY <2>1 DEF AnswerInv, Waiting
  <2> QED BY <2>1 DEF AnswersMatch
<1> QED BY <1>1, <1>2, <1>3, PTL DEF Spec
----------------------------------------------------------------------------
(* Where a record can be open for writing while the state task is at some  *)
(* point, and why it is not when the power is cut.  The memory task has    *)
(* answered its mount, but not yet reset its queue, in the first states    *)
(* only; a record that failed in the middle is not open any more, and the  *)
(* event that tells so is looked at before the next one.                   *)

RecordStates == {"RECORDING", "RECORD_END", "OUT_OF_MEMORY"}

Fresh ==
  mem.doing \in Starting =>
    /\ system_state \in {"INIT", "RECORD_PREPARE"}
    /\ pc \in {"own_reset", "start_reset", "look", "poll", "own_audio"}
    /\ pc = "own_audio" => status = <<>>
    /\ memory_status \in {"BUSY", "READY"} /\ event = <<>>
    /\ status # <<>> => Head(status).status \in {"IS_READY", "ERROR_BUSY"}

Places ==
  /\ pc \in {"own_audio", "create"} => system_state = "RECORD_PREPARE"
  /\ pc = "close" => system_state = "RECORD_END"
  /\ pc \in {"own_reset", "start_reset"} => system_state \in {"INIT", "RECORD_PREPARE"}
  /\ pc \in {"check", "format", "release", "off"} => system_state = "SHUTDOWN"

Fatal == event = <<"ERROR_FATAL">>
FatalAt ==
  Fatal => ~mem.writing /\ (pc = "poll" \/ system_state \in RecordStates)

Recordable ==
  mem.writing \/ pc \in {"own_audio", "create"} =>
    memory_status \in {"READY", "OUT_OF_MEMORY"}

WritingAt ==
  mem.writing =>
    \/ pc = "create" /\ status # <<>>
    \/ /\ system_state \in RecordStates
       /\ pc \in {"poll", "look"} \/ (pc \in {"close", "own_config", "own_ble"} /\ status = <<>>)

Quiet == pc \in {"own_audio", "create"} /\ status # <<>> => audio.queue = <<>>

OpenInv == Fresh /\ Places /\ FatalAt /\ Recordable /\ WritingAt /\ Quiet

LEMMA OpenInit == Init => OpenInv
<1> SUFFICES ASSUME Init PROVE OpenInv
  OBVIOUS
<1>1. PICK down \in BOOLEAN, mode \in Configs, reason \in Starts :
        /\ pc = IF reason = "UNKNOWN" THEN "look" ELSE "own_reset"
        /\ system_state = FirstState(mode, down /\ reason = "UNKNOWN")
  BY DEF Init
<1>2. pc \in {"look", "own_reset"} /\ system_state \in {"INIT", "RECORD_PREPARE"}
  BY <1>1 DEF FirstState
<1>3. mem.writing = FALSE /\ event = <<>> /\ status = <<>> /\ memory_status = "BUSY"
  BY DEF Init
<1> QED BY <1>2, <1>3
    DEF OpenInv, Fresh, Places, Fatal, FatalAt, Recordable, WritingAt, Quiet

(* The state task enters another state, or waits for the owner BLE.        *)
LEMMA OpenEnters ==
  ASSUME OpenInv, mem' = mem, event' = event, memory_status' = memory_status,
         NEW s \in States, Transition(s),
         Fatal => system_state \in RecordStates,
         mem.doing \in Starting => s \in {"INIT", "RECORD_PREPARE"},
         mem.writing => system_state \in RecordStates /\ s \in RecordStates \cup {"BLE_OPERATION"}
  PROVE  OpenInv'
<1>1. CASE s = "BLE_OPERATION"
  <2>1. pc' = "own_ble" /\ status' = <<>> /\ system_state' = system_state
    BY <1>1 DEF Transition, SetMemoryOwnership, Ask
  <2> QED BY <1>1, <2>1
      DEF OpenInv, Fresh, Places, Fatal, FatalAt, Recordable, WritingAt, Quiet, RecordStates
<1>2. CASE s # "BLE_OPERATION"
  <2>1. pc' = "poll" /\ status' = status /\ system_state' = s
    BY <1>2 DEF Transition
  <2> QED BY <1>2, <2>1
      DEF OpenInv, Fresh, Places, Fatal, FatalAt, Recordable, WritingAt, Quiet, RecordStates
<1> QED BY <1>1, <1>2

LEMMA OpenLook ==
  ASSUME AnswerInv, OpenInv,
         LookInit \/ LookRecordPrepare \/ LookRecording \/ LookRecordEnd
         \/ LookBleOperation \/ LookIndication \/ IndicationOver \/ LookShutdown
  PROVE  OpenInv'
<1>1. /\ pc = "look" /\ mem' = mem /\ age' = age /\ event' = event
      /\ memory_status' = memory_status
  BY DEF LookInit, LookRecordPrepare, LookRecording, LookRecordEnd, LookBleOperation,
      LookIndication, IndicationOver, LookShutdown, Look, Others
<1>2. /\ Fatal => system_state \in RecordStates
      /\ mem.writing => system_state \in RecordStates
      /\ mem.doing \in Starting => /\ system_state \in {"INIT", "RECORD_PREPARE"}
                                   /\ memory_status \in {"BUSY", "READY"} /\ age = 0
  BY <1>1 DEF OpenInv, FatalAt, WritingAt, Fresh, AnswerInv
<1>3. ASSUME NEW s \in States, Transition(s),
             mem.doing \in Starting => s \in {"INIT", "RECORD_PREPARE"},
             mem.writing => s \in RecordStates \cup {"BLE_OPERATION"}
      PROVE  OpenInv'
  BY <1>1, <1>2, <1>3, OpenEnters
<1>4. ASSUME Stay
      PROVE  OpenInv'
  BY <1>1, <1>4
  DEF Stay, OpenInv, Fresh, Places, Fatal, FatalAt, Recordable, WritingAt, Quiet
<1>5. ASSUME pc' = "poll", mem.doing \notin Starting, ~mem.writing
      PROVE  OpenInv'
  BY <1>1, <1>5
  DEF OpenInv, Fresh, Places, Fatal, FatalAt, Recordable, WritingAt, Quiet
<1>6. CASE LookInit
  <2>1. system_state = "INIT"
    BY <1>6 DEF LookInit, Look
  <2>2. ~mem.writing
    BY <1>2, <2>1 DEF RecordStates
  <2>3. CASE age >= 1 /\ Transition("BLE_OPERATION")
    BY <1>2, <1>3, <2>2, <2>3 DEF States
  <2>4. CASE Transition("RECORD_PREPARE")
    BY <1>3, <2>2, <2>4 DEF States
  <2> QED BY <1>4, <1>6, <2>3, <2>4 DEF LookInit
<1>7. CASE LookRecordPrepare
  <2>1. system_state = "RECORD_PREPARE"
    BY <1>7 DEF LookRecordPrepare, Look
  <2>2. ~mem.writing /\ ~Fatal
    BY <1>2, <2>1 DEF RecordStates
  <2>3. CASE /\ memory_status = "READY" /\ UNCHANGED <<system_state, context, audio>>
             /\ SetMemoryOwnership("SELECT_OWNER_AUDIO", "own_audio")
    <3>1. pc' = "own_audio" /\ status' = <<>> /\ system_state' = system_state
      BY <2>3 DEF SetMemoryOwnership, Ask
    <3> QED BY <1>1, <2>1, <2>2, <2>3, <3>1
        DEF OpenInv, Fresh, Places, Fatal, FatalAt, Recordable, WritingAt, Quiet
  <2>4. CASE /\ memory_status \in {"OUT_OF_MEMORY", "CORRUPT"}
             /\ Transition("OUT_OF_MEMORY") \/ Transition("MEMORY_IS_CORRUPT")
    BY <1>2, <1>3, <2>2, <2>4 DEF States
  <2> QED BY <1>4, <1>7, <2>3, <2>4 DEF LookRecordPrepare
<1>8. CASE LookRecording
  <2>1. system_state = "RECORDING" /\ (Stay \/ Transition("RECORD_END"))
    BY <1>8 DEF LookRecording, Look
  <2> QED BY <1>2, <1>3, <1>4, <2>1 DEF States, RecordStates
<1>9. CASE LookRecordEnd
  <2>1. system_state = "RECORD_END" /\ mem.doing \notin Starting
    BY <1>2, <1>9 DEF LookRecordEnd, Look
  <2>2. command = <<>>
    BY <1>1, <2>1, SettledLater, AwaitedCommands DEF Idle, Early
  <2>3. CASE Transition("OUT_OF_MEMORY")
    BY <1>3, <2>1, <2>3 DEF States, RecordStates
  <2>4. CASE memory_status = "CORRUPT" /\ Transition("MEMORY_IS_CORRUPT")
    BY <1>3, <2>1, <2>4 DEF States, OpenInv, Recordable
  <2>5. CASE Ask("CLOSE_WRITTEN_FILE") /\ pc' = "close" /\ UNCHANGED <<system_state, ble>>
    <3>1. status' = <<>> /\ system_state' = "RECORD_END"
      BY <2>1, <2>5 DEF Ask
    <3> QED BY <1>1, <1>2, <2>1, <2>5, <3>1
        DEF OpenInv, Fresh, Places, Fatal, FatalAt, Recordable, WritingAt, Quiet, RecordStates
  <2> QED BY <1>9, <2>2, <2>3, <2>4, <2>5 DEF LookRecordEnd
<1>10. CASE LookBleOperation
  <2>1. system_state = "BLE_OPERATION" /\ pc' = "poll"
    BY <1>10 DEF LookBleOperation, Look
  <2> QED BY <1>2, <1>5, <2>1 DEF RecordStates
<1>11. CASE LookIndication
  <2>1. /\ system_state \in {"BATTERY_LOW", "OUT_OF_MEMORY", "MEMORY_IS_CORRUPT"}
        /\ pc' = "poll" /\ system_state' = system_state
    BY <1>11 DEF LookIndication, Look, AfterIndication
  <2>2. mem.doing \notin Starting
    BY <1>2, <2>1
  <2> QED BY <1>1, <1>2, <2>1, <2>2
      DEF OpenInv, Fresh, Places, Fatal, FatalAt, Recordable, WritingAt, Quiet
<1>12. CASE IndicationOver
  <2>1. PICK s \in DOMAIN AfterIndication :
          system_state = s /\ Transition(AfterIndication[s])
    BY <1>12 DEF IndicationOver, Look
  <2>2. s \in {"BATTERY_LOW", "OUT_OF_MEMORY", "MEMORY_IS_CORRUPT"}
    BY <2>1 DEF AfterIndication
  <2>3. mem.doing \notin Starting
    BY <1>2, <2>1, <2>2
  <2>4. CASE s = "OUT_OF_MEMORY"
    <3>1. Transition("BLE_OPERATION")
      BY <2>1, <2>4 DEF AfterIndication
    <3> QED BY <1>3, <2>3, <3>1 DEF States
  <2>5. CASE s # "OUT_OF_MEMORY"
    <3>1. Transition("SHUTDOWN")
      BY <2>1, <2>2, <2>5 DEF AfterIndication
    <3>2. ~mem.writing
      BY <1>2, <2>1, <2>2, <2>5 DEF RecordStates
    <3> QED BY <1>3, <2>3, <3>1, <3>2 DEF States
  <2> QED BY <2>4, <2>5
<1>13. CASE LookShutdown
  <2>1. system_state = "SHUTDOWN" /\ system_state' = "SHUTDOWN" /\ pc' \in {"check", "release"}
    BY <1>13 DEF LookShutdown, Look
  <2>2. mem.doing \notin Starting /\ ~mem.writing /\ ~Fatal
    BY <1>2, <2>1 DEF RecordStates
  <2> QED BY <1>1, <2>1, <2>2
      DEF OpenInv, Fresh, Places, Fatal, FatalAt, Recordable, WritingAt, Quiet
<1> QED BY <1>6, <1>7, <1>8, <1>9, <1>10, <1>11, <1>12, <1>13

LEMMA OpenWake ==
  ASSUME Long = {}, AnswerInv, OpenInv,
         OwnedByAudio \/ RecordCreated \/ RecordClosed \/ OwnedByBle
         \/ CheckAnswered \/ FormatAnswered
  PROVE  OpenInv'
<1>1. mem' = mem /\ event' = event /\ pc \in Waits /\ Woken
  BY DEF OwnedByAudio, RecordCreated, RecordClosed, OwnedByBle, CheckAnswered,
         FormatAnswered, Wake, Others, Waits
<1>2. pc # "own_reset" => /\ status # <<>> /\ command = <<>> /\ mem.doing = "none"
                          /\ pc # "create" => ~mem.writing
  <2>1. SUFFICES ASSUME pc # "own_reset"
                 PROVE  /\ status # <<>> /\ command = <<>> /\ mem.doing = "none"
                        /\ pc # "create" => ~mem.writing
    OBVIOUS
  <2>2. pc \in DOMAIN Awaited
    BY <1>1, <2>1, AwaitedCommands DEF Waits
  <2>3. status # <<>> /\ Idle /\ mem.doing # "START"
    BY <1>1, <2>2, SettledAnswer
  <2>4. mem.doing \notin Starting
    BY <1>1, <2>1, <2>3 DEF OpenInv, Fresh, Waits
  <2> QED BY <1>1, <2>1, <2>3, <2>4 DEF Idle, Starting, OpenInv, WritingAt, Waits
<1>3. CASE OwnedByAudio
  <2>1. pc = "own_audio" /\ memory_status' = memory_status /\ status' = <<>>
    BY <1>3 DEF OwnedByAudio, Wake
  <2>2. pc' = "create" /\ UNCHANGED <<system_state, audio>>
    BY <1>2, <1>3, <2>1 DEF OwnedByAudio
  <2> QED BY <1>1, <1>2, <2>1, <2>2
      DEF OpenInv, Fresh, Places, Fatal, FatalAt, Recordable, WritingAt, Quiet, Starting
<1>4. CASE RecordCreated
  <2>1. pc = "create" /\ memory_status' = memory_status /\ status' = <<>> /\ pc' = "poll"
    BY <1>4 DEF RecordCreated, Wake, RequestRecordStart
  <2>2. audio.queue = <<>>
    BY <1>2, <2>1 DEF OpenInv, Quiet
  <2>3. system_state' = "RECORDING"
    BY <1>4, <2>2 DEF RecordCreated, RequestRecordStart
  <2> QED BY <1>1, <1>2, <2>1, <2>3
      DEF OpenInv, Fresh, Places, Fatal, FatalAt, Recordable, WritingAt, Quiet, Starting, RecordStates
<1>5. CASE RecordClosed
  <2>1. pc = "close" /\ memory_status' = memory_status
    BY <1>5 DEF RecordClosed, Wake
  <2>2. system_state = "RECORD_END"
    BY <2>1 DEF OpenInv, Places
  <2>3. CASE Transition("BLE_OPERATION")
    BY <1>1, <1>2, <2>1, <2>2, <2>3, OpenEnters DEF States, RecordStates, Starting
  <2>4. CASE pc' = "poll"
    BY <1>1, <1>2, <2>1, <2>4
    DEF OpenInv, Fresh, Places, Fatal, FatalAt, Recordable, WritingAt, Quiet, Starting
  <2> QED BY <1>5, <2>3, <2>4 DEF RecordClosed
<1>6. CASE OwnedByBle
  <2>1. UNCHANGED <<system_state, memory_status>> /\ status' = <<>>
    BY <1>6 DEF OwnedByBle
  <2>2. \/ pc = "own_ble" /\ pc' = "start_ble"
        \/ pc = "own_config" /\ pc' = "start_config"
        \/ pc = "own_reset" /\ pc' = "start_reset"
    BY <1>6 DEF OwnedByBle
  <2> QED BY <1>1, <1>2, <2>1, <2>2
      DEF OpenInv, Fresh, Places, Fatal, FatalAt, Recordable, WritingAt, Quiet, Starting
<1>7. CASE CheckAnswered \/ FormatAnswered
  <2>1. pc \in {"check", "format"} /\ system_state' = system_state /\ pc' \in {"format", "release"}
    BY <1>7 DEF CheckAnswered, FormatAnswered, Wake
  <2> QED BY <1>1, <1>2, <2>1
      DEF OpenInv, Fresh, Places, Fatal, FatalAt, Recordable, WritingAt, Quiet, Starting, RecordStates
<1> QED BY <1>3, <1>4, <1>5, <1>6, <1>7

LEMMA OpenElse ==
  ASSUME TypeOK, AnswerInv, OpenInv,
         StartBle \/ Poll \/ StartForConfig \/ StopAfterConfig \/ PowerOff
  PROVE  OpenInv'
<1>1. mem' = mem
  BY DEF StartBle, Poll, StartForConfig, StopAfterConfig, PowerOff, Others
<1>2. CASE StartBle
  <2>1. /\ UNCHANGED <<memory_status, status, event>>
        /\ \/ pc = "start_ble" /\ pc' = "poll" /\ system_state' = "BLE_OPERATION"
           \/ pc = "start_reset" /\ pc' = "look" /\ system_state' \in {"INIT", "RECORD_PREPARE"}
    BY <1>2 DEF StartBle, FirstState
  <2> QED BY <1>1, <2>1
      DEF OpenInv, Fresh, Places, Fatal, FatalAt, Recordable, WritingAt, Quiet, RecordStates
<1>3. CASE Poll
  <2>1. /\ pc = "poll" /\ system_state' = system_state /\ event' = <<>>
        /\ LET first == IF memory_status = "BUSY" /\ status # <<>>
                        THEN Reported(Head(status).status) ELSE memory_status
           IN  memory_status' = IF event = <<>> THEN first ELSE Reported(Head(event))
        /\ \/ pc' = "own_config" /\ status' = <<>> /\ age >= 2
           \/ pc' = "look" /\ status' \in {<<>>, status}
    BY <1>3 DEF Poll, LoadNow, SetMemoryOwnership, Ask
  <2>2. ASSUME mem.doing \in Starting
        PROVE  memory_status' \in {"BUSY", "READY"} /\ pc' = "look"
    <3>1. event = <<>> /\ age = 0 /\ memory_status \in {"BUSY", "READY"}
          /\ (status # <<>> => Head(status).status \in {"IS_READY", "ERROR_BUSY"})
      BY <2>2 DEF OpenInv, Fresh, AnswerInv
    <3>2. Reported("IS_READY") = "READY" /\ Reported("ERROR_BUSY") = "BUSY"
      BY DEF Reported
    <3> QED BY <2>1, <3>1, <3>2
  <2>3. ASSUME mem.writing
        PROVE  memory_status' \in {"READY", "OUT_OF_MEMORY"}
    <3>1. memory_status \in {"READY", "OUT_OF_MEMORY"} /\ event # <<"ERROR_FATAL">>
      BY <2>3 DEF OpenInv, Recordable, FatalAt, Fatal
    <3>2. event \in {<<>>, <<"ERROR_OUT_OF_MEMORY">>}
      BY <3>1 DEF TypeOK, EventOK, OneOf
    <3>3. Reported("ERROR_OUT_OF_MEMORY") = "OUT_OF_MEMORY"
      BY DEF Reported
    <3> QED BY <2>1, <3>1, <3>2, <3>3
  <2> QED BY <1>1, <2>1, <2>2, <2>3
      DEF OpenInv, Fresh, Places, Fatal, FatalAt, Recordable, WritingAt, Quiet
<1>4. CASE StartForConfig \/ StopAfterConfig
  <2>1. /\ UNCHANGED <<system_state, memory_status, status, event>>
        /\ pc \in {"start_config", "stop_config"} /\ pc' \in {"stop_config", "look"}
    BY <1>4 DEF StartForConfig, StopAfterConfig
  <2> QED BY <1>1, <2>1
      DEF OpenInv, Fresh, Places, Fatal, FatalAt, Recordable, WritingAt, Quiet
<1>5. CASE PowerOff
  <2>1. /\ UNCHANGED <<system_state, memory_status, status, event>>
        /\ pc = "release" /\ pc' = "off"
    BY <1>5 DEF PowerOff
  <2> QED BY <1>1, <2>1
      DEF OpenInv, Fresh, Places, Fatal, FatalAt, Recordable, WritingAt, Quiet
<1> QED BY <1>2, <1>3, <1>4, <1>5

(* What the memory task works on is what the state task waits for.         *)
LEMMA WorksOnAwaited ==
  ASSUME AnswerInv, mem.doing \in Commands
  PROVE  \/ pc \in DOMAIN Awaited /\ mem.doing = Awaited[pc]
         \/ mem.doing = "SELECT_OWNER_BLE" /\ Early
<1>1. mem.doing \notin Starting \cup {"none"}
  BY DEF Commands, Starting
<1> QED BY <1>1 DEF AnswerInv, Waiting, Idle, Residue, Starting

LEMMA OpenMemory ==
  ASSUME TypeOK, AnswerInv, OpenInv, MemoryTask \/ MemServesBle
  PROVE  OpenInv'
<1>1. Memory
  BY DEF MemoryTask, MemStarted, MemReset, MemTake, MemSelect, MemCreate, MemClose,
         MemCheck, MemFormat, MemSample, MemServesBle
<1>2. /\ pc' = pc /\ system_state' = system_state /\ memory_status' = memory_status
      /\ audio' = audio /\ audio.queue = <<>>
      /\ pc \in Waits => status = <<>>
  BY <1>1, NoAnswerYet DEF Memory, task, LowPriorityRuns
<1>3. MemOK
  BY DEF TypeOK
<1>4. ASSUME mem'.doing \notin Starting, mem'.writing = FALSE, event' = event
      PROVE  OpenInv'
  BY <1>2, <1>4
  DEF OpenInv, Fresh, Places, Fatal, FatalAt, Recordable, WritingAt, Quiet
<1>5. ASSUME mem'.doing \notin Starting, mem'.writing = mem.writing, event' = event,
             status' = status \/ ~mem.writing
      PROVE  OpenInv'
  BY <1>2, <1>5
  DEF OpenInv, Fresh, Places, Fatal, FatalAt, Recordable, WritingAt, Quiet
<1>6. CASE MemStarted
  <2>1. mem.doing = "START" /\ Early /\ status = <<>>
    BY <1>6 DEF MemStarted, AnswerInv, Mounting
  <2>2. PICK r \in Mounts : status' = Offer(status, Answer("MOUNT_FS",
                              IF r = "OK" THEN "IS_READY" ELSE "ERROR_BUSY"))
    BY <1>6 DEF MemStarted
  <2>3. Head(status').status \in {"IS_READY", "ERROR_BUSY"}
    BY <2>1, <2>2 DEF Offer, Answer
  <2>4. mem'.writing = FALSE /\ event' = event
    BY <1>3, <1>6 DEF MemStarted, Mounted, MemOK, Mems
  <2> QED BY <1>2, <2>1, <2>3, <2>4
      DEF Early, OpenInv, Fresh, Places, Fatal, FatalAt, Recordable, WritingAt, Quiet
<1>7. CASE MemReset \/ MemServesBle
  <2>1. mem'.doing = "none" /\ mem'.writing = mem.writing /\ UNCHANGED <<status, event>>
    BY <1>3, <1>7 DEF MemReset, MemServesBle, MemOK, Mems
  <2> QED BY <1>5, <2>1 DEF Starting
<1>8. CASE MemTake
  <2>1. Head(command) \in Commands
    BY <1>8, OneElement DEF MemTake, TypeOK, QueuesOK
  <2>2. mem'.doing = Head(command) /\ mem'.writing = mem.writing /\ UNCHANGED <<status, event>>
    BY <1>3, <1>8 DEF MemTake, MemOK, Mems
  <2> QED BY <1>5, <2>1, <2>2 DEF Commands, Starting
<1>9. CASE MemSelect \/ MemFormat \/ MemClose
  <2>1. \A r : /\ Mounted(r) \in Mems /\ Mounted(r).doing = "none"
               /\ Mounted(r).writing = FALSE
    BY <1>3 DEF Mounted, MemOK, Mems
  <2>2. mem'.doing = "none" /\ mem'.writing = FALSE
    <3>1. CASE MemSelect
      <4>1. PICK r \in Mounts :
              \/ mem' = [Mounted(r) EXCEPT !.owner = IF r = "ERROR_GENERAL" THEN @ ELSE "BLE"]
              \/ mem' = [Mounted(r) EXCEPT !.owner = IF r = "OK" THEN "AUDIO" ELSE @]
        BY <3>1 DEF MemSelect
      <4> QED BY <2>1, <4>1 DEF Mems
    <3>2. CASE MemFormat
      BY <2>1, <3>2 DEF MemFormat
    <3>3. CASE MemClose
      BY <1>3, <3>3 DEF MemClose, MemOK, Mems
    <3> QED BY <1>9, <3>1, <3>2, <3>3
  <2>3. event' = event
    BY <1>9 DEF MemSelect, MemFormat, MemClose, Done
  <2> QED BY <1>4, <2>2, <2>3 DEF Starting
<1>10. CASE MemCheck
  <2>1. mem.doing = "PERFORM_MEMORY_CHECK"
    BY <1>10 DEF MemCheck
  <2>2. pc = "check"
    BY <2>1, WorksOnAwaited, AwaitedCommands DEF Commands
  <2>3. ~mem.writing
    BY <2>2 DEF OpenInv, WritingAt
  <2>4. mem'.doing = "none" /\ mem'.writing = mem.writing /\ event' = event
    BY <1>3, <1>10 DEF MemCheck, Done, MemOK, Mems
  <2> QED BY <1>5, <2>3, <2>4 DEF Starting
<1>11. CASE MemCreate
  <2>1. mem.doing = "CREATE_RECORD"
    BY <1>11 DEF MemCreate
  <2>2. pc = "create"
    BY <2>1, WorksOnAwaited, AwaitedCommands DEF Commands
  <2>3. status = <<>> /\ ~mem.writing /\ ~Fatal
    BY <1>2, <2>2 DEF Waits, OpenInv, WritingAt, FatalAt, Places, RecordStates
  <2>4. mem'.doing = "none" /\ event' = event /\ \E r : Done(mem.doing, r)
    BY <1>3, <1>11 DEF MemCreate, Done, MemOK, Mems
  <2>5. status' # <<>>
    BY <2>3, <2>4 DEF Done, Offer
  <2> QED BY <1>2, <2>2, <2>3, <2>4, <2>5
      DEF OpenInv, Fresh, Places, Fatal, FatalAt, Recordable, WritingAt, Quiet, Starting
<1>12. CASE MemSample
  <2>1. mem.doing = "none" /\ mem'.doing = "none" /\ status' = status
    BY <1>3, <1>12 DEF MemSample, MemOK, Mems
  <2>2. CASE mem' = mem /\ event' = event
    BY <1>5, <2>1, <2>2 DEF Starting
  <2>3. CASE mem' # mem \/ event' # event
    <3>1. /\ mem' = [mem EXCEPT !.open = FALSE, !.writing = FALSE, !.full = TRUE]
          /\ \E e \in {"ERROR_OUT_OF_MEMORY", "ERROR_FATAL"} :
               event' = Offer(event, e) /\ (e = "ERROR_FATAL" => mem.writing)
      BY <1>12, <2>3 DEF MemSample, MayFail
    <3>2. mem'.writing = FALSE
      BY <1>3, <3>1 DEF MemOK, Mems
    <3>3. event' = <<"ERROR_FATAL">> => Fatal \/ mem.writing
      BY <3>1 DEF Offer, Fatal
    <3>4. mem.writing => system_state \in RecordStates
      BY <1>2 DEF OpenInv, WritingAt, Waits
    <3> QED BY <1>2, <2>1, <3>2, <3>3, <3>4
        DEF OpenInv, Fresh, Places, Fatal, FatalAt, Recordable, WritingAt, Quiet, Starting
  <2> QED BY <2>2, <2>3
<1> QED BY <1>6, <1>7, <1>8, <1>9, <1>10, <1>11, <1>12 DEF MemoryTask

LEMMA OpenWorld ==
  ASSUME OpenInv,
         AudioTake \/ AudioSample \/ BleTake \/ Press \/ Release \/ Tick
         \/ UNCHANGED vars
  PROVE  OpenInv'
<1>1. UNCHANGED <<task, status, event, mem>>
  BY DEF AudioTake, AudioSample, BleTake, Press, Release, Tick, vars, task
<1>2. audio' = audio \/ audio.queue # <<>>
  BY DEF AudioTake, AudioSample, BleTake, Press, Release, Tick, vars
<1>3. pc' = pc /\ system_state' = system_state /\ memory_status' = memory_status
      /\ status' = status /\ event' = event /\ mem' = mem
  BY <1>1 DEF task
<1> QED BY <1>2, <1>3
    DEF OpenInv, Fresh, Places, Fatal, FatalAt, Recordable, WritingAt, Quiet

LEMMA OpenStep ==
  Long = {} => (TypeOK /\ AnswerInv /\ OpenInv /\ [Next]_vars => OpenInv')
BY OpenLook, OpenWake, OpenElse, OpenMemory, OpenWorld DEF Next, StateTask

LEMMA RecorderInvariant ==
  ASSUME Long = {}
  PROVE  Spec => [](TypeOK /\ AnswerInv /\ OpenInv)
<1>1. Init => TypeOK /\ AnswerInv /\ OpenInv
  BY InitTypes, AnswerInit, OpenInit
<1>2. TypeOK /\ AnswerInv /\ OpenInv /\ [Next]_vars => (TypeOK /\ AnswerInv /\ OpenInv)'
  BY StepTypes, AnswerStep, OpenStep
<1> QED BY <1>1, <1>2, PTL DEF Spec

(* With a memory task in time, whatever fails, the power is cut only when  *)
(* the memory task does nothing, has nothing to do and no record is open:  *)
(* neither a record nor a format is cut short.                             *)
THEOREM PowerIsCutWhenIdle ==
  ASSUME Long = {}
  PROVE  Spec => []PowerOffWhenIdle
<1>1. AnswerInv /\ OpenInv => PowerOffWhenIdle
  <2>1. SUFFICES ASSUME AnswerInv, OpenInv, pc = "off"
                 PROVE  mem.doing = "none" /\ command = <<>> /\ ~mem.writing
    BY DEF PowerOffWhenIdle
  <2>2. Idle
    BY <2>1, SettledLater, AwaitedCommands DEF Early
  <2> QED BY <2>1, <2>2 DEF Idle, OpenInv, Fresh, WritingAt
<1> QED BY <1>1, RecorderInvariant, PTL
----------------------------------------------------------------------------
(* What an earlier take leaves in the queue.  From the creation of a       *)
(* record until the audio task has begun its take nothing is drained;      *)
(* then the samples of earlier takes are at the front of the queue, and    *)
(* together with those already written they never were more than a queue.  *)

StaleUpTo(k) ==
  /\ file.foreign + k <= DataDepth
  /\ \A i \in (k + 1)..Len(data) : data[i] = file.take

(* The audio task has begun the take of the record,                        *)
Begun ==
  /\ audio.takes = file.take /\ audio.queue # <<"RECORD_START">> /\ pc # "create"
  /\ \E k \in 0..Len(data) : StaleUpTo(k)

(* or is yet to be told so.                                                *)
Coming ==
  /\ audio.takes + 1 = file.take /\ file.foreign = 0
  /\ pc = "create" \/ audio.queue = <<"RECORD_START">>

StaleInv == file.foreign <= DataDepth /\ (mem.writing => Begun \/ Coming)

LEMMA StaleInit == Init => StaleInv
BY RecorderAssumption DEF Init, StaleInv

(* Of the state task only RequestRecordStart and a stop after a problem    *)
(* touch what this is about.                                               *)
LEMMA StaleState ==
  ASSUME Long = {}, AnswerInv, OpenInv, StaleInv, AudioOK, StateTask
  PROVE  StaleInv'
<1>1. mem' = mem /\ data' = data /\ file' = file
  BY DEF StateTask, Poll, LookInit, LookRecordPrepare, LookRecording, LookRecordEnd,
         LookBleOperation, LookIndication, IndicationOver, LookShutdown, Look,
         OwnedByAudio, RecordCreated, RecordClosed, OwnedByBle, StartBle, StartForConfig,
         StopAfterConfig, CheckAnswered, FormatAnswered, PowerOff, Wake, Others
<1>2. ASSUME pc # "create", pc' # "create", audio' = audio
      PROVE  StaleInv'
  BY <1>1, <1>2 DEF StaleInv, Begun, Coming, StaleUpTo
<1>3. CASE RecordCreated
  <2>1. pc = "create" /\ pc' = "poll" /\ Woken
    BY <1>3 DEF RecordCreated, Wake, RequestRecordStart
  <2>2. audio.queue = <<>>
    BY <2>1, SettledAnswer, AwaitedCommands DEF OpenInv, Quiet
  <2>3. audio'.queue = <<"RECORD_START">> /\ audio'.takes = audio.takes
    BY <1>3, <2>2 DEF RecordCreated, RequestRecordStart, Offer, AudioOK
  <2> QED BY <1>1, <2>1, <2>3 DEF StaleInv, Begun, Coming
<1>4. CASE OwnedByAudio
  <2>1. ~mem.writing
    BY <1>4 DEF OwnedByAudio, Wake, OpenInv, WritingAt
  <2> QED BY <1>1, <2>1 DEF StaleInv
<1>5. CASE LookRecording
  <2>1. pc = "look" /\ pc' = "poll"
    BY <1>5 DEF LookRecording, Look, Stay, Transition
  <2>2. audio' = audio \/ audio' = [audio EXCEPT !.queue = Offer(@, "RECORD_STOP")]
    BY <1>5 DEF LookRecording, Stay
  <2>3. audio'.takes = audio.takes
        /\ (audio'.queue = audio.queue \/ (audio.queue = <<>> /\ audio'.queue = <<"RECORD_STOP">>))
    BY <2>2 DEF AudioOK, Offer
  <2>4. audio'.queue = <<"RECORD_START">> <=> audio.queue = <<"RECORD_START">>
    BY <2>3
  <2> QED BY <1>1, <2>1, <2>3, <2>4 DEF StaleInv, Begun, Coming, StaleUpTo
<1>6. CASE LookInit \/ LookRecordPrepare \/ LookRecordEnd \/ LookBleOperation
           \/ LookIndication \/ IndicationOver \/ LookShutdown
  <2>1. pc = "look" /\ audio' = audio
    BY <1>6 DEF LookInit, LookRecordPrepare, LookRecordEnd, LookBleOperation,
                LookIndication, IndicationOver, LookShutdown, Look, Stay
  <2>2. pc' # "create"
    BY <1>6 DEF LookInit, LookRecordPrepare, LookRecordEnd, LookBleOperation,
                LookIndication, IndicationOver, LookShutdown, Stay, Transition,
                SetMemoryOwnership
  <2> QED BY <1>2, <2>1, <2>2
<1>7. CASE Poll \/ RecordClosed \/ OwnedByBle \/ StartBle \/ StartForConfig
           \/ StopAfterConfig \/ CheckAnswered \/ FormatAnswered \/ PowerOff
  <2>1. pc # "create" /\ audio' = audio
    BY <1>7 DEF Poll, RecordClosed, OwnedByBle, StartBle, StartForConfig,
                StopAfterConfig, CheckAnswered, FormatAnswered, PowerOff, Wake
  <2>2. pc' # "create"
    BY <1>7 DEF Poll, RecordClosed, OwnedByBle, StartBle, StartForConfig,
                StopAfterConfig, CheckAnswered, FormatAnswered, PowerOff, Transition,
                SetMemoryOwnership
  <2> QED BY <1>2, <2>1, <2>2
<1> QED BY <1>3, <1>4, <1>5, <1>6, <1>7 DEF StateTask

LEMMA StaleMemory ==
  ASSUME TypeOK, AnswerInv, OpenInv, StaleInv, MemoryTask \/ MemServesBle
  PROVE  StaleInv'
<1>1. Memory
  BY DEF MemoryTask, MemStarted, MemReset, MemTake, MemSelect, MemCreate, MemClose,
         MemCheck, MemFormat, MemSample, MemServesBle
<1>2. /\ pc' = pc /\ audio' = audio /\ audio.queue = <<>>
      /\ pc \in Waits => status = <<>>
  BY <1>1, NoAnswerYet DEF Memory, task, LowPriorityRuns
<1>3. MemOK /\ DataOK /\ FileOK /\ AudioOK
  BY DEF TypeOK
<1>4. mem.writing => Begun
  BY <1>2 DEF StaleInv, Coming, OpenInv, WritingAt, Waits
<1>5. ASSUME file' = file, data' = data, mem'.writing => mem.writing
      PROVE  StaleInv'
  BY <1>2, <1>5 DEF StaleInv, Begun, Coming, StaleUpTo
<1>6. CASE MemCreate
  <2>1. pc = "create" /\ data' = data
    BY <1>6, WorksOnAwaited, AwaitedCommands DEF MemCreate, Done, Commands
  <2>2. \/ mem' = [mem EXCEPT !.doing = "none"] /\ file' = file
        \/ file' = [take |-> audio.takes + 1, foreign |-> 0]
    BY <1>6 DEF MemCreate
  <2>3. CASE mem' = [mem EXCEPT !.doing = "none"] /\ file' = file
    <3>1. mem'.writing = mem.writing
      BY <1>3, <2>3 DEF MemOK, Mems
    <3> QED BY <1>5, <2>1, <2>3, <3>1
  <2>4. CASE file' = [take |-> audio.takes + 1, foreign |-> 0]
    BY <1>2, <2>1, <2>4, RecorderAssumption DEF StaleInv, Coming
  <2> QED BY <2>2, <2>3, <2>4
<1>7. CASE MemSample
  <2>1. data # <<>> /\ data' = Tail(data)
    BY <1>7 DEF MemSample, Draining
  <2>2. CASE ~mem'.writing
    <3>1. file'.foreign <= DataDepth
      <4>1. CASE file' = file
        BY <4>1 DEF StaleInv
      <4>2. CASE file' # file
        <5>1. mem'.writing
          BY <1>7, <4>2 DEF MemSample
        <5> QED BY <2>2, <5>1
      <4> QED BY <4>1, <4>2
    <3> QED BY <2>2, <3>1 DEF StaleInv
  <2>3. CASE mem'.writing
    <3>1. mem' = mem /\ mem.writing
      BY <1>3, <1>7, <2>3 DEF MemSample, MemOK, Mems
    <3>2. /\ file' = file \/ (Head(data) # file.take /\ file' = [file EXCEPT !.foreign = @ + 1])
      BY <1>7 DEF MemSample
    <3>3. /\ file'.take = file.take
          /\ \/ file'.foreign = file.foreign
             \/ Head(data) # file.take /\ file'.foreign = file.foreign + 1
      BY <1>3, <3>2 DEF FileOK
    <3>4. PICK k \in 0..Len(data) : StaleUpTo(k)
      BY <1>4, <3>1 DEF Begun
    <3>5. /\ Len(data') = Len(data) - 1 /\ Len(data) \in Nat \ {0} /\ Head(data) = data[1]
          /\ \A i \in 1..Len(data') : data'[i] = data[i + 1]
      BY <1>3, <2>1 DEF DataOK
    <3>6. \E j \in 0..Len(data') : StaleUpTo(j)'
      <4>1. CASE k = 0
        <5>1. Head(data) = file.take
          BY <3>4, <3>5, <4>1 DEF StaleUpTo
        <5>2. StaleUpTo(0)'
          BY <1>3, <3>3, <3>4, <3>5, <4>1, <5>1 DEF StaleUpTo, FileOK
        <5> QED BY <3>5, <5>2
      <4>2. CASE k > 0
        <5>1. StaleUpTo(k - 1)'
          BY SMTT(30), <1>3, <3>3, <3>4, <3>5, <4>2, RecorderAssumption DEF StaleUpTo, FileOK
        <5> QED BY <3>4, <3>5, <4>2, <5>1
      <4> QED BY <4>1, <4>2
    <3>7. file'.foreign <= DataDepth
      <4>1. PICK j \in 0..Len(data') : StaleUpTo(j)'
        BY <3>6
      <4>2. j \in Nat /\ file'.foreign + j <= DataDepth /\ file'.foreign \in Nat
        BY <1>3, <3>3, <3>5, <4>1 DEF StaleUpTo, FileOK
      <4> QED BY <4>2, RecorderAssumption
    <3> QED BY <1>2, <1>4, <3>1, <3>3, <3>6, <3>7 DEF StaleInv, Begun
  <2> QED BY <2>2, <2>3
<1>8. CASE MemStarted \/ MemReset \/ MemTake \/ MemSelect \/ MemClose
           \/ MemCheck \/ MemFormat \/ MemServesBle
  <2>1. file' = file /\ data' = data
    BY <1>8 DEF MemStarted, MemReset, MemTake, MemSelect, MemClose, MemCheck, MemFormat,
                MemServesBle, Done
  <2>2. mem'.writing => mem.writing
    <3>1. CASE MemSelect \/ MemFormat \/ MemStarted
      <4>1. \A r : Mounted(r) \in Mems /\ Mounted(r).writing = FALSE
        BY <1>3 DEF Mounted, MemOK, Mems
      <4>2. PICK r :
              \/ mem' = [Mounted(r) EXCEPT !.owner = IF r = "ERROR_GENERAL" THEN @ ELSE "BLE"]
              \/ mem' = [Mounted(r) EXCEPT !.owner = IF r = "OK" THEN "AUDIO" ELSE @]
              \/ mem' = Mounted(r)
              \/ mem' = [Mounted(r) EXCEPT !.doing = "RESET"]
        BY <3>1 DEF MemSelect, MemFormat, MemStarted
      <4> QED BY <4>1, <4>2 DEF Mems
    <3>2. CASE MemReset \/ MemTake \/ MemClose \/ MemCheck \/ MemServesBle
      BY <1>3, <3>2 DEF MemReset, MemTake, MemClose, MemCheck, MemServesBle, MemOK, Mems
    <3> QED BY <1>8, <3>1, <3>2
  <2> QED BY <1>5, <2>1, <2>2
<1> QED BY <1>6, <1>7, <1>8 DEF MemoryTask

LEMMA StaleWorld ==
  ASSUME TypeOK, OpenInv, StaleInv,
         AudioTake \/ AudioSample \/ BleTake \/ Press \/ Release \/ Tick
         \/ UNCHANGED vars
  PROVE  StaleInv'
<1>1. pc' = pc /\ mem' = mem /\ file' = file
  BY DEF AudioTake, AudioSample, BleTake, Press, Release, Tick, vars, task
<1>2. DataOK /\ FileOK /\ AudioOK
  BY DEF TypeOK
<1>3. CASE BleTake \/ Press \/ Release \/ Tick \/ UNCHANGED vars
  <2>1. audio' = audio /\ data' = data
    BY <1>3 DEF BleTake, Press, Release, Tick, vars
  <2> QED BY <1>1, <2>1 DEF StaleInv, Begun, Coming, StaleUpTo
<1>4. CASE AudioSample
  <2>1. audio' = audio /\ data' = Append(data, audio.takes)
    BY <1>4 DEF AudioSample
  <2>2. ASSUME Begun
        PROVE  Begun'
    <3>1. PICK k \in 0..Len(data) : StaleUpTo(k)
      BY <2>2 DEF Begun
    <3>2. /\ Len(data') = Len(data) + 1 /\ data'[Len(data) + 1] = audio.takes
          /\ Len(data) \in Nat /\ \A i \in 1..Len(data) : data'[i] = data[i]
      BY <1>2, <2>1 DEF DataOK, AudioOK
    <3>3. k \in 0..Len(data') /\ StaleUpTo(k)'
      BY <1>1, <2>2, <3>1, <3>2 DEF StaleUpTo, Begun
    <3> QED BY <1>1, <2>1, <2>2, <3>3 DEF Begun
  <2>3. Coming => Coming'
    BY <1>1, <2>1 DEF Coming
  <2> QED BY <1>1, <2>2, <2>3 DEF StaleInv
<1>5. CASE AudioTake
  <2>1. audio.queue # <<>> /\ data' = data
    BY <1>5 DEF AudioTake
  <2>2. mem.writing => pc # "create"
    BY <2>1 DEF OpenInv, WritingAt, Quiet
  <2>3. CASE audio.queue = <<"RECORD_START">>
    <3>1. audio'.queue = <<>> /\ audio'.takes = audio.takes + 1
      BY <1>5, <2>3 DEF AudioTake
    <3>2. Coming => \E k \in 0..Len(data') : StaleUpTo(k)'
      <4>1. Len(data) \in Nat /\ Len(data) <= DataDepth
        BY <1>2 DEF DataOK
      <4>2. Coming => StaleUpTo(Len(data))'
        BY <1>1, <2>1, <4>1 DEF Coming, StaleUpTo
      <4> QED BY <2>1, <4>1, <4>2
    <3>3. mem.writing => Begun'
      BY <1>1, <2>2, <2>3, <3>1, <3>2 DEF StaleInv, Begun, Coming
    <3> QED BY <1>1, <3>3 DEF StaleInv
  <2>4. CASE audio.queue # <<"RECORD_START">>
    <3>1. Head(audio.queue) # "RECORD_START"
      BY <1>2, <2>1, <2>4 DEF AudioOK, OneOf
    <3>2. audio'.queue = <<>> /\ audio'.takes = audio.takes
      BY <1>2, <1>5, <3>1 DEF AudioTake, AudioOK
    <3>3. mem.writing => Begun'
      BY <1>1, <2>1, <2>2, <2>4, <3>2 DEF StaleInv, Begun, Coming, StaleUpTo
    <3> QED BY <1>1, <3>3 DEF StaleInv
  <2> QED BY <2>3, <2>4
<1> QED BY <1>3, <1>4, <1>5

(* With a memory task in time, whatever fails, a record holds at most one  *)
(* queue of samples of earlier takes.                                      *)
THEOREM StaleIsBounded ==
  ASSUME Long = {}
  PROVE  Spec => []StalePrefix
<1>1. TypeOK /\ AnswerInv /\ OpenInv /\ StaleInv /\ [Next]_vars => StaleInv'
  BY StaleState, StaleMemory, StaleWorld DEF Next, TypeOK
<1>2. StaleInv => StalePrefix
  BY DEF StaleInv, StalePrefix
<1> QED BY <1>1, <1>2, StaleInit, RecorderInvariant, PTL DEF Spec

----------------------------------------------------------------------------
(* Why there is a record while the state task believes to record: the      *)
(* owner is the audio task when the record is asked for, and neither a     *)
(* late load of the configuration nor anything else is asked of the memory *)
(* task until RECORDING is left.                                           *)
HasInv ==
  /\ context.mode = "FIELD" /\ pc \notin {"own_config", "start_config", "stop_config"}
  /\ system_state = "RECORDING" => pc \in {"poll", "look"}
  /\ \/ pc = "own_audio" /\ status # <<>>
     \/ pc = "create" /\ status = <<>>
     => mem.full \/ mem.owner = "AUDIO"
  /\ (pc = "create" /\ status # <<>>) \/ system_state = "RECORDING"
     => mem.full \/ (mem.writing /\ mem.owner = "AUDIO")

LEMMA HasInit == Configs \subseteq {"FIELD"} => (Init => HasInv)
<1> SUFFICES ASSUME Configs \subseteq {"FIELD"}, Init PROVE HasInv
  OBVIOUS
<1>1. PICK down \in BOOLEAN, mode \in Configs, reason \in Starts :
        /\ pc = IF reason = "UNKNOWN" THEN "look" ELSE "own_reset"
        /\ system_state = FirstState(mode, down /\ reason = "UNKNOWN")
        /\ context = [active |-> FALSE, ble |-> FALSE, low |-> FALSE, expired |-> FALSE,
                      started |-> FALSE, low_seen |-> FALSE, issue_seen |-> FALSE,
                      mode |-> mode]
  BY DEF Init
<1>2. pc \in {"look", "own_reset"} /\ system_state \in {"INIT", "RECORD_PREPARE"}
  BY <1>1 DEF FirstState
<1>3. context.mode = "FIELD"
  BY <1>1
<1> QED BY <1>2, <1>3 DEF HasInv

LEMMA HasState ==
  ASSUME Long = {}, ContextOK, AnswerInv, OpenInv, HasInv, StateTask
  PROVE  HasInv'
<1>1. mem' = mem
  BY DEF StateTask, Poll, LookInit, LookRecordPrepare, LookRecording, LookRecordEnd,
         LookBleOperation, LookIndication, IndicationOver, LookShutdown, Look,
         OwnedByAudio, RecordCreated, RecordClosed, OwnedByBle, StartBle, StartForConfig,
         StopAfterConfig, CheckAnswered, FormatAnswered, PowerOff, Wake, Others
<1>2. ~LoadNow
  BY DEF HasInv, LoadNow
<1>3. context'.mode = "FIELD"
  <2>1. CASE context'.mode = context.mode
    BY <2>1 DEF HasInv
  <2>2. CASE Poll
    BY <1>2, <2>2 DEF Poll, ContextOK, Contexts, HasInv
  <2>3. CASE ~Poll
    <3>1. context'.mode = context.mode
      BY <2>3 DEF StateTask, LookInit, LookRecordPrepare, LookRecording, LookRecordEnd,
         LookBleOperation, LookIndication, IndicationOver, LookShutdown, Stay,
         OwnedByAudio, RecordCreated, RecordClosed, OwnedByBle, StartBle, StartForConfig,
         StopAfterConfig, CheckAnswered, FormatAnswered, PowerOff, RequestRecordStart,
         DisableBle, ContextOK, Contexts, HasInv
    <3> QED BY <2>1, <3>1
  <2> QED BY <2>2, <2>3
<1>4. ASSUME system_state' # "RECORDING",
             pc' \notin {"own_config", "start_config", "stop_config", "create"},
             pc' = "own_audio" => status' = <<>>
      PROVE  HasInv'
  BY <1>3, <1>4 DEF HasInv
<1>5. ASSUME NEW s \in States \ {"RECORDING"}, Transition(s), system_state # "RECORDING" \/ s # "BLE_OPERATION"
      PROVE  HasInv'
  <2>1. pc' \in {"own_ble", "poll"} /\ system_state' # "RECORDING"
    BY <1>5 DEF Transition, SetMemoryOwnership
  <2> QED BY <1>4, <2>1
<1>6. ASSUME pc = "look", Stay
      PROVE  HasInv'
  BY <1>1, <1>3, <1>6 DEF Stay, HasInv
<1>7. CASE LookRecording
  <2>1. pc = "look" /\ (Stay \/ Transition("RECORD_END"))
    BY <1>7 DEF LookRecording, Look
  <2> QED BY <1>5, <1>6, <2>1 DEF States
<1>8. CASE OwnedByAudio
  <2>1. pc = "own_audio" /\ Woken /\ system_state = "RECORD_PREPARE"
    BY <1>8 DEF OwnedByAudio, Wake, OpenInv, Places
  <2>2. status # <<>> /\ command = <<>>
    BY <2>1, SettledAnswer, AwaitedCommands DEF Idle
  <2>3. pc' = "create" /\ status' = <<>> /\ system_state' = system_state
    BY <1>8, <2>2 DEF OwnedByAudio
  <2> QED BY <1>1, <1>3, <2>1, <2>2, <2>3 DEF HasInv
<1>9. CASE RecordCreated
  <2>1. pc = "create" /\ Woken /\ pc' = "poll"
    BY <1>9 DEF RecordCreated, Wake, RequestRecordStart
  <2>2. status # <<>>
    BY <2>1, SettledAnswer, AwaitedCommands
  <2> QED BY <1>1, <1>3, <2>1, <2>2 DEF HasInv
<1>10. CASE LookInit \/ LookRecordPrepare \/ LookRecordEnd \/ LookIndication \/ IndicationOver
            \/ LookBleOperation \/ LookShutdown
  <2>1. pc = "look" /\ system_state # "RECORDING"
    BY <1>10 DEF LookInit, LookRecordPrepare, LookRecordEnd, LookIndication, IndicationOver,
                 LookBleOperation, LookShutdown, Look, AfterIndication
  <2>2. CASE \E s \in States \ {"RECORDING"} : Transition(s)
    BY <1>5, <2>1, <2>2
  <2>3. CASE Stay
    BY <1>6, <2>1, <2>3
  <2>4. CASE SetMemoryOwnership("SELECT_OWNER_AUDIO", "own_audio") /\ system_state' = system_state
    BY <1>4, <2>1, <2>4 DEF SetMemoryOwnership, Ask
  <2>5. CASE pc' \in {"poll", "close", "check", "release"} /\ system_state' # "RECORDING"
    BY <1>4, <2>5
  <2>6. CASE LookInit \/ LookRecordPrepare
    BY <2>2, <2>3, <2>4, <2>6 DEF LookInit, LookRecordPrepare, States
  <2>7. CASE LookRecordEnd \/ LookBleOperation \/ LookShutdown \/ LookIndication
    BY <2>1, <2>2, <2>5, <2>7
    DEF LookRecordEnd, LookBleOperation, LookShutdown, LookIndication, States
  <2>8. CASE IndicationOver
    <3>1. PICK s \in DOMAIN AfterIndication : Transition(AfterIndication[s])
      BY <2>8 DEF IndicationOver
    <3>2. AfterIndication[s] \in States \ {"RECORDING"}
      BY DEF AfterIndication, States
    <3> QED BY <2>2, <3>1, <3>2
  <2> QED BY <1>10, <2>6, <2>7, <2>8
<1>11. CASE Poll
  <2>1. pc = "poll" /\ pc' = "look" /\ system_state' = system_state
    BY <1>2, <1>11 DEF Poll
  <2> QED BY <1>1, <1>3, <2>1 DEF HasInv
<1>12. CASE RecordClosed
  <2>1. system_state = "RECORD_END"
    BY <1>12 DEF RecordClosed, Wake, OpenInv, Places
  <2>2. \/ Transition("BLE_OPERATION")
        \/ system_state' = "MEMORY_IS_CORRUPT" /\ pc' = "poll"
    BY <1>12 DEF RecordClosed
  <2> QED BY <1>4, <1>5, <2>1, <2>2 DEF States
<1>13. CASE OwnedByBle \/ StartBle
  <2>1. system_state' # "RECORDING" /\ pc' \in {"start_ble", "start_reset", "poll", "look"}
    BY <1>13 DEF OwnedByBle, StartBle, FirstState, HasInv
  <2> QED BY <1>4, <2>1
<1>14. CASE StartForConfig \/ StopAfterConfig
  BY <1>14 DEF StartForConfig, StopAfterConfig, HasInv
<1>15. CASE CheckAnswered \/ FormatAnswered \/ PowerOff
  <2>1. pc \in {"check", "format", "release"} /\ system_state' = system_state
        /\ pc' \in {"format", "release", "off"}
    BY <1>15 DEF CheckAnswered, FormatAnswered, PowerOff, Wake
  <2> QED BY <1>4, <2>1 DEF HasInv
<1> QED BY <1>7, <1>8, <1>9, <1>10, <1>11, <1>12, <1>13, <1>14, <1>15 DEF StateTask

LEMMA HasMemory ==
  ASSUME Faults \cap {"mount", "create"} = {}, TypeOK, AnswerInv, OpenInv, HasInv,
         MemoryTask \/ MemServesBle
  PROVE  HasInv'
<1>1. Memory
  BY DEF MemoryTask, MemStarted, MemReset, MemTake, MemSelect, MemCreate, MemClose,
         MemCheck, MemFormat, MemSample, MemServesBle
<1>2. /\ pc' = pc /\ system_state' = system_state /\ context' = context
      /\ pc \in Waits => status = <<>>
  BY <1>1, NoAnswerYet DEF Memory, task
<1>3. MemOK
  BY DEF TypeOK
<1>4. ASSUME mem'.full = mem.full, mem'.owner = mem.owner, mem'.writing = mem.writing,
             pc \in {"own_audio", "create"} => status' = status
      PROVE  HasInv'
  BY <1>2, <1>4 DEF HasInv
<1>5. ASSUME system_state # "RECORDING", pc \notin {"own_audio", "create"}
      PROVE  HasInv'
  BY <1>2, <1>5 DEF HasInv
<1>6. CASE MemStarted
  <2>1. Early
    BY <1>6 DEF MemStarted, AnswerInv, Mounting
  <2> QED BY <1>5, <2>1 DEF Early
<1>7. CASE MemReset \/ MemTake \/ MemServesBle
  BY <1>3, <1>4, <1>7 DEF MemReset, MemTake, MemServesBle, MemOK, Mems
<1>8. CASE MemSelect
  <2>1. mem.doing \in {"SELECT_OWNER_BLE", "SELECT_OWNER_AUDIO"}
    BY <1>8 DEF MemSelect
  <2>2. \/ pc \in {"own_audio", "own_ble", "own_config"} /\ mem.doing = Awaited[pc]
        \/ Early
    BY <2>1, WorksOnAwaited, AwaitedCommands DEF Commands
  <2>3. CASE pc = "own_audio"
    <3>1. mem.doing = "SELECT_OWNER_AUDIO" /\ system_state = "RECORD_PREPARE"
      BY <2>2, <2>3, AwaitedCommands DEF Early, OpenInv, Places
    <3>2. PICK r \in Mounts :
            mem' = [Mounted(r) EXCEPT !.owner = IF r = "OK" THEN "AUDIO" ELSE @]
      BY <1>8, <3>1 DEF MemSelect
    <3>3. r \in {"OK", "ERROR_OUT_OF_MEMORY"}
      BY DEF Mounts, MayFail
    <3>4. mem'.full \/ mem'.owner = "AUDIO"
      BY <1>3, <3>2, <3>3 DEF Mounted, MemOK, Mems
    <3> QED BY <1>2, <2>3, <3>1, <3>4 DEF HasInv
  <2>4. CASE pc # "own_audio"
    BY <1>5, <2>2, <2>4 DEF Early, HasInv
  <2> QED BY <2>3, <2>4
<1>9. CASE MemClose \/ MemCheck \/ MemFormat
  <2>1. mem.doing \in {"CLOSE_WRITTEN_FILE", "PERFORM_MEMORY_CHECK", "FORMAT_FS"}
    BY <1>9 DEF MemClose, MemCheck, MemFormat
  <2>2. pc \in {"close", "check", "format"}
    BY <2>1, WorksOnAwaited, AwaitedCommands DEF Commands
  <2> QED BY <1>5, <2>2 DEF HasInv
<1>10. CASE MemCreate
  <2>1. mem.doing = "CREATE_RECORD"
    BY <1>10 DEF MemCreate
  <2>2. pc = "create" /\ system_state = "RECORD_PREPARE"
    BY <2>1, WorksOnAwaited, AwaitedCommands DEF Commands, OpenInv, Places
  <2>3. ~mem.writing /\ (mem.full \/ mem.owner = "AUDIO")
    BY <1>2, <2>2 DEF Waits, OpenInv, WritingAt, HasInv
  <2>4. mem'.full = mem.full /\ mem'.owner = mem.owner /\ (mem.full \/ mem'.writing)
    BY <1>3, <1>10, <2>3 DEF MemCreate, MayFail, MemOK, Mems
  <2> QED BY <1>2, <2>2, <2>3, <2>4 DEF HasInv
<1>11. CASE MemSample
  <2>1. CASE mem' = mem
    BY <1>4, <1>11, <2>1 DEF MemSample
  <2>2. CASE mem' = [mem EXCEPT !.open = FALSE, !.writing = FALSE, !.full = TRUE]
    <3>1. mem'.full
      BY <1>3, <2>2 DEF MemOK, Mems
    <3> QED BY <1>2, <3>1 DEF HasInv
  <2> QED BY <1>11, <2>1, <2>2 DEF MemSample
<1> QED BY <1>6, <1>7, <1>8, <1>9, <1>10, <1>11 DEF MemoryTask

LEMMA HasWorld ==
  ASSUME HasInv,
         AudioTake \/ AudioSample \/ BleTake \/ Press \/ Release \/ Tick
         \/ UNCHANGED vars
  PROVE  HasInv'
BY DEF AudioTake, AudioSample, BleTake, Press, Release, Tick, vars, task, HasInv

(* With a valid configuration, a memory task in time and no failure but    *)
(* that of a write, of a close or a full memory: in RECORDING there is a   *)
(* record to write into and the memory is the audio's, or it is full.      *)
THEOREM RecordingsHaveFiles ==
  ASSUME Long = {}, Configs \subseteq {"FIELD"}, Faults \subseteq {"write", "close", "fills"}
  PROVE  Spec => []RecordingHasFile
<1>1. Faults \cap {"mount", "create"} = {}
  OBVIOUS
<1>2. TypeOK /\ AnswerInv /\ OpenInv /\ HasInv /\ [Next]_vars => HasInv'
  BY <1>1, HasState, HasMemory, HasWorld DEF Next, TypeOK
<1>3. HasInv => RecordingHasFile
  BY DEF HasInv, RecordingHasFile
<1> QED BY <1>2, <1>3, HasInit, RecorderInvariant, PTL DEF Spec
=============================================================================
