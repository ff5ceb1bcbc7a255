# Verification of the Dictofun firmware

Dictofun is a voice recorder on an nRF52 with a SPI NOR flash: hold the button
and it records, release it and it offers its records to a phone over BLE. This
directory holds TLA+ models of the firmware (`src/firmware/src`), the TLC runs
that check them on small instances, and theorems proved with TLAPS.

Check a run with `tlc -config <cfg> <module>`, a proof with `tlapm <module>.tla`.
The pairs are listed in `PROJECT.json`.

## 1. Inventory

FreeRTOS tasks talk through queues created in `main.cpp:56-86` (one element each,
except audio data 4, BLE commands 2, LED 3). Audio, state and button tasks have
priority 3; memory, BLE, RTC, log and battery 2; LED, watchdog 1.

| Component | State | Operations | Talks to | Hard about it |
|---|---|---|---|---|
| myfs (`lib/myfs`) | flash: marker, descriptor table, data pages; RAM: `myfs_t`, `myfs_file_t` | format, mount, open, write, read, close, unmount, rewind_dir, get_next_id, stat, repair | block API of the flash | power loss, partial failure, sizes at page and table limits, RAM state that must agree with the flash |
| myfs_access (`tasks/memory`) | `_active_file`, the leftover count of a files list | init_fs, deinit_fs, create/open/close file, write/get data, list, stat | called by the memory task | turns error codes into decisions: full, or format |
| Memory task | `_memory_owner`, `_file_operation_context`, `is_formatting_allowed` | commands of the state task, requests of BLE, audio samples | 3 request queues in, status and event queues out | one side's command while the other's file is open |
| State task (`tasks/systemstate`) | the `SystemState` machine, `memory_status`, time stamps, `is_record_active` | button, battery and memory events, requests with time limits, timeouts, shutdown | every other task | late answers, ignored results, races of events with its own waiting |
| nvconfig | one flash page | load, store | state task | erase and write are two steps |
| Audio task and codecs | running or not, sample buffers | start, stop, sample ready (interrupt) | state task, audio data queue | samples left in the queue after a stop |
| Button, battery, RTC, LED, watchdog, CLI tasks | little | one message each | state task, memory task | a message that finds its queue full |
| BLE task | command and keep-alive queues, connected file system | START, STOP, CONNECT_FS, poll of the service every 10 ms | state task, file transfer service | STOP during a transfer |
| File transfer service (`lib/ble_fts`) | `pending_command`, `active_command`, the transaction (file, position, buffer) | control point writes, TX-complete and connection events in the SoftDevice's context; `process()` in the task's | the glue, the phone | two contexts share the pending command without a lock |
| Glue (`ble_fts_glue_target.cpp`) | none but the queues | list, info, open, data, close, status | memory task | an answer that comes after its time limit |
| SPI flash driver | pending flag, transaction context | read, program, erase, interrupt | SPI peripheral | flags set after the transfer was started |
| No-init memory | reset reason and count | load, store | state task, file transfer service | garbage after a cold start |

What makes each correct:

* **myfs** - a record that was closed reads back as written until the memory is
  formatted, whatever happened in between; a mount finds every record; records do
  not share pages; the pointers in RAM equal those a mount would compute.
* **myfs_access, memory task** - the memory is formatted on request only; the
  side that owns the memory never inherits the other's open file, and can close its own.
* **state task** - every session ends with the device off; no command is answered by
  another's answer; samples go to the record they were taken for; it never believes
  it is recording without a file.
* **file transfer service** - the bytes sent are the requested file's, each once and in order;
  a transfer that was accepted ends; a new client finds an idle service.
* **nvconfig, no-init memory** - after any crash the configuration is the old, the new or the default one.
* **SPI flash driver** - a finished transaction is reported once, to the caller that started it.

The hazards that follow from this, with their lines, are in `PROJECT.json`.

## 2. Plan

| # | Module | Content | Status |
|---|---|---|---|
| 1 | `MountSearch`, `MountSearchProofs` | the mount's binary search, step by step | done, proved |
| 2 | `MyFs`, `MyFsAccess` | every call of the file system as operators on its state | done |
| 3 | `RecordStore` | abstract specification: a list of saved records | done |
| 4 | `MemoryTask` | the memory task and a session of its clients, power losses, faults; implements `RecordStore` | done |
| 5 | `MemoryTaskInv`, `MemoryCalls`, `MemoryRecords`, `MemoryTaskProofs` | inductive invariant, the theorems about it, and that `MemoryTask` implements `RecordStore` | done, proved |
| 6 | `MemoryTaskClaims` | what comments say and the code does not do | done |
| 7 | `Fts` over `FileServer`, implementing the abstract `Transfer` | file transfer service, SoftDevice events, glue, memory task as a server, client, STOP and change of owner | done |
| 8 | `Recorder`, `RecorderClaims`, `RecorderProofs` | state task with its queues, waits and time limits, memory, audio and BLE tasks behind them | done, its invariants proved |
| 9 | `Session`, `SessionProofs` | time stamps, timeouts, keep-alive messages, the link and its tasks | done, proved |
| 10 | `SpiFlash`, `SpiFlashProofs` | flash driver: interrupts, ticks and a chip that is busy | done, its invariants proved |
| 11 | `FtsInv`, `FtsProofs` | the invariants of `Fts`, and that it implements `Transfer` | done, proved for the races each needs |
| 12 | `NvConfig` | the load and the store of the configuration page | if it gets a second step |

How they fit together. `Recorder` and `Session` look at one state task from two sides: `Recorder` has all its states, queues
and waits and leaves open when a timeout expires within what the age of the device allows; `Session` has the time stamps and the messages that
feed the timeouts and no waits. `MemoryTask` is the memory task with the file system in full and its commands one at a time, `Recorder`
the same commands behind their queues with the file system reduced to what its answers depend on. `Fts`
sees the memory task through `FileServer`, the BLE requests on a memory of closed records
(`MemoryTask` shows that closed records read back). `SpiFlash` is below the flash of `MyFs`, which takes a call of the driver for one step.

## 3. The modules

### 3.1 MountSearch (`myfs.cpp:115-157`)

The descriptor table is written slot after slot, so the mount looks for the first
erased descriptor by halving a step. `table` is the content of a slot: erased, closed,
unclosed or foreign (neither magic nor erased). `Read` is the flash read of one descriptor, one action per
branch of the loop. The last record is in slot `last`; the search stops on an odd slot that is
`last` or `last + 1`; it stops early and asks for a repair if the probed record is unclosed.

### 3.2 MyFs (`myfs.cpp`) and MyFsAccess (`myfs_access.cpp`)

Pure operators on a record `[flash, fs, file, list]`: `X(s)` is the state after the
call `X`, `XResult(s)` what it returns; `ok` says whether the flash program operation in it succeeds.

| TLA+ | Code |
|---|---|
| `flash.marker`, `.table`, `.pages` | first page, `myfs_file_descriptor` array, data pages |
| `fs` | `myfs_t`: `is_mounted`, `is_full`, `is_file_open`, `files_count`, `next_file_descriptor_address` (`nextSlot`), `next_file_start_address` (`nextStart`), `buffer_position`, and the `myfs_rewind_dir` position |
| `file` | `_active_file`, a `myfs_file_t` |
| `list` | `_is_files_list_next_needed`, `_total_files_left` |

Data are abstracted to what the properties tell apart. An address is a page number; sizes count
units of which `Chunk` make one audio sample. A page holds the **set of writers** that programmed it since
it was erased - `<<record, k>>` is page `k` of a record - because NOR flash can be programmed twice,
and then holds the AND of both. The descriptor that misses the full table is the writer `StrayDescriptor`.
A descriptor's magic word is its record number, 0 when erased. `EmptyWord` (-1) is the erased word; that
`(size / page_size) + 1` wraps for it is `PagesTaken`.

### 3.3 RecordStore

The promise to the rest of the device: saved records form a list that grows by one complete
record at a time, or is wiped as a whole. There is at most one record being written. The content of a saved record is
part of its entry, page by page. The list has a `Capacity`, and the code does not refuse the record that exceeds it: `BeginBeyond` spoils
the first record of a full list (`Spoilt`), and such a record is never saved. For `MemoryTask` the capacity is the number of descriptors and
what spoils a record is the descriptor that misses the table.

### 3.4 MemoryTask (`task_memory.cpp`)

One action per command or request, because the memory task takes one at a time and
finishes it. `phase` is the state task reduced to the order of its commands
(`task_state.cpp:133-364`): `idle -> prepare -> recording -> recorded -> ble -> ...`, with
`out_of_memory`, `corrupt` and `format` on the side. In particular the state task goes on from
`prepare` to `recording` whatever the answers were. While `owner = "BLE"` the host may ask for anything at any time.
`PowerLoss` may come between any two steps, `PowerLossInFormat` between the erase and the marker.

What a reader gets of a page is everything that was programmed into it: `PageOf` is the page's whole set of writers. `ClosedRecordsReadBack` therefore
names the one page that the code does not keep, the first page of the first record when every descriptor of the table is used (`TableUsedUp`), and
`ImplementsRecordStore` has the step in which it is lost.

| Action | Code |
|---|---|
| `Boot` | the task's prologue, 109-154 |
| `SelectOwnerBle`, `SelectOwnerAudio` | 493-550: deinit_fs, init_fs |
| `CreateRecord`, `AudioData`, `CloseWrittenFile` | 444-475, 180-224, 476-492 |
| `MemoryCheck`, `FormatFs` | 575-635 and `perform_pre_shutdown_check` |
| `RecordAborted` | `RECORD_END` after an event, `task_state.cpp:220-247` |
| `BleGetFilesList`, ..., `BleAllowFormatting` | `process_request_from_ble`, 241-430 |

### 3.5 MemoryTaskInv, MCMemoryTask, MemoryTaskClaims

The inductive invariant as named parts; the TLC instance with symmetric file names; two claims
of section 5.

### 3.6 Transfer

The promise to a client: it asks, and until it asks again it receives the units of its answer, each once and
in order, in deliveries of any size. `Answer` is a parameter.

### 3.7 FileServer (`task_memory.cpp:241-430`, seen from BLE)

The memory task as operators on a record: `Result` is the status of a command, `Executed` the state after it,
`ReportedSize` the `data_size` in the status, `elem` the static `data_queue_elem` that keeps its last content.
Data are sequences of units, a unit being any number of bytes; `BufferSize`, `PacketSize`, `ListFirst` and `ListNext`
stand for 256 bytes, 200 bytes, 7 and 8 names. Sizes are at least one unit: a client of an empty file
waits for nothing.

### 3.8 Fts (`ble_fts.cpp`, `ble_fts_glue_target.cpp`)

Three contexts take turns: the SoftDevice's task with the event handlers, the BLE task with `process()`
and the blocking calls of the glue, and the memory task. A fourth process is the client of `test/fts.py`.

| Variable | Code |
|---|---|
| `conn`, `subscribed`, `air` | connection handle; CCCDs in the SoftDevice; the one notification its queue holds |
| `want`, `got` | client: the latest request, what arrived on the characteristics it listens to |
| `pending`, `active` | `_context.pending_command`, `_context.active_command` |
| `enabled` | the `ClientContext`; TRUE at the start because the observer's context (`ble_fts.cpp:59-62`) makes it an alias of the canaries |
| `tx` | `_transaction_ctx`: `file_id`, `buffer` with `size` (`buf`), `idx`, `packet_size`, `file_size`, `file_sent_size`, `files_count_left`; and `fs_issue_max_counter` |
| `task` | where the BLE task is: in its loop, waiting for a status or for data of call `op`, or before the assignments (`finish`) that follow a push |
| `cmdQ`, `statusQ`, `dataQ` | the queues of `main.cpp`, one element each |
| `mem`, `answering` | the memory task (with `_memory_owner`), and the command whose data it still has to send |
| `system` | BLE is on, has a STOP in its queue, or is off |

| Action | Code |
|---|---|
| `FinalizeTransaction`, `PushDataPackets`, `Refuse`, `ProcessClientRequest`, `ReceiveCompleted` | the branches of `process` and `process_client_request` up to the first wait of the glue |
| `TakeStatus`, `Opened`, `TakeData`, `NoAnswer` | the glue gets a status, data or nothing in time, and what its caller does then, up to the next wait or push |
| `Finish` | assignments to the opcodes after `push_data_packets` returned |
| `SystemReset` | the fifth empty chunk, `ble_fts.cpp:934-944` |
| `MemoryServes`, `MemorySendsData` | `process_request_from_ble` up to the status; the data after it |
| `NotificationSent` | the client receives, and `process_hvn_tx_callback` |
| `OnConnect`, `OnDisconnect`, `WriteCccd`, `OnControlPointWrite`, `ConfirmCompletion` | `on_ble_evt`, `on_write` |
| `StateStopsBle`, `BleStop`, `SelectOwner`, `BleStart` | `disable_ble_subsystem`; `BleSystem::stop` with the context's reset; `SELECT_OWNER_*`; `BleSystem::start` |
| `BatteryLevel`, `PowerOff` | `battery_level_update`; the shutdown after a disconnect |

A push is one step and the assignments after it another, because the SoftDevice's task may run between them.
The BLE and memory tasks have one priority and no time slicing (`FreeRTOSConfig.h:76`): `BleTurn` keeps the BLE task out between
a status and its data unless a task of higher priority takes the processor there (`early_switch`).

`Races` names what may happen beyond an ordinary session, so that a run says under which of them a property holds:

| Race | Meaning | A property fails because |
|---|---|---|
| `eager` | requests while another is answered | the request is dropped |
| `early_request` | a request before the subscription | the push fails, and the request stays active (`ActiveRequestIsMoving`) |
| `lost_link` | a broken link, or STOP while the memory task is idle | the service keeps its state, the next client is refused |
| `overlap` | STOP and a change of owner while the memory task works for BLE, or has a request of it in its queue | the next client takes the old answer (`NothingForeign`) |
| `completion` | a client that comes back after it confirmed | an unread status is in the queue |
| `battery` | a notification of the battery service | it counts as the transfer's |
| `early_tx` | TX complete before the assignments after the push | its opcode is overwritten, the transfer stops |
| `early_switch` | the BLE task runs between status and data | old data are taken |
| `slow_memory` | an answer after the time limit | the next call finds it |

Merged steps: delivery to the client and TX complete; the six CCCDs; a disconnect on the device's request and its event.
`MCFts` has the sizes of the instances.

### 3.9 Recorder (`task_state.cpp`, with `task_memory.cpp`, `task_audio.cpp`, `task_ble.cpp`)

One action per piece of a task between two waits: the state and the audio task have the higher priority, so
nobody else runs within such a piece, and the memory and BLE tasks run only while both wait (`LowPriorityRuns`). The
interrupts and the user may come at any time.

| Variable | Code |
|---|---|
| `system_state`, `memory_status`, `context` | members of `systemstate::Context`; `active` is `is_record_active`, `ble` `is_ble_system_active`, `started` that a first record was, `expired` and `low` the results of the timeouts and of the battery, `low_seen` and `issue_seen` the time stamps of the two indications |
| `pc` | the wait the state task is in (`own_audio`, `create`, `close`, ...), or the half of its loop it does next: `poll` for the queues and timeouts, `look` for the state machine |
| `command`, `status`, `event`, `data`, `ble.queue`, `audio.queue` | the queues, of one element but for `data` and BLE's two |
| `mem` | the memory task: the operation it works on, the owner, and whether the file system is mounted, full, has a file, or has a record being written |
| `audio.takes`, `file` | history: samples carry the number of the recording they belong to; the record's own and how many others it got |
| `age` | how long the device is on, in the steps that matter: 800 ticks (`INIT` is left), 2 s (late configuration), 20 s (first timeout), 8 min (last) |

| Action | Code |
|---|---|
| `LookInit` ... `LookShutdown` | one state of the `switch` in `task_system_state`, up to the first wait of the calls in it |
| `OwnedByAudio`, `RecordCreated`, `RecordClosed`, `OwnedByBle`, `StartBle`, `CheckAnswered`, `FormatAnswered` | the code behind each wait; a wait ends with an element or with its time limit (`Woken`) |
| `Poll`, `StartForConfig`, `StopAfterConfig` | events, answers to nobody, timeouts, battery; `load_nvconfig` |
| `MemStarted`, `MemReset`, `MemTake`, `MemSelect`, ..., `MemSample`, `MemServesBle` | the memory task |

`Faults` names what may fail, `Long` the operations of the memory task that may outlast the time limit of the wait for them,
`Configs` whether a valid configuration was found at the start, `Starts` whether the device was switched on or reset by the file transfer service
(`analyze_reset_reason`, which leaves a command in the queue and then waits for its own). A record whose closing failed counts as no longer being
written, as for the state task; that `myfs` keeps its file open until the next change of owner is in `MemoryTask`.

### 3.10 RecorderClaims

The claim of section 5 about the unconditional shutdown.

### 3.11 Session (`process_timeouts`, `task_ble.cpp:124-160`, `ble_system.cpp`)

A unit of time is five seconds, the shortest of the timeouts; every unit has at least one pass of the state task's loop. The timeouts are
4, 5, 3 and 1 units (`NoRecord`, `AfterRecord`, `KeepAlive`, `AfterDisconnect`) and `MaxOperation`, 96 in the firmware.

`stamps` are `Context::timestamps`, `keepalive` and `commands` the queues between state and BLE task, `flags` the two
`_has_..._happened`, `handle` `m_conn_handle`. `radio` is the SoftDevice, which goes on while the task that handles its events is
suspended (`sdh = "paused"`), and `events` what it has to tell. `heard` and `told` are history: when a request of a phone was last served, and when
the state task last took a message. A pass of the loop is one action per state (`PassInit`, `PassRecording`, `PassBle`, `ShutDown`) ending in
`ProcessTimeouts`; the BLE task's stop is two, because the events of the SoftDevice may be handled between them.

### 3.12 SpiFlash (`spi_flash.cpp`, `spi.cpp`)

A call of the driver is a list of operations (`Script`) that are carried out one after the other: wait until the chip is ready, let the
tick of the last transaction pass, write enable, transfer; a read only lets the tick pass. `stage` is where in an operation the task is, so that the interrupt (`Isr`)
can come between any two assignments: in `read` between the start of the transfer and the flag, in `xfer` between the start and
`bytesLeft`. A short transfer may be over at once; a long one only if the task lost the processor (`Preempt`), which
`early` remembers. The chip ignores programs and erases while it is busy or without write enable, and answers junk to
reads. How long it is busy is open up to `ProgramTicks` and `EraseTicks`; `inTime` in a call remembers whether it was ready when the tick that a read
waits for was over. A sector stands for its pages; `Big` sectors are a block of 64 KB; `Parts` are the transfers of one page.

## 4. Runs

| Run | Instance | Shows |
|---|---|---|
| `mount_search` | 32 slots, any number of records, last record closed or not, any one damaged descriptor | the search finds the last record (`FoundBesideLastRecord`), asks for a repair only of the last, unclosed record (`RepairsTheLastRecord`), cannot miss an unclosed record in an even slot (`EvenUnclosedIsProbed`), reads one descriptor per doubling (`LogarithmicProbes`), and ends (`Terminates`) |
| `records` | 4 slots, 4 data pages of 2 units, samples of 1, 2 names, 4 records, 1 fault | closed records read back but for the page that a full table costs (`ClosedRecordsReadBack`), RAM agrees with flash (`RamMatchesFlash`), BLE can close its file by the name it opened it with (`HostCanCloseTheFile`), reads stay in a closed record (`ReaderSeesClosedRecord`), records vanish only by format or an unrepaired record (`WipedOnlyByFormatOrRepair`), all of it refines `RecordStore` (`ImplementsRecordStore`), and the invariant of the proofs (`IInv`) |
| `fts` | records of 5, 3 and 1 units, buffer 3, packet 2, list in pieces of one name; all requests; no races | queues and answers match (`AnswersMatchCommands`), an active request is always moving (`ActiveRequestIsMoving`), the memory's file is open exactly during its transfer (`OpenOnlyWhileTransferred`), the service implements `Transfer` (`ImplementsTransfer`), every request is answered (`RequestServed`) |
| `fts_rough` | records of 5 and 3; all requests and the documented opcode 5; `lost_link`, `early_tx`, `early_request` | a client never takes a unit that is not its answer's (`NothingForeign`) |
| `fts_slow` | one record of 3, buffer 2; data requests and completion; `overlap`, `slow_memory`, `battery`, `eager` | the BLE task always comes back to its loop (`BleTaskReturns`), where it hears STOP; empty chunks end in a reset, not in a loop |
| `recorder` | two presses, data queue of 2; `fills`, `write`; both starts; answers in time | a wait ends with its own answer (`AnswersMatch`); in RECORDING there is a file of audio (`RecordingHasFile`); the power is cut only when the memory task is idle and no record is open (`PowerOffWhenIdle`); a record has at most a queue of the last one's samples (`StalePrefix`); the flag of BLE is what BLE was told (`BleFollows`) |
| `recorder_live` | one press; creations and closings that fail, closings that are late; with and without a configuration | a record ends after the release (`RecordsEnd`); a configured device switches itself off (`SwitchesOff`) |
| `session` | 12 units, 2 records, `MaxOperation` 8 | out of a record the device is on at most six units after the last record or message (`QuietSwitchesOff`), and no longer than `MaxOperation` and one (`LimitedOperation`); a phone served within three units is not taken for a quiet one (`ServedIsNotCut`) |
| `spi_flash` | 3 sectors, blocks of 2, 3 transfers a page, programs of up to 3 ticks and erases of up to 2 | OK means that the data are the chip's if that was ready in time (`ReadIsRight`), the page was programmed (`ProgramTook`), the range and nothing else erased and the chip ready (`EraseTook`); no transfer finds the bus in use (`NeverRefused`); each call returns (`CallsReturn`) |
| `claim_*` | small | section 5 |

Why these bounds. In `records` four data pages hold two records of two pages or one long one and the table has as many slots as records are
tried, so that the memory and the table each get full first in some behaviours; records that end inside a page, exactly on its end
and with the memory's end are all there. A mount finds no record, one, or so many that the table counts as full, which with four slots are two;
a mount of several records in a table with room needs eight slots and has been tried apart from the run (5 pages, 3 records, 151976 states, no error); it is the theorems' to cover. Each name can be used twice. One failing program
operation is enough to fail a close or a create, and the power loss, unbounded, follows it wherever it hurts.
A record gets at most one unit into the page behind the file system, which is why `DataPage` includes that page.
A files list goes in one piece here; in `fts` in several.

For `fts` the sizes are a buffer and a rest, exactly a buffer, and less than a packet; each buffer takes two packets of which the
second is short; the list takes one first and two further pieces. An unknown file id is asked for as well. A client asks any number of times.
The races are spread over two runs because all together are out of TLC's reach, and because several contradict a property (3.8): `battery`
cannot be in `fts_rough`, and `overlap` cannot either.

In `recorder` two presses give every order of a first and a second record, of a record and a connection, and of a press and a shutdown;
the data queue has two places so that a sample of the old recording and one of the new are in it together. `age` counts the steps that any
condition tells apart. `recorder_live` has a single press and one place, because its two properties are about one record's end.
In `session` twelve units are four more than the longest operation, and the two records leave room for a phone between them and after.
In `spi_flash` three sectors hold a block, a sector beside it, and a range that starts inside a block. A page program of up to three ticks is one
more than a read waits for, and less than the five milliseconds that the driver allows the chip (`max_wait_time_ms`, here `MaxWait = 4`). No data sheet is in
the repository; the bill of materials (`pcb/out/v1.4.52840/bom/dictofun.csv:36`) names a W25Q128JW.

Deadlock is not checked where the system stops: a device that lost its first record (`records`), a client whose request was lost
(`fts_slow`), a device that is off (`recorder`, `recorder_live`, `session`).

Fairness. `MountSearch` has weak fairness of the loop's step: the loop runs in one call
of one task. `Fts` has weak fairness of the BLE task, of the memory task and of the transmission of a notification: both tasks
block on queues with time limits and wake whenever one holds something, and the SoftDevice transmits as long as the link is up.
Nothing is asked of the client, the link or the state task. `Recorder` (`LiveSpec`) has weak fairness of the state task, which wakes every ten ticks, of the audio task and
of the clock. The memory and the BLE task run only while those wait, again and again and not without interruption, so theirs is strong; so is
that of `MemTake`, because a sample comes every 16 ms and the memory task waits 5 ms for one before it looks for a command. `IndicationOver` is
strong for the same reason as a timeout: its time passes. Nothing is asked of the user, except in `SwitchesOff` that the button
is not held for ever. `SpiFlash` has weak fairness of the driver, the interrupt and the tick. `MemoryTask` and
`Session` have none: the code of the first promises nothing while nobody presses the button, and in `Session` a unit of time cannot pass
without a pass of the loop, so its properties are bounds.

### The excluded start

`FirstRecordLoss = FALSE` keeps the device from restarting with an unclosed record in the
first slot. In that state the mount takes the record for an empty one (`myfs.cpp:175-184`) and the next is
written over it. This is a defect, shown by `claim_overlap` with `FirstRecordLoss = TRUE`. The exclusion
makes it possible to say what holds in all other cases; every theorem about `MemoryTask` states it as an assumption.

## 5. Disagreements between documents and code

| Run | Found |
|---|---|
| `claim_repair` | `myfs_repair` tests `written_address` instead of the word it read, never succeeds, and `init_fs` formats: one interrupted record costs all records |
| `claim_overlap` | one unclosed record in the table is taken for a closed one of no pages |
| `claim_shutdown` | a memory that gets full during a record leaves `is_record_active` set, and a start with a full memory waits in RECORD_PREPARE: the "unconditional" shutdown after eight minutes (`task_state.cpp:697`) does not come |

The models reach the following too; they are counterexamples of a few steps for which no run is kept. They are the reason why properties above
are stated with an exception or without a race.

Record memory:

* `myfs_file_open` has no check for a free slot: in a full table the descriptor lands in the first record's data. `ClosedRecordsReadBack` and
  `RecordStore!BeginBeyond` say that it is this page of this record only, and then only.
* a mount of a full memory leaves `files_count` as it was, and the files list reports it (`myfs.cpp:231`, README of `ble_fts`, line 122).
* `FORMAT_FS` ignores `is_formatting_allowed` (`task_memory.cpp:605`, README, 103-104).

File transfer service:

* a disconnect leaves the active request, and the memory's file open: the next client is refused.
* a notification of any service drives the transfer; a failed push ends it silently.
* data follow OPEN_FILE too, and can be taken for the first chunk (`early_switch`).
* a request during another is dropped without a status (`ble_fts.cpp:605`, README, 82), and its file id is used by the transfer that goes on.
* opcode 5 is documented and not implemented (`ble_fts.cpp:381`, README, 98).
* the status of ALLOW_MEMORY_FORMATTING is never read and the next call takes it (`ble_fts_glue_target.cpp:413`).
* STOP and a change of owner while a request is in the memory task's queue: it is served after the change back, and the next client's call takes its
  answer - it asks for one file's size and gets another's (`NothingForeign` with `overlap`).

State task:

* with an answer that comes late, a shutdown can cut the power while the memory is being formatted (`PowerOffWhenIdle` with `Long`).
* after a reset asked for by the file transfer service the wait of `set_memory_ownership` takes the answer to the mount: `memory_status` stays BUSY, and a
  press of the button ends in RECORD_PREPARE for good.
* `load_nvconfig` sets `is_ble_system_active`, stops BLE and leaves the flag set: BLE is not started by the next `enable_ble_subsystem` (`BleFollows` is
  about devices with a configuration).
* the time stamp of a disconnection is cleared by a new record only: a phone that comes back is cut off five seconds after it had left, also while it is being served.
  A disconnection reported after the next record started counts against that record's session. The counter that the work-around for this tests (`task_state.cpp:713-716`)
  is incremented nowhere.
* a keep-alive message that waits in its queue when a record starts is taken after the time stamps were reset: after a record of more than 15 s
  the device switches off at once, and no phone gets the time to connect.

SPI flash driver:

* an interrupt that comes before `read()` set its flag leaves the flag set, and one that comes before it filled in the context copies the data to the buffer of the
  call before; one before `xfer` set its count ends the page after one transfer (`ReadIsRight`, `ProgramTook` with `early`).
* `read()` never asks whether the chip is busy, as `program()` and `erase()` do. With `ProgramTicks = 3`, `ReadIsRight` without its condition
  `ReadyInTime` fails: a page is programmed, and a read that comes at once returns junk with OK, where `spi_flash_if.h:27` promises an error code. The
  mount after a format is such a read (`myfs.cpp:63` and 92). A page that takes at most two ticks is safe, one for the end of `program()` and one that `read()` waits.

## 6. Proofs

`MountSearchProofs` proves the safety properties of the search for every table of 2^k slots. The
invariant relates position and step: the position is an odd multiple of the step, so the
last record lies within two steps of it, and the number of probes so far is the number of halvings.

`MemoryTaskProofs` proves, under `ASSUME ~FirstRecordLoss` and the named assumptions on the
constants, `Spec => []X` for `IInv`, `TypeOK`, `ClosedRecordsReadBack`, `RamMatchesFlash`,
`ReaderSeesClosedRecord` and `HostCanCloseTheFile`; the action property `WipedOnlyByFormatOrRepair`; and
`Spec => ImplementsRecordStore`.

None of these is inductive by itself: that a closed record is intact depends on the next record being
written behind it, hence on the pointers in RAM, hence on their being right after every mount,
close, failed close and change of owner. `IInv` says so: the written slots are the first `n`
(`TableShape`); records lie one behind another and a page is written only by the record it
belongs to (`Extents`, `PageWriters`), or by a descriptor in the first page when no slot is left (`StrayInOrder`); closed records are complete (`ClosedComplete`); outside of
a record the RAM has the pointers a mount would compute (`Ram`), within one it writes the last slot's record,
or none when the table was full (`Writing`); a file being read is a closed one (`Reading`); the first
record is unclosed only while it is being written (`FirstRecordGuarded`); commands come in the order of a session (`CommandsInOrder`).

That a mount of a flash without the marker wipes nothing needs one more part: outside of a format the marker is
there once the device has started, and a flash without it has no written slot (`MarkerInOrder`).

* `MemoryCalls` - arithmetic of pages, what `Last` is in a well-shaped table, and one lemma per call of the file
  system, mounting and formatting included: it preserves `MemInv(s, n)`, for the `n` after it;
* `MemoryRecords` - what each call does to the saved records and to the one being written: nothing, the next
  sample, one more saved record, or all of them gone;
* `MemoryTaskProofs` - one step per action of `Next`, then the consequences. For the refinement each
  action is one of `RecordStore`'s (begin, begin beyond the capacity, add a sample, save, abandon, wipe) or a stutter; that a saved record has
  all its samples, and nothing else in its pages, follows from `ClosedComplete`, `PageWriters` and `StrayInOrder`.

`RecorderProofs` proves for every depth of the data queue and number of presses, under `RecorderAssumption`:

* `TypeOK`, whatever fails or is late; its parts are proved action by action.
* `BleFollows`. When START or STOP is dropped the flag is not changed, and CONNECT_FS changes
  nothing of what BLE was told last: lemmas say what appending and taking a command do to `WillBeOn`. `BleInv` adds that the STOP after a late load of the
  configuration, which leaves the flag set, is sent without a valid configuration only.
* `AnswersMatch` with `Long = {}`. The invariant says, for each wait, where its command is (`Waiting`): in the queue, being worked on, or answered; that
  outside of a wait no command and no answer is under way (`Idle`) but those left over from the start (`Early`, `Mounting`, `Residue`), which the next reset of the status queue throws away.
* `PowerOffWhenIdle` with `Long = {}`. `OpenInv` follows the open record: it is there from the answer to CREATE to the answer to CLOSE, in the states `RecordStates` and their
  waits only, and every way to the shutdown leads over the close or a state without a record.
* `StalePrefix` with `Long = {}`. `StaleInv`: the samples of earlier takes are the front of the queue, and those the record already got and those still in front of it are together no
  more than the queue is long; from the stop of the audio task to the next start none is added.
* `RecordingHasFile` with `Long = {}`, a valid configuration, and failures of writes and closes or a full memory. A failing create or mount is not included:
  the state task then enters RECORDING all the same (3.4), and TLC finds the property violated.

`SessionProofs` proves for every `MaxOperation` of at least `NoRecord`, `MaxTime` and `MaxRecords`: `TypeOK`, `QuietSwitchesOff`, `LimitedOperation`, and the
action property `ServedIsNotCut`. `SessionInv` adds: a loss of the link is reported before the next one is made (`LinkInv`), so that a DISCONNECTED that fills the queue is
not about the phone that is being served now; in BLE_OPERATION the timeouts were evaluated with these stamps (`LoopInv`); and the request served last is in the queue, noted in the stamps, or from
before the end of the record (`HeardInv`).

`SpiFlashProofs` proves for every number of sectors, size of block, number of transfers of a page, and time limits of the chip (an erase shorter than `MaxErase`,
a program of any length): `TypeOK`, `ReadIsRight`, `ProgramTook`, `EraseTook` and `NeverRefused`. What is told to the caller is the chip's state only because of what was done
before: `SpiInv` says which operations a call has still to do and where in one of them the task can be (`CallInv`), that a transfer on the bus is that operation's and its interrupt
finds the context it expects unless it came `early` (`HwInv`), that the chip is free and unlocked when it is told to program or to erase (`WriteInv`), that a chip
which is ready in time for a read is ready when the read's transfer begins (`InTimeInv`), and which sectors of a range are erased so far (`EraseInv`).

`FtsProofs` proves of the file transfer service, for every number and size of records, sizes of element, packet and list pieces, and opcodes a client writes (`FtsInv` has the invariants):

* `TypeOK` for all `Races`. `TypeInv` adds that a packet lies in the buffer, whatever is done to the transaction from two contexts, and that a read position lies in its file.
* `AnswersMatchCommands` and `NothingForeign` for `Races \subseteq MildRaces`: links that break, transmissions that complete early, requests that come too early.
  `MildInv` follows one request. `Exchange` has the place of its command (asked, status there, data there, or nothing under way) and the file, position and count the memory has then;
  `Calling`, `Looping` and `Finishing` say for each place of the BLE task how many units the client has and that the buffer continues there (`DataBuffer`, `ListBuffer`,
  `OneBuffer`), so that every packet in the SoftDevice is the next part of the answer (`Carried`). The client may be gone in all of them: then nobody takes what is left.
* `ActiveRequestIsMoving`, `OpenOnlyWhileTransferred` and `ImplementsTransfer` for `Races = {}`. `CalmInv` adds that the service finds a subscribed link whenever it has something to
  send (`Listening`), hence every push succeeds and a packet is under way after it (`Moving`); where the file is open (`FileOpen`); that the memory refuses unknown files only (`Refused`); and that
  the client has a prefix of its answer, all of it when it writes again (`Received`). With `lost_link` alone TLC finds each of the three violated, with `early_request` the first two.

In these proofs two `CASE` expressions had arms that overlap, which TLC resolves and TLA+ does not: the arms are exclusive now.

Assumed of the constants: `MyFsAssumption`, `AccessAssumption`, `MemoryTaskAssumption`, `RecorderAssumption`, `SessionAssumption`, `SpiFlashAssumption`, `FileServerAssumption`, `FtsAssumption`. The table
has 4 to 2048 slots, a power of two, as 4096-byte sectors with 32-byte descriptors have.

Only model-checked: `Terminates`, `RequestServed`, `BleTaskReturns`, `RecordsEnd`, `SwitchesOff` and `CallsReturn`, because liveness under fairness is beyond the
prover. Everything else that a passing run checks is proved, under the assumptions named here.

## 7. What is not modelled

* Bytes, names and time stamps: a record's name is arbitrary, two may be equal.
* Failing flash reads and erases; a failing program of a record's last page, which the code ignores
  (`myfs.cpp:381-385`). A failing program of a data page, of a descriptor at create and at close is.
* In `Fts`: pairing and the unpairing characteristic, connection parameters, malformed control point writes (they change nothing),
  a memory that fails or is full, notifications lost on a link that stays up (the link layer repeats them).
* In `Recorder`: the commands of the command line, the LED, the button's debouncing timer, the battery's filter (any poll may find it low), the sampling and
  encoding of audio. The development mode, which has one state and no timeouts, is left out; `Recorder` and `Session` follow `FIELD`, and a device that finds no configuration.
* The configuration's store: an erase and a write with one power loss between them. What the next start then does, without a
  configuration, is in `Recorder` (`Configs`).
* The no-init memory's checksum and its garbage after a cold start; only its effect, the start after a requested reset, is there (`Starts`).
* `eraseChip`, which only the memory tests call; LAUNCH_TEST_n, the debug console, LEDs, watchdog, sensors, RTC: one message and no state that another task reads.
* The codecs and the microphone (signal processing), Nordic's SDK, the bootloader, board files, and the test scripts but for the client of `fts.py`.

Of the repository's C, C++ and Python lines more than half are two generated `sdk_config.h` files of Nordic's SDK. The rest that no definition translates is mostly
declarations, logging, registration of services and tasks, and the parts named above.
