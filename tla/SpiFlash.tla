----------------------------- MODULE SpiFlash -----------------------------
(***************************************************************************)
(* The driver of the record flash (spi_flash.cpp) over the SPI driver      *)
(* (spi.cpp): one task that calls it, the interrupt at the end of every    *)
(* transfer, the tick of the operating system, and the flash chip, which   *)
(* ignores what it is told while it programs or erases.  A sector stands   *)
(* for its pages.  A call is a list of operations that are carried out one *)
(* after the other; "ready" is a loop around isBusy.                       *)
(***************************************************************************)
EXTENDS Naturals, Sequences

CONSTANTS
  Sectors,      \* sectors of the memory
  Big,          \* sectors of a block that erase64KBlock erases, 16
  Parts,        \* transfers of a page's transaction, 128 bytes each: 3
  MaxWait,      \* max_wait_time_ms and max_read_transaction_time_ms
  MaxProgram,   \* max_program_transaction_time_ms
  MaxErase,     \* max_erase_duration_time_ms
  EraseTicks,   \* bound: the chip erases a block within so many ticks
  ProgramTicks, \* bound: the chip programs a page within so many ticks
  Preempt       \* the task may lose the processor for longer than a transfer

ASSUME SpiFlashAssumption ==
  /\ {Sectors, Big, Parts, MaxWait, MaxProgram, MaxErase, EraseTicks, ProgramTicks}
       \subseteq Nat \ {0}
  /\ EraseTicks < MaxErase
  /\ Preempt \in BOOLEAN

Sector == 0 .. Sectors - 1
Loops == {"ready", "unlocked", "erased"}

VARIABLES
  call,      \* the call in progress: [op, from, n, at, left, parts, data]; history:
             \* before, the cells then, and inTime
  todo,      \* its operations, the first one is being carried out
  stage,     \* where in it the task is
  timeout,   \* the local variable of that name
  pending,   \* _isSpiOperationPending
  context,   \* [read, mine]: _context.operation is READ, data is the call's
  bus,       \* [busy, left, rx], Spi::_context and the buffer rx
  hw,        \* the transfers of the peripheral: [cmd, sent]
  chip,      \* [wel, wip]: write enable latch, ticks until it is ready
  cells,     \* what the sectors hold
  fresh,     \* _get_ticks() - _last_transaction_tick == 0
  early,     \* history: an interrupt of the call came before the task waited for it
  result     \* history: the call that was over last and what it returned

task == <<call, todo, stage, timeout>>
vars == <<task, pending, context, bus, hw, chip, cells, fresh, early, result>>

None == [op |-> "none"]
NoResult == [call |-> None, res |-> "none"]
NoHw == [cmd |-> "none", sent |-> 0]
Op == Head(todo)

----------------------------------------------------------------------------
(* Calls                                                                   *)

ProgramLocked == <<"ready", "settle", "program">>

(* writeEnable waits until the chip is ready for itself.                   *)
ProgramScript == <<"ready", "settle", "unlocked", "wren", "program">>
BlockScript == <<"ready", "settle", "unlocked", "wren", "erase", "erased">>

(* erase looks at the chip once more before the first block.               *)
EraseScript == <<"ready", "ready", "settle", "unlocked", "wren", "erase", "erased">>

Script(op) ==
  CASE op = "read" -> <<"settle", "read">>
    [] op = "program" -> ProgramScript
    [] op = "erase" -> EraseScript
    [] op = "readJedecId" -> <<"ready", "id">>
    [] op = "reset" -> <<"reset">>

BlockUnaligned(at, left) == IF left >= Big THEN Big ELSE 1

(* erase64KBlock where the address and the rest allow it, else eraseSector *)
Block(at, left) == IF left >= Big /\ at % Big = 0 THEN Big ELSE 1

(* The chip will be ready when the delay of a read that is called now is   *)
(* over, one tick after a transaction in this one and none otherwise.      *)
ReadyInTime == chip.wip <= (IF fresh THEN 1 ELSE 0)

Call(op, from, n, parts) ==
  /\ call = None
  /\ call' = [op |-> op, from |-> from, n |-> n, at |-> from, left |-> n,
              parts |-> parts, data |-> "unread",
              before |-> IF op = "erase" THEN cells ELSE <<>>, inTime |-> ReadyInTime]
  /\ todo' = Script(op)
  /\ stage' = "begin"
  /\ context' = [context EXCEPT !.mine = FALSE]
  /\ early' = FALSE
  /\ result' = NoResult
  /\ UNCHANGED <<timeout, pending, bus, hw, chip, cells, fresh>>

(* Files are written to erased pages.                                      *)
Caller ==
  \/ \E a \in Sector, p \in {1, Parts} : Call("read", a, 1, p)
  \/ \E a \in {s \in Sector : cells[s] = "erased"} : Call("program", a, 1, Parts)
  \/ \E a \in Sector : \E n \in 1 .. Sectors - a : Call("erase", a, n, 1)
  \/ \E op \in {"reset", "readJedecId"} : Call(op, 0, 0, 1)

Return(res) ==
  /\ call' = None /\ todo' = <<>> /\ stage' = "idle"
  /\ result' = [call |-> call, res |-> res]

Done ==
  IF Len(todo) > 1
  THEN todo' = Tail(todo) /\ stage' = "begin" /\ UNCHANGED <<call, result>>
  ELSE IF Op = "erased" /\ call.left > Block(call.at, call.left)
  THEN LET b == Block(call.at, call.left)
       IN  /\ call' = [call EXCEPT !.at = call.at + b, !.left = call.left - b]
           /\ todo' = BlockScript /\ stage' = "begin"
           /\ UNCHANGED result
  ELSE Return("OK")

(* A loop around isBusy that ran out of time: writeEnable gives up and     *)
(* says nothing, the others end the call.                                  *)
TimedOut ==
  IF Op = "unlocked"
  THEN todo' = Tail(Tail(todo)) /\ stage' = "begin" /\ UNCHANGED <<call, result>>
  ELSE Return("ERROR_TIMEOUT")

----------------------------------------------------------------------------
(* The operations of a call                                                *)

At(s) == call # None /\ stage = s
Goto(s) == stage' = s /\ UNCHANGED <<call, todo, result>>
Limit == CASE Op = "erased" -> MaxErase [] Op = "program" -> MaxProgram [] OTHER -> MaxWait

BeginLoop ==
  /\ At("begin") /\ Op \in Loops
  /\ timeout' = Limit
  /\ Goto("look")
  /\ UNCHANGED <<pending, context, bus, hw, chip, cells, fresh, early>>

SettleNever ==
  /\ At("begin") /\ Op = "settle"
  /\ Done
  /\ UNCHANGED <<timeout, pending, context, bus, hw, chip, cells, fresh, early>>

(* No transaction in the tick of the last one.                             *)
Settle ==
  /\ At("begin") /\ Op = "settle"
  /\ IF fresh THEN Goto("delay") ELSE Done
  /\ UNCHANGED <<timeout, pending, context, bus, hw, chip, cells, fresh, early>>

(* read sets the flag after the transfer was started, the others before.   *)
BeginTransaction ==
  /\ At("begin") /\ Op \notin Loops \cup {"settle"}
  /\ pending' = (pending \/ Op # "read")
  /\ Goto("start")
  /\ UNCHANGED <<timeout, context, bus, hw, chip, cells, fresh, early>>

LookAtChip ==
  /\ At("look")
  /\ pending' = TRUE
  /\ Goto("start")
  /\ UNCHANGED <<timeout, context, bus, hw, chip, cells, fresh, early>>

(* isBusy: the flag first, then the chip's status register (getSR1).       *)
Look ==
  /\ At("look")
  /\ IF ~pending
     THEN pending' = TRUE /\ Goto("start")
     ELSE /\ UNCHANGED pending
          /\ IF timeout = 0 THEN TimedOut ELSE Goto("delay")
  /\ UNCHANGED <<timeout, context, bus, hw, chip, cells, fresh, early>>

Judge ==
  /\ At("judge")
  /\ IF timeout = 0 THEN TimedOut
     ELSE IF bus.rx = "busy" THEN Goto("delay") ELSE Done
  /\ UNCHANGED <<timeout, pending, context, bus, hw, chip, cells, fresh, early>>

(* xfer starts the peripheral and then fills in its context; the result of *)
(* xfer is not looked at.                                                  *)
Command == IF Op \in Loops THEN "status" ELSE Op

Start ==
  /\ At("start")
  /\ ~bus.busy
  /\ hw' = [cmd |-> Command, sent |-> 1]
  /\ bus' = [bus EXCEPT !.busy = TRUE]
  /\ Goto("started")
  /\ UNCHANGED <<timeout, pending, context, chip, cells, fresh, early>>

PartsOfRounded == IF Op \in {"read", "program"} THEN call.parts + 1 ELSE 1
PartsOf == IF Op \in {"read", "program"} THEN call.parts ELSE 1

Started ==
  /\ At("started")
  /\ bus' = [bus EXCEPT !.left = PartsOf - 1]
  /\ CASE Op \in Loops \cup {"wren", "reset"} -> Goto("spin")
       [] Op = "read" -> Goto("pend")
       [] Op \in {"program", "erase"} -> Goto("context")
       [] Op = "id" -> Goto("wait")
  /\ timeout' = IF Op = "id" THEN MaxWait ELSE timeout
  /\ UNCHANGED <<pending, context, hw, chip, cells, fresh, early>>

Pend ==
  /\ At("pend")
  /\ pending' = TRUE
  /\ Goto("context")
  /\ UNCHANGED <<timeout, context, bus, hw, chip, cells, fresh, early>>

(* eraseSector and erase64KBlock do not wait for the transfer.             *)
FillContext ==
  /\ At("context")
  /\ context' = [read |-> Op = "read", mine |-> TRUE]
  /\ IF Op = "erase"
     THEN Done /\ fresh' = TRUE /\ UNCHANGED timeout
     ELSE Goto("wait") /\ timeout' = Limit /\ UNCHANGED fresh
  /\ UNCHANGED <<pending, bus, hw, chip, cells, early>>

(* The counted loops without a delay outlast every transfer.               *)
Spin ==
  /\ At("spin")
  /\ ~pending
  /\ IF Op \in Loops THEN Goto("judge") ELSE Done
  /\ UNCHANGED <<timeout, pending, context, bus, hw, chip, cells, fresh, early>>

(* program does not care whether the time was over.                        *)
Wait ==
  /\ At("wait")
  /\ IF pending /\ timeout > 0
     THEN Goto("delay") /\ UNCHANGED fresh
     ELSE IF Op = "read" /\ timeout = 0
     THEN Return("ERROR_TIMEOUT") /\ UNCHANGED fresh
     ELSE Done /\ fresh' = (fresh \/ Op # "id")
  /\ UNCHANGED <<timeout, pending, context, bus, hw, chip, cells, early>>

Driver ==
  \/ BeginLoop \/ Settle \/ BeginTransaction \/ Look \/ Judge \/ Start \/ Started
  \/ Pend \/ FillContext \/ Spin \/ Wait

----------------------------------------------------------------------------
(* The interrupt, and what the chip does when its select line goes up      *)

Ready == chip.wip = 0
Whole == hw.sent = PartsOf

Reply ==
  CASE hw.cmd = "status" -> IF Ready THEN "free" ELSE "busy"
    [] hw.cmd = "read" -> IF Ready /\ Whole THEN cells[call.from] ELSE "junk"
    [] OTHER -> "junk"

(* The chip erases the block that holds the address.                       *)
Erased == Block(call.at, call.left)

ChipTakes ==
  CASE hw.cmd = "wren" /\ Ready ->
         chip' = [chip EXCEPT !.wel = TRUE] /\ UNCHANGED cells
    [] hw.cmd = "program" /\ Ready /\ chip.wel ->
         /\ \E t \in 1 .. ProgramTicks : chip' = [wel |-> FALSE, wip |-> t]
         /\ cells' = [cells EXCEPT ![call.from] = IF Whole THEN "data" ELSE "torn"]
    [] hw.cmd = "erase" /\ Ready /\ chip.wel ->
         /\ \E t \in 1 .. EraseTicks : chip' = [wel |-> FALSE, wip |-> t]
         /\ cells' = [s \in Sector |->
              IF s \div Erased = call.at \div Erased THEN "erased" ELSE cells[s]]
    [] OTHER -> UNCHANGED <<chip, cells>>

CallbackOfRead ==
  /\ call' = IF ~context.read \/ call = None THEN call
             ELSE [call EXCEPT !.data = IF context.mine THEN Reply ELSE "stray"]
  /\ context' = [context EXCEPT !.read = FALSE]
  /\ pending' = (pending /\ ~context.read)

(* spiOperationCallback: the data of a read are copied to where the        *)
(* context says.                                                           *)
Callback ==
  /\ call' = IF ~context.read \/ call = None THEN call
             ELSE [call EXCEPT !.data = IF context.mine THEN Reply ELSE "stray"]
  /\ context' = [context EXCEPT !.read = FALSE]
  /\ pending' = FALSE

AtWait == stage \in {"spin", "delay"}

(* A transfer of one byte or two may be over at once, a longer one only if *)
(* the task was not running.                                               *)
Isr ==
  /\ hw.cmd # "none" /\ bus.busy
  /\ AtWait \/ Preempt \/ hw.cmd \notin {"read", "program", "id"}
  /\ early' = (early \/ (~AtWait /\ hw.cmd \in {"read", "program", "id"}))
  /\ IF bus.left = 0
     THEN /\ bus' = [busy |-> FALSE, left |-> 0, rx |-> Reply]
          /\ hw' = NoHw
          /\ ChipTakes
          /\ Callback
     ELSE /\ bus' = [bus EXCEPT !.left = bus.left - 1]
          /\ hw' = [hw EXCEPT !.sent = hw.sent + 1]
          /\ UNCHANGED <<call, context, pending, chip, cells>>
  /\ UNCHANGED <<todo, stage, timeout, fresh, result>>

(* A tick: every transfer is shorter than that.                            *)
Tick ==
  /\ hw.cmd = "none"
  /\ stage = "delay" \/ call = None \/ Preempt
  /\ chip' = [chip EXCEPT !.wip = IF chip.wip = 0 THEN 0 ELSE chip.wip - 1]
  /\ fresh' = FALSE
  /\ IF stage # "delay" THEN UNCHANGED <<task, result>>
     ELSE IF Op = "settle" THEN Done /\ UNCHANGED timeout
     ELSE /\ timeout' = timeout - 1
          /\ Goto(IF Op \in Loops THEN "look" ELSE "wait")
  /\ UNCHANGED <<pending, context, bus, hw, cells, early>>

Init ==
  /\ call = None /\ todo = <<>> /\ stage = "idle" /\ timeout = 0
  /\ pending = FALSE
  /\ context = [read |-> FALSE, mine |-> FALSE]
  /\ bus = [busy |-> FALSE, left |-> 0, rx |-> "junk"] /\ hw = NoHw
  /\ chip = [wel |-> FALSE, wip |-> 0]
  /\ cells \in [Sector -> {"erased", "data"}]
  /\ fresh = FALSE
  /\ early = FALSE
  /\ result = NoResult

Next == Caller \/ Driver \/ Isr \/ Tick

Fairness == WF_vars(Driver) /\ WF_vars(Isr) /\ WF_vars(Tick)

Spec == Init /\ [][Next]_vars /\ Fairness

----------------------------------------------------------------------------
(* Properties                                                              *)

TypeOK ==
  /\ stage \in {"idle", "begin", "look", "judge", "start", "started", "pend", "context",
                "spin", "wait", "delay"}
  /\ timeout \in 0 .. MaxErase + MaxProgram + MaxWait
  /\ pending \in BOOLEAN /\ fresh \in BOOLEAN /\ early \in BOOLEAN
  /\ bus.left < Parts /\ hw.sent <= 2 * Parts
  /\ chip.wip <= EraseTicks + ProgramTicks
  /\ cells \in [Sector -> {"erased", "data", "torn"}]

OK(op) == call = None /\ result.call.op = op /\ result.res = "OK"
Touched == result.call.from .. result.call.from + result.call.n - 1

(* read() says OK only with the content of the chip, whatever the calls    *)
(* before it left behind, if its interrupt did not come before read() or   *)
(* xfer() was ready for it and the chip is done with a page or a block     *)
(* when the delay of one tick is over: read() never asks it (isBusy), and  *)
(* a chip that takes longer answers with junk that read() calls OK.        *)
ReadIsRight ==
  OK("read") /\ ~early /\ result.call.inTime =>
    result.call.data = cells[result.call.from]

(* program() says OK, also when its wait ended by the time limit, only     *)
(* when the chip took the whole page.                                      *)
ProgramTook ==
  OK("program") /\ ~early => cells[result.call.from] = "data"

(* erase() says OK only when the chip is ready and has erased the sectors  *)
(* of the range and no other, in blocks of two sizes; whenever the         *)
(* interrupts come.                                                        *)
EraseTook ==
  OK("erase") =>
    /\ chip.wip = 0
    /\ \A s \in Sector : cells[s] = IF s \in Touched THEN "erased" ELSE result.call.before[s]

(* A transfer is never refused by a bus in use: nobody looks at the result *)
(* of xfer, and the flag of a refused one would stay set.                  *)
NeverRefused == stage = "start" => ~bus.busy

(* Every call comes back, also after a lost interrupt.                     *)
CallsReturn == (call # None) ~> (call = None)
=============================================================================
