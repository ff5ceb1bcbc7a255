-------------------------- MODULE SpiFlashProofs --------------------------
(***************************************************************************)
(* What the driver of the record flash guarantees for every number of      *)
(* sectors, size of block, time limit and length of transfer: its          *)
(* inductive invariant and the theorems that follow.                       *)
(***************************************************************************)
EXTENDS SpiFlash, SequenceTheorems, TLAPS

(* What is left to do of a call, from each of its operations on.           *)
Rest(op) ==
  CASE op = "read"    -> {<<"settle", "read">>, <<"read">>}
    [] op = "program" -> {ProgramScript, <<"settle", "unlocked", "wren", "program">>,
                          <<"unlocked", "wren", "program">>, <<"wren", "program">>,
                          <<"program">>}
    [] op = "erase"   -> {EraseScript, BlockScript,
                          <<"settle", "unlocked", "wren", "erase", "erased">>,
                          <<"unlocked", "wren", "erase", "erased">>,
                          <<"wren", "erase", "erased">>, <<"erase", "erased">>,
                          <<"erased">>}
    [] op = "readJedecId" -> {<<"ready", "id">>, <<"id">>}
    [] op = "reset"       -> {<<"reset">>}

Operations == {"read", "program", "erase", "readJedecId", "reset"}

(* The stages of an operation.                                             *)
InStage(op) ==
  \/ op \in Loops /\ stage \in {"begin", "look", "start", "started", "spin", "judge", "delay"}
  \/ op = "settle" /\ stage \in {"begin", "delay"}
  \/ op = "read" /\ stage \in {"begin", "start", "started", "pend", "context", "wait", "delay"}
  \/ op = "program" /\ stage \in {"begin", "start", "started", "context", "wait", "delay"}
  \/ op = "erase" /\ stage \in {"begin", "start", "started", "context"}
  \/ op = "id" /\ stage \in {"begin", "start", "started", "wait", "delay"}
  \/ op \in {"wren", "reset"} /\ stage \in {"begin", "start", "started", "spin"}

(* Calls                                                                   *)
Contents == {"erased", "data", "torn"}

CallType ==
  [op : Operations, from : Nat, n : Nat, at : Nat, left : Nat, parts : {1, Parts},
   data : Contents \cup {"unread", "stray", "junk", "free", "busy"},
   before : [Sector -> Contents] \cup {<<>>}, inTime : BOOLEAN]

Commands == {"none", "status", "wren", "read", "program", "erase", "id", "reset"}

TypeInv ==
  /\ TypeOK
  /\ call \in CallType \cup {None}
  /\ context \in [read : BOOLEAN, mine : BOOLEAN]
  /\ bus \in [busy : BOOLEAN, left : Nat, rx : Contents \cup {"free", "busy", "junk"}]
  /\ hw \in [cmd : Commands, sent : Nat]
  /\ chip \in [wel : BOOLEAN, wip : Nat]
  /\ timeout \in Nat

CallInv ==
  /\ call # None =>
       /\ todo \in Rest(call.op) /\ InStage(Op)
       /\ result = NoResult
       /\ call.op \in {"read", "program"} => call.from \in Sector
       /\ call.op = "erase" =>
            /\ call.from + call.n <= Sectors
            /\ call.at >= call.from
            /\ call.left # 0 /\ call.at + call.left = call.from + call.n
  /\ call = None => stage = "idle" /\ hw = NoHw

(* The transfer on the bus is the operation's own, but for the command to  *)
(* erase, for which the next operation waits; the flag is set while there  *)
(* is one.                                                                 *)
Erasing ==
  /\ Op = "erased" /\ hw.cmd = "erase"
  /\ stage = "begin" \/ (stage \in {"look", "delay"} /\ timeout = MaxErase)

HwInv ==
  /\ bus.busy <=> hw.cmd # "none"
  /\ hw.cmd = "none" => hw.sent = 0
  /\ stage = "start" => pending \/ Op = "read"
  /\ hw.cmd # "none" =>
       /\ call # None
       /\ \/ stage \in {"started", "spin"} /\ hw.cmd = Command
          \/ stage \in {"pend", "context", "wait", "delay"} /\ hw.cmd = Op
          \/ Erasing
       /\ pending \/ (Op = "read" /\ stage \in {"started", "pend"})

SentInv ==
  /\ hw.sent + bus.left <= 2 * Parts
  /\ stage = "started" => hw.sent + bus.left <= Parts

(* Loops around isBusy                                                     *)
LoopInv ==
  call # None =>
    /\ stage = "delay" => timeout > 0 \/ Op = "settle"
    /\ stage = "judge" => ~pending
    /\ stage = "wait" /\ hw.cmd # "none" => timeout > 0
    /\ Op \in Loops /\ stage \in {"started", "spin", "judge"} /\ hw.cmd = "none" =>
         bus.rx \in {"busy", "free"} /\ (bus.rx = "free" => chip.wip = 0)

(* The chip is free and unlocked when it is told to program or to erase;   *)
(* the wait in writeEnable never runs out of time.                         *)
Armed == hw.cmd # "none" \/ stage \in {"begin", "start"}

WriteInv ==
  call # None =>
    /\ Op \in {"settle", "unlocked", "wren"} /\ call.op # "read" => chip.wip = 0
    /\ Op = "settle" /\ call.op # "read" => ~pending
    /\ Op = "unlocked" =>
         /\ stage # "delay"
         /\ stage # "begin" => timeout = MaxWait
         /\ stage \in {"begin", "look"} => ~pending
         /\ stage \in {"started", "spin", "judge"} /\ hw.cmd = "none" => bus.rx = "free"
    /\ Op = "wren" /\ stage \in {"started", "spin"} /\ hw.cmd = "none" => chip.wel
    /\ Op \in {"program", "erase"} /\ Armed => chip.wel /\ chip.wip = 0
    /\ Op = "erased" /\ hw.cmd = "erase" => chip.wel /\ chip.wip = 0

(* A chip that is ready in time for a read is ready when the read begins.  *)
InTimeInv ==
  call # None /\ call.op = "read" /\ call.inTime =>
    /\ Op = "read" => chip.wip = 0
    /\ Op = "settle" => chip.wip = 0 \/ (chip.wip = 1 /\ (fresh \/ stage = "delay"))

(* Transactions of more than two bytes, if no interrupt comes early        *)
Sending == hw.sent >= 1 /\ hw.sent + bus.left = call.parts

ReadInv ==
  call # None /\ ~early /\ Op = "read" =>
    /\ stage = "started" => hw.sent = 1
    /\ stage \in {"started", "pend", "context"} => hw.cmd = "read"
    /\ stage \in {"wait", "delay"} => context.mine
    /\ stage \in {"wait", "delay"} /\ hw.cmd = "read" => context.read
    /\ stage \in {"pend", "context", "wait", "delay"} /\ hw.cmd = "read" => Sending
    /\ stage \in {"wait", "delay"} /\ hw.cmd = "none" /\ call.inTime =>
         call.data = cells[call.from]

ProgramInv ==
  call # None /\ ~early /\ Op = "program" =>
    /\ stage = "started" => hw.sent = 1
    /\ stage \in {"started", "context"} => hw.cmd = "program"
    /\ stage \in {"context", "wait", "delay"} /\ hw.cmd = "program" => Sending
    /\ stage \in {"wait", "delay"} /\ hw.cmd = "none" => cells[call.from] = "data"

(* An erase has erased the sectors up to the block it is at, or with it.   *)
Erases(b) ==
  \A s \in Sector :
    cells[s] = IF s >= call.from /\ s < call.at + b THEN "erased" ELSE call.before[s]

BlockTaken == Op = "erased" \/ (Op = "erase" /\ stage \in {"started", "context"})

EraseInv ==
  call # None /\ call.op = "erase" =>
    /\ BlockTaken /\ hw.cmd # "erase" => Erases(Block(call.at, call.left))
    /\ ~(BlockTaken /\ hw.cmd # "erase") => Erases(0)
    /\ Op \in {"erase", "erased"} => chip.wip <= EraseTicks
    /\ Op = "erased" /\ stage # "begin" => chip.wip = 0 \/ chip.wip < timeout

(* The inductive invariant                                                 *)
SpiInv ==
  /\ TypeInv /\ CallInv /\ HwInv /\ SentInv /\ LoopInv /\ WriteInv /\ InTimeInv
  /\ ReadInv /\ ProgramInv /\ EraseInv
  /\ ReadIsRight /\ ProgramTook /\ EraseTook

----------------------------------------------------------------------------
(* The operations of a call                                                *)

(* The operations that a call can be at.                                   *)
OpsOf(op) ==
  CASE op = "read"        -> {"settle", "read"}
    [] op = "program"     -> {"ready", "settle", "unlocked", "wren", "program"}
    [] op = "erase"       -> {"ready", "settle", "unlocked", "wren", "erase", "erased"}
    [] op = "readJedecId" -> {"ready", "id"}
    [] op = "reset"       -> {"reset"}

LastOf(op) ==
  CASE op = "read"        -> "read"
    [] op = "program"     -> "program"
    [] op = "erase"       -> "erased"
    [] op = "readJedecId" -> "id"
    [] op = "reset"       -> "reset"

(* The operations behind the one at hand.                                  *)
Follows(op, this) ==
  CASE this = "ready"    -> IF op = "readJedecId" THEN {"id"} ELSE {"ready", "settle"}
    [] this = "settle"   -> IF op = "read" THEN {"read"} ELSE {"unlocked"}
    [] this = "unlocked" -> {"wren"}
    [] this = "wren"     -> {op}
    [] this = "erase"    -> {"erased"}

(* What is left of a call begins with one of its operations; the last one  *)
(* is left alone.                                                          *)
LEMMA RestIs ==
  ASSUME NEW op \in Operations, NEW t \in Rest(op)
  PROVE  /\ Head(t) \in OpsOf(op)
         /\ Len(t) > 1 <=> Head(t) # LastOf(op)
         /\ Len(t) > 1 =>
              Tail(t) \in Rest(op) /\ Head(Tail(t)) \in Follows(op, Head(t))
<1>1. CASE op = "read"
  <2>1. CASE t = <<"settle", "read">>
    <3>1. Head(t) = "settle" /\ Len(t) > 1 /\ Tail(t) = <<"read">> /\ Head(Tail(t)) = "read"
      BY <2>1
    <3> QED BY <1>1, <3>1 DEF Rest, OpsOf, LastOf, Follows
  <2>2. CASE t = <<"read">>
    <3>1. Head(t) = "read" /\ Len(t) = 1
      BY <2>2
    <3> QED BY <1>1, <3>1 DEF OpsOf, LastOf
  <2> QED BY <1>1, <2>1, <2>2 DEF Rest
<1>2. CASE op = "program"
  <2>1. CASE t = <<"ready", "settle", "unlocked", "wren", "program">>
    <3>1. Head(t) = "ready" /\ Len(t) > 1 /\ Tail(t) = <<"settle", "unlocked", "wren", "program">> /\ Head(Tail(t)) = "settle"
      BY <2>1
    <3> QED BY <1>2, <3>1 DEF Rest, OpsOf, LastOf, Follows, ProgramScript
  <2>2. CASE t = <<"settle", "unlocked", "wren", "program">>
    <3>1. Head(t) = "settle" /\ Len(t) > 1 /\ Tail(t) = <<"unlocked", "wren", "program">> /\ Head(Tail(t)) = "unlocked"
      BY <2>2
    <3> QED BY <1>2, <3>1 DEF Rest, OpsOf, LastOf, Follows, ProgramScript
  <2>3. CASE t = <<"unlocked", "wren", "program">>
    <3>1. Head(t) = "unlocked" /\ Len(t) > 1 /\ Tail(t) = <<"wren", "program">> /\ Head(Tail(t)) = "wren"
      BY <2>3
    <3> QED BY <1>2, <3>1 DEF Rest, OpsOf, LastOf, Follows, ProgramScript
  <2>4. CASE t = <<"wren", "program">>
    <3>1. Head(t) = "wren" /\ Len(t) > 1 /\ Tail(t) = <<"program">> /\ Head(Tail(t)) = "program"
      BY <2>4
    <3> QED BY <1>2, <3>1 DEF Rest, OpsOf, LastOf, Follows, ProgramScript
  <2>5. CASE t = <<"program">>
    <3>1. Head(t) = "program" /\ Len(t) = 1
      BY <2>5
    <3> QED BY <1>2, <3>1 DEF OpsOf, LastOf
  <2> QED BY <1>2, <2>1, <2>2, <2>3, <2>4, <2>5 DEF Rest, ProgramScript
<1>3. CASE op = "erase"
  <2>1. CASE t = <<"ready", "ready", "settle", "unlocked", "wren", "erase", "erased">>
    <3>1. Head(t) = "ready" /\ Len(t) > 1 /\ Tail(t) = <<"ready", "settle", "unlocked", "wren", "erase", "erased">> /\ Head(Tail(t)) = "ready"
      BY <2>1
    <3> QED BY <1>3, <3>1 DEF Rest, OpsOf, LastOf, Follows, EraseScript, BlockScript
  <2>2. CASE t = <<"ready", "settle", "unlocked", "wren", "erase", "erased">>
    <3>1. Head(t) = "ready" /\ Len(t) > 1 /\ Tail(t) = <<"settle", "unlocked", "wren", "erase", "erased">> /\ Head(Tail(t)) = "settle"
      BY <2>2
    <3> QED BY <1>3, <3>1 DEF Rest, OpsOf, LastOf, Follows, EraseScript, BlockScript
  <2>3. CASE t = <<"settle", "unlocked", "wren", "erase", "erased">>
    <3>1. Head(t) = "settle" /\ Len(t) > 1 /\ Tail(t) = <<"unlocked", "wren", "erase", "erased">> /\ Head(Tail(t)) = "unlocked"
      BY <2>3
    <3> QED BY <1>3, <3>1 DEF Rest, OpsOf, LastOf, Follows, EraseScript, BlockScript
  <2>4. CASE t = <<"unlocked", "wren", "erase", "erased">>
    <3>1. Head(t) = "unlocked" /\ Len(t) > 1 /\ Tail(t) = <<"wren", "erase", "erased">> /\ Head(Tail(t)) = "wren"
      BY <2>4
    <3> QED BY <1>3, <3>1 DEF Rest, OpsOf, LastOf, Follows, EraseScript, BlockScript
  <2>5. CASE t = <<"wren", "erase", "erased">>
    <3>1. Head(t) = "wren" /\ Len(t) > 1 /\ Tail(t) = <<"erase", "erased">> /\ Head(Tail(t)) = "erase"
      BY <2>5
    <3> QED BY <1>3, <3>1 DEF Rest, OpsOf, LastOf, Follows, EraseScript, BlockScript
  <2>6. CASE t = <<"erase", "erased">>
    <3>1. Head(t) = "erase" /\ Len(t) > 1 /\ Tail(t) = <<"erased">> /\ Head(Tail(t)) = "erased"
      BY <2>6
    <3> QED BY <1>3, <3>1 DEF Rest, OpsOf, LastOf, Follows, EraseScript, BlockScript
  <2>7. CASE t = <<"erased">>
    <3>1. Head(t) = "erased" /\ Len(t) = 1
      BY <2>7
    <3> QED BY <1>3, <3>1 DEF OpsOf, LastOf
  <2> QED BY <1>3, <2>1, <2>2, <2>3, <2>4, <2>5, <2>6, <2>7 DEF Rest, EraseScript, BlockScript
<1>4. CASE op = "readJedecId"
  <2>1. CASE t = <<"ready", "id">>
    <3>1. Head(t) = "ready" /\ Len(t) > 1 /\ Tail(t) = <<"id">> /\ Head(Tail(t)) = "id"
      BY <2>1
    <3> QED BY <1>4, <3>1 DEF Rest, OpsOf, LastOf, Follows
  <2>2. CASE t = <<"id">>
    <3>1. Head(t) = "id" /\ Len(t) = 1
      BY <2>2
    <3> QED BY <1>4, <3>1 DEF OpsOf, LastOf
  <2> QED BY <1>4, <2>1, <2>2 DEF Rest
<1>5. CASE op = "reset"
  <2>1. CASE t = <<"reset">>
    <3>1. Head(t) = "reset" /\ Len(t) = 1
      BY <2>1
    <3> QED BY <1>5, <3>1 DEF OpsOf, LastOf
  <2> QED BY <1>5, <2>1 DEF Rest
<1> QED BY <1>1, <1>2, <1>3, <1>4, <1>5 DEF Operations
(* The operation at hand is one of the call's.                             *)
LEMMA OpIs ==
  ASSUME TypeInv, CallInv, call # None
  PROVE  /\ call \in CallType /\ call.op \in Operations /\ InStage(Op)
         /\ Op \in {"ready", "settle", "unlocked", "wren", "read", "program", "erase",
                   "erased", "id", "reset"}
         /\ Op \in OpsOf(call.op)
         /\ Op = "read" <=> call.op = "read" /\ Op # "settle"
         /\ Op = "program" => call.op = "program"
         /\ Op \in {"erase", "erased"} => call.op = "erase"
         /\ Op = "wren" => call.op \in {"program", "erase"}
         /\ Op = "id" => call.op = "readJedecId"
         /\ Op = "reset" => call.op = "reset"
<1>1. call \in CallType /\ call.op \in Operations /\ Op \in OpsOf(call.op)
  BY RestIs DEF TypeInv, CallInv, CallType, Op
<1>2. InStage(Op)
  BY DEF CallInv
<1> QED BY <1>1, <1>2 DEF OpsOf, Operations

(* A step within an operation.                                             *)
LEMMA SameOp ==
  ASSUME todo' = todo
  PROVE  Op' = Op
BY DEF Op

(* An operation that is done is followed by the next one, by the first one *)
(* of the next block, or the call returns.                                 *)
Continues ==
  /\ Op # LastOf(call.op)
  /\ stage' = "begin" /\ call' = call /\ result' = result
  /\ todo' \in Rest(call.op) /\ Op' \in Follows(call.op, Op)

NextBlock ==
  /\ Op = "erased" /\ call.left > Block(call.at, call.left)
  /\ stage' = "begin" /\ result' = result
  /\ LET b == Block(call.at, call.left)
     IN  call' = [call EXCEPT !.at = call.at + b, !.left = call.left - b]
  /\ todo' = BlockScript /\ Op' = "ready"

Returns ==
  /\ Op = LastOf(call.op)
  /\ Op = "erased" => ~(call.left > Block(call.at, call.left))
  /\ Return("OK")

LEMMA DoneDoes ==
  ASSUME TypeInv, CallInv, call # None, Done
  PROVE  Continues \/ NextBlock \/ Returns
<1>1. call.op \in Operations /\ todo \in Rest(call.op) /\ Op = Head(todo)
  BY OpIs DEF CallInv, Op
<1>2. CASE Len(todo) > 1
  <2>1. todo' = Tail(todo) /\ stage' = "begin" /\ call' = call /\ result' = result
    BY <1>2 DEF Done
  <2> QED BY <1>1, <1>2, <2>1, RestIs DEF Continues, Op
<1>3. CASE ~(Len(todo) > 1) /\ Op = "erased" /\ call.left > Block(call.at, call.left)
  <2>1. Head(BlockScript) = "ready"
    BY DEF BlockScript
  <2> QED BY <1>3, <2>1 DEF Done, NextBlock, Op
<1>4. CASE ~(Len(todo) > 1) /\ ~(Op = "erased" /\ call.left > Block(call.at, call.left))
  <2>1. Op = LastOf(call.op)
    BY <1>1, <1>4, RestIs
  <2> QED BY <1>4, <2>1 DEF Done, Returns
<1> QED BY <1>2, <1>3, <1>4

LEMMA Positive ==
  /\ Sectors \in Nat \ {0} /\ Big \in Nat \ {0} /\ Parts \in Nat \ {0}
  /\ MaxWait \in Nat \ {0} /\ MaxProgram \in Nat \ {0} /\ MaxErase \in Nat \ {0}
  /\ EraseTicks \in Nat \ {0} /\ EraseTicks < MaxErase /\ ProgramTicks \in Nat \ {0}
BY SpiFlashAssumption

LEMMA LimitIs == Limit \in Nat \ {0} /\ Limit <= MaxErase + MaxProgram + MaxWait
BY SpiFlashAssumption DEF Limit

----------------------------------------------------------------------------
(* Every step keeps the invariant                                          *)

LEMMA BeginLoopKeeps ==
  ASSUME SpiInv, BeginLoop
  PROVE  SpiInv'
<1>1. /\ call # None /\ stage = "begin" /\ stage' = "look" /\ timeout' = Limit
      /\ Op \in Loops
      /\ call' = call /\ todo' = todo /\ result' = result /\ Op' = Op
      /\ pending' = pending /\ context' = context /\ bus' = bus /\ hw' = hw
      /\ chip' = chip /\ cells' = cells /\ fresh' = fresh /\ early' = early
  BY DEF BeginLoop, At, Goto, Op
<1>2. TypeInv'
  BY <1>1, LimitIs, Positive DEF SpiInv, TypeInv, TypeOK
<1>3. CallInv'
  BY <1>1 DEF SpiInv, CallInv, InStage, Loops
<1>4. HwInv'
  BY <1>1 DEF SpiInv, HwInv, Erasing, Command, Loops, Limit
<1>5. SentInv'
  BY <1>1 DEF SpiInv, SentInv
<1>6. LoopInv'
  BY <1>1 DEF SpiInv, LoopInv, Loops
<1>7. WriteInv'
  BY <1>1 DEF SpiInv, WriteInv, Armed, Loops, Limit
<1>8. InTimeInv'
  BY <1>1 DEF SpiInv, InTimeInv, Loops
<1>9. ReadInv' /\ ProgramInv'
  BY <1>1 DEF SpiInv, ReadInv, ProgramInv, Sending, Loops
<1>10. EraseInv'
  BY <1>1, Positive DEF SpiInv, EraseInv, Loops, BlockTaken, Erases, TypeInv, Limit
<1>11. ReadIsRight' /\ ProgramTook' /\ EraseTook'
  BY <1>1 DEF ReadIsRight, ProgramTook, EraseTook, OK
<1> QED BY <1>2, <1>3, <1>4, <1>5, <1>6, <1>7, <1>8, <1>9, <1>10, <1>11 DEF SpiInv

LEMMA BeginTransactionKeeps ==
  ASSUME SpiInv, BeginTransaction
  PROVE  SpiInv'
<1>1. /\ call # None /\ stage = "begin" /\ stage' = "start"
      /\ pending' = (pending \/ Op # "read")
      /\ Op \notin Loops \cup {"settle"}
      /\ call' = call /\ todo' = todo /\ result' = result /\ Op' = Op
      /\ timeout' = timeout /\ context' = context /\ bus' = bus /\ hw' = hw
      /\ chip' = chip /\ cells' = cells /\ fresh' = fresh /\ early' = early
  BY DEF BeginTransaction, At, Goto, Op
<1>2. TypeInv'
  BY <1>1 DEF SpiInv, TypeInv, TypeOK
<1>3. CallInv'
  BY <1>1 DEF SpiInv, CallInv, InStage, Loops
<1>4. HwInv'
  BY <1>1 DEF SpiInv, HwInv, Erasing, Command, Loops
<1>5. SentInv'
  BY <1>1 DEF SpiInv, SentInv
<1>6. LoopInv'
  BY <1>1 DEF SpiInv, LoopInv, Loops
<1>7. WriteInv'
  BY <1>1 DEF SpiInv, WriteInv, Armed, Loops
<1>8. InTimeInv'
  BY <1>1 DEF SpiInv, InTimeInv, Loops
<1>9. ReadInv' /\ ProgramInv'
  BY <1>1 DEF SpiInv, ReadInv, ProgramInv, Sending, Loops
<1>10. EraseInv'
  BY <1>1 DEF SpiInv, EraseInv, Loops, BlockTaken, Erases, TypeInv
<1>11. ReadIsRight' /\ ProgramTook' /\ EraseTook'
  BY <1>1 DEF ReadIsRight, ProgramTook, EraseTook, OK
<1> QED BY <1>2, <1>3, <1>4, <1>5, <1>6, <1>7, <1>8, <1>9, <1>10, <1>11 DEF SpiInv

LEMMA StartKeeps ==
  ASSUME SpiInv, Start
  PROVE  SpiInv'
<1>1. /\ call # None /\ stage = "start" /\ stage' = "started" /\ ~bus.busy
      /\ call' = call /\ todo' = todo /\ result' = result /\ Op' = Op
      /\ timeout' = timeout /\ pending' = pending /\ context' = context
      /\ chip' = chip /\ cells' = cells /\ fresh' = fresh /\ early' = early
  BY DEF Start, At, Goto, Op
<1>2. /\ Op \in {"ready", "unlocked", "wren", "read", "program", "erase", "erased", "id", "reset"}
      /\ Op \in {"erase", "erased"} => call.op = "erase"
      /\ hw.cmd = "none" /\ (pending \/ Op = "read")
  BY <1>1, OpIs DEF SpiInv, InStage, Loops, HwInv
<1>3. Command = IF Op \in Loops THEN "status" ELSE Op
  BY DEF Command
<1>4. /\ hw'.cmd = Command /\ hw'.sent = 1 /\ hw' \in [cmd : Commands, sent : Nat]
      /\ bus'.busy /\ bus'.left = bus.left /\ bus'.rx = bus.rx
      /\ bus' \in [busy : BOOLEAN, left : Nat, rx : Contents \cup {"free", "busy", "junk"}]
      /\ bus.left \in Nat
  <2>1. hw' = [cmd |-> Command, sent |-> 1] /\ bus' = [bus EXCEPT !.busy = TRUE]
    BY DEF Start
  <2>2. Command \in Commands
    <3>1. CASE Op \in Loops
      <4>1. Command = "status"
        BY <3>1, Zenon DEF Command
      <4> QED BY <4>1 DEF Commands
    <3>2. CASE Op \notin Loops
      <4>1. Command = Op
        BY <3>2, Zenon DEF Command
      <4> QED BY <1>2, <3>2, <4>1 DEF Commands, Loops
    <3> QED BY <3>1, <3>2
  <2>3. bus \in [busy : BOOLEAN, left : Nat, rx : Contents \cup {"free", "busy", "junk"}]
    BY DEF SpiInv, TypeInv
  <2> QED BY <2>1, <2>2, <2>3
<1>5. TypeInv'
  BY <1>1, <1>4, Positive DEF SpiInv, TypeInv, TypeOK
<1>6. CallInv'
  BY <1>1 DEF SpiInv, CallInv, InStage, Loops
<1>7. HwInv'
  BY <1>1, <1>2, <1>3, <1>4 DEF SpiInv, HwInv, Command, Loops
<1>8. SentInv'
  BY <1>1, <1>4, Positive DEF SpiInv, SentInv, TypeInv, TypeOK
<1>9. LoopInv' /\ InTimeInv'
  BY <1>1, <1>2, <1>3, <1>4 DEF SpiInv, LoopInv, InTimeInv, Loops
<1>10. WriteInv'
  BY <1>1, <1>2, <1>3, <1>4 DEF SpiInv, WriteInv, Armed, Loops
<1>11. ReadInv' /\ ProgramInv'
  BY <1>1, <1>2, <1>3, <1>4 DEF SpiInv, ReadInv, ProgramInv, Loops
<1>12. EraseInv'
  BY <1>1, <1>2, <1>3, <1>4 DEF SpiInv, EraseInv, BlockTaken, Erases, Loops
<1>13. ReadIsRight' /\ ProgramTook' /\ EraseTook'
  BY <1>1 DEF ReadIsRight, ProgramTook, EraseTook, OK
<1> QED BY <1>5, <1>6, <1>7, <1>8, <1>9, <1>10, <1>11, <1>12, <1>13 DEF SpiInv

LEMMA PendKeeps ==
  ASSUME SpiInv, Pend
  PROVE  SpiInv'
<1>1. /\ call # None /\ stage = "pend" /\ stage' = "context" /\ pending' = TRUE
      /\ call' = call /\ todo' = todo /\ result' = result /\ Op' = Op
      /\ timeout' = timeout /\ context' = context /\ bus' = bus /\ hw' = hw
      /\ chip' = chip /\ cells' = cells /\ fresh' = fresh /\ early' = early
  BY DEF Pend, At, Goto, Op
<1>2. Op = "read" /\ call.op = "read"
  BY <1>1, OpIs DEF SpiInv, InStage, Loops
<1>3. TypeInv' /\ CallInv' /\ HwInv' /\ SentInv'
  BY <1>1, <1>2 DEF SpiInv, TypeInv, TypeOK, CallInv, InStage, HwInv, Erasing, Command, SentInv, Loops
<1>4. LoopInv' /\ WriteInv' /\ InTimeInv' /\ EraseInv'
  BY <1>1, <1>2 DEF SpiInv, LoopInv, WriteInv, Armed, InTimeInv, EraseInv, Loops
<1>5. ReadInv' /\ ProgramInv'
  BY <1>1, <1>2 DEF SpiInv, ReadInv, ProgramInv, Sending, Loops
<1>6. ReadIsRight' /\ ProgramTook' /\ EraseTook'
  BY <1>1 DEF ReadIsRight, ProgramTook, EraseTook, OK
<1> QED BY <1>3, <1>4, <1>5, <1>6 DEF SpiInv
LEMMA StartedKeeps ==
  ASSUME SpiInv, Started
  PROVE  SpiInv'
<1>0. /\ call # None /\ stage = "started"
      /\ pending' = pending /\ context' = context /\ hw' = hw
      /\ chip' = chip /\ cells' = cells /\ fresh' = fresh /\ early' = early
  BY DEF Started, At
<1>2. /\ Op \in {"ready", "unlocked", "wren", "read", "program", "erase", "erased", "id", "reset"}
      /\ Op \in {"erase", "erased"} => call.op = "erase"
      /\ call.parts \in {1, Parts}
  BY <1>0, OpIs DEF SpiInv, InStage, Loops, CallType
<1>1. /\ call # None /\ stage = "started"
      /\ call' = call /\ todo' = todo /\ result' = result /\ Op' = Op
      /\ pending' = pending /\ context' = context /\ hw' = hw
      /\ chip' = chip /\ cells' = cells /\ fresh' = fresh /\ early' = early
  <2>1. todo' = todo /\ call' = call /\ result' = result
    BY <1>2 DEF Started, Goto, Loops
  <2> QED BY <1>0, <2>1, SameOp
<1>3. /\ Op \in Loops \cup {"wren", "reset"} => stage' = "spin"
      /\ Op = "read" => stage' = "pend"
      /\ Op \in {"program", "erase"} => stage' = "context"
      /\ Op = "id" => stage' = "wait"
      /\ timeout' = IF Op = "id" THEN MaxWait ELSE timeout
  BY <1>2 DEF Started, Goto, Loops
<1>4. /\ bus'.left = PartsOf - 1 /\ bus'.left \in Nat /\ bus'.left < Parts
      /\ Op \in {"read", "program"} => bus'.left = call.parts - 1
      /\ bus'.busy = bus.busy /\ bus'.rx = bus.rx
      /\ bus' \in [busy : BOOLEAN, left : Nat, rx : Contents \cup {"free", "busy", "junk"}]
  <2>1. bus' = [bus EXCEPT !.left = PartsOf - 1]
    BY DEF Started
  <2>2. /\ PartsOf \in Nat \ {0} /\ PartsOf <= Parts
        /\ Op \in {"read", "program"} => PartsOf = call.parts
    BY <1>2, Positive DEF PartsOf
  <2>3. bus \in [busy : BOOLEAN, left : Nat, rx : Contents \cup {"free", "busy", "junk"}]
    BY DEF SpiInv, TypeInv
  <2> QED BY <2>1, <2>2, <2>3, Positive
<1>5. stage' \in {"spin", "pend", "context", "wait"}
  BY <1>2, <1>3 DEF Loops
<1>6. TypeInv'
  BY <1>1, <1>3, <1>4, <1>5, Positive DEF SpiInv, TypeInv, TypeOK
<1>7. CallInv'
  BY <1>1, <1>2, <1>3 DEF SpiInv, CallInv, InStage, Loops
<1>8. HwInv'
  BY <1>1, <1>2, <1>3, <1>4 DEF SpiInv, HwInv, Erasing, Command, Loops
<1>9. SentInv'
  BY <1>1, <1>4, <1>5, Positive DEF SpiInv, SentInv, TypeInv, TypeOK
<1>10. LoopInv'
  BY <1>1, <1>2, <1>3, <1>4, Positive DEF SpiInv, LoopInv, Loops
<1>11. WriteInv'
  BY <1>1, <1>2, <1>3, <1>4 DEF SpiInv, WriteInv, Armed, Loops
<1>12. InTimeInv'
  BY <1>1, <1>2, <1>3 DEF SpiInv, InTimeInv, Loops
<1>13. ReadInv' /\ ProgramInv'
  BY <1>1, <1>2, <1>3, <1>4, Positive DEF SpiInv, ReadInv, ProgramInv, Sending, Loops
<1>14. EraseInv'
  BY <1>1, <1>2, <1>3 DEF SpiInv, EraseInv, BlockTaken, Erases, Loops
<1>15. ReadIsRight' /\ ProgramTook' /\ EraseTook'
  BY <1>1 DEF ReadIsRight, ProgramTook, EraseTook, OK
<1> QED BY <1>6, <1>7, <1>8, <1>9, <1>10, <1>11, <1>12, <1>13, <1>14, <1>15 DEF SpiInv

(* An operation that is done leaves the bus as it is.                      *)
LEMMA DoneKeeps ==
  ASSUME SpiInv, call # None, Done, TypeOK', context' \in [read : BOOLEAN, mine : BOOLEAN],
         pending' = pending, bus' = bus, hw' = hw, cells' = cells, early' = early,
         chip' \in [wel : BOOLEAN, wip : Nat], chip'.wel = chip.wel, chip'.wip <= chip.wip,
         hw.cmd = "none" \/ (Op = "erase" /\ stage = "context"),
         Op \in {"ready", "erased"} => chip.wip = 0 /\ ~pending,
         Op = "settle" /\ call.op = "read" /\ call.inTime => chip'.wip = 0,
         Op = "wren" => stage = "spin",
         Op = "erase" => stage = "context",
         Op \in {"read", "program"} => stage = "wait"
  PROVE  SpiInv'
<1>0. /\ call \in CallType
      /\ Op \in {"ready", "settle", "unlocked", "wren", "read", "program", "erase",
                   "erased", "id", "reset"}
      /\ Op \in {"erase", "erased"} => call.op = "erase"
      /\ Op = "program" => call.op = "program"
      /\ Op = "read" <=> call.op = "read" /\ Op # "settle"
      /\ call.op \in Operations
      /\ chip.wip \in Nat /\ chip'.wip \in Nat /\ timeout' \in Nat
  <2>1. chip.wip \in Nat /\ chip'.wip \in Nat
    BY DEF SpiInv, TypeInv
  <2>2. timeout' \in Nat
    BY Positive DEF TypeOK
  <2> QED BY <2>1, <2>2, OpIs DEF SpiInv
<1>1. CASE Continues
  <2>1. /\ call' = call /\ result' = result /\ stage' = "begin" /\ todo' \in Rest(call.op)
        /\ Op' \in Follows(call.op, Op) /\ Op # LastOf(call.op)
    BY <1>1 DEF Continues
  <2>12. Op \in {"ready", "settle", "unlocked", "wren", "erase"}
    BY <1>0, <2>1, OpIs DEF LastOf, SpiInv
  <2>13. Op = "wren" => call.op \in {"program", "erase"}
    BY OpIs DEF SpiInv
  <2>2. /\ Op \in {"ready", "settle", "unlocked", "wren", "erase"}
        /\ Op = "ready" => Op' \in {"id", "ready", "settle"}
        /\ Op = "settle" => IF call.op = "read" THEN Op' = "read" ELSE Op' = "unlocked"
        /\ Op = "unlocked" => Op' = "wren"
        /\ Op = "wren" => Op' \in {"program", "erase"}
        /\ Op = "erase" => Op' = "erased"
    <3>1. CASE Op = "ready"
      BY <2>1, <3>1 DEF Follows
    <3>2. CASE Op = "settle"
      BY <2>1, <3>2 DEF Follows
    <3>3. CASE Op = "unlocked"
      BY <2>1, <3>3 DEF Follows
    <3>4. CASE Op = "wren"
      BY <2>1, <2>13, <3>4 DEF Follows
    <3>5. CASE Op = "erase"
      BY <2>1, <3>5 DEF Follows
    <3> QED BY <2>12, <3>1, <3>2, <3>3, <3>4, <3>5
  <2>3. TypeInv' /\ SentInv'
    BY <1>0, <2>1 DEF SpiInv, TypeInv, SentInv
  <2>4. CallInv'
    BY <1>0, <2>1, <2>2 DEF SpiInv, CallInv, InStage, Loops
  <2>5. HwInv'
    BY <1>0, <2>1, <2>2 DEF SpiInv, HwInv, Erasing
  <2>6. LoopInv'
    BY <2>1 DEF LoopInv
  <2>7. WriteInv'
    BY <1>0, <2>1, <2>2 DEF SpiInv, WriteInv, Armed, HwInv, Erasing, Command, Loops
  <2>8. InTimeInv'
    BY <1>0, <2>1, <2>2 DEF SpiInv, InTimeInv
  <2>9. ReadInv' /\ ProgramInv'
    BY <1>0, <2>1, <2>2 DEF ReadInv, ProgramInv
  <2>10. EraseInv'
    <3>1. CASE Op = "erase"
      <4>1. Op' = "erased" /\ stage = "context" /\ BlockTaken /\ BlockTaken' /\ call.op = "erase"
        BY <1>0, <2>1, <2>2, <3>1 DEF BlockTaken
      <4>2. /\ hw.cmd # "erase" => Erases(Block(call.at, call.left))
            /\ hw.cmd = "erase" => Erases(0)
            /\ chip.wip <= EraseTicks
        BY <3>1, <4>1 DEF SpiInv, EraseInv
      <4>3. chip'.wip <= EraseTicks
        BY <1>0, <4>2, Positive
      <4> QED BY <2>1, <4>1, <4>2, <4>3 DEF EraseInv, Erases
    <3>2. CASE Op # "erase"
      <4>1. Op' # "erased" /\ (Op' = "erase" => chip.wip = 0) /\ ~BlockTaken /\ ~BlockTaken'
        BY <1>0, <2>1, <2>2, <3>2 DEF SpiInv, BlockTaken, WriteInv
      <4> QED BY <1>0, <2>1, <2>2, <3>2, <4>1, Positive DEF SpiInv, EraseInv, Erases
    <3> QED BY <3>1, <3>2
  <2>11. ReadIsRight' /\ ProgramTook' /\ EraseTook'
    BY <2>1 DEF ReadIsRight, ProgramTook, EraseTook, OK
  <2> QED BY <2>3, <2>4, <2>5, <2>6, <2>7, <2>8, <2>9, <2>10, <2>11 DEF SpiInv
<1>2. CASE NextBlock
  <2>1. PICK b \in Nat \ {0} : b = Block(call.at, call.left) /\ b < call.left
    BY <1>0, <1>2, Positive DEF NextBlock, Block, CallType
  <2>2. /\ Op = "erased" /\ call.op = "erase"
        /\ result' = result /\ stage' = "begin" /\ todo' = BlockScript
        /\ Op' = "ready"
        /\ call' = [call EXCEPT !.at = call.at + b, !.left = call.left - b]
    BY <1>0, <1>2, <2>1 DEF NextBlock
  <2>3. /\ call' \in CallType /\ call'.op = "erase" /\ call' # None
        /\ call'.from = call.from /\ call'.n = call.n /\ call'.before = call.before
        /\ call'.at = call.at + b /\ call'.left = call.left - b
    <3>1. call.left - b \in Nat /\ call.at + b \in Nat
      BY <1>0, <2>1 DEF CallType
    <3>2. /\ call' \in CallType /\ call'.op = "erase"
          /\ call'.from = call.from /\ call'.n = call.n /\ call'.before = call.before
          /\ call'.at = call.at + b /\ call'.left = call.left - b
      BY <1>0, <2>2, <3>1 DEF CallType
    <3> QED BY <3>2 DEF None
  <2>4. TypeInv' /\ SentInv'
    BY <1>0, <2>2, <2>3 DEF SpiInv, TypeInv, SentInv
  <2>5. CallInv'
    <3>1. BlockScript \in Rest("erase")
      BY DEF Rest
    <3> QED BY <1>0, <2>1, <2>2, <2>3, <3>1 DEF SpiInv, CallInv, InStage, Loops, CallType
  <2>6. HwInv' /\ LoopInv' /\ WriteInv' /\ InTimeInv' /\ ReadInv' /\ ProgramInv'
    BY <1>0, <2>2, <2>3 DEF SpiInv, HwInv, LoopInv, WriteInv, InTimeInv, ReadInv, ProgramInv
  <2>7. EraseInv'
    BY <1>0, <2>1, <2>2, <2>3 DEF SpiInv, EraseInv, BlockTaken, Erases, CallType
  <2>8. ReadIsRight' /\ ProgramTook' /\ EraseTook'
    BY <2>3 DEF ReadIsRight, ProgramTook, EraseTook, OK
  <2> QED BY <2>4, <2>5, <2>6, <2>7, <2>8 DEF SpiInv
<1>3. CASE Returns
  <2>1. /\ call' = None /\ stage' = "idle" /\ result'.call = call /\ hw = NoHw
        /\ Op \notin {"ready", "settle", "unlocked", "wren", "erase"}
    BY <1>0, <1>3 DEF Returns, Return, LastOf, Operations, SpiInv, TypeInv, NoHw, HwInv
  <2>2. TypeInv' /\ SentInv' /\ CallInv' /\ HwInv'
    BY <1>0, <2>1 DEF SpiInv, TypeInv, SentInv, CallInv, HwInv, NoHw
  <2>3. LoopInv' /\ WriteInv' /\ ReadInv' /\ ProgramInv' /\ EraseInv' /\ InTimeInv'
    BY <1>0, <2>1 DEF SpiInv, LoopInv, WriteInv, ReadInv, ProgramInv, EraseInv, InTimeInv
  <2>4. ReadIsRight'
    BY <1>0, <2>1 DEF SpiInv, ReadIsRight, OK, ReadInv, NoHw
  <2>5. ProgramTook'
    BY <1>0, <1>3, <2>1 DEF SpiInv, ProgramTook, OK, ProgramInv, NoHw, Returns, LastOf
  <2>6. EraseTook'
    <3> SUFFICES ASSUME call.op = "erase" PROVE EraseTook'
      BY <2>1 DEF EraseTook, OK
    <3>1. Op = "erased" /\ ~(call.left > Block(call.at, call.left))
      BY <1>3 DEF Returns, LastOf
    <3>2. PICK b \in Nat \ {0} : b = Block(call.at, call.left) /\ b <= call.left
      BY <1>0, Positive DEF Block, CallType, CallInv, SpiInv
    <3>3. b = call.left /\ Erases(b)
      BY <1>0, <2>1, <3>1, <3>2 DEF SpiInv, EraseInv, BlockTaken, NoHw, CallType
    <3> QED BY SMTT(30), <1>0, <2>1, <3>1, <3>3 DEF EraseTook, OK, Erases, Touched, SpiInv, CallInv, CallType, Sector
  <2> QED BY <2>2, <2>3, <2>4, <2>5, <2>6 DEF SpiInv
<1> QED BY <1>1, <1>2, <1>3, DoneDoes DEF SpiInv
(* A call that fails leaves nothing on the bus.                            *)
LEMMA FailedKeeps ==
  ASSUME SpiInv, call # None, Return("ERROR_TIMEOUT"),
         timeout' = timeout, pending' = pending, context' = context, bus' = bus, hw' = hw,
         chip' = chip, cells' = cells, fresh' = fresh, early' = early,
         hw.cmd = "none", Op \in {"ready", "erased", "read"}, Op = "erased" => chip.wip = 0
  PROVE  SpiInv'
<1>1. call' = None /\ stage' = "idle" /\ hw = NoHw /\ ~OK("read")' /\ ~OK("program")' /\ ~OK("erase")'
  BY DEF Return, OK, SpiInv, TypeInv, HwInv, NoHw
<1>2. TypeInv' /\ SentInv' /\ CallInv' /\ HwInv'
  BY <1>1 DEF SpiInv, TypeInv, TypeOK, SentInv, CallInv, HwInv, NoHw
<1>3. LoopInv' /\ WriteInv' /\ ReadInv' /\ ProgramInv' /\ EraseInv'
  BY <1>1 DEF LoopInv, WriteInv, ReadInv, ProgramInv, EraseInv
<1>4. InTimeInv'
  BY <1>1 DEF SpiInv, InTimeInv, ReadInv
<1> QED BY <1>1, <1>2, <1>3, <1>4 DEF SpiInv, ReadIsRight, ProgramTook, EraseTook

LEMMA SettleKeeps ==
  ASSUME SpiInv, Settle
  PROVE  SpiInv'
<1>1. /\ call # None /\ stage = "begin" /\ Op = "settle" /\ hw.cmd = "none"
      /\ timeout' = timeout /\ pending' = pending /\ context' = context /\ bus' = bus
      /\ hw' = hw /\ chip' = chip /\ cells' = cells /\ fresh' = fresh /\ early' = early
      /\ chip \in [wel : BOOLEAN, wip : Nat] /\ context \in [read : BOOLEAN, mine : BOOLEAN]
  BY DEF Settle, At, SpiInv, HwInv, Erasing, TypeInv
<1>2. call.op = "read" /\ call.inTime => chip.wip = 0 \/ fresh
  BY <1>1 DEF SpiInv, InTimeInv
<1>3. CASE fresh
  <2>1. stage' = "delay" /\ call' = call /\ todo' = todo /\ result' = result /\ Op' = Op
    BY <1>3 DEF Settle, Goto, Op
  <2>2. TypeInv' /\ CallInv' /\ HwInv' /\ SentInv'
    BY <1>1, <2>1 DEF SpiInv, TypeInv, TypeOK, CallInv, InStage, HwInv, SentInv, Loops
  <2>3. LoopInv' /\ WriteInv' /\ InTimeInv' /\ ReadInv' /\ ProgramInv' /\ EraseInv'
    BY <1>1, <2>1 DEF SpiInv, LoopInv, WriteInv, Armed, InTimeInv, ReadInv, ProgramInv, EraseInv,
       BlockTaken, Erases, Loops
  <2>4. ReadIsRight' /\ ProgramTook' /\ EraseTook'
    BY <1>1, <2>1 DEF ReadIsRight, ProgramTook, EraseTook, OK
  <2> QED BY <2>2, <2>3, <2>4 DEF SpiInv
<1>4. CASE ~fresh
  <2>1. Done /\ chip.wip \in Nat
    BY <1>1, <1>4 DEF Settle
  <2>2. TypeOK'
    <3>1. stage' \in {"begin", "idle"}
      BY <1>1, <2>1 DEF Done, Return
    <3> QED BY <1>1, <3>1 DEF SpiInv, TypeInv, TypeOK
  <2> QED BY <1>1, <1>2, <1>4, <2>1, <2>2, DoneKeeps
<1> QED BY <1>3, <1>4

LEMMA SpinKeeps ==
  ASSUME SpiInv, Spin
  PROVE  SpiInv'
<1>1. /\ call # None /\ stage = "spin" /\ ~pending
      /\ timeout' = timeout /\ pending' = pending /\ context' = context /\ bus' = bus
      /\ hw' = hw /\ chip' = chip /\ cells' = cells /\ fresh' = fresh /\ early' = early
      /\ chip \in [wel : BOOLEAN, wip : Nat] /\ context \in [read : BOOLEAN, mine : BOOLEAN]
  BY DEF Spin, At, SpiInv, TypeInv
<1>2. hw.cmd = "none" /\ Op \in Loops \cup {"wren", "reset"} /\ (Op = "wren" => call.op # "read")
  BY <1>1, OpIs DEF SpiInv, InStage, HwInv
<1>3. CASE Op \in Loops
  <2>1. stage' = "judge" /\ call' = call /\ todo' = todo /\ result' = result /\ Op' = Op
    BY <1>3 DEF Spin, Goto, Op
  <2>2. TypeInv' /\ CallInv' /\ HwInv' /\ SentInv'
    BY <1>1, <1>2, <1>3, <2>1 DEF SpiInv, TypeInv, TypeOK, CallInv, InStage, HwInv, SentInv, Loops
  <2>3. LoopInv' /\ WriteInv' /\ InTimeInv' /\ ReadInv' /\ ProgramInv' /\ EraseInv'
    BY <1>1, <1>2, <1>3, <2>1 DEF SpiInv, LoopInv, WriteInv, Armed, InTimeInv, ReadInv, ProgramInv,
       EraseInv, BlockTaken, Erases, Loops
  <2>4. ReadIsRight' /\ ProgramTook' /\ EraseTook'
    BY <1>1, <2>1 DEF ReadIsRight, ProgramTook, EraseTook, OK
  <2> QED BY <2>2, <2>3, <2>4 DEF SpiInv
<1>4. CASE Op \notin Loops
  <2>1. Done /\ chip.wip \in Nat /\ Op \in {"wren", "reset"}
    BY <1>1, <1>2, <1>4 DEF Spin
  <2>2. TypeOK'
    <3>1. stage' \in {"begin", "idle"}
      BY <1>1, <2>1 DEF Done, Return
    <3> QED BY <1>1, <3>1 DEF SpiInv, TypeInv, TypeOK
  <2> QED BY <1>1, <1>2, <2>1, <2>2, DoneKeeps
<1> QED BY <1>3, <1>4
(* The loops in writeEnable never run out of time; the others end the call.*)
LEMMA TimedOutKeeps ==
  ASSUME SpiInv, call # None, TimedOut, timeout = 0, stage \in {"look", "judge"},
         hw.cmd = "none", Op \in Loops,
         Op = "unlocked" => timeout = MaxWait,
         timeout' = timeout, pending' = pending, context' = context, bus' = bus, hw' = hw,
         chip' = chip, cells' = cells, fresh' = fresh, early' = early
  PROVE  SpiInv'
<1>1. Op \in {"ready", "erased"}
  BY Positive DEF Loops
<1>2. Return("ERROR_TIMEOUT")
  BY <1>1 DEF TimedOut
<1>3. Op = "erased" => chip.wip = 0
  BY OpIs DEF SpiInv, EraseInv, TypeInv
<1> QED BY <1>1, <1>2, <1>3, FailedKeeps

LEMMA LookKeeps ==
  ASSUME SpiInv, Look
  PROVE  SpiInv'
<1>1. /\ call # None /\ stage = "look" /\ Op \in Loops
      /\ timeout' = timeout /\ context' = context /\ bus' = bus /\ hw' = hw
      /\ chip' = chip /\ cells' = cells /\ fresh' = fresh /\ early' = early
  BY OpIs DEF Look, At, SpiInv, InStage
<1>2. hw.cmd # "none" => Erasing /\ pending /\ timeout = MaxErase
  BY <1>1 DEF SpiInv, HwInv, Erasing, Loops
<1>3. Op = "unlocked" => ~pending /\ timeout = MaxWait
  BY <1>1 DEF SpiInv, WriteInv
<1>4. CASE ~pending
  <2>1. /\ stage' = "start" /\ call' = call /\ todo' = todo /\ result' = result /\ Op' = Op
        /\ pending' = TRUE /\ hw.cmd = "none"
    BY <1>2, <1>4 DEF Look, Goto, Op
  <2>2. TypeInv' /\ CallInv' /\ HwInv' /\ SentInv'
    BY <1>1, <2>1 DEF SpiInv, TypeInv, TypeOK, CallInv, InStage, HwInv, SentInv, Loops
  <2>3. LoopInv' /\ WriteInv' /\ InTimeInv' /\ ReadInv' /\ ProgramInv' /\ EraseInv'
    BY <1>1, <2>1 DEF SpiInv, LoopInv, WriteInv, Armed, InTimeInv, ReadInv, ProgramInv,
       EraseInv, BlockTaken, Erases, Loops
  <2>4. ReadIsRight' /\ ProgramTook' /\ EraseTook'
    BY <1>1, <2>1 DEF ReadIsRight, ProgramTook, EraseTook, OK
  <2> QED BY <2>2, <2>3, <2>4 DEF SpiInv
<1>5. CASE pending /\ timeout # 0
  <2>1. /\ stage' = "delay" /\ call' = call /\ todo' = todo /\ result' = result /\ Op' = Op
        /\ pending' = pending /\ timeout > 0
    BY <1>5 DEF Look, Goto, Op, SpiInv, TypeInv
  <2>2. TypeInv' /\ CallInv' /\ HwInv' /\ SentInv'
    BY <1>1, <1>2, <1>5, <2>1 DEF SpiInv, TypeInv, TypeOK, CallInv, InStage, HwInv, SentInv, Loops, Erasing
  <2>3. LoopInv' /\ WriteInv' /\ InTimeInv' /\ ReadInv' /\ ProgramInv' /\ EraseInv'
    BY <1>1, <1>2, <1>3, <1>5, <2>1 DEF SpiInv, LoopInv, WriteInv, Armed, InTimeInv, ReadInv, ProgramInv,
       EraseInv, BlockTaken, Erases, Loops
  <2>4. ReadIsRight' /\ ProgramTook' /\ EraseTook'
    BY <1>1, <2>1 DEF ReadIsRight, ProgramTook, EraseTook, OK
  <2> QED BY <2>2, <2>3, <2>4 DEF SpiInv
<1>6. CASE pending /\ timeout = 0
  <2>1. TimedOut /\ pending' = pending /\ hw.cmd = "none"
    BY <1>2, <1>6, Positive DEF Look
  <2> QED BY <1>1, <1>3, <1>6, <2>1, TimedOutKeeps
<1> QED BY <1>4, <1>5, <1>6

LEMMA JudgeKeeps ==
  ASSUME SpiInv, Judge
  PROVE  SpiInv'
<1>1. /\ call # None /\ stage = "judge" /\ Op \in Loops
      /\ timeout' = timeout /\ pending' = pending /\ context' = context /\ bus' = bus
      /\ hw' = hw /\ chip' = chip /\ cells' = cells /\ fresh' = fresh /\ early' = early
      /\ chip \in [wel : BOOLEAN, wip : Nat] /\ context \in [read : BOOLEAN, mine : BOOLEAN]
  BY OpIs DEF Judge, At, SpiInv, InStage, TypeInv
<1>2. hw.cmd = "none" /\ ~pending
  BY <1>1 DEF SpiInv, HwInv, LoopInv, Erasing
<1>3. Op = "unlocked" => bus.rx = "free" /\ timeout = MaxWait
  BY <1>1, <1>2 DEF SpiInv, WriteInv
<1>4. CASE timeout = 0
  <2>1. TimedOut
    BY <1>4 DEF Judge
  <2> QED BY <1>1, <1>2, <1>3, <1>4, <2>1, TimedOutKeeps
<1>5. CASE timeout # 0 /\ bus.rx = "busy"
  <2>1. /\ stage' = "delay" /\ call' = call /\ todo' = todo /\ result' = result /\ Op' = Op
        /\ timeout > 0
    BY <1>5 DEF Judge, Goto, Op, SpiInv, TypeInv
  <2>2. TypeInv' /\ CallInv' /\ HwInv' /\ SentInv'
    BY <1>1, <1>2, <1>5, <2>1 DEF SpiInv, TypeInv, TypeOK, CallInv, InStage, HwInv, SentInv, Loops, Erasing
  <2>3. LoopInv' /\ WriteInv' /\ InTimeInv' /\ ReadInv' /\ ProgramInv' /\ EraseInv'
    BY <1>1, <1>2, <1>3, <1>5, <2>1 DEF SpiInv, LoopInv, WriteInv, Armed, InTimeInv, ReadInv, ProgramInv,
       EraseInv, BlockTaken, Erases, Loops
  <2>4. ReadIsRight' /\ ProgramTook' /\ EraseTook'
    BY <1>1, <2>1 DEF ReadIsRight, ProgramTook, EraseTook, OK
  <2> QED BY <2>2, <2>3, <2>4 DEF SpiInv
<1>6. CASE timeout # 0 /\ bus.rx # "busy"
  <2>1. Done /\ chip.wip = 0
    BY <1>1, <1>2, <1>6 DEF Judge, SpiInv, LoopInv
  <2>2. TypeOK'
    <3>1. stage' \in {"begin", "idle"}
      BY <1>1, <2>1 DEF Done, Return
    <3> QED BY <1>1, <3>1 DEF SpiInv, TypeInv, TypeOK
  <2> QED BY <1>1, <1>2, <2>1, <2>2, DoneKeeps DEF Loops
<1> QED BY <1>4, <1>5, <1>6

LEMMA FillContextKeeps ==
  ASSUME SpiInv, FillContext
  PROVE  SpiInv'
<1>1. /\ call # None /\ stage = "context" /\ Op \in {"read", "program", "erase"}
      /\ pending' = pending /\ bus' = bus
      /\ hw' = hw /\ chip' = chip /\ cells' = cells /\ early' = early
      /\ context' = [read |-> Op = "read", mine |-> TRUE]
      /\ chip \in [wel : BOOLEAN, wip : Nat]
  BY OpIs DEF FillContext, At, SpiInv, InStage, TypeInv, Loops
<1>2. context' \in [read : BOOLEAN, mine : BOOLEAN] /\ context'.mine /\ (context'.read <=> Op = "read")
  BY <1>1
<1>3. CASE Op = "erase"
  <2>1. Done /\ timeout' = timeout /\ fresh' = TRUE
    BY <1>3 DEF FillContext
  <2>2. TypeOK'
    <3>1. stage' \in {"begin", "idle"}
      BY <1>1, <2>1 DEF Done, Return
    <3> QED BY <1>1, <2>1, <3>1 DEF SpiInv, TypeInv, TypeOK
  <2> QED BY <1>1, <1>2, <1>3, <2>1, <2>2, DoneKeeps
<1>4. CASE Op # "erase"
  <2>1. /\ stage' = "wait" /\ call' = call /\ todo' = todo /\ result' = result /\ Op' = Op
        /\ timeout' = Limit /\ fresh' = fresh
    BY <1>4 DEF FillContext, Goto, Op
  <2>2. TypeInv'
    BY <1>1, <1>2, <2>1, LimitIs, Positive DEF SpiInv, TypeInv, TypeOK
  <2>3. CallInv' /\ HwInv' /\ SentInv'
    BY <1>1, <1>4, <2>1 DEF SpiInv, CallInv, InStage, HwInv, SentInv, Loops, Erasing
  <2>4. LoopInv' /\ WriteInv' /\ InTimeInv'
    BY <1>1, <1>4, <2>1, LimitIs DEF SpiInv, LoopInv, WriteInv, Armed, InTimeInv, Loops
  <2>5. ReadInv' /\ ProgramInv'
    BY <1>1, <1>2, <1>4, <2>1 DEF SpiInv, ReadInv, ProgramInv, Sending
  <2>6. EraseInv'
    BY <1>1, <1>4, <2>1 DEF SpiInv, EraseInv, BlockTaken, Erases
  <2>7. ReadIsRight' /\ ProgramTook' /\ EraseTook'
    BY <1>1, <2>1 DEF ReadIsRight, ProgramTook, EraseTook, OK
  <2> QED BY <2>2, <2>3, <2>4, <2>5, <2>6, <2>7 DEF SpiInv
<1> QED BY <1>3, <1>4
LEMMA WaitKeeps ==
  ASSUME SpiInv, Wait
  PROVE  SpiInv'
<1>1. /\ call # None /\ stage = "wait" /\ Op \in {"read", "program", "id"}
      /\ timeout' = timeout /\ pending' = pending /\ context' = context /\ bus' = bus
      /\ hw' = hw /\ chip' = chip /\ cells' = cells /\ early' = early
      /\ chip \in [wel : BOOLEAN, wip : Nat] /\ context \in [read : BOOLEAN, mine : BOOLEAN]
      /\ timeout \in Nat /\ fresh \in BOOLEAN
  BY OpIs DEF Wait, At, SpiInv, InStage, TypeInv, TypeOK, Loops
<1>2. CASE pending /\ timeout > 0
  <2>1. /\ stage' = "delay" /\ call' = call /\ todo' = todo /\ result' = result /\ Op' = Op
        /\ fresh' = fresh
    BY <1>2 DEF Wait, Goto, Op
  <2>2. TypeInv' /\ CallInv' /\ HwInv' /\ SentInv'
    BY <1>1, <1>2, <2>1 DEF SpiInv, TypeInv, TypeOK, CallInv, InStage, HwInv, SentInv, Loops, Erasing
  <2>3. LoopInv' /\ WriteInv' /\ InTimeInv'
    BY <1>1, <1>2, <2>1 DEF SpiInv, LoopInv, WriteInv, Armed, InTimeInv, Loops
  <2>4. ReadInv' /\ ProgramInv' /\ EraseInv'
    BY <1>1, <1>2, <2>1 DEF SpiInv, ReadInv, ProgramInv, Sending, EraseInv, BlockTaken, Erases
  <2>5. ReadIsRight' /\ ProgramTook' /\ EraseTook'
    BY <1>1, <2>1 DEF ReadIsRight, ProgramTook, EraseTook, OK
  <2> QED BY <2>2, <2>3, <2>4, <2>5 DEF SpiInv
<1>3. CASE ~(pending /\ timeout > 0)
  <2>1. hw.cmd = "none"
    BY <1>1, <1>3 DEF SpiInv, HwInv, LoopInv, Erasing
  <2>2. CASE Op = "read" /\ timeout = 0
    <3>1. Return("ERROR_TIMEOUT") /\ fresh' = fresh
      BY <1>1, <2>2 DEF Wait
    <3> QED BY <1>1, <2>1, <2>2, <3>1, FailedKeeps
  <2>3. CASE ~(Op = "read" /\ timeout = 0)
    <3>1. Done /\ fresh' = (fresh \/ Op # "id")
      BY <1>1, <1>3, <2>3 DEF Wait
    <3>2. TypeOK'
      <4>1. stage' \in {"begin", "idle"}
        BY <1>1, <3>1 DEF Done, Return
      <4> QED BY <1>1, <3>1, <4>1 DEF SpiInv, TypeInv, TypeOK
    <3> QED BY <1>1, <2>1, <3>1, <3>2, DoneKeeps
  <2> QED BY <2>2, <2>3
<1> QED BY <1>2, <1>3

LEMMA TickKeeps ==
  ASSUME SpiInv, Tick
  PROVE  SpiInv'
<1>1. /\ hw.cmd = "none"
      /\ pending' = pending /\ context' = context /\ bus' = bus
      /\ hw' = hw /\ cells' = cells /\ early' = early /\ fresh' = FALSE
      /\ chip \in [wel : BOOLEAN, wip : Nat] /\ context \in [read : BOOLEAN, mine : BOOLEAN]
      /\ timeout \in Nat
  BY DEF Tick, SpiInv, TypeInv
<1>2. /\ chip' \in [wel : BOOLEAN, wip : Nat] /\ chip'.wel = chip.wel
      /\ chip'.wip = IF chip.wip = 0 THEN 0 ELSE chip.wip - 1
      /\ chip'.wip <= EraseTicks + ProgramTicks
  <2>1. chip' = [chip EXCEPT !.wip = IF chip.wip = 0 THEN 0 ELSE chip.wip - 1]
    BY DEF Tick
  <2>2. (IF chip.wip = 0 THEN 0 ELSE chip.wip - 1) \in Nat
    BY <1>1
  <2>3. chip.wip <= EraseTicks + ProgramTicks
    BY DEF SpiInv, TypeInv, TypeOK
  <2> QED BY <1>1, <2>1, <2>2, <2>3, Positive
<1>3. /\ chip.wip \in Nat /\ chip'.wip \in Nat /\ chip'.wip <= chip.wip
      /\ chip.wip <= 1 => chip'.wip = 0
      /\ \A t \in Nat : chip.wip = 0 \/ chip.wip < t => chip'.wip = 0 \/ chip'.wip < t - 1
      /\ \A t \in Nat : chip.wip = 0 \/ chip.wip < t => chip'.wip = 0 \/ chip'.wip < t
  BY <1>1, <1>2
<1>7. fresh' \in BOOLEAN
  BY <1>1, Zenon
<1>4. CASE stage # "delay"
  <2>1. /\ stage' = stage /\ call' = call /\ todo' = todo /\ result' = result /\ timeout' = timeout
        /\ Op' = Op
    BY <1>4 DEF Tick, task, Op
  <2>2. TypeInv' /\ CallInv' /\ HwInv' /\ SentInv'
    <3>1. TypeOK'
      BY <1>1, <1>2, <1>7, <2>1 DEF SpiInv, TypeInv, TypeOK
    <3> QED BY <1>1, <1>2, <2>1, <3>1
        DEF SpiInv, TypeInv, CallInv, InStage, HwInv, SentInv, Loops, Erasing
  <2>3. LoopInv' /\ WriteInv'
    BY <1>1, <1>2, <1>3, <2>1 DEF SpiInv, LoopInv, WriteInv, Armed, Loops
  <2>4. InTimeInv'
    BY <1>1, <1>3, <1>4, <2>1 DEF SpiInv, InTimeInv
  <2>5. ReadInv' /\ ProgramInv'
    BY <1>1, <1>3, <2>1 DEF SpiInv, ReadInv, ProgramInv, Sending
  <2>6. EraseInv'
    BY <1>1, <1>3, <2>1, Positive DEF SpiInv, EraseInv, BlockTaken, Erases
  <2>7. ReadIsRight' /\ ProgramTook' /\ EraseTook'
    <3>1. ReadIsRight' /\ ProgramTook'
      BY <1>1, <2>1 DEF SpiInv, ReadIsRight, ProgramTook, OK
    <3>2. EraseTook'
      BY <1>1, <1>3, <2>1 DEF SpiInv, EraseTook, OK, Touched
    <3> QED BY <3>1, <3>2
  <2> QED BY <2>2, <2>3, <2>4, <2>5, <2>6, <2>7 DEF SpiInv
<1>5. CASE stage = "delay" /\ Op = "settle"
  <2>1. call # None /\ Done /\ timeout' = timeout
    BY <1>5 DEF Tick, SpiInv, CallInv
  <2>2. TypeOK'
    <3>1. stage' \in {"begin", "idle"}
      BY <1>5, <2>1 DEF Done, Return
    <3>2. chip'.wip <= EraseTicks + ProgramTicks
      BY <1>2
    <3> QED BY <1>1, <2>1, <3>1, <3>2 DEF SpiInv, TypeInv, TypeOK
  <2>3. call.op = "read" /\ call.inTime => chip'.wip = 0
    <3>1. call.op = "read" /\ call.inTime => chip.wip <= 1
      BY <1>1, <1>3, <1>5, <2>1 DEF SpiInv, InTimeInv
    <3> QED BY <1>3, <3>1
  <2> QED BY <1>1, <1>2, <1>3, <1>5, <2>1, <2>2, <2>3, DoneKeeps
<1>6. CASE stage = "delay" /\ Op # "settle"
  <2>1. /\ call # None /\ timeout' = timeout - 1 /\ call' = call /\ todo' = todo /\ result' = result
        /\ Op' = Op /\ stage' = IF Op \in Loops THEN "look" ELSE "wait"
    BY <1>6 DEF Tick, SpiInv, CallInv, Goto, Op
  <2>2. /\ timeout' \in Nat /\ timeout' <= timeout
        /\ Op \in Loops \cup {"read", "program", "id"} /\ Op # "unlocked"
    BY <1>1, <1>6, <2>1, OpIs DEF SpiInv, LoopInv, InStage, WriteInv
  <2>3. TypeInv'
    <3>1. stage' \in {"look", "wait"}
      BY <2>1
    <3>2. TypeOK'
      BY <1>1, <1>2, <1>7, <2>2, <3>1, Positive DEF SpiInv, TypeInv, TypeOK
    <3> QED BY <1>1, <1>2, <2>1, <2>2, <3>2 DEF SpiInv, TypeInv
  <2>4. CallInv' /\ HwInv' /\ SentInv'
    BY <1>1, <2>1, <2>2 DEF SpiInv, CallInv, InStage, HwInv, SentInv, Loops, Erasing
  <2>5. LoopInv' /\ WriteInv'
    BY <1>1, <1>2, <1>3, <2>1, <2>2 DEF SpiInv, LoopInv, WriteInv, Armed, Loops
  <2>6. InTimeInv'
    BY <1>1, <1>3, <1>6, <2>1, <2>2 DEF SpiInv, InTimeInv, Loops
  <2>7. ReadInv' /\ ProgramInv'
    BY <1>1, <1>3, <1>6, <2>1, <2>2 DEF SpiInv, ReadInv, ProgramInv, Sending, Loops
  <2>8. EraseInv'
    BY <1>1, <1>3, <1>6, <2>1, <2>2, Positive DEF SpiInv, EraseInv, BlockTaken, Erases, Loops
  <2>9. ReadIsRight' /\ ProgramTook' /\ EraseTook'
    BY <2>1 DEF ReadIsRight, ProgramTook, EraseTook, OK
  <2> QED BY <2>3, <2>4, <2>5, <2>6, <2>7, <2>8, <2>9 DEF SpiInv
<1> QED BY <1>4, <1>5, <1>6

LEMMA CallKeeps ==
  ASSUME SpiInv, NEW op \in Operations, NEW from \in Sector, NEW n \in Nat, NEW parts \in {1, Parts},
         Call(op, from, n, parts), op = "erase" => n # 0 /\ from + n <= Sectors
  PROVE  SpiInv'
<1>1. /\ call = None /\ hw.cmd = "none" /\ stage = "idle"
      /\ stage' = "begin" /\ result' = NoResult /\ todo' = Script(op)
      /\ early' = FALSE
      /\ timeout' = timeout /\ pending' = pending /\ bus' = bus
      /\ hw' = hw /\ chip' = chip /\ cells' = cells /\ fresh' = fresh
      /\ chip \in [wel : BOOLEAN, wip : Nat] /\ context \in [read : BOOLEAN, mine : BOOLEAN]
      /\ cells \in [Sector -> Contents] /\ chip.wip \in Nat
      /\ fresh \in BOOLEAN
  BY DEF Call, SpiInv, CallInv, NoHw, TypeInv, TypeOK, Contents
<1>2. /\ call' \in CallType /\ call' # None
      /\ call'.op = op /\ call'.from = from /\ call'.n = n /\ call'.at = from /\ call'.left = n
      /\ op = "erase" => call'.before = cells
      /\ call'.inTime => chip.wip = 0 \/ (chip.wip = 1 /\ fresh)
  <2>1. call' = [op |-> op, from |-> from, n |-> n, at |-> from, left |-> n, parts |-> parts,
                 data |-> "unread", before |-> IF op = "erase" THEN cells ELSE <<>>,
                 inTime |-> ReadyInTime]
    BY DEF Call
  <2>2. (IF op = "erase" THEN cells ELSE <<>>) \in [Sector -> Contents] \cup {<<>>}
    BY <1>1
  <2>3. from \in Nat
    BY Positive DEF Sector
  <2>4. ReadyInTime \in BOOLEAN /\ (ReadyInTime => chip.wip = 0 \/ (chip.wip = 1 /\ fresh))
    BY <1>1 DEF ReadyInTime
  <2> QED BY <2>1, <2>2, <2>3, <2>4 DEF CallType, None, Operations
<1>3. /\ todo' \in Rest(op)
      /\ Op' = IF op = "read" THEN "settle" ELSE IF op = "reset" THEN "reset" ELSE "ready"
  <2>1. CASE op = "read"
    BY <1>1, <2>1 DEF Script, Rest, Op
  <2>2. CASE op = "program"
    BY <1>1, <2>2 DEF Script, Rest, Op, ProgramScript
  <2>3. CASE op = "erase"
    BY <1>1, <2>3 DEF Script, Rest, Op, EraseScript
  <2>4. CASE op = "readJedecId"
    BY <1>1, <2>4 DEF Script, Rest, Op
  <2>5. CASE op = "reset"
    BY <1>1, <2>5 DEF Script, Rest, Op
  <2> QED BY <2>1, <2>2, <2>3, <2>4, <2>5 DEF Operations
<1>4. TypeInv'
  <2>1. context' \in [read : BOOLEAN, mine : BOOLEAN]
    BY <1>1 DEF Call
  <2> QED BY <1>1, <1>2, <2>1 DEF SpiInv, TypeInv, TypeOK
<1>5. CallInv'
  BY <1>1, <1>2, <1>3, Positive DEF CallInv, InStage, Loops, Sector
<1>6. HwInv' /\ SentInv' /\ LoopInv' /\ WriteInv'
  BY <1>1, <1>2, <1>3 DEF SpiInv, HwInv, Erasing, SentInv, LoopInv, WriteInv, Armed
<1>7. InTimeInv' /\ ReadInv' /\ ProgramInv'
  BY <1>1, <1>2, <1>3 DEF SpiInv, InTimeInv, ReadInv, ProgramInv
<1>8. EraseInv'
  <2>1. ~BlockTaken'
    BY <1>1, <1>3 DEF BlockTaken
  <2>2. op = "erase" => Erases(0)'
    BY <1>1, <1>2, Positive DEF Erases, Sector
  <2> QED BY <1>2, <1>3, <2>1, <2>2 DEF EraseInv
<1>9. ReadIsRight' /\ ProgramTook' /\ EraseTook'
  BY <1>2 DEF ReadIsRight, ProgramTook, EraseTook, OK
<1> QED BY <1>4, <1>5, <1>6, <1>7, <1>8, <1>9 DEF SpiInv
----------------------------------------------------------------------------
(* The interrupt                                                           *)

LEMMA DivMod ==
  ASSUME NEW s \in Nat, NEW b \in Nat \ {0}
  PROVE  \E p \in Nat, r \in 0 .. b - 1 : p = s \div b /\ s = b * p + r
<1>1. s \div b \in Nat
  OBVIOUS
<1>2. s % b \in 0 .. b - 1
  OBVIOUS
<1>3. s = b * (s \div b) + (s % b)
  OBVIOUS
<1> QED BY <1>1, <1>2, <1>3

(* The sectors of a block are those that begin with its address.           *)
LEMMA BlockIs ==
  ASSUME NEW at \in Nat, NEW left \in Nat \ {0}, NEW s \in Nat
  PROVE  /\ Block(at, left) \in Nat \ {0} /\ Block(at, left) <= left
         /\ s \div Block(at, left) = at \div Block(at, left)
              <=> at <= s /\ s < at + Block(at, left)
<1> DEFINE b == Block(at, left)
<1>1. b \in Nat \ {0} /\ b <= left /\ (b = 1 \/ at % b = 0)
  BY Positive DEF Block
<1> SUFFICES /\ b \in Nat \ {0} /\ b <= left
             /\ s \div b = at \div b <=> at <= s /\ s < at + b
  OBVIOUS
<1> HIDE DEF b
<1>2. CASE b = 1
  BY <1>1, <1>2
<1>3. CASE at % b = 0
  <2>1. PICK q \in Nat : q = at \div b /\ at = b * q
    BY <1>1, <1>3, Z3
  <2>2. PICK p \in Nat, r \in 0 .. b - 1 : p = s \div b /\ s = b * p + r
    <3> QED BY <1>1, DivMod
  <2>3. CASE p = q
    BY <1>1, <2>1, <2>2, <2>3
  <2>4. CASE p < q
    <3>1. b * p + b <= b * q
      BY <1>1, <2>4, Z3
    <3> QED BY <1>1, <2>1, <2>2, <2>4, <3>1
  <2>5. CASE p > q
    <3>1. b * q + b <= b * p
      BY <1>1, <2>5, Z3
    <3> QED BY <1>1, <2>1, <2>2, <2>5, <3>1
  <2> QED BY <2>1, <2>2, <2>3, <2>4, <2>5
<1> QED BY <1>1, <1>2, <1>3
(* A transfer that goes on.                                                *)
LEMMA PartSentKeeps ==
  ASSUME SpiInv, Isr, bus.left # 0
  PROVE  SpiInv'
<1>1. /\ call' = call /\ todo' = todo /\ result' = result /\ Op' = Op
      /\ stage' = stage /\ timeout' = timeout /\ pending' = pending /\ context' = context
      /\ chip' = chip /\ cells' = cells /\ fresh' = fresh
      /\ hw.cmd # "none" /\ bus.busy
      /\ early' = (early \/ (~AtWait /\ hw.cmd \in {"read", "program", "id"}))
  BY DEF Isr, Op
<1>2. early' \in BOOLEAN /\ (early => early') /\
      (~early' => AtWait \/ hw.cmd \notin {"read", "program", "id"})
  BY <1>1 DEF SpiInv, TypeInv, TypeOK
<1>3. /\ bus'.left = bus.left - 1 /\ bus'.left \in Nat /\ bus.left \in Nat
      /\ bus'.busy = bus.busy /\ bus'.rx = bus.rx
      /\ bus' \in [busy : BOOLEAN, left : Nat, rx : Contents \cup {"free", "busy", "junk"}]
      /\ hw'.sent = hw.sent + 1 /\ hw'.cmd = hw.cmd /\ hw.sent \in Nat
      /\ hw' \in [cmd : Commands, sent : Nat]
  <2>1. bus' = [bus EXCEPT !.left = bus.left - 1] /\ hw' = [hw EXCEPT !.sent = hw.sent + 1]
    BY DEF Isr
  <2>2. bus.left - 1 \in Nat
    BY DEF SpiInv, TypeInv
  <2> QED BY <2>1, <2>2 DEF SpiInv, TypeInv
<1>4. call # None
  BY <1>1 DEF SpiInv, HwInv
<1>5. TypeInv' /\ SentInv'
  BY <1>1, <1>2, <1>3, Positive DEF SpiInv, TypeInv, TypeOK, SentInv
<1>6. CallInv' /\ HwInv'
  BY <1>1, <1>3, <1>4 DEF SpiInv, CallInv, InStage, HwInv, Erasing, Command
<1>7. LoopInv' /\ WriteInv' /\ InTimeInv' /\ EraseInv'
  BY <1>1, <1>2, <1>3, <1>4 DEF SpiInv, LoopInv, WriteInv, Armed, InTimeInv, EraseInv, BlockTaken, Erases
<1>8. stage = "started" /\ ~early' => Op \notin {"read", "program"}
  BY <1>1, <1>2 DEF SpiInv, ReadInv, ProgramInv, AtWait, HwInv, Command, Erasing, Loops
<1>9. ReadInv' /\ ProgramInv'
  <2>1. Sending => Sending'
    BY <1>1, <1>3 DEF Sending
  <2>2. ReadInv'
    BY <1>1, <1>2, <1>3, <1>4, <1>8, <2>1 DEF SpiInv, ReadInv
  <2>3. ProgramInv'
    BY <1>1, <1>2, <1>3, <1>4, <1>8, <2>1 DEF SpiInv, ProgramInv
  <2> QED BY <2>2, <2>3
<1>10. ReadIsRight' /\ ProgramTook' /\ EraseTook'
  BY <1>1, <1>4 DEF ReadIsRight, ProgramTook, EraseTook, OK
<1> QED BY <1>5, <1>6, <1>7, <1>9, <1>10 DEF SpiInv

(* The end of a transfer: what the chip and the driver have of it.         *)
LEMMA TransferEnds ==
  ASSUME SpiInv, Isr, bus.left = 0
  PROVE  /\ hw' = NoHw /\ bus'.left = 0 /\ ~bus'.busy /\ bus'.rx = Reply
         /\ bus' \in [busy : BOOLEAN, left : Nat, rx : Contents \cup {"free", "busy", "junk"}]
         /\ todo' = todo /\ result' = result /\ Op' = Op /\ stage' = stage /\ timeout' = timeout
         /\ fresh' = fresh /\ pending' \in BOOLEAN /\ ~pending'
         /\ early' \in BOOLEAN /\ (early => early')
         /\ ~early' => AtWait \/ hw.cmd \notin {"read", "program", "id"}
         /\ context' \in [read : BOOLEAN, mine : BOOLEAN] /\ context'.mine = context.mine
         /\ call # None /\ call' # None /\ call' \in CallType
         /\ call' = [call EXCEPT !.data = call'.data]
         /\ call'.op = call.op /\ call'.from = call.from /\ call'.n = call.n /\ call'.at = call.at
         /\ call'.left = call.left /\ call'.parts = call.parts /\ call'.before = call.before
         /\ call'.inTime = call.inTime
         /\ context.read /\ context.mine => call'.data = Reply
         /\ Reply \in Contents \cup {"free", "busy", "junk"}
         /\ ChipTakes
<1>1. /\ hw' = NoHw /\ bus' = [busy |-> FALSE, left |-> 0, rx |-> Reply]
      /\ todo' = todo /\ result' = result /\ stage' = stage /\ timeout' = timeout /\ fresh' = fresh
      /\ hw.cmd # "none" /\ bus.busy
      /\ early' = (early \/ (~AtWait /\ hw.cmd \in {"read", "program", "id"}))
      /\ ChipTakes /\ Callback
  BY DEF Isr
<1>2. call # None /\ call \in CallType
  BY <1>1 DEF SpiInv, HwInv, TypeInv
<1>3. Reply \in Contents \cup {"free", "busy", "junk"}
  <2>1. CASE hw.cmd = "read" /\ Ready /\ Whole
    <3>1. Op = "read"
      BY <1>1, <2>1 DEF SpiInv, HwInv, Command, Erasing, Loops
    <3>2. call.from \in Sector
      BY <1>2, <3>1, OpIs DEF SpiInv, CallInv
    <3>3. Reply = cells[call.from]
      BY <2>1 DEF Reply
    <3> QED BY <3>2, <3>3 DEF SpiInv, TypeInv, TypeOK, Contents
  <2>2. CASE ~(hw.cmd = "read" /\ Ready /\ Whole)
    <3>1. Reply \in {"free", "busy", "junk"}
      BY <2>2 DEF Reply
    <3> QED BY <3>1
  <2> QED BY <2>1, <2>2
<1>4. /\ context' = [context EXCEPT !.read = FALSE] /\ pending' = FALSE
      /\ call' = IF ~context.read \/ call = None THEN call
                 ELSE [call EXCEPT !.data = IF context.mine THEN Reply ELSE "stray"]
  BY <1>1 DEF Callback
<1>5. context \in [read : BOOLEAN, mine : BOOLEAN] /\ context.mine \in BOOLEAN /\ context.read \in BOOLEAN
  BY DEF SpiInv, TypeInv
<1>6. /\ call' \in CallType /\ call' = [call EXCEPT !.data = call'.data]
      /\ context.read /\ context.mine => call'.data = Reply
  <2>1. CASE ~context.read
    BY <1>2, <1>4, <2>1 DEF CallType
  <2>2. CASE context.read
    <3>1. PICK d \in CallType : d = call
      BY <1>2
    <3>2. PICK x : x = IF context.mine THEN Reply ELSE "stray"
      OBVIOUS
    <3>3. call' = [d EXCEPT !.data = x]
      BY <1>2, <1>4, <2>2, <3>1, <3>2
    <3>4. x \in Contents \cup {"unread", "stray", "junk", "free", "busy"}
      BY <1>3, <1>5, <3>2
    <3> QED BY <1>2, <1>3, <3>1, <3>2, <3>3, <3>4 DEF CallType
  <2> QED BY <1>5, <2>1, <2>2
<1>7. /\ call'.op = call.op /\ call'.from = call.from /\ call'.n = call.n /\ call'.at = call.at
      /\ call'.left = call.left /\ call'.parts = call.parts /\ call'.before = call.before
      /\ call'.inTime = call.inTime /\ call' # None
  <2>1. PICK d \in CallType, e \in CallType : d = call /\ e = call' /\ e = [d EXCEPT !.data = e.data]
    BY <1>2, <1>6
  <2>2. /\ e.op = d.op /\ e.from = d.from /\ e.n = d.n /\ e.at = d.at
        /\ e.left = d.left /\ e.parts = d.parts /\ e.before = d.before
        /\ e.inTime = d.inTime
    BY <2>1 DEF CallType
  <2>3. call.op # None.op
    BY <1>2 DEF CallType, Operations, None
  <2> QED BY <2>1, <2>2, <2>3
<1>8. /\ bus'.left = 0 /\ ~bus'.busy /\ bus'.rx = Reply
      /\ bus' \in [busy : BOOLEAN, left : Nat, rx : Contents \cup {"free", "busy", "junk"}]
  BY <1>1, <1>3
<1>9. /\ early' \in BOOLEAN /\ (early => early')
      /\ ~early' => AtWait \/ hw.cmd \notin {"read", "program", "id"}
  BY <1>1 DEF SpiInv, TypeInv, TypeOK
<1>10. context' \in [read : BOOLEAN, mine : BOOLEAN] /\ context'.mine = context.mine
  BY <1>4, <1>5
<1>11. Op' = Op
  BY <1>1, SameOp
<1>12. pending' \in BOOLEAN /\ ~pending'
  BY <1>4, Zenon
<1> QED BY <1>1, <1>2, <1>3, <1>6, <1>7, <1>8, <1>9, <1>10, <1>11, <1>12
(* What the end of a transfer leaves in order whatever the command was.    *)
LEMMA EndCommon ==
  ASSUME SpiInv, Isr, bus.left = 0,
         chip' \in [wel : BOOLEAN, wip : Nat], chip'.wip <= EraseTicks + ProgramTicks,
         cells' \in [Sector -> {"erased", "data", "torn"}]
  PROVE  /\ TypeInv' /\ CallInv' /\ HwInv' /\ SentInv'
         /\ ReadIsRight' /\ ProgramTook' /\ EraseTook'
<1>1. hw'.cmd = "none" /\ hw'.sent = 0 /\ hw' \in [cmd : Commands, sent : Nat]
  BY TransferEnds DEF NoHw, Commands
<1>2. stage # "start" /\ stage # "idle"
  BY TransferEnds DEF SpiInv, CallInv, InStage, HwInv, Isr, Erasing, Loops
<1>3. TypeInv'
  BY <1>1, TransferEnds, Positive DEF SpiInv, TypeInv, TypeOK
<1>4. CallInv'
  BY TransferEnds DEF SpiInv, CallInv, InStage
<1>5. HwInv' /\ SentInv'
  BY <1>1, <1>2, TransferEnds, Positive DEF SpiInv, HwInv, SentInv
<1>6. ReadIsRight' /\ ProgramTook' /\ EraseTook'
  BY TransferEnds DEF SpiInv, CallInv, ReadIsRight, ProgramTook, EraseTook, OK, NoResult, None
<1> QED BY <1>3, <1>4, <1>5, <1>6

(* Commands of which the chip takes nothing.                               *)
LEMMA EndOfOther ==
  ASSUME SpiInv, Isr, bus.left = 0, hw.cmd \in {"status", "read", "id", "reset"}
  PROVE  SpiInv'
<1>1. chip' = chip /\ cells' = cells
  BY TransferEnds DEF ChipTakes
<1>2. hw'.cmd = "none"
  BY TransferEnds DEF NoHw
<1>3. \/ hw.cmd = "status" /\ Op \in Loops /\ stage \in {"started", "spin"}
      \/ hw.cmd # "status" /\ Op = hw.cmd /\ stage \notin {"begin", "start", "judge"}
  BY TransferEnds, OpIs DEF SpiInv, HwInv, Isr, Command, Erasing, Loops
<1>4. hw.cmd = "status" => bus'.rx = IF chip.wip = 0 THEN "free" ELSE "busy"
  BY TransferEnds DEF Reply, Ready
<1>5. hw.cmd = "status" =>
        bus'.rx \in {"busy", "free"} /\ (bus'.rx = "free" <=> chip.wip = 0)
  BY <1>4
<1>6. /\ TypeInv' /\ CallInv' /\ HwInv' /\ SentInv'
      /\ ReadIsRight' /\ ProgramTook' /\ EraseTook'
  BY <1>1, EndCommon DEF SpiInv, TypeInv, TypeOK
<1>7. LoopInv'
  BY <1>1, <1>2, <1>3, <1>5, TransferEnds DEF SpiInv, LoopInv, Loops
<1>8. WriteInv'
  <2>1. CASE Op \in Loops
    <3>1. Op = "unlocked" => chip.wip = 0 /\ timeout = MaxWait
      BY <1>3, <2>1, TransferEnds, OpIs DEF SpiInv, WriteInv
    <3> QED BY <1>1, <1>2, <1>3, <1>5, <2>1, <3>1, TransferEnds DEF WriteInv, Loops
  <2>2. CASE Op \notin Loops
    BY <1>2, <1>3, <2>2, TransferEnds DEF WriteInv, Loops
  <2> QED BY <2>1, <2>2
<1>9. InTimeInv'
  BY <1>1, <1>2, <1>3, TransferEnds DEF SpiInv, InTimeInv, Loops
<1>10. ReadInv'
  <2> SUFFICES ASSUME ~early', Op' = "read" PROVE ReadInv'
    BY DEF ReadInv
  <2>1. hw.cmd = "read" /\ stage = "delay" /\ Op = "read" /\ ~early
    BY <1>3, TransferEnds, OpIs DEF AtWait, Loops, InStage, SpiInv
  <2>2. /\ context.mine /\ context.read /\ hw.sent + bus.left = call.parts
        /\ hw.sent \in Nat /\ (call.inTime => chip.wip = 0)
    BY <2>1, TransferEnds, OpIs DEF SpiInv, ReadInv, InTimeInv, Sending, TypeInv
  <2>3. Whole /\ (call.inTime => Ready)
    BY <2>1, <2>2 DEF Ready, Whole, PartsOf
  <2>4. call.inTime => call'.data = cells[call.from]
    BY <2>1, <2>2, <2>3, TransferEnds DEF Reply
  <2> QED BY <1>1, <1>2, <2>1, <2>2, <2>4, TransferEnds DEF ReadInv
<1>11. ProgramInv'
  BY <1>3, TransferEnds DEF ProgramInv, Loops
<1>12. EraseInv'
  BY <1>1, <1>2, <1>3, TransferEnds, OpIs DEF SpiInv, EraseInv, BlockTaken, Erases, Loops
<1> QED BY <1>6, <1>7, <1>8, <1>9, <1>10, <1>11, <1>12 DEF SpiInv

LEMMA EndOfWriteEnable ==
  ASSUME SpiInv, Isr, bus.left = 0, hw.cmd = "wren"
  PROVE  SpiInv'
<1>1. Op = "wren" /\ stage \in {"started", "spin"} /\ chip.wip = 0
  <2>1. call # None /\ InStage(Op)
    BY TransferEnds, OpIs DEF SpiInv
  <2>2. Op = "wren" /\ stage \in {"started", "spin"}
    BY <2>1 DEF SpiInv, HwInv, Command, Erasing, Loops, InStage
  <2> QED BY <2>1, <2>2, OpIs DEF SpiInv, WriteInv
<1>2. chip' = [chip EXCEPT !.wel = TRUE] /\ cells' = cells
  BY <1>1, TransferEnds DEF ChipTakes, Ready
<1>3. chip' \in [wel : BOOLEAN, wip : Nat] /\ chip'.wel /\ chip'.wip = 0
  BY <1>1, <1>2 DEF SpiInv, TypeInv
<1>4. hw'.cmd = "none"
  BY TransferEnds DEF NoHw
<1>5. /\ TypeInv' /\ CallInv' /\ HwInv' /\ SentInv'
      /\ ReadIsRight' /\ ProgramTook' /\ EraseTook'
  BY <1>2, <1>3, EndCommon, Positive DEF SpiInv, TypeInv, TypeOK
<1>6. LoopInv' /\ WriteInv' /\ InTimeInv' /\ ReadInv' /\ ProgramInv'
  BY <1>1, <1>3, <1>4, TransferEnds
     DEF SpiInv, LoopInv, WriteInv, InTimeInv, ReadInv, ProgramInv, Loops
<1>7. EraseInv'
  BY <1>1, <1>2, <1>4, TransferEnds DEF SpiInv, EraseInv, BlockTaken, Erases
<1> QED BY <1>5, <1>6, <1>7 DEF SpiInv

LEMMA EndOfProgram ==
  ASSUME SpiInv, Isr, bus.left = 0, hw.cmd = "program"
  PROVE  SpiInv'
<1>1. /\ Op = "program" /\ call.op = "program" /\ call.from \in Sector
      /\ stage \in {"started", "context", "wait", "delay"}
      /\ chip.wip = 0 /\ chip.wel
  BY TransferEnds, OpIs DEF SpiInv, HwInv, Isr, Command, Erasing, Loops, WriteInv, Armed, InStage, CallInv
<1>2. PICK c : c = IF Whole THEN "data" ELSE "torn"
  OBVIOUS
<1>3. PICK t \in 1 .. ProgramTicks :
        /\ chip' = [wel |-> FALSE, wip |-> t]
        /\ cells' = [cells EXCEPT ![call.from] = c]
  BY <1>1, <1>2, TransferEnds DEF ChipTakes, Ready
<1>4. /\ chip' \in [wel : BOOLEAN, wip : Nat] /\ chip'.wip <= ProgramTicks
      /\ cells' \in [Sector -> {"erased", "data", "torn"}]
  BY <1>1, <1>2, <1>3, Positive DEF SpiInv, TypeInv, TypeOK
<1>5. hw'.cmd = "none"
  BY TransferEnds DEF NoHw
<1>6. /\ TypeInv' /\ CallInv' /\ HwInv' /\ SentInv'
      /\ ReadIsRight' /\ ProgramTook' /\ EraseTook'
  BY <1>4, EndCommon, Positive
<1>7. ~early' => stage = "delay" /\ ~early
  BY <1>1, TransferEnds DEF AtWait
<1>8. LoopInv' /\ WriteInv' /\ InTimeInv' /\ ReadInv' /\ EraseInv'
  <2>1. LoopInv'
    BY <1>1, <1>5, TransferEnds DEF SpiInv, LoopInv, Loops
  <2>2. WriteInv' /\ ReadInv' /\ EraseInv'
    BY <1>1, <1>5, TransferEnds DEF WriteInv, Armed, ReadInv, EraseInv
  <2>3. InTimeInv'
    BY <1>1, <1>4, <1>5, <1>7, TransferEnds DEF InTimeInv
  <2> QED BY <2>1, <2>2, <2>3
<1>9. ProgramInv'
  <2> SUFFICES ASSUME ~early' PROVE ProgramInv'
    BY DEF ProgramInv
  <2>1. hw.sent + bus.left = call.parts /\ hw.sent \in Nat
    BY <1>1, <1>7, TransferEnds DEF SpiInv, ProgramInv, Sending, TypeInv
  <2>2. Whole
    BY <1>1, <2>1 DEF Whole, PartsOf
  <2>3. cells'[call'.from] = "data"
    BY <1>1, <1>2, <1>3, <2>2, TransferEnds DEF SpiInv, TypeInv, TypeOK
  <2> QED BY <1>1, <1>5, <1>7, <2>3, TransferEnds DEF ProgramInv
<1> QED BY <1>6, <1>8, <1>9 DEF SpiInv

LEMMA EndOfErase ==
  ASSUME SpiInv, Isr, bus.left = 0, hw.cmd = "erase"
  PROVE  SpiInv'
<1>1. /\ \/ Op = "erase" /\ stage \in {"started", "context"}
         \/ Op = "erased" /\ stage = "begin"
         \/ Op = "erased" /\ stage \in {"look", "delay"} /\ timeout = MaxErase
      /\ chip.wip = 0 /\ chip.wel /\ call.op = "erase"
  BY TransferEnds, OpIs DEF SpiInv, HwInv, Isr, Command, Erasing, Loops, WriteInv, Armed, InStage
<1>2. PICK t \in 1 .. EraseTicks : chip' = [wel |-> FALSE, wip |-> t]
  BY <1>1, TransferEnds DEF ChipTakes, Ready
<1>3. cells' = [x \in Sector |-> IF x \div Erased = call.at \div Erased THEN "erased" ELSE cells[x]]
  BY <1>1, TransferEnds DEF ChipTakes, Ready
<1>4. /\ call.at \in Nat /\ call.left \in Nat \ {0} /\ call.from \in Nat /\ call.n \in Nat
      /\ call.at >= call.from /\ call.from + call.n <= Sectors /\ call.at + call.left = call.from + call.n
  BY <1>1, TransferEnds DEF SpiInv, CallInv, TypeInv, CallType
<1>5. PICK b : b = Block(call.at, call.left)
  OBVIOUS
<1>6. /\ b \in Nat \ {0} /\ b <= call.left
      /\ \A x \in Nat : x \div b = call.at \div b <=> call.at <= x /\ x < call.at + b
  <2>1. ASSUME NEW x \in Nat
        PROVE  /\ b \in Nat \ {0} /\ b <= call.left
               /\ x \div b = call.at \div b <=> call.at <= x /\ x < call.at + b
    BY <1>4, <1>5, BlockIs
  <2>2. b \in Nat \ {0} /\ b <= call.left
    <3>1. 0 \in Nat
      OBVIOUS
    <3> QED BY <2>1, <3>1
  <2> QED BY <2>1, <2>2
<1>7. \A x \in Sector : cells'[x] = IF call.at <= x /\ x < call.at + b THEN "erased" ELSE cells[x]
  BY <1>3, <1>5, <1>6, Positive DEF Erased, Sector
<1>8. /\ chip' \in [wel : BOOLEAN, wip : Nat] /\ chip'.wip \in 1 .. EraseTicks
      /\ cells' \in [Sector -> {"erased", "data", "torn"}]
  <2>1. chip' \in [wel : BOOLEAN, wip : Nat] /\ chip'.wip \in 1 .. EraseTicks
    BY <1>2, Positive
  <2>2. \A x \in Sector : (IF x \div Erased = call.at \div Erased THEN "erased" ELSE cells[x])
                            \in {"erased", "data", "torn"}
    BY DEF SpiInv, TypeInv, TypeOK
  <2> QED BY <1>3, <2>1, <2>2
<1>9. hw'.cmd = "none"
  BY TransferEnds DEF NoHw
<1>10. /\ TypeInv' /\ CallInv' /\ HwInv' /\ SentInv'
       /\ ReadIsRight' /\ ProgramTook' /\ EraseTook'
  BY <1>8, EndCommon, Positive
<1>11. LoopInv' /\ WriteInv' /\ InTimeInv' /\ ReadInv' /\ ProgramInv'
  BY <1>1, <1>8, <1>9, TransferEnds
     DEF SpiInv, LoopInv, WriteInv, Armed, InTimeInv, ReadInv, ProgramInv, Loops
<1>12. EraseInv'
  <2>1. Erases(0) /\ BlockTaken'
    BY <1>1, TransferEnds DEF SpiInv, EraseInv, BlockTaken
  <2>2. \A x \in Sector :
          cells'[x] = IF x >= call.from /\ x < call.at + b THEN "erased" ELSE call.before[x]
    <3> SUFFICES ASSUME NEW x \in Sector
                 PROVE  cells'[x] = IF x >= call.from /\ x < call.at + b THEN "erased"
                                    ELSE call.before[x]
      OBVIOUS
    <3>1. cells[x] = IF x >= call.from /\ x < call.at THEN "erased" ELSE call.before[x]
      BY <1>4, <2>1 DEF Erases
    <3>2. x \in Nat
      BY Positive DEF Sector
    <3>3. b \in Nat
      BY <1>6
    <3>4. cells'[x] = IF call.at <= x /\ x < call.at + b THEN "erased" ELSE cells[x]
      BY <1>7
    <3>5. call.at \in Nat /\ call.from \in Nat /\ call.at >= call.from
      BY <1>4
    <3>6. CASE call.at <= x
      BY <3>1, <3>2, <3>3, <3>4, <3>5, <3>6
    <3>7. CASE ~(call.at <= x)
      <4>1. cells'[x] = cells[x]
        BY <3>4, <3>7
      <4> QED BY <3>1, <3>2, <3>3, <3>5, <3>7, <4>1
    <3> QED BY <3>6, <3>7
  <2>3. Erases(Block(call.at, call.left))'
    BY <1>5, <2>2, TransferEnds DEF Erases
  <2>4. Op' = "erased" /\ stage' # "begin" => chip'.wip < timeout'
    BY <1>1, <1>8, TransferEnds, Positive
  <2> QED BY <1>1, <1>8, <1>9, <2>1, <2>3, <2>4, TransferEnds, Positive DEF EraseInv
<1> QED BY <1>10, <1>11, <1>12 DEF SpiInv

LEMMA IsrKeeps ==
  ASSUME SpiInv, Isr
  PROVE  SpiInv'
<1>1. CASE bus.left # 0
  BY <1>1, PartSentKeeps
<1>2. CASE bus.left = 0
  <2>1. hw.cmd \in Commands /\ hw.cmd # "none"
    BY DEF SpiInv, TypeInv, Isr
  <2> QED BY <1>2, <2>1, EndOfOther, EndOfWriteEnable, EndOfProgram, EndOfErase DEF Commands
<1> QED BY <1>1, <1>2

----------------------------------------------------------------------------
(* The theorems                                                            *)

LEMMA CallerKeeps ==
  ASSUME SpiInv, Caller
  PROVE  SpiInv'
<1>1. 0 \in Sector /\ 0 \in Nat /\ 1 \in Nat
  BY Positive DEF Sector
<1>2. ASSUME NEW a \in Sector, NEW p \in {1, Parts}, Call("read", a, 1, p)
      PROVE  SpiInv'
  BY <1>1, <1>2, CallKeeps DEF Operations
<1>3. ASSUME NEW a \in Sector, Call("program", a, 1, Parts)
      PROVE  SpiInv'
  BY <1>1, <1>3, CallKeeps DEF Operations
<1>4. ASSUME NEW a \in Sector, NEW n \in 1 .. Sectors - a, Call("erase", a, n, 1)
      PROVE  SpiInv'
  <2>1. n \in Nat /\ n # 0 /\ a + n <= Sectors
    BY Positive DEF Sector
  <2> QED BY <1>4, <2>1, CallKeeps DEF Operations
<1>5. ASSUME NEW op \in {"reset", "readJedecId"}, Call(op, 0, 0, 1)
      PROVE  SpiInv'
  BY <1>1, <1>5, CallKeeps DEF Operations
<1> QED BY <1>2, <1>3, <1>4, <1>5 DEF Caller

(* The inductive invariant of the driver: the transfer on the bus is the   *)
(* operation's own, the chip is free and unlocked when it is told to       *)
(* program or erase (spi_flash.cpp).                                       *)
THEOREM SpiInvariant == Spec => []SpiInv
<1>1. Init => SpiInv
  <2> SUFFICES ASSUME Init PROVE SpiInv
    OBVIOUS
  <2>1. /\ call = None /\ stage = "idle" /\ timeout = 0 /\ pending = FALSE /\ hw = NoHw
        /\ context = [read |-> FALSE, mine |-> FALSE]
        /\ bus = [busy |-> FALSE, left |-> 0, rx |-> "junk"]
        /\ chip = [wel |-> FALSE, wip |-> 0] /\ cells \in [Sector -> {"erased", "data"}]
        /\ fresh = FALSE /\ early = FALSE /\ result = NoResult
    BY DEF Init
  <2>2. TypeInv
    <3>1. pending \in BOOLEAN /\ fresh \in BOOLEAN /\ early \in BOOLEAN
      BY <2>1, Zenon
    <3>2. /\ chip \in [wel : BOOLEAN, wip : Nat] /\ chip.wip <= EraseTicks + ProgramTicks
          /\ hw \in [cmd : Commands, sent : Nat] /\ hw.sent <= 2 * Parts
          /\ bus \in [busy : BOOLEAN, left : Nat, rx : Contents \cup {"free", "busy", "junk"}]
          /\ bus.left < Parts
      BY <2>1, Positive DEF NoHw, Commands
    <3>3. context \in [read : BOOLEAN, mine : BOOLEAN]
      BY <2>1
    <3> QED BY <2>1, <3>1, <3>2, <3>3, Positive DEF TypeInv, TypeOK
  <2>3. CallInv /\ HwInv /\ SentInv /\ LoopInv /\ WriteInv
    BY <2>1, Positive DEF CallInv, HwInv, SentInv, LoopInv, WriteInv, NoHw
  <2>4. InTimeInv /\ ReadInv /\ ProgramInv /\ EraseInv
    BY <2>1 DEF InTimeInv, ReadInv, ProgramInv, EraseInv
  <2>5. ReadIsRight /\ ProgramTook /\ EraseTook
    BY <2>1 DEF ReadIsRight, ProgramTook, EraseTook, OK, NoResult, None
  <2> QED BY <2>2, <2>3, <2>4, <2>5 DEF SpiInv
<1>2. SpiInv /\ [Next]_vars => SpiInv'
  <2> SUFFICES ASSUME SpiInv, [Next]_vars PROVE SpiInv'
    OBVIOUS
  <2>1. CASE Caller
    BY <2>1, CallerKeeps
  <2>2. CASE Driver
    BY <2>2, BeginLoopKeeps, SettleKeeps, BeginTransactionKeeps, LookKeeps, JudgeKeeps, StartKeeps,
       StartedKeeps, PendKeeps, FillContextKeeps, SpinKeeps, WaitKeeps DEF Driver
  <2>3. CASE Isr
    BY <2>3, IsrKeeps
  <2>4. CASE Tick
    BY <2>4, TickKeeps
  <2>5. CASE UNCHANGED vars
    BY <2>5 DEF vars, task, SpiInv, TypeInv, TypeOK, CallInv, InStage, HwInv, Erasing, Command,
       SentInv, LoopInv, WriteInv, Armed, InTimeInv, ReadInv, Sending, ProgramInv, EraseInv,
       BlockTaken, Erases, ReadIsRight, ProgramTook, EraseTook, OK, Touched, Op
  <2> QED BY <2>1, <2>2, <2>3, <2>4, <2>5 DEF Next
<1> QED BY <1>1, <1>2, PTL DEF Spec

(* Every variable of the driver and of the chip keeps its type.            *)
THEOREM TypeCorrect == Spec => []TypeOK
<1>1. SpiInv => TypeOK
  BY DEF SpiInv, TypeInv
<1> QED BY <1>1, SpiInvariant, PTL

(* read() says OK only with what the chip holds, unless an interrupt came  *)
(* before the driver was ready for it or the chip is busy for longer than  *)
(* the tick that read() waits.                                             *)
THEOREM ReadsAreRight == Spec => []ReadIsRight
<1>1. SpiInv => ReadIsRight
  BY DEF SpiInv
<1> QED BY <1>1, SpiInvariant, PTL

(* program() says OK only when the chip took the whole page, however its   *)
(* wait ended.                                                             *)
THEOREM ProgramsTake == Spec => []ProgramTook
<1>1. SpiInv => ProgramTook
  BY DEF SpiInv
<1> QED BY <1>1, SpiInvariant, PTL

(* erase() says OK only when the chip has erased the range and no other    *)
(* sector and is ready, whenever the interrupts come.                      *)
THEOREM ErasesTake == Spec => []EraseTook
<1>1. SpiInv => EraseTook
  BY DEF SpiInv
<1> QED BY <1>1, SpiInvariant, PTL

(* No transfer is started while another is on the bus.                     *)
THEOREM TransfersStart == Spec => []NeverRefused
<1>1. SpiInv => NeverRefused
  BY DEF SpiInv, HwInv, Erasing, NeverRefused
<1> QED BY <1>1, SpiInvariant, PTL
=============================================================================
