--------------------------- MODULE SessionProofs ---------------------------
(***************************************************************************)
(* The device switches itself off in time and does not cut off a phone     *)
(* that it has just served, for every length of the longest timeout, every *)
(* number of records and every order of the tasks and the phone.           *)
(***************************************************************************)
EXTENDS Session, SequenceTheorems, TLAPS

(* The last news of the link is that it was lost.                          *)
Lost == flags.disconnect \/ keepalive = <<"DISCONNECTED">>

(* How the events of the SoftDevice that wait fit the link; a loss is      *)
(* reported before the next link is made.                                  *)
LinkInv ==
  /\ radio = "advertising" => events = <<>>
  /\ radio \in {"connected", "closing"} => events \in {<<>>, <<"CONNECTED">>}
  /\ sdh = "cold" => radio = "idle" /\ events = <<>> /\ ~handle
  /\ Lost => ~handle /\ radio = "advertising" /\ events = <<>>

(* The timeouts of this unit were looked at with these stamps.             *)
LoopInv ==
  /\ system_state = "INIT" => now = 0 /\ ~polled
  /\ context.active <=> system_state = "RECORDING"
  /\ polled /\ system_state = "BLE_OPERATION" => context.expired = Expired(stamps)

(* The request served last is in the queue, in the stamps, or before the   *)
(* end of the record.                                                      *)
HeardInv ==
  \/ heard = Never
  \/ keepalive # <<>> /\ Head(keepalive) # "DISCONNECTED"
  \/ heard <= stamps.activity
  \/ stamps.started /\ stamps.activity = Never /\ heard <= stamps.end
  \/ ~stamps.started

SessionInv ==
  /\ TypeOK /\ LinkInv /\ LoopInv /\ HeardInv
  /\ QuietSwitchesOff /\ LimitedOperation

LEMMA LaterBounds ==
  \A a, b \in Int : Later(a, b) \in Int /\ Later(a, b) >= a /\ Later(a, b) >= b
                  /\ Later(a, b) \in {a, b}
BY DEF Later

(* What a keep-alive message changes in the stamps.                        *)
LEMMA NotedStamps ==
  ASSUME TypeOK, NEW s \in [started : BOOLEAN, end : Past, activity : Past, disconnect : Past],
         NEW t, t = Noted(s, keepalive)
  PROVE  /\ t \in [started : BOOLEAN, end : Past, activity : Past, disconnect : Past]
         /\ t.started = s.started /\ t.end = s.end
         /\ keepalive = <<>> => t = s
         /\ keepalive # <<>> /\ Head(keepalive) = "DISCONNECTED"
              => t.activity = s.activity /\ t.disconnect = now
         /\ keepalive # <<>> /\ Head(keepalive) # "DISCONNECTED"
              => t.activity = now /\ t.disconnect = s.disconnect
<1>1. now \in Past
  BY DEF TypeOK, TimeOK, Past, Never
<1>2. CASE keepalive = <<>>
  BY <1>2 DEF Noted
<1>3. CASE keepalive # <<>> /\ Head(keepalive) = "DISCONNECTED"
  <2>1. t = [s EXCEPT !.disconnect = now]
    BY <1>3 DEF Noted, RecordsPerLaunchCounter
  <2> QED BY <1>1, <1>3, <2>1
<1>4. CASE keepalive # <<>> /\ Head(keepalive) # "DISCONNECTED"
  <2>1. t = [s EXCEPT !.activity = now]
    BY <1>4 DEF Noted
  <2> QED BY <1>1, <1>4, <2>1
<1> QED BY <1>2, <1>3, <1>4

(* The end of a pass, from stamps s that are older than now: the stamps    *)
(* keep their types, every message is taken, and a served request is no    *)
(* later than the stamps.                                                  *)
LEMMA PassEnds ==
  ASSUME TypeOK, NEW active \in BOOLEAN, NEW ble \in BOOLEAN,
         NEW s \in [started : BOOLEAN, end : Past, activity : Past, disconnect : Past],
         s.end # Never, s.activity <= told, s.disconnect <= told,
         ProcessTimeouts(active, ble, s)
  PROVE  /\ TimeOK' /\ StampsOK' /\ LinkOK'
         /\ keepalive' = <<>> /\ polled' = TRUE /\ context'.active = active
         /\ context' \in [active : BOOLEAN, ble : BOOLEAN, expired : SUBSET Reasons]
         /\ now' = now /\ heard' = heard /\ events' = events /\ radio' = radio
         /\ handle' = handle /\ sdh' = sdh /\ flags' = flags
         /\ told <= told'
         /\ stamps'.end = IF active THEN now ELSE s.end
         /\ stamps'.started = s.started
         /\ ~active => context'.expired = Expired(stamps')
         /\ active => context'.expired = {}
         /\ keepalive = <<>> => stamps'.activity = s.activity
         /\ keepalive # <<>> /\ Head(keepalive) = "DISCONNECTED" => stamps'.activity = s.activity
         /\ keepalive # <<>> /\ Head(keepalive) # "DISCONNECTED" => stamps'.activity = now
<1> DEFINE t == Noted(s, keepalive)
<1>1. /\ t \in [started : BOOLEAN, end : Past, activity : Past, disconnect : Past]
      /\ t.started = s.started /\ t.end = s.end
      /\ keepalive = <<>> => t = s
      /\ keepalive # <<>> /\ Head(keepalive) = "DISCONNECTED"
           => t.activity = s.activity /\ t.disconnect = now
      /\ keepalive # <<>> /\ Head(keepalive) # "DISCONNECTED"
           => t.activity = now /\ t.disconnect = s.disconnect
  BY NotedStamps
<1>2. /\ keepalive' = <<>> /\ polled' = TRUE
      /\ told' = IF keepalive = <<>> THEN told ELSE now
      /\ stamps' = IF active THEN [t EXCEPT !.end = now] ELSE t
      /\ context' = [active |-> active, ble |-> ble,
                     expired |-> IF active THEN {} ELSE Expired(t)]
      /\ now' = now /\ heard' = heard /\ events' = events /\ radio' = radio
      /\ handle' = handle /\ sdh' = sdh /\ flags' = flags /\ task' = task
  BY DEF ProcessTimeouts, link
<1> HIDE DEF t
<1>3. now \in Nat /\ now \in Past /\ Past' = Past /\ told \in Past /\ heard \in Past
  BY <1>2 DEF TypeOK, TimeOK, Past, Never
<1>4. /\ stamps' \in [started : BOOLEAN, end : Past, activity : Past, disconnect : Past]
      /\ stamps'.started = s.started /\ stamps'.end = IF active THEN now ELSE s.end
      /\ stamps'.activity = t.activity /\ stamps'.disconnect = t.disconnect
  BY <1>1, <1>2, <1>3
<1>5. told' \in Past /\ told <= told' /\ (keepalive # <<>> => told' = now)
  BY <1>2, <1>3 DEF Past, Never
<1>6. t.activity <= told' /\ t.disconnect <= told'
  <2>1. s.activity \in Int /\ s.disconnect \in Int /\ told \in Int /\ told' \in Int
    BY <1>3, <1>5 DEF Past, Never
  <2>2. CASE keepalive = <<>>
    BY <1>1, <1>5, <2>1, <2>2
  <2>3. CASE keepalive # <<>>
    BY <1>1, <1>3, <1>5, <2>1, <2>3
  <2> QED BY <2>2, <2>3
<1>7. TimeOK'
  BY <1>2, <1>3, <1>5 DEF TypeOK, TimeOK
<1>8. StampsOK'
  BY <1>3, <1>4, <1>6 DEF StampsOK, Never
<1>9. LinkOK'
  BY <1>2 DEF TypeOK, LinkOK
<1>10. Expired(t) \subseteq Reasons
  BY DEF Expired
<1>11. ~active => stamps' = t /\ Expired(stamps') = Expired(t)
  BY <1>2
<1> QED
  BY <1>1, <1>2, <1>4, <1>5, <1>7, <1>8, <1>9, <1>10, <1>11

(* A pass of the loop that goes on.  The time stamps s it starts with are  *)
(* those it had, or those of a new record.                                 *)
LEMMA PassKeeps ==
  ASSUME SessionInv, NEW active \in BOOLEAN, NEW ble \in BOOLEAN,
         NEW s \in [started : BOOLEAN, end : Past, activity : Past, disconnect : Past],
         s.end # Never, s.activity <= told, s.disconnect <= told,
         ProcessTimeouts(active, ble, s),
         system_state' = IF active THEN "RECORDING" ELSE "BLE_OPERATION",
         records' \in 0..MaxRecords,
         commands' \in Seq({"START", "STOP"}), Len(commands') <= BleDepth,
         ~active => \/ s.end = now \/ now = 0
                    \/ system_state = "BLE_OPERATION" /\ s.end = stamps.end,
         \/ s.activity = stamps.activity /\ s.started = stamps.started /\ s.end >= stamps.end
         \/ active /\ s.started /\ s.activity = Never
  PROVE  SessionInv'
<1>1. TypeOK
  BY DEF SessionInv
<1>2. /\ TimeOK' /\ StampsOK' /\ LinkOK'
      /\ keepalive' = <<>> /\ polled' = TRUE /\ context'.active = active
      /\ context' \in [active : BOOLEAN, ble : BOOLEAN, expired : SUBSET Reasons]
      /\ now' = now /\ heard' = heard /\ events' = events /\ radio' = radio
      /\ handle' = handle /\ sdh' = sdh /\ flags' = flags
      /\ told <= told'
      /\ stamps'.end = IF active THEN now ELSE s.end
      /\ stamps'.started = s.started
      /\ ~active => context'.expired = Expired(stamps')
      /\ keepalive = <<>> => stamps'.activity = s.activity
      /\ keepalive # <<>> /\ Head(keepalive) = "DISCONNECTED" => stamps'.activity = s.activity
      /\ keepalive # <<>> /\ Head(keepalive) # "DISCONNECTED" => stamps'.activity = now
  BY <1>1, PassEnds
<1>3. TypeOK'
  <2>1. StateOK'
    BY <1>2 DEF StateOK
  <2>2. QueuesOK'
    BY <1>1, <1>2 DEF TypeOK, QueuesOK
  <2> QED BY <1>2, <2>1, <2>2 DEF TypeOK
<1>4. LinkInv'
  BY <1>2 DEF SessionInv, LinkInv, Lost
<1>5. LoopInv'
  <2>1. Expired(stamps)' = Expired(stamps')
    BY <1>2 DEF Expired, Expires, LinkExpires
  <2> QED BY <1>2, <2>1 DEF LoopInv
<1>6. /\ now \in Nat /\ told \in Int /\ told' \in Int /\ told <= told' /\ heard \in Int
      /\ heard <= now
      /\ stamps.end \in Nat /\ stamps.activity \in Int
      /\ stamps'.end \in Nat /\ stamps'.activity \in Int
      /\ s.end \in Nat /\ s.end <= now /\ s.activity \in Int
  BY SMTT(30), <1>1, <1>2, <1>3 DEF TypeOK, TimeOK, StampsOK, Past, Never
<1>7. HeardInv'
  <2>1. CASE keepalive # <<>> /\ Head(keepalive) # "DISCONNECTED"
    BY <1>2, <1>6, <2>1 DEF HeardInv
  <2>2. CASE ~(keepalive # <<>> /\ Head(keepalive) # "DISCONNECTED")
    <3>1. stamps'.activity = s.activity
      BY <1>2, <2>2
    <3>2. CASE active /\ s.started /\ s.activity = Never
      BY <1>2, <1>6, <3>1, <3>2 DEF HeardInv
    <3>3. CASE s.activity = stamps.activity /\ s.started = stamps.started /\ s.end >= stamps.end
      <4>1. \/ heard = Never \/ heard <= stamps.activity \/ ~stamps.started
            \/ stamps.started /\ stamps.activity = Never /\ heard <= stamps.end
        BY <2>2 DEF SessionInv, HeardInv
      <4>2. stamps'.end >= stamps.end
        BY <1>2, <1>6, <3>3
      <4> QED BY <1>2, <1>6, <3>1, <3>3, <4>1, <4>2 DEF HeardInv
    <3> QED BY <3>2, <3>3
  <2> QED BY <2>1, <2>2
<1>8. QuietSwitchesOff' /\ LimitedOperation'
  <2>1. CASE active
    BY <2>1 DEF QuietSwitchesOff, LimitedOperation
  <2>2. PICK t : t = told'
    OBVIOUS
  <2>3. /\ MaxOperation \in Nat /\ t \in Int /\ told <= t
        /\ ~active => stamps'.end = s.end /\ now' = now
    BY <1>2, <1>6, <2>2, SessionAssumption DEF SessionAssumption
  <2>4. /\ Later(s.end, t) \in Int /\ Later(s.end, t) >= s.end /\ Later(s.end, t) >= t
        /\ Later(s.end, MaxOperation) \in Int /\ Later(s.end, MaxOperation) >= s.end
        /\ Later(s.end, told) \in {s.end, told}
    <3>1. s.end \in Int /\ t \in Int /\ told \in Int /\ MaxOperation \in Int
      BY <1>6, <2>3
    <3> QED BY <3>1, LaterBounds, Zenon
  <2>5. SUFFICES ASSUME ~active
                 PROVE  /\ now - Later(s.end, t) <= AfterRecord + 1
                        /\ now <= Later(s.end, MaxOperation) + 1
    BY <2>1, <2>2, <2>3 DEF QuietSwitchesOff, LimitedOperation, Later
  <2>6. CASE s.end = now \/ now = 0
    BY <1>6, <2>6, <2>4 DEF AfterRecord
  <2>7. CASE system_state = "BLE_OPERATION" /\ s.end = stamps.end
    <3>1. now - Later(s.end, told) <= AfterRecord + 1 /\ now <= Later(s.end, MaxOperation) + 1
      BY <2>7 DEF SessionInv, QuietSwitchesOff, LimitedOperation
    <3>2. Later(s.end, told) <= Later(s.end, t) /\ Later(s.end, told) \in Int
      BY <1>6, <2>3, <2>4
    <3> QED BY <1>6, <2>4, <3>1, <3>2 DEF AfterRecord
  <2> QED BY <2>6, <2>7, <2>5
<1> QED BY <1>3, <1>4, <1>5, <1>7, <1>8 DEF SessionInv

LEMMA StartRecordKeeps ==
  ASSUME SessionInv, StartRecord
  PROVE  SessionInv'
<1> DEFINE s == [stamps EXCEPT !.started = TRUE, !.activity = Never, !.disconnect = Never]
<1>1. stamps \in [started : BOOLEAN, end : Past, activity : Past, disconnect : Past]
      /\ stamps.end # Never /\ Never \in Past /\ Never <= told
  BY DEF SessionInv, TypeOK, TimeOK, StampsOK, Past, Never
<1>2. /\ s \in [started : BOOLEAN, end : Past, activity : Past, disconnect : Past]
      /\ s.started /\ s.end = stamps.end /\ s.activity = Never /\ s.disconnect = Never
  BY <1>1
<1>3. context \in [active : BOOLEAN, ble : BOOLEAN, expired : SUBSET Reasons]
  BY DEF SessionInv, TypeOK, StateOK
<1>4. (context.ble /\ ~Room) \in BOOLEAN
  BY <1>3
<1>5. commands' \in Seq({"START", "STOP"}) /\ Len(commands') <= BleDepth
  BY DEF StartRecord, SessionInv, TypeOK, QueuesOK, Room, BleDepth
<1>6. records' \in 0..MaxRecords /\ system_state' = "RECORDING"
  BY SessionAssumption DEF StartRecord, SessionInv, TypeOK, StateOK
<1>7. ProcessTimeouts(TRUE, context.ble /\ ~Room, s)
  BY DEF StartRecord
<1> HIDE DEF s
<1> QED BY <1>1, <1>2, <1>4, <1>5, <1>6, <1>7, PassKeeps

LEMMA EnterBleKeeps ==
  ASSUME SessionInv,
         NEW s \in [started : BOOLEAN, end : Past, activity : Past, disconnect : Past],
         \/ s = stamps /\ now = 0
         \/ s = [stamps EXCEPT !.end = now],
         EnterBle(s)
  PROVE  SessionInv'
<1>1. /\ stamps \in [started : BOOLEAN, end : Past, activity : Past, disconnect : Past]
      /\ stamps.activity <= told /\ stamps.disconnect <= told /\ stamps.end # Never
      /\ stamps.end \in Int /\ stamps.end <= now /\ now \in Int /\ now # Never
  BY DEF SessionInv, TypeOK, TimeOK, StampsOK, Past, Never
<1>2. /\ s.started = stamps.started /\ (s.end = now \/ now = 0)
      /\ s.activity = stamps.activity /\ s.disconnect = stamps.disconnect
      /\ s.end # Never /\ s.end >= stamps.end
  BY <1>1
<1>3. context \in [active : BOOLEAN, ble : BOOLEAN, expired : SUBSET Reasons]
  BY DEF SessionInv, TypeOK, StateOK
<1>4. (context.ble \/ Room) \in BOOLEAN
  BY <1>3
<1>5. commands' \in Seq({"START", "STOP"}) /\ Len(commands') <= BleDepth
  BY DEF EnterBle, SessionInv, TypeOK, QueuesOK, Room, BleDepth
<1>6. records' \in 0..MaxRecords /\ system_state' = "BLE_OPERATION"
  BY DEF EnterBle, SessionInv, TypeOK, StateOK
<1>7. ProcessTimeouts(FALSE, context.ble \/ Room, s)
  BY DEF EnterBle
<1> QED BY <1>1, <1>2, <1>4, <1>5, <1>6, <1>7, PassKeeps

LEMMA WaitKeeps ==
  ASSUME SessionInv, Wait, system_state \in {"RECORDING", "BLE_OPERATION"}
  PROVE  SessionInv'
<1>1. /\ stamps \in [started : BOOLEAN, end : Past, activity : Past, disconnect : Past]
      /\ stamps.activity <= told /\ stamps.disconnect <= told /\ stamps.end # Never
      /\ stamps.end >= stamps.end
  BY DEF SessionInv, TypeOK, TimeOK, StampsOK, Past, Never
<1>2. context.active \in BOOLEAN /\ context.ble \in BOOLEAN
  BY DEF SessionInv, TypeOK, StateOK
<1>3. system_state' = IF context.active THEN "RECORDING" ELSE "BLE_OPERATION"
  BY DEF Wait, SessionInv, LoopInv
<1>4. records' \in 0..MaxRecords /\ commands' \in Seq({"START", "STOP"}) /\ Len(commands') <= BleDepth
  BY DEF Wait, SessionInv, TypeOK, StateOK, QueuesOK
<1>5. ~context.active => system_state = "BLE_OPERATION"
  BY DEF SessionInv, LoopInv
<1>6. ProcessTimeouts(context.active, context.ble, stamps)
  BY DEF Wait
<1> QED BY <1>1, <1>2, <1>3, <1>4, <1>5, <1>6, PassKeeps

LEMMA StateTaskKeeps ==
  ASSUME SessionInv, StateTask
  PROVE  SessionInv'
<1>1. CASE PassInit
  <2>1. now = 0 /\ stamps \in [started : BOOLEAN, end : Past, activity : Past, disconnect : Past]
    BY <1>1 DEF PassInit, Pass, SessionInv, LoopInv, TypeOK, StampsOK
  <2> QED BY <1>1, <2>1, StartRecordKeeps, EnterBleKeeps DEF PassInit
<1>2. CASE PassRecording
  <2>1. [stamps EXCEPT !.end = now]
          \in [started : BOOLEAN, end : Past, activity : Past, disconnect : Past]
    BY DEF SessionInv, TypeOK, StampsOK, TimeOK, Past, Never
  <2> QED BY <1>2, <2>1, WaitKeeps, EnterBleKeeps DEF PassRecording, Pass
<1>3. CASE PassBle
  BY <1>3, WaitKeeps, StartRecordKeeps DEF PassBle, Pass
<1>4. CASE ShutDown
  <2>1. TypeOK'
    BY <1>4 DEF ShutDown, link, SessionInv, TypeOK, TimeOK, StampsOK, StateOK, QueuesOK, LinkOK, Past
  <2>2. LinkInv' /\ HeardInv'
    BY <1>4 DEF ShutDown, link, SessionInv, LinkInv, Lost, HeardInv
  <2>3. LoopInv' /\ QuietSwitchesOff' /\ LimitedOperation'
    BY <1>4 DEF ShutDown, Pass, SessionInv, LoopInv, QuietSwitchesOff, LimitedOperation
  <2> QED BY <2>1, <2>2, <2>3 DEF SessionInv
<1> QED BY <1>1, <1>2, <1>3, <1>4 DEF StateTask

LEMMA AppendToOne ==
  ASSUME NEW S, NEW x \in S, NEW y \in S
  PROVE  Append(<<x>>, y) = <<x, y>>
<1>1. <<x>> \in Seq(S) /\ <<x, y>> \in Seq(S)
  OBVIOUS
<1>2. Append(<<x>>, y) \in Seq(S) /\ Len(Append(<<x>>, y)) = 2
  BY <1>1
<1>3. \A i \in 1..2 : Append(<<x>>, y)[i] = <<x, y>>[i]
  BY <1>1, AppendProperties
<1> QED BY <1>1, <1>2, <1>3, SeqEqual

(* The events that can wait, as the SoftDevice adds and its task takes     *)
(* them.                                                                   *)
LEMMA EventsStep ==
  ASSUME QueuesOK
  PROVE  /\ Taken("CONNECTED") => events # <<>> /\ events' \in {<<>>, <<"DISCONNECTED">>}
         /\ Taken("CONNECTED") /\ events = <<"CONNECTED">> => events' = <<>>
         /\ Taken("DISCONNECTED") => events = <<"DISCONNECTED">> /\ events' = <<>>
         /\ events \in {<<>>, <<"CONNECTED">>}
              => Append(events, "DISCONNECTED")
                   \in {<<"DISCONNECTED">>, <<"CONNECTED", "DISCONNECTED">>}
<1>1. /\ Head(<<"CONNECTED">>) = "CONNECTED" /\ Tail(<<"CONNECTED">>) = <<>>
      /\ Head(<<"DISCONNECTED">>) = "DISCONNECTED" /\ Tail(<<"DISCONNECTED">>) = <<>>
      /\ Head(<<"CONNECTED", "DISCONNECTED">>) = "CONNECTED"
      /\ Tail(<<"CONNECTED", "DISCONNECTED">>) = <<"DISCONNECTED">>
  OBVIOUS
<1>2. /\ Append(<<>>, "DISCONNECTED") = <<"DISCONNECTED">>
      /\ Append(<<"CONNECTED">>, "DISCONNECTED") = <<"CONNECTED", "DISCONNECTED">>
  <2>1. Append(<<>>, "DISCONNECTED") = <<"DISCONNECTED">>
    OBVIOUS
  <2>2. "CONNECTED" \in Messages /\ "DISCONNECTED" \in Messages
    BY DEF Messages
  <2> QED BY <2>1, <2>2, AppendToOne
<1>3. "CONNECTED" # "DISCONNECTED"
  OBVIOUS
<1> QED BY <1>1, <1>2, <1>3, Zenon DEF QueuesOK, Taken

(* What the BLE task and the phone leave alone.                            *)
LEMMA LinkStep ==
  ASSUME SessionInv, UNCHANGED <<now, state>>, TypeOK', LinkInv', HeardInv'
  PROVE  SessionInv'
<1>1. Expired(stamps)' = Expired(stamps)
  BY DEF Expired, Expires, LinkExpires, state
<1>2. LoopInv'
  BY <1>1 DEF state, SessionInv, LoopInv
<1> QED BY <1>2 DEF state, SessionInv, QuietSwitchesOff, LimitedOperation

(* The types after a step of the BLE task.                                 *)
LEMMA LinkTypes ==
  ASSUME TypeOK, UNCHANGED <<now, state>>, heard' = heard \/ heard' = now,
         QueuesOK', LinkOK'
  PROVE  TypeOK'
<1>1. TimeOK'
  BY DEF state, TypeOK, TimeOK, Past, Never
<1>2. StampsOK' /\ StateOK'
  BY DEF state, TypeOK, StampsOK, StateOK, Past
<1> QED BY <1>1, <1>2 DEF TypeOK

LEMMA LinkKeeps ==
  ASSUME SessionInv, BleTask \/ SdhConnected \/ SdhDisconnected \/ Connect \/ LinkEnds
  PROVE  SessionInv'
<1> USE DEF Ble
<1>1. TypeOK /\ QueuesOK /\ LinkOK /\ LinkInv /\ HeardInv
  BY DEF SessionInv, TypeOK
<1>2. CASE BleStart
  <2>1. UNCHANGED <<now, state>> /\ heard' = heard
    BY <1>2 DEF BleStart
  <2>2. QueuesOK' /\ LinkOK'
    BY <1>1, <1>2 DEF BleStart, QueuesOK, LinkOK, BleDepth
  <2>3. LinkInv' /\ HeardInv'
    BY <1>1, <1>2 DEF BleStart, LinkInv, Lost, HeardInv, state
  <2> QED BY <1>1, <2>1, <2>2, <2>3, LinkTypes, LinkStep
<1>3. CASE BleStop
  <2>1. UNCHANGED <<now, state>> /\ heard' = heard
    BY <1>3 DEF BleStop
  <2>2. QueuesOK' /\ LinkOK'
    <3>1. QueuesOK'
      BY <1>1, <1>3 DEF BleStop, QueuesOK, BleDepth
    <3>2. LinkOK'
      BY <1>1, <1>3 DEF BleStop, LinkOK
    <3> QED BY <3>1, <3>2
  <2>3. LinkInv' /\ HeardInv'
    BY <1>1, <1>3 DEF BleStop, LinkInv, Lost, HeardInv, state
  <2> QED BY <1>1, <2>1, <2>2, <2>3, LinkTypes, LinkStep
<1>4. CASE BlePause
  <2>1. UNCHANGED <<now, state>> /\ heard' = heard
    BY <1>4 DEF BlePause
  <2>2. QueuesOK' /\ LinkOK'
    BY <1>1, <1>4 DEF BlePause, QueuesOK, LinkOK
  <2>3. LinkInv' /\ HeardInv'
    BY <1>1, <1>4 DEF BlePause, LinkInv, Lost, HeardInv, state
  <2> QED BY <1>1, <2>1, <2>2, <2>3, LinkTypes, LinkStep
<1>5. CASE BleServe
  <2>1. UNCHANGED <<now, state, commands, link>> /\ heard' = now /\ handle
        /\ keepalive' = IF keepalive = <<>> THEN <<"FILESYSTEM_EVENT">> ELSE keepalive
    BY <1>5 DEF BleServe, Offer
  <2>2. keepalive' # <<>> /\ Head(keepalive') # "DISCONNECTED" /\ keepalive' # <<"DISCONNECTED">>
    <3>1. ~Lost
      BY <1>1, <2>1 DEF LinkInv
    <3> QED BY <1>1, <2>1, <3>1 DEF QueuesOK, Lost
  <2>3. QueuesOK' /\ LinkOK'
    BY <1>1, <2>1 DEF QueuesOK, LinkOK, Messages, link
  <2>4. LinkInv' /\ HeardInv'
    BY <1>1, <2>1, <2>2 DEF LinkInv, Lost, HeardInv, link
  <2> QED BY <1>1, <2>1, <2>3, <2>4, LinkTypes, LinkStep
<1>6. CASE ReportConnect
  <2>1. UNCHANGED <<now, state>> /\ heard' = heard
    BY <1>6 DEF ReportConnect
  <2>2. QueuesOK' /\ LinkOK'
    BY <1>1, <1>6 DEF ReportConnect, Offer, QueuesOK, LinkOK, Messages
  <2>3. LinkInv' /\ HeardInv'
    BY <1>1, <1>6 DEF ReportConnect, Offer, LinkInv, Lost, HeardInv, state, QueuesOK, LinkOK
  <2> QED BY <1>1, <2>1, <2>2, <2>3, LinkTypes, LinkStep
<1>7. CASE ReportDisconnect
  <2>1. UNCHANGED <<now, state>> /\ heard' = heard
    BY <1>7 DEF ReportDisconnect
  <2>2. QueuesOK' /\ LinkOK'
    BY <1>1, <1>7 DEF ReportDisconnect, Offer, QueuesOK, LinkOK, Messages
  <2>3. LinkInv' /\ HeardInv'
    BY <1>1, <1>7 DEF ReportDisconnect, Offer, LinkInv, Lost, HeardInv, state
  <2> QED BY <1>1, <2>1, <2>2, <2>3, LinkTypes, LinkStep
<1>8. CASE SdhConnected
  <2>1. UNCHANGED <<now, state>> /\ heard' = heard
    BY <1>8 DEF SdhConnected
  <2>2. QueuesOK' /\ LinkOK'
    <3>1. QueuesOK'
      BY <1>1, <1>8, EventsStep DEF SdhConnected, QueuesOK
    <3>2. LinkOK'
      BY <1>1, <1>8 DEF SdhConnected, LinkOK
    <3> QED BY <3>1, <3>2
  <2>3. LinkInv' /\ HeardInv'
    <3>1. events # <<>> /\ events' \in {<<>>, <<"DISCONNECTED">>}
      BY <1>1, <1>8, EventsStep DEF SdhConnected
    <3>2. ~Lost /\ radio # "advertising" /\ flags' = [flags EXCEPT !.connect = TRUE]
          /\ sdh # "cold" /\ UNCHANGED <<keepalive, sdh, radio, heard>>
      BY <1>1, <1>8, <3>1 DEF SdhConnected, LinkInv
    <3>3. ~Lost'
      BY <1>1, <3>2 DEF Lost, LinkOK
    <3>4. radio \in {"connected", "closing"} => events' = <<>>
      BY <1>1, <1>8, <3>1, EventsStep DEF SdhConnected, LinkInv
    <3> QED BY <1>1, <2>1, <3>1, <3>2, <3>3, <3>4 DEF SdhConnected, LinkInv, HeardInv, state
  <2> QED BY <1>1, <2>1, <2>2, <2>3, LinkTypes, LinkStep
<1>9. CASE SdhDisconnected
  <2>1. UNCHANGED <<now, state>> /\ heard' = heard
    BY <1>9 DEF SdhDisconnected
  <2>2. QueuesOK' /\ LinkOK'
    <3>1. QueuesOK'
      BY <1>1, <1>9, EventsStep DEF SdhDisconnected, QueuesOK
    <3>2. LinkOK'
      BY <1>1, <1>9 DEF SdhDisconnected, LinkOK
    <3> QED BY <3>1, <3>2
  <2>3. LinkInv' /\ HeardInv'
    BY <1>1, <1>9, EventsStep DEF SdhDisconnected, LinkInv, Lost, HeardInv, state
  <2> QED BY <1>1, <2>1, <2>2, <2>3, LinkTypes, LinkStep
<1>10. CASE Connect
  <2>1. UNCHANGED <<now, state>> /\ heard' = heard
    BY <1>10 DEF Connect
  <2>2. QueuesOK' /\ LinkOK'
    BY <1>1, <1>10 DEF Connect, LinkInv, QueuesOK, LinkOK
  <2>3. LinkInv' /\ HeardInv'
    BY <1>1, <1>10 DEF Connect, Settled, LinkInv, Lost, HeardInv, state
  <2> QED BY <1>1, <2>1, <2>2, <2>3, LinkTypes, LinkStep
<1>11. CASE LinkEnds
  <2>1. UNCHANGED <<now, state>> /\ heard' = heard
    BY <1>11 DEF LinkEnds
  <2>2. events' \in {<<"DISCONNECTED">>, <<"CONNECTED", "DISCONNECTED">>}
    BY <1>1, <1>11, EventsStep DEF LinkEnds, LinkInv
  <2>3. QueuesOK' /\ LinkOK'
    BY <1>1, <1>11, <2>2 DEF LinkEnds, QueuesOK, LinkOK
  <2>4. LinkInv' /\ HeardInv'
    BY <1>1, <1>11 DEF LinkEnds, LinkInv, Lost, HeardInv, state
  <2> QED BY <1>1, <2>1, <2>3, <2>4, LinkTypes, LinkStep
<1> QED BY <1>2, <1>3, <1>4, <1>5, <1>6, <1>7, <1>8, <1>9, <1>10, <1>11 DEF BleTask

(* Time goes on only when no timeout has expired.                          *)
LEMMA NothingExpired ==
  ASSUME SessionInv, system_state = "BLE_OPERATION", Expired(stamps) = {}
  PROVE  /\ now - Later(stamps.end, told) <= AfterRecord
         /\ now <= Later(stamps.end, MaxOperation)
<1>1. \A r \in Reasons : ~Expires(stamps, r)
  BY DEF Expired
<1>2. /\ now \in Nat /\ told \in Int /\ MaxOperation \in Nat /\ MaxOperation >= 4
      /\ stamps.end \in Nat /\ stamps.activity \in Int /\ stamps.disconnect \in Int
      /\ stamps.activity <= told /\ stamps.disconnect <= told /\ stamps.started \in BOOLEAN
  BY SessionAssumption
     DEF SessionAssumption, NoRecord, SessionInv, TypeOK, TimeOK, StampsOK, Past, Never
<1>3. CASE ~stamps.started
  <2>1. now <= 4
    BY <1>1, <1>2, <1>3 DEF Expires, Reasons, NoRecord
  <2> QED BY <1>2, <2>1 DEF Later, AfterRecord
<1>4. CASE stamps.started
  <2>1. now <= MaxOperation
    BY <1>1, <1>2, <1>4 DEF Expires, Reasons
  <2>2. \/ now - stamps.end <= 5 \/ now - stamps.activity <= 3 \/ now - stamps.disconnect <= 1
    <3>1. CASE stamps.activity = Never
      BY <1>1, <1>2, <1>4, <3>1 DEF Expires, Reasons, AfterRecord
    <3>2. CASE stamps.activity # Never /\ stamps.disconnect = Never
      BY <1>1, <1>2, <1>4, <3>2 DEF Expires, LinkExpires, Reasons, KeepAlive
    <3>3. CASE stamps.activity # Never /\ stamps.disconnect # Never
      BY <1>1, <1>2, <1>4, <3>3 DEF Expires, LinkExpires, Reasons, AfterDisconnect
    <3> QED BY <3>1, <3>2, <3>3
  <2> QED BY <1>2, <2>1, <2>2 DEF Later, AfterRecord
<1> QED BY <1>3, <1>4

LEMMA TickKeeps ==
  ASSUME SessionInv, Tick
  PROVE  SessionInv'
<1>1. now' = now + 1 /\ now < MaxTime /\ polled /\ polled' = FALSE
      /\ UNCHANGED <<system_state, context, stamps, records, told, keepalive, commands, link, heard>>
  BY DEF Tick
<1>2. now \in Nat /\ now' \in 0..MaxTime /\ \A t \in Past : t \in Past'
  BY <1>1, SessionAssumption DEF SessionAssumption, SessionInv, TypeOK, TimeOK, Past, Never
<1>3. TypeOK'
  <2>1. TimeOK' /\ StampsOK'
    BY <1>1, <1>2 DEF SessionInv, TypeOK, TimeOK, StampsOK
  <2>2. StateOK' /\ LinkOK'
    BY ZenonT(60), <1>1 DEF SessionInv, TypeOK, StateOK, LinkOK, link
  <2>3. QueuesOK'
    BY <1>1 DEF SessionInv, TypeOK, QueuesOK, link
  <2> QED BY <2>1, <2>2, <2>3 DEF TypeOK
<1>4. LinkInv' /\ HeardInv'
  BY <1>1 DEF SessionInv, LinkInv, Lost, HeardInv, link
<1>5. LoopInv'
  BY <1>1 DEF SessionInv, LoopInv
<1>6. QuietSwitchesOff' /\ LimitedOperation'
  <2>1. CASE system_state # "BLE_OPERATION"
    BY <1>1, <2>1 DEF QuietSwitchesOff, LimitedOperation
  <2>2. CASE system_state = "BLE_OPERATION"
    <3>1. now - Later(stamps.end, told) <= AfterRecord /\ now <= Later(stamps.end, MaxOperation)
      BY <1>1, <2>2, NothingExpired DEF Tick, SessionInv, LoopInv
    <3>2. stamps.end \in Nat /\ told \in Int /\ MaxOperation \in Nat
      BY SessionAssumption DEF SessionAssumption, SessionInv, TypeOK, TimeOK, StampsOK, Past, Never
    <3> QED BY <1>1, <1>2, <3>1, <3>2 DEF QuietSwitchesOff, LimitedOperation, Later, AfterRecord
  <2> QED BY <2>1, <2>2
<1> QED BY <1>3, <1>4, <1>5, <1>6 DEF SessionInv

LEMMA SessionInductive ==
  /\ Init => SessionInv
  /\ SessionInv /\ [Next]_vars => SessionInv'
<1>1. Init => SessionInv
  <2> SUFFICES ASSUME Init PROVE SessionInv
    OBVIOUS
  <2>1. TimeOK
    BY SessionAssumption DEF SessionAssumption, Init, TimeOK, Past, Never
  <2>3. StateOK
    <3>1. 0 \in 0..MaxRecords
      BY SessionAssumption DEF SessionAssumption
    <3>2. context \in [active : BOOLEAN, ble : BOOLEAN, expired : SUBSET Reasons]
      BY DEF Init
    <3> QED BY <3>1, <3>2 DEF Init, StateOK
  <2>4. LinkOK
    BY DEF Init, LinkOK
  <2>2. StampsOK
    BY DEF Init, StampsOK, Past, Never
  <2>5. QueuesOK
    BY DEF Init, QueuesOK, BleDepth
  <2>6. LinkInv /\ LoopInv /\ HeardInv /\ QuietSwitchesOff /\ LimitedOperation
    BY DEF Init, LinkInv, Lost, LoopInv, HeardInv, QuietSwitchesOff, LimitedOperation
  <2> QED BY <2>1, <2>2, <2>3, <2>4, <2>5, <2>6 DEF SessionInv, TypeOK
<1>2. ASSUME SessionInv, [Next]_vars PROVE SessionInv'
  <2>1. CASE UNCHANGED vars
    <3>1. UNCHANGED <<now, state>> /\ UNCHANGED <<keepalive, commands, link, heard>>
      BY <2>1 DEF vars
    <3>2. QueuesOK'
      BY <1>2, <3>1 DEF link, SessionInv, TypeOK, QueuesOK
    <3>3. LinkOK'
      BY <1>2, <3>1 DEF link, SessionInv, TypeOK, LinkOK
    <3>4. LinkInv' /\ HeardInv'
      BY <1>2, <3>1 DEF link, state, SessionInv, LinkInv, Lost, HeardInv
    <3>5. TypeOK
      BY <1>2 DEF SessionInv
    <3> QED BY <1>2, <3>1, <3>2, <3>3, <3>4, <3>5, LinkTypes, LinkStep DEF SessionInv
  <2> QED BY <1>2, <2>1, StateTaskKeeps, LinkKeeps, TickKeeps DEF Next
<1> QED BY <1>1, <1>2

(* The clock, the stamps, the queues and the link keep their types, and    *)
(* no stamp is later than the message it notes.                            *)
THEOREM TypeCorrect == Spec => []TypeOK
<1>1. SessionInv => TypeOK
  BY DEF SessionInv
<1> QED BY SessionInductive, <1>1, PTL DEF Spec

(* process_timeouts switches the device off no later than one unit after   *)
(* its longest wait, counted from the last record or message.              *)
THEOREM SwitchesOff == Spec => []QuietSwitchesOff
<1>1. SessionInv => QuietSwitchesOff
  BY DEF SessionInv
<1> QED BY SessionInductive, <1>1, PTL DEF Spec

(* max_operation_duration is exceeded by a record only.                    *)
THEOREM OperationIsLimited == Spec => []LimitedOperation
<1>1. SessionInv => LimitedOperation
  BY DEF SessionInv
<1> QED BY SessionInductive, <1>1, PTL DEF Spec

(* A pass of the loop that finds the phone quiet: the request served last  *)
(* is old.                                                                 *)
LEMMA PassFinds ==
  ASSUME SessionInv, NEW active \in BOOLEAN, NEW ble \in BOOLEAN,
         NEW s \in [started : BOOLEAN, end : Past, activity : Past, disconnect : Past],
         s.end # Never, s.activity <= told, s.disconnect <= told,
         ProcessTimeouts(active, ble, s),
         \/ active
         \/ s.activity = stamps.activity /\ s.started = stamps.started /\ s.end >= stamps.end,
         context'.expired \cap {"keepalive", "afterrecord"} # {}, heard # Never
  PROVE  now - heard >= KeepAlive
<1>1. /\ TypeOK /\ HeardInv
  BY DEF SessionInv
<1>2. /\ TimeOK' /\ StampsOK' /\ now' = now
      /\ stamps'.end = IF active THEN now ELSE s.end
      /\ stamps'.started = s.started
      /\ ~active => context'.expired = Expired(stamps')
      /\ active => context'.expired = {}
      /\ keepalive = <<>> => stamps'.activity = s.activity
      /\ keepalive # <<>> /\ Head(keepalive) = "DISCONNECTED" => stamps'.activity = s.activity
      /\ keepalive # <<>> /\ Head(keepalive) # "DISCONNECTED" => stamps'.activity = now
  BY <1>1, PassEnds
<1>3. /\ ~active /\ s.activity = stamps.activity /\ s.started = stamps.started
      /\ s.end >= stamps.end /\ stamps'.end = s.end
  BY <1>2
<1>4. /\ now \in Nat /\ heard \in Int /\ heard <= now /\ stamps.end \in Nat /\ s.end \in Nat
      /\ stamps.activity \in Int
  BY <1>1, <1>3 DEF TypeOK, TimeOK, StampsOK, Past, Never
<1>5. Expires(stamps', "keepalive") \/ Expires(stamps', "afterrecord")
  BY <1>2, <1>3 DEF Expired
<1>6. /\ stamps'.started
      /\ \/ stamps'.activity # Never /\ now - stamps'.activity > 3
         \/ stamps'.activity = Never /\ now - s.end > 5
  BY <1>3, <1>5 DEF Expires, LinkExpires, KeepAlive, AfterRecord
<1>7. ~(keepalive # <<>> /\ Head(keepalive) # "DISCONNECTED")
  BY <1>2, <1>4, <1>6 DEF Never
<1>8. stamps'.activity = stamps.activity /\ stamps.started
  BY <1>2, <1>3, <1>6, <1>7
<1> QED BY <1>1, <1>3, <1>4, <1>6, <1>7, <1>8 DEF HeardInv, KeepAlive, Never

(* A phone whose request was served within the last three units is not     *)
(* taken for a quiet one, whatever the queue of one element has dropped.   *)
THEOREM ServedPhoneIsNotCut == Spec => ServedIsNotCut
<1> DEFINE Cut == context.expired = {} /\ context'.expired \cap {"keepalive", "afterrecord"} # {}
                  /\ heard # Never => now - heard >= KeepAlive
<1>1. SessionInv /\ [Next]_vars => [Cut]_vars
  <2> SUFFICES ASSUME SessionInv, Next, context.expired = {},
                      context'.expired \cap {"keepalive", "afterrecord"} # {}, heard # Never
               PROVE  now - heard >= KeepAlive
    OBVIOUS
  <2>1. context' # context
    OBVIOUS
  <2>2. /\ stamps \in [started : BOOLEAN, end : Past, activity : Past, disconnect : Past]
        /\ stamps.activity <= told /\ stamps.disconnect <= told /\ stamps.end # Never
        /\ stamps.end \in Int /\ stamps.end <= now /\ now \in Past /\ now # Never /\ now \in Int
        /\ Never \in Past /\ Never <= told
        /\ context.active \in BOOLEAN /\ context.ble \in BOOLEAN
    BY DEF SessionInv, TypeOK, TimeOK, StampsOK, StateOK, Past, Never
  <2>3. ~StartRecord
    BY DEF StartRecord, ProcessTimeouts
  <2>4. CASE Wait
    BY <2>2, <2>4, PassFinds DEF Wait
  <2>5. ASSUME EnterBle(stamps) PROVE now - heard >= KeepAlive
    <3>1. (context.ble \/ Room) \in BOOLEAN
      BY <2>2
    <3>2. PICK s : s = stamps
      OBVIOUS
    <3>3. ProcessTimeouts(FALSE, context.ble \/ Room, s)
      BY <2>5, <3>2 DEF EnterBle
    <3>4. s.end >= stamps.end
      BY <2>2, <3>2
    <3> QED BY <2>2, <3>1, <3>2, <3>3, <3>4, PassFinds
  <2>6. ASSUME EnterBle([stamps EXCEPT !.end = now]) PROVE now - heard >= KeepAlive
    <3>1. (context.ble \/ Room) \in BOOLEAN
      BY <2>2
    <3>2. PICK s : s = [stamps EXCEPT !.end = now]
      OBVIOUS
    <3>3. /\ s \in [started : BOOLEAN, end : Past, activity : Past, disconnect : Past]
          /\ s.started = stamps.started /\ s.end = now
          /\ s.activity = stamps.activity /\ s.disconnect = stamps.disconnect
      BY <2>2, <3>2
    <3>4. ProcessTimeouts(FALSE, context.ble \/ Room, s)
      BY <2>6, <3>2 DEF EnterBle
    <3> QED BY <2>2, <3>1, <3>3, <3>4, PassFinds
  <2>7. ~ShutDown /\ ~Tick
    BY <2>1 DEF ShutDown, Tick
  <2>8. ~(BleTask \/ SdhConnected \/ SdhDisconnected \/ Connect \/ LinkEnds)
    BY <2>1 DEF BleTask, BleStart, BleStop, BlePause, BleServe, ReportConnect,
         ReportDisconnect, SdhConnected, SdhDisconnected, Connect, LinkEnds, Ble, state
  <2> QED BY <2>3, <2>4, <2>5, <2>6, <2>7, <2>8
       DEF Next, StateTask, PassInit, PassRecording, PassBle
<1> QED BY SessionInductive, <1>1, PTL DEF Spec, ServedIsNotCut

=============================================================================
