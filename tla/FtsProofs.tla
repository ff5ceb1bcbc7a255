------------------------------ MODULE FtsProofs ------------------------------
(***************************************************************************)
(* Proofs about the file transfer service, for any files, sizes of buffers *)
(* and packets, and requests.                                              *)
(***************************************************************************)
EXTENDS FtsInv, SequenceTheorems, FiniteSetTheorems, TLAPS

(*------------------------------- the server ------------------------------*)
LEMMA Naturals0 ==
  /\ BufferSize \in Nat /\ BufferSize > 0
  /\ PacketSize \in Nat /\ PacketSize > 0
  /\ ListFirst \in Nat /\ ListFirst > 0 /\ ListFirst < BufferSize /\ ListFirst < PacketSize
  /\ ListNext \in Nat /\ ListNext > 0 /\ ListNext <= BufferSize /\ ListNext <= PacketSize
  /\ FsIssueMax \in Nat /\ FsIssueMax > 0
BY FileServerAssumption, FtsAssumption

LEMMA FileTypes ==
  /\ Len(Sizes) \in Nat /\ Len(Sizes) > 0
  /\ File = 1 .. Len(Sizes) /\ NoFile = 0
  /\ FileId = 1 .. Len(Sizes) + 1
  /\ \A f \in File : Sizes[f] \in Nat /\ Sizes[f] > 0
<1>1. Sizes \in Seq(Nat \ {0}) /\ Sizes # <<>>
  BY FileServerAssumption
<1>2. Len(Sizes) \in Nat /\ DOMAIN Sizes = 1 .. Len(Sizes)
      /\ \A f \in 1 .. Len(Sizes) : Sizes[f] \in Nat \ {0}
  BY <1>1
<1>3. Len(Sizes) # 0
  BY <1>1
<1> QED BY <1>2, <1>3 DEF File, NoFile, FileId

LEMMA ServerUnits ==
  /\ \A f \in File : FileUnits(f) \in Seq(ServerUnit) /\ Len(FileUnits(f)) = Sizes[f]
  /\ Names \in Seq(ServerUnit) /\ Len(Names) = Len(Sizes)
  /\ \A f \in File : InfoUnit(f) \in ServerUnit
  /\ StatUnit \in ServerUnit
<1> DEFINE data == UNION {{FileUnits(f)[n] : n \in 1 .. Sizes[f]} : f \in File}
           names == {Names[f] : f \in File}
           infos == {InfoUnit(f) : f \in File}
<1>0. data \subseteq ServerUnit /\ names \subseteq ServerUnit /\ infos \subseteq ServerUnit
      /\ StatUnit \in ServerUnit
  <2>1. ServerUnit = ((data \cup names) \cup infos) \cup {StatUnit}
    BY Zenon DEF ServerUnit
  <2> HIDE DEF data, names, infos
  <2> QED BY <2>1
<1>1. ASSUME NEW f \in File
      PROVE  FileUnits(f) \in Seq(ServerUnit) /\ Len(FileUnits(f)) = Sizes[f]
  <2>1. ASSUME NEW n \in 1 .. Sizes[f]
        PROVE  FileUnits(f)[n] \in ServerUnit
    <3> DEFINE units(g) == {FileUnits(g)[k] : k \in 1 .. Sizes[g]}
    <3>1. FileUnits(f)[n] \in units(f)
      BY <2>1, Zenon
    <3>2. units(f) \in {units(g) : g \in File}
      BY <1>1, Zenon
    <3>3. FileUnits(f)[n] \in UNION {units(g) : g \in File}
      BY <3>1, <3>2, Zenon
    <3> QED BY <3>3, <1>0, Zenon
  <2>2. FileUnits(f) \in [1 .. Sizes[f] -> ServerUnit]
    <3>1. FileUnits(f) = [n \in 1 .. Sizes[f] |-> FileUnits(f)[n]]
      BY DEF FileUnits
    <3> QED BY <2>1, <3>1, Zenon
  <2> QED BY <2>2, <1>1, FileTypes
<1>2. Names \in Seq(ServerUnit) /\ Len(Names) = Len(Sizes)
  <2>1. ASSUME NEW f \in File
        PROVE  Names[f] \in ServerUnit
    <3>1. Names[f] \in {Names[g] : g \in File}
      BY <2>1, Zenon
    <3> QED BY <3>1, <1>0, Zenon
  <2>2. Names \in [1 .. Len(Sizes) -> ServerUnit]
    <3>1. Names = [f \in File |-> Names[f]]
      BY DEF Names
    <3>2. Names \in [File -> ServerUnit]
      BY <2>1, <3>1, Zenon
    <3> QED BY <3>2, FileTypes
  <2> QED BY <2>2, FileTypes
<1>3. ASSUME NEW f \in File
      PROVE  InfoUnit(f) \in ServerUnit
  <2>1. InfoUnit(f) \in {InfoUnit(g) : g \in File}
    BY <1>3, Zenon
  <2> QED BY <2>1, <1>0, Zenon
<1> QED BY <1>0, <1>1, <1>2, <1>3, Zenon

(* A part of the file or of the list of names.                             *)
LEMMA Part ==
  ASSUME NEW S, NEW s \in Seq(S), NEW i \in Nat, NEW j \in Nat, i <= j, j <= Len(s)
  PROVE  /\ SubSeq(s, i + 1, j) \in Seq(S)
         /\ Len(SubSeq(s, i + 1, j)) = j - i
         /\ \A n \in 1 .. j - i : SubSeq(s, i + 1, j)[n] = s[i + n]
<1>1. \A n \in i + 1 .. j : s[n] \in S
  BY ElementOfSeq
<1>2. SubSeq(s, i + 1, j) \in Seq(S)
      /\ Len(SubSeq(s, i + 1, j)) = IF i + 1 <= j THEN j - (i + 1) + 1 ELSE 0
  BY <1>1, SubSeqProperties
<1>3. \A n \in 1 .. j - i : SubSeq(s, i + 1, j)[n] = s[i + n]
  OBVIOUS
<1> QED BY <1>2, <1>3

LEMMA ChunkRead ==
  ASSUME NEW m \in Server, m.file # NoFile, m.at <= Sizes[m.file]
  PROVE  /\ Chunk(m) \in Seq(ServerUnit)
         /\ Len(Chunk(m)) = Least(Sizes[m.file], m.at + BufferSize) - m.at
         /\ \A n \in 1 .. Len(Chunk(m)) : Chunk(m)[n] = FileUnits(m.file)[m.at + n]
         /\ Len(Chunk(m)) \in 0 .. BufferSize
<1>1. m.file \in File /\ m.at \in Nat /\ Sizes[m.file] \in Nat
  BY FileTypes DEF Server
<1>2. Least(Sizes[m.file], m.at + BufferSize) \in Nat
      /\ m.at <= Least(Sizes[m.file], m.at + BufferSize)
      /\ Least(Sizes[m.file], m.at + BufferSize) <= Sizes[m.file]
      /\ Least(Sizes[m.file], m.at + BufferSize) <= m.at + BufferSize
  BY <1>1, Naturals0 DEF Least
<1>3. FileUnits(m.file) \in Seq(ServerUnit) /\ Len(FileUnits(m.file)) = Sizes[m.file]
  BY <1>1, ServerUnits
<1>4. /\ Chunk(m) \in Seq(ServerUnit)
      /\ Len(Chunk(m)) = Least(Sizes[m.file], m.at + BufferSize) - m.at
      /\ \A n \in 1 .. Least(Sizes[m.file], m.at + BufferSize) - m.at :
           Chunk(m)[n] = FileUnits(m.file)[m.at + n]
  <2> DEFINE units == FileUnits(m.file)  upTo == Least(Sizes[m.file], m.at + BufferSize)
  <2>1. Chunk(m) = SubSeq(units, m.at + 1, upTo)
    BY DEF Chunk
  <2>2. /\ units \in Seq(ServerUnit) /\ m.at \in Nat /\ upTo \in Nat
        /\ m.at <= upTo /\ upTo <= Len(units)
    BY <1>1, <1>2, <1>3
  <2> HIDE DEF units, upTo
  <2>3. /\ SubSeq(units, m.at + 1, upTo) \in Seq(ServerUnit)
        /\ Len(SubSeq(units, m.at + 1, upTo)) = upTo - m.at
        /\ \A n \in 1 .. upTo - m.at : SubSeq(units, m.at + 1, upTo)[n] = units[m.at + n]
    BY SMTT(30), <2>2, Part
  <2> QED BY <2>1, <2>3 DEF units, upTo
<1>5. Least(Sizes[m.file], m.at + BufferSize) - m.at \in 0 .. BufferSize
  BY <1>1, <1>2, Naturals0
<1> QED BY <1>4, <1>5

LEMMA ResultType ==
  ASSUME NEW m, NEW cmd, NEW id
  PROVE  Result(m, cmd, id) \in ResultOfCommand
BY DEF Result, ResultOfCommand

(* What a result that says OK means.                                       *)
LEMMA ResultOK ==
  ASSUME NEW m, NEW cmd, NEW id, Result(m, cmd, id) = "OK"
  PROVE  /\ cmd = "GET_FILES_LIST_NEXT" => m.needed
         /\ cmd \in {"GET_FILE_INFO", "OPEN_FILE"} => id \in File
         /\ cmd = "GET_FILE_DATA" => m.file # NoFile
BY DEF Result

LEMMA ServeType ==
  ASSUME NEW m \in Server, m.file # NoFile => m.at <= Sizes[m.file],
         NEW cmd \in CommandToMemory, NEW id \in FileId \cup {NoFile}
  PROVE  LET n == Serve(m, cmd, id)
         IN  n \in Server /\ (n.file # NoFile => n.at <= Sizes[n.file])
<1> DEFINE n == Serve(m, cmd, id)
<1> SUFFICES n \in Server /\ (n.file # NoFile => n.at <= Sizes[n.file])
  OBVIOUS
<1>0. n = IF Result(m, cmd, id) = "OK" THEN Executed(m, cmd, id) ELSE m
  BY DEF Serve
<1> HIDE DEF n
<1>1. CASE Result(m, cmd, id) # "OK"
  BY <1>0, <1>1
<1>2. CASE Result(m, cmd, id) = "OK"
  <2>1. n = Executed(m, cmd, id)
    BY <1>0, <1>2
  <2>2. CASE cmd = "GET_FILES_LIST"
    <3>1. SubSeq(Names, 0 + 1, Least(ListFirst, Len(Sizes))) \in Seq(ServerUnit)
      BY ServerUnits, FileTypes, Naturals0, Part DEF Least
    <3>2. Least(ListFirst, Len(Sizes)) \in 0 .. Len(Sizes)
      BY FileTypes, Naturals0 DEF Least
    <3>3. n = [m EXCEPT !.elem = SubSeq(Names, 0 + 1, Least(ListFirst, Len(Sizes))),
                   !.listed = Least(ListFirst, Len(Sizes)),
                   !.needed = ListFirst < Len(Sizes)]
      BY <2>1, <2>2 DEF Executed
    <3>4. (ListFirst < Len(Sizes)) \in BOOLEAN
      OBVIOUS
    <3> QED BY <3>1, <3>2, <3>3, <3>4 DEF Server
  <2>3. CASE cmd = "GET_FILES_LIST_NEXT"
    <3> DEFINE upTo == Least(m.listed + ListNext, Len(Sizes))
    <3>1. upTo \in 0 .. Len(Sizes) /\ m.listed <= upTo /\ m.listed \in Nat
      BY FileTypes, Naturals0 DEF Least, Server
    <3>2. SubSeq(Names, m.listed + 1, upTo) \in Seq(ServerUnit)
      BY <3>1, ServerUnits, FileTypes, Part
    <3>3. n = [m EXCEPT !.elem = SubSeq(Names, m.listed + 1, upTo), !.listed = upTo]
      BY <2>1, <2>3 DEF Executed
    <3> QED BY <3>1, <3>2, <3>3 DEF Server
  <2>4. CASE cmd = "GET_FILE_INFO"
    <3>1. n = [m EXCEPT !.elem = <<InfoUnit(id)>>]
      BY <2>1, <2>4 DEF Executed
    <3>2. <<InfoUnit(id)>> \in Seq(ServerUnit)
      BY <1>2, <2>4, ResultOK, ServerUnits
    <3> QED BY <3>1, <3>2 DEF Server
  <2>5. CASE cmd = "OPEN_FILE"
    <3>1. n = [m EXCEPT !.context = id, !.file = id, !.at = 0]
      BY <2>1, <2>5 DEF Executed
    <3>2. id \in File
      BY <1>2, <2>5, ResultOK
    <3>3. n \in Server
      BY <3>1, <3>2 DEF Server, FileId, File
    <3>4. n.file = id /\ n.at = 0
      BY <3>1 DEF Server
    <3> QED BY <3>2, <3>3, <3>4, FileTypes
  <2>6. CASE cmd = "CLOSE_FILE"
    BY <2>1, <2>6 DEF Executed, Server
  <2>7. CASE cmd = "GET_FILE_DATA"
    <3>1. n = [m EXCEPT !.elem = Chunk(m), !.at = m.at + Len(Chunk(m))]
      BY <2>1, <2>7 DEF Executed
    <3>2. m.file # NoFile
      BY <1>2, <2>7, ResultOK
    <3>3. Chunk(m) \in Seq(ServerUnit) /\ Len(Chunk(m)) \in Nat
          /\ m.at + Len(Chunk(m)) <= Sizes[m.file]
      <4>1. m.file \in File /\ m.at \in Nat /\ Sizes[m.file] \in Nat
        BY <3>2, FileTypes DEF Server
      <4> QED BY <4>1, <3>2, ChunkRead, Naturals0 DEF Least
    <3>4. m.at + Len(Chunk(m)) \in Nat
      BY <3>3 DEF Server
    <3> DEFINE c == Chunk(m)  a == m.at + Len(Chunk(m))
    <3>5. n = [m EXCEPT !.elem = c, !.at = a] /\ c \in Seq(ServerUnit) /\ a \in Nat
          /\ a <= Sizes[m.file]
      BY <3>1, <3>3, <3>4
    <3> HIDE DEF c, a
    <3>6. n \in Server /\ n.file = m.file /\ n.at = a
      BY <3>5 DEF Server
    <3> QED BY <3>5, <3>6
  <2>8. CASE cmd = "GET_FS_STATUS"
    <3>1. n = [m EXCEPT !.elem = <<StatUnit>>]
      BY <2>1, <2>8 DEF Executed
    <3>2. <<StatUnit>> \in Seq(ServerUnit)
      BY ServerUnits
    <3> QED BY <3>1, <3>2 DEF Server
  <2>9. CASE cmd = "ALLOW_MEMORY_FORMATTING"
    BY <2>1, <2>9 DEF Executed
  <2> QED BY <2>2, <2>3, <2>4, <2>5, <2>6, <2>7, <2>8, <2>9 DEF CommandToMemory
<1> QED BY <1>1, <1>2

LEMMA ReportedType ==
  ASSUME NEW m \in Server, m.file # NoFile => m.at <= Sizes[m.file],
         NEW cmd \in CommandToMemory, NEW id, Result(m, cmd, id) = "OK"
  PROVE  ReportedSize(m, cmd, id) \in Reportable
<1>1. 0 \in Reportable
  BY Naturals0 DEF Reportable
<1>2. CASE cmd = "OPEN_FILE"
  BY <1>2, ResultOK DEF ReportedSize, Reportable
<1>3. CASE cmd = "GET_FILE_DATA"
  BY <1>3, ResultOK, ChunkRead DEF ReportedSize, Reportable
<1>4. CASE cmd \notin {"OPEN_FILE", "GET_FILE_DATA"}
  BY <1>4, <1>1 DEF ReportedSize, Reportable
<1> QED BY <1>2, <1>3, <1>4

LEMMA OwnerType ==
  ASSUME NEW m \in Server, NEW o \in {"AUDIO", "BLE"}
  PROVE  LET n == [OwnerChanged(m) EXCEPT !.owner = o]
         IN  n \in Server /\ n.file = NoFile
BY DEF OwnerChanged, Server

(*------------------------------- data types ------------------------------*)
LEMMA Wider ==
  ASSUME NEW A, NEW B, A \subseteq B, NEW s \in Seq(A)
  PROVE  s \in Seq(B)
OBVIOUS

LEMMA Units ==
  /\ ServerUnit \subseteq Unit
  /\ \A f \in FileId : NotFound(f) \in Unit
  /\ FsCorrupt \in Unit /\ Zero \in Unit
  /\ \A n \in Reportable : Count(n) \in Unit
<1> DEFINE nf == {NotFound(id) : id \in FileId}
           counts == {Count(n) : n \in Reportable}
<1>1. Unit = ((ServerUnit \cup nf) \cup {FsCorrupt, Zero}) \cup counts
  BY Zenon DEF Unit
<1>2. \A f \in FileId : NotFound(f) \in nf
  BY Zenon
<1>3. \A n \in Reportable : Count(n) \in counts
  BY Zenon
<1> HIDE DEF nf, counts
<1> QED BY <1>1, <1>2, <1>3, Zenon

LEMMA ReportableNat == Reportable \subseteq Nat /\ 0 \in Reportable
BY Naturals0, FileTypes DEF Reportable

LEMMA PacketSizeUpdated ==
  ASSUME NEW t \in Transaction
  PROVE  LET u == UpdateNextPacketSize(t)
         IN  /\ u \in Transaction
             /\ u = [t EXCEPT !.packet = u.packet]
             /\ u.file = t.file /\ u.buf = t.buf /\ u.idx = t.idx /\ u.fileSize = t.fileSize
             /\ u.sent = t.sent /\ u.left = t.left /\ u.issues = t.issues
             /\ t.idx <= Len(t.buf) =>
                  u.packet = Least(Len(t.buf) - t.idx, PacketSize) /\ u.idx + u.packet <= Len(u.buf)
<1> DEFINE p == IF t.idx > Len(t.buf) THEN PacketSize ELSE Least(Len(t.buf) - t.idx, PacketSize)
           u == UpdateNextPacketSize(t)
<1>1. u = [t EXCEPT !.packet = p]
  BY DEF UpdateNextPacketSize
<1>2. Len(t.buf) \in Nat /\ t.idx \in Nat
  BY DEF Transaction
<1>3. p \in 0 .. PacketSize
      /\ (t.idx <= Len(t.buf) => p = Least(Len(t.buf) - t.idx, PacketSize)
                                 /\ p <= Len(t.buf) - t.idx)
  BY <1>2, Naturals0 DEF Least
<1> HIDE DEF p
<1>4. u.packet = p /\ u.buf = t.buf /\ u.idx = t.idx /\ u.file = t.file /\ u.sent = t.sent
      /\ u.left = t.left /\ u.issues = t.issues /\ u.fileSize = t.fileSize /\ u \in Transaction
  BY <1>1, <1>3 DEF Transaction
<1> HIDE DEF u
<1>5. /\ u = [t EXCEPT !.packet = u.packet]
      /\ t.idx <= Len(t.buf) =>
           u.packet = Least(Len(t.buf) - t.idx, PacketSize) /\ u.idx + u.packet <= Len(u.buf)
  BY <1>1, <1>2, <1>3, <1>4
<1> QED BY <1>4, <1>5 DEF u

LEMMA PacketTyped ==
  ASSUME NEW t \in Transaction, t.idx + t.packet <= Len(t.buf), NEW op \in Characteristic
  PROVE  /\ Packet(op, t) \in PacketType
         /\ Packet(op, t).char = op /\ Len(Packet(op, t).units) = t.packet
         /\ \A n \in 1 .. t.packet : Packet(op, t).units[n] = t.buf[t.idx + n]
<1>1. t.buf \in Seq(Unit) /\ t.idx \in Nat /\ t.packet \in Nat /\ t.idx + t.packet \in Nat
  BY Naturals0 DEF Transaction
<1> DEFINE j == t.idx + t.packet
           s == SubSeq(t.buf, t.idx + 1, j)
<1>2. j \in Nat /\ t.idx <= j /\ j <= Len(t.buf) /\ j - t.idx = t.packet
  BY <1>1
<1>3. s \in Seq(Unit) /\ Len(s) = t.packet /\ \A n \in 1 .. t.packet : s[n] = t.buf[t.idx + n]
  <2> HIDE DEF j
  <2> DEFINE b == t.buf  i == t.idx
  <2>2. b \in Seq(Unit) /\ i \in Nat /\ j \in Nat /\ i <= j /\ j <= Len(b) /\ s = SubSeq(b, i + 1, j)
    BY <1>1, <1>2
  <2> HIDE DEF b, i, s
  <2>3. s \in Seq(Unit) /\ Len(s) = j - i /\ \A n \in 1 .. j - i : s[n] = b[i + n]
    BY <2>2, Part
  <2>1. s \in Seq(Unit) /\ Len(s) = j - t.idx /\ \A n \in 1 .. j - t.idx : s[n] = t.buf[t.idx + n]
    BY <2>3 DEF b, i
  <2> QED BY <2>1, <1>2
<1>4. Packet(op, t) = [char |-> op, units |-> s]
  BY DEF Packet
<1> HIDE DEF s
<1> QED BY <1>3, <1>4 DEF PacketType

LEMMA TaskTyped ==
  ASSUME NEW where \in {"status", "data", "unsent", "finish"}, NEW op \in CallOp \cup Outcome
  PROVE  /\ At(where, op) \in TaskState /\ Loop \in TaskState
         /\ At(where, op).at = where /\ At(where, op).op = op
         /\ Loop.at = "loop" /\ Loop.op = "none"
BY ReportableNat DEF At, Loop, TaskState, CallOp, Outcome

(* A packet is pushed, or the SoftDevice refuses it.                       *)
LEMMA Pushed ==
  ASSUME RadioOK, NEW op, NEW t \in Transaction, t.idx <= Len(t.buf) \/ op \notin Characteristic,
         NEW done \in Outcome, NEW failed \in Outcome, Push(op, t, done, failed)
  PROVE  /\ air' \subseteq PacketType /\ Cardinality(air') <= 1
         /\ tx' \in Transaction /\ tx'.file = t.file
         /\ t.idx <= Len(t.buf) => tx'.idx + tx'.packet <= Len(tx'.buf)
         /\ tx'.buf = t.buf
         /\ task' \in TaskState /\ task'.at = "finish" /\ task'.op \in {done, failed}
<1>1. tx' = UpdateNextPacketSize(t)
  BY DEF Push
<1>2. /\ tx' \in Transaction /\ tx'.file = t.file /\ tx'.buf = t.buf
      /\ t.idx <= Len(t.buf) => tx'.idx + tx'.packet <= Len(tx'.buf)
  BY <1>1, PacketSizeUpdated
<1>3. air' \subseteq PacketType /\ Cardinality(air') <= 1
  <2>1. CASE CanNotify(op)
    <3>1. air' = {Packet(op, UpdateNextPacketSize(t))}
      BY <2>1 DEF Push
    <3>2. op \in Characteristic
      BY <2>1 DEF CanNotify
    <3>3. Packet(op, UpdateNextPacketSize(t)) \in PacketType
      BY <1>1, <1>2, <3>2, PacketTyped
    <3>4. PICK p \in PacketType : air' = {p}
      BY <3>1, <3>3
    <3>5. Cardinality(air') = 1
      BY <3>4, FS_Singleton
    <3> QED BY <3>4, <3>5
  <2>2. CASE ~CanNotify(op)
    <3>1. air' = air
      BY <2>2 DEF Push
    <3> QED BY <3>1 DEF RadioOK
  <2> QED BY <2>1, <2>2
<1>4. task' = At("finish", done) \/ task' = At("finish", failed)
  BY DEF Push
<1>5. task' \in TaskState /\ task'.at = "finish" /\ task'.op \in {done, failed}
  BY <1>4, TaskTyped
<1> QED BY <1>2, <1>3, <1>5

(* What an action that pushes something leaves alone.                      *)
LEMMA AfterPush ==
  ASSUME TypeInv, QueuesOK',
         air' \subseteq PacketType, Cardinality(air') <= 1,
         tx' \in Transaction, tx'.file = tx.file,
         tx'.idx + tx'.packet <= Len(tx'.buf),
         task' \in TaskState, task'.at = "finish", task'.op \in Outcome,
         UNCHANGED <<opcodes, conn, subscribed, client, enabled, system, memory>>
  PROVE  TypeInv'
<1>1. RadioOK'
  BY DEF TypeInv, TypeOK, RadioOK
<1>2. ClientOK' /\ MemoryOK' /\ Located'
  BY DEF TypeInv, TypeOK, ClientOK, client, MemoryOK, memory, Located
<1>3. ServiceOK'
  BY DEF TypeInv, TypeOK, ServiceOK, opcodes
<1>4. Pointers'
  BY DEF Pointers
<1>5. FileNamed'
  BY DEF TypeInv, FileNamed, opcodes, Outcome
<1> QED BY <1>1, <1>2, <1>3, <1>4, <1>5 DEF TypeInv, TypeOK

LEMMA StatusPushed ==
  ASSUME TypeInv, QueuesOK', NEW u \in Unit, NEW after \in Outcome, UpdateGeneralStatus(u, after),
         UNCHANGED <<opcodes, conn, subscribed, client, enabled, system, memory>>
  PROVE  TypeInv'
<1> DEFINE b == <<u>>
           t == [tx EXCEPT !.buf = b, !.idx = 0]
<1>1. b \in Seq(Unit) /\ Len(b) = 1
  OBVIOUS
<1> HIDE DEF b
<1>2. t \in Transaction /\ t.idx <= Len(t.buf) /\ t.file = tx.file
  <2>1. tx \in Transaction
    BY DEF TypeInv, TypeOK, ServiceOK
  <2>2. t \in Transaction /\ t.idx = 0 /\ t.buf = b /\ t.file = tx.file
    BY <1>1, <2>1 DEF Transaction
  <2> QED BY <1>1, <2>2
<1>3. Push("GENERAL_STATUS", t, after, after)
  BY DEF UpdateGeneralStatus, b
<1>4. RadioOK
  BY DEF TypeInv, TypeOK
<1> HIDE DEF t
<1>5. /\ air' \subseteq PacketType /\ Cardinality(air') <= 1
      /\ tx' \in Transaction /\ tx'.file = t.file
      /\ tx'.idx + tx'.packet <= Len(tx'.buf)
      /\ task' \in TaskState /\ task'.at = "finish" /\ task'.op \in {after}
  <2>1. t.idx <= Len(t.buf) \/ "GENERAL_STATUS" \notin Characteristic
    BY <1>2
  <2>2. /\ air' \subseteq PacketType /\ Cardinality(air') <= 1
        /\ tx' \in Transaction /\ tx'.file = t.file
        /\ t.idx <= Len(t.buf) => tx'.idx + tx'.packet <= Len(tx'.buf)
        /\ task' \in TaskState /\ task'.at = "finish" /\ task'.op \in {after, after}
    BY <1>2, <1>3, <1>4, <2>1, Pushed, Zenon
  <2> QED BY <1>2, <2>2
<1> QED BY <1>2, <1>5, AfterPush

(* A call leaves a command, or finds the last one still waiting.           *)
LEMMA Called ==
  ASSUME QueuesOK, NEW op \in CallOp, Call(op), tx.file \in FileId \cup {NoFile}
  PROVE  /\ cmdQ' \in Seq(CommandElement) /\ Len(cmdQ') <= 1
         /\ dataQ' \in Seq(DataElement) /\ Len(dataQ') <= 1
         /\ task' \in TaskState /\ task'.at \in {"status", "unsent"} /\ task'.op = op
<1>1. CommandOf(op) \in CommandToMemory
  BY DEF CommandOf, CommandToMemory, CallOp
<1>2. \/ cmdQ' = <<[cmd |-> CommandOf(op), id |-> tx.file]>> /\ task' = At("status", op)
      \/ cmdQ' = cmdQ /\ task' = At("unsent", op)
  BY DEF Call
<1>3. dataQ' = <<>> \/ dataQ' = dataQ
  BY DEF Call
<1>4. dataQ' \in Seq(DataElement) /\ Len(dataQ') <= 1
  <2>1. <<>> \in Seq(DataElement) /\ Len(<<>>) = 0
    OBVIOUS
  <2>2. dataQ \in Seq(DataElement) /\ Len(dataQ) <= 1
    BY DEF QueuesOK
  <2>3. CASE dataQ' = <<>>
    BY <2>1, <2>3
  <2>4. CASE dataQ' = dataQ
    BY <2>2, <2>4
  <2> QED BY <1>3, <2>3, <2>4
<1> DEFINE c == [cmd |-> CommandOf(op), id |-> tx.file]
<1>5. c \in CommandElement
  BY <1>1 DEF CommandElement
<1> HIDE DEF c
<1>6. <<c>> \in Seq(CommandElement) /\ Len(<<c>>) = 1
  BY <1>5
<1>7. cmdQ' \in Seq(CommandElement) /\ Len(cmdQ') <= 1
  <2>1. cmdQ' = <<c>> \/ cmdQ' = cmdQ
    BY <1>2 DEF c
  <2>2. cmdQ \in Seq(CommandElement) /\ Len(cmdQ) <= 1
    BY DEF QueuesOK
  <2>3. CASE cmdQ' = <<c>>
    BY <1>6, <2>3
  <2>4. CASE cmdQ' = cmdQ
    BY <2>2, <2>4
  <2> QED BY <2>1, <2>3, <2>4
<1>8. task' \in TaskState /\ task'.at \in {"status", "unsent"} /\ task'.op = op
  BY <1>2, TaskTyped
<1> QED BY <1>4, <1>7, <1>8

LEMMA NothingQueued ==
  /\ <<>> \in Seq(CommandElement) /\ <<>> \in Seq(StatusElement) /\ <<>> \in Seq(DataElement)
  /\ <<>> \in Seq(Unit) /\ Len(<<>>) = 0
OBVIOUS

LEMMA StatusTaken ==
  ASSUME QueuesOK, statusQ' = <<>>, UNCHANGED <<cmdQ, dataQ>>
  PROVE  QueuesOK'
BY NothingQueued DEF QueuesOK

LEMMA DataTaken ==
  ASSUME QueuesOK, dataQ' = <<>>, UNCHANGED <<cmdQ, statusQ>>
  PROVE  QueuesOK'
BY NothingQueued DEF QueuesOK

LEMMA InQueue ==
  ASSUME QueuesOK
  PROVE  /\ statusQ # <<>> => Head(statusQ) = statusQ[1] /\ statusQ[1] \in StatusElement
         /\ dataQ # <<>> => Head(dataQ) = dataQ[1] /\ dataQ[1] \in DataElement
         /\ cmdQ # <<>> => Head(cmdQ) = cmdQ[1] /\ cmdQ[1] \in CommandElement
BY DEF QueuesOK

(* The task moves, without the buffer and the notification.                *)
LEMMA TaskMoved ==
  ASSUME TypeInv, QueuesOK', task' \in TaskState,
         task'.at = "finish" => task'.op \in Outcome \ {"accept"},
         task'.op \in {"info", "open"} => task.op \in {"info", "open"} \/ pending \in NeedsFile,
         UNCHANGED <<opcodes, radio, client, enabled, system, tx, memory>>
  PROVE  TypeInv'
<1>1. RadioOK' /\ ClientOK' /\ MemoryOK' /\ Located'
  BY DEF TypeInv, TypeOK, RadioOK, radio, ClientOK, client, MemoryOK, memory, Located
<1>2. ServiceOK'
  BY DEF TypeInv, TypeOK, ServiceOK, opcodes
<1>3. Pointers'
  BY DEF TypeInv, Pointers, opcodes
<1>4. FileNamed'
  BY DEF TypeInv, FileNamed, opcodes
<1> QED BY <1>1, <1>2, <1>3, <1>4 DEF TypeInv, TypeOK

LEMMA FailedType ==
  ASSUME TypeInv, QueuesOK', NEW result, Failed(task.op, result),
         UNCHANGED <<opcodes, conn, subscribed, client, enabled, system, memory>>
  PROVE  TypeInv'
<1>1. CASE \/ UpdateGeneralStatus(FsCorrupt, "keep")
           \/ UpdateGeneralStatus(FsCorrupt, "idle")
  BY <1>1, Units, StatusPushed DEF Outcome
<1>2. CASE task.op \in {"info", "open"} /\ UpdateGeneralStatus(NotFound(tx.file), "keep")
  <2>1. tx.file \in FileId
    BY <1>2 DEF TypeInv, FileNamed, TypeOK, ServiceOK, Transaction
  <2> QED BY <1>2, <2>1, Units, StatusPushed DEF Outcome
<1>3. CASE UNCHANGED <<tx, air>> /\ task' \in {At("finish", "idle"), Loop}
  <2>1. /\ task' \in TaskState /\ task'.op \in {"idle", "none"}
    BY <1>3, TaskTyped DEF Outcome
  <2> QED BY <1>3, <2>1, TaskTyped, TaskMoved DEF Outcome, radio
<1> QED BY <1>1, <1>2, <1>3 DEF Failed

LEMMA TakeStatusType ==
  ASSUME TypeInv, TakeStatus
  PROVE  TypeInv'
<1>1. QueuesOK
  BY DEF TypeInv, TypeOK
<1>2. statusQ # <<>> /\ statusQ' = <<>> /\ UNCHANGED <<cmdQ, dataQ>>
  BY DEF TakeStatus
<1>3. QueuesOK'
  BY <1>1, <1>2, StatusTaken
<1>4. UNCHANGED <<opcodes, conn, subscribed, client, enabled, system, memory>>
  BY DEF TakeStatus
<1>5. CASE Failed(task.op, Head(statusQ).result)
  BY <1>3, <1>4, <1>5, FailedType
<1>6. CASE task' = Loop /\ UNCHANGED <<tx, air>>
  BY <1>3, <1>4, <1>6, TaskTyped, TaskMoved DEF radio, Outcome
<1>7. CASE task' = [At("data", task.op) EXCEPT !.size = Head(statusQ).size] /\ UNCHANGED <<tx, air>>
  <2>1. Head(statusQ).size \in Reportable
    BY <1>1, <1>2, InQueue DEF StatusElement
  <2>2. task' = [at |-> "data", op |-> task.op, size |-> Head(statusQ).size]
    BY <1>7 DEF At
  <2>3. task' \in TaskState /\ task'.at = "data" /\ task'.op = task.op
    BY <2>1, <2>2 DEF TaskState, TypeInv, TypeOK, ServiceOK
  <2> QED BY <1>3, <1>4, <1>7, <2>3, TaskMoved DEF radio
<1> QED BY <1>5, <1>6, <1>7 DEF TakeStatus

(* The buffer of the last packet stays where it is: a new file is read.    *)
LEMMA OpenedType ==
  ASSUME TypeInv, Opened
  PROVE  TypeInv'
<1>1. QueuesOK /\ tx \in Transaction /\ tx.file \in FileId \cup {NoFile}
  BY DEF TypeInv, TypeOK, ServiceOK, Transaction
<1>2. statusQ # <<>> /\ statusQ' = <<>> /\ Call("read")
      /\ tx' = [tx EXCEPT !.idx = 0, !.fileSize = Head(statusQ).size]
  BY DEF Opened
<1>3. UNCHANGED <<opcodes, radio, client, enabled, system, memory>>
  BY DEF Opened
<1>4. /\ cmdQ' \in Seq(CommandElement) /\ Len(cmdQ') <= 1
      /\ dataQ' \in Seq(DataElement) /\ Len(dataQ') <= 1
      /\ task' \in TaskState /\ task'.at \in {"status", "unsent"} /\ task'.op = "read"
  BY <1>1, <1>2, Called DEF CallOp
<1>5. QueuesOK'
  BY <1>2, <1>4, NothingQueued DEF QueuesOK
<1>6. Head(statusQ).size \in Nat
  BY <1>1, <1>2, InQueue, ReportableNat DEF StatusElement
<1>7. tx' \in Transaction /\ tx'.file = tx.file /\ tx'.buf = tx.buf /\ tx'.packet = tx.packet
      /\ tx'.idx = 0
  BY <1>1, <1>2, <1>6 DEF Transaction
<1>8. RadioOK' /\ ClientOK' /\ MemoryOK' /\ Located'
  BY <1>3 DEF TypeInv, TypeOK, RadioOK, radio, ClientOK, client, MemoryOK, memory, Located
<1>9. ServiceOK'
  BY <1>3, <1>4, <1>7 DEF TypeInv, TypeOK, ServiceOK, opcodes
<1>10. Pointers'
  <2>1. tx.idx \in Nat /\ tx.packet \in Nat /\ Len(tx.buf) \in Nat
    BY <1>1, Naturals0 DEF Transaction
  <2> QED BY <1>3, <1>4, <1>7, <2>1 DEF TypeInv, Pointers, opcodes
<1>11. FileNamed'
  BY <1>3, <1>4, <1>7 DEF TypeInv, FileNamed, opcodes
<1> QED BY <1>4, <1>5, <1>8, <1>9, <1>10, <1>11 DEF TypeInv, TypeOK

LEMMA NoAnswerType ==
  ASSUME TypeInv, NoAnswer
  PROVE  TypeInv'
<1>1. QueuesOK'
  BY DEF NoAnswer, queues, TypeInv, TypeOK, QueuesOK
<1>2. Failed(task.op, "ERROR_GENERAL")
      /\ UNCHANGED <<opcodes, conn, subscribed, client, enabled, system, memory>>
  BY DEF NoAnswer
<1> QED BY <1>1, <1>2, FailedType

(* The buffer is filled anew and pushed.                                   *)
LEMMA Refilled ==
  ASSUME TypeInv, QueuesOK', NEW op, NEW b \in Seq(Unit), NEW t \in Transaction,
         t.file = tx.file, t.buf = b, t.idx = 0,
         NEW done \in Outcome, NEW failed \in Outcome, Push(op, t, done, failed),
         UNCHANGED <<opcodes, conn, subscribed, client, enabled, system, memory>>
  PROVE  TypeInv'
<1>1. RadioOK /\ t.idx <= Len(t.buf)
  BY DEF TypeInv, TypeOK
<1>2. /\ air' \subseteq PacketType /\ Cardinality(air') <= 1
      /\ tx' \in Transaction /\ tx'.file = t.file
      /\ t.idx <= Len(t.buf) => tx'.idx + tx'.packet <= Len(tx'.buf)
      /\ tx'.buf = t.buf
      /\ task' \in TaskState /\ task'.at = "finish" /\ task'.op \in {done, failed}
  BY <1>1, Pushed
<1> QED BY <1>1, <1>2, AfterPush

LEMMA ListBufferType ==
  ASSUME NEW count \in Reportable, NEW units \in Seq(Unit)
  PROVE  <<Count(count)>> \o SubSeq(units, 1, Least(count, Least(ListFirst, Len(units)))) \in Seq(Unit)
<1> DEFINE j == Least(count, Least(ListFirst, Len(units)))
           first == <<Count(count)>>
<1>1. j \in Nat /\ 0 <= j /\ j <= Len(units)
  BY Naturals0, ReportableNat DEF Least
<1>2. SubSeq(units, 0 + 1, j) \in Seq(Unit)
  <2> HIDE DEF j
  <2> QED BY <1>1, Part
<1>3. first \in Seq(Unit)
  BY Units
<1>4. SubSeq(units, 1, j) \in Seq(Unit)
  BY <1>2
<1> HIDE DEF j, first
<1>5. first \o SubSeq(units, 1, j) \in Seq(Unit)
  BY <1>3, <1>4, ConcatProperties
<1> QED BY <1>5 DEF j, first

LEMMA StuffingType ==
  ASSUME tx \in Transaction
  PROVE  Stuffing \in Seq(Unit)
<1> DEFINE n == IF tx.sent > tx.fileSize THEN BufferSize
                ELSE Least(tx.fileSize - tx.sent, BufferSize)
<1>1. n \in Nat
  BY Naturals0 DEF Transaction, Least
<1>2. Stuffing = [i \in 1 .. n |-> Zero]
  BY DEF Stuffing
<1> HIDE DEF n
<1>3. Stuffing \in [1 .. n -> Unit]
  BY <1>2, Units
<1> QED BY <1>1, <1>3

LEMMA TakeDataType ==
  ASSUME TypeInv, TakeData
  PROVE  TypeInv'
<1>1. QueuesOK /\ tx \in Transaction /\ task \in TaskState
  BY DEF TypeInv, TypeOK, ServiceOK
<1>2. dataQ # <<>> /\ dataQ' = <<>> /\ UNCHANGED <<cmdQ, statusQ>>
  BY DEF TakeData
<1>3. QueuesOK'
  BY <1>1, <1>2, DataTaken
<1>4. UNCHANGED <<opcodes, conn, subscribed, client, enabled, system, memory>>
  BY DEF TakeData
<1> DEFINE units == Head(dataQ).units
<1>5. units \in Seq(Unit)
  BY <1>1, <1>2, InQueue DEF DataElement
<1> HIDE DEF units
<1>6. task.size \in Reportable /\ task.size \in Nat /\ Len(units) \in Nat
  <2>1. Len(units) \in Nat
    BY <1>5
  <2> QED BY <1>1, <2>1, ReportableNat DEF TaskState
<1>7. CASE SendFilesList(task.size, units)
  <2> DEFINE b == <<Count(task.size)>>
                    \o SubSeq(units, 1, Least(task.size, Least(ListFirst, Len(units))))
             l == IF task.size > ListFirst THEN task.size - ListFirst ELSE 0
             t == [tx EXCEPT !.left = l, !.buf = b, !.idx = 0]
  <2>1. b \in Seq(Unit)
    BY <1>5, <1>6, ListBufferType
  <2>2. l \in Nat
    BY <1>6, Naturals0
  <2>3. Push("REQ_FILES_LIST", t, "accept", "accept")
    BY <1>7 DEF SendFilesList
  <2> HIDE DEF b, l
  <2>4. t \in Transaction /\ t.file = tx.file /\ t.buf = b /\ t.idx = 0
    BY <1>1, <2>1, <2>2 DEF Transaction
  <2> HIDE DEF t
  <2> QED BY <1>3, <1>4, <2>1, <2>3, <2>4, Refilled DEF Outcome
<1>8. CASE ContinueSendingFilesList(units)
  <2> DEFINE l == IF tx.left > Len(units) THEN tx.left - Len(units) ELSE 0
             t == [tx EXCEPT !.left = l, !.buf = units, !.idx = 0]
  <2>1. l \in Nat
    BY <1>1, <1>6 DEF Transaction
  <2>2. Push("REQ_FILES_LIST_NEXT", t, "keep", "keep")
    BY <1>8 DEF ContinueSendingFilesList
  <2> HIDE DEF l
  <2>3. t \in Transaction /\ t.file = tx.file /\ t.buf = units /\ t.idx = 0
    BY <1>1, <1>5, <2>1 DEF Transaction
  <2> HIDE DEF t
  <2> QED BY <1>3, <1>4, <1>5, <2>2, <2>3, Refilled DEF Outcome
<1>9. CASE SendFileInfo(units) \/ SendFsStatus(units)
  <2> DEFINE t == [tx EXCEPT !.buf = units, !.idx = 0]
  <2>1. Push("REQ_FILE_INFO", t, "accept", "accept") \/ Push("REQ_FS_STATUS", t, "idle", "idle")
    BY <1>9 DEF SendFileInfo, SendFsStatus
  <2>2. t \in Transaction /\ t.file = tx.file /\ t.buf = units /\ t.idx = 0
    BY <1>1, <1>5 DEF Transaction
  <2> HIDE DEF t
  <2> QED BY <1>3, <1>4, <1>5, <2>1, <2>2, Refilled DEF Outcome
<1>10. CASE SendFileData(units)
  <2> DEFINE t == [tx EXCEPT !.buf = units, !.idx = 0, !.sent = 0]
  <2>1. Push("REQ_FILE_DATA", t, "accept", "keep")
    BY <1>10 DEF SendFileData
  <2>2. t \in Transaction /\ t.file = tx.file /\ t.buf = units /\ t.idx = 0
    BY <1>1, <1>5 DEF Transaction
  <2> HIDE DEF t
  <2> QED BY <1>3, <1>4, <1>5, <2>1, <2>2, Refilled DEF Outcome
<1>11. CASE (units # <<>> \/ tx.issues > 1) /\ ContinueSendingFileData(units)
  <2>1. CASE units # <<>>
    <3> DEFINE t == [tx EXCEPT !.buf = units, !.idx = 0]
    <3>1. Push("REQ_FILE_DATA", t, "keep", "idle")
      BY <1>11, <2>1 DEF ContinueSendingFileData
    <3>2. t \in Transaction /\ t.file = tx.file /\ t.buf = units /\ t.idx = 0
      BY <1>1, <1>5 DEF Transaction
    <3> HIDE DEF t
    <3> QED BY <1>3, <1>4, <1>5, <3>1, <3>2, Refilled DEF Outcome
  <2>2. CASE units = <<>>
    <3> DEFINE s == Stuffing
               i == tx.issues - 1
               t == [tx EXCEPT !.buf = s, !.idx = 0, !.issues = i]
    <3>1. s \in Seq(Unit)
      BY <1>1, StuffingType
    <3>2. i \in 1 .. FsIssueMax
      BY <1>1, <1>11, <2>2, Naturals0 DEF Transaction
    <3>3. Push("REQ_FILE_DATA", t, "keep", "idle")
      BY <1>11, <2>2 DEF ContinueSendingFileData
    <3> HIDE DEF s, i
    <3>4. t \in Transaction /\ t.file = tx.file /\ t.buf = s /\ t.idx = 0
      BY <1>1, <3>1, <3>2 DEF Transaction
    <3> HIDE DEF t
    <3> QED BY <1>3, <1>4, <3>1, <3>3, <3>4, Refilled DEF Outcome
  <2> QED BY <2>1, <2>2
<1> QED BY <1>7, <1>8, <1>9, <1>10, <1>11 DEF TakeData, units

LEMMA StartType == ServerStart \in Server /\ TransactionStart \in Transaction /\ Loop \in TaskState
<1>1. <<>> \in Seq(ServerUnit) /\ <<>> \in Seq(Unit)
  OBVIOUS
<1>2. ServerStart \in Server
  BY <1>1, FileTypes DEF ServerStart, Server
<1>3. TransactionStart \in Transaction
  BY <1>1, Naturals0 DEF TransactionStart, Transaction
<1> QED BY <1>2, <1>3, TaskTyped DEF Outcome

LEMMA NothingSent == {} \subseteq PacketType /\ Cardinality({}) <= 1
<1>1. Cardinality({}) = 0
  BY FS_EmptySet
<1> QED BY <1>1

LEMMA RestartType ==
  ASSUME Restart
  PROVE  TypeInv'
<1>1. RadioOK'
  BY NothingSent DEF Restart, RadioOK
<1>2. ClientOK'
  BY NothingQueued DEF Restart, ClientOK
<1>3. ServiceOK'
  BY StartType DEF Restart, ServiceOK, ControlPointOpcode
<1>4. QueuesOK'
  BY NothingQueued DEF Restart, QueuesOK
<1>5. MemoryOK' /\ Located'
  BY StartType DEF Restart, MemoryOK, Located, ServerStart, NoFile
<1>6. Pointers'
  BY TaskTyped DEF Restart, Pointers, TransactionStart, Characteristic, ReadingRequest, Loop
<1>7. FileNamed' /\ task'.at = "loop"
  BY DEF Restart, FileNamed, Loop, NeedsFile
<1> QED BY <1>1, <1>2, <1>3, <1>4, <1>5, <1>6, <1>7 DEF TypeInv, TypeOK

LEMMA InitType ==
  ASSUME Init
  PROVE  TypeInv
<1>1. RadioOK
  BY NothingSent DEF Init, RadioOK
<1>2. ClientOK
  BY NothingQueued DEF Init, ClientOK
<1>3. ServiceOK
  BY StartType DEF Init, ServiceOK, ControlPointOpcode
<1>4. QueuesOK
  BY NothingQueued DEF Init, QueuesOK
<1>5. MemoryOK /\ Located
  BY StartType DEF Init, MemoryOK, Located, ServerStart, NoFile
<1>6. Pointers
  BY DEF Init, Pointers, TransactionStart, Characteristic, ReadingRequest, Loop
<1>7. FileNamed /\ task.at = "loop"
  BY DEF Init, FileNamed, Loop, NeedsFile
<1> QED BY <1>1, <1>2, <1>3, <1>4, <1>5, <1>6, <1>7 DEF TypeInv, TypeOK

(* The opcodes change between two calls; the buffer does not.              *)
LEMMA OpcodesMoved ==
  ASSUME TypeInv, QueuesOK', {pending', active'} \subseteq ControlPointOpcode,
         tx' \in Transaction, tx'.file = tx.file, tx'.buf = tx.buf, tx'.idx = tx.idx,
         tx'.packet = tx.packet, task' \in TaskState, task'.at # "finish",
         tx.idx + tx.packet <= Len(tx.buf) \/ active' \notin Characteristic,
         pending' \in NeedsFile => pending' = pending,
         task'.op \in {"info", "open"} => task.op \in {"info", "open"} \/ pending \in NeedsFile,
         UNCHANGED <<radio, client, enabled, system, memory>>
  PROVE  TypeInv'
<1>1. RadioOK' /\ ClientOK' /\ MemoryOK' /\ Located'
  BY DEF TypeInv, TypeOK, RadioOK, radio, ClientOK, client, MemoryOK, memory, Located
<1>2. ServiceOK'
  BY DEF TypeInv, TypeOK, ServiceOK
<1>3. Pointers'
  BY DEF TypeInv, Pointers
<1>4. FileNamed'
  BY DEF TypeInv, FileNamed
<1> QED BY <1>1, <1>2, <1>3, <1>4 DEF TypeInv, TypeOK

LEMMA FinishType ==
  ASSUME TypeInv, Finish
  PROVE  TypeInv'
<1>1. task' = Loop /\ pending' = "IDLE" /\ tx' = tx
      /\ UNCHANGED <<radio, client, enabled, system, queues, memory>>
  BY DEF Finish
<1>2. task.op \in Outcome /\ task.at = "finish"
  BY DEF Finish, TypeInv
<1>3. active' = IF task.op = "accept" THEN pending ELSE IF task.op = "idle" THEN "IDLE" ELSE active
  BY <1>2 DEF Finish, Outcome
<1>4. QueuesOK'
  BY <1>1 DEF queues, TypeInv, TypeOK, QueuesOK
<1>5. {pending', active'} \subseteq ControlPointOpcode
  BY <1>1, <1>3 DEF TypeInv, TypeOK, ServiceOK, ControlPointOpcode
<1>6. tx.idx + tx.packet <= Len(tx.buf) \/ active' \notin Characteristic
  BY <1>2, <1>3 DEF TypeInv, Pointers, Characteristic, ReadingRequest
<1>7. tx \in Transaction
  BY DEF TypeInv, TypeOK, ServiceOK
<1>8. task' \in TaskState /\ task'.at = "loop" /\ task'.op = "none"
  BY <1>1, StartType DEF Loop
<1> QED BY <1>1, <1>4, <1>5, <1>6, <1>7, <1>8, OpcodesMoved DEF NeedsFile

(* A call that leaves the opcodes alone or sets them idle.                 *)
LEMMA CallType ==
  ASSUME TypeInv, NEW op \in CallOp, Call(op), statusQ' = statusQ,
         op \in {"info", "open"} => pending \in NeedsFile,
         UNCHANGED opcodes \/ Idle,
         NEW s \in Nat, tx' = [tx EXCEPT !.sent = s],
         UNCHANGED <<radio, client, enabled, system, memory>>
  PROVE  TypeInv'
<1>1. QueuesOK /\ tx \in Transaction /\ tx.file \in FileId \cup {NoFile}
  BY DEF TypeInv, TypeOK, ServiceOK, Transaction
<1>2. /\ cmdQ' \in Seq(CommandElement) /\ Len(cmdQ') <= 1
      /\ dataQ' \in Seq(DataElement) /\ Len(dataQ') <= 1
      /\ task' \in TaskState /\ task'.at \in {"status", "unsent"} /\ task'.op = op
  BY <1>1, Called
<1>3. QueuesOK'
  BY <1>1, <1>2 DEF QueuesOK
<1>4. tx' \in Transaction /\ tx'.file = tx.file /\ tx'.buf = tx.buf /\ tx'.idx = tx.idx
      /\ tx'.packet = tx.packet
  BY <1>1 DEF Transaction
<1>5. {pending', active'} \subseteq ControlPointOpcode
  BY DEF TypeInv, TypeOK, ServiceOK, ControlPointOpcode, opcodes, Idle
<1>6. tx.idx + tx.packet <= Len(tx.buf) \/ active' \notin Characteristic
  BY DEF TypeInv, Pointers, Characteristic, ReadingRequest, opcodes, Idle
<1>7. pending' \in NeedsFile => pending' = pending
  BY DEF opcodes, Idle, NeedsFile
<1> QED BY <1>2, <1>3, <1>4, <1>5, <1>6, <1>7, OpcodesMoved

LEMMA FinalizeType ==
  ASSUME TypeInv, FinalizeTransaction
  PROVE  TypeInv'
<1>1. tx \in Transaction /\ tx.sent \in Nat /\ Len(tx.buf) \in Nat /\ task = Loop
      /\ tx.sent + Len(tx.buf) \in Nat
  BY DEF TypeInv, TypeOK, ServiceOK, Transaction, FinalizeTransaction
<1>2. UNCHANGED <<radio, client, enabled, system, statusQ, memory>>
  BY DEF FinalizeTransaction
<1>3. tx = [tx EXCEPT !.sent = tx.sent]
  BY <1>1 DEF Transaction
<1>4. CASE FileTransferred
  BY <1>1, <1>2, <1>4, CallType DEF FileTransferred, CallOp
<1>5. CASE tx' = [tx EXCEPT !.sent = tx.sent + Len(tx.buf)] /\ Call("more") /\ UNCHANGED opcodes
  BY <1>1, <1>2, <1>5, CallType DEF CallOp
<1>6. CASE Call("next") /\ UNCHANGED <<opcodes, tx>>
  <2>1. tx' = [tx EXCEPT !.sent = tx.sent]
    BY <1>3, <1>6
  <2> QED BY <1>1, <1>2, <1>6, <2>1, CallType DEF CallOp
<1>7. CASE Idle /\ UNCHANGED <<tx, task, cmdQ, dataQ>>
  <2>1. QueuesOK'
    BY <1>2, <1>7 DEF TypeInv, TypeOK, QueuesOK
  <2>2. {pending', active'} \subseteq ControlPointOpcode /\ active' = "IDLE" /\ pending' = "IDLE"
    BY <1>7 DEF Idle, ControlPointOpcode
  <2>3. task' \in TaskState /\ task'.at = "loop" /\ task'.op = "none"
    BY <1>1, <1>7, StartType DEF Loop
  <2> QED BY <1>1, <1>2, <1>7, <2>1, <2>2, <2>3, OpcodesMoved
          DEF NeedsFile, Characteristic, ReadingRequest
<1> QED BY <1>4, <1>5, <1>6, <1>7 DEF FinalizeTransaction

LEMMA PushType ==
  ASSUME TypeInv, PushDataPackets
  PROVE  TypeInv'
<1>1. RadioOK /\ tx \in Transaction
  BY DEF TypeInv, TypeOK, ServiceOK
<1>2. tx.idx <= Len(tx.buf) \/ active \notin Characteristic
  BY <1>1, Naturals0 DEF TypeInv, Pointers, Transaction
<1>3. Push(active, tx, "keep", "idle")
      /\ UNCHANGED <<conn, subscribed, opcodes, client, enabled, system, queues, memory>>
  BY DEF PushDataPackets
<1>4. /\ air' \subseteq PacketType /\ Cardinality(air') <= 1
      /\ tx' \in Transaction /\ tx'.file = tx.file
      /\ tx.idx <= Len(tx.buf) => tx'.idx + tx'.packet <= Len(tx'.buf)
      /\ tx'.buf = tx.buf
      /\ task' \in TaskState /\ task'.at = "finish" /\ task'.op \in {"keep", "idle"}
  BY <1>1, <1>2, <1>3, Pushed DEF Outcome
<1>5. QueuesOK'
  BY <1>3 DEF queues, TypeInv, TypeOK, QueuesOK
<1>6. CASE tx.idx <= Len(tx.buf)
  BY <1>3, <1>4, <1>5, <1>6, AfterPush DEF Outcome
<1>7. CASE ~(tx.idx <= Len(tx.buf))
  <2>1. active \notin Characteristic /\ tx.buf = <<>>
    BY <1>1, <1>7, Naturals0 DEF TypeInv, Pointers, Transaction
  <2>2. Pointers'
    BY <1>3, <1>4, <2>1 DEF Pointers, opcodes
  <2>3. RadioOK'
    BY <1>3, <1>4 DEF TypeInv, TypeOK, RadioOK
  <2>4. ClientOK' /\ MemoryOK' /\ Located'
    BY <1>3 DEF TypeInv, TypeOK, ClientOK, client, MemoryOK, memory, Located
  <2>5. ServiceOK'
    BY <1>3, <1>4 DEF TypeInv, TypeOK, ServiceOK, opcodes
  <2>6. FileNamed'
    BY <1>3, <1>4 DEF TypeInv, FileNamed, opcodes, Outcome
  <2> QED BY <1>4, <1>5, <2>2, <2>3, <2>4, <2>5, <2>6 DEF TypeInv, TypeOK, Outcome
<1> QED BY <1>6, <1>7

LEMMA RefuseType ==
  ASSUME TypeInv, Refuse
  PROVE  TypeInv'
<1>1. /\ pending' = "IDLE" /\ active' = active /\ task = Loop /\ task' = task /\ tx' = tx
      /\ UNCHANGED <<radio, client, enabled, system, queues, memory>>
  BY DEF Refuse
<1>2. QueuesOK'
  BY <1>1 DEF queues, TypeInv, TypeOK, QueuesOK
<1>3. {pending', active'} \subseteq ControlPointOpcode /\ tx \in Transaction
  BY <1>1 DEF TypeInv, TypeOK, ServiceOK, ControlPointOpcode
<1>4. task' \in TaskState /\ task'.at = "loop" /\ task'.op = "none"
  BY <1>1, StartType DEF Loop
<1>5. tx.idx + tx.packet <= Len(tx.buf) \/ active' \notin Characteristic
  BY <1>1 DEF TypeInv, Pointers
<1> QED BY <1>1, <1>2, <1>3, <1>4, <1>5, OpcodesMoved DEF NeedsFile

LEMMA RequestCalls ==
  ASSUME ProcessClientRequest
  PROVE  \E op \in CallOp :
           /\ Call(op) /\ (op \in {"info", "open"} => pending \in NeedsFile)
           /\ op \in {"list", "info", "open", "stat"} /\ pending = RequestOf(op)
<1>1. pending \in {"REQ_FILES_LIST", "REQ_FILE_INFO", "REQ_FILE_DATA", "REQ_FS_STATUS"}
  BY DEF ProcessClientRequest, ReadingRequest
<1>2. CASE pending = "REQ_FILES_LIST"
  <2>1. Call("list")
    BY <1>2 DEF ProcessClientRequest
  <2> QED BY <1>2, <2>1 DEF CallOp, RequestOf
<1>3. CASE pending = "REQ_FILE_INFO"
  <2>1. Call("info")
    BY <1>3 DEF ProcessClientRequest
  <2> QED BY <1>3, <2>1 DEF CallOp, RequestOf, NeedsFile
<1>4. CASE pending = "REQ_FILE_DATA"
  <2>1. Call("open")
    BY <1>4 DEF ProcessClientRequest
  <2> QED BY <1>4, <2>1 DEF CallOp, RequestOf, NeedsFile
<1>5. CASE pending = "REQ_FS_STATUS"
  <2>1. Call("stat")
    BY <1>5 DEF ProcessClientRequest
  <2> QED BY <1>5, <2>1 DEF CallOp, RequestOf
<1> QED BY <1>1, <1>2, <1>3, <1>4, <1>5

LEMMA RequestType ==
  ASSUME TypeInv, ProcessClientRequest
  PROVE  TypeInv'
<1>1. PICK op \in CallOp : Call(op) /\ (op \in {"info", "open"} => pending \in NeedsFile)
  BY RequestCalls
<1>2. UNCHANGED <<opcodes, radio, client, enabled, system, tx, statusQ, memory>>
  BY DEF ProcessClientRequest
<1>3. tx.sent \in Nat /\ tx' = [tx EXCEPT !.sent = tx.sent]
  BY <1>2 DEF TypeInv, TypeOK, ServiceOK, Transaction
<1> QED BY <1>1, <1>2, <1>3, CallType

(* Nothing the service does: the buffer and its task stay.                 *)
LEMMA ServiceKept ==
  ASSUME TypeInv, RadioOK', ClientOK', QueuesOK', MemoryOK', Located',
         {pending', active'} \subseteq ControlPointOpcode, system' \in {"on", "stop", "off"},
         active' = active \/ active' \notin Characteristic,
         task' = task, UNCHANGED <<tx>>, pending' \in NeedsFile => pending' = pending
  PROVE  TypeInv'
<1>1. ServiceOK'
  BY DEF TypeInv, TypeOK, ServiceOK
<1>2. Pointers'
  BY DEF TypeInv, Pointers
<1>3. FileNamed'
  BY DEF TypeInv, FileNamed
<1> QED BY <1>1, <1>2, <1>3 DEF TypeInv, TypeOK

LEMMA LinkDownType ==
  ASSUME LinkDown, enabled' = enabled, TypeInv
  PROVE  RadioOK' /\ ClientOK'
BY NothingSent, NothingQueued DEF LinkDown, TypeInv, TypeOK, RadioOK, ClientOK

LEMMA ReceiveCompletedType ==
  ASSUME TypeInv, ReceiveCompleted
  PROVE  TypeInv'
<1>1. RadioOK' /\ ClientOK'
  BY LinkDownType DEF ReceiveCompleted
<1>2. QueuesOK'
  <2> DEFINE c == [cmd |-> "ALLOW_MEMORY_FORMATTING", id |-> NoFile]
  <2>1. c \in CommandElement
    BY DEF CommandElement, CommandToMemory
  <2>2. cmdQ' = <<c>> /\ UNCHANGED <<statusQ, dataQ>>
    BY DEF ReceiveCompleted
  <2> HIDE DEF c
  <2>3. cmdQ' \in Seq(CommandElement) /\ Len(cmdQ') = 1
    BY <2>1, <2>2
  <2> QED BY <2>2, <2>3 DEF TypeInv, TypeOK, QueuesOK
<1>3. MemoryOK' /\ Located'
  BY DEF ReceiveCompleted, TypeInv, TypeOK, MemoryOK, memory, Located
<1>4. {pending', active'} \subseteq ControlPointOpcode /\ system' \in {"on", "stop", "off"}
      /\ active' \notin Characteristic /\ pending' \notin NeedsFile
  BY DEF ReceiveCompleted, TypeInv, TypeOK, ServiceOK, ControlPointOpcode, Characteristic,
         ReadingRequest, NeedsFile
<1> QED BY <1>1, <1>2, <1>3, <1>4, ServiceKept DEF ReceiveCompleted

LEMMA MemoryServesType ==
  ASSUME TypeInv, MemoryServes
  PROVE  TypeInv'
<1>1. cmdQ # <<>> /\ cmdQ' = <<>> /\ QueuesOK /\ mem \in Server
      /\ (mem.file # NoFile => mem.at <= Sizes[mem.file])
  BY DEF MemoryServes, TypeInv, TypeOK, MemoryOK, Located
<1> DEFINE c == Head(cmdQ)
           r == Result(mem, c.cmd, c.id)
           size == IF r = "OK" THEN ReportedSize(mem, c.cmd, c.id) ELSE 0
           e == [cmd |-> c.cmd, result |-> r, size |-> size]
<1>2. c.cmd \in CommandToMemory /\ c.id \in FileId \cup {NoFile}
  BY <1>1, InQueue DEF CommandElement
<1>3. r \in ResultOfCommand
  BY ResultType
<1> HIDE DEF c
<1>4. size \in Reportable
  BY <1>1, <1>2, ReportedType, ReportableNat
<1>5. /\ mem' = Serve(mem, c.cmd, c.id)
      /\ statusQ' = IF statusQ # <<>> THEN statusQ ELSE <<e>>
      /\ answering' \in {c.cmd, "none"}
      /\ UNCHANGED <<radio, client, opcodes, enabled, system, tx, task, dataQ>>
  BY DEF MemoryServes, c
<1>6. mem' \in Server /\ (mem'.file # NoFile => mem'.at <= Sizes[mem'.file])
  BY <1>1, <1>2, <1>5, ServeType
<1>7. MemoryOK' /\ Located'
  BY <1>2, <1>5, <1>6 DEF MemoryOK, Located
<1> HIDE DEF r, size
<1>8. e \in StatusElement
  BY <1>2, <1>3, <1>4 DEF StatusElement
<1> HIDE DEF e
<1>9. <<e>> \in Seq(StatusElement) /\ Len(<<e>>) = 1
  BY <1>8
<1>10. statusQ' \in Seq(StatusElement) /\ Len(statusQ') <= 1
  <2>1. CASE statusQ # <<>>
    BY <1>1, <1>5, <2>1 DEF QueuesOK
  <2>2. CASE statusQ = <<>>
    BY <1>5, <1>9, <2>2
  <2> QED BY <2>1, <2>2
<1>11. QueuesOK'
  BY <1>1, <1>5, <1>10, NothingQueued DEF QueuesOK
<1>12. RadioOK' /\ ClientOK'
  BY <1>5 DEF TypeInv, TypeOK, RadioOK, radio, ClientOK, client
<1>13. {pending', active'} \subseteq ControlPointOpcode /\ system' \in {"on", "stop", "off"}
  BY <1>5 DEF TypeInv, TypeOK, ServiceOK, opcodes
<1> QED BY <1>5, <1>7, <1>11, <1>12, <1>13, ServiceKept DEF opcodes

LEMMA MemorySendsType ==
  ASSUME TypeInv, MemorySendsData
  PROVE  TypeInv'
<1> DEFINE e == [cmd |-> answering, units |-> mem.elem]
<1>1. answering \in CommandToMemory /\ mem.elem \in Seq(ServerUnit)
  BY DEF MemorySendsData, TypeInv, TypeOK, MemoryOK, Server
<1>2. mem.elem \in Seq(Unit)
  BY <1>1, Units, Wider
<1>3. e \in DataElement
  BY <1>1, <1>2 DEF DataElement
<1>4. dataQ' = <<e>> /\ answering' = "none"
      /\ UNCHANGED <<radio, client, opcodes, enabled, system, tx, task, cmdQ, statusQ, mem>>
  BY DEF MemorySendsData
<1> HIDE DEF e
<1>5. dataQ' \in Seq(DataElement) /\ Len(dataQ') = 1
  BY <1>3, <1>4
<1>6. QueuesOK'
  BY <1>4, <1>5 DEF TypeInv, TypeOK, QueuesOK
<1>7. RadioOK' /\ ClientOK' /\ MemoryOK' /\ Located'
  BY <1>4 DEF TypeInv, TypeOK, RadioOK, radio, ClientOK, client, MemoryOK, Located
<1>8. {pending', active'} \subseteq ControlPointOpcode /\ system' \in {"on", "stop", "off"}
  BY <1>4 DEF TypeInv, TypeOK, ServiceOK, opcodes
<1> QED BY <1>4, <1>6, <1>7, <1>8, ServiceKept DEF opcodes

LEMMA ReceivedType ==
  ASSUME TypeInv, NEW p \in PacketType, Receive(p)
  PROVE  ClientOK'
<1>1. got \in Seq(Unit) /\ p.units \in Seq(Unit) /\ want \in Request \cup {NoRequest}
  BY DEF TypeInv, TypeOK, ClientOK, PacketType
<1>2. got \o p.units \in Seq(Unit)
  BY <1>1, ConcatProperties
<1>3. want' = want /\ (got' = got \o p.units \/ got' = got)
  BY DEF Receive
<1>4. CASE got' = got
  BY <1>1, <1>3, <1>4 DEF ClientOK
<1>5. CASE got' = got \o p.units
  BY <1>1, <1>2, <1>3, <1>5 DEF ClientOK
<1> QED BY <1>3, <1>4, <1>5

LEMMA AdvanceType ==
  ASSUME NEW t \in Transaction
  PROVE  LET u == Advance(t)
         IN  /\ u \in Transaction /\ u.file = t.file /\ u.buf = t.buf
             /\ t.idx + t.packet <= Len(t.buf) => u.idx + u.packet <= Len(u.buf)
<1> DEFINE i == Least(t.idx + t.packet, BufferSize + ListFirst + PacketSize)
           v == [t EXCEPT !.idx = i]
<1>1. i \in Nat /\ i <= t.idx + t.packet
  BY Naturals0 DEF Least, Transaction
<1>2. Advance(t) = UpdateNextPacketSize(v)
  BY DEF Advance
<1> HIDE DEF i
<1>3. v \in Transaction /\ v.file = t.file /\ v.buf = t.buf /\ v.idx = i
  BY <1>1 DEF Transaction
<1> HIDE DEF v
<1>4. t.idx + t.packet <= Len(t.buf) => v.idx <= Len(v.buf)
  <2>1. t.idx + t.packet \in Nat /\ Len(t.buf) \in Nat
    BY Naturals0 DEF Transaction
  <2> QED BY <1>1, <1>3, <2>1
<1> QED BY <1>2, <1>3, <1>4, PacketSizeUpdated

LEMMA NotificationSentType ==
  ASSUME TypeInv, NotificationSent
  PROVE  TypeInv'
<1>1. PICK p \in air : Receive(p)
  BY DEF NotificationSent
<1>2. /\ air' = {} /\ tx' = Advance(tx)
      /\ pending' \in {"FINALIZE_TRANSACTION", "PUSH_DATA_PACKETS"}
      /\ UNCHANGED <<conn, subscribed, active, enabled, system, task, queues, memory>>
  BY DEF NotificationSent, HvnTxCallback
<1>3. p \in PacketType /\ tx \in Transaction
  BY DEF TypeInv, TypeOK, RadioOK, ServiceOK
<1>4. ClientOK'
  BY <1>1, <1>3, ReceivedType
<1>5. RadioOK'
  BY <1>2, NothingSent DEF TypeInv, TypeOK, RadioOK
<1>6. /\ tx' \in Transaction /\ tx'.file = tx.file /\ tx'.buf = tx.buf
      /\ tx.idx + tx.packet <= Len(tx.buf) => tx'.idx + tx'.packet <= Len(tx'.buf)
  BY <1>2, <1>3, AdvanceType
<1>7. QueuesOK' /\ MemoryOK' /\ Located'
  BY <1>2 DEF TypeInv, TypeOK, QueuesOK, queues, MemoryOK, memory, Located
<1>8. ServiceOK'
  BY <1>2, <1>6 DEF TypeInv, TypeOK, ServiceOK, ControlPointOpcode
<1>9. Pointers'
  BY <1>2, <1>6 DEF TypeInv, Pointers
<1>10. FileNamed'
  BY <1>2, <1>6 DEF TypeInv, FileNamed, NeedsFile
<1> QED BY <1>2, <1>4, <1>5, <1>7, <1>8, <1>9, <1>10 DEF TypeInv, TypeOK

(* Events that leave the service, its queues and the memory alone.         *)
LEMMA LinkType ==
  ASSUME TypeInv, RadioOK', ClientOK',
         UNCHANGED <<opcodes, tx, task, queues, memory>>, system' \in {"on", "stop", "off"}
  PROVE  TypeInv'
<1>1. QueuesOK' /\ MemoryOK' /\ Located'
  BY DEF TypeInv, TypeOK, QueuesOK, queues, MemoryOK, memory, Located
<1>2. {pending', active'} \subseteq ControlPointOpcode
  BY DEF TypeInv, TypeOK, ServiceOK, opcodes
<1> QED BY <1>1, <1>2, ServiceKept DEF opcodes

LEMMA EventsType ==
  ASSUME TypeInv,
         \/ OnConnect \/ OnDisconnect \/ (\E on \in BOOLEAN : WriteCccd(on)) \/ BatteryLevel
         \/ StateStopsBle \/ BleStart
  PROVE  TypeInv'
<1>1. RadioOK /\ ClientOK /\ system \in {"on", "stop", "off"}
  BY DEF TypeInv, TypeOK, ServiceOK
<1>2. CASE OnConnect
  BY <1>1, <1>2, LinkType DEF OnConnect, RadioOK, ClientOK, client
<1>3. CASE OnDisconnect
  BY <1>1, <1>3, LinkType, LinkDownType DEF OnDisconnect
<1>4. CASE \E on \in BOOLEAN : WriteCccd(on)
  BY <1>1, <1>4, LinkType DEF WriteCccd, RadioOK, ClientOK, client
<1>5. CASE BatteryLevel
  <2> DEFINE p == [char |-> "battery", units |-> <<>>]
  <2>1. p \in PacketType
    BY NothingQueued DEF PacketType
  <2>2. air' = {p}
    BY <1>5 DEF BatteryLevel
  <2> HIDE DEF p
  <2>3. Cardinality(air') = 1 /\ air' \subseteq PacketType
    BY <2>1, <2>2, FS_Singleton
  <2>4. RadioOK'
    BY <1>1, <1>5, <2>3 DEF BatteryLevel, RadioOK
  <2>5. ClientOK'
    BY <1>1, <1>5 DEF BatteryLevel, ClientOK, client
  <2> QED BY <1>1, <1>5, <2>4, <2>5, LinkType DEF BatteryLevel
<1>6. CASE StateStopsBle
  BY <1>1, <1>6, LinkType DEF StateStopsBle, RadioOK, radio, ClientOK, client
<1>7. CASE BleStart
  BY <1>1, <1>7, LinkType DEF BleStart, RadioOK, radio, ClientOK, client
<1> QED BY <1>2, <1>3, <1>4, <1>5, <1>6, <1>7

LEMMA OwnerOrStopType ==
  ASSUME TypeInv, BleStop \/ (\E owner \in {"AUDIO", "BLE"} : SelectOwner(owner))
  PROVE  TypeInv'
<1>1. CASE BleStop
  <2>1. RadioOK' /\ ClientOK'
    BY <1>1, LinkDownType DEF BleStop
  <2>2. QueuesOK' /\ MemoryOK' /\ Located'
    BY <1>1 DEF BleStop, TypeInv, TypeOK, QueuesOK, queues, MemoryOK, memory, Located
  <2> QED BY <1>1, <2>1, <2>2, ServiceKept
          DEF BleStop, Idle, ControlPointOpcode, Characteristic, ReadingRequest, NeedsFile
<1>2. ASSUME NEW owner \in {"AUDIO", "BLE"}, SelectOwner(owner)
      PROVE  TypeInv'
  <2>1. mem' \in Server /\ mem'.file = NoFile
    BY <1>2, OwnerType DEF SelectOwner, TypeInv, TypeOK, MemoryOK
  <2>2. UNCHANGED <<radio, client, opcodes, enabled, tx, task, queues, answering, system>>
    BY <1>2 DEF SelectOwner
  <2>3. MemoryOK' /\ Located'
    BY <2>1, <2>2 DEF TypeInv, TypeOK, MemoryOK, Located
  <2>4. RadioOK' /\ ClientOK' /\ QueuesOK'
    BY <2>2 DEF TypeInv, TypeOK, RadioOK, radio, ClientOK, client, QueuesOK, queues
  <2>5. {pending', active'} \subseteq ControlPointOpcode /\ system' \in {"on", "stop", "off"}
    BY <2>2 DEF TypeInv, TypeOK, ServiceOK, opcodes
  <2> QED BY <2>2, <2>3, <2>4, <2>5, ServiceKept DEF opcodes
<1> QED BY <1>1, <1>2

LEMMA WritesType ==
  ASSUME TypeInv, ConfirmCompletion \/ (\E r \in Request : OnControlPointWrite(r))
  PROVE  TypeInv'
<1>1. RadioOK /\ tx \in Transaction /\ ServiceOK
  BY DEF TypeInv, TypeOK, ServiceOK
<1>2. CASE ConfirmCompletion
  <2>1. QueuesOK' /\ MemoryOK' /\ Located' /\ RadioOK' /\ ClientOK'
    BY <1>2 DEF ConfirmCompletion, TypeInv, TypeOK, QueuesOK, queues, MemoryOK, memory, Located,
                RadioOK, radio, ClientOK, client
  <2>2. {pending', active'} \subseteq ControlPointOpcode
    BY <1>1, <1>2 DEF ConfirmCompletion, ServiceOK, ControlPointOpcode
  <2> QED BY <1>1, <1>2, <2>1, <2>2, ServiceKept DEF ConfirmCompletion, ServiceOK, NeedsFile
<1>3. ASSUME NEW r \in Request, OnControlPointWrite(r)
      PROVE  TypeInv'
  <2>1. /\ want' = r /\ got' = <<>> /\ pending' \in {pending, r.cmd}
        /\ tx' = IF r.id = NoFile THEN tx ELSE [tx EXCEPT !.file = r.id]
        /\ UNCHANGED <<active, radio, enabled, system, task, queues, memory>>
        /\ r.cmd = "REQ_FILES_LIST_NEXT" => pending' = pending
    BY <1>3 DEF OnControlPointWrite
  <2>2. /\ r.cmd \in ReadingRequest \cup {"REQ_FILES_LIST_NEXT"}
        /\ r.id \in FileId \cup {NoFile} /\ (r.cmd \in NeedsFile => r.id # NoFile)
    BY FileTypes DEF Request, NeedsFile, ReadingRequest
  <2>3. tx' \in Transaction /\ tx'.buf = tx.buf /\ tx'.idx = tx.idx /\ tx'.packet = tx.packet
        /\ (tx'.file = tx.file \/ tx'.file # NoFile) /\ (r.id # NoFile => tx'.file # NoFile)
    <3>1. CASE r.id = NoFile
      BY <1>1, <2>1, <3>1
    <3>2. CASE r.id # NoFile
      BY <1>1, <2>1, <2>2, <3>2 DEF Transaction
    <3> QED BY <3>1, <3>2
  <2>4. ClientOK'
    BY <2>1, NothingQueued DEF ClientOK
  <2>5. ServiceOK'
    BY <1>1, <2>1, <2>2, <2>3 DEF ServiceOK, ControlPointOpcode
  <2>6. QueuesOK' /\ MemoryOK' /\ Located' /\ RadioOK'
    BY <2>1 DEF TypeInv, TypeOK, QueuesOK, queues, MemoryOK, memory, Located, RadioOK, radio
  <2>7. Pointers'
    BY <2>1, <2>3 DEF TypeInv, Pointers
  <2>8. FileNamed'
    BY <2>1, <2>2, <2>3 DEF TypeInv, FileNamed
  <2> QED BY <2>1, <2>4, <2>5, <2>6, <2>7, <2>8 DEF TypeInv, TypeOK
<1> QED BY <1>2, <1>3

LEMMA TypeStep ==
  ASSUME TypeInv, [Next]_vars
  PROVE  TypeInv'
<1>1. CASE UNCHANGED vars
  <2>1. RadioOK' /\ ClientOK'
    BY <1>1 DEF vars, TypeInv, TypeOK, RadioOK, ClientOK
  <2> QED BY <1>1, <2>1, LinkType
          DEF vars, opcodes, queues, memory, TypeInv, TypeOK, ServiceOK
<1>2. CASE BleStep
  <2>1. CASE TakeStatus
    BY <2>1, TakeStatusType
  <2>2. CASE Opened
    BY <2>2, OpenedType
  <2>3. CASE TakeData
    BY <2>3, TakeDataType
  <2>4. CASE SystemReset
    BY <2>4, RestartType DEF SystemReset
  <2>5. CASE NoAnswer
    BY <2>5, NoAnswerType
  <2>6. CASE Finish
    BY <2>6, FinishType
  <2>7. CASE FinalizeTransaction
    BY <2>7, FinalizeType
  <2>8. CASE PushDataPackets
    BY <2>8, PushType
  <2>9. CASE Refuse
    BY <2>9, RefuseType
  <2>10. CASE ProcessClientRequest
    BY <2>10, RequestType
  <2>11. CASE ReceiveCompleted
    BY <2>11, ReceiveCompletedType
  <2>12. CASE BleStop
    BY <2>12, OwnerOrStopType
  <2> QED BY <1>2, <2>1, <2>2, <2>3, <2>4, <2>5, <2>6, <2>7, <2>8, <2>9, <2>10, <2>11, <2>12
          DEF BleStep
<1>3. CASE MemoryStep
  BY <1>3, MemoryServesType, MemorySendsType DEF MemoryStep
<1>4. CASE NotificationSent
  BY <1>4, NotificationSentType
<1>5. CASE \/ OnConnect \/ OnDisconnect \/ (\E on \in BOOLEAN : WriteCccd(on)) \/ BatteryLevel
           \/ StateStopsBle \/ BleStart
  BY <1>5, EventsType
<1>6. CASE ConfirmCompletion \/ (\E r \in Request : OnControlPointWrite(r))
  BY <1>6, WritesType
<1>7. CASE PowerOff
  BY <1>7, RestartType DEF PowerOff
<1>8. CASE \E owner \in {"AUDIO", "BLE"} : SelectOwner(owner)
  BY <1>8, OwnerOrStopType
<1> QED BY <1>1, <1>2, <1>3, <1>4, <1>5, <1>6, <1>7, <1>8 DEF Next

(* Whatever client, link, memory task and state task do, the service's     *)
(* pointers stay inside its buffer, a status names a file, queues and the  *)
(* SoftDevice hold one element at most, of known units.                    *)
THEOREM TypeCorrect == Spec => []TypeOK
<1>1. Init => TypeInv
  BY InitType
<1>2. TypeInv /\ [Next]_vars => TypeInv'
  BY TypeStep
<1>3. TypeInv => TypeOK
  BY DEF TypeInv
<1> QED BY <1>1, <1>2, <1>3, PTL DEF Spec

(*------------------------- answers and what is sent ----------------------*)
LEMMA Calm ==
  ASSUME Races \subseteq MildRaces
  PROVE  {"eager", "completion", "battery", "early_switch", "slow_memory", "overlap"} \cap Races = {}
BY DEF MildRaces

LEMMA DataAnswer ==
  ASSUME tx.file \in File
  PROVE  LET a == Answer(Wanted("REQ_FILE_DATA"))
         IN  /\ a = FileUnits(tx.file)
             /\ Len(a) = Sizes[tx.file] /\ \A i \in 1 .. Len(a) : ~IsStatus(a[i])
             /\ Wanted("REQ_FILE_DATA") # NoRequest
             /\ "REQ_FILE_DATA" \in ListensTo(Wanted("REQ_FILE_DATA"))
<1> DEFINE w == Wanted("REQ_FILE_DATA")
<1>1. w = [cmd |-> "REQ_FILE_DATA", id |-> tx.file]
  BY DEF Wanted, NeedsFile
<1>2. Answer(w) = FileUnits(tx.file)
  BY <1>1 DEF Answer
<1>3. Len(FileUnits(tx.file)) = Sizes[tx.file]
  BY ServerUnits
<1>4. \A i \in 1 .. Sizes[tx.file] : ~IsStatus(FileUnits(tx.file)[i])
  BY DEF FileUnits, IsStatus
<1>5. w # NoRequest /\ "REQ_FILE_DATA" \in ListensTo(w)
  BY <1>1 DEF NoRequest, ListensTo
<1> QED BY <1>2, <1>3, <1>4, <1>5

LEMMA ListAnswer ==
  LET a == Answer(Wanted("REQ_FILES_LIST"))
  IN  /\ Len(a) = 1 + Total /\ \A i \in 1 .. 1 + Total : a[i] = ListUnit(i) /\ ~IsStatus(a[i])
      /\ Wanted("REQ_FILES_LIST") # NoRequest
      /\ {"REQ_FILES_LIST", "REQ_FILES_LIST_NEXT"} \subseteq ListensTo(Wanted("REQ_FILES_LIST"))
<1> DEFINE w == Wanted("REQ_FILES_LIST")
           first == <<Count(Total)>>
<1>1. w = [cmd |-> "REQ_FILES_LIST", id |-> NoFile]
  BY DEF Wanted, NeedsFile
<1>2. Answer(w) = first \o Names
  BY <1>1, FileTypes DEF Answer, Total
<1>3. Names \in Seq(Unit) /\ Len(Names) = Total /\ Total \in Nat
  BY ServerUnits, Units, Wider, FileTypes DEF Total
<1>4. first \in Seq(Unit) /\ Len(first) = 1 /\ first[1] = Count(Total)
  <2>1. Count(Total) \in Unit
    BY Units DEF Total, Reportable
  <2> QED BY <2>1
<1> HIDE DEF first
<1>5. /\ Len(first \o Names) = 1 + Total
      /\ \A i \in 1 .. 1 + Total :
           (first \o Names)[i] = IF i <= 1 THEN first[i] ELSE Names[i - 1]
  <2>1. /\ Len(first \o Names) = Len(first) + Len(Names)
        /\ \A i \in 1 .. Len(first) + Len(Names) :
             (first \o Names)[i] = IF i <= Len(first) THEN first[i] ELSE Names[i - Len(first)]
    BY <1>3, <1>4, ConcatProperties
  <2> QED BY <1>3, <1>4, <2>1
<1>6. \A i \in 1 .. 1 + Total : (first \o Names)[i] = ListUnit(i)
  BY <1>3, <1>4, <1>5 DEF ListUnit
<1>7. \A i \in 1 .. 1 + Total : ~IsStatus(ListUnit(i))
  <2> SUFFICES ASSUME NEW i \in 1 .. 1 + Total PROVE ~IsStatus(ListUnit(i))
    OBVIOUS
  <2>1. CASE i = 1
    BY <2>1 DEF ListUnit, Count, IsStatus
  <2>2. CASE i # 1
    <3>1. i - 1 \in File
      BY <1>3, <2>2, FileTypes DEF Total
    <3> QED BY <2>2, <3>1 DEF ListUnit, Names, IsStatus
  <2> QED BY <2>1, <2>2
<1>8. w # NoRequest /\ {"REQ_FILES_LIST", "REQ_FILES_LIST_NEXT"} \subseteq ListensTo(w)
  BY <1>1 DEF NoRequest, ListensTo
<1> QED BY <1>2, <1>5, <1>6, <1>7, <1>8

LEMMA InfoAnswer ==
  ASSUME tx.file \in File
  PROVE  LET a == Answer(Wanted("REQ_FILE_INFO"))
         IN  /\ a = <<InfoUnit(tx.file)>>
             /\ Wanted("REQ_FILE_INFO") # NoRequest
             /\ "REQ_FILE_INFO" \in ListensTo(Wanted("REQ_FILE_INFO"))
<1> DEFINE w == Wanted("REQ_FILE_INFO")
<1>1. w = [cmd |-> "REQ_FILE_INFO", id |-> tx.file]
  BY DEF Wanted, NeedsFile
<1>2. Answer(w) = <<InfoUnit(tx.file)>>
  BY <1>1 DEF Answer
<1>3. w # NoRequest /\ "REQ_FILE_INFO" \in ListensTo(w)
  BY <1>1 DEF NoRequest, ListensTo
<1> QED BY <1>2, <1>3

LEMMA StatAnswer ==
  LET a == Answer(Wanted("REQ_FS_STATUS"))
  IN  /\ a = <<StatUnit>>
      /\ Wanted("REQ_FS_STATUS") # NoRequest
      /\ "REQ_FS_STATUS" \in ListensTo(Wanted("REQ_FS_STATUS"))
<1> DEFINE w == Wanted("REQ_FS_STATUS")
<1>1. w = [cmd |-> "REQ_FS_STATUS", id |-> NoFile]
  BY DEF Wanted, NeedsFile
<1>2. Answer(w) = <<StatUnit>>
  BY <1>1, FileTypes DEF Answer
<1>3. w # NoRequest /\ "REQ_FS_STATUS" \in ListensTo(w)
  BY <1>1 DEF NoRequest, ListensTo
<1> QED BY <1>2, <1>3

(* The next units of the answer arrive.                                    *)
LEMMA GotMore ==
  ASSUME ClientOK, NEW p \in PacketType, Receive(p), want # NoRequest, p.char \in ListensTo(want),
         \A i \in 1 .. Len(got) : got[i] = Answer(want)[i] /\ ~IsStatus(Answer(want)[i]),
         Len(Answer(want)) \in Nat,
         Len(got) + Len(p.units) <= Len(Answer(want)),
         \A i \in 1 .. Len(p.units) : p.units[i] = Answer(want)[Len(got) + i]
  PROVE  /\ want' = want /\ Len(got') = Len(got) + Len(p.units)
         /\ \A i \in 1 .. Len(got') : got'[i] = Answer(want)[i]
<1> DEFINE a == Answer(want)  u == p.units
<1>1. got \in Seq(Unit) /\ u \in Seq(Unit) /\ Len(got) \in Nat /\ Len(u) \in Nat
  BY DEF ClientOK, PacketType
<1>2. /\ got \o u \in Seq(Unit) /\ Len(got \o u) = Len(got) + Len(u)
      /\ \A i \in 1 .. Len(got) + Len(u) :
           (got \o u)[i] = IF i <= Len(got) THEN got[i] ELSE u[i - Len(got)]
  BY <1>1, ConcatProperties
<1>3. want' = want /\ (got' = got \o u \/ (got' = got /\ ~Waiting))
  BY DEF Receive
<1> HIDE DEF a, u
<1>4. \A i \in 1 .. Len(got) : got[i] = a[i]
  BY DEF a
<1>5. \A i \in 1 .. Len(u) : u[i] = a[Len(got) + i]
  BY DEF a, u
<1>6. CASE got' = got \o u
  <2>1. \A i \in 1 .. Len(got) + Len(u) : (got \o u)[i] = a[i]
    <3> SUFFICES ASSUME NEW i \in 1 .. Len(got) + Len(u) PROVE (got \o u)[i] = a[i]
      OBVIOUS
    <3>1. CASE i <= Len(got)
      BY <1>1, <1>2, <1>4, <3>1
    <3>2. CASE ~(i <= Len(got))
      <4>1. i - Len(got) \in 1 .. Len(u) /\ Len(got) + (i - Len(got)) = i
        BY <1>1, <3>2
      <4> QED BY <1>1, <1>2, <1>5, <3>2, <4>1
    <3> QED BY <3>1, <3>2
  <2> QED BY <1>2, <1>3, <1>6, <2>1 DEF a, u
<1>7. CASE got' = got /\ ~Waiting
  <2>1. \A i \in DOMAIN got : ~IsStatus(got[i])
    BY <1>1
  <2>2. Len(got) >= Len(a)
    BY <1>1, <1>7, <2>1 DEF Waiting, a
  <2>3. Len(u) = 0
    BY <1>1, <2>2 DEF a, u
  <2> QED BY <1>1, <1>3, <1>4, <1>7, <2>3 DEF a, u
<1> QED BY <1>3, <1>6, <1>7

(* A client that asked for nothing takes nothing.                          *)
LEMMA GotNothing ==
  ASSUME NEW p, Receive(p), want = NoRequest
  PROVE  want' = want /\ got' = got
BY DEF Receive, Waiting

(* The window of the buffer moves by the packet that was sent.             *)
LEMMA Advanced ==
  ASSUME tx \in Transaction, Window, Len(tx.buf) <= BufferSize + ListFirst + PacketSize
  PROVE  LET u == Advance(tx)
         IN  /\ u.file = tx.file /\ u.buf = tx.buf /\ u.fileSize = tx.fileSize
             /\ u.sent = tx.sent /\ u.left = tx.left
             /\ u.idx = tx.idx + tx.packet /\ u.idx <= Len(u.buf)
             /\ u.packet = Least(Len(u.buf) - u.idx, PacketSize)
             /\ u.packet = 0 => u.idx = Len(u.buf)
<1> DEFINE i == Least(tx.idx + tx.packet, BufferSize + ListFirst + PacketSize)
           v == [tx EXCEPT !.idx = i]
<1>1. tx.idx \in Nat /\ tx.packet \in Nat /\ Len(tx.buf) \in Nat
      /\ tx.idx + tx.packet <= Len(tx.buf)
  BY Naturals0 DEF Transaction, Window, Least
<1>2. i = tx.idx + tx.packet /\ i \in Nat
  BY <1>1, Naturals0 DEF Least
<1>3. Advance(tx) = UpdateNextPacketSize(v)
  BY DEF Advance
<1> HIDE DEF i
<1>4. v \in Transaction /\ v.file = tx.file /\ v.buf = tx.buf /\ v.idx = i /\ v.sent = tx.sent
      /\ v.left = tx.left /\ v.fileSize = tx.fileSize
  BY <1>2 DEF Transaction
<1>5. v.idx <= Len(v.buf)
  BY <1>1, <1>2, <1>4
<1> DEFINE u == UpdateNextPacketSize(v)
<1> HIDE DEF v
<1>6. /\ u.file = v.file /\ u.buf = v.buf /\ u.idx = v.idx /\ u.fileSize = v.fileSize
      /\ u.sent = v.sent /\ u.left = v.left
      /\ u.packet = Least(Len(v.buf) - v.idx, PacketSize)
  BY <1>4, <1>5, PacketSizeUpdated
<1> HIDE DEF u
<1>7. u.packet = 0 => u.idx = Len(u.buf)
  BY <1>1, <1>2, <1>4, <1>5, <1>6, Naturals0 DEF Least
<1> QED BY <1>2, <1>3, <1>4, <1>5, <1>6, <1>7 DEF u

(* What the SoftDevice holds is the window of the buffer.                  *)
LEMMA InTheAir ==
  ASSUME tx \in Transaction, NEW p \in PacketType, Carried(p)
  PROVE  /\ Len(p.units) = tx.packet
         /\ \A n \in 1 .. tx.packet : p.units[n] = tx.buf[tx.idx + n]
         /\ p.char \in Characteristic
<1>1. tx.idx + tx.packet <= Len(tx.buf)
  BY Naturals0 DEF Transaction, Carried, Window, Least
<1>2. p.char \in Characteristic
  BY DEF Carried, Characteristic, ReadingRequest
<1>3. p = Packet(p.char, tx)
  BY DEF Carried
<1> QED BY <1>1, <1>2, <1>3, PacketTyped

LEMMA WantedSame ==
  ASSUME tx'.file = tx.file, NEW c
  PROVE  Wanted(c)' = Wanted(c)
BY DEF Wanted

(* A notification arrives: the client gets what comes next in its answer,  *)
(* and the buffer still continues where the client is.                     *)
LEMMA DataDelivered ==
  ASSUME TypeInv, NEW p \in air, Carried(p), p.char = "REQ_FILE_DATA", Receive(p),
         tx' = Advance(tx), UNCHANGED <<mem, system>>, NothingForeign
  PROVE  DataBuffer' /\ Window' /\ NothingForeign'
         /\ (tx'.packet = 0 => tx'.idx = Len(tx'.buf))
<1>1. p \in PacketType /\ tx \in Transaction /\ ClientOK
  BY DEF TypeInv, TypeOK, RadioOK, ServiceOK
<1>2. DataBuffer /\ Window
  BY DEF Carried
<1>3. /\ Len(p.units) = tx.packet
      /\ \A n \in 1 .. tx.packet : p.units[n] = tx.buf[tx.idx + n]
  BY <1>1, InTheAir
<1>4. /\ tx'.file = tx.file /\ tx'.buf = tx.buf /\ tx'.fileSize = tx.fileSize
      /\ tx'.sent = tx.sent /\ tx'.left = tx.left
      /\ tx'.idx = tx.idx + tx.packet /\ tx'.idx <= Len(tx'.buf)
      /\ tx'.packet = Least(Len(tx'.buf) - tx'.idx, PacketSize)
      /\ tx'.packet = 0 => tx'.idx = Len(tx'.buf)
  <2>1. Len(tx.buf) <= BufferSize + ListFirst + PacketSize
    BY <1>1, <1>2, Naturals0 DEF DataBuffer, Transaction
  <2> QED BY <1>1, <1>2, <2>1, Advanced
<1>5. Window'
  BY <1>4 DEF Window
<1>6. /\ tx.sent \in Nat /\ tx.idx \in Nat /\ tx.packet \in Nat /\ Len(tx.buf) \in Nat
      /\ tx.idx + tx.packet <= Len(tx.buf) /\ Sizes[tx.file] \in Nat
      /\ tx.file \in File /\ tx.sent + Len(tx.buf) <= Sizes[tx.file]
  <2>1. tx.sent \in Nat /\ tx.idx \in Nat /\ tx.packet \in Nat /\ Len(tx.buf) \in Nat
    BY <1>1, Naturals0 DEF Transaction
  <2>2. tx.file \in File /\ Sizes[tx.file] \in Nat /\ tx.sent + Len(tx.buf) <= Sizes[tx.file]
    BY <1>2, FileTypes DEF DataBuffer
  <2>3. tx.idx + tx.packet <= Len(tx.buf)
    BY <1>4
  <2> QED BY <2>1, <2>2, <2>3
<1>7. Agrees("REQ_FILE_DATA", tx.sent + tx.idx)
  BY <1>2 DEF DataBuffer
<1> DEFINE w == Wanted("REQ_FILE_DATA")  a == Answer(Wanted("REQ_FILE_DATA"))
<1>8. /\ a = FileUnits(tx.file) /\ Len(a) = Sizes[tx.file]
      /\ \A i \in 1 .. Len(a) : ~IsStatus(a[i])
      /\ w # NoRequest /\ "REQ_FILE_DATA" \in ListensTo(w)
  BY <1>6, DataAnswer
<1>9. CASE want = NoRequest
  <2>1. want' = NoRequest /\ want' = want /\ got' = got
    BY <1>9, GotNothing
  <2>2. DataBuffer'
    BY <1>2, <1>4, <2>1 DEF DataBuffer, Agrees
  <2>3. NothingForeign'
    BY <2>1 DEF NothingForeign
  <2> QED BY <1>4, <1>5, <2>2, <2>3
<1>10. CASE want # NoRequest
  <2>1. /\ want = w /\ Len(got) = tx.sent + tx.idx
        /\ \A i \in 1 .. Len(got) : got[i] = Answer(want)[i]
    BY <1>7, <1>10 DEF Agrees
  <2>12. Len(got) \in 0 .. Sizes[tx.file] /\ Answer(want) = a
    <3>1. tx.sent + tx.idx \in 0 .. Sizes[tx.file]
      BY <1>6
    <3> QED BY <2>1, <3>1
  <2>2. \A i \in 1 .. Len(got) : got[i] = Answer(want)[i] /\ ~IsStatus(Answer(want)[i])
    <3> HIDE DEF a, w
    <3>1. \A i \in 1 .. Len(got) : i \in 1 .. Len(a)
      BY <1>6, <1>8, <2>12
    <3> QED BY <1>8, <2>1, <2>12, <3>1
  <2>3. Len(got) + Len(p.units) <= Len(Answer(want)) /\ Len(Answer(want)) \in Nat
    <3> HIDE DEF a, w
    <3>1. Len(Answer(want)) = Sizes[tx.file]
      BY <1>8, <2>12
    <3>2. Len(got) + Len(p.units) = tx.sent + tx.idx + tx.packet
      BY <1>3, <2>1
    <3>3. tx.sent + tx.idx + tx.packet <= Sizes[tx.file]
      BY <1>6
    <3> QED BY <1>6, <3>1, <3>2, <3>3
  <2>4. \A i \in 1 .. Len(p.units) : p.units[i] = Answer(want)[Len(got) + i]
    <3> SUFFICES ASSUME NEW i \in 1 .. Len(p.units) PROVE p.units[i] = Answer(want)[Len(got) + i]
      OBVIOUS
    <3>1. i \in 1 .. tx.packet /\ tx.idx + i \in 1 .. Len(tx.buf)
          /\ tx.sent + (tx.idx + i) = Len(got) + i
      <4>1. i \in 1 .. tx.packet
        BY <1>3
      <4>2. tx.idx + i \in 1 .. Len(tx.buf) /\ tx.sent + (tx.idx + i) = (tx.sent + tx.idx) + i
        BY <1>6, <4>1
      <4> QED BY <2>1, <4>1, <4>2
    <3>2. p.units[i] = tx.buf[tx.idx + i]
      BY <1>3, <3>1
    <3>3. tx.buf[tx.idx + i] = FileUnits(tx.file)[tx.sent + (tx.idx + i)]
      BY <1>2, <3>1 DEF DataBuffer
    <3> QED BY <1>8, <2>1, <3>1, <3>2, <3>3
  <2>5. p.char \in ListensTo(want)
    BY <1>8, <2>1
  <2>6. /\ want' = want /\ Len(got') = Len(got) + Len(p.units)
        /\ \A i \in 1 .. Len(got') : got'[i] = Answer(want)[i]
    BY <1>1, <1>10, <2>2, <2>3, <2>4, <2>5, GotMore
  <2>7. Len(got') = tx'.sent + tx'.idx
    BY <1>3, <1>4, <1>6, <2>1, <2>6
  <2>8. want' = Wanted("REQ_FILE_DATA")'
    BY <1>4, <2>1, <2>6, WantedSame
  <2>9. Agrees("REQ_FILE_DATA", tx.sent + tx.idx)'
    BY <2>6, <2>7, <2>8 DEF Agrees
  <2>10. DataBuffer'
    BY <1>2, <1>4, <2>9 DEF DataBuffer
  <2>11. NothingForeign'
    <3>1. ClientOK'
      BY <1>1, ReceivedType
    <3>2. DOMAIN got' = 1 .. Len(got')
      BY <3>1 DEF ClientOK
    <3>3. Len(got') <= Len(Answer(want)) /\ Len(got') \in Nat
      BY <2>3, <2>6, <3>1 DEF ClientOK
    <3> QED BY <2>6, <3>2, <3>3 DEF NothingForeign
  <2> QED BY <1>4, <1>5, <2>10, <2>11
<1> QED BY <1>9, <1>10

LEMMA ListDelivered ==
  ASSUME TypeInv, NEW p \in air, Carried(p), p.char \in {"REQ_FILES_LIST", "REQ_FILES_LIST_NEXT"},
         Receive(p), tx' = Advance(tx), UNCHANGED <<mem, system>>, NothingForeign
  PROVE  ListBuffer' /\ NothingForeign' /\ tx'.packet = 0 /\ tx'.idx = Len(tx'.buf)
<1>1. p \in PacketType /\ tx \in Transaction /\ ClientOK
  BY DEF TypeInv, TypeOK, RadioOK, ServiceOK
<1>2. ListBuffer /\ Window /\ tx.idx = 0 /\ Len(tx.buf) <= PacketSize
  BY DEF Carried
<1>3. /\ Len(p.units) = tx.packet
      /\ \A n \in 1 .. tx.packet : p.units[n] = tx.buf[tx.idx + n]
  BY <1>1, InTheAir
<1>4. /\ tx'.file = tx.file /\ tx'.buf = tx.buf /\ tx'.left = tx.left
      /\ tx'.idx = tx.idx + tx.packet
      /\ tx'.packet = Least(Len(tx'.buf) - tx'.idx, PacketSize)
  <2>1. Len(tx.buf) <= BufferSize + ListFirst + PacketSize
    BY <1>1, <1>2, Naturals0 DEF Transaction
  <2> QED BY <1>1, <1>2, <2>1, Advanced
<1>5. Len(tx.buf) \in Nat /\ tx.left \in Nat /\ tx.packet = Len(tx.buf) /\ Total \in Nat
  BY <1>1, <1>2, FileTypes, Naturals0 DEF Transaction, Window, Least, Total
<1>6. tx'.packet = 0 /\ tx'.idx = Len(tx'.buf)
  BY <1>2, <1>4, <1>5, Naturals0 DEF Least
<1> DEFINE before == 1 + Total - tx.left - Len(tx.buf)
           w == Wanted("REQ_FILES_LIST")  a == Answer(Wanted("REQ_FILES_LIST"))
<1>7. /\ before \in Nat /\ Agrees("REQ_FILES_LIST", before)
      /\ \A i \in 1 .. Len(tx.buf) : tx.buf[i] = ListUnit(before + i)
  BY <1>2, <1>5 DEF ListBuffer
<1>8. /\ Len(a) = 1 + Total /\ \A i \in 1 .. 1 + Total : a[i] = ListUnit(i) /\ ~IsStatus(a[i])
      /\ w # NoRequest /\ p.char \in ListensTo(w)
  BY ListAnswer
<1>9. before + Len(tx.buf) <= 1 + Total /\ before + Len(tx.buf) = 1 + Total - tx.left
  BY <1>5
<1>10. CASE want = NoRequest
  <2>1. want' = NoRequest /\ want' = want /\ got' = got
    BY <1>10, GotNothing
  <2>2. ListBuffer'
    BY <1>2, <1>4, <2>1 DEF ListBuffer, Agrees
  <2>3. NothingForeign'
    BY <2>1 DEF NothingForeign
  <2> QED BY <1>6, <2>2, <2>3
<1>11. CASE want # NoRequest
  <2> HIDE DEF before
  <2>1. /\ want = w /\ Len(got) = before
        /\ \A i \in 1 .. Len(got) : got[i] = Answer(want)[i]
    BY <1>7, <1>11 DEF Agrees
  <2>2. \A i \in 1 .. Len(got) : got[i] = Answer(want)[i] /\ ~IsStatus(Answer(want)[i])
    BY <1>5, <1>7, <1>8, <1>9, <2>1
  <2>3. Len(got) + Len(p.units) <= Len(Answer(want)) /\ Len(Answer(want)) \in Nat
    BY <1>3, <1>5, <1>8, <1>9, <2>1
  <2>4. \A i \in 1 .. Len(p.units) : p.units[i] = Answer(want)[Len(got) + i]
    <3> SUFFICES ASSUME NEW i \in 1 .. Len(p.units) PROVE p.units[i] = Answer(want)[Len(got) + i]
      OBVIOUS
    <3>1. i \in 1 .. Len(tx.buf) /\ tx.idx + i = i /\ before + i \in 1 .. 1 + Total
      BY <1>2, <1>3, <1>5, <1>7, <1>9
    <3>2. p.units[i] = tx.buf[i]
      BY <1>3, <1>5, <3>1
    <3> QED BY <1>7, <1>8, <2>1, <3>1, <3>2
  <2>5. p.char \in ListensTo(want)
    BY <1>8, <2>1
  <2>6. /\ want' = want /\ Len(got') = Len(got) + Len(p.units)
        /\ \A i \in 1 .. Len(got') : got'[i] = Answer(want)[i]
    BY <1>1, <1>11, <2>2, <2>3, <2>4, <2>5, GotMore
  <2>7. Len(got') = before + tx'.idx
    BY <1>2, <1>3, <1>4, <1>5, <1>7, <2>1, <2>6
  <2>8. want' = Wanted("REQ_FILES_LIST")'
    BY <1>4, <2>1, <2>6, WantedSame
  <2>9. ListBuffer'
    BY <1>2, <1>4, <2>6, <2>7, <2>8 DEF ListBuffer, Agrees, before
  <2>10. NothingForeign'
    <3>1. ClientOK'
      BY <1>1, ReceivedType
    <3>2. DOMAIN got' = 1 .. Len(got')
      BY <3>1 DEF ClientOK
    <3>3. Len(got') <= Len(Answer(want)) /\ Len(got') \in Nat
      BY <2>3, <2>6, <3>1 DEF ClientOK
    <3> QED BY <2>6, <3>2, <3>3 DEF NothingForeign
  <2> QED BY <1>6, <2>9, <2>10
<1> QED BY <1>10, <1>11

(* A single unit, whose request the client is waiting for.                 *)
LEMMA OneDelivered ==
  ASSUME TypeInv, NEW p \in air, Carried(p), p.char \in {"REQ_FILE_INFO", "REQ_FS_STATUS"},
         Receive(p), NothingForeign, tx' = Advance(tx)
  PROVE  NothingForeign' /\ tx'.packet = 0
<1>1. p \in PacketType /\ tx \in Transaction /\ ClientOK
  BY DEF TypeInv, TypeOK, RadioOK, ServiceOK
<1>2. PICK u : OneBuffer(p.char, u) /\ (want # NoRequest =>
          want = Wanted(p.char) /\ Answer(want) = <<u>> /\ p.char \in ListensTo(want))
  <2>1. CASE p.char = "REQ_FILE_INFO"
    <3>1. tx.file \in File /\ OneBuffer(p.char, InfoUnit(tx.file))
      BY <2>1 DEF Carried
    <3> QED BY <2>1, <3>1, InfoAnswer DEF OneBuffer, Agrees
  <2>2. CASE p.char = "REQ_FS_STATUS"
    <3>1. OneBuffer(p.char, StatUnit)
      BY <2>2 DEF Carried
    <3> QED BY <2>2, <3>1, StatAnswer DEF OneBuffer, Agrees
  <2> QED BY <2>1, <2>2
<1>3. Window /\ tx.buf = <<u>> /\ tx.idx = 0
  BY <1>2 DEF OneBuffer, Carried
<1>4. tx.packet = 1 /\ Len(tx.buf) = 1
  BY <1>3, Naturals0 DEF Window, Least
<1>5. tx'.packet = 0
  <2>1. Len(tx.buf) <= BufferSize + ListFirst + PacketSize
    BY <1>4, Naturals0
  <2>2. /\ tx'.buf = tx.buf /\ tx'.idx = tx.idx + tx.packet
        /\ tx'.packet = Least(Len(tx'.buf) - tx'.idx, PacketSize)
    BY <1>1, <1>3, <2>1, Advanced
  <2> QED BY <1>3, <1>4, <2>2, Naturals0 DEF Least
<1>6. Len(p.units) = 1 /\ p.units[1] = u
  BY <1>1, <1>3, <1>4, InTheAir
<1>7. CASE want = NoRequest
  BY <1>5, <1>7, GotNothing DEF NothingForeign
<1>8. CASE want # NoRequest
  <2>1. /\ want = Wanted(p.char) /\ Answer(want) = <<u>> /\ p.char \in ListensTo(want)
        /\ Len(got) = 0
    BY <1>2, <1>8 DEF OneBuffer, Agrees
  <2>2. /\ want' = want /\ Len(got') = Len(got) + Len(p.units)
        /\ \A i \in 1 .. Len(got') : got'[i] = Answer(want)[i]
    <3>1. \A i \in 1 .. Len(got) : got[i] = Answer(want)[i] /\ ~IsStatus(Answer(want)[i])
      BY <2>1
    <3>2. Len(Answer(want)) = 1 /\ Len(got) + Len(p.units) <= Len(Answer(want))
      BY <1>6, <2>1
    <3>3. \A i \in 1 .. Len(p.units) : p.units[i] = Answer(want)[Len(got) + i]
      BY <1>6, <2>1
    <3> QED BY <1>1, <1>8, <2>1, <3>1, <3>2, <3>3, GotMore
  <2>3. ClientOK'
    BY <1>1, ReceivedType
  <2>4. DOMAIN got' = 1 .. 1 /\ Len(Answer(want)) = 1
    BY <1>6, <2>1, <2>2, <2>3 DEF ClientOK
  <2> QED BY <1>5, <1>6, <2>1, <2>2, <2>4 DEF NothingForeign
<1> QED BY <1>7, <1>8

(* A general status is whatever the service says of the request.           *)
LEMMA StatusDelivered ==
  ASSUME TypeInv, NEW p \in air, Carried(p), p.char = "GENERAL_STATUS",
         Receive(p), NothingForeign, tx' = Advance(tx)
  PROVE  NothingForeign' /\ tx'.packet = 0
<1>1. p \in PacketType /\ tx \in Transaction /\ ClientOK
  BY DEF TypeInv, TypeOK, RadioOK, ServiceOK
<1>2. Window /\ Len(tx.buf) = 1 /\ IsStatus(tx.buf[1]) /\ tx.idx = 0
  BY DEF Carried
<1>3. tx.packet = 1
  BY <1>2, Naturals0 DEF Window, Least
<1>4. tx'.packet = 0
  <2>1. Len(tx.buf) <= BufferSize + ListFirst + PacketSize
    BY <1>2, Naturals0
  <2>2. /\ tx'.buf = tx.buf /\ tx'.idx = tx.idx + tx.packet
        /\ tx'.packet = Least(Len(tx'.buf) - tx'.idx, PacketSize)
    BY <1>1, <1>2, <2>1, Advanced
  <2> QED BY <1>2, <1>3, <2>2, Naturals0 DEF Least
<1>5. Len(p.units) = 1 /\ p.units[1] = tx.buf[1]
  BY <1>1, <1>2, <1>3, InTheAir
<1>6. want' = want /\ (got' = got \/ got' = got \o p.units)
  BY DEF Receive
<1>7. CASE got' = got
  BY <1>4, <1>6, <1>7 DEF NothingForeign
<1>8. CASE got' = got \o p.units
  <2>1. got \in Seq(Unit) /\ p.units \in Seq(Unit)
    BY <1>1 DEF ClientOK, PacketType
  <2>2. /\ got \o p.units \in Seq(Unit) /\ Len(got \o p.units) = Len(got) + Len(p.units)
        /\ \A i \in 1 .. Len(got) + Len(p.units) :
             (got \o p.units)[i] = IF i <= Len(got) THEN got[i] ELSE p.units[i - Len(got)]
    BY <2>1, ConcatProperties
  <2>3. DOMAIN got' = 1 .. Len(got) + 1 /\ Len(got) \in Nat /\ DOMAIN got = 1 .. Len(got)
    BY <1>5, <1>8, <2>1, <2>2
  <2>4. \A i \in 1 .. Len(got) : got'[i] = got[i]
    BY <1>5, <1>8, <2>2, <2>3
  <2>5. IsStatus(got'[Len(got) + 1])
    <3>1. got'[Len(got) + 1] = p.units[1]
      BY <1>5, <1>8, <2>2, <2>3
    <3> QED BY <1>2, <1>5, <3>1
  <2>6. \A i \in DOMAIN got' : i \in 1 .. Len(got) \/ i = Len(got) + 1
    BY <2>3
  <2> QED BY <1>4, <1>6, <2>3, <2>4, <2>5, <2>6 DEF NothingForeign
<1> QED BY <1>6, <1>7, <1>8

(*--------------------- one request after the other -----------------------*)
LEMMA Busy ==
  ASSUME ServiceInv, task.at \in {"status", "data"}
  PROVE  /\ air = {} /\ system = "on" /\ mem.owner = "BLE" /\ task # Loop
         /\ active # "REQ_RECEIVE_COMPLETE" /\ task.op \in CallOp
         /\ Asked \/ StatusThere \/ DataThere
<1>1. task # Loop /\ task.at # "finish"
  BY DEF Loop
<1> QED BY <1>1 DEF ServiceInv, MildInv, Exchange, Calling, Link

LEMMA Free ==
  ASSUME ServiceInv, task = Loop, pending # "IDLE"
  PROVE  AtRest /\ air = {} /\ active # "REQ_RECEIVE_COMPLETE" /\ system # "off"
<1>1. task.at = "loop" /\ task.op = "none"
  BY DEF Loop
<1> QED BY <1>1 DEF ServiceInv, MildInv, Exchange, Looping, Link, CallOp, Asked, StatusThere, DataThere

LEMMA Finished ==
  ASSUME ServiceInv, task.at = "finish"
  PROVE  AtRest /\ system = "on" /\ active # "REQ_RECEIVE_COMPLETE" /\ task # Loop
<1>1. task # Loop
  BY DEF Loop
<1> QED BY <1>1 DEF ServiceInv, MildInv, Exchange, Link, Asked, StatusThere, DataThere

(* What the invariant says of the client and the buffer depends on them,   *)
(* on the memory and on whether BLE is on.                                 *)
LEMMA FlowSame ==
  ASSUME UNCHANGED <<tx, client, mem, system>>
  PROVE  /\ (DataBuffer' <=> DataBuffer) /\ (ListBuffer' <=> ListBuffer) /\ (Window' <=> Window)
         /\ \A c, n : Agrees(c, n)' <=> Agrees(c, n)
         /\ \A p : Carried(p)' <=> Carried(p)
<1>1. want' = want /\ got' = got /\ tx' = tx /\ mem' = mem /\ system' = system
  BY DEF client
<1>2. /\ (DataBuffer' <=> DataBuffer) /\ (ListBuffer' <=> ListBuffer) /\ (Window' <=> Window)
      /\ \A c, n : Agrees(c, n)' <=> Agrees(c, n)
  BY <1>1 DEF DataBuffer, ListBuffer, Window, Agrees, Wanted
<1>3. \A c, u : OneBuffer(c, u)' <=> OneBuffer(c, u)
  BY <1>1, <1>2 DEF OneBuffer
<1>4. \A p : Carried(p)' <=> Carried(p)
  BY <1>1, <1>2, <1>3 DEF Carried, Packet
<1> QED BY <1>2, <1>4

LEMMA PushedWindow ==
  ASSUME NEW op, NEW t \in Transaction, t.idx <= Len(t.buf), air = {},
         NEW done \in Outcome, NEW failed \in Outcome, Push(op, t, done, failed)
  PROVE  /\ tx'.file = t.file /\ tx'.buf = t.buf /\ tx'.idx = t.idx /\ tx'.fileSize = t.fileSize
         /\ tx'.sent = t.sent /\ tx'.left = t.left
         /\ Window'
         /\ task'.at = "finish" /\ task'.op \in Outcome
         /\ air' # {} => conn /\ task'.op = done
         /\ \A p \in air' : p.char = op /\ p = Packet(p.char, tx')
<1>1. tx' = UpdateNextPacketSize(t)
  BY DEF Push
<1>2. /\ tx'.file = t.file /\ tx'.buf = t.buf /\ tx'.idx = t.idx /\ tx'.fileSize = t.fileSize
      /\ tx'.sent = t.sent /\ tx'.left = t.left
      /\ tx'.packet = Least(Len(t.buf) - t.idx, PacketSize)
  BY <1>1, PacketSizeUpdated
<1>3. Window'
  BY <1>2 DEF Window
<1>4. CASE CanNotify(op)
  <2>1. air' = {Packet(op, tx')} /\ task' = At("finish", done) /\ conn
    BY <1>1, <1>4 DEF Push, CanNotify
  <2>2. \A p \in air' : p = Packet(op, tx')
    BY <2>1
  <2>3. Packet(op, tx').char = op
    BY DEF Packet
  <2> QED BY <1>2, <1>3, <2>1, <2>2, <2>3, TaskTyped
<1>5. CASE ~CanNotify(op)
  <2>1. air' = {} /\ task' = At("finish", failed)
    BY <1>5 DEF Push
  <2> QED BY <1>2, <1>3, <2>1, TaskTyped
<1> QED BY <1>4, <1>5

LEMMA AfterPushMild ==
  ASSUME ServiceInv, system = "on", active # "REQ_RECEIVE_COMPLETE", AtRest',
         task'.at = "finish", task'.op \in Outcome, Finishing', air' # {} => conn,
         UNCHANGED <<opcodes, conn, subscribed, client, enabled, system, memory>>
  PROVE  MildInv'
<1>1. Exchange'
  BY DEF Exchange, Outcome
<1>2. Calling' /\ Looping'
  BY DEF Calling, Looping, Loop, Outcome
<1>3. Link'
  BY DEF ServiceInv, MildInv, Link, opcodes, client, memory
<1>4. NothingForeign'
  BY DEF ServiceInv, MildInv, NothingForeign, client
<1> QED BY <1>1, <1>2, <1>3, <1>4 DEF MildInv

(* A general status after a file that does not exist or is open already.   *)
LEMMA StatusPushedMild ==
  ASSUME ServiceInv, NEW u \in Unit, IsStatus(u), UpdateGeneralStatus(u, "keep"),
         air = {}, ~IsRequest(active), pending # "REQ_RECEIVE_COMPLETE", system = "on", active # "REQ_RECEIVE_COMPLETE", AtRest',
         UNCHANGED <<opcodes, conn, subscribed, client, enabled, system, memory>>
  PROVE  MildInv'
<1> DEFINE b == <<u>>
           t == [tx EXCEPT !.buf = b, !.idx = 0]
<1>1. b \in Seq(Unit) /\ Len(b) = 1 /\ b[1] = u
  OBVIOUS
<1>2. Push("GENERAL_STATUS", t, "keep", "keep")
  BY DEF UpdateGeneralStatus
<1> HIDE DEF b
<1>3. t \in Transaction /\ t.idx = 0 /\ t.buf = b
  BY <1>1 DEF ServiceInv, TypeInv, TypeOK, ServiceOK, Transaction
<1>4. t.idx <= Len(t.buf)
  BY <1>1, <1>3
<1> HIDE DEF t
<1>5. /\ tx'.buf = t.buf /\ tx'.idx = t.idx /\ Window'
      /\ task'.at = "finish" /\ task'.op \in Outcome
      /\ air' # {} => conn /\ task'.op = "keep"
      /\ \A p \in air' : p.char = "GENERAL_STATUS" /\ p = Packet(p.char, tx')
  BY <1>2, <1>3, <1>4, PushedWindow DEF Outcome
<1>6. \A p \in air' : Carried(p)'
  BY <1>1, <1>3, <1>5 DEF Carried
<1>7. Finishing'
  BY <1>5, <1>6 DEF Finishing, IsRequest, opcodes
<1> QED BY <1>5, <1>7, AfterPushMild

LEMMA TakeStatusMild ==
  ASSUME Races \subseteq MildRaces, ServiceInv, TakeStatus
  PROVE  MildInv'
<1>1. /\ task.at = "status" /\ statusQ # <<>> /\ answering = "none"
      /\ statusQ' = <<>> /\ UNCHANGED <<cmdQ, dataQ>>
      /\ UNCHANGED <<opcodes, conn, subscribed, client, enabled, system, memory>>
  BY Calm DEF TakeStatus, BleTurn
<1>2. StatusThere /\ air = {} /\ system = "on" /\ active # "REQ_RECEIVE_COMPLETE" /\ task.op \in CallOp
  BY <1>1, Busy DEF Asked, DataThere
<1>3. Head(statusQ) = statusQ[1] /\ cmdQ = <<>>
  BY <1>1, <1>2, InQueue DEF ServiceInv, TypeInv, TypeOK, StatusThere
<1>4. AtRest'
  BY <1>1, <1>3 DEF AtRest, memory
<1>5. CASE task' = Loop /\ task.op = "close" /\ UNCHANGED <<tx, air>>
  <2>1. Exchange'
    BY <1>4, <1>5 DEF Exchange
  <2>2. Calling' /\ Finishing'
    BY <1>5 DEF Calling, Finishing, Loop
  <2>3. /\ (DataBuffer' <=> DataBuffer) /\ (ListBuffer' <=> ListBuffer) /\ (Window' <=> Window)
        /\ \A c, n : Agrees(c, n)' <=> Agrees(c, n)
        /\ \A p : Carried(p)' <=> Carried(p)
    BY <1>1, <1>5, FlowSame DEF memory
  <2>4. Looping'
    BY <1>1, <1>2, <1>5, <2>3 DEF ServiceInv, MildInv, Looping, opcodes
  <2>5. Link' /\ NothingForeign'
    BY <1>1, <1>2, <1>5 DEF ServiceInv, MildInv, Link, opcodes, client, memory, NothingForeign
  <2> QED BY <2>1, <2>2, <2>4, <2>5 DEF MildInv
<1>6. CASE task.op \notin {"open", "close"} /\ Head(statusQ).result = "OK"
           /\ task' = [At("data", task.op) EXCEPT !.size = Head(statusQ).size] /\ UNCHANGED <<tx, air>>
  <2>1. task' = [at |-> "data", op |-> task.op, size |-> statusQ[1].size]
    BY <1>3, <1>6 DEF At
  <2>2. task'.at = "data" /\ task'.op = task.op /\ task'.size = statusQ[1].size
    BY <2>1
  <2>3. dataQ = <<Element(task.op)>> /\ Served(task.op, statusQ[1].size)
    BY <1>1, <1>2, <1>3, <1>6 DEF StatusThere, CommandOf, CallOp
  <2>4. Served(task.op, task.size)'
    BY <1>1, <1>6, <2>2, <2>3 DEF Served, memory
  <2>5. dataQ' = <<Element(task.op)'>>
    BY <1>1, <2>2, <2>3 DEF Element, memory
  <2>6. Exchange'
    BY <1>2, <1>4, <1>6, <2>2, <2>4, <2>5 DEF Exchange, DataThere
  <2>7. \A c, n : Agrees(c, n)' <=> Agrees(c, n)
    BY <1>1, <1>6, FlowSame DEF memory
  <2>8. Calling'
    BY <1>1, <1>2, <1>6, <2>2, <2>7 DEF ServiceInv, MildInv, Calling, opcodes
  <2>9. Looping' /\ Finishing'
    BY <1>6, <2>2 DEF Looping, Finishing, Loop
  <2>10. Link' /\ NothingForeign'
    BY <1>1, <1>2, <1>6 DEF ServiceInv, MildInv, Link, opcodes, client, memory, NothingForeign
  <2> QED BY <2>6, <2>8, <2>9, <2>10 DEF MildInv
<1>7. CASE Head(statusQ).result # "OK" /\ Failed(task.op, Head(statusQ).result)
  <2>1. task.op \in {"info", "open", "close"}
    BY <1>2, <1>3, <1>7 DEF StatusThere
  <2>2. CASE task.op = "close"
    BY <1>5, <1>7, <2>2 DEF Failed
  <2>3. CASE task.op \in {"info", "open"}
    <3>1. ~IsRequest(active) /\ tx.file \in FileId /\ pending # "REQ_RECEIVE_COMPLETE"
      BY <1>1, <2>3 DEF ServiceInv, MildInv, Calling, TypeInv, TypeOK, ServiceOK, Transaction,
                        FileNamed, RequestOf
    <3>2. IsStatus(FsCorrupt) /\ IsStatus(NotFound(tx.file))
      BY DEF IsStatus, FsCorrupt, NotFound
    <3>3. UpdateGeneralStatus(FsCorrupt, "keep") \/ UpdateGeneralStatus(NotFound(tx.file), "keep")
      BY <1>7, <2>3 DEF Failed
    <3> QED BY <1>1, <1>2, <1>4, <3>1, <3>2, <3>3, Units, StatusPushedMild
  <2> QED BY <2>1, <2>2, <2>3
<1> QED BY <1>5, <1>6, <1>7 DEF TakeStatus

LEMMA OpenedMild ==
  ASSUME Races \subseteq MildRaces, ServiceInv, Opened
  PROVE  MildInv'
<1>1. /\ task.at = "status" /\ task.op = "open" /\ statusQ # <<>> /\ answering = "none"
      /\ Head(statusQ).result = "OK" /\ statusQ' = <<>> /\ Call("read")
      /\ tx' = [tx EXCEPT !.idx = 0, !.fileSize = Head(statusQ).size]
      /\ UNCHANGED <<opcodes, radio, client, enabled, system, memory>>
  BY Calm DEF Opened, BleTurn
<1>2. StatusThere /\ air = {} /\ system = "on" /\ active # "REQ_RECEIVE_COMPLETE"
  BY <1>1, Busy DEF Asked, DataThere
<1>3. Head(statusQ) = statusQ[1] /\ cmdQ = <<>>
  BY <1>1, <1>2, InQueue DEF ServiceInv, TypeInv, TypeOK, StatusThere
<1>4. tx.file \in File /\ mem.file = tx.file /\ mem.at = 0 /\ Head(statusQ).size = Sizes[tx.file]
  BY <1>1, <1>2, <1>3 DEF StatusThere, Served
<1>5. cmdQ' = <<[cmd |-> "GET_FILE_DATA", id |-> tx.file]>> /\ task' = At("status", "read")
  BY <1>1, <1>3 DEF Call, CommandOf
<1>6. task'.at = "status" /\ task'.op = "read"
  BY <1>5 DEF At
<1>7. tx'.file = tx.file /\ tx'.fileSize = Sizes[tx.file]
  BY <1>1, <1>4 DEF ServiceInv, TypeInv, TypeOK, ServiceOK, Transaction
<1>8. Ready("read")'
  BY <1>1, <1>4, <1>7 DEF Ready, memory
<1>9. Asked'
  <2>1. Len(cmdQ') = 1 /\ cmdQ'[1].cmd = "GET_FILE_DATA" /\ cmdQ'[1].id = tx'.file
    BY <1>5, <1>7
  <2> QED BY <1>1, <1>6, <1>8, <2>1 DEF Asked, CommandOf, memory
<1>10. Exchange'
  BY <1>6, <1>9 DEF Exchange, CallOp
<1>11. pending = "REQ_FILE_DATA" /\ ~IsRequest(active) /\ Agrees(pending, 0)
  BY <1>1 DEF ServiceInv, MildInv, Calling, RequestOf
<1>12. Agrees(pending, 0)'
  BY <1>1, <1>7, <1>11 DEF Agrees, Wanted, opcodes, client
<1>13. Calling'
  BY <1>1, <1>2, <1>6, <1>11, <1>12 DEF Calling, opcodes, radio, RequestOf, IsRequest
<1>14. Looping' /\ Finishing'
  BY <1>6 DEF Looping, Finishing, Loop
<1>15. Link' /\ NothingForeign'
  BY <1>1, <1>2 DEF ServiceInv, MildInv, Link, opcodes, client, memory, radio, NothingForeign
<1> QED BY <1>10, <1>13, <1>14, <1>15 DEF MildInv

LEMMA NoAnswerNever ==
  ASSUME Races \subseteq MildRaces, ServiceInv, NoAnswer
  PROVE  FALSE
<1>1. \/ task.at = "unsent"
      \/ task.at = "status" /\ statusQ = <<>> /\ (cmdQ = <<>> \/ mem.owner = "AUDIO")
      \/ task.at = "data" /\ dataQ = <<>>
  BY Calm DEF NoAnswer
<1>2. CASE task.at = "unsent"
  BY <1>2 DEF ServiceInv, MildInv, Exchange, Loop, Asked, StatusThere, DataThere
<1>3. CASE task.at = "status" /\ statusQ = <<>> /\ (cmdQ = <<>> \/ mem.owner = "AUDIO")
  <2>1. mem.owner = "BLE" /\ (Asked \/ StatusThere)
    BY <1>3, Busy DEF DataThere
  <2>2. Len(<<>>) = 0
    OBVIOUS
  <2> QED BY <1>3, <2>1, <2>2 DEF Asked, StatusThere
<1>4. CASE task.at = "data" /\ dataQ = <<>>
  <2>1. DataThere
    BY <1>4, Busy DEF Asked, StatusThere
  <2>2. <<Element(task.op)>> # <<>>
    OBVIOUS
  <2> QED BY <1>4, <2>1, <2>2 DEF DataThere
<1> QED BY <1>1, <1>2, <1>3, <1>4

LEMMA FinishMild ==
  ASSUME ServiceInv, Finish
  PROVE  MildInv'
<1>1. /\ task.at = "finish" /\ task' = Loop /\ pending' = "IDLE" /\ tx' = tx
      /\ UNCHANGED <<radio, client, enabled, system, queues, memory>>
  BY DEF Finish
<1>2. task.op \in Outcome
  BY <1>1 DEF ServiceInv, TypeInv
<1>3. active' = IF task.op = "accept" THEN pending ELSE IF task.op = "idle" THEN "IDLE" ELSE active
  BY <1>2 DEF Finish, Outcome
<1>4. AtRest /\ system = "on" /\ active # "REQ_RECEIVE_COMPLETE"
  BY <1>1, Finished
<1>5. AtRest'
  BY <1>1, <1>4 DEF AtRest, queues, memory
<1>6. Exchange' /\ Calling' /\ Finishing'
  BY <1>1, <1>5 DEF Exchange, Calling, Finishing, Loop
<1>7. \A p \in air' : Carried(p)' /\ p \in air /\ Carried(p)
  <2>1. \A p : Carried(p)' <=> Carried(p)
    BY <1>1, FlowSame DEF memory
  <2> QED BY <1>1, <2>1 DEF ServiceInv, MildInv, Finishing, radio
<1>8. \A p \in air' :
        /\ p.char = "REQ_FILE_DATA" <=> active' = "REQ_FILE_DATA"
        /\ p.char \in {"REQ_FILES_LIST", "REQ_FILES_LIST_NEXT"} <=> active' = "REQ_FILES_LIST"
  <2> SUFFICES ASSUME NEW p \in air'
               PROVE  /\ p.char = "REQ_FILE_DATA" <=> active' = "REQ_FILE_DATA"
                      /\ p.char \in {"REQ_FILES_LIST", "REQ_FILES_LIST_NEXT"} <=> active' = "REQ_FILES_LIST"
    OBVIOUS
  <2>1. p \in air
    BY <1>1 DEF radio
  <2>2. \/ /\ task.op = "accept" /\ pending = p.char
           /\ p.char \in {"REQ_FILES_LIST", "REQ_FILE_INFO", "REQ_FILE_DATA"}
        \/ task.op = "idle" /\ p.char = "REQ_FS_STATUS"
        \/ task.op = "keep" /\ p.char = "REQ_FILE_DATA" /\ active = "REQ_FILE_DATA"
        \/ task.op = "keep" /\ p.char = "REQ_FILES_LIST_NEXT" /\ active = "REQ_FILES_LIST"
        \/ task.op = "keep" /\ p.char = "GENERAL_STATUS" /\ ~IsRequest(active)
    BY <1>1, <2>1 DEF ServiceInv, MildInv, Finishing
  <2> QED BY <1>3, <2>2 DEF IsRequest, ReadingRequest
<1>9. Looping'
  BY <1>1, <1>7, <1>8 DEF Looping, ReadingRequest
<1>10. active' # "REQ_RECEIVE_COMPLETE"
  BY <1>1, <1>3, <1>4 DEF ServiceInv, MildInv, Finishing
<1>11. Link' /\ NothingForeign'
  BY <1>1, <1>4, <1>10 DEF ServiceInv, MildInv, Link, client, memory, radio, NothingForeign
<1> QED BY <1>6, <1>9, <1>11 DEF MildInv

(* After a call that was made: the command is in the memory task's queue.  *)
LEMMA CalledMild ==
  ASSUME AtRest, NEW op \in CallOp, Call(op), statusQ' = statusQ, UNCHANGED memory,
         tx'.file = tx.file \/ op = "close", Ready(op)'
  PROVE  Asked' /\ Exchange' /\ task'.at = "status" /\ task'.op = op
<1>1. cmdQ' = <<[cmd |-> CommandOf(op), id |-> tx.file]>> /\ task' = At("status", op)
  BY DEF AtRest, Call
<1>2. task'.at = "status" /\ task'.op = op
  BY <1>1, TaskTyped
<1>3. Len(cmdQ') = 1 /\ cmdQ'[1].cmd = CommandOf(op) /\ (op # "close" => cmdQ'[1].id = tx'.file)
  BY <1>1
<1>4. Asked'
  BY <1>2, <1>3 DEF Asked, AtRest, memory
<1> QED BY <1>2, <1>4 DEF Exchange

LEMMA RequestMild ==
  ASSUME ServiceInv, ProcessClientRequest
  PROVE  MildInv'
<1>1. PICK op \in CallOp :
        /\ Call(op) /\ op \in {"list", "info", "open", "stat"} /\ pending = RequestOf(op)
  BY RequestCalls
<1>2. /\ task = Loop /\ pending \in ReadingRequest /\ ~IsRequest(active) /\ system # "stop"
      /\ UNCHANGED <<opcodes, radio, client, enabled, system, tx, statusQ, memory>>
  BY DEF ProcessClientRequest, Processing
<1>3. AtRest /\ air = {} /\ active # "REQ_RECEIVE_COMPLETE" /\ system = "on"
  BY <1>2, Free DEF ReadingRequest, ServiceInv, TypeInv, TypeOK, ServiceOK
<1>4. Ready(op)'
  BY <1>1 DEF Ready
<1>5. Asked' /\ Exchange' /\ task'.at = "status" /\ task'.op = op
  BY <1>1, <1>2, <1>3, <1>4, CalledMild
<1>6. Agrees(pending, 0)
  BY <1>2 DEF ServiceInv, MildInv, Looping
<1>7. Agrees(pending, 0)'
  BY <1>2, <1>6 DEF Agrees, Wanted, opcodes, client
<1>8. Calling'
  BY <1>1, <1>2, <1>3, <1>5, <1>7 DEF Calling, opcodes, radio, IsRequest
<1>9. Looping' /\ Finishing'
  BY <1>1, <1>5 DEF Looping, Finishing, Loop
<1>10. Link' /\ NothingForeign'
  BY <1>2, <1>3 DEF ServiceInv, MildInv, Link, opcodes, client, memory, radio, NothingForeign
<1> QED BY <1>5, <1>8, <1>9, <1>10 DEF MildInv

LEMMA FinalizeMild ==
  ASSUME ServiceInv, FinalizeTransaction
  PROVE  MildInv'
<1>1. /\ task = Loop /\ pending = "FINALIZE_TRANSACTION" /\ system # "stop"
      /\ UNCHANGED <<radio, client, enabled, system, statusQ, memory>>
  BY DEF FinalizeTransaction, Processing
<1>2. AtRest /\ air = {} /\ active # "REQ_RECEIVE_COMPLETE" /\ system = "on"
  BY <1>1, Free DEF ServiceInv, TypeInv, TypeOK, ServiceOK
<1>3. /\ active = "REQ_FILE_DATA" => DataBuffer /\ tx.idx = Len(tx.buf)
      /\ active = "REQ_FILES_LIST" => ListBuffer /\ tx.idx = Len(tx.buf)
  BY <1>1 DEF ServiceInv, MildInv, Looping
<1>4. tx \in Transaction /\ tx.sent \in Nat /\ Len(tx.buf) \in Nat /\ tx.left \in Nat
      /\ mem.listed \in 0 .. Total /\ Total \in Nat
  BY FileTypes DEF ServiceInv, TypeInv, TypeOK, ServiceOK, Transaction, MemoryOK, Server, Total
<1>5. NothingForeign' /\ (active' # "REQ_RECEIVE_COMPLETE" => Link')
  BY <1>1, <1>2 DEF ServiceInv, MildInv, NothingForeign, client, Link, radio, memory
<1>6. CASE active = "REQ_FILE_DATA" /\ FileTransferred
  <2>1. Call("close") /\ Idle /\ tx' = [tx EXCEPT !.sent = tx.sent + Len(tx.buf)]
    BY <1>6 DEF FileTransferred
  <2>2. Ready("close")'
    BY DEF Ready
  <2>3. Exchange' /\ task'.at = "status" /\ task'.op = "close"
    BY <1>1, <1>2, <2>1, <2>2, CalledMild DEF CallOp
  <2>4. Calling' /\ Looping' /\ Finishing'
    BY <1>1, <1>2, <2>1, <2>3 DEF Calling, Looping, Finishing, Idle, radio, ReadingRequest
  <2> QED BY <1>2, <1>5, <2>1, <2>3, <2>4 DEF MildInv, Idle
<1>7. CASE /\ active = "REQ_FILE_DATA" /\ tx.sent + Len(tx.buf) # tx.fileSize
           /\ tx' = [tx EXCEPT !.sent = tx.sent + Len(tx.buf)] /\ Call("more") /\ UNCHANGED opcodes
  <2>1. tx'.file = tx.file /\ tx'.fileSize = tx.fileSize /\ tx'.sent = tx.sent + Len(tx.buf)
    BY <1>4, <1>7 DEF Transaction
  <2>2. /\ tx.file \in File /\ mem.file = tx.file /\ tx.fileSize = Sizes[tx.file]
        /\ mem.at = tx.sent + Len(tx.buf) /\ tx.sent + Len(tx.buf) <= tx.fileSize
        /\ Agrees("REQ_FILE_DATA", tx.sent + tx.idx) /\ tx.idx = Len(tx.buf) /\ tx.fileSize \in Nat
    BY <1>2, <1>3, <1>4, <1>7 DEF DataBuffer, Transaction
  <2>3. Ready("more")'
    <3>1. tx.sent + Len(tx.buf) < tx.fileSize
      BY <1>4, <1>7, <2>2
    <3> QED BY <1>1, <2>1, <2>2, <3>1 DEF Ready, memory
  <2>4. Exchange' /\ task'.at = "status" /\ task'.op = "more"
    BY <1>1, <1>2, <1>7, <2>1, <2>3, CalledMild DEF CallOp
  <2>5. Agrees("REQ_FILE_DATA", tx.sent)'
    BY <1>1, <2>1, <2>2 DEF Agrees, Wanted, client
  <2>6. Calling' /\ Looping' /\ Finishing'
    BY <1>1, <1>2, <1>7, <2>4, <2>5 DEF Calling, Looping, Finishing, opcodes, radio, Loop
  <2> QED BY <1>2, <1>5, <1>7, <2>4, <2>6 DEF MildInv, opcodes
<1>8. CASE active = "REQ_FILES_LIST" /\ tx.left > 0 /\ Call("next") /\ UNCHANGED <<opcodes, tx>>
  <2>1. /\ mem.listed = Total - tx.left /\ mem.needed
        /\ Agrees("REQ_FILES_LIST", (1 + Total - tx.left - Len(tx.buf)) + tx.idx)
        /\ tx.idx = Len(tx.buf)
    BY <1>2, <1>3, <1>8 DEF ListBuffer
  <2>2. tx.left \in 1 .. Total
    BY <1>4, <1>8, <2>1
  <2>3. Ready("next")'
    BY <1>1, <1>8, <2>1, <2>2 DEF Ready, memory
  <2>4. Exchange' /\ task'.at = "status" /\ task'.op = "next"
    BY <1>1, <1>2, <1>8, <2>3, CalledMild DEF CallOp
  <2>5. (1 + Total - tx.left - Len(tx.buf)) + tx.idx = 1 + Total - tx.left
    BY <1>4, <2>1
  <2>6. Agrees("REQ_FILES_LIST", 1 + Total - tx.left)
    BY <2>1, <2>5
  <2>7. Agrees("REQ_FILES_LIST", 1 + Total - tx.left)'
    BY <1>1, <1>8, <2>6 DEF Agrees, Wanted, client
  <2>8. Calling' /\ Looping' /\ Finishing'
    BY <1>1, <1>2, <1>8, <2>4, <2>7 DEF Calling, Looping, Finishing, opcodes, radio, Loop
  <2> QED BY <1>2, <1>5, <1>8, <2>4, <2>8 DEF MildInv, opcodes
<1>9. CASE Idle /\ UNCHANGED <<tx, task, cmdQ, dataQ>>
  <2>1. task' = Loop /\ AtRest'
    BY <1>1, <1>2, <1>9 DEF AtRest, memory
  <2>2. Exchange' /\ Calling' /\ Finishing'
    BY <2>1 DEF Exchange, Calling, Finishing, Loop
  <2>3. Looping'
    BY <1>1, <1>2, <1>9 DEF Looping, Idle, radio, ReadingRequest
  <2> QED BY <1>2, <1>5, <1>9, <2>1, <2>2, <2>3 DEF MildInv, Idle
<1> QED BY <1>6, <1>7, <1>8, <1>9 DEF FinalizeTransaction

LEMMA PushMild ==
  ASSUME ServiceInv, PushDataPackets
  PROVE  MildInv'
<1>1. /\ task = Loop /\ pending = "PUSH_DATA_PACKETS" /\ system # "stop"
      /\ Push(active, tx, "keep", "idle")
      /\ UNCHANGED <<conn, subscribed, opcodes, client, enabled, system, queues, memory>>
  BY DEF PushDataPackets, Processing
<1>2. AtRest /\ air = {} /\ active # "REQ_RECEIVE_COMPLETE" /\ system = "on"
  BY <1>1, Free DEF ServiceInv, TypeInv, TypeOK, ServiceOK
<1>3. active = "REQ_FILE_DATA" /\ DataBuffer /\ Window
  BY <1>1 DEF ServiceInv, MildInv, Looping
<1>4. tx \in Transaction
  BY DEF ServiceInv, TypeInv, TypeOK, ServiceOK
<1>5. /\ tx'.file = tx.file /\ tx'.buf = tx.buf /\ tx'.idx = tx.idx /\ tx'.fileSize = tx.fileSize
      /\ tx'.sent = tx.sent /\ Window'
      /\ task'.at = "finish" /\ task'.op \in Outcome
      /\ air' # {} => conn /\ task'.op = "keep"
      /\ \A p \in air' : p.char = "REQ_FILE_DATA" /\ p = Packet(p.char, tx')
  <2>1. tx.idx <= Len(tx.buf)
    BY <1>3 DEF Window
  <2> QED BY <1>1, <1>2, <1>3, <1>4, <2>1, PushedWindow DEF Outcome
<1>6. DataBuffer'
  BY <1>1, <1>3, <1>5 DEF DataBuffer, Agrees, Wanted, client, memory
<1>7. Finishing'
  BY <1>1, <1>3, <1>5, <1>6 DEF Finishing, Carried, opcodes
<1>8. AtRest'
  BY <1>1, <1>2 DEF AtRest, queues, memory
<1> QED BY <1>1, <1>2, <1>5, <1>7, <1>8, AfterPushMild

LEMMA RefuseMild ==
  ASSUME ServiceInv, Refuse
  PROVE  MildInv'
<1>1. /\ task = Loop /\ pending # "IDLE" /\ pending' = "IDLE" /\ active' = active
      /\ UNCHANGED <<radio, client, enabled, system, tx, task, queues, memory>>
  BY DEF Refuse, ReadingRequest
<1>2. AtRest /\ air = {}
  BY <1>1, Free
<1>3. AtRest'
  BY <1>1, <1>2 DEF AtRest, queues, memory
<1>4. Exchange' /\ Calling' /\ Finishing'
  BY <1>1, <1>3 DEF Exchange, Calling, Finishing, Loop
<1>5. Looping'
  BY <1>1, <1>2 DEF Looping, radio, ReadingRequest
<1>6. Link' /\ NothingForeign'
  BY <1>1 DEF ServiceInv, MildInv, Link, client, memory, radio, NothingForeign
<1> QED BY <1>4, <1>5, <1>6 DEF MildInv

LEMMA ReceiveCompletedMild ==
  ASSUME ServiceInv, ReceiveCompleted
  PROVE  MildInv'
<1>1. /\ task = Loop /\ pending = "REQ_RECEIVE_COMPLETE" /\ pending' = "IDLE" /\ LinkDown
      /\ active' = "REQ_RECEIVE_COMPLETE" /\ system # "stop"
      /\ UNCHANGED <<enabled, system, tx, task, statusQ, dataQ, memory>>
  BY DEF ReceiveCompleted, Processing
<1>2. system = "on"
  BY <1>1, Free DEF ServiceInv, TypeInv, TypeOK, ServiceOK
<1>3. Exchange' /\ Calling' /\ Finishing'
  BY <1>1 DEF Exchange, Calling, Finishing, Loop
<1>4. Looping'
  BY <1>1 DEF Looping, LinkDown, ReadingRequest
<1>5. Link' /\ NothingForeign'
  BY <1>1, <1>2 DEF ServiceInv, MildInv, Link, LinkDown, memory, NothingForeign
<1> QED BY <1>3, <1>4, <1>5 DEF MildInv

LEMMA RestartMild ==
  ASSUME Restart
  PROVE  MildInv'
<1>1. AtRest' /\ task' = Loop /\ air' = {} /\ pending' = "IDLE" /\ system' = "on"
  BY DEF Restart, AtRest
<1>2. Exchange' /\ Calling' /\ Finishing'
  BY <1>1 DEF Exchange, Calling, Finishing, Loop
<1>3. Looping'
  BY <1>1 DEF Looping, ReadingRequest
<1>4. Link' /\ NothingForeign'
  BY <1>1 DEF Restart, Link, NothingForeign, ServerStart
<1> QED BY <1>2, <1>3, <1>4 DEF MildInv

LEMMA InitMild ==
  ASSUME Init
  PROVE  MildInv
<1>1. AtRest /\ task = Loop /\ air = {} /\ pending = "IDLE" /\ system = "on"
  BY DEF Init, AtRest
<1>2. Exchange /\ Calling /\ Finishing
  BY <1>1 DEF Exchange, Calling, Finishing, Loop
<1>3. Looping
  BY <1>1 DEF Looping, ReadingRequest
<1>4. Link /\ NothingForeign
  BY <1>1 DEF Init, Link, NothingForeign, ServerStart
<1> QED BY <1>2, <1>3, <1>4 DEF MildInv

(* A chunk of the file that is being read, and where it belongs.           *)
LEMMA DataChunk ==
  ASSUME tx \in Transaction, NEW op \in {"read", "more"}, NEW size, Served(op, size)
  PROVE  LET from == IF op = "read" THEN 0 ELSE tx.sent
         IN  /\ from \in Nat /\ tx.file \in File /\ mem.file = tx.file /\ tx.fileSize = Sizes[tx.file]
             /\ mem.at \in Nat /\ mem.at <= tx.fileSize /\ Len(mem.elem) = mem.at - from
             /\ from < mem.at /\ mem.at - from <= BufferSize
             /\ \A n \in 1 .. Len(mem.elem) : mem.elem[n] = FileUnits(tx.file)[from + n]
<1> DEFINE from == IF op = "read" THEN 0 ELSE tx.sent
<1>1. from \in Nat
  BY DEF Transaction
<1>2. /\ tx.file \in File /\ mem.file = tx.file /\ tx.fileSize = Sizes[tx.file]
      /\ from < tx.fileSize /\ mem.at = Least(from + BufferSize, tx.fileSize)
      /\ mem.elem = SubSeq(FileUnits(tx.file), from + 1, mem.at)
  BY DEF Served
<1> HIDE DEF from
<1>3. tx.fileSize \in Nat /\ Len(FileUnits(tx.file)) = tx.fileSize
      /\ FileUnits(tx.file) \in Seq(ServerUnit)
  BY <1>2, FileTypes, ServerUnits
<1>4. mem.at \in Nat /\ from < mem.at /\ mem.at <= tx.fileSize /\ mem.at - from <= BufferSize
  BY <1>1, <1>2, <1>3, Naturals0 DEF Least
<1>5. /\ Len(mem.elem) = mem.at - from
      /\ \A n \in 1 .. mem.at - from : mem.elem[n] = FileUnits(tx.file)[from + n]
  <2> DEFINE s == FileUnits(tx.file)  j == mem.at
  <2>1. s \in Seq(ServerUnit) /\ j \in Nat /\ from <= j /\ j <= Len(s) /\ mem.elem = SubSeq(s, from + 1, j)
    BY <1>1, <1>2, <1>3, <1>4
  <2> HIDE DEF s, j
  <2>2. /\ Len(mem.elem) = j - from
        /\ \A n \in 1 .. j - from : mem.elem[n] = s[from + n]
    BY <1>1, <2>1, Part
  <2> QED BY <2>2 DEF s, j
<1> QED BY <1>1, <1>2, <1>4, <1>5 DEF from

LEMMA DataNotEmpty ==
  ASSUME tx \in Transaction, NEW op \in {"read", "more"}, NEW size, Served(op, size)
  PROVE  mem.elem # <<>>
<1>1. PICK from \in Nat : Len(mem.elem) = mem.at - from /\ from < mem.at /\ mem.at \in Nat
  BY DataChunk
<1>2. Len(<<>>) = 0
  OBVIOUS
<1> QED BY <1>1, <1>2

LEMMA DataRead ==
  ASSUME tx \in Transaction, NEW op \in {"read", "more"}, NEW size, Served(op, size),
         NEW from \in Nat, from = (IF op = "read" THEN 0 ELSE tx.sent),
         tx'.file = tx.file, tx'.fileSize = tx.fileSize, tx'.buf = mem.elem, tx'.idx = 0,
         tx'.sent = from, mem' = mem, Agrees("REQ_FILE_DATA", from)'
  PROVE  DataBuffer'
<1>1. /\ tx.file \in File /\ mem.file = tx.file /\ tx.fileSize = Sizes[tx.file]
      /\ mem.at \in Nat /\ mem.at <= tx.fileSize /\ Len(mem.elem) = mem.at - from
      /\ from < mem.at /\ mem.at - from <= BufferSize
      /\ \A n \in 1 .. Len(mem.elem) : mem.elem[n] = FileUnits(tx.file)[from + n]
  BY DataChunk
<1>2. from + Len(mem.elem) = mem.at /\ from + 0 = from
  BY <1>1
<1>3. Agrees("REQ_FILE_DATA", tx.sent + tx.idx)'
  BY <1>2 DEF Agrees
<1> QED BY <1>1, <1>2, <1>3 DEF DataBuffer

(* The next piece of a list of n names, left of which are to be sent.      *)
LEMMA NextPiece ==
  ASSUME NEW n \in Nat, NEW left \in 1 .. n, NEW from, from = n - left
  PROVE  LET upTo == Least(from + ListNext, n)
         IN  /\ from \in Nat /\ upTo \in Nat /\ from <= upTo /\ upTo <= n
             /\ upTo - from <= PacketSize /\ upTo - from <= left
             /\ upTo - from \in Nat /\ left - (upTo - from) = n - upTo
BY Naturals0 DEF Least

(* The data that answer a command are pushed.                              *)
LEMMA TakeDataMild ==
  ASSUME Races \subseteq MildRaces, ServiceInv, TakeData
  PROVE  MildInv'
<1>1. /\ task.at = "data" /\ dataQ # <<>> /\ dataQ' = <<>>
      /\ UNCHANGED <<opcodes, conn, subscribed, client, enabled, system, cmdQ, statusQ, memory>>
  BY DEF TakeData
<1>2. DataThere /\ air = {} /\ system = "on" /\ active # "REQ_RECEIVE_COMPLETE" /\ task.op \in CallOp
  BY <1>1, Busy DEF Asked, StatusThere
<1>3. AtRest' /\ tx \in Transaction /\ mem \in Server
  BY <1>1, <1>2 DEF DataThere, AtRest, memory, ServiceInv, TypeInv, TypeOK, ServiceOK, MemoryOK
<1> DEFINE units == Head(dataQ).units
<1>4. units = mem.elem /\ units \in Seq(Unit) /\ Len(units) \in Nat
  <2>1. dataQ = <<Element(task.op)>>
    BY <1>2 DEF DataThere
  <2>2. Head(dataQ) = Element(task.op)
    BY <2>1
  <2>3. units = mem.elem
    BY <2>2 DEF Element
  <2>4. mem.elem \in Seq(Unit)
    <3>1. mem.elem \in Seq(ServerUnit)
      BY <1>3 DEF Server
    <3> QED BY <3>1, Units, Wider
  <2> HIDE DEF units
  <2> QED BY <2>3, <2>4
<1>5. Served(task.op, task.size)
  BY <1>2 DEF DataThere
<1>6. /\ task.op \in {"list", "info", "open", "read", "stat"} =>
           pending = RequestOf(task.op) /\ ~IsRequest(active) /\ Agrees(pending, 0)
      /\ task.op = "more" =>
           /\ pending = "FINALIZE_TRANSACTION" /\ active = "REQ_FILE_DATA"
           /\ Agrees("REQ_FILE_DATA", tx.sent)
      /\ task.op = "next" =>
           /\ pending = "FINALIZE_TRANSACTION" /\ active = "REQ_FILES_LIST"
           /\ Agrees("REQ_FILES_LIST", 1 + Total - tx.left)
  BY <1>1 DEF ServiceInv, MildInv, Calling
<1>7. SUFFICES /\ Finishing' /\ task'.at = "finish" /\ task'.op \in Outcome /\ (air' # {} => conn)
  BY <1>1, <1>2, <1>3, AfterPushMild
<1>8. pending' # "REQ_RECEIVE_COMPLETE" /\ pending' = pending /\ active' = active
      /\ want' = want /\ got' = got /\ mem' = mem /\ system' = system
  BY <1>1, <1>2, <1>6 DEF opcodes, client, memory, CallOp, RequestOf, DataThere
<1>9. Total \in Nat /\ Total > 0
  BY FileTypes DEF Total
<1> HIDE DEF units
<1>10. CASE task.op = "list" /\ SendFilesList(task.size, units)
  <2> DEFINE k == Least(ListFirst, Total)
             first == <<Count(Total)>>
             names == SubSeq(units, 1, k)
             b == first \o names
             l == IF Total > ListFirst THEN Total - ListFirst ELSE 0
             t == [tx EXCEPT !.left = l, !.buf = b, !.idx = 0]
  <2>1. /\ task.size = Total /\ mem.listed = k /\ (ListFirst < Total => mem.needed)
        /\ units = SubSeq(Names, 0 + 1, k)
    BY <1>4, <1>5, <1>10 DEF Served
  <2>2. k \in Nat /\ k <= Total /\ k <= ListFirst /\ l \in Nat /\ l = Total - k
        /\ 1 + k <= PacketSize /\ (l > 0 => ListFirst < Total)
    BY <1>9, Naturals0 DEF Least
  <2>3. Names \in Seq(Unit) /\ Len(Names) = Total
    BY ServerUnits, Units, Wider DEF Total
  <2> HIDE DEF k, l
  <2>4. Len(units) = k /\ \A n \in 1 .. k : units[n] = Names[n]
    <3>1. /\ Len(SubSeq(Names, 0 + 1, k)) = k - 0
          /\ \A n \in 1 .. k - 0 : SubSeq(Names, 0 + 1, k)[n] = Names[0 + n]
      BY <2>2, <2>3, Part
    <3> QED BY <2>1, <2>2, <3>1
  <2>5. names \in Seq(Unit) /\ Len(names) = k /\ \A n \in 1 .. k : names[n] = Names[n]
    <3>1. /\ SubSeq(units, 0 + 1, k) \in Seq(Unit) /\ Len(SubSeq(units, 0 + 1, k)) = k - 0
          /\ \A n \in 1 .. k - 0 : SubSeq(units, 0 + 1, k)[n] = units[0 + n]
      BY <1>4, <2>2, <2>4, Part
    <3> QED BY <2>2, <2>4, <3>1
  <2>6. first \in Seq(Unit) /\ Len(first) = 1 /\ first[1] = Count(Total)
    <3>1. Count(Total) \in Unit
      BY Units DEF Total, Reportable
    <3> QED BY <3>1
  <2>7. Push("REQ_FILES_LIST", t, "accept", "accept")
    <3>1. Least(task.size, Least(ListFirst, Len(units))) = k
      BY <1>9, <2>1, <2>2, <2>4, Naturals0 DEF Least
    <3>2. (IF task.size > ListFirst THEN task.size - ListFirst ELSE 0) = l
      BY <2>1 DEF l
    <3> QED BY <1>10, <2>1, <3>1, <3>2 DEF SendFilesList
  <2> HIDE DEF first, names
  <2>8. /\ b \in Seq(Unit) /\ Len(b) = 1 + k
        /\ \A i \in 1 .. 1 + k : b[i] = IF i <= 1 THEN first[i] ELSE names[i - 1]
    <3>1. /\ first \o names \in Seq(Unit) /\ Len(first \o names) = Len(first) + Len(names)
          /\ \A i \in 1 .. Len(first) + Len(names) :
               (first \o names)[i] = IF i <= Len(first) THEN first[i] ELSE names[i - Len(first)]
      BY <2>5, <2>6, ConcatProperties
    <3> QED BY <2>5, <2>6, <3>1
  <2>9. \A i \in 1 .. 1 + k : b[i] = ListUnit(i)
    <3> SUFFICES ASSUME NEW i \in 1 .. 1 + k PROVE b[i] = ListUnit(i)
      OBVIOUS
    <3>1. CASE i = 1
      BY <2>6, <2>8, <3>1 DEF ListUnit
    <3>2. CASE i # 1
      <4>1. i - 1 \in 1 .. k /\ ~(i <= 1)
        BY <2>2, <3>2
      <4> HIDE DEF b
      <4> QED BY <2>5, <2>8, <3>2, <4>1 DEF ListUnit
    <3> QED BY <3>1, <3>2
  <2> HIDE DEF b
  <2>10. t \in Transaction /\ t.file = tx.file /\ t.buf = b /\ t.idx = 0 /\ t.left = l
    BY <1>3, <2>2, <2>8 DEF Transaction
  <2> HIDE DEF t
  <2>11. /\ tx'.file = tx.file /\ tx'.buf = b /\ tx'.idx = 0 /\ tx'.left = l
         /\ Window'
         /\ task'.at = "finish" /\ task'.op \in Outcome
         /\ air' # {} => conn /\ task'.op = "accept"
         /\ \A p \in air' : p.char = "REQ_FILES_LIST" /\ p = Packet(p.char, tx')
    <3>1. t.idx <= Len(t.buf)
      BY <2>2, <2>8, <2>10
    <3> QED BY <1>2, <2>7, <2>10, <3>1, PushedWindow DEF Outcome
  <2>12. ListBuffer'
    <3>1. 1 + Total - l - Len(b) = 0
      BY <1>9, <2>2, <2>8
    <3>2. Agrees("REQ_FILES_LIST", 0)'
      BY <1>6, <1>8, <1>10, <2>11 DEF Agrees, Wanted, RequestOf
    <3>3. \A i \in 1 .. Len(b) : b[i] = ListUnit(0 + i)
      BY <2>2, <2>8, <2>9
    <3>4. mem'.listed = Total - l /\ (l > 0 => mem'.needed)
      BY <1>8, <1>9, <2>1, <2>2
    <3>5. (1 + Total - tx'.left - Len(tx'.buf) = 0) /\ 0 + tx'.idx = 0
      BY <2>11, <3>1
    <3> QED BY <2>11, <3>2, <3>3, <3>4, <3>5 DEF ListBuffer
  <2>13. Len(tx'.buf) <= PacketSize
    BY <2>2, <2>8, <2>11
  <2>14. pending' = "REQ_FILES_LIST"
    BY <1>6, <1>8, <1>10 DEF RequestOf
  <2>15. Finishing'
    BY <1>8, <2>11, <2>12, <2>13, <2>14 DEF Finishing, Carried
  <2> QED BY <2>11, <2>15
<1>11. CASE task.op = "next" /\ ContinueSendingFilesList(units)
  <2> DEFINE from == Total - tx.left
             upTo == Least(from + ListNext, Total)
             l == IF tx.left > Len(units) THEN tx.left - Len(units) ELSE 0
             t == [tx EXCEPT !.left = l, !.buf = units, !.idx = 0]
  <2>1. /\ mem.needed /\ tx.left \in 1 .. Total /\ mem.listed = upTo
        /\ units = SubSeq(Names, from + 1, upTo)
    BY <1>4, <1>5, <1>11 DEF Served
  <2>2. /\ from \in Nat /\ upTo \in Nat /\ from <= upTo /\ upTo <= Total
        /\ upTo - from <= PacketSize /\ upTo - from <= tx.left
        /\ upTo - from \in Nat /\ tx.left - (upTo - from) = Total - upTo
    BY <1>9, <2>1, NextPiece
  <2>3. Names \in Seq(Unit) /\ Len(Names) = Total
    BY ServerUnits, Units, Wider DEF Total
  <2>4. Len(units) = upTo - from /\ \A n \in 1 .. upTo - from : units[n] = Names[from + n]
    <3> HIDE DEF from, upTo
    <3>1. upTo <= Len(Names)
      BY <2>2, <2>3
    <3>2. /\ Len(SubSeq(Names, from + 1, upTo)) = upTo - from
          /\ \A n \in 1 .. upTo - from : SubSeq(Names, from + 1, upTo)[n] = Names[from + n]
      BY <2>2, <2>3, <3>1, Part
    <3> QED BY <2>1, <3>2
  <2>5. l \in Nat /\ l = Total - upTo
    <3> HIDE DEF from, upTo
    <3> QED BY <1>9, <2>1, <2>2, <2>4
  <2>6. Push("REQ_FILES_LIST_NEXT", t, "keep", "keep")
    BY <1>11 DEF ContinueSendingFilesList
  <2> HIDE DEF l, upTo
  <2>7. t \in Transaction /\ t.file = tx.file /\ t.buf = units /\ t.idx = 0 /\ t.left = l
    BY <1>3, <1>4, <2>5 DEF Transaction
  <2> HIDE DEF t
  <2>8. /\ tx'.file = tx.file /\ tx'.buf = units /\ tx'.idx = 0 /\ tx'.left = l
        /\ Window'
        /\ task'.at = "finish" /\ task'.op \in Outcome
        /\ air' # {} => conn /\ task'.op = "keep"
        /\ \A p \in air' : p.char = "REQ_FILES_LIST_NEXT" /\ p = Packet(p.char, tx')
    <3>1. t.idx <= Len(t.buf)
      BY <1>4, <2>7
    <3> QED BY <1>2, <2>6, <2>7, <3>1, PushedWindow DEF Outcome
  <2>9. ListBuffer'
    <3>1. 1 + from = 1 + Total - tx.left
      BY <1>9, <2>1
    <3>7. 1 + Total - l - Len(units) = 1 + from
      <4> HIDE DEF from
      <4> QED BY <1>9, <2>2, <2>4, <2>5
    <3>2. Agrees("REQ_FILES_LIST", 1 + Total - tx.left)
      BY <1>6, <1>11
    <3>8. PICK before \in Nat : before = 1 + from
      BY <2>2
    <3>3. Agrees("REQ_FILES_LIST", before)'
      <4>1. before = 1 + Total - tx.left
        BY <3>1, <3>8
      <4> HIDE DEF from
      <4> QED BY <1>8, <2>8, <3>2, <4>1 DEF Agrees, Wanted
    <3>4. \A i \in 1 .. Len(units) : units[i] = ListUnit(before + i)
      <4> SUFFICES ASSUME NEW i \in 1 .. Len(units) PROVE units[i] = ListUnit(before + i)
        OBVIOUS
      <4> HIDE DEF from
      <4>1. i \in 1 .. upTo - from /\ (before + i) - 1 = from + i /\ before + i # 1
        BY <2>2, <2>4, <3>8
      <4> QED BY <2>4, <4>1 DEF ListUnit
    <3>5. mem'.listed = Total - l /\ mem'.needed
      <4>1. Total - l = upTo
        BY <1>9, <2>2, <2>5
      <4> QED BY <1>8, <2>1, <4>1
    <3>6. 1 + Total - tx'.left - Len(tx'.buf) = before /\ before + tx'.idx = before
      BY <2>2, <2>8, <3>7, <3>8
    <3> QED BY <2>8, <3>3, <3>4, <3>5, <3>6 DEF ListBuffer
  <2>10. Len(tx'.buf) <= PacketSize
    BY <2>2, <2>4, <2>8
  <2>11. active' = "REQ_FILES_LIST"
    BY <1>6, <1>8, <1>11
  <2>12. Finishing'
    BY <1>8, <2>8, <2>9, <2>10, <2>11 DEF Finishing, Carried
  <2> QED BY <2>8, <2>12
<1>12. CASE /\ task.op = "info" /\ SendFileInfo(units)
  <2> DEFINE t == [tx EXCEPT !.buf = units, !.idx = 0]
  <2>1. tx.file \in File /\ units = <<InfoUnit(tx.file)>>
    BY <1>4, <1>5, <1>12 DEF Served
  <2>2. Push("REQ_FILE_INFO", t, "accept", "accept")
    BY <1>12 DEF SendFileInfo
  <2>3. t \in Transaction /\ t.file = tx.file /\ t.buf = units /\ t.idx = 0
    BY <1>3, <1>4 DEF Transaction
  <2> HIDE DEF t
  <2>4. /\ tx'.file = tx.file /\ tx'.buf = units /\ tx'.idx = 0 /\ Window'
        /\ task'.at = "finish" /\ task'.op \in Outcome
        /\ air' # {} => conn /\ task'.op = "accept"
        /\ \A p \in air' : p.char = "REQ_FILE_INFO" /\ p = Packet(p.char, tx')
    <3>1. t.idx <= Len(t.buf)
      BY <1>4, <2>3
    <3> QED BY <1>2, <2>2, <2>3, <3>1, PushedWindow DEF Outcome
  <2>5. pending' = "REQ_FILE_INFO"
    BY <1>6, <1>8, <1>12 DEF RequestOf
  <2>6. Agrees("REQ_FILE_INFO", 0)'
    BY <1>6, <1>8, <1>12, <2>4 DEF Agrees, Wanted, RequestOf
  <2>7. OneBuffer("REQ_FILE_INFO", InfoUnit(tx.file))'
    BY <2>1, <2>4, <2>6 DEF OneBuffer
  <2>8. Finishing'
    BY <1>8, <2>1, <2>4, <2>5, <2>7 DEF Finishing, Carried
  <2> QED BY <2>4, <2>8
<1>13. CASE task.op = "stat" /\ SendFsStatus(units)
  <2> DEFINE t == [tx EXCEPT !.buf = units, !.idx = 0]
  <2>1. units = <<StatUnit>>
    BY <1>4, <1>5, <1>13 DEF Served
  <2>2. Push("REQ_FS_STATUS", t, "idle", "idle")
    BY <1>13 DEF SendFsStatus
  <2>3. t \in Transaction /\ t.file = tx.file /\ t.buf = units /\ t.idx = 0
    BY <1>3, <1>4 DEF Transaction
  <2> HIDE DEF t
  <2>4. /\ tx'.file = tx.file /\ tx'.buf = units /\ tx'.idx = 0 /\ Window'
        /\ task'.at = "finish" /\ task'.op \in Outcome
        /\ air' # {} => conn /\ task'.op = "idle"
        /\ \A p \in air' : p.char = "REQ_FS_STATUS" /\ p = Packet(p.char, tx')
    <3>1. t.idx <= Len(t.buf)
      BY <1>4, <2>3
    <3> QED BY <1>2, <2>2, <2>3, <3>1, PushedWindow DEF Outcome
  <2>5. Agrees("REQ_FS_STATUS", 0)'
    BY <1>6, <1>8, <1>13, <2>4 DEF Agrees, Wanted, RequestOf
  <2>6. OneBuffer("REQ_FS_STATUS", StatUnit)'
    BY <2>1, <2>4, <2>5 DEF OneBuffer
  <2>7. Finishing'
    BY <1>8, <2>4, <2>6 DEF Finishing, Carried
  <2> QED BY <2>4, <2>7
<1>14. CASE task.op = "read" /\ SendFileData(units)
  <2> DEFINE t == [tx EXCEPT !.buf = units, !.idx = 0, !.sent = 0]
  <2>1. Push("REQ_FILE_DATA", t, "accept", "keep")
    BY <1>14 DEF SendFileData
  <2>2. t \in Transaction /\ t.file = tx.file /\ t.buf = units /\ t.idx = 0 /\ t.sent = 0
        /\ t.fileSize = tx.fileSize
    BY <1>3, <1>4 DEF Transaction
  <2> HIDE DEF t
  <2>3. /\ tx'.file = tx.file /\ tx'.buf = units /\ tx'.idx = 0 /\ tx'.sent = 0 /\ Window'
        /\ tx'.fileSize = tx.fileSize
        /\ task'.at = "finish" /\ task'.op \in Outcome
        /\ air' # {} => conn /\ task'.op = "accept"
        /\ \A p \in air' : p.char = "REQ_FILE_DATA" /\ p = Packet(p.char, tx')
    <3>1. t.idx <= Len(t.buf)
      BY <1>4, <2>2
    <3> QED BY <1>2, <2>1, <2>2, <3>1, PushedWindow DEF Outcome
  <2>4. Agrees("REQ_FILE_DATA", 0)'
    BY <1>6, <1>8, <1>14, <2>3 DEF Agrees, Wanted, RequestOf
  <2>5. DataBuffer'
    BY <1>3, <1>4, <1>5, <1>8, <1>14, <2>3, <2>4, DataRead
  <2>6. pending' = "REQ_FILE_DATA"
    BY <1>6, <1>8, <1>14 DEF RequestOf
  <2>7. Finishing'
    BY <1>8, <2>3, <2>5, <2>6 DEF Finishing, Carried
  <2> QED BY <2>3, <2>7
<1>15. CASE task.op = "more" /\ ContinueSendingFileData(units)
  <2> DEFINE t == [tx EXCEPT !.buf = units, !.idx = 0]
  <2>1. Push("REQ_FILE_DATA", t, "keep", "idle")
    BY <1>3, <1>4, <1>5, <1>15, DataNotEmpty DEF ContinueSendingFileData
  <2>2. t \in Transaction /\ t.file = tx.file /\ t.buf = units /\ t.idx = 0 /\ t.sent = tx.sent
        /\ t.fileSize = tx.fileSize
    BY <1>3, <1>4 DEF Transaction
  <2> HIDE DEF t
  <2>3. /\ tx'.file = tx.file /\ tx'.buf = units /\ tx'.idx = 0 /\ tx'.sent = tx.sent /\ Window'
        /\ tx'.fileSize = tx.fileSize
        /\ task'.at = "finish" /\ task'.op \in Outcome
        /\ air' # {} => conn /\ task'.op = "keep"
        /\ \A p \in air' : p.char = "REQ_FILE_DATA" /\ p = Packet(p.char, tx')
    <3>1. t.idx <= Len(t.buf)
      BY <1>4, <2>2
    <3> QED BY <1>2, <2>1, <2>2, <3>1, PushedWindow DEF Outcome
  <2>4. PICK from \in Nat : from = tx.sent
    BY <1>3 DEF Transaction
  <2>8. Agrees("REQ_FILE_DATA", from)'
    BY <1>6, <1>8, <1>15, <2>3, <2>4 DEF Agrees, Wanted
  <2>5. DataBuffer'
    BY <1>3, <1>4, <1>5, <1>8, <1>15, <2>3, <2>4, <2>8, DataRead
  <2>6. active' = "REQ_FILE_DATA"
    BY <1>6, <1>8, <1>15
  <2>7. Finishing'
    BY <1>8, <2>3, <2>5, <2>6 DEF Finishing, Carried
  <2> QED BY <2>3, <2>7
<1> QED BY <1>10, <1>11, <1>12, <1>13, <1>14, <1>15 DEF TakeData, units

(*------------------------------ memory task ------------------------------*)
LEMMA ServeOwner ==
  ASSUME NEW m \in Server, NEW cmd, NEW id
  PROVE  Serve(m, cmd, id).owner = m.owner
<1>1. Executed(m, cmd, id).owner = m.owner
  BY DEF Executed, Server
<1> QED BY <1>1 DEF Serve

(* A call that is ready is served as the BLE task expects; only a call     *)
(* that names a file may be refused.                                       *)
LEMMA Answered ==
  ASSUME TypeInv, NEW op \in CallOp, task.op = op, NEW id, op # "close" => id = tx.file, Ready(op),
         mem' = Serve(mem, CommandOf(op), id), tx' = tx,
         NEW size, size = (IF Result(mem, CommandOf(op), id) = "OK"
                           THEN ReportedSize(mem, CommandOf(op), id) ELSE 0)
  PROVE  /\ Result(mem, CommandOf(op), id) = "OK" => Served(op, size)'
         /\ Result(mem, CommandOf(op), id) # "OK" => op \in {"info", "open", "close"}
<1>1. mem \in Server /\ tx \in Transaction /\ (mem.file # NoFile => mem.at <= Sizes[mem.file])
  BY DEF TypeInv, TypeOK, MemoryOK, ServiceOK, Located
<1>2. Total \in Nat /\ Total > 0 /\ Total = Len(Sizes)
  BY FileTypes DEF Total
<1> DEFINE OK == Result(mem, CommandOf(op), id) = "OK"
<1>3. OK => mem' = Executed(mem, CommandOf(op), id) /\ size = ReportedSize(mem, CommandOf(op), id)
  BY DEF Serve
<1>4. CASE op = "list"
  <2>1. OK /\ mem' = Executed(mem, "GET_FILES_LIST", id) /\ size = Total
    BY <1>2, <1>3, <1>4 DEF Result, CommandOf, ReportedSize
  <2> DEFINE k == Least(ListFirst, Total)  s == SubSeq(Names, 1, k)  b == ListFirst < Total
  <2>2. mem' = [mem EXCEPT !.elem = s, !.listed = k, !.needed = b]
    BY <1>2, <2>1 DEF Executed
  <2>3. mem'.elem = s /\ mem'.listed = k /\ mem'.needed = b
    <3> HIDE DEF s, k, b
    <3> QED BY <1>1, <2>2 DEF Server
  <2> QED BY <1>4, <2>1, <2>3 DEF Served
<1>5. CASE op = "next"
  <2>1. /\ mem.needed /\ tx.left \in 1 .. Total /\ mem.listed = Total - tx.left
    BY <1>5 DEF Ready
  <2>2. OK /\ mem' = Executed(mem, "GET_FILES_LIST_NEXT", id)
    BY <1>3, <1>5, <2>1 DEF Result, CommandOf
  <2> DEFINE k == Least(mem.listed + ListNext, Total)  s == SubSeq(Names, mem.listed + 1, k)
  <2>3. mem' = [mem EXCEPT !.elem = s, !.listed = k]
    BY <1>2, <2>2 DEF Executed
  <2>4. mem'.elem = s /\ mem'.listed = k /\ mem'.needed = mem.needed
    <3> HIDE DEF s, k
    <3> QED BY <1>1, <2>3 DEF Server
  <2>5. mem'.listed = Least(Total - tx'.left + ListNext, Total)
    BY <2>1, <2>4
  <2>6. mem'.elem = SubSeq(Names, Total - tx'.left + 1, mem'.listed)
    BY <2>1, <2>4
  <2>7. mem'.needed /\ tx'.left \in 1 .. Total
    BY <2>1, <2>4
  <2> QED BY <1>5, <2>2, <2>5, <2>6, <2>7 DEF Served
<1>6. CASE op = "info"
  <2>1. OK => id \in File
    BY <1>6, ResultOK DEF CommandOf
  <2>2. ASSUME OK PROVE mem'.elem = <<InfoUnit(tx.file)>>
    <3> DEFINE s == <<InfoUnit(id)>>
    <3>1. mem' = [mem EXCEPT !.elem = s]
      BY <1>3, <1>6, <2>2 DEF Executed, CommandOf
    <3>2. mem'.elem = s
      <4> HIDE DEF s
      <4> QED BY <1>1, <3>1 DEF Server
    <3> QED BY <1>6, <3>2
  <2> QED BY <1>6, <2>1, <2>2 DEF Served
<1>7. CASE op = "open"
  <2>1. OK => id \in File
    BY <1>7, ResultOK DEF CommandOf
  <2>2. ASSUME OK PROVE mem'.file = id /\ mem'.at = 0 /\ size = Sizes[id]
    <3>1. mem' = [mem EXCEPT !.context = id, !.file = id, !.at = 0]
      BY <1>3, <1>7, <2>2 DEF Executed, CommandOf
    <3> QED BY <1>1, <1>3, <1>7, <2>2, <3>1 DEF Server, ReportedSize, CommandOf
  <2> QED BY <1>7, <2>1, <2>2 DEF Served
<1>8. CASE op = "close"
  BY <1>8 DEF Served
<1>9. CASE op = "stat"
  <2>1. OK /\ mem' = Executed(mem, "GET_FS_STATUS", id)
    BY <1>3, <1>9 DEF Result, CommandOf
  <2> DEFINE s == <<StatUnit>>
  <2>2. mem' = [mem EXCEPT !.elem = s]
    BY <2>1 DEF Executed
  <2>3. mem'.elem = s
    <3> HIDE DEF s
    <3> QED BY <1>1, <2>2 DEF Server
  <2> QED BY <1>9, <2>1, <2>3 DEF Served
<1>10. CASE op \in {"read", "more"}
  <2> DEFINE from == IF op = "read" THEN 0 ELSE tx.sent
  <2>1. /\ tx.file \in File /\ mem.file = tx.file /\ tx.fileSize = Sizes[tx.file]
        /\ mem.at = from /\ from < tx.fileSize
    BY <1>10, FileTypes DEF Ready
  <2>2. mem.file # NoFile /\ Sizes[tx.file] \in Nat /\ from \in Nat
    BY <1>1, <2>1, FileTypes DEF Server
  <2>3. OK /\ mem' = Executed(mem, "GET_FILE_DATA", id)
    BY <1>3, <1>10, <2>2 DEF Result, CommandOf
  <2> DEFINE c == Chunk(mem)  a == mem.at + Len(Chunk(mem))
  <2>4. mem' = [mem EXCEPT !.elem = c, !.at = a]
    BY <2>3 DEF Executed
  <2>5. mem'.elem = c /\ mem'.at = a /\ mem'.file = mem.file
    <3> HIDE DEF c, a
    <3> QED BY <1>1, <2>4 DEF Server
  <2> HIDE DEF from
  <2>6. Least(Sizes[tx.file], from + BufferSize) = Least(from + BufferSize, Sizes[tx.file])
        /\ Least(from + BufferSize, Sizes[tx.file]) \in Nat
    BY <2>2, Naturals0 DEF Least
  <2>7. a = Least(from + BufferSize, Sizes[tx.file])
    <3>1. Len(c) = Least(Sizes[tx.file], from + BufferSize) - from
      BY <1>1, <2>1, <2>2, ChunkRead
    <3> HIDE DEF c
    <3>2. mem.at + Len(c) = Least(from + BufferSize, Sizes[tx.file])
      BY <2>1, <2>2, <2>6, <3>1
    <3> QED BY <3>2 DEF c
  <2>8. c = SubSeq(FileUnits(tx.file), from + 1, a)
    BY <2>1, <2>6, <2>7 DEF Chunk
  <2> HIDE DEF c, a
  <2>9. PICK f : f = from
    OBVIOUS
  <2>10. f = (IF op = "read" THEN 0 ELSE tx'.sent)
    BY <2>9 DEF from
  <2> QED BY <1>10, <2>1, <2>3, <2>5, <2>7, <2>8, <2>9, <2>10 DEF Served
<1> QED BY <1>4, <1>5, <1>6, <1>7, <1>8, <1>9, <1>10 DEF CallOp

(* A step of the memory task that leaves the BLE task waiting.             *)
LEMMA MemoryStepMild ==
  ASSUME ServiceInv, Exchange', mem'.owner = mem.owner, task.op \in CallOp,
         task.at \in {"status", "data"},
         UNCHANGED <<radio, client, opcodes, enabled, system, tx, task>>
  PROVE  MildInv'
<1>1. /\ air = {} /\ system = "on" /\ mem.owner = "BLE" /\ task # Loop
      /\ active # "REQ_RECEIVE_COMPLETE"
  BY Busy
<1>2. \A c, n : Agrees(c, n)' <=> Agrees(c, n)
  BY DEF Agrees, Wanted, client
<1>3. Calling'
  BY <1>1, <1>2 DEF ServiceInv, MildInv, Calling, radio, opcodes
<1>4. Looping'
  BY <1>1, <1>2 DEF ServiceInv, MildInv, Looping, radio, opcodes
<1>5. Finishing'
  BY DEF Finishing
<1>6. Link' /\ NothingForeign'
  BY <1>1 DEF ServiceInv, MildInv, Link, radio, opcodes, client, NothingForeign
<1> QED BY <1>3, <1>4, <1>5, <1>6 DEF MildInv

(* After the completion was confirmed nothing is on its way any more.      *)
LEMMA CompletedMild ==
  ASSUME ServiceInv, active = "REQ_RECEIVE_COMPLETE", mem'.owner = mem.owner,
         UNCHANGED <<radio, client, opcodes, enabled, system, tx, task>>
  PROVE  MildInv'
<1>1. task = Loop /\ pending = "IDLE" /\ air = {} /\ ~conn
  BY DEF ServiceInv, MildInv, Link
<1>2. Exchange' /\ Calling' /\ Finishing'
  BY <1>1 DEF Exchange, Calling, Finishing, Loop, opcodes
<1>3. Looping'
  BY <1>1 DEF Looping, ReadingRequest, opcodes, radio
<1>4. Link' /\ NothingForeign'
  BY DEF ServiceInv, MildInv, Link, radio, opcodes, client, NothingForeign
<1> QED BY <1>2, <1>3, <1>4 DEF MildInv

LEMMA MemoryServesMild ==
  ASSUME ServiceInv, MemoryServes
  PROVE  MildInv'
<1>1. /\ answering = "none" /\ cmdQ # <<>> /\ mem.owner = "BLE" /\ cmdQ' = <<>>
      /\ UNCHANGED <<radio, client, opcodes, enabled, system, tx, task, dataQ>>
  BY DEF MemoryServes
<1>2. mem \in Server /\ QueuesOK
  BY DEF ServiceInv, TypeInv, TypeOK, MemoryOK
<1>3. mem'.owner = mem.owner
  BY <1>2, ServeOwner DEF MemoryServes
<1>4. CASE active = "REQ_RECEIVE_COMPLETE"
  BY <1>1, <1>3, <1>4, CompletedMild
<1>5. CASE active # "REQ_RECEIVE_COMPLETE"
  <2>1. task.op \in CallOp /\ Asked
    BY <1>1, <1>5 DEF ServiceInv, MildInv, Exchange, AtRest, StatusThere, DataThere
  <2> DEFINE op == task.op  c == cmdQ[1]
             r == Result(mem, c.cmd, c.id)
             size == IF r = "OK" THEN ReportedSize(mem, c.cmd, c.id) ELSE 0
             e == [cmd |-> c.cmd, result |-> r, size |-> size]
  <2>2. Head(cmdQ) = c /\ c.cmd = CommandOf(op) /\ (op # "close" => c.id = tx.file)
        /\ Ready(op) /\ statusQ = <<>> /\ task.at = "status"
    BY <1>1, <1>2, <2>1, InQueue DEF Asked
  <2>3. /\ mem' = Serve(mem, c.cmd, c.id) /\ statusQ' = <<e>>
        /\ answering' = IF r = "OK" THEN c.cmd ELSE "none"
    BY <2>2 DEF MemoryServes
  <2>4. PICK o : o = op
    OBVIOUS
  <2>5. PICK n : n = size
    OBVIOUS
  <2>6. PICK id : id = c.id
    OBVIOUS
  <2> HIDE DEF c
  <2>7. /\ Result(mem, CommandOf(o), id) = "OK" => Served(o, n)'
        /\ Result(mem, CommandOf(o), id) # "OK" => o \in {"info", "open", "close"}
    <3>1. TypeInv /\ o \in CallOp /\ task.op = o /\ (o # "close" => id = tx.file) /\ Ready(o)
      BY <2>1, <2>2, <2>4, <2>6 DEF ServiceInv
    <3>2. mem' = Serve(mem, CommandOf(o), id) /\ tx' = tx
      BY <1>1, <2>2, <2>3, <2>4, <2>6
    <3>3. n = (IF Result(mem, CommandOf(o), id) = "OK"
               THEN ReportedSize(mem, CommandOf(o), id) ELSE 0)
      BY <2>2, <2>4, <2>5, <2>6
    <3> QED BY <3>1, <3>2, <3>3, Answered
  <2>8. Len(statusQ') = 1 /\ statusQ'[1].cmd = CommandOf(o) /\ statusQ'[1].result = r
        /\ statusQ'[1].size = n
    <3>1. e.cmd = c.cmd /\ e.result = r /\ e.size = size
      OBVIOUS
    <3> HIDE DEF e
    <3> QED BY <2>2, <2>3, <2>4, <2>5, <3>1
  <2>9. task'.op = o /\ task'.at = "status"
    BY <1>1, <2>2, <2>4
  <2>10. StatusThere'
    <3>1. CASE r = "OK"
      <4>1. Served(o, n)' /\ answering' = CommandOf(o)
        BY <2>2, <2>3, <2>4, <2>6, <2>7, <3>1
      <4> QED BY <1>1, <2>8, <2>9, <3>1, <4>1 DEF StatusThere
    <3>2. CASE r # "OK"
      <4>1. o \in {"info", "open", "close"} /\ answering' = "none"
        BY <2>2, <2>3, <2>4, <2>6, <2>7, <3>2
      <4> QED BY <1>1, <2>8, <2>9, <3>2, <4>1 DEF StatusThere
    <3> QED BY <3>1, <3>2
  <2>11. Exchange'
    BY <1>1, <2>1, <2>10 DEF Exchange
  <2> QED BY <1>1, <1>3, <2>1, <2>2, <2>11, MemoryStepMild
<1> QED BY <1>4, <1>5

LEMMA MemorySendsMild ==
  ASSUME ServiceInv, MemorySendsData
  PROVE  MildInv'
<1>1. /\ answering # "none" /\ dataQ' = <<[cmd |-> answering, units |-> mem.elem]>>
      /\ answering' = "none"
      /\ UNCHANGED <<radio, client, opcodes, enabled, system, tx, task, cmdQ, statusQ, mem>>
  BY DEF MemorySendsData
<1>2. CASE active = "REQ_RECEIVE_COMPLETE"
  BY <1>1, <1>2, CompletedMild
<1>3. CASE active # "REQ_RECEIVE_COMPLETE"
  <2>1. task.op \in CallOp /\ StatusThere /\ answering = CommandOf(task.op)
    BY <1>1, <1>3 DEF ServiceInv, MildInv, Exchange, AtRest, Asked, StatusThere, DataThere
  <2>2. statusQ[1].result = "OK" /\ Served(task.op, statusQ[1].size)
    BY <1>1, <2>1 DEF StatusThere
  <2>3. Served(task.op, statusQ[1].size)'
    BY <1>1, <2>2 DEF Served
  <2>4. dataQ' = <<Element(task.op)'>>
    BY <1>1, <2>1 DEF Element
  <2>5. StatusThere'
    BY <1>1, <2>1, <2>2, <2>3, <2>4 DEF StatusThere
  <2>6. Exchange' /\ task.at = "status"
    BY <1>1, <2>1, <2>5 DEF Exchange, StatusThere
  <2> QED BY <1>1, <2>1, <2>6, MemoryStepMild
<1> QED BY <1>2, <1>3

(*--------------------------------- events --------------------------------*)
LEMMA Delivered ==
  ASSUME TypeInv, NEW p \in air, Carried(p), Receive(p), tx' = Advance(tx),
         UNCHANGED <<mem, system>>, NothingForeign
  PROVE  /\ NothingForeign'
         /\ p.char = "REQ_FILE_DATA" =>
              DataBuffer' /\ Window' /\ (tx'.packet = 0 => tx'.idx = Len(tx'.buf))
         /\ p.char \in {"REQ_FILES_LIST", "REQ_FILES_LIST_NEXT"} =>
              ListBuffer' /\ tx'.packet = 0 /\ tx'.idx = Len(tx'.buf)
         /\ p.char # "REQ_FILE_DATA" => tx'.packet = 0
<1>1. CASE p.char = "REQ_FILE_DATA"
  BY <1>1, DataDelivered
<1>2. CASE p.char \in {"REQ_FILES_LIST", "REQ_FILES_LIST_NEXT"}
  BY <1>2, ListDelivered
<1>3. CASE p.char \in {"REQ_FILE_INFO", "REQ_FS_STATUS"}
  BY <1>3, OneDelivered
<1>4. CASE p.char = "GENERAL_STATUS"
  BY <1>4, StatusDelivered
<1> QED BY <1>1, <1>2, <1>3, <1>4 DEF Carried

LEMMA NotificationSentMild ==
  ASSUME ServiceInv, NotificationSent
  PROVE  MildInv'
<1>1. PICK p \in air : Receive(p)
  BY DEF NotificationSent
<1>2. /\ air' = {} /\ tx' = Advance(tx)
      /\ pending' = IF tx'.packet = 0 THEN "FINALIZE_TRANSACTION" ELSE "PUSH_DATA_PACKETS"
      /\ UNCHANGED <<conn, subscribed, active, enabled, system, task, queues, memory>>
  BY DEF NotificationSent, HvnTxCallback
<1>3. conn /\ active # "REQ_RECEIVE_COMPLETE" /\ task.at \notin {"status", "data"}
  BY <1>1 DEF ServiceInv, MildInv, Link, Calling
<1>4. AtRest /\ (task = Loop \/ (task.at = "finish" /\ task.op \in Outcome))
  BY <1>3 DEF ServiceInv, MildInv, Exchange, Asked, StatusThere, DataThere, Outcome
<1>5. Exchange' /\ Calling'
  <2>1. AtRest' /\ task' = task /\ task'.at \notin {"status", "data"}
    BY <1>2, <1>3, <1>4 DEF AtRest, queues, memory
  <2> QED BY <1>4, <2>1 DEF Exchange, Calling, Outcome
<1>6. Finishing'
  BY <1>2 DEF Finishing
<1>7. Carried(p)
  BY <1>1, <1>4, Free DEF ServiceInv, MildInv, Looping, Finishing
<1>8. /\ NothingForeign'
      /\ p.char = "REQ_FILE_DATA" =>
           DataBuffer' /\ Window' /\ (tx'.packet = 0 => tx'.idx = Len(tx'.buf))
      /\ p.char \in {"REQ_FILES_LIST", "REQ_FILES_LIST_NEXT"} =>
           ListBuffer' /\ tx'.packet = 0 /\ tx'.idx = Len(tx'.buf)
      /\ p.char # "REQ_FILE_DATA" => tx'.packet = 0
  BY <1>1, <1>2, <1>7, Delivered DEF ServiceInv, MildInv, memory
<1>9. Link'
  BY <1>2, <1>3 DEF ServiceInv, MildInv, Link, memory
<1>10. Looping'
  <2>1. CASE task = Loop
    <3>1. /\ p.char = "REQ_FILE_DATA" <=> active = "REQ_FILE_DATA"
          /\ p.char \in {"REQ_FILES_LIST", "REQ_FILES_LIST_NEXT"} <=> active = "REQ_FILES_LIST"
      BY <1>1, <2>1 DEF ServiceInv, MildInv, Looping
    <3> QED BY <1>2, <1>8, <2>1, <3>1 DEF Looping, ReadingRequest
  <2>2. CASE task.at = "finish" /\ task.op \in Outcome
    BY <1>2, <2>2 DEF Looping, Loop, Outcome
  <2> QED BY <1>4, <2>1, <2>2
<1> QED BY <1>5, <1>6, <1>8, <1>9, <1>10 DEF MildInv

(* What concerns the link alone.                                           *)
LEMMA LinkOnlyMild ==
  ASSUME ServiceInv, UNCHANGED <<air, client, opcodes, tx, task, queues, memory, system>>, Link'
  PROVE  MildInv'
<1>1. /\ (DataBuffer' <=> DataBuffer) /\ (ListBuffer' <=> ListBuffer) /\ (Window' <=> Window)
      /\ \A c, n : Agrees(c, n)' <=> Agrees(c, n)
      /\ \A p : Carried(p)' <=> Carried(p)
  BY FlowSame DEF memory
<1>2. Exchange'
  BY DEF ServiceInv, MildInv, Exchange, AtRest, Asked, StatusThere, DataThere, Ready, Served,
         Element, opcodes, queues, memory
<1>3. Calling' /\ Looping' /\ Finishing'
  BY <1>1 DEF ServiceInv, MildInv, Calling, Looping, Finishing, opcodes
<1>4. NothingForeign'
  BY DEF ServiceInv, MildInv, NothingForeign, client
<1> QED BY <1>2, <1>3, <1>4 DEF MildInv

LEMMA ConnectedMild ==
  ASSUME Races \subseteq MildRaces, ServiceInv,
         OnConnect \/ (\E on \in BOOLEAN : WriteCccd(on)) \/ UNCHANGED vars
  PROVE  MildInv'
<1>1. UNCHANGED <<air, client, opcodes, tx, task, queues, memory, system>>
  BY DEF OnConnect, WriteCccd, vars, client, opcodes, queues, memory, radio
<1>2. CASE OnConnect
  <2>1. conn' = TRUE /\ system = "on" /\ active # "REQ_RECEIVE_COMPLETE"
    BY <1>2, Calm DEF OnConnect
  <2>2. Link'
    BY <1>1, <2>1 DEF ServiceInv, MildInv, Link, opcodes, memory
  <2> QED BY <1>1, <2>2, LinkOnlyMild
<1>3. CASE (\E on \in BOOLEAN : WriteCccd(on)) \/ UNCHANGED vars
  <2>1. conn' = conn
    BY <1>3 DEF WriteCccd, vars
  <2>2. Link'
    BY <1>1, <2>1 DEF ServiceInv, MildInv, Link, opcodes, memory, client
  <2> QED BY <1>1, <2>2, LinkOnlyMild
<1> QED BY <1>2, <1>3

(* A client that is gone agrees with whatever is sent.                     *)
LEMMA NoClient ==
  ASSUME LinkDown, tx' = tx, mem' = mem, system' = system
  PROVE  /\ \A c, n : Agrees(c, n)'
         /\ DataBuffer => DataBuffer'
         /\ ListBuffer => ListBuffer'
         /\ Window' <=> Window
<1>1. \A c, n : Agrees(c, n)'
  BY DEF LinkDown, Agrees
<1> QED BY <1>1 DEF DataBuffer, ListBuffer, Window

LEMMA OnDisconnectMild ==
  ASSUME ServiceInv, OnDisconnect
  PROVE  MildInv'
<1>1. conn /\ LinkDown /\ UNCHANGED <<opcodes, enabled, system, tx, task, queues, memory>>
  BY DEF OnDisconnect
<1>2. Exchange'
  BY <1>1 DEF ServiceInv, MildInv, Exchange, AtRest, Asked, StatusThere, DataThere, Ready, Served,
              Element, opcodes, queues, memory
<1>3. /\ air' = {} /\ \A c, n : Agrees(c, n)'
      /\ DataBuffer => DataBuffer'
      /\ ListBuffer => ListBuffer'
      /\ Window' <=> Window
  BY <1>1, NoClient DEF LinkDown, memory
<1>4. Calling' /\ Finishing'
  BY <1>1, <1>3 DEF ServiceInv, MildInv, Calling, Finishing, opcodes
<1>5. Looping'
  BY <1>1, <1>3 DEF ServiceInv, MildInv, Looping, opcodes
<1>6. Link' /\ NothingForeign'
  BY <1>1 DEF ServiceInv, MildInv, Link, LinkDown, opcodes, memory, NothingForeign
<1> QED BY <1>2, <1>4, <1>5, <1>6 DEF MildInv

(* A client in turn writes when nothing is under way but the closing of    *)
(* its last file.                                                          *)
LEMMA WritesInTurn ==
  ASSUME Races \subseteq MildRaces, ServiceInv, MayWrite
  PROVE  /\ air = {} /\ pending = "IDLE" /\ conn /\ active # "REQ_RECEIVE_COMPLETE"
         /\ system # "off" /\ task.at # "finish"
         /\ (task = Loop /\ AtRest) \/ (task.op = "close" /\ (Asked \/ StatusThere) /\ active = "IDLE")
<1>1. air = {} /\ pending = "IDLE" /\ conn /\ task.at # "finish"
  BY Calm DEF MayWrite
<1>2. active # "REQ_RECEIVE_COMPLETE" /\ system # "off"
  BY <1>1 DEF ServiceInv, MildInv, Link
<1>3. CASE task = Loop
  BY <1>1, <1>2, <1>3 DEF ServiceInv, MildInv, Exchange, Loop, CallOp
<1>4. CASE task # Loop
  <2>1. task.op \in CallOp /\ (Asked \/ StatusThere \/ DataThere)
    BY <1>1, <1>4 DEF ServiceInv, MildInv, Exchange
  <2>2. task.at \in {"status", "data"}
    BY <2>1 DEF Asked, StatusThere, DataThere
  <2>3. task.op = "close" /\ active = "IDLE"
    BY <1>1, <2>1, <2>2 DEF ServiceInv, MildInv, Calling, CallOp, RequestOf
  <2> QED BY <1>1, <1>2, <2>1, <2>3 DEF DataThere
<1> QED BY <1>3, <1>4

LEMMA WriteMild ==
  ASSUME Races \subseteq MildRaces, ServiceInv, MayWrite, NothingForeign',
         pending' \in ReadingRequest => Agrees(pending, 0)',
         pending' \notin {"PUSH_DATA_PACKETS", "FINALIZE_TRANSACTION"},
         UNCHANGED <<active, radio, enabled, system, task, queues, memory>>
  PROVE  MildInv'
<1>1. /\ air = {} /\ pending = "IDLE" /\ conn /\ active # "REQ_RECEIVE_COMPLETE"
      /\ system # "off" /\ task.at # "finish"
      /\ (task = Loop /\ AtRest) \/ (task.op = "close" /\ (Asked \/ StatusThere) /\ active = "IDLE")
  BY WritesInTurn
<1>2. Exchange'
  <2>1. CASE task = Loop /\ AtRest
    BY <2>1 DEF Exchange, AtRest, queues, memory
  <2>2. CASE task.op = "close" /\ Asked
    <3>1. Asked'
      BY <2>2 DEF Asked, Ready, queues, memory
    <3> QED BY <2>2, <3>1 DEF Exchange, CallOp
  <2>3. CASE task.op = "close" /\ StatusThere
    <3>1. StatusThere'
      BY <2>3 DEF StatusThere, Served, Element, queues, memory
    <3> QED BY <2>3, <3>1 DEF Exchange, CallOp
  <2> QED BY <1>1, <2>1, <2>2, <2>3
<1>3. Calling' /\ Finishing'
  BY <1>1 DEF Calling, Finishing, radio, Loop
<1>4. Looping'
  BY <1>1 DEF Looping, radio
<1>5. Link'
  BY <1>1 DEF ServiceInv, MildInv, Link, radio, memory
<1> QED BY <1>2, <1>3, <1>4, <1>5 DEF MildInv

LEMMA WritesMild ==
  ASSUME Races \subseteq MildRaces, ServiceInv,
         ConfirmCompletion \/ (\E r \in Request : OnControlPointWrite(r))
  PROVE  MildInv'
<1>1. CASE ConfirmCompletion
  <2>1. NothingForeign'
    BY <1>1 DEF ConfirmCompletion, ServiceInv, MildInv, NothingForeign, client
  <2> QED BY <1>1, <2>1, WriteMild DEF ConfirmCompletion, ReadingRequest
<1>2. ASSUME NEW r \in Request, OnControlPointWrite(r)
      PROVE  MildInv'
  <2>1. /\ MayWrite /\ want' = r /\ got' = <<>>
        /\ pending' = (IF r.cmd = "REQ_FILES_LIST_NEXT" THEN pending ELSE r.cmd)
        /\ tx' = IF r.id = NoFile THEN tx ELSE [tx EXCEPT !.file = r.id]
        /\ UNCHANGED <<active, radio, enabled, system, task, queues, memory>>
    BY <1>2 DEF OnControlPointWrite
  <2>2. NothingForeign'
    BY <2>1 DEF NothingForeign
  <2>3. pending = "IDLE"
    BY <2>1, WritesInTurn
  <2>4. /\ r = [cmd |-> r.cmd, id |-> r.id]
        /\ r.cmd \in ReadingRequest \cup {"REQ_FILES_LIST_NEXT"}
        /\ (r.cmd \in NeedsFile => r.id # NoFile) /\ (r.cmd \notin NeedsFile => r.id = NoFile)
    BY FileTypes DEF Request, NeedsFile, ReadingRequest
  <2>5. tx \in Transaction
    BY DEF ServiceInv, TypeInv, TypeOK, ServiceOK
  <2>6. r.id # NoFile => tx'.file = r.id
    BY <2>1, <2>5 DEF Transaction
  <2>7. pending' \in ReadingRequest => Agrees(pending, 0)'
    <3>1. pending' \in ReadingRequest => pending' = r.cmd
      BY <2>1, <2>3 DEF ReadingRequest
    <3>2. [cmd |-> r.cmd, id |-> IF r.cmd \in NeedsFile THEN tx'.file ELSE NoFile] = want'
      BY <2>1, <2>4, <2>6
    <3> QED BY <2>1, <3>1, <3>2 DEF Agrees, Wanted
  <2>8. pending' \notin {"PUSH_DATA_PACKETS", "FINALIZE_TRANSACTION"}
    BY <2>1, <2>3, <2>4 DEF ReadingRequest
  <2> QED BY <2>1, <2>2, <2>7, <2>8, WriteMild
<1> QED BY <1>1, <1>2

(* BLE is stopped between two calls, or started again.                     *)
LEMMA StateStopsMild ==
  ASSUME Races \subseteq MildRaces, ServiceInv, StateStopsBle
  PROVE  MildInv'
<1>1. /\ task = Loop /\ system = "on" /\ system' = "stop" /\ active # "REQ_RECEIVE_COMPLETE"
      /\ UNCHANGED <<radio, client, opcodes, enabled, tx, task, queues, memory>>
  BY Calm DEF StateStopsBle
<1>2. Exchange' /\ Calling' /\ Finishing'
  <2>1. AtRest
    BY <1>1 DEF ServiceInv, MildInv, Exchange, Loop, CallOp
  <2>2. AtRest'
    BY <1>1, <2>1 DEF AtRest, queues, memory
  <2> QED BY <1>1, <2>2 DEF Exchange, Calling, Finishing, Loop
<1>3. /\ DataBuffer => DataBuffer'
      /\ ListBuffer => ListBuffer'
      /\ Window' <=> Window
      /\ \A c, n : Agrees(c, n)' <=> Agrees(c, n)
  BY <1>1 DEF DataBuffer, ListBuffer, Window, Agrees, Wanted, client
<1>4. \A p : Carried(p) => Carried(p)'
  <2>1. \A c, u : OneBuffer(c, u)' <=> OneBuffer(c, u)
    BY <1>1, <1>3 DEF OneBuffer
  <2> QED BY <1>1, <1>3, <2>1 DEF Carried, Packet
<1>5. Looping'
  BY <1>1, <1>3, <1>4 DEF ServiceInv, MildInv, Looping, opcodes, radio
<1>6. Link' /\ NothingForeign'
  BY <1>1 DEF ServiceInv, MildInv, Link, opcodes, radio, client, NothingForeign
<1> QED BY <1>2, <1>5, <1>6 DEF MildInv

LEMMA BleStopMild ==
  ASSUME ServiceInv, BleStop
  PROVE  MildInv'
<1>1. /\ system = "stop" /\ task = Loop /\ Idle /\ LinkDown /\ system' = "off"
      /\ UNCHANGED <<enabled, tx, task, queues, memory>>
  BY DEF BleStop
<1>2. AtRest
  BY <1>1 DEF ServiceInv, MildInv, Exchange, Link, Loop, CallOp
<1>3. AtRest'
  BY <1>1, <1>2 DEF AtRest, queues, memory
<1>4. Exchange' /\ Calling' /\ Finishing'
  BY <1>1, <1>3 DEF Exchange, Calling, Finishing, Loop
<1>5. Looping'
  BY <1>1 DEF Looping, LinkDown, Idle, ReadingRequest
<1>6. Link' /\ NothingForeign'
  BY <1>1 DEF Link, LinkDown, Idle, NothingForeign
<1> QED BY <1>4, <1>5, <1>6 DEF MildInv

LEMMA SelectOwnerMild ==
  ASSUME ServiceInv, NEW owner \in {"AUDIO", "BLE"}, SelectOwner(owner)
  PROVE  MildInv'
<1>1. /\ system # "on" /\ task = Loop
      /\ UNCHANGED <<radio, client, opcodes, enabled, tx, task, queues, answering, system>>
  BY DEF SelectOwner, ServiceInv, MildInv, Link
<1>2. AtRest
  BY <1>1 DEF ServiceInv, MildInv, Exchange, Link, Loop, CallOp
<1>3. AtRest'
  BY <1>1, <1>2 DEF AtRest, queues
<1>4. Exchange' /\ Calling' /\ Finishing'
  BY <1>1, <1>3 DEF Exchange, Calling, Finishing, Loop
<1>5. /\ DataBuffer => DataBuffer'
      /\ ListBuffer => ListBuffer'
      /\ Window' <=> Window
      /\ \A c, n : Agrees(c, n)' <=> Agrees(c, n)
  BY <1>1 DEF DataBuffer, ListBuffer, Window, Agrees, Wanted, client
<1>6. \A p : Carried(p) => Carried(p)'
  <2>1. \A c, u : OneBuffer(c, u)' <=> OneBuffer(c, u)
    BY <1>1, <1>5 DEF OneBuffer
  <2> QED BY <1>1, <1>5, <2>1 DEF Carried, Packet
<1>7. Looping'
  BY <1>1, <1>5, <1>6 DEF ServiceInv, MildInv, Looping, opcodes, radio
<1>8. Link' /\ NothingForeign'
  BY <1>1 DEF ServiceInv, MildInv, Link, opcodes, radio, client, NothingForeign
<1> QED BY <1>4, <1>7, <1>8 DEF MildInv

LEMMA BleStartMild ==
  ASSUME ServiceInv, BleStart
  PROVE  MildInv'
<1>1. /\ system = "off" /\ system' = "on" /\ mem.owner = "BLE"
      /\ UNCHANGED <<radio, client, opcodes, enabled, tx, task, queues, memory>>
  BY DEF BleStart
<1>2. task = Loop /\ ~conn /\ air = {} /\ pending = "IDLE" /\ active = "IDLE"
  BY <1>1 DEF ServiceInv, MildInv, Link
<1>3. AtRest
  BY <1>2 DEF ServiceInv, MildInv, Exchange, Loop, CallOp
<1>4. AtRest'
  BY <1>1, <1>3 DEF AtRest, queues, memory
<1>5. Exchange' /\ Calling' /\ Finishing'
  BY <1>1, <1>2, <1>4 DEF Exchange, Calling, Finishing, Loop
<1>6. Looping'
  BY <1>1, <1>2 DEF Looping, opcodes, radio, ReadingRequest
<1>7. Link' /\ NothingForeign'
  BY <1>1, <1>2 DEF ServiceInv, MildInv, Link, opcodes, radio, client, memory, NothingForeign
<1> QED BY <1>5, <1>6, <1>7 DEF MildInv

LEMMA MildStep ==
  ASSUME Races \subseteq MildRaces, ServiceInv, [Next]_vars
  PROVE  MildInv'
<1>1. CASE \/ OnConnect \/ (\E on \in BOOLEAN : WriteCccd(on)) \/ UNCHANGED vars
  BY <1>1, ConnectedMild
<1>2. CASE BleStep
  <2>1. CASE TakeStatus
    BY <2>1, TakeStatusMild
  <2>2. CASE Opened
    BY <2>2, OpenedMild
  <2>3. CASE TakeData
    BY <2>3, TakeDataMild
  <2>4. CASE SystemReset
    BY <2>4, RestartMild DEF SystemReset
  <2>5. CASE NoAnswer
    BY <2>5, NoAnswerNever
  <2>6. CASE Finish
    BY <2>6, FinishMild
  <2>7. CASE FinalizeTransaction
    BY <2>7, FinalizeMild
  <2>8. CASE PushDataPackets
    BY <2>8, PushMild
  <2>9. CASE Refuse
    BY <2>9, RefuseMild
  <2>10. CASE ProcessClientRequest
    BY <2>10, RequestMild
  <2>11. CASE ReceiveCompleted
    BY <2>11, ReceiveCompletedMild
  <2>12. CASE BleStop
    BY <2>12, BleStopMild
  <2> QED BY <1>2, <2>1, <2>2, <2>3, <2>4, <2>5, <2>6, <2>7, <2>8, <2>9, <2>10, <2>11, <2>12
          DEF BleStep
<1>3. CASE MemoryStep
  BY <1>3, MemoryServesMild, MemorySendsMild DEF MemoryStep
<1>4. CASE NotificationSent
  BY <1>4, NotificationSentMild
<1>5. CASE OnDisconnect
  BY <1>5, OnDisconnectMild
<1>6. CASE ConfirmCompletion \/ (\E r \in Request : OnControlPointWrite(r))
  BY <1>6, WritesMild
<1>7. CASE BatteryLevel
  BY <1>7, Calm DEF BatteryLevel
<1>8. CASE PowerOff
  BY <1>8, RestartMild DEF PowerOff
<1>9. CASE StateStopsBle
  BY <1>9, StateStopsMild
<1>10. CASE \E owner \in {"AUDIO", "BLE"} : SelectOwner(owner)
  BY <1>10, SelectOwnerMild
<1>11. CASE BleStart
  BY <1>11, BleStartMild
<1> QED BY <1>1, <1>2, <1>3, <1>4, <1>5, <1>6, <1>7, <1>8, <1>9, <1>10, <1>11 DEF Next

(* One request is followed from the control point over the memory task to  *)
(* its last notification, while links break, transmissions complete early  *)
(* and clients ask before they listen.                                     *)
THEOREM RequestsAreFollowed ==
  ASSUME Races \subseteq MildRaces
  PROVE  Spec => []ServiceInv
<1>1. Init => ServiceInv
  BY InitType, InitMild DEF ServiceInv
<1>2. ServiceInv /\ [Next]_vars => ServiceInv'
  BY TypeStep, MildStep DEF ServiceInv
<1> QED BY <1>1, <1>2, PTL DEF Spec

(* In these circumstances what the BLE task finds in a queue answers the   *)
(* command it waits for (the glue's blocking calls).                       *)
THEOREM AnswersAreExpected ==
  ASSUME Races \subseteq MildRaces
  PROVE  Spec => []AnswersMatchCommands
<1>1. ASSUME ServiceInv PROVE AnswersMatchCommands
  <2> SUFFICES ASSUME answering = "none"
               PROVE  /\ task.at = "status" =>
                           \A i \in DOMAIN statusQ : statusQ[i].cmd = CommandOf(task.op)
                      /\ task.at = "data" =>
                           \A i \in DOMAIN dataQ : dataQ[i].cmd = CommandOf(task.op)
    BY DEF AnswersMatchCommands
  <2>1. CASE task.at = "status"
    <3>1. Asked \/ StatusThere
      BY <1>1, <2>1, Busy DEF DataThere
    <3>2. DOMAIN statusQ = 1 .. Len(statusQ)
      BY <1>1 DEF ServiceInv, TypeInv, TypeOK, QueuesOK
    <3>3. CASE statusQ = <<>>
      BY <2>1, <3>3
    <3>4. CASE statusQ # <<>>
      BY <2>1, <3>1, <3>2, <3>4 DEF Asked, StatusThere
    <3> QED BY <3>3, <3>4
  <2>2. CASE task.at = "data"
    <3>1. dataQ = <<Element(task.op)>>
      BY <1>1, <2>2, Busy DEF Asked, StatusThere, DataThere
    <3>2. Element(task.op).cmd = CommandOf(task.op)
      BY DEF Element
    <3> HIDE DEF Element
    <3> QED BY <2>2, <3>1, <3>2
  <2> QED BY <2>1, <2>2
<1> QED BY <1>1, RequestsAreFollowed, PTL

(* And a client takes nothing but what comes next in the answer to what it *)
(* asked for, whatever becomes of its link (_transaction_ctx).             *)
THEOREM NothingForeignTaken ==
  ASSUME Races \subseteq MildRaces
  PROVE  Spec => []NothingForeign
<1>1. ServiceInv => NothingForeign
  BY DEF ServiceInv, MildInv
<1> QED BY <1>1, RequestsAreFollowed, PTL

(*------------------------- nothing unusual happens -----------------------*)
LEMMA NothingUnusual ==
  ASSUME Races = {}
  PROVE  /\ Races \subseteq MildRaces
         /\ \A race \in {"eager", "early_request", "lost_link", "completion", "battery", "early_tx",
                         "early_switch", "slow_memory", "overlap"} : race \notin Races
OBVIOUS

(* Every answer is a sequence; a status is all of it.                      *)
LEMMA AnswerType ==
  ASSUME NEW r \in Request
  PROVE  /\ Answer(r) \in Seq(Unit) /\ Len(Answer(r)) \in Nat
         /\ \A i \in 1 .. Len(Answer(r)) : IsStatus(Answer(r)[i]) => Len(Answer(r)) = 1
         /\ r # NoRequest
<1>1. r.cmd \in ReadingRequest \cup {"REQ_FILES_LIST_NEXT"} /\ r.id \in FileId \cup {NoFile}
      /\ (r.cmd \in NeedsFile => r.id \in FileId) /\ (r.cmd \notin NeedsFile => r.id = NoFile)
  BY DEF Request, NeedsFile, ReadingRequest
<1>2. NoFile \notin FileId
  BY FileTypes
<1>3. Names \in Seq(Unit) /\ Len(Names) = Len(Sizes) /\ \A i \in 1 .. Len(Names) : ~IsStatus(Names[i])
  <2>1. Names \in Seq(Unit) /\ Len(Names) = Len(Sizes)
    BY ServerUnits, Units, Wider
  <2> QED BY <2>1, FileTypes DEF Names, IsStatus
<1>4. r # NoRequest
  BY <1>1 DEF NoRequest, ReadingRequest
<1>5. CASE r.cmd = "REQ_FILES_LIST"
  <2> DEFINE c == <<Count(Len(Sizes))>>  a == c \o Names
  <2>1. Answer(r) = a
    BY <1>1, <1>2, <1>5 DEF Answer, NeedsFile
  <2>2. c \in Seq(Unit) /\ Len(c) = 1 /\ ~IsStatus(c[1])
    <3>1. Count(Len(Sizes)) \in Unit
      BY Units DEF Reportable
    <3> QED BY <3>1 DEF IsStatus, Count
  <2> HIDE DEF c
  <2>3. /\ a \in Seq(Unit) /\ Len(a) = 1 + Len(Names)
        /\ \A i \in 1 .. 1 + Len(Names) : a[i] = IF i <= 1 THEN c[i] ELSE Names[i - 1]
    <3>1. /\ c \o Names \in Seq(Unit) /\ Len(c \o Names) = Len(c) + Len(Names)
          /\ \A i \in 1 .. Len(c) + Len(Names) :
               (c \o Names)[i] = IF i <= Len(c) THEN c[i] ELSE Names[i - Len(c)]
      BY <1>3, <2>2, ConcatProperties
    <3> QED BY <2>2, <3>1
  <2> HIDE DEF a
  <2>4. ASSUME NEW i \in 1 .. Len(a) PROVE ~IsStatus(a[i])
    <3>1. Len(Names) \in Nat
      BY <1>3
    <3>2. CASE i = 1
      BY <2>2, <2>3, <3>1, <3>2
    <3>3. CASE i # 1
      <4>1. i - 1 \in 1 .. Len(Names) /\ ~(i <= 1) /\ i \in 1 .. 1 + Len(Names)
        BY <2>3, <3>1, <3>3
      <4> QED BY <1>3, <2>3, <4>1
    <3> QED BY <3>2, <3>3
  <2> QED BY <1>4, <2>1, <2>3, <2>4
<1>6. CASE r.cmd = "REQ_FS_STATUS"
  <2>1. Answer(r) = <<StatUnit>>
    BY <1>1, <1>2, <1>6 DEF Answer, NeedsFile
  <2> QED BY <1>4, <2>1, ServerUnits, Units
<1>7. CASE r.cmd = "REQ_FILES_LIST_NEXT"
  <2>1. Answer(r) = Names
    BY <1>1, <1>2, <1>7 DEF Answer, NeedsFile
  <2> QED BY <1>3, <1>4, <2>1
<1>8. CASE r.cmd \in NeedsFile /\ r.id \notin File
  <2>1. Answer(r) = <<NotFound(r.id)>> /\ r.id \in FileId
    BY <1>1, <1>8 DEF Answer, NeedsFile
  <2> QED BY <1>4, <2>1, Units
<1>9. CASE r.cmd = "REQ_FILE_INFO" /\ r.id \in File
  <2>1. Answer(r) = <<InfoUnit(r.id)>>
    BY <1>9 DEF Answer
  <2> QED BY <1>4, <1>9, <2>1, ServerUnits, Units
<1>10. CASE r.cmd = "REQ_FILE_DATA" /\ r.id \in File
  <2>1. Answer(r) = FileUnits(r.id)
    BY <1>10 DEF Answer
  <2>2. FileUnits(r.id) \in Seq(Unit)
    BY <1>10, ServerUnits, Units, Wider
  <2>3. \A i \in 1 .. Len(FileUnits(r.id)) : ~IsStatus(FileUnits(r.id)[i])
    BY <1>10, ServerUnits DEF FileUnits, IsStatus
  <2> QED BY <1>4, <2>1, <2>2, <2>3
<1> QED BY <1>1, <1>5, <1>6, <1>7, <1>8, <1>9, <1>10 DEF NeedsFile, ReadingRequest

(* A client that no longer waits has all of its answer.                    *)
LEMMA NotWaiting ==
  ASSUME ClientOK, Received, ~Waiting
  PROVE  Complete
<1>1. CASE want = NoRequest
  BY <1>1 DEF Complete
<1>2. CASE want # NoRequest
  <2> DEFINE a == Answer(want)
  <2>1. want \in Request /\ got \in Seq(Unit)
    BY <1>2 DEF ClientOK
  <2>2. a \in Seq(Unit) /\ Len(a) \in Nat
        /\ \A i \in 1 .. Len(a) : IsStatus(a[i]) => Len(a) = 1
    BY <2>1, AnswerType
  <2>3. Len(got) <= Len(a) /\ \A i \in 1 .. Len(got) : got[i] = a[i]
    BY <1>2 DEF Received
  <2>4. Len(got) >= Len(a) \/ \E i \in DOMAIN got : IsStatus(got[i])
    <3> HIDE DEF a
    <3>1. ~(Len(got) < Len(a)) \/ \E i \in DOMAIN got : IsStatus(got[i])
      BY <1>2 DEF Waiting, a
    <3> QED BY <2>1, <2>2, <3>1
  <2> HIDE DEF a
  <2>5. Len(got) = Len(a)
    <3>1. CASE Len(got) >= Len(a)
      BY <2>1, <2>2, <2>3, <3>1
    <3>2. CASE \E i \in DOMAIN got : IsStatus(got[i])
      <4>1. PICK i \in 1 .. Len(got) : IsStatus(got[i])
        BY <2>1, <3>2
      <4>2. i \in 1 .. Len(a) /\ IsStatus(a[i])
        BY <2>1, <2>2, <2>3, <4>1
      <4>3. Len(a) = 1
        BY <2>2, <4>2
      <4>4. Len(got) \in Nat /\ Len(got) >= 1
        BY <2>1, <4>1
      <4> QED BY <2>3, <4>3, <4>4
    <3> QED BY <2>4, <3>1, <3>2
  <2>6. got = a
    BY <2>1, <2>2, <2>3, <2>5
  <2> QED BY <2>6 DEF Complete, a
<1> QED BY <1>1, <1>2

(* Steps that leave the client alone.                                      *)
LEMMA ReceivedSame ==
  ASSUME Received, UNCHANGED client, pending' = "REQ_RECEIVE_COMPLETE" => Complete,
         air' = {} \/ (air' = air /\ tx' = tx)
  PROVE  Received'
<1>2. CASE air' = {}
  BY <1>2 DEF Received, Complete, client
<1>3. CASE air' = air /\ tx' = tx
  <2>1. \A c : Agrees(c, 0)' <=> Agrees(c, 0)
    BY <1>3 DEF Agrees, Wanted, client
  <2> QED BY <1>3, <2>1 DEF Received, Complete, client
<1> QED BY <1>2, <1>3

LEMMA Attentive ==
  ASSUME CalmInv, task # Loop \/ pending # "IDLE" \/ air # {} \/ IsRequest(active)
  PROVE  conn /\ subscribed /\ system = "on" /\ enabled
BY DEF CalmInv, Listening, Quiet

(* With the link up and nothing in the SoftDevice every push succeeds.     *)
LEMMA PushSucceeds ==
  ASSUME NEW op \in Characteristic, NEW t, NEW done, NEW failed, Push(op, t, done, failed),
         conn, subscribed, air = {}
  PROVE  /\ task'.at = "finish" /\ task'.op = done
         /\ air' # {} /\ \A p \in air' : p.char = op
<1>1. CanNotify(op)
  BY DEF CanNotify
<1>2. task' = At("finish", done) /\ air' = {Packet(op, tx')}
  BY <1>1 DEF Push
<1>3. Packet(op, tx').char = op
  BY DEF Packet
<1> QED BY <1>2, <1>3 DEF At

LEMMA PushCalm ==
  ASSUME CalmInv, NEW op \in Characteristic, NEW t, NEW done \in Outcome, NEW failed,
         Push(op, t, done, failed), op # "GENERAL_STATUS",
         conn, subscribed, air = {}, pending # "REQ_RECEIVE_COMPLETE", statusQ' = <<>>,
         pending \in ReadingRequest => ~IsRequest(active),
         active # "REQ_RECEIVE_COMPLETE",
         mem.file # NoFile <=> \/ done = "accept" /\ pending = "REQ_FILE_DATA"
                               \/ done = "keep" /\ active = "REQ_FILE_DATA",
         UNCHANGED <<opcodes, conn, subscribed, client, enabled, system, memory>>
  PROVE  CalmInv'
<1>1. /\ task'.at = "finish" /\ task'.op = done
      /\ air' # {} /\ \A p \in air' : p.char = op
  BY PushSucceeds
<1>2. task' # Loop
  BY <1>1 DEF Loop
<1>3. Listening' /\ Refused'
  BY <1>1 DEF CalmInv, Listening, Refused
<1>4. Moving'
  BY <1>1, <1>2 DEF Moving, ActiveRequestIsMoving, opcodes, IsRequest
<1>5. FileOpen'
  BY <1>1, <1>2 DEF CalmInv, FileOpen, opcodes, memory, Outcome
<1>6. Completed'
  BY DEF Completed, opcodes
<1>7. Received'
  BY <1>1 DEF CalmInv, Received, Complete, opcodes, client
<1> QED BY <1>3, <1>4, <1>5, <1>6, <1>7 DEF CalmInv

LEMMA TakeStatusCalm ==
  ASSUME Races = {}, ServiceInv, CalmInv, TakeStatus
  PROVE  CalmInv'
<1>1. /\ task.at = "status" /\ statusQ # <<>> /\ answering = "none"
      /\ statusQ' = <<>> /\ UNCHANGED <<cmdQ, dataQ>>
      /\ UNCHANGED <<opcodes, conn, subscribed, client, enabled, system, memory>>
  BY Calm, NothingUnusual DEF TakeStatus, BleTurn
<1>2. /\ StatusThere /\ air = {} /\ system = "on" /\ active # "REQ_RECEIVE_COMPLETE"
      /\ task.op \in CallOp /\ task # Loop
  BY <1>1, Busy DEF Asked, DataThere
<1>3. Head(statusQ) = statusQ[1] /\ cmdQ = <<>>
  BY <1>1, <1>2, InQueue DEF ServiceInv, TypeInv, TypeOK, StatusThere
<1>4. conn /\ subscribed /\ enabled
  BY <1>2, Attentive
<1>5. /\ task.op \in {"list", "info", "open", "read", "stat"} =>
           pending = RequestOf(task.op) /\ ~IsRequest(active) /\ Agrees(pending, 0)
      /\ task.op \in {"more", "next"} => pending = "FINALIZE_TRANSACTION"
      /\ task.op = "close" => active = "IDLE"
  BY <1>1 DEF ServiceInv, MildInv, Calling
<1>6. Listening' /\ Refused' /\ Completed'
  BY <1>1, <1>2, <1>4 DEF Listening, Refused, Completed, opcodes
<1>7. CASE task' = Loop /\ task.op = "close" /\ UNCHANGED <<tx, air>>
  <2>1. Moving'
    BY <1>1, <1>5, <1>7 DEF CalmInv, Moving, ActiveRequestIsMoving, opcodes, IsRequest, Loop,
                            ReadingRequest
  <2>2. FileOpen'
    BY <1>1, <1>3, <1>5, <1>7 DEF CalmInv, FileOpen, opcodes, memory, Loop
  <2>3. Received'
    BY <1>1, <1>7, ReceivedSame DEF CalmInv, Received, opcodes
  <2> QED BY <1>6, <2>1, <2>2, <2>3 DEF CalmInv
<1>8. CASE task.op \notin {"open", "close"} /\ UNCHANGED <<tx, air>>
           /\ task' = [At("data", task.op) EXCEPT !.size = Head(statusQ).size]
  <2>1. task'.at = "data" /\ task'.op = task.op
    BY <1>8 DEF At
  <2>2. Moving'
    BY <1>1, <2>1 DEF CalmInv, Moving, ActiveRequestIsMoving, opcodes, IsRequest, Loop
  <2>3. FileOpen'
    BY <1>1, <1>8, <2>1 DEF CalmInv, FileOpen, opcodes, memory, Loop
  <2>4. Received'
    BY <1>1, <1>8, ReceivedSame DEF CalmInv, Received, opcodes
  <2> QED BY <1>6, <2>2, <2>3, <2>4 DEF CalmInv
<1>9. CASE Head(statusQ).result # "OK" /\ Failed(task.op, Head(statusQ).result)
  <2>1. /\ task.op \in {"info", "open"} /\ tx.file \notin File
        /\ Head(statusQ).result = "ERROR_FILE_NOT_FOUND"
    BY <1>1, <1>3, <1>9 DEF CalmInv, Refused
  <2>2. UpdateGeneralStatus(NotFound(tx.file), "keep")
    BY <1>9, <2>1 DEF Failed
  <2> DEFINE b == <<NotFound(tx.file)>>
             t == [tx EXCEPT !.buf = b, !.idx = 0]
  <2>3. Push("GENERAL_STATUS", t, "keep", "keep")
    BY <2>2 DEF UpdateGeneralStatus
  <2>4. pending \in NeedsFile /\ ~IsRequest(active) /\ Agrees(pending, 0)
        /\ pending # "REQ_RECEIVE_COMPLETE"
    BY <1>5, <2>1 DEF RequestOf, NeedsFile
  <2>5. NotFound(tx.file) \in Unit /\ tx \in Transaction
    BY <2>1, <2>4, Units DEF ServiceInv, TypeInv, TypeOK, ServiceOK, FileNamed, Transaction
  <2>6. b \in Seq(Unit) /\ Len(b) = 1
    BY <2>5
  <2> HIDE DEF b
  <2>13. t \in Transaction /\ t.file = tx.file /\ t.buf = b /\ t.idx = 0
    BY <2>5, <2>6 DEF Transaction
  <2> HIDE DEF t
  <2>7. t.idx <= Len(t.buf)
    BY <2>6, <2>13
  <2>8. tx'.file = tx.file /\ tx'.buf = b
    BY <1>2, <2>3, <2>7, <2>13, PushedWindow DEF Outcome
  <2>9. /\ task'.at = "finish" /\ task'.op = "keep"
        /\ air' # {} /\ \A p \in air' : p.char = "GENERAL_STATUS"
    BY <1>2, <1>4, <2>3, PushSucceeds DEF Characteristic
  <2>10. Moving'
    BY <1>1, <2>4, <2>9 DEF Moving, ActiveRequestIsMoving, opcodes, IsRequest, Loop
  <2>11. FileOpen'
    <3>1. mem.file = NoFile
      BY <1>3, <1>9, <2>1 DEF CalmInv, FileOpen
    <3>2. active # "REQ_FILE_DATA"
      BY <2>4 DEF IsRequest, ReadingRequest
    <3> QED BY <1>1, <2>9, <3>1, <3>2 DEF CalmInv, FileOpen, opcodes, memory, Loop
  <2>12. Received'
    <3>1. \A c : Agrees(c, 0)' <=> Agrees(c, 0)
      BY <1>1, <2>8 DEF Agrees, Wanted, client
    <3>2. tx'.buf = <<NotFound(tx'.file)>>
      BY <2>8 DEF b
    <3> QED BY <1>1, <2>1, <2>4, <2>8, <3>1, <3>2 DEF CalmInv, Received, Complete, opcodes, client
  <2> QED BY <1>6, <2>10, <2>11, <2>12 DEF CalmInv
<1> QED BY <1>7, <1>8, <1>9 DEF TakeStatus

LEMMA OpenedCalm ==
  ASSUME Races = {}, ServiceInv, CalmInv, Opened
  PROVE  CalmInv'
<1>1. /\ task.at = "status" /\ task.op = "open" /\ statusQ # <<>> /\ answering = "none"
      /\ statusQ' = <<>> /\ Call("read")
      /\ UNCHANGED <<opcodes, radio, client, enabled, system, memory>>
  BY Calm, NothingUnusual DEF Opened, BleTurn
<1>2. StatusThere /\ air = {} /\ active # "REQ_RECEIVE_COMPLETE" /\ task # Loop
  BY <1>1, Busy DEF Asked, DataThere
<1>3. cmdQ = <<>>
  BY <1>2 DEF StatusThere
<1>4. task'.at = "status" /\ task'.op = "read" /\ task' # Loop
  BY <1>1, <1>3, TaskTyped DEF Call, At, Loop
<1>5. conn /\ subscribed /\ enabled /\ system = "on"
  BY <1>2, Attentive
<1>6. Listening' /\ Refused' /\ Completed' /\ FileOpen'
  BY <1>1, <1>2, <1>4, <1>5 DEF CalmInv, Listening, Refused, Completed, FileOpen, opcodes, radio, memory
<1>7. Moving'
  BY <1>1, <1>4 DEF CalmInv, Moving, ActiveRequestIsMoving, opcodes, IsRequest
<1>8. Received'
  BY <1>1, <1>2, ReceivedSame DEF CalmInv, Received, opcodes, radio
<1> QED BY <1>6, <1>7, <1>8 DEF CalmInv

LEMMA TakeDataCalm ==
  ASSUME Races = {}, ServiceInv, CalmInv, TakeData
  PROVE  CalmInv'
<1>1. /\ task.at = "data" /\ dataQ # <<>>
      /\ UNCHANGED <<opcodes, conn, subscribed, client, enabled, system, cmdQ, statusQ, memory>>
  BY DEF TakeData
<1>2. /\ DataThere /\ air = {} /\ active # "REQ_RECEIVE_COMPLETE" /\ task.op \in CallOp
      /\ task # Loop
  BY <1>1, Busy DEF Asked, StatusThere
<1>3. conn /\ subscribed
  BY <1>2, Attentive
<1>4. statusQ' = <<>> /\ Served(task.op, task.size) /\ tx \in Transaction
      /\ Head(dataQ).units = mem.elem
  <2>1. dataQ = <<Element(task.op)>>
    BY <1>2 DEF DataThere
  <2>2. Head(dataQ).units = mem.elem
    <3>1. Head(dataQ) = Element(task.op)
      BY <2>1
    <3> QED BY <3>1 DEF Element
  <2> QED BY <1>1, <1>2, <2>2 DEF DataThere, AtRest, ServiceInv, TypeInv, TypeOK, ServiceOK
<1>5. /\ task.op \in {"list", "info", "open", "read", "stat"} =>
           pending = RequestOf(task.op) /\ ~IsRequest(active)
      /\ task.op = "more" => pending = "FINALIZE_TRANSACTION" /\ active = "REQ_FILE_DATA"
      /\ task.op = "next" => pending = "FINALIZE_TRANSACTION" /\ active = "REQ_FILES_LIST"
  BY <1>1 DEF ServiceInv, MildInv, Calling
<1>6. task.op \in {"list", "next", "info", "stat"} => mem.file = NoFile
  BY DEF CalmInv, FileOpen
<1>7. task.op \in {"read", "more"} => mem.file # NoFile
  BY <1>4, FileTypes DEF Served
<1>8. PICK char \in Characteristic, done \in Outcome :
        /\ \E t, failed : Push(char, t, done, failed)
        /\ char # "GENERAL_STATUS" /\ pending # "REQ_RECEIVE_COMPLETE"
        /\ pending \in ReadingRequest => ~IsRequest(active)
        /\ mem.file # NoFile <=> \/ done = "accept" /\ pending = "REQ_FILE_DATA"
                                 \/ done = "keep" /\ active = "REQ_FILE_DATA"
  <2>1. CASE task.op = "list" /\ SendFilesList(task.size, Head(dataQ).units)
    <3>1. \E t, failed : Push("REQ_FILES_LIST", t, "accept", failed)
      BY <2>1 DEF SendFilesList
    <3> QED BY <1>5, <1>6, <2>1, <3>1 DEF RequestOf, Characteristic, ReadingRequest, Outcome, IsRequest
  <2>2. CASE task.op = "next" /\ ContinueSendingFilesList(Head(dataQ).units)
    <3>1. \E t, failed : Push("REQ_FILES_LIST_NEXT", t, "keep", failed)
      BY <2>2 DEF ContinueSendingFilesList
    <3> QED BY <1>5, <1>6, <2>2, <3>1 DEF Characteristic, ReadingRequest, Outcome
  <2>3. CASE task.op = "info" /\ SendFileInfo(Head(dataQ).units)
    <3>1. \E t, failed : Push("REQ_FILE_INFO", t, "accept", failed)
      BY <2>3 DEF SendFileInfo
    <3> QED BY <1>5, <1>6, <2>3, <3>1 DEF RequestOf, Characteristic, ReadingRequest, Outcome, IsRequest
  <2>4. CASE task.op = "stat" /\ SendFsStatus(Head(dataQ).units)
    <3>1. \E t, failed : Push("REQ_FS_STATUS", t, "idle", failed)
      BY <2>4 DEF SendFsStatus
    <3> QED BY <1>5, <1>6, <2>4, <3>1 DEF RequestOf, Characteristic, ReadingRequest, Outcome, IsRequest
  <2>5. CASE task.op = "read" /\ SendFileData(Head(dataQ).units)
    <3>1. \E t, failed : Push("REQ_FILE_DATA", t, "accept", failed)
      BY <2>5 DEF SendFileData
    <3> QED BY <1>5, <1>7, <2>5, <3>1 DEF RequestOf, Characteristic, ReadingRequest, Outcome, IsRequest
  <2>6. CASE task.op = "more" /\ ContinueSendingFileData(Head(dataQ).units)
    <3>1. \E t, failed : Push("REQ_FILE_DATA", t, "keep", failed)
      BY <2>6 DEF ContinueSendingFileData
    <3> QED BY <1>5, <1>7, <2>6, <3>1 DEF Characteristic, ReadingRequest, Outcome
  <2> QED BY <2>1, <2>2, <2>3, <2>4, <2>5, <2>6 DEF TakeData
<1> QED BY <1>1, <1>2, <1>3, <1>4, <1>8, PushCalm

LEMMA NoSystemReset ==
  ASSUME ServiceInv, SystemReset
  PROVE  FALSE
<1>1. task.at = "data" /\ task.op = "more" /\ Head(dataQ).units = <<>>
  BY DEF SystemReset
<1>2. dataQ = <<Element(task.op)>> /\ Served("more", task.size) /\ tx \in Transaction
  BY <1>1, Busy DEF Asked, StatusThere, DataThere, ServiceInv, TypeInv, TypeOK, ServiceOK
<1>3. Head(dataQ).units = mem.elem
  <2>1. Head(dataQ) = Element(task.op)
    BY <1>2
  <2> QED BY <2>1 DEF Element
<1> QED BY <1>1, <1>2, <1>3, DataNotEmpty

LEMMA FinishCalm ==
  ASSUME Races = {}, ServiceInv, CalmInv, Finish
  PROVE  CalmInv'
<1>1. /\ task.at = "finish" /\ task' = Loop /\ pending' = "IDLE" /\ tx' = tx
      /\ UNCHANGED <<radio, client, enabled, system, queues, memory>>
  BY DEF Finish
<1>2. task.op \in Outcome /\ task # Loop
  BY <1>1 DEF ServiceInv, TypeInv, Loop
<1>3. active' = IF task.op = "accept" THEN pending ELSE IF task.op = "idle" THEN "IDLE" ELSE active
  BY <1>2 DEF Finish, Outcome
<1>4. conn /\ subscribed /\ enabled /\ system = "on"
  BY <1>2, Attentive
<1>5. Listening' /\ Refused'
  BY <1>1, <1>4 DEF Listening, Refused, Loop, radio
<1>6. Moving'
  <2>1. task.op = "accept" \/ (task.op = "keep" /\ IsRequest(active)) => air # {}
    BY <1>1 DEF CalmInv, Moving
  <2>2. IsRequest(active') => air # {}
    BY <1>2, <1>3, <2>1 DEF Outcome, IsRequest, ReadingRequest
  <2> QED BY <1>1, <2>2 DEF Moving, ActiveRequestIsMoving, radio, ReadingRequest, Loop
<1>7. FileOpen'
  BY <1>1, <1>2, <1>3 DEF CalmInv, FileOpen, memory, Loop, Outcome
<1>8. Completed'
  BY <1>1, <1>3 DEF ServiceInv, MildInv, Finishing, CalmInv, Completed, queues
<1>9. Received'
  BY <1>1, ReceivedSame DEF CalmInv, radio
<1> QED BY <1>5, <1>6, <1>7, <1>8, <1>9 DEF CalmInv

LEMMA FinalizeCalm ==
  ASSUME Races = {}, ServiceInv, CalmInv, FinalizeTransaction
  PROVE  CalmInv'
<1>1. /\ task = Loop /\ pending = "FINALIZE_TRANSACTION"
      /\ UNCHANGED <<radio, client, enabled, system, statusQ, memory>>
  BY DEF FinalizeTransaction
<1>2. AtRest /\ air = {} /\ active # "REQ_RECEIVE_COMPLETE"
  BY <1>1, Free
<1>3. conn /\ subscribed /\ enabled /\ system = "on"
  BY <1>1, Attentive
<1>4. Listening' /\ Refused'
  BY <1>1, <1>2, <1>3 DEF Listening, Refused, AtRest, radio
<1>5. mem.context = mem.file /\ (mem.file # NoFile <=> active = "REQ_FILE_DATA")
  BY <1>1 DEF CalmInv, FileOpen
<1>6. pending' # "REQ_RECEIVE_COMPLETE" => Received'
  BY <1>1, <1>2, ReceivedSame DEF CalmInv, radio
<1>7. ASSUME NEW op \in CallOp, Call(op)
      PROVE  cmdQ' = <<[cmd |-> CommandOf(op), id |-> tx.file]>> /\ task' = At("status", op)
             /\ task'.at = "status" /\ task'.op = op /\ task' # Loop
  <2>1. cmdQ' = <<[cmd |-> CommandOf(op), id |-> tx.file]>> /\ task' = At("status", op)
    BY <1>2, <1>7 DEF Call, AtRest
  <2> QED BY <2>1 DEF At, Loop
<1>8. CASE active = "REQ_FILE_DATA" /\ FileTransferred
  <2>1. Call("close") /\ Idle
    BY <1>8 DEF FileTransferred
  <2>2. /\ cmdQ' = <<[cmd |-> "CLOSE_FILE", id |-> tx.file]>>
        /\ task'.at = "status" /\ task'.op = "close" /\ task' # Loop
    BY <1>7, <2>1 DEF CallOp, CommandOf
  <2>3. cmdQ' # <<>> /\ cmdQ'[1].id = tx.file
    BY <2>2
  <2>4. mem.file = tx.file
    BY <1>1, <1>3, <1>8 DEF ServiceInv, MildInv, Looping, DataBuffer
  <2>5. FileOpen'
    BY <1>1, <1>5, <1>8, <2>2, <2>3, <2>4 DEF FileOpen, memory
  <2>6. Moving' /\ Completed'
    BY <2>1, <2>2 DEF Moving, ActiveRequestIsMoving, Completed, Idle, IsRequest, ReadingRequest
  <2> QED BY <1>4, <1>6, <2>1, <2>5, <2>6 DEF CalmInv, Idle
<1>9. CASE active = "REQ_FILE_DATA" /\ Call("more") /\ UNCHANGED opcodes
  <2>1. task'.at = "status" /\ task'.op = "more" /\ task' # Loop
    BY <1>7, <1>9 DEF CallOp
  <2>2. FileOpen'
    BY <1>1, <1>5, <2>1 DEF FileOpen, memory
  <2>3. Moving' /\ Completed'
    BY <1>1, <1>2, <1>9, <2>1 DEF Moving, ActiveRequestIsMoving, Completed, opcodes, ReadingRequest
  <2> QED BY <1>1, <1>4, <1>6, <1>9, <2>2, <2>3 DEF CalmInv, opcodes
<1>10. CASE active = "REQ_FILES_LIST" /\ Call("next") /\ UNCHANGED <<opcodes, tx>>
  <2>1. task'.at = "status" /\ task'.op = "next" /\ task' # Loop
    BY <1>7, <1>10 DEF CallOp
  <2>2. FileOpen'
    BY <1>1, <1>5, <1>10, <2>1 DEF FileOpen, memory
  <2>3. Moving' /\ Completed'
    BY <1>1, <1>2, <1>10, <2>1 DEF Moving, ActiveRequestIsMoving, Completed, opcodes, ReadingRequest
  <2> QED BY <1>1, <1>4, <1>6, <1>10, <2>2, <2>3 DEF CalmInv, opcodes
<1>11. CASE active # "REQ_FILE_DATA" /\ Idle /\ UNCHANGED <<tx, task, cmdQ, dataQ>>
  <2>1. FileOpen'
    BY <1>1, <1>5, <1>11 DEF FileOpen, memory, Idle, Loop
  <2>2. Moving' /\ Completed'
    BY <1>1, <1>11 DEF Moving, ActiveRequestIsMoving, Completed, Idle, IsRequest, ReadingRequest, Loop
  <2> QED BY <1>4, <1>6, <1>11, <2>1, <2>2 DEF CalmInv, Idle
<1> QED BY <1>8, <1>9, <1>10, <1>11 DEF FinalizeTransaction

LEMMA PushDataCalm ==
  ASSUME Races = {}, ServiceInv, CalmInv, PushDataPackets
  PROVE  CalmInv'
<1>1. /\ task = Loop /\ pending = "PUSH_DATA_PACKETS"
      /\ Push(active, tx, "keep", "idle")
      /\ UNCHANGED <<conn, subscribed, opcodes, client, enabled, system, queues, memory>>
  BY DEF PushDataPackets
<1>2. AtRest /\ air = {}
  BY <1>1, Free
<1>3. conn /\ subscribed
  BY <1>1, Attentive
<1>4. active = "REQ_FILE_DATA"
  BY <1>1 DEF ServiceInv, MildInv, Looping
<1>5. mem.file # NoFile
  BY <1>1, <1>4 DEF CalmInv, FileOpen
<1>6. active \in Characteristic /\ "keep" \in Outcome /\ statusQ' = <<>>
      /\ pending \notin ReadingRequest
  BY <1>1, <1>2, <1>4 DEF Characteristic, ReadingRequest, Outcome, AtRest, queues
<1> QED BY <1>1, <1>2, <1>3, <1>4, <1>5, <1>6, PushCalm

LEMMA NeverRefused ==
  ASSUME CalmInv, Refuse
  PROVE  FALSE
<1>1. pending \in ReadingRequest \cup {"REQ_RECEIVE_COMPLETE"} /\ (IsRequest(active) \/ ~enabled)
  BY DEF Refuse, CalmInv, Listening
<1>2. enabled /\ ~IsRequest(active)
  BY <1>1 DEF CalmInv, Listening, Moving
<1> QED BY <1>1, <1>2

LEMMA RequestCalm ==
  ASSUME Races = {}, ServiceInv, CalmInv, ProcessClientRequest
  PROVE  CalmInv'
<1>1. PICK op \in CallOp : Call(op) /\ op \in {"list", "info", "open", "stat"}
  BY RequestCalls
<1>2. /\ task = Loop /\ pending \in ReadingRequest /\ ~IsRequest(active)
      /\ UNCHANGED <<opcodes, radio, client, enabled, system, tx, statusQ, memory>>
  BY DEF ProcessClientRequest
<1>3. AtRest /\ air = {} /\ active # "REQ_RECEIVE_COMPLETE"
  BY <1>2, Free DEF ReadingRequest
<1>4. task'.at = "status" /\ task'.op = op /\ task' # Loop
  BY <1>1, <1>3 DEF Call, AtRest, At, Loop
<1>5. conn /\ subscribed /\ enabled /\ system = "on"
  BY <1>2, Attentive DEF ReadingRequest
<1>6. Listening' /\ Refused' /\ Completed'
  BY <1>2, <1>3, <1>5 DEF Listening, Refused, Completed, AtRest, opcodes, radio
<1>7. Moving'
  BY <1>2, <1>4 DEF Moving, ActiveRequestIsMoving, opcodes, IsRequest
<1>8. FileOpen'
  <2>1. mem.file = NoFile /\ mem.context = mem.file
    BY <1>2 DEF CalmInv, FileOpen, IsRequest, ReadingRequest
  <2> QED BY <1>1, <1>2, <1>3, <1>4, <2>1 DEF FileOpen, AtRest, memory
<1>9. Received'
  BY <1>2, ReceivedSame DEF CalmInv, Received, opcodes, radio
<1> QED BY <1>6, <1>7, <1>8, <1>9 DEF CalmInv

LEMMA ReceiveCompletedCalm ==
  ASSUME Races = {}, ServiceInv, CalmInv, ReceiveCompleted
  PROVE  CalmInv'
<1> DEFINE c == [cmd |-> "ALLOW_MEMORY_FORMATTING", id |-> NoFile]
<1>1. /\ task = Loop /\ pending' = "IDLE" /\ LinkDown /\ cmdQ' = <<c>> /\ pending # "IDLE"
      /\ active' = "REQ_RECEIVE_COMPLETE" /\ ~IsRequest(active)
      /\ UNCHANGED <<enabled, system, tx, task, statusQ, dataQ, memory>>
  BY DEF ReceiveCompleted
<1>2. Listening' /\ Refused'
  BY <1>1 DEF CalmInv, Listening, Refused, Quiet, LinkDown, IsRequest, ReadingRequest, Loop
<1>3. Moving'
  BY <1>1 DEF Moving, ActiveRequestIsMoving, IsRequest, ReadingRequest, Loop
<1>4. FileOpen'
  <2>1. mem.file = NoFile /\ mem.context = mem.file
    BY <1>1 DEF CalmInv, FileOpen, IsRequest, ReadingRequest
  <2> QED BY <1>1, <2>1 DEF FileOpen, memory, Loop
<1>5. Completed'
  <2>1. c.cmd = "ALLOW_MEMORY_FORMATTING"
    OBVIOUS
  <2> HIDE DEF c
  <2> QED BY <1>1, <2>1 DEF Completed
<1>6. Received'
  BY <1>1 DEF LinkDown, Received
<1> QED BY <1>2, <1>3, <1>4, <1>5, <1>6 DEF CalmInv

LEMMA RestartCalm ==
  ASSUME Restart
  PROVE  CalmInv'
<1>1. Listening' /\ Refused' /\ Completed'
  BY DEF Restart, Listening, Quiet, Refused, Completed, IsRequest, ReadingRequest, Loop
<1>2. Moving' /\ FileOpen'
  BY DEF Restart, Moving, ActiveRequestIsMoving, FileOpen, IsRequest, ReadingRequest, Loop, ServerStart
<1>3. Received'
  BY DEF Restart, Received
<1> QED BY <1>1, <1>2, <1>3 DEF CalmInv

LEMMA InitCalm ==
  ASSUME Init
  PROVE  CalmInv
<1>1. Listening /\ Refused /\ Completed
  BY DEF Init, Listening, Quiet, Refused, Completed, IsRequest, ReadingRequest, Loop
<1>2. Moving /\ FileOpen
  BY DEF Init, Moving, ActiveRequestIsMoving, FileOpen, IsRequest, ReadingRequest, Loop, ServerStart
<1>3. Received
  BY DEF Init, Received
<1> QED BY <1>1, <1>2, <1>3 DEF CalmInv
(* Which file a call opens or closes, and when it is refused.              *)
LEMMA ServedFile ==
  ASSUME NEW m \in Server, m.context = m.file, NEW op \in CallOp, NEW id,
         NEW r, r = Result(m, CommandOf(op), id),
         NEW n, n = Serve(m, CommandOf(op), id)
  PROVE  /\ n.context = n.file
         /\ op \notin {"open", "close"} => n.file = m.file
         /\ op = "open" => n.file = IF r = "OK" THEN id ELSE m.file
         /\ op = "open" /\ r = "OK" => id \in File
         /\ op = "close" /\ r = "OK" => n.file = NoFile
         /\ op = "close" /\ m.file # NoFile /\ id = m.file => r = "OK"
         /\ op = "info" /\ r # "OK" => r = "ERROR_FILE_NOT_FOUND" /\ id \notin File
         /\ op = "open" /\ r # "OK" /\ m.file = NoFile =>
              r = "ERROR_FILE_NOT_FOUND" /\ id \notin File
<1>1. n = IF r = "OK" THEN Executed(m, CommandOf(op), id) ELSE m
  BY DEF Serve
<1>2. CASE op = "list"
  <2> DEFINE k == Least(ListFirst, Len(Sizes))  s == SubSeq(Names, 1, k)  b == ListFirst < Len(Sizes)
  <2>1. n = m \/ n = [m EXCEPT !.elem = s, !.listed = k, !.needed = b]
    BY <1>1, <1>2 DEF Executed, CommandOf
  <2> HIDE DEF s, k, b
  <2> QED BY <1>2, <2>1 DEF Server
<1>3. CASE op = "next"
  <2> DEFINE k == Least(m.listed + ListNext, Len(Sizes))  s == SubSeq(Names, m.listed + 1, k)
  <2>1. n = m \/ n = [m EXCEPT !.elem = s, !.listed = k]
    BY <1>1, <1>3 DEF Executed, CommandOf
  <2> HIDE DEF s, k
  <2> QED BY <1>3, <2>1 DEF Server
<1>4. CASE op \in {"info", "stat"}
  <2> DEFINE s == IF op = "info" THEN <<InfoUnit(id)>> ELSE <<StatUnit>>
  <2>1. n = m \/ n = [m EXCEPT !.elem = s]
    BY <1>1, <1>4 DEF Executed, CommandOf
  <2>2. op = "info" /\ r # "OK" => r = "ERROR_FILE_NOT_FOUND" /\ id \notin File
    BY DEF Result, CommandOf
  <2> HIDE DEF s
  <2> QED BY <1>4, <2>1, <2>2 DEF Server
<1>5. CASE op \in {"read", "more"}
  <2> DEFINE s == Chunk(m)  k == m.at + Len(s)
  <2>1. n = m \/ n = [m EXCEPT !.elem = s, !.at = k]
    BY <1>1, <1>5 DEF Executed, CommandOf
  <2> HIDE DEF s, k
  <2> QED BY <1>5, <2>1 DEF Server
<1>6. CASE op = "open"
  <2>1. /\ r = "OK" => m.context = NoFile /\ id \in File
        /\ r # "OK" /\ m.file = NoFile => r = "ERROR_FILE_NOT_FOUND" /\ id \notin File
    BY <1>6 DEF Result, CommandOf
  <2>2. n = IF r = "OK" THEN [m EXCEPT !.context = id, !.file = id, !.at = 0] ELSE m
    BY <1>1, <1>6 DEF Executed, CommandOf
  <2> QED BY <1>6, <2>1, <2>2 DEF Server
<1>7. CASE op = "close"
  <2>1. m.file # NoFile /\ id = m.file => r = "OK"
    BY <1>7 DEF Result, CommandOf
  <2>2. n = IF r = "OK" THEN [m EXCEPT !.context = NoFile, !.file = NoFile] ELSE m
    BY <1>1, <1>7 DEF Executed, CommandOf
  <2> QED BY <1>7, <2>1, <2>2 DEF Server
<1> QED BY <1>2, <1>3, <1>4, <1>5, <1>6, <1>7 DEF CallOp

(* A step of the memory task.                                              *)
LEMMA MemoryCalm ==
  ASSUME CalmInv, FileOpen', Refused', cmdQ' = cmdQ \/ cmdQ' = <<>>,
         UNCHANGED <<radio, client, opcodes, enabled, system, tx, task>>
  PROVE  CalmInv'
<1>1. Listening' /\ Moving' /\ Completed'
  BY DEF CalmInv, Listening, Quiet, Moving, ActiveRequestIsMoving, Completed, radio, opcodes
<1>2. Received'
  BY ReceivedSame DEF CalmInv, Received, radio, opcodes
<1> QED BY <1>1, <1>2 DEF CalmInv

LEMMA MemoryServesCalm ==
  ASSUME Races = {}, ServiceInv, CalmInv, MemoryServes
  PROVE  CalmInv'
<1>1. /\ answering = "none" /\ cmdQ # <<>> /\ mem.owner = "BLE" /\ cmdQ' = <<>>
      /\ UNCHANGED <<radio, client, opcodes, enabled, system, tx, task, dataQ>>
  BY DEF MemoryServes
<1>2. mem \in Server /\ QueuesOK
  BY DEF ServiceInv, TypeInv, TypeOK, MemoryOK
<1>3. Head(cmdQ) = cmdQ[1] /\ 1 \in DOMAIN cmdQ
  BY <1>1, <1>2, InQueue DEF QueuesOK
<1>4. CASE active = "REQ_RECEIVE_COMPLETE"
  <2>1. task = Loop
    BY <1>4 DEF ServiceInv, MildInv, Link
  <2>2. cmdQ[1].cmd = "ALLOW_MEMORY_FORMATTING"
    BY <1>3, <1>4 DEF CalmInv, Completed
  <2>3. mem' = mem
    BY <1>3, <2>2 DEF MemoryServes, Serve, Executed
  <2>4. FileOpen' /\ Refused'
    BY <1>1, <2>1, <2>3 DEF CalmInv, FileOpen, Refused, Loop, opcodes
  <2> QED BY <1>1, <2>4, MemoryCalm
<1>5. CASE active # "REQ_RECEIVE_COMPLETE"
  <2>1. task.op \in CallOp /\ Asked
    BY <1>1, <1>5 DEF ServiceInv, MildInv, Exchange, AtRest, StatusThere, DataThere
  <2>2. PICK op \in CallOp : op = task.op
    BY <2>1
  <2>3. PICK id : id = cmdQ[1].id
    OBVIOUS
  <2>4. PICK r : r = Result(mem, CommandOf(op), id)
    OBVIOUS
  <2>5. cmdQ[1].cmd = CommandOf(op) /\ statusQ = <<>> /\ task.at = "status"
        /\ (op # "close" => id = tx.file)
    BY <2>1, <2>2, <2>3 DEF Asked
  <2> DEFINE e == [cmd |-> cmdQ[1].cmd, result |-> r,
                   size |-> IF r = "OK" THEN ReportedSize(mem, cmdQ[1].cmd, id) ELSE 0]
  <2>6. mem' = Serve(mem, CommandOf(op), id) /\ statusQ' = <<e>>
    BY <1>3, <2>3, <2>4, <2>5 DEF MemoryServes
  <2>7. statusQ'[1].result = r /\ statusQ' # <<>>
    <3>1. e.result = r
      OBVIOUS
    <3> HIDE DEF e
    <3> QED BY <2>6, <3>1
  <2>8. task' = task /\ task # Loop /\ task'.at = "status" /\ task'.op = op
    BY <1>1, <2>2, <2>5 DEF Loop
  <2>9. mem.context = mem.file
    BY DEF CalmInv, FileOpen
  <2>10. /\ mem'.context = mem'.file
         /\ op \notin {"open", "close"} => mem'.file = mem.file
         /\ op = "open" => mem'.file = IF r = "OK" THEN id ELSE mem.file
         /\ op = "open" /\ r = "OK" => id \in File
         /\ op = "close" /\ r = "OK" => mem'.file = NoFile
         /\ op = "close" /\ mem.file # NoFile /\ id = mem.file => r = "OK"
         /\ op = "info" /\ r # "OK" => r = "ERROR_FILE_NOT_FOUND" /\ id \notin File
         /\ op = "open" /\ r # "OK" /\ mem.file = NoFile =>
              r = "ERROR_FILE_NOT_FOUND" /\ id \notin File
    BY <1>2, <2>4, <2>6, <2>9, ServedFile
  <2>11. /\ op = "open" => mem.file = NoFile
         /\ op = "close" => mem.file # NoFile /\ id = mem.file
    BY <1>1, <2>2, <2>3, <2>5 DEF CalmInv, FileOpen
  <2>12. FileOpen'
    <3>1. op \in {"list", "next", "info", "stat"} => mem.file = NoFile
      BY <2>2 DEF CalmInv, FileOpen
    <3>2. NoFile \notin File
      BY FileTypes
    <3> QED BY <1>1, <2>7, <2>8, <2>10, <2>11, <3>1, <3>2 DEF FileOpen
  <2>13. Refused'
    <3>1. statusQ'[1].result # "OK" => op \in {"info", "open", "close"}
      <4>1. StatusThere'
        BY <2>1, <2>7, <2>8, MemoryServesMild DEF MildInv, Exchange, Asked, DataThere
      <4> QED BY <2>8, <4>1 DEF StatusThere
    <3> QED BY <1>1, <2>5, <2>7, <2>8, <2>10, <2>11, <3>1 DEF Refused
  <2> QED BY <1>1, <2>12, <2>13, MemoryCalm
<1> QED BY <1>4, <1>5

LEMMA MemorySendsCalm ==
  ASSUME Races = {}, ServiceInv, CalmInv, MemorySendsData
  PROVE  CalmInv'
<1>1. UNCHANGED <<radio, client, opcodes, enabled, system, tx, task, cmdQ, statusQ, mem>>
  BY DEF MemorySendsData
<1>2. FileOpen' /\ Refused'
  BY <1>1 DEF CalmInv, FileOpen, Refused, opcodes
<1> QED BY <1>1, <1>2, MemoryCalm
(* Only a general status carries a status.                                 *)
LEMMA NoStatus ==
  ASSUME tx \in Transaction, NEW p, Carried(p), p.char # "GENERAL_STATUS"
  PROVE  \A i \in 1 .. Len(tx.buf) : ~IsStatus(tx.buf[i])
<1>1. Len(tx.buf) \in Nat /\ tx.sent \in Nat /\ tx.left \in Nat /\ Total \in Nat
  BY FileTypes DEF Transaction, Total
<1>2. CASE DataBuffer
  <2>1. /\ tx.file \in File /\ Sizes[tx.file] \in Nat /\ tx.sent + Len(tx.buf) <= Sizes[tx.file]
        /\ \A i \in 1 .. Len(tx.buf) : tx.buf[i] = FileUnits(tx.file)[tx.sent + i]
    BY <1>2, FileTypes DEF DataBuffer
  <2>2. \A i \in 1 .. Sizes[tx.file] : ~IsStatus(FileUnits(tx.file)[i])
    BY DEF FileUnits, IsStatus
  <2>3. \A i \in 1 .. Len(tx.buf) : tx.sent + i \in 1 .. Sizes[tx.file]
    BY <1>1, <2>1
  <2> QED BY <2>1, <2>2, <2>3
<1>3. CASE ListBuffer
  <2> DEFINE before == 1 + Total - tx.left - Len(tx.buf)
  <2>1. before \in Nat /\ \A i \in 1 .. Len(tx.buf) : tx.buf[i] = ListUnit(before + i)
    BY <1>3 DEF ListBuffer
  <2>2. \A i \in 1 .. Len(tx.buf) : before + i \in 1 .. 1 + Total
    <3>1. before + Len(tx.buf) <= 1 + Total
      BY <1>1
    <3> HIDE DEF before
    <3> QED BY <1>1, <2>1, <3>1
  <2>3. \A i \in 1 .. 1 + Total : ~IsStatus(ListUnit(i))
    BY ListAnswer
  <2> HIDE DEF before
  <2> QED BY <2>1, <2>2, <2>3
<1>4. CASE tx.buf = <<InfoUnit(tx.file)>> \/ tx.buf = <<StatUnit>>
  <2>1. ~IsStatus(InfoUnit(tx.file)) /\ ~IsStatus(StatUnit)
    BY DEF IsStatus, InfoUnit, StatUnit
  <2>2. Len(tx.buf) = 1 /\ (tx.buf[1] = InfoUnit(tx.file) \/ tx.buf[1] = StatUnit)
    BY <1>4
  <2> QED BY <2>1, <2>2
<1> QED BY <1>2, <1>3, <1>4 DEF Carried, OneBuffer

(* What the client gets is the next part of its answer.                    *)
LEMMA GotInOrder ==
  ASSUME Races = {}, ServiceInv, CalmInv, NotificationSent, want # NoRequest
  PROVE  /\ want' = want /\ Len(got') \in Len(got) .. Len(Answer(want))
         /\ \A i \in 1 .. Len(got') : got'[i] = Answer(want)[i]
<1>1. PICK p \in air : Receive(p)
  BY DEF NotificationSent
<1>2. task = Loop
  <2>1. task.at \notin {"finish", "status", "data"}
    BY <1>1, NothingUnusual DEF NotificationSent, ServiceInv, MildInv, Calling
  <2> QED BY <2>1 DEF ServiceInv, MildInv, Exchange, Asked, StatusThere, DataThere
<1>3. Carried(p) /\ p \in PacketType /\ tx \in Transaction /\ ClientOK /\ want \in Request
  BY <1>1, <1>2 DEF ServiceInv, MildInv, Looping, TypeInv, TypeOK, RadioOK, ServiceOK, ClientOK
<1>4. Len(p.units) = tx.packet /\ \A n \in 1 .. tx.packet : p.units[n] = tx.buf[tx.idx + n]
  BY <1>3, InTheAir
<1>5. want' = want /\ (got' = got \/ got' = got \o p.units)
  BY <1>1 DEF Receive
<1>6. Len(got) \in Nat /\ got \in Seq(Unit) /\ p.units \in Seq(Unit) /\ Len(p.units) \in Nat
  BY <1>3 DEF ClientOK, PacketType
<1> DEFINE a == Answer(want)
<1>7. a \in Seq(Unit) /\ Len(a) \in Nat
  BY <1>3, AnswerType
<1>8. Len(got) <= Len(a) /\ \A i \in 1 .. Len(got) : got[i] = a[i]
  BY DEF CalmInv, Received
<1> HIDE DEF a
<1>9. CASE got' = got
  BY <1>5, <1>6, <1>7, <1>8, <1>9 DEF a
<1>10. CASE got' = got \o p.units
  <2>1. /\ Len(got') = Len(got) + Len(p.units)
        /\ \A i \in 1 .. Len(got) + Len(p.units) :
             got'[i] = IF i <= Len(got) THEN got[i] ELSE p.units[i - Len(got)]
    BY <1>6, <1>10, ConcatProperties
  <2>2. \A i \in 1 .. Len(got') : i <= Len(a) /\ got'[i] = a[i]
    <3>1. CASE p.char = "GENERAL_STATUS"
      <4>1. /\ tx.file \notin File /\ tx.buf = <<NotFound(tx.file)>>
            /\ \E c \in NeedsFile : Agrees(c, 0)
        BY <1>1, <3>1 DEF CalmInv, Received
      <4>2. PICK c \in NeedsFile : want = [cmd |-> c, id |-> tx.file] /\ Len(got) = 0
        BY <4>1 DEF Agrees, Wanted
      <4>3. tx.file \in FileId
        BY <1>3, <4>2 DEF Request, NeedsFile
      <4>4. a = <<NotFound(tx.file)>>
        BY <4>1, <4>2, <4>3 DEF a, Answer, NeedsFile
      <4>5. Len(p.units) = 1 /\ p.units[1] = NotFound(tx.file)
        <5>1. Window /\ Len(tx.buf) = 1 /\ tx.idx = 0
          BY <1>3, <3>1 DEF Carried
        <5>2. tx.packet = 1
          BY <5>1, Naturals0 DEF Window, Least
        <5> QED BY <1>4, <4>1, <5>1, <5>2
      <4>6. Len(a) = 1 /\ a[1] = NotFound(tx.file)
        BY <4>4
      <4> QED BY <2>1, <4>2, <4>5, <4>6
    <3>2. CASE p.char # "GENERAL_STATUS"
      <4>1. \A i \in 1 .. Len(tx.buf) : ~IsStatus(tx.buf[i])
        BY <1>3, <3>2, NoStatus
      <4>2. tx.idx \in Nat /\ tx.packet \in Nat /\ Len(tx.buf) \in Nat
            /\ tx.idx + tx.packet <= Len(tx.buf)
        BY <1>3, Naturals0 DEF Transaction, Carried, Window, Least
      <4>3. \A n \in 1 .. tx.packet : ~IsStatus(p.units[n])
        <5>1. \A n \in 1 .. tx.packet : tx.idx + n \in 1 .. Len(tx.buf)
          BY <4>2
        <5> QED BY <1>4, <4>1, <5>1
      <4>4. NothingForeign'
        BY NotificationSentMild DEF MildInv
      <4>5. DOMAIN got' = 1 .. Len(got')
        BY <1>6, <1>10, <2>1
      <4>6. \A i \in 1 .. Len(got') : IsStatus(got'[i]) \/ (i <= Len(a) /\ got'[i] = a[i])
        BY <1>5, <4>4, <4>5 DEF NothingForeign, a
      <4>7. \A i \in 1 .. Len(got') : i <= Len(got) \/ ~IsStatus(got'[i])
        <5> SUFFICES ASSUME NEW i \in 1 .. Len(got'), ~(i <= Len(got)) PROVE ~IsStatus(got'[i])
          OBVIOUS
        <5>1. i - Len(got) \in 1 .. tx.packet /\ got'[i] = p.units[i - Len(got)]
          BY <1>4, <1>6, <2>1
        <5> QED BY <4>3, <5>1
      <4>8. \A i \in 1 .. Len(got') : i <= Len(got) => got'[i] = got[i]
        BY <2>1
      <4> QED BY <1>6, <1>7, <1>8, <4>6, <4>7, <4>8
    <3> QED BY <3>1, <3>2
  <2>3. Len(got') \in Nat /\ Len(got) <= Len(got')
    BY <1>6, <2>1
  <2>4. Len(got') <= Len(a)
    <3>1. CASE Len(got') = 0
      BY <1>7, <3>1
    <3>2. CASE Len(got') # 0
      BY <2>2, <2>3, <3>2
    <3> QED BY <3>1, <3>2
  <2> QED BY <1>5, <1>6, <1>7, <2>2, <2>3, <2>4 DEF a
<1> QED BY <1>5, <1>9, <1>10

LEMMA NotificationSentCalm ==
  ASSUME Races = {}, ServiceInv, CalmInv, NotificationSent
  PROVE  CalmInv'
<1>1. PICK p \in air : Receive(p)
  BY DEF NotificationSent
<1>2. /\ air' = {} /\ pending' \in {"FINALIZE_TRANSACTION", "PUSH_DATA_PACKETS"}
      /\ UNCHANGED <<conn, subscribed, active, enabled, system, task, queues, memory>>
  BY DEF NotificationSent, HvnTxCallback
<1>3. task = Loop
  <2>1. task.at \notin {"finish", "status", "data"}
    BY <1>1, NothingUnusual DEF NotificationSent, ServiceInv, MildInv, Calling
  <2> QED BY <2>1 DEF ServiceInv, MildInv, Exchange, Asked, StatusThere, DataThere
<1>4. conn /\ subscribed /\ system = "on" /\ enabled
  BY <1>1, Attentive
<1>5. Listening' /\ Refused' /\ Completed'
  BY <1>2, <1>3, <1>4 DEF CalmInv, Listening, Refused, Completed, Loop, queues
<1>6. Moving' /\ FileOpen'
  BY <1>2, <1>3 DEF CalmInv, Moving, ActiveRequestIsMoving, FileOpen, Loop, memory, ReadingRequest
<1>7. Received'
  <2>1. CASE want = NoRequest
    BY <1>1, <1>2, <2>1, GotNothing DEF CalmInv, Received
  <2>2. CASE want # NoRequest
    <3>1. /\ want' = want /\ Len(got') \in Len(got) .. Len(Answer(want))
          /\ \A i \in 1 .. Len(got') : got'[i] = Answer(want)[i]
      BY <2>2, GotInOrder
    <3> QED BY <1>2, <2>2, <3>1 DEF Received
  <2> QED BY <2>1, <2>2
<1> QED BY <1>5, <1>6, <1>7 DEF CalmInv

LEMMA LinkCalm ==
  ASSUME Races = {}, CalmInv, OnConnect \/ \E on \in BOOLEAN : WriteCccd(on)
  PROVE  CalmInv'
<1>1. /\ UNCHANGED <<air, client, opcodes, tx, task, queues, memory, system>>
      /\ Listening'
  <2>1. CASE OnConnect
    BY <2>1 DEF OnConnect, CalmInv, Listening, Quiet, opcodes
  <2>2. ASSUME NEW on \in BOOLEAN, WriteCccd(on)
        PROVE  /\ UNCHANGED <<air, client, opcodes, tx, task, queues, memory, system>>
               /\ Listening'
    BY <2>2, NothingUnusual DEF WriteCccd, CalmInv, Listening
  <2> QED BY <2>1, <2>2
<1>2. Refused' /\ Completed' /\ Moving' /\ FileOpen'
  BY <1>1 DEF CalmInv, Refused, Completed, Moving, ActiveRequestIsMoving, FileOpen, opcodes, queues,
              memory
<1>3. Received'
  BY <1>1, ReceivedSame DEF CalmInv, Received, opcodes
<1> QED BY <1>1, <1>2, <1>3 DEF CalmInv

LEMMA WriteCalm ==
  ASSUME Races = {}, ServiceInv, CalmInv, MayWrite, Received',
         UNCHANGED <<active, radio, enabled, system, task, queues, memory>>
  PROVE  CalmInv'
<1>1. /\ air = {} /\ pending = "IDLE" /\ conn /\ subscribed /\ active # "REQ_RECEIVE_COMPLETE"
      /\ task.at # "finish" /\ (task = Loop \/ (task.op = "close" /\ active = "IDLE"))
  BY WritesInTurn, NothingUnusual DEF MayWrite
<1>2. ~IsRequest(active)
  BY <1>1 DEF CalmInv, Moving, ActiveRequestIsMoving, IsRequest, ReadingRequest
<1>3. Listening' /\ Moving'
  BY <1>1, <1>2 DEF CalmInv, Listening, Moving, ActiveRequestIsMoving, radio
<1>4. FileOpen'
  BY <1>1 DEF CalmInv, FileOpen, queues, memory
<1>5. Refused' /\ Completed'
  BY <1>1 DEF CalmInv, Refused, Completed, queues, Loop
<1> QED BY <1>3, <1>4, <1>5 DEF CalmInv

LEMMA WritesCalm ==
  ASSUME Races = {}, ServiceInv, CalmInv,
         ConfirmCompletion \/ (\E r \in Request : OnControlPointWrite(r))
  PROVE  CalmInv'
<1>1. CASE ConfirmCompletion
  <2>1. ~Waiting
    BY <1>1, NothingUnusual DEF ConfirmCompletion, MayWrite
  <2>2. Complete
    BY <2>1, NotWaiting DEF ServiceInv, TypeInv, TypeOK, CalmInv
  <2>3. Received'
    BY <1>1, <2>2, ReceivedSame DEF CalmInv, ConfirmCompletion, radio
  <2> QED BY <1>1, <2>3, WriteCalm DEF ConfirmCompletion
<1>2. ASSUME NEW r \in Request, OnControlPointWrite(r)
      PROVE  CalmInv'
  <2>1. /\ MayWrite /\ want' = r /\ got' = <<>>
        /\ pending' = (IF r.cmd = "REQ_FILES_LIST_NEXT" THEN pending ELSE r.cmd)
        /\ UNCHANGED <<active, radio, enabled, system, task, queues, memory>>
    BY <1>2 DEF OnControlPointWrite
  <2>2. air = {} /\ pending = "IDLE"
    BY <2>1, WritesInTurn, NothingUnusual
  <2>3. r.cmd \in ReadingRequest \cup {"REQ_FILES_LIST_NEXT"}
    BY DEF Request, ReadingRequest
  <2>4. r # NoRequest /\ Len(Answer(r)) \in Nat
    BY AnswerType
  <2>5. Received'
    BY <2>1, <2>2, <2>3, <2>4 DEF Received, ReadingRequest, radio
  <2> QED BY <2>1, <2>5, WriteCalm
<1> QED BY <1>1, <1>2

LEMMA CalmStep ==
  ASSUME Races = {}, ServiceInv, CalmInv, [Next]_vars
  PROVE  CalmInv'
<1>1. CASE UNCHANGED vars
  <2>1. /\ UNCHANGED <<conn, subscribed, air, want, got, pending, active, enabled, tx, task>>
        /\ UNCHANGED <<cmdQ, statusQ, mem, system>>
    BY <1>1 DEF vars
  <2>2. FileOpen' /\ Refused'
    BY <2>1 DEF CalmInv, FileOpen, Refused
  <2> QED BY <2>1, <2>2, MemoryCalm DEF radio, client, opcodes
<1>2. CASE BleStep
  <2>1. CASE TakeStatus
    BY <2>1, TakeStatusCalm
  <2>2. CASE Opened
    BY <2>2, OpenedCalm
  <2>3. CASE TakeData
    BY <2>3, TakeDataCalm
  <2>4. CASE SystemReset
    BY <2>4, NoSystemReset
  <2>5. CASE NoAnswer
    BY <2>5, NoAnswerNever, NothingUnusual
  <2>6. CASE Finish
    BY <2>6, FinishCalm
  <2>7. CASE FinalizeTransaction
    BY <2>7, FinalizeCalm
  <2>8. CASE PushDataPackets
    BY <2>8, PushDataCalm
  <2>9. CASE Refuse
    BY <2>9, NeverRefused
  <2>10. CASE ProcessClientRequest
    BY <2>10, RequestCalm
  <2>11. CASE ReceiveCompleted
    BY <2>11, ReceiveCompletedCalm
  <2>12. CASE BleStop
    BY <2>12 DEF BleStop, CalmInv, Listening
  <2> QED BY <1>2, <2>1, <2>2, <2>3, <2>4, <2>5, <2>6, <2>7, <2>8, <2>9, <2>10, <2>11, <2>12
          DEF BleStep
<1>3. CASE MemoryStep
  BY <1>3, MemoryServesCalm, MemorySendsCalm DEF MemoryStep
<1>4. CASE NotificationSent
  BY <1>4, NotificationSentCalm
<1>5. CASE OnConnect \/ \E on \in BOOLEAN : WriteCccd(on)
  BY <1>5, LinkCalm
<1>6. CASE ConfirmCompletion \/ (\E r \in Request : OnControlPointWrite(r))
  BY <1>6, WritesCalm
<1>7. CASE OnDisconnect \/ BatteryLevel \/ StateStopsBle
  BY <1>7, NothingUnusual DEF OnDisconnect, BatteryLevel, StateStopsBle
<1>8. CASE PowerOff
  BY <1>8, RestartCalm DEF PowerOff
<1>9. CASE BleStart \/ \E owner \in {"AUDIO", "BLE"} : SelectOwner(owner)
  BY <1>9 DEF BleStart, SelectOwner, CalmInv, Listening
<1> QED BY <1>1, <1>2, <1>3, <1>4, <1>5, <1>6, <1>7, <1>8, <1>9 DEF Next

(* While nothing unusual happens both invariants hold.                     *)
LEMMA CalmAlways ==
  ASSUME Races = {}
  PROVE  Spec => [](ServiceInv /\ CalmInv)
<1>1. Init => ServiceInv /\ CalmInv
  BY InitType, InitMild, InitCalm DEF ServiceInv
<1>2. ServiceInv /\ CalmInv /\ [Next]_vars => (ServiceInv /\ CalmInv)'
  BY TypeStep, MildStep, CalmStep, NothingUnusual DEF ServiceInv
<1> QED BY <1>1, <1>2, PTL DEF Spec

(* A request that is active has a notification under way whenever the BLE  *)
(* task has nothing to do (process_hvn_tx_callback wakes it).              *)
THEOREM RequestsKeepMoving ==
  ASSUME Races = {}
  PROVE  Spec => []ActiveRequestIsMoving
<1>1. CalmInv => ActiveRequestIsMoving
  BY DEF CalmInv, Moving
<1> QED BY <1>1, CalmAlways, PTL

(* The memory has a file open exactly as long as it is transferred         *)
(* (send_file_data, process).                                              *)
THEOREM FilesAreClosed ==
  ASSUME Races = {}
  PROVE  Spec => []OpenOnlyWhileTransferred
<1>1. CalmInv => OpenOnlyWhileTransferred
  BY DEF CalmInv, FileOpen, OpenOnlyWhileTransferred
<1> QED BY <1>1, CalmAlways, PTL

(*------------------------------ the promise ------------------------------*)
(* Steps of the client's side: the rest leaves it alone.                   *)
LEMMA OtherSteps ==
  ASSUME Races = {}, ServiceInv, CalmInv, [Next]_vars,
         ~NotificationSent, ~ReceiveCompleted, ~PowerOff,
         ~(\E r \in Request : OnControlPointWrite(r))
  PROVE  UNCHANGED client
<1>1. CASE UNCHANGED vars
  BY <1>1 DEF vars, client
<1>2. CASE BleStep
  <2>1. ~SystemReset /\ ~NoAnswer /\ ~BleStop
    BY NoSystemReset, NoAnswerNever, NothingUnusual DEF BleStop, CalmInv, Listening
  <2> QED BY <1>2, <2>1 DEF BleStep, TakeStatus, Opened, TakeData, Finish, FinalizeTransaction,
                            PushDataPackets, Refuse, ProcessClientRequest
<1>3. CASE MemoryStep
  BY <1>3 DEF MemoryStep, MemoryServes, MemorySendsData
<1>4. CASE OnConnect \/ (\E on \in BOOLEAN : WriteCccd(on)) \/ ConfirmCompletion
  BY <1>4 DEF OnConnect, WriteCccd, ConfirmCompletion
<1>5. CASE OnDisconnect \/ BatteryLevel \/ StateStopsBle
  BY <1>5, NothingUnusual DEF OnDisconnect, BatteryLevel, StateStopsBle
<1>6. CASE BleStart \/ \E owner \in {"AUDIO", "BLE"} : SelectOwner(owner)
  BY <1>6 DEF BleStart, SelectOwner
<1> QED BY <1>1, <1>2, <1>3, <1>4, <1>5, <1>6 DEF Next

(* A notification delivers the next part of the answer.                    *)
LEMMA Delivers ==
  ASSUME Races = {}, ServiceInv, CalmInv, NotificationSent
  PROVE  (want # NoRequest /\ \E n \in 1 .. Len(Answer(want)) : Promised!Deliver(n))
         \/ UNCHANGED client
<1>1. CASE want = NoRequest
  BY <1>1, GotNothing DEF NotificationSent, client
<1>2. CASE want # NoRequest
  <2> DEFINE a == Answer(want)  n == Len(got') - Len(got)
  <2>1. /\ want' = want /\ Len(got') \in Len(got) .. Len(a)
        /\ \A i \in 1 .. Len(got') : got'[i] = a[i]
    BY <1>2, GotInOrder
  <2>2. want \in Request /\ got \in Seq(Unit) /\ got' \in Seq(Unit)
    <3>1. ClientOK /\ ClientOK'
      BY TypeStep DEF ServiceInv, TypeInv, TypeOK, Next, BleStep
    <3> QED BY <1>2, <3>1 DEF ClientOK
  <2>3. a \in Seq(Unit) /\ Len(a) \in Nat
    BY <2>2, AnswerType
  <2>4. \A i \in 1 .. Len(got) : got[i] = a[i]
    BY <1>2 DEF CalmInv, Received
  <2> HIDE DEF a
  <2>5. CASE Len(got') = Len(got)
    <3>1. got' = got
      <4>1. \/ got' = got
            \/ \E p \in air : got' = got \o p.units
        BY DEF NotificationSent, Receive
      <4>2. \A i \in 1 .. Len(got) : got'[i] = got[i]
        BY <2>1, <2>4, <2>5
      <4> QED BY <2>2, <2>5, <4>2
    <3> QED BY <2>1, <3>1 DEF client
  <2>6. CASE Len(got') # Len(got)
    <3>1. Len(got) \in Nat /\ Len(got') \in Nat /\ n \in 1 .. Len(a) /\ Len(got) + n = Len(got')
          /\ Len(got) < Len(a)
      BY <2>1, <2>2, <2>3, <2>6
    <3>2. got' = SubSeq(a, 1, Len(got'))
      <4> DEFINE s == SubSeq(a, 0 + 1, Len(got'))
      <4>1. s \in Seq(Unit) /\ Len(s) = Len(got') - 0
            /\ \A i \in 1 .. Len(got') - 0 : s[i] = a[0 + i]
        BY <2>1, <2>3, <3>1, Part
      <4>2. \A i \in 1 .. Len(got') : s[i] = got'[i]
        BY <2>1, <3>1, <4>1
      <4>3. Len(s) = Len(got')
        BY <3>1, <4>1
      <4> HIDE DEF s
      <4>4. got' = s
        BY <2>2, <4>1, <4>2, <4>3
      <4> QED BY <4>4 DEF s
    <3>3. got # a
      BY <3>1
    <3>4. Promised!Deliver(n)
      BY <1>2, <2>1, <3>1, <3>2, <3>3 DEF Promised!Deliver, Promised!Answered, a
    <3> HIDE DEF n
    <3> QED BY <1>2, <3>1, <3>4 DEF a
  <2> QED BY <2>5, <2>6
<1> QED BY <1>1, <1>2

LEMMA PromisedStep ==
  ASSUME Races = {}, ServiceInv, CalmInv, [Next]_vars
  PROVE  [Promised!Next]_(Promised!transferVars)
<1>1. UNCHANGED client => UNCHANGED Promised!transferVars
  BY DEF client, Promised!transferVars
<1>2. CASE NotificationSent
  <2>1. (want # NoRequest /\ \E n \in 1 .. Len(Answer(want)) : Promised!Deliver(n))
        \/ UNCHANGED client
    BY <1>2, Delivers
  <2> QED BY <1>1, <2>1 DEF Promised!Next
<1>3. CASE ReceiveCompleted
  <2>1. Complete /\ want' = NoRequest /\ got' = <<>>
    BY <1>3 DEF ReceiveCompleted, LinkDown, CalmInv, Received
  <2> QED BY <2>1 DEF Promised!Next, Promised!Leave, Promised!Answered, Complete
<1>4. CASE PowerOff
  <2>1. want = NoRequest /\ got = <<>> /\ want' = NoRequest /\ got' = <<>>
    BY <1>4 DEF PowerOff, Restart, ServiceInv, MildInv, Link
  <2> QED BY <1>1, <2>1 DEF client
<1>5. CASE \E r \in Request : OnControlPointWrite(r)
  <2>1. PICK r \in Request : OnControlPointWrite(r)
    BY <1>5
  <2>2. ~Waiting /\ want' = r /\ got' = <<>>
    BY <2>1, NothingUnusual DEF OnControlPointWrite, MayWrite
  <2>3. Complete
    BY <2>2, NotWaiting DEF ServiceInv, TypeInv, TypeOK, CalmInv
  <2>4. Promised!Ask(r)
    BY <2>2, <2>3 DEF Promised!Ask, Promised!Answered, Complete
  <2> QED BY <2>4 DEF Promised!Next
<1> QED BY <1>1, <1>2, <1>3, <1>4, <1>5, OtherSteps

(* The service keeps its promise (module Transfer): while nothing unusual  *)
(* happens a client gets its answers complete, in order, each unit once.   *)
THEOREM TransfersAreKept ==
  ASSUME Races = {}
  PROVE  Spec => ImplementsTransfer
<1>1. Init => Promised!Init
  BY DEF Init, Promised!Init
<1>2. ServiceInv /\ CalmInv /\ [Next]_vars => [Promised!Next]_(Promised!transferVars)
  BY PromisedStep
<1> QED BY <1>1, <1>2, CalmAlways, PTL DEF Spec, ImplementsTransfer, Promised!Spec
=============================================================================
