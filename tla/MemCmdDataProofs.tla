-------------------------- MODULE MemCmdDataProofs --------------------------
(* What the commands of MemCmd do with data: every variable has its type,   *)
(* no descriptor is lost but by a command that gave up, and a transfer that *)
(* nothing disturbed moved exactly the bytes of its packet.                 *)
EXTENDS MemCmdProofs, FiniteSetTheorems, SequenceTheorems

-----------------------------------------------------------------------------
(* A function on 1 .. n is a sequence of that length.                       *)
LEMMA FunctionIsSeq ==
    ASSUME NEW S, NEW n \in Nat, NEW f \in [1 .. n -> S]
    PROVE  f \in Seq(S) /\ Len(f) = n
OBVIOUS

(* Whole quadwords are a number of bytes.                                   *)
LEMMA QuadBytesNat == ASSUME NEW n \in Nat PROVE QuadBytes(n) \in Nat
<1>1. Quad \in Nat \ {0} /\ n \div Quad \in Nat
  BY MemAssumption
<1>2. \A a, b \in Nat : a * b \in Nat
  OBVIOUS
<1> QED BY <1>1, <1>2 DEF QuadBytes

(* What a write leaves in a file, when it starts inside it.                 *)
LEMMA WrittenFile ==
    ASSUME NEW c \in Seq(Int), NEW pos \in Nat, pos <= Len(c), NEW n \in Nat,
           NEW s, \A k \in 0 .. n - 1 : s[k] \in Int
    PROVE  /\ Written(c, pos, s, n) \in Seq(Int)
           /\ Len(Written(c, pos, s, n)) =
                IF pos + n > Len(c) THEN pos + n ELSE Len(c)
           /\ \A k \in 1 .. Len(Written(c, pos, s, n)) :
                Written(c, pos, s, n)[k] =
                  IF k > pos /\ k <= pos + n THEN s[k - pos - 1] ELSE c[k]
<1> DEFINE N == IF pos + n > Len(c) THEN pos + n ELSE Len(c)
           W == Written(c, pos, s, n)
<1>1. N \in Nat /\ Len(c) \in Nat
  OBVIOUS
<1>2. W = [k \in 1 .. N |->
             IF k > pos /\ k <= pos + n THEN s[k - pos - 1] ELSE c[k]]
  BY DEF Written
<1>3. ASSUME NEW k \in 1 .. N
      PROVE  (IF k > pos /\ k <= pos + n THEN s[k - pos - 1] ELSE c[k]) \in Int
  <2>1. CASE k > pos /\ k <= pos + n
    <3>1. k - pos - 1 \in 0 .. n - 1
      BY <2>1
    <3> QED BY <2>1, <3>1
  <2>2. CASE ~(k > pos /\ k <= pos + n)
    <3>1. k \in 1 .. Len(c)
      BY <2>2, <1>1
    <3> QED BY <2>2, <3>1, ElementOfSeq
  <2> QED BY <2>1, <2>2
<1>4. W \in [1 .. N -> Int]
  <2> HIDE DEF N, W
  <2> QED BY <1>2, <1>3
<1>5. W \in Seq(Int) /\ Len(W) = N
  <2> HIDE DEF N, W
  <2> QED BY <1>1, <1>4, FunctionIsSeq
<1>6. \A k \in 1 .. N : W[k] =
        IF k > pos /\ k <= pos + n THEN s[k - pos - 1] ELSE c[k]
  <2> HIDE DEF N, W
  <2> QED BY <1>2
<1> HIDE DEF W
<1>7. /\ W \in Seq(Int)
      /\ Len(W) = IF pos + n > Len(c) THEN pos + n ELSE Len(c)
      /\ \A k \in 1 .. Len(W) : W[k] =
           IF k > pos /\ k <= pos + n THEN s[k - pos - 1] ELSE c[k]
  BY <1>5, <1>6
<1> QED BY <1>7 DEF W

-----------------------------------------------------------------------------
(* Types.  What a command moves is inside memory, its buffer and the file,  *)
(* even when its parameters are those of two packets.                       *)
MachineOK ==
    /\ fd \in Fds \cup {-1, 0} /\ ret \in Int /\ path \in Ids
    /\ dataBuffer \in [0 .. Chunk - 1 -> Int]
    /\ memory \in Memories /\ gif \in Seq(Int)
    /\ \E s \in Ranges : total <= s

HistoryOK ==
    /\ before \in [memory : Memories, files : [Files -> Seq(Int)]]
    /\ failures \in Nat

PCSideOK ==
    /\ link \in 0 .. MaxLinks /\ nlinks \in 0 .. MaxLinks
    /\ table \in [Fds -> [file : 0 .. User, pos : Nat]]
    /\ files \in [Files -> Seq(Int)]

(* No descriptor stands past the end of its file.                           *)
PosInside ==
    \A n \in Fds : table[n].file # 0
        => table[n].pos <= Len(files[table[n].file])

(* The range a loop goes through is a range of memory, and pkoDumpReg sends *)
(* a register set or nothing.                                               *)
RangeInside ==
    /\ mailbox.op = "regs" => mailbox.size \in {0, RegSet}
    /\ cpc \in {"path", "open"} \cup InLoop =>
         /\ Moves => offset - Done + size <= MemSize
         /\ ~Moves => size \in {0, RegSet}
    /\ cpc = "io" /\ ~Moves => len = size

Typed == Placed /\ woken \in BOOLEAN /\ npkt \in Ids /\ MachineOK
           /\ HistoryOK /\ PCSideOK /\ PosInside /\ RangeInside

(* At first everything has its type.                                        *)
LEMMA TypedInit == Init => Typed
<1> SUFFICES ASSUME Init PROVE Typed
  OBVIOUS
<1>0. Placed
  BY PlacedInit
<1> USE DEF Init
<1>1. npkt \in Ids
  BY MemAssumption DEF Ids
<1>8. woken \in BOOLEAN
  BY Zenon
<1>2. memory \in Memories
  BY MemAssumption DEF Memories, MemByte
<1>3. files \in [Files -> Seq(Int)]
  <2>1. ASSUME NEW f \in Files
        PROVE  [k \in 1 .. FileLen |-> FileByte(f, k)] \in Seq(Int)
    <3>1. [k \in 1 .. FileLen |-> FileByte(f, k)] \in [1 .. FileLen -> Int]
      BY MemAssumption DEF Files, User, FileByte
    <3> QED BY <3>1, MemAssumption, FunctionIsSeq
  <2> QED BY <2>1
<1>4. MachineOK
  BY <1>2, MemAssumption DEF MachineOK, Ids, Ranges
<1>5. HistoryOK
  BY <1>2, <1>3 DEF HistoryOK
<1>6. PCSideOK /\ PosInside
  BY <1>3, MemAssumption DEF PCSideOK, PosInside, Closed, User
<1>7. RangeInside
  BY DEF RangeInside, NoPacket, Packet, InLoop
<1> QED BY <1>0, <1>1, <1>4, <1>5, <1>6, <1>7, <1>8 DEF Typed

(* The counters and the histories.                                          *)
LEMMA HistoryNext ==
    ASSUME Typed, [Next]_vars
    PROVE  woken' \in BOOLEAN /\ npkt' \in Ids /\ HistoryOK'
<1> USE DEF Typed
<1>1. woken' \in BOOLEAN
  BY DEF Next, CmdStep, Dispatch, ReadSize, ReadOffset, ReadPath, Open,
     LoopEnd, LoopChunk, WriteSome, ReadSome, GiveUp, Advance, Close,
     GsOpen, GsRead, GsClose, GsSend, Return, Land, Connect, Drop,
     UserOpen, cmdVars, vars
<1>2. npkt' \in Ids
  <2>1. npkt' = npkt \/ (npkt < MaxCmds /\ npkt' = npkt + 1)
    BY DEF Next, CmdStep, Dispatch, ReadSize, ReadOffset, ReadPath, Open,
       LoopEnd, LoopChunk, WriteSome, ReadSome, GiveUp, Advance, Close,
       GsOpen, GsRead, GsClose, GsSend, Return, Land, Connect, Drop,
       UserOpen, cmdVars, vars
  <2> QED BY <2>1, MemAssumption DEF Ids
<1>3. before' = before \/ before' = [memory |-> memory, files |-> files]
  BY DEF Next, CmdStep, Dispatch, ReadSize, ReadOffset, ReadPath, Open,
     LoopEnd, LoopChunk, WriteSome, ReadSome, GiveUp, Advance, Close,
     GsOpen, GsRead, GsClose, GsSend, Return, Land, Connect, Drop,
     UserOpen, parVars, vars
<1>4. failures' \in {failures, failures + 1, 0}
  BY DEF Next, CmdStep, Dispatch, ReadSize, ReadOffset, ReadPath, Open,
     LoopEnd, LoopChunk, WriteSome, ReadSome, GiveUp, Advance, Close,
     GsOpen, GsRead, GsClose, GsSend, Return, Land, Connect, Drop,
     UserOpen, histVars, vars
<1>5. HistoryOK'
  BY <1>3, <1>4 DEF HistoryOK, MachineOK, PCSideOK
<1> QED BY <1>1, <1>2, <1>5

(* The ranges.                                                              *)
LEMMA RangeNext == ASSUME Typed, [Next]_vars PROVE RangeInside'
<1> USE DEF Typed
<1>1. Placed'
  BY PlacedNext
<1>2. CASE Land
  <2>1. PICK r \in Requests :
          mailbox' = Packet(r.op, npkt + 1, r.offset, r.size)
    BY <1>2 DEF Land
  <2>2. r.op = "regs" => r.size \in {0, RegSet}
    BY DEF Requests
  <2>3. UNCHANGED <<cpc, parVars, loopVars>>
    BY <1>2 DEF Land
  <2> QED
    BY <2>1, <2>2, <2>3 DEF RangeInside, Packet, parVars, loopVars, Moves, Done
<1>3. CASE ReadSize
  <2>1. /\ cpc' = IF want.op = "regs" THEN "path" ELSE "offset"
        /\ want' = want /\ mailbox' = mailbox /\ size' \in SizeRead
    BY <1>3 DEF ReadSize, cmdVars
  <2>2. CASE want.op = "regs"
    <3>1. size' \in {0, RegSet}
      BY <2>1, <2>2 DEF SizeRead, RangeInside
    <3> QED BY <2>1, <2>2, <3>1 DEF RangeInside, Moves, InLoop
  <2>3. CASE want.op # "regs"
    BY <2>1, <2>3 DEF RangeInside, InLoop
  <2> QED BY <2>2, <2>3
<1>11. CASE ReadOffset
  <2>1. /\ cpc = "offset" /\ cpc' = "path"
        /\ want' = want /\ mailbox' = mailbox /\ size' = size
        /\ offset' \in Offsets \cup {0}
    BY <1>11 DEF ReadOffset, cmdVars, Placed, NumbersOK
  <2>2. size \in Ranges /\ Moves
    BY <2>1 DEF Placed, NumbersOK, CommandKnown
  <2>3. offset' + size' <= MemSize
    BY <2>1, <2>2, MemAssumption DEF Ranges
  <2>4. offset' \in Nat
    BY <2>1, RangesNat
  <2> QED BY <2>1, <2>2, <2>3, <2>4 DEF RangeInside, Done, InLoop, Moves
<1>4. CASE Open
  <2>1. /\ UNCHANGED <<mailbox, parVars>> /\ cpc = "open"
        /\ cpc' \in {"close", "loop", "io"}
        /\ cpc' = "io" => want.op = "regs"
        /\ total' = 0 /\ (want.op = "regs" => len' = size)
        /\ want.op \in {"dump", "write", "regs"}
    BY <1>4 DEF Open, OpenFile, cmdVars, Placed, CommandKnown
  <2> QED BY <2>1 DEF RangeInside, parVars, Moves, Done, InLoop
<1>5. CASE Advance
  <2>1. /\ UNCHANGED <<mailbox, want, size, len>> /\ cpc = "advance"
        /\ cpc' = "loop" /\ offset' = offset + len /\ total' = total + len
    BY <1>5 DEF Advance, cmdVars
  <2>2. offset \in Nat /\ total \in Nat /\ len \in Nat
    BY DEF Placed, NumbersOK
  <2> QED BY <2>1, <2>2 DEF RangeInside, Moves, Done, InLoop
<1>6. CASE LoopChunk
  <2>1. /\ UNCHANGED <<mailbox, parVars, total>> /\ cpc = "loop" /\ cpc' = "io"
        /\ Moves
    BY <1>6 DEF LoopChunk, cmdVars, Placed, CommandKnown
  <2> QED BY <2>1 DEF RangeInside, parVars, Moves, Done, InLoop
<1>7. CASE WriteSome \/ ReadSome
  <2>1. /\ UNCHANGED <<mailbox, parVars, total, len>> /\ cpc = "io"
        /\ cpc' \in {"advance", "close"}
    BY <1>7 DEF WriteSome, ReadSome, Afterwards, cmdVars
  <2> QED BY <2>1 DEF RangeInside, parVars, Moves, Done, InLoop
<1>8. CASE ReadPath
  <2>1. /\ UNCHANGED <<mailbox, want, offset, size>> /\ cpc = "path"
        /\ cpc' = "open"
    BY <1>8 DEF ReadPath, cmdVars
  <2> QED BY <2>1 DEF RangeInside, Moves, Done, InLoop
<1>9. CASE Dispatch \/ LoopEnd \/ GiveUp \/ Close \/ GsOpen \/ GsRead
             \/ GsClose \/ GsSend \/ Return
  <2>1. mailbox' = mailbox /\ cpc' \notin {"path", "open"} \cup InLoop
    BY <1>9 DEF Dispatch, LoopEnd, GiveUp, Close, GsOpen, GsRead, GsClose,
       GsSend, Return, OpenFile, cmdVars, InLoop
  <2> QED BY <2>1 DEF RangeInside, InLoop
<1>10. CASE Connect \/ Drop \/ UserOpen \/ UNCHANGED vars
  <2>1. UNCHANGED <<mailbox, cpc, parVars, loopVars>>
    BY <1>10 DEF Connect, Drop, UserOpen, vars, cmdVars
  <2> QED BY <2>1 DEF RangeInside, parVars, loopVars, Moves, Done
<1> QED
  BY <1>2, <1>3, <1>4, <1>5, <1>6, <1>7, <1>8, <1>9, <1>10, <1>11
     DEF Next, CmdStep

-----------------------------------------------------------------------------
(* What the machine holds.                                                  *)
LEMMA MachineNext == ASSUME Typed, [Next]_vars PROVE MachineOK'
<1> USE DEF Typed
<1>1. /\ mailbox.id \in Ids /\ mailbox.size \in Nat
      /\ len \in Nat /\ total \in Nat /\ offset \in Nat
      /\ Chunk \in Nat /\ Ids \subseteq Nat
  BY RangesNat, MemAssumption DEF Placed, NumbersOK, Packets, Ids
<1>2. CASE Dispatch
  BY <1>2 DEF Dispatch, MachineOK, loopVars
<1>3. CASE ReadSize \/ ReadOffset \/ ReadPath \/ LoopEnd \/ Close \/ GsClose
             \/ Return \/ GiveUp
  <2>1. /\ path' \in {path, mailbox.id} /\ ret' \in {ret, 0, -1}
        /\ UNCHANGED <<fd, dataBuffer, memory, gif, total>>
    BY <1>3 DEF ReadSize, ReadOffset, ReadPath, LoopEnd, Close, GsClose,
       Return, GiveUp, parVars, loopVars, dataVars
  <2> QED BY <1>1, <2>1 DEF MachineOK
<1>4. CASE Open \/ GsOpen
  <2>1. /\ path' \in {path, mailbox.id} /\ total' \in {total, 0}
        /\ fd' \in Fds \cup {-1} /\ UNCHANGED <<ret, dataBuffer, memory, gif>>
    BY <1>4 DEF Open, GsOpen, OpenFile, FreeFds, parVars, dataVars
  <2>2. \E s \in Ranges : total' <= s
    <3>1. 0 \in Ranges /\ 0 <= 0
      BY DEF Ranges
    <3> QED BY <2>1, <3>1 DEF MachineOK
  <2> QED BY <1>1, <2>1, <2>2 DEF MachineOK
<1>5. CASE LoopChunk
  <2>1. /\ UNCHANGED <<path, total, fd, ret, memory, gif>>
        /\ cpc = "loop" /\ total < size
        /\ dataBuffer' = IF want.op = "write" THEN dataBuffer
                         ELSE [k \in DOMAIN dataBuffer |->
                                 IF k < NextLen THEN memory[offset + k]
                                 ELSE dataBuffer[k]]
    BY <1>5 DEF LoopChunk, parVars
  <2>2. NextLen \in 1 .. Chunk /\ total + NextLen <= size /\ size \in Nat
    BY <2>1, NextLenBounds, MemAssumption, RangesNat
       DEF Placed, NumbersOK, LoopLen
  <2>3. offset - total + size <= MemSize
    BY <2>1 DEF RangeInside, Placed, CommandKnown, InLoop, Done
  <2>4. ASSUME NEW k \in 0 .. Chunk - 1, k < NextLen
        PROVE  memory[offset + k] \in Int
    <3>1. offset + k \in 0 .. MemSize - 1
      BY <1>1, <2>2, <2>3, <2>4, MemAssumption
    <3> QED BY <3>1 DEF MachineOK, Memories
  <2>5. dataBuffer' \in [0 .. Chunk - 1 -> Int]
    <3> HIDE DEF NextLen
    <3> QED BY <2>1, <2>4 DEF MachineOK
  <2> QED BY <2>1, <2>5 DEF MachineOK
<1>6. CASE WriteSome
  <2>1. /\ UNCHANGED <<path, total, fd, dataBuffer, memory, gif>>
        /\ ret' \in 1 .. len
    BY <1>6 DEF WriteSome, parVars, dataVars
  <2> QED BY <1>1, <2>1 DEF MachineOK
<1>7. CASE ReadSome \/ GsRead
  <2>1. /\ UNCHANGED <<path, total, fd, memory, gif>>
        /\ \/ ret' = -1 /\ dataBuffer' = dataBuffer
           \/ \E m \in Nat : IsOpen(fd) /\ \E n \in Readable(fd, m) :
                                ret' = n /\ ReadFd(fd, n)
    <3>1. len \in Nat /\ GsMax \in Nat
      BY <1>1, MemAssumption
    <3> QED BY <1>7, <3>1 DEF ReadSome, GsRead, parVars
  <2>2. ASSUME NEW m \in Nat, IsOpen(fd), NEW n \in Readable(fd, m),
               ReadFd(fd, n)
        PROVE  dataBuffer' \in [0 .. Chunk - 1 -> Int] /\ n \in Int
    <3> DEFINE f == table[fd].file
               p == table[fd].pos
    <3>1. /\ fd \in Fds /\ f \in Files /\ p \in Nat /\ files[f] \in Seq(Int)
          /\ n \in Nat /\ p + n <= Len(files[f])
      BY <2>2, MemAssumption DEF IsOpen, PCSideOK, Files, User, Readable
    <3>2. dataBuffer' = [k \in DOMAIN dataBuffer |->
                           IF k < n THEN files[f][p + k + 1] ELSE dataBuffer[k]]
      BY <2>2 DEF ReadFd
    <3> HIDE DEF f, p
    <3>3. ASSUME NEW k \in 0 .. Chunk - 1, k < n
          PROVE  files[f][p + k + 1] \in Int
      <4>1. p + k + 1 \in 1 .. Len(files[f])
        BY <3>1, <3>3
      <4> QED BY <3>1, <4>1, ElementOfSeq
    <3> QED BY <3>1, <3>2, <3>3 DEF MachineOK
  <2> QED BY <2>1, <2>2 DEF MachineOK
<1>8. CASE Advance
  <2>1. /\ UNCHANGED <<path, fd, ret, dataBuffer, gif>>
        /\ memory' = IF want.op = "write"
                     THEN [a \in DOMAIN memory |->
                             IF a \in offset .. offset + len - 1
                             THEN dataBuffer[a - offset] ELSE memory[a]]
                     ELSE memory
        /\ total' = total + len /\ cpc = "advance"
    BY <1>8 DEF Advance
  <2>2. len \in 1 .. Chunk /\ total + len <= size /\ size \in Ranges
    BY <2>1 DEF Placed, CommandKnown, ChunkInside, Moves, NumbersOK
  <2>3. ASSUME NEW a \in 0 .. MemSize - 1, a \in offset .. offset + len - 1
        PROVE  dataBuffer[a - offset] \in Int
    <3>1. a - offset \in 0 .. Chunk - 1
      BY <1>1, <2>2, <2>3, MemAssumption
    <3> QED BY <3>1 DEF MachineOK
  <2>4. memory' \in Memories
    BY <2>1, <2>3 DEF MachineOK, Memories
  <2> QED BY <2>1, <2>2, <2>4 DEF MachineOK
<1>9. CASE GsSend
  <2>1. PICK z \in SizeRead :
          gif' = [k \in 1 .. QuadBytes(z) |->
                    IF k <= Chunk THEN dataBuffer[k - 1] ELSE Beyond(k - Chunk)]
    BY <1>9 DEF GsSend
  <2>2. UNCHANGED <<path, total, fd, ret, dataBuffer, memory>>
    BY <1>9 DEF GsSend, parVars, loopVars
  <2>3. want.op = "gs"
    BY <1>9 DEF GsSend, Placed, CommandKnown, GsSteps
  <2>4. z \in Nat
    BY <1>1, <2>1, <2>3, MemAssumption DEF SizeRead
  <2> DEFINE n == QuadBytes(z)
  <2>5. n \in Nat
    BY <2>4, QuadBytesNat
  <2> HIDE DEF n
  <2>6. ASSUME NEW k \in 1 .. n
        PROVE  (IF k <= Chunk THEN dataBuffer[k - 1]
                ELSE Beyond(k - Chunk)) \in Int
    <3>1. k <= Chunk => k - 1 \in 0 .. Chunk - 1
      BY <1>1, <2>5
    <3>2. Beyond(k - Chunk) \in Int
      BY <1>1, <2>5 DEF Beyond
    <3> QED BY <3>1, <3>2 DEF MachineOK
  <2>7. gif' = [k \in 1 .. n |-> IF k <= Chunk THEN dataBuffer[k - 1]
                                ELSE Beyond(k - Chunk)]
    BY <2>1 DEF n
  <2>8. gif' \in [1 .. n -> Int]
    BY <2>6, <2>7
  <2> QED BY <2>2, <2>5, <2>8, FunctionIsSeq DEF MachineOK
<1>10. CASE Land \/ Connect \/ Drop \/ UserOpen \/ UNCHANGED vars
  <2>1. UNCHANGED <<path, total, fd, ret, dataBuffer, memory, gif>>
    BY <1>10 DEF Land, Connect, Drop, UserOpen, vars, parVars, loopVars,
       dataVars
  <2> QED BY <2>1 DEF MachineOK
<1> QED
  BY <1>2, <1>3, <1>4, <1>5, <1>6, <1>7, <1>8, <1>9, <1>10 DEF Next, CmdStep

-----------------------------------------------------------------------------
(* The PC's side.                                                           *)
LEMMA SeekTable ==
    ASSUME Typed, NEW g \in Fds, NEW n \in Nat
    PROVE  /\ Advanced(g, n) \in [Fds -> [file : 0 .. User, pos : Nat]]
           /\ \A m \in Fds : /\ Advanced(g, n)[m].file = table[m].file
                             /\ Advanced(g, n)[m].pos =
                                  table[m].pos + (IF m = g THEN n ELSE 0)
BY DEF Advanced, Typed, PCSideOK

(* A descriptor that is closed, or open at the start of a file.             *)
LEMMA FdEntry ==
    ASSUME Typed, NEW g \in Fds, NEW f \in 0 .. User,
           table' = [table EXCEPT ![g] = [file |-> f, pos |-> 0]],
           files' = files
    PROVE  /\ table' \in [Fds -> [file : 0 .. User, pos : Nat]]
           /\ PosInside'
<1> USE DEF Typed, PCSideOK
<1>1. table' \in [Fds -> [file : 0 .. User, pos : Nat]]
  OBVIOUS
<1>2. ASSUME NEW m \in Fds, table'[m].file # 0
      PROVE  table'[m].pos <= Len(files[table'[m].file])
  <2>1. CASE m = g
    <3>1. f \in Files /\ table'[m] = [file |-> f, pos |-> 0]
      BY <1>2, <2>1, MemAssumption DEF Files, User
    <3>2. Len(files[f]) \in Nat
      BY <3>1, LenProperties
    <3> QED BY <3>1, <3>2
  <2>2. CASE m # g
    <3>1. table'[m] = table[m]
      BY <2>2
    <3> QED BY <1>2, <3>1 DEF PosInside
  <2> QED BY <2>1, <2>2
<1> QED BY <1>1, <1>2 DEF PosInside

(* The bytes a write takes are bytes.                                       *)
LEMMA SourceBytes ==
    ASSUME Typed, cpc = "io", NEW n \in 1 .. len, NEW k \in 0 .. n - 1
    PROVE  Source[k] \in Int
<1> USE DEF Typed, Placed
<1>1. len \in Nat /\ size \in Nat /\ Chunk \in Nat /\ RegSet \in Nat
        /\ want.op \in {"dump", "write", "regs"}
  BY RangesNat, MemAssumption DEF NumbersOK, CommandKnown, InLoop
<1>2. CASE want.op = "regs"
  <2>1. len = size /\ size \in {0, RegSet}
    BY <1>2 DEF RangeInside, Moves, InLoop
  <2>2. k \in 0 .. RegSet - 1
    BY <1>1, <2>1
  <2> QED BY <1>2, <2>2 DEF Source, Registers, RegByte
<1>3. CASE want.op # "regs"
  <2>1. len \in 1 .. Chunk
    BY <1>1, <1>3 DEF ChunkInside
  <2>2. k \in 0 .. Chunk - 1
    BY <1>1, <2>1
  <2> QED BY <1>3, <2>2 DEF Source, MachineOK
<1> QED BY <1>2, <1>3

(* Every step keeps the types of the PC's side, and a descriptor inside     *)
(* its file.                                                                *)
LEMMA PCSideNext == ASSUME Typed, [Next]_vars PROVE PCSideOK' /\ PosInside'
<1> USE DEF Typed
<1>1. link' \in 0 .. MaxLinks /\ nlinks' \in 0 .. MaxLinks
  <2>1. \/ link' \in {link, 0} /\ nlinks' = nlinks
        \/ nlinks < MaxLinks /\ nlinks' = nlinks + 1 /\ link' = nlinks + 1
    BY DEF Next, CmdStep, Dispatch, ReadSize, ReadOffset, ReadPath, Open,
       LoopEnd, LoopChunk, WriteSome, ReadSome, GiveUp, Advance, Close,
       GsOpen, GsRead, GsClose, GsSend, Return, Land, Connect, Drop,
       UserOpen, pcVars, vars
  <2> QED BY <2>1, MemAssumption DEF PCSideOK
<1>2. /\ table \in [Fds -> [file : 0 .. User, pos : Nat]]
      /\ files \in [Files -> Seq(Int)]
  BY DEF PCSideOK
<1>3. CASE Open \/ GsOpen
  <2>1. /\ files' = files
        /\ table' = table
             \/ \E f \in Ids : \E n \in FreeFds :
                  table' = [table EXCEPT ![n] = AtStart(f)]
    <3>1. path \in Ids /\ mailbox.id \in Ids
      BY DEF MachineOK, Placed, NumbersOK, Packets
    <3> QED BY <1>3, <3>1 DEF Open, GsOpen, OpenFile
  <2>2. ASSUME NEW f \in Ids, NEW n \in FreeFds,
               table' = [table EXCEPT ![n] = AtStart(f)]
        PROVE  table' \in [Fds -> [file : 0 .. User, pos : Nat]] /\ PosInside'
    <3>1. n \in Fds /\ f \in 0 .. User
      BY <2>2, MemAssumption DEF FreeFds, Ids, User
    <3> QED BY <2>1, <2>2, <3>1, FdEntry DEF AtStart
  <2>3. CASE table' = table
    BY <1>1, <1>2, <2>1, <2>3 DEF PosInside, PCSideOK
  <2> QED BY <1>1, <1>2, <2>1, <2>2, <2>3 DEF PCSideOK
<1>4. CASE UserOpen
  <2>1. PICK n \in FreeFds : table' = [table EXCEPT ![n] = AtStart(User)]
    BY <1>4 DEF UserOpen
  <2>2. n \in Fds /\ User \in 0 .. User /\ files' = files
    BY <1>4, MemAssumption DEF FreeFds, User, UserOpen
  <2> QED BY <1>1, <1>2, <2>1, <2>2, FdEntry DEF AtStart, PCSideOK
<1>5. CASE Close \/ GsClose
  <2>1. files' = files /\ CloseFd(fd)
    BY <1>5 DEF Close, GsClose
  <2>2. CASE fd \in Fds
    <3>1. 0 \in 0 .. User
      BY MemAssumption DEF User
    <3> QED
      BY <1>1, <1>2, <2>1, <2>2, <3>1, FdEntry DEF CloseFd, Closed, PCSideOK
  <2>3. CASE fd \notin Fds
    BY <1>1, <1>2, <2>1, <2>3 DEF CloseFd, PCSideOK, PosInside
  <2> QED BY <2>2, <2>3
<1>6. CASE Drop
  <2>1. files' = files /\ table' = [n \in Fds |-> [file |-> 0, pos |-> 0]]
          /\ 0 \in 0 .. User
    BY <1>6, MemAssumption DEF Drop, Closed, User
  <2> QED BY <1>1, <1>2, <2>1 DEF PCSideOK, PosInside
<1>7. CASE ReadSome \/ GsRead
  <2>1. /\ files' = files
        /\ \/ table' = table
           \/ \E m \in Nat : IsOpen(fd) /\ \E n \in Readable(fd, m) :
                                table' = Advanced(fd, n)
    <3>1. len \in Nat /\ GsMax \in Nat
      BY MemAssumption DEF Placed, NumbersOK
    <3> QED BY <1>7, <3>1 DEF ReadSome, GsRead, ReadFd
  <2>2. ASSUME NEW m \in Nat, IsOpen(fd), NEW n \in Readable(fd, m),
               table' = Advanced(fd, n)
        PROVE  table' \in [Fds -> [file : 0 .. User, pos : Nat]] /\ PosInside'
    <3>1. /\ fd \in Fds /\ n \in Nat
          /\ table[fd].pos + n <= Len(files[table[fd].file])
      BY <2>2 DEF IsOpen, Readable
    <3>2. \A g \in Fds : /\ table'[g].file = table[g].file
                         /\ table'[g].pos =
                              table[g].pos + (IF g = fd THEN n ELSE 0)
      BY <2>2, <3>1, SeekTable
    <3>3. table' \in [Fds -> [file : 0 .. User, pos : Nat]]
      BY <2>2, <3>1, SeekTable
    <3>4. ASSUME NEW g \in Fds, table'[g].file # 0
          PROVE  table'[g].pos <= Len(files'[table'[g].file])
      <4>1. table[g].file # 0 /\ table[g].pos <= Len(files[table[g].file])
        BY <3>2, <3>4 DEF PosInside
      <4>2. CASE g = fd
        BY <2>1, <3>1, <3>2, <4>1, <4>2
      <4>3. CASE g # fd
        <5>1. table'[g].pos = table[g].pos
          BY <1>2, <3>2, <4>3
        <5> QED BY <2>1, <3>2, <4>1, <5>1
      <4> QED BY <4>2, <4>3
    <3> QED BY <3>3, <3>4 DEF PosInside
  <2>3. CASE table' = table
    BY <1>1, <1>2, <2>1, <2>3 DEF PosInside, PCSideOK
  <2> QED BY <1>1, <1>2, <2>1, <2>2, <2>3 DEF PCSideOK
<1>8. CASE WriteSome
  <2>1. PICK n \in 1 .. len : WriteFd(fd, Source, n)
    BY <1>8 DEF WriteSome
  <2>2. IsOpen(fd) /\ cpc = "io" /\ n \in Nat
    BY <1>8 DEF WriteSome, Placed, NumbersOK
  <2> DEFINE f == table[fd].file
             p == table[fd].pos
             W == Written(files[f], p, Source, n)
  <2>3. /\ fd \in Fds /\ f \in Files /\ p \in Nat /\ files[f] \in Seq(Int)
        /\ p <= Len(files[f])
    BY <1>2, <2>2, MemAssumption DEF IsOpen, Files, User, PosInside
  <2>4. \A k \in 0 .. n - 1 : Source[k] \in Int
    BY <2>2, SourceBytes
  <2>5. files' = [files EXCEPT ![f] = W] /\ table' = Advanced(fd, n)
    BY <2>1 DEF WriteFd
  <2> HIDE DEF f, p
  <2>6. /\ W \in Seq(Int)
        /\ Len(W) = IF p + n > Len(files[f]) THEN p + n ELSE Len(files[f])
    <3>1. \A s : (\A k \in 0 .. n - 1 : s[k] \in Int)
            => /\ Written(files[f], p, s, n) \in Seq(Int)
               /\ Len(Written(files[f], p, s, n)) =
                    IF p + n > Len(files[f]) THEN p + n ELSE Len(files[f])
      <4>1. /\ files[f] \in Seq(Int) /\ p \in Nat /\ n \in Nat
            /\ p <= Len(files[f])
        BY <2>2, <2>3
      <4> QED BY ONLY <4>1, WrittenFile
    <3> QED BY ONLY <2>4, <3>1 DEF W
  <2> HIDE DEF W
  <2>7. files' \in [Files -> Seq(Int)]
    BY <1>2, <2>5, <2>6
  <2>8. ASSUME NEW m \in Fds, table'[m].file # 0
        PROVE  table'[m].pos <= Len(files'[table'[m].file])
    <3>1. /\ table'[m].file = table[m].file
          /\ table'[m].pos = table[m].pos + (IF m = fd THEN n ELSE 0)
      BY <2>2, <2>3, <2>5, SeekTable
    <3>2. /\ table[m].file \in Files /\ table[m].pos \in Nat
          /\ table[m].pos <= Len(files[table[m].file])
          /\ Len(files[table[m].file]) \in Nat
      BY <1>2, <2>8, <3>1, MemAssumption, LenProperties
         DEF PosInside, Files, User
    <3>3. CASE table[m].file = f
      <4>1. files'[table'[m].file] = W
        BY <1>2, <2>3, <2>5, <3>1, <3>3
      <4>2. m = fd => table[m].pos = p
        BY DEF p
      <4>3. /\ p + n <= Len(W) /\ Len(files[f]) <= Len(W)
        BY <2>2, <2>3, <2>6, <3>2, <3>3
      <4>4. table'[m].pos <= Len(W)
        <5>1. CASE m = fd
          BY <3>1, <4>2, <4>3, <5>1
        <5>2. CASE m # fd
          <6>1. table'[m].pos = table[m].pos
            BY ONLY <3>1, <3>2, <5>2
          <6>2. table[m].pos <= Len(files[f])
            BY <3>2, <3>3
          <6>3. Len(W) \in Nat /\ Len(files[f]) \in Nat
            BY <2>6, <3>2, <3>3, LenProperties
          <6> QED BY ONLY <3>2, <4>3, <6>1, <6>2, <6>3
        <5> QED BY <5>1, <5>2
      <4> QED BY <4>1, <4>4
    <3>4. CASE table[m].file # f
      <4>1. files'[table'[m].file] = files[table[m].file] /\ m # fd
        BY <1>2, <2>5, <3>1, <3>2, <3>4 DEF f
      <4> QED BY <3>1, <3>2, <4>1
    <3> QED BY <3>3, <3>4
  <2>9. PosInside'
    BY <2>8 DEF PosInside
  <2>10. table' \in [Fds -> [file : 0 .. User, pos : Nat]]
    BY <2>2, <2>3, <2>5, SeekTable
  <2> QED BY <1>1, <2>7, <2>9, <2>10 DEF PCSideOK
<1>9. CASE Dispatch \/ ReadSize \/ ReadOffset \/ ReadPath \/ LoopEnd
             \/ LoopChunk \/ GiveUp \/ Advance \/ GsSend \/ Return \/ Land
             \/ Connect \/ UNCHANGED vars
  <2>1. table' = table /\ files' = files
    BY <1>9 DEF Dispatch, ReadSize, ReadOffset, ReadPath, LoopEnd, LoopChunk,
       GiveUp, Advance, GsSend, Return, Land, Connect, vars, pcVars
  <2> QED BY <1>1, <1>2, <2>1 DEF PCSideOK, PosInside
<1> QED
  BY <1>3, <1>4, <1>5, <1>6, <1>7, <1>8, <1>9 DEF Next, CmdStep

(* Every step keeps Typed.                                                  *)
LEMMA TypedNext == Typed /\ [Next]_vars => Typed'
BY PlacedNext, HistoryNext, MachineNext, PCSideNext, RangeNext DEF Typed

(* The types, and what they rest on, hold at every moment.                  *)
LEMMA TypedAlways == Spec => []Typed
BY TypedInit, TypedNext, PTL DEF Spec

(* Every variable has its type at every moment: no file is read past its    *)
(* end and no memory outside the machine's, a byte the GIF is sent is one   *)
(* of dataBuffer or one of what follows it, and the total of a transfer     *)
(* never passes the largest range.                                          *)
THEOREM TypeCorrect == Spec => []TypeOK
<1>1. Typed => TypeOK
  <2> SUFFICES ASSUME Typed PROVE TypeOK
    OBVIOUS
  <2>1. /\ mailbox \in Packets /\ want \in Packets /\ cpc \in Labels
        /\ offset \in Nat /\ size \in Nat /\ total \in Nat /\ len \in Nat
        /\ upset \subseteq Upsets
    BY RangesNat DEF Typed, Placed, NumbersOK
  <2> QED
    BY <2>1 DEF Typed, MachineOK, HistoryOK, PCSideOK, TypeOK, Ranges
<1> QED BY <1>1, TypedAlways, PTL

-----------------------------------------------------------------------------
(* Descriptors: those of commands, and those of commands that are over.     *)
Mine == {n \in Fds : table[n].file \in 1 .. MaxCmds}

Holding ==
    cpc \in InLoop \cup {"gsread", "gsclose"} \/ (cpc = "close" /\ fd > 0)

Leaked == IF Holding THEN Mine \ {fd} ELSE Mine

(* Each descriptor left behind is the work of a failure on this connection; *)
(* the one a command holds is not, and a lost connection leaves none.       *)
Accounted ==
    /\ link = 0 => Mine = {}
    /\ Cardinality(Leaked) <= failures

(* The descriptors of commands can be counted.                              *)
LEMMA MineFinite == IsFiniteSet(Mine) /\ IsFiniteSet(Leaked)
<1>1. IsFiniteSet(Fds)
  BY FS_Interval, MemAssumption DEF Fds
<1>2. Mine \in SUBSET Fds /\ Leaked \in SUBSET Fds
  BY DEF Mine, Leaked
<1> QED BY <1>1, <1>2, FS_Subset

(* A step that neither takes, drops nor counts a descriptor.                *)
LEMMA SameMine ==
    ASSUME Accounted, \A n \in Fds : table'[n].file = table[n].file,
           Holding' => Holding /\ fd' = fd, Holding => Holding',
           link' = link, failures' = failures
    PROVE  Accounted'
<1>1. Mine' = Mine
  BY DEF Mine
<1>2. Leaked' = Leaked
  BY <1>1 DEF Leaked
<1> QED BY <1>1, <1>2 DEF Accounted

(* A command that opens a file holds one descriptor more.                   *)
LEMMA OpenAccounted ==
    ASSUME Typed, Accounted, Open \/ GsOpen
    PROVE  Accounted'
<1> USE DEF Typed
<1>1. /\ ~Holding /\ UNCHANGED <<link, failures>>
      /\ \/ /\ table' = table /\ fd' = -1
            /\ cpc' \in {"close", "failed"}
         \/ /\ \E f \in Ids : fd' \in FreeFds
                               /\ table' = [table EXCEPT ![fd'] = AtStart(f)]
            /\ link # 0
            /\ cpc' \in {"io", "loop", "gsread"}
  <2>1. path \in Ids /\ mailbox.id \in Ids
    BY DEF MachineOK, Placed, NumbersOK, Packets
  <2> QED
    BY <2>1 DEF Open, GsOpen, OpenFile, Holding, InLoop, histVars
<1>2. CASE table' = table /\ fd' = -1 /\ cpc' \in {"close", "failed"}
  <2>1. ~Holding'
    BY <1>2 DEF Holding, InLoop
  <2> QED BY <1>1, <1>2, <2>1, SameMine
<1>3. ASSUME NEW f \in Ids, fd' \in FreeFds, link # 0,
             table' = [table EXCEPT ![fd'] = AtStart(f)],
             cpc' \in {"io", "loop", "gsread"}
      PROVE  Accounted'
  <2>1. fd' \in Fds /\ fd' \notin Mine
    BY <1>3 DEF FreeFds, Mine
  <2>2. Mine' \ {fd'} = Mine
    BY <1>3, <2>1 DEF Mine, PCSideOK
  <2>3. Leaked' = Leaked
    BY <1>1, <1>3, <2>2 DEF Leaked, Holding, InLoop
  <2> QED BY <1>1, <1>3, <2>3 DEF Accounted
<1> QED BY <1>1, <1>2, <1>3

(* Closing a descriptor takes it from those held, or from those of others.  *)
LEMMA CloseAccounted ==
    ASSUME Typed, Accounted, Close \/ GsClose
    PROVE  Accounted'
<1> USE DEF Typed
<1>1. /\ UNCHANGED <<link, failures, fd>> /\ CloseFd(fd)
      /\ cpc \in {"close", "gsclose"} /\ cpc' \in {"moved", "failed", "gssend"}
  BY DEF Close, GsClose, loopVars, histVars
<1>2. ~Holding'
  BY <1>1 DEF Holding, InLoop
<1>3. Mine' = Mine \ {fd}
  BY <1>1, MemAssumption DEF CloseFd, Closed, Mine, PCSideOK
<1>4. Leaked' = Leaked
  <2>1. CASE Holding
    BY <1>2, <1>3, <2>1 DEF Leaked
  <2>2. CASE ~Holding
    <3>1. fd \notin Fds
      BY <1>1, <2>2 DEF Holding, MachineOK, Fds
    <3>2. fd \notin Mine
      BY <3>1 DEF Mine
    <3> QED BY <1>2, <1>3, <2>2, <3>2 DEF Leaked
  <2> QED BY <2>1, <2>2
<1> QED BY <1>1, <1>3, <1>4 DEF Accounted

(* A command that gives up leaves one descriptor more.                      *)
LEMMA GiveUpAccounted ==
    ASSUME Typed, Accounted, GiveUp
    PROVE  Accounted'
<1>1. /\ UNCHANGED <<link, table, fd>> /\ failures' = failures + 1
      /\ cpc = "io" /\ cpc' = "failed"
  BY DEF GiveUp, pcVars
<1>2. Mine' = Mine /\ Leaked' = Mine /\ Leaked = Mine \ {fd}
  BY <1>1 DEF Mine, Leaked, Holding, InLoop
<1>3. Cardinality(Mine) <= Cardinality(Mine \ {fd}) + 1
  <2>1. /\ IsFiniteSet(Mine)
        /\ Cardinality(Mine \ {fd}) = IF fd \in Mine THEN Cardinality(Mine) - 1
                                      ELSE Cardinality(Mine)
        /\ Cardinality(Mine) \in Nat
    BY MineFinite, FS_RemoveElement, FS_CardinalityType
  <2> QED BY <2>1
<1>4. /\ Cardinality(Mine \ {fd}) \in Nat /\ Cardinality(Mine) \in Nat
      /\ failures \in Nat
  BY MineFinite, FS_RemoveElement, FS_CardinalityType DEF Typed, HistoryOK
<1> QED BY <1>1, <1>2, <1>3, <1>4 DEF Accounted

(* The connection goes, and comes back with nothing open.                   *)
LEMMA LinkAccounted ==
    ASSUME Typed, Accounted, Connect \/ Drop
    PROVE  Accounted'
<1>1. CASE Drop
  <2>1. Mine' = {}
    BY <1>1 DEF Drop, Closed, Mine
  <2>2. Leaked' = {} /\ failures' = failures
    BY <1>1, <2>1 DEF Leaked, Drop
  <2> QED BY <2>1, <2>2, FS_EmptySet DEF Accounted, Typed, HistoryOK
<1>2. CASE Connect
  <2>1. Mine = {} /\ Mine' = Mine
    BY <1>2 DEF Connect, Accounted, Mine
  <2>2. Leaked' = {} /\ failures' = 0
    BY <1>2, <2>1 DEF Leaked, Connect
  <2> QED BY <2>1, <2>2, FS_EmptySet DEF Accounted
<1> QED BY <1>1, <1>2

(* The user program's descriptor is not a command's.                        *)
LEMMA UserOpenAccounted ==
    ASSUME Typed, Accounted, UserOpen
    PROVE  Accounted'
<1>1. PICK n \in FreeFds : table' = [table EXCEPT ![n] = AtStart(User)]
  BY DEF UserOpen
<1>2. UNCHANGED <<cpc, fd, link, failures>>
  BY DEF UserOpen, loopVars, histVars
<1>3. User \notin 1 .. MaxCmds /\ 0 \notin 1 .. MaxCmds
  BY MemAssumption DEF User
<1>4. Mine' = Mine
  BY <1>1, <1>3 DEF Mine, FreeFds, AtStart, Typed, PCSideOK
<1>5. Leaked' = Leaked
  BY <1>2, <1>4 DEF Leaked, Holding
<1> QED BY <1>2, <1>4, <1>5 DEF Accounted

(* Every step keeps Accounted: a command closes, or has given up.           *)
LEMMA AccountedNext == Typed /\ Accounted /\ [Next]_vars => Accounted'
<1> SUFFICES ASSUME Typed, Accounted, [Next]_vars PROVE Accounted'
  OBVIOUS
<1>1. CASE WriteSome \/ ReadSome \/ GsRead
  <2>1. /\ UNCHANGED <<fd, link, failures>>
        /\ table' = table
             \/ \E n \in Nat : fd \in Fds /\ table' = Advanced(fd, n)
    <3>1. ASSUME NEW m \in Nat, NEW n \in Readable(fd, m) PROVE n \in Nat
      BY <3>1 DEF Readable
    <3>2. len \in Nat /\ GsMax \in Nat /\ (1 .. len) \subseteq Nat
      BY MemAssumption DEF Typed, Placed, NumbersOK
    <3> QED
      BY <1>1, <3>1, <3>2 DEF WriteSome, ReadSome, GsRead, WriteFd, ReadFd,
         IsOpen, histVars
  <2>2. \A n \in Fds : table'[n].file = table[n].file
    BY <2>1, SeekTable
  <2>3. (Holding /\ Holding') \/ (cpc = "io" /\ cpc' = "close")
    BY <1>1 DEF WriteSome, ReadSome, GsRead, Afterwards, Holding, InLoop
  <2>4. CASE cpc = "io" /\ cpc' = "close"
    <3>1. fd \in Fds
      BY <1>1, <2>4 DEF WriteSome, ReadSome, GsRead, IsOpen
    <3>2. Holding /\ Holding'
      BY <2>1, <2>4, <3>1 DEF Holding, InLoop, Fds
    <3> QED BY <2>1, <2>2, <3>2, SameMine
  <2> QED BY <2>1, <2>2, <2>3, <2>4, SameMine
<1>2. CASE LoopEnd
  <2>1. /\ UNCHANGED <<fd, link, failures, table>>
        /\ cpc = "loop" /\ cpc' = "close"
    BY <1>2 DEF LoopEnd, pcVars, loopVars, histVars
  <2>2. CASE fd \in Fds
    <3>1. Holding /\ Holding'
      BY <2>1, <2>2 DEF Holding, InLoop, Fds
    <3> QED BY <2>1, <3>1, SameMine
  <2>3. CASE fd \notin Fds
    <3>1. Mine' = Mine /\ fd \notin Mine
      BY <2>1, <2>3 DEF Mine
    <3>2. Leaked' = Leaked
      BY <2>1, <3>1 DEF Leaked
    <3> QED BY <2>1, <3>1, <3>2 DEF Accounted
  <2> QED BY <2>2, <2>3
<1>3. CASE LoopChunk \/ Advance
  <2>1. /\ UNCHANGED <<fd, link, failures, table>> /\ Holding /\ Holding'
    BY <1>3 DEF LoopChunk, Advance, pcVars, histVars, Holding, InLoop
  <2> QED BY <2>1, SameMine
<1>4. CASE Dispatch \/ ReadSize \/ ReadOffset \/ ReadPath \/ GsSend \/ Return
  <2>1. /\ UNCHANGED <<link, failures, table>> /\ ~Holding /\ ~Holding'
    BY <1>4 DEF Dispatch, ReadSize, ReadOffset, ReadPath, GsSend, Return,
       pcVars, histVars, Holding, InLoop
  <2> QED BY <2>1, SameMine
<1>5. CASE Land \/ UNCHANGED vars
  <2>1. UNCHANGED <<cpc, fd, link, failures, table>>
    BY <1>5 DEF Land, vars, loopVars, pcVars, histVars
  <2>2. Holding' <=> Holding
    BY <2>1 DEF Holding
  <2> QED BY <2>1, <2>2, SameMine
<1> QED
  BY <1>1, <1>2, <1>3, <1>4, <1>5, OpenAccounted, CloseAccounted,
     GiveUpAccounted, LinkAccounted, UserOpenAccounted DEF Next, CmdStep

(* However commands, connections and the user program interleave, there are *)
(* never more descriptors left open between two commands than commands that *)
(* gave up on this connection.                                              *)
THEOREM LeaksAreFailures == Spec => []LeakOnlyOnFailure
<1>1. Init => Accounted
  <2> SUFFICES ASSUME Init PROVE Accounted
    OBVIOUS
  <2>1. Mine = {} /\ Leaked = {} /\ failures = 0
    BY DEF Init, Mine, Leaked, Closed
  <2> QED BY <2>1, FS_EmptySet DEF Accounted
<1>2. Accounted => LeakOnlyOnFailure
  BY DEF Accounted, LeakOnlyOnFailure, Leaked, Holding, Mine, InLoop
<1> QED BY <1>1, <1>2, AccountedNext, TypedAlways, PTL DEF Spec

-----------------------------------------------------------------------------
(* Writing nothing changes no file.                                         *)
LEMMA WrittenNothing ==
    ASSUME NEW c \in Seq(Int), NEW s
    PROVE  Written(c, 0, s, 0) = c
<1>1. Len(c) \in Nat /\ 0 <= Len(c)
  OBVIOUS
<1>2. /\ Written(c, 0, s, 0) \in Seq(Int)
      /\ Len(Written(c, 0, s, 0)) = IF 0 + 0 > Len(c) THEN 0 + 0 ELSE Len(c)
      /\ \A k \in 1 .. Len(Written(c, 0, s, 0)) :
           Written(c, 0, s, 0)[k] =
             IF k > 0 /\ k <= 0 + 0 THEN s[k - 0 - 1] ELSE c[k]
  <2>1. \A k \in 0 .. 0 - 1 : s[k] \in Int
    OBVIOUS
  <2> QED BY <1>1, <2>1, WrittenFile
<1>3. Len(Written(c, 0, s, 0)) = Len(c)
  BY <1>1, <1>2
<1>4. \A k \in 1 .. Len(c) : Written(c, 0, s, 0)[k] = c[k]
  BY <1>2, <1>3
<1> QED BY <1>2, <1>3, <1>4, SeqEqual

(* A chunk written where the one before ended makes one longer write.       *)
LEMMA WrittenTwice ==
    ASSUME NEW c \in Seq(Int), NEW p \in Nat, NEW n \in Nat, NEW s, NEW d, NEW t,
           \A k \in 0 .. p - 1 : s[k] \in Int /\ s[k] = t[k],
           \A k \in 0 .. n - 1 : d[k] \in Int /\ d[k] = t[p + k]
    PROVE  Written(Written(c, 0, s, p), p, d, n) = Written(c, 0, t, p + n)
<1> DEFINE A == Written(c, 0, s, p)
           B == Written(A, p, d, n)
           C == Written(c, 0, t, p + n)
<1>1. Len(c) \in Nat
  OBVIOUS
<1>2. /\ A \in Seq(Int)
      /\ Len(A) = IF 0 + p > Len(c) THEN 0 + p ELSE Len(c)
      /\ \A k \in 1 .. Len(A) : A[k] =
           IF k > 0 /\ k <= 0 + p THEN s[k - 0 - 1] ELSE c[k]
  <2>1. 0 <= Len(c) /\ \A k \in 0 .. p - 1 : s[k] \in Int
    BY <1>1
  <2> QED BY <2>1, WrittenFile
<1>3. p <= Len(A) /\ Len(A) \in Nat
  BY <1>1, <1>2
<1> HIDE DEF A
<1>4. /\ B \in Seq(Int)
      /\ Len(B) = IF p + n > Len(A) THEN p + n ELSE Len(A)
      /\ \A k \in 1 .. Len(B) : B[k] =
           IF k > p /\ k <= p + n THEN d[k - p - 1] ELSE A[k]
  <2>1. \A k \in 0 .. n - 1 : d[k] \in Int
    OBVIOUS
  <2>2. A \in Seq(Int) /\ p \in Nat /\ n \in Nat /\ p <= Len(A)
    BY <1>2, <1>3
  <2> QED BY ONLY <2>1, <2>2, WrittenFile
<1>5. ASSUME NEW k \in 0 .. (p + n) - 1
      PROVE  t[k] \in Int
  <2>1. CASE k < p
    BY <2>1
  <2>2. CASE k >= p
    <3>1. k - p \in 0 .. n - 1 /\ p + (k - p) = k
      BY <2>2
    <3>2. d[k - p] \in Int /\ d[k - p] = t[p + (k - p)]
      BY <3>1
    <3> QED BY <3>1, <3>2
  <2> QED BY <2>1, <2>2
<1>6. /\ C \in Seq(Int)
      /\ Len(C) = IF 0 + (p + n) > Len(c) THEN 0 + (p + n) ELSE Len(c)
      /\ \A k \in 1 .. Len(C) : C[k] =
           IF k > 0 /\ k <= 0 + (p + n) THEN t[k - 0 - 1] ELSE c[k]
  <2>1. 0 <= Len(c) /\ p + n \in Nat
    BY <1>1
  <2> QED BY <1>5, <2>1, WrittenFile
<1> HIDE DEF B, C
<1>7. Len(B) = Len(C)
  <2>1. Len(A) = IF p > Len(c) THEN p ELSE Len(c)
    BY <1>2
  <2>2. Len(B) = IF p + n > Len(A) THEN p + n ELSE Len(A)
    BY <1>4
  <2>3. Len(C) = IF p + n > Len(c) THEN p + n ELSE Len(c)
    BY <1>6
  <2>4. \A a, l \in Nat : a = (IF p > l THEN p ELSE l)
           => (IF p + n > a THEN p + n ELSE a) = (IF p + n > l THEN p + n ELSE l)
    OBVIOUS
  <2>5. (IF p + n > Len(A) THEN p + n ELSE Len(A))
          = (IF p + n > Len(c) THEN p + n ELSE Len(c))
    BY <1>1, <1>3, <2>1, <2>4
  <2> QED BY <2>2, <2>3, <2>5, Zenon
<1>8. ASSUME NEW k \in 1 .. Len(B)
      PROVE  B[k] = C[k]
  <2>1. C[k] = IF k <= p + n THEN t[k - 1] ELSE c[k]
    BY <1>6, <1>7
  <2>2. CASE k > p /\ k <= p + n
    <3>1. k - p - 1 \in 0 .. n - 1 /\ p + (k - p - 1) = k - 1
      BY <2>2
    <3>2. d[k - p - 1] = t[p + (k - p - 1)]
      BY <3>1
    <3> QED BY <1>4, <2>1, <2>2, <3>1, <3>2
  <2>3. CASE k <= p
    <3>1. k \in 1 .. Len(A) /\ k - 1 \in 0 .. p - 1
      BY <1>3, <2>3
    <3>2. A[k] = s[k - 1] /\ s[k - 1] = t[k - 1]
      BY <1>2, <2>3, <3>1
    <3> QED BY <1>4, <2>1, <2>3, <3>2
  <2>4. CASE k > p + n
    <3>1. k \in 1 .. Len(A)
      BY <1>3, <1>4, <2>4
    <3>2. A[k] = c[k]
      BY <1>2, <2>4, <3>1
    <3> QED BY <1>4, <2>1, <2>4, <3>2
  <2> QED BY <2>2, <2>3, <2>4
<1>9. B = C
  BY <1>4, <1>6, <1>7, <1>8, SeqEqual
<1> QED BY <1>9 DEF A, B, C

-----------------------------------------------------------------------------
(* A transfer nothing disturbed, step by step.                              *)

(* What TransferExact promises of a command that is over.                  *)
Contents  == before.files[want.id]
Untouched == memory = before.memory /\ files = before.files

Dumped ==
    /\ memory = before.memory
    /\ files = [before.files EXCEPT ![want.id] = Written(Contents, 0,
                  [k \in 0 .. want.size - 1 |-> memory[want.offset + k]],
                  want.size)]

RegsDumped ==
    /\ memory = before.memory
    /\ files = [before.files EXCEPT ![want.id] =
                  Written(Contents, 0, Registers, want.size)]

MemWritten ==
    /\ files = before.files
    /\ memory = [a \in DOMAIN memory |->
                   IF a \in Span(want.offset, want.size)
                   THEN Contents[a - want.offset + 1] ELSE before.memory[a]]

Delivered ==
    /\ want.op = "dump" => Dumped
    /\ want.op = "regs" => RegsDumped
    /\ want.op = "write" => MemWritten
    /\ want.op = "gs" => Untouched 
         /\ gif = SubSeq(Contents, 1, QuadBytes(want.size))

(* The packet a command was chosen for is one the PC may send.              *)
WantOK ==
    cpc # "idle" =>
        /\ want.id \in 1 .. MaxCmds /\ want.op # "none"
        /\ want.op # "gs" => /\ want.offset \in Offsets \cup {0}
                             /\ want.size \in Ranges
        /\ cpc = "close" => want.op # "gs"

(* Bytes of the file passed so far.                                         *)
Passed == IF cpc \in InLoop /\ Moves
          THEN total + (IF cpc = "advance" THEN len ELSE 0) ELSE 0

(* The command has the parameters of the packet it was chosen for, and      *)
(* changes nothing before it moves something.                               *)
OwnPacket ==
    /\ cpc \in Reading => mailbox = want
    /\ cpc \in {"offset", "path", "open"} \cup InLoop => size = want.size
    /\ cpc \in {"open"} \cup InLoop => path = want.id
    /\ cpc \in {"params", "offset", "path", "open"} \cup GsSteps => Untouched

(* Its descriptor stands in its file where the loop does.                  *)
OwnPlace ==
    /\ cpc \in InLoop \cup {"gsread"} =>
         fd \in Fds /\ table[fd] = [file |-> want.id, pos |-> Passed]
    /\ cpc = "loop" => total <= size

(* So far the front of the range is at the front of the file.              *)
Dumping ==
    cpc \in InLoop /\ want.op = "dump" =>
        /\ memory = before.memory
        /\ files = [before.files EXCEPT ![want.id] = Written(Contents, 0,
                      [k \in 0 .. Passed - 1 |-> memory[want.offset + k]],
                      Passed)]
        /\ cpc = "io" => \A k \in 0 .. len - 1 :
                            dataBuffer[k] = memory[offset + k]

(* So far the front of the file is at the front of the range.              *)
Writing ==
    cpc \in InLoop /\ want.op = "write" =>
        /\ files = before.files
        /\ memory = [a \in 0 .. MemSize - 1 |->
                       IF a \in Span(want.offset, total)
                       THEN Contents[a - want.offset + 1] ELSE before.memory[a]]
        /\ cpc = "advance" => \A k \in 0 .. len - 1 :
                                dataBuffer[k] = Contents[total + k + 1]

SendingRegs == cpc = "io" /\ want.op = "regs" => Untouched

SendingGs ==
    cpc \in {"gsclose", "gssend"} =>
        /\ cpc = "gssend" => ret >= 0
        /\ ret >= 0 =>
             /\ ret <= Chunk /\ ret <= Len(Contents)
             /\ \A k \in 0 .. ret - 1 : dataBuffer[k] = Contents[k + 1]

Finished == cpc = "moved" \/ (cpc = "close" /\ fd > 0) => Delivered

Undisturbed == OwnPacket /\ OwnPlace /\ Dumping /\ Writing /\ SendingRegs
                 /\ SendingGs /\ Finished

(* At first no packet is wanted.                                            *)
LEMMA WantInit == Init => WantOK
BY DEF Init, WantOK

(* Every step keeps WantOK: a packet is remembered as it is chosen.         *)
LEMMA WantNext == ASSUME Typed, WantOK, [Next]_vars PROVE WantOK'
<1> USE DEF Typed
<1>1. CASE Dispatch
  <2>1. /\ want' = mailbox /\ mailbox' = mailbox
        /\ cpc' = IF mailbox.op = "gs" THEN "gsopen" ELSE "params"
        /\ woken
    BY <1>1 DEF Dispatch
  <2>2. /\ mailbox.op # "none" /\ mailbox.id # 0 /\ mailbox.id \in 0 .. MaxCmds
        /\ mailbox.offset \in Offsets \cup {0}
        /\ mailbox.op # "gs" => mailbox.size \in Ranges
    BY <2>1 DEF Placed, CommandKnown, NumbersOK, Packets, Ids
  <2>3. mailbox.id \in 1 .. MaxCmds
    BY <2>2
  <2> QED BY <2>1, <2>2, <2>3 DEF WantOK
<1>2. CASE GsOpen \/ GsRead \/ GsClose \/ GsSend
  <2>1. want' = want /\ cpc \in GsSteps /\ cpc' # "close"
    BY <1>2 DEF GsOpen, GsRead, GsClose, GsSend, OpenFile, parVars, GsSteps
  <2> QED BY <2>1 DEF WantOK, GsSteps
<1>3. CASE ReadSize \/ ReadOffset \/ ReadPath \/ Open \/ LoopEnd \/ LoopChunk
             \/ WriteSome \/ ReadSome \/ GiveUp \/ Advance
  <2>1. /\ want' = want
        /\ cpc \in {"params", "offset", "path", "open"} \cup InLoop
    BY <1>3 DEF ReadSize, ReadOffset, ReadPath, Open, LoopEnd, LoopChunk,
       WriteSome, ReadSome, GiveUp, Advance, parVars, InLoop
  <2>2. want.op # "gs"
    BY <2>1 DEF Placed, CommandKnown
  <2> QED BY <2>1, <2>2 DEF WantOK, InLoop
<1>4. CASE Close \/ Return
  <2>1. want' = want /\ cpc # "idle" /\ cpc' # "close"
    BY <1>4 DEF Close, Return, parVars
  <2> QED BY <2>1 DEF WantOK
<1>5. CASE Land \/ Connect \/ Drop \/ UserOpen \/ UNCHANGED vars
  <2>1. UNCHANGED <<want, cpc>>
    BY <1>5 DEF Land, Connect, Drop, UserOpen, vars, parVars
  <2> QED BY <2>1 DEF WantOK
<1> QED BY <1>1, <1>2, <1>3, <1>4, <1>5 DEF Next, CmdStep

-----------------------------------------------------------------------------
(* A command nothing has disturbed.                                         *)
Calm == Typed /\ WantOK /\ upset = {} /\ Undisturbed

(* What is known of a command that nothing has disturbed.                   *)
LEMMA CalmFacts ==
    ASSUME Calm, cpc # "idle"
    PROVE  /\ want.id \in 1 .. MaxCmds /\ want.id \in Files
           /\ want.offset \in Nat /\ want.size \in Nat
           /\ want.op # "gs" => want.offset + want.size <= MemSize
           /\ Contents \in Seq(Int) /\ Len(Contents) \in Nat
           /\ before.files \in [Files -> Seq(Int)]
           /\ before.memory \in [0 .. MemSize - 1 -> Int]
           /\ memory \in [0 .. MemSize - 1 -> Int]
           /\ files \in [Files -> Seq(Int)]
<1>1. /\ want.id \in 1 .. MaxCmds
      /\ want.op # "gs" => /\ want.offset \in Offsets \cup {0}
                           /\ want.size \in Ranges
  BY DEF Calm, WantOK
<1>2. want.id \in Files
  BY <1>1, MemAssumption DEF Files, User
<1>3. /\ want.offset \in Nat /\ want.size \in Nat
      /\ want.op # "gs" => want.offset + want.size <= MemSize
  BY <1>1, MemAssumption DEF Ranges, Calm, Typed, Placed, NumbersOK, Packets
<1>4. /\ before.files \in [Files -> Seq(Int)]
      /\ before.memory \in [0 .. MemSize - 1 -> Int]
      /\ memory \in [0 .. MemSize - 1 -> Int]
      /\ files \in [Files -> Seq(Int)]
  BY DEF Calm, Typed, HistoryOK, MachineOK, PCSideOK, Memories
<1>5. Contents \in Seq(Int) /\ Len(Contents) \in Nat
  BY <1>2, <1>4, LenProperties DEF Contents
<1> QED BY <1>1, <1>2, <1>3, <1>4, <1>5

(* A step that leaves a command's places and data alone.                    *)
LEMMA Away ==
    ASSUME cpc' \in {"failed", "idle"}
    PROVE  Undisturbed'
BY DEF Undisturbed, OwnPacket, OwnPlace, Dumping, Writing, SendingRegs,
   SendingGs, Finished, InLoop, Reading, GsSteps

(* A packet lands on one that is not read any more.                         *)
LEMMA Landing ==
    ASSUME Calm, Land, upset' = {}
    PROVE  Undisturbed'
<1>1. cpc \notin Reading
  BY DEF Land, Upset
<1>2. UNCHANGED <<cpc, want, path, offset, size, before, total, len, fd, ret,
                  dataBuffer, memory, gif, table, files>>
  BY DEF Land, parVars, loopVars, dataVars, pcVars
<1>3. Contents' = Contents /\ Untouched' = Untouched /\ Passed' = Passed
  BY <1>2 DEF Contents, Untouched, Passed, Moves
<1>4. Delivered' = Delivered
  BY <1>2, <1>3 DEF Delivered, Dumped, RegsDumped, MemWritten
<1>5. OwnPacket' /\ OwnPlace' /\ SendingRegs' /\ SendingGs' /\ Finished'
  BY <1>1, <1>2, <1>3, <1>4 DEF Calm, Undisturbed, OwnPacket, OwnPlace,
     SendingRegs, SendingGs, Finished
<1>6. Dumping'
  BY <1>2, <1>3 DEF Calm, Undisturbed, Dumping
<1>7. Writing'
  BY <1>2, <1>3 DEF Calm, Undisturbed, Writing
<1> QED BY <1>5, <1>6, <1>7 DEF Undisturbed

(* A connection comes, the user program opens a file.                       *)
LEMMA Elsewhere ==
    ASSUME Calm, Connect \/ UserOpen \/ UNCHANGED vars
    PROVE  Undisturbed'
<1>1. UNCHANGED <<mailbox, cpc, want, path, offset, size, before, total, len,
                  fd, ret, dataBuffer, memory, gif, files>>
  BY DEF Connect, UserOpen, vars, cmdVars, parVars, loopVars, dataVars, pcVars
<1>2. ASSUME cpc \in InLoop \cup {"gsread"}
      PROVE  table'[fd] = table[fd]
  <2>1. fd \in Fds /\ table[fd].file = want.id /\ want.id \in 1 .. MaxCmds
    BY <1>2, CalmFacts DEF Calm, Undisturbed, OwnPlace, InLoop
  <2>2. CASE UserOpen
    <3>1. PICK n \in FreeFds : table' = [table EXCEPT ![n] = AtStart(User)]
      BY <2>2 DEF UserOpen
    <3>2. n # fd
      BY <2>1 DEF FreeFds
    <3> QED BY <2>1, <3>1, <3>2 DEF Calm, Typed, PCSideOK
  <2>3. CASE ~UserOpen
    BY <2>3 DEF Connect, vars, pcVars
  <2> QED BY <2>2, <2>3
<1>3. Contents' = Contents /\ Untouched' = Untouched /\ Passed' = Passed
  BY <1>1 DEF Contents, Untouched, Passed, Moves
<1>4. Delivered' = Delivered
  BY <1>1, <1>3 DEF Delivered, Dumped, RegsDumped, MemWritten
<1>5. OwnPacket' /\ OwnPlace' /\ SendingRegs' /\ SendingGs' /\ Finished'
  BY <1>1, <1>2, <1>3, <1>4 DEF Calm, Undisturbed, OwnPacket, OwnPlace,
     SendingRegs, SendingGs, Finished
<1>6. Dumping'
  BY <1>1, <1>3 DEF Calm, Undisturbed, Dumping
<1>7. Writing'
  BY <1>1, <1>3 DEF Calm, Undisturbed, Writing
<1> QED BY <1>5, <1>6, <1>7 DEF Undisturbed

(* A command is chosen; nothing has been moved yet.                         *)
LEMMA Choosing ==
    ASSUME Typed, Dispatch
    PROVE  Undisturbed'
<1>1. /\ cpc' \in {"params", "gsopen"} /\ mailbox' = mailbox /\ want' = mailbox
      /\ before' = [memory |-> memory, files |-> files]
      /\ memory' = memory /\ files' = files
  BY DEF Dispatch, pcVars
<1> QED
  BY <1>1 DEF Undisturbed, OwnPacket, OwnPlace, Dumping, Writing, SendingRegs,
     SendingGs, Finished, InLoop, GsSteps, Untouched

(* Its parameters and its path are those of one packet.                     *)
LEMMA ReadingParams ==
    ASSUME Calm, ReadSize \/ ReadOffset \/ ReadPath
    PROVE  Undisturbed'
<1>1. /\ cpc \in {"params", "offset", "path"}
      /\ cpc' \in {"offset", "path", "open"}
      /\ cpc' = "open" <=> cpc = "path"
      /\ UNCHANGED <<mailbox, want, before, memory, files>>
  BY DEF ReadSize, ReadOffset, ReadPath, cmdVars, dataVars, pcVars
<1>2. /\ mailbox = want /\ Untouched
      /\ want.op \in {"dump", "write", "regs"}
  BY <1>1 DEF Calm, Undisturbed, OwnPacket, Reading, Typed, Placed,
     CommandKnown
<1>3. size' = want.size
  <2>1. CASE ReadSize
    BY <1>2, <2>1 DEF ReadSize, SizeRead
  <2>2. CASE ReadOffset \/ ReadPath
    BY <2>2 DEF ReadOffset, ReadPath, Calm, Undisturbed, OwnPacket
  <2> QED BY <2>1, <2>2
<1>4. cpc' = "open" => path' = want.id
  BY <1>1, <1>2 DEF ReadSize, ReadOffset, ReadPath
<1>5. Untouched'
  BY <1>1, <1>2 DEF Untouched
<1>6. OwnPacket'
  BY <1>1, <1>2, <1>3, <1>4, <1>5 DEF OwnPacket, InLoop, Reading
<1> QED
  BY <1>1, <1>6 DEF Undisturbed, OwnPlace, Dumping, Writing, SendingRegs,
     SendingGs, Finished, InLoop

-----------------------------------------------------------------------------
(* Opening: the descriptor stands at the start of the right file.           *)
LEMMA Opening ==
    ASSUME Calm, Open
    PROVE  Undisturbed'
<1>1. /\ cpc = "open" /\ UNCHANGED <<want, path, offset, size, before, memory,
                                     files>>
      /\ total' = 0 /\ (want.op = "regs" => len' = size)
  BY DEF Open, parVars, dataVars
<1>2. /\ path = want.id /\ size = want.size /\ Untouched
      /\ want.op \in {"dump", "write", "regs"}
  BY <1>1 DEF Calm, Undisturbed, OwnPacket, Typed, Placed, CommandKnown
<1>3. \/ cpc' = "close" /\ fd' = -1
      \/ /\ cpc' = IF want.op = "regs" THEN "io" ELSE "loop"
         /\ fd' \in FreeFds /\ table' = [table EXCEPT ![fd'] = AtStart(path)]
  BY DEF Open, OpenFile
<1>4. CASE cpc' = "close" /\ fd' = -1
  BY <1>4 DEF Undisturbed, OwnPacket, OwnPlace, Dumping, Writing, SendingRegs,
     SendingGs, Finished, InLoop, Reading, GsSteps
<1>5. ASSUME cpc' = IF want.op = "regs" THEN "io" ELSE "loop",
             fd' \in FreeFds, table' = [table EXCEPT ![fd'] = AtStart(path)]
      PROVE  Undisturbed'
  <2>1. fd' \in Fds /\ table'[fd'] = [file |-> want.id, pos |-> 0]
    BY <1>2, <1>5 DEF FreeFds, AtStart, Calm, Typed, PCSideOK
  <2>2. Passed' = 0
    BY <1>1, <1>2, <1>5 DEF Passed, Moves
  <2>3. Untouched'
    BY <1>1, <1>2 DEF Untouched
  <2>4. OwnPacket' /\ OwnPlace'
    <3>1. size \in Nat
      BY RangesNat DEF Calm, Typed, Placed, NumbersOK
    <3> QED
      BY <1>1, <1>2, <1>5, <2>1, <2>2, <3>1 DEF OwnPacket, OwnPlace, InLoop,
         Reading, GsSteps
  <2>5. Dumping'
    <3> SUFFICES ASSUME want.op = "dump" PROVE Dumping'
      BY <1>1 DEF Dumping
    <3>1. cpc' = "loop"
      BY <1>5
    <3> DEFINE src == [k \in 0 .. 0 - 1 |-> memory'[want.offset + k]]
    <3>2. want.id \in Files /\ Contents \in Seq(Int)
          /\ before.files \in [Files -> Seq(Int)]
      BY <1>1, CalmFacts
    <3>3. Written(Contents, 0, src, 0) = Contents
      BY <3>2, WrittenNothing
    <3> HIDE DEF src
    <3>4. files' = [before.files EXCEPT ![want.id] = Written(Contents, 0, src, 0)]
      BY <1>1, <1>2, <3>2, <3>3 DEF Untouched, Contents
    <3> USE DEF src
    <3>5. Contents' = Contents
      BY <1>1 DEF Contents
    <3>6. files' = [before'.files EXCEPT ![want'.id] = Written(Contents', 0,
                      [k \in 0 .. Passed' - 1 |-> memory'[want'.offset + k]],
                      Passed')]
      BY <1>1, <2>2, <3>4, <3>5
    <3> QED BY <1>1, <1>2, <3>1, <3>6 DEF Dumping, Untouched
  <2>6. Writing'
    <3> SUFFICES ASSUME want.op = "write" PROVE Writing'
      BY <1>1 DEF Writing
    <3>1. cpc' = "loop"
      BY <1>5
    <3>2. /\ want.offset \in Nat /\ memory \in [0 .. MemSize - 1 -> Int]
          /\ before.memory \in [0 .. MemSize - 1 -> Int]
      BY <1>1, CalmFacts
    <3>3. \A a \in 0 .. MemSize - 1 : a \notin Span(want.offset, 0)
      BY <3>2, MemAssumption DEF Span
    <3>4. memory = [a \in 0 .. MemSize - 1 |->
                      IF a \in Span(want.offset, 0)
                      THEN Contents[a - want.offset + 1] ELSE before.memory[a]]
      BY <1>2, <3>2, <3>3 DEF Untouched
    <3>5. Contents' = Contents
      BY <1>1 DEF Contents
    <3> QED BY <1>1, <1>2, <3>1, <3>4, <3>5 DEF Writing, Untouched
  <2>7. SendingRegs' /\ SendingGs' /\ Finished'
    BY <1>5, <2>3 DEF SendingRegs, SendingGs, Finished
  <2> QED BY <2>4, <2>5, <2>6, <2>7 DEF Undisturbed
<1> QED BY <1>3, <1>4, <1>5

(* pkoGSExec opens its file.                                                *)
LEMMA GsOpening ==
    ASSUME Calm, GsOpen
    PROVE  Undisturbed'
<1>1. /\ cpc = "gsopen"
      /\ UNCHANGED <<mailbox, want, before, memory, files>>
  BY DEF GsOpen, cmdVars, dataVars
<1>2. mailbox = want /\ Untouched
  BY <1>1 DEF Calm, Undisturbed, OwnPacket, Reading, GsSteps
<1>3. \/ cpc' = "failed"
      \/ /\ cpc' = "gsread" /\ fd' \in FreeFds
         /\ table' = [table EXCEPT ![fd'] = AtStart(mailbox.id)]
  BY DEF GsOpen, OpenFile
<1>4. ASSUME cpc' = "gsread", fd' \in FreeFds,
             table' = [table EXCEPT ![fd'] = AtStart(mailbox.id)]
      PROVE  Undisturbed'
  <2>1. fd' \in Fds /\ table'[fd'] = [file |-> want.id, pos |-> 0]
    BY <1>2, <1>4 DEF FreeFds, AtStart, Calm, Typed, PCSideOK
  <2>2. Passed' = 0
    BY <1>4 DEF Passed, InLoop
  <2>3. Untouched'
    BY <1>1, <1>2 DEF Untouched
  <2>4. OwnPacket' /\ OwnPlace'
    BY <1>1, <1>2, <1>4, <2>1, <2>2, <2>3 DEF OwnPacket, OwnPlace, InLoop
  <2> QED
    BY <1>4, <2>4 DEF Undisturbed, Dumping, Writing, SendingRegs, SendingGs,
       Finished, InLoop
<1> QED BY <1>3, <1>4, Away

-----------------------------------------------------------------------------
(* The loop.                                                                *)
LEMMA Filling ==
    ASSUME Calm, LoopChunk
    PROVE  Undisturbed'
<1>1. /\ cpc = "loop" /\ cpc' = "io" /\ total < size /\ len' = NextLen
      /\ UNCHANGED <<want, path, offset, size, before, total, fd, memory,
                     table, files>>
      /\ dataBuffer' = IF want.op = "write" THEN dataBuffer
                       ELSE [k \in DOMAIN dataBuffer |->
                               IF k < NextLen THEN memory[offset + k]
                               ELSE dataBuffer[k]]
  BY DEF LoopChunk, parVars, pcVars
<1>2. NextLen \in 1 .. Chunk
  BY <1>1, NextLenBounds, MemAssumption, RangesNat
     DEF Calm, Typed, Placed, NumbersOK, LoopLen
<1>3. Moves
  BY <1>1 DEF Calm, Typed, Placed, CommandKnown
<1>4. Contents' = Contents /\ Passed' = Passed
  BY <1>1, <1>3 DEF Contents, Passed, Moves, InLoop
<1>5. OwnPacket' /\ OwnPlace'
  BY <1>1, <1>4 DEF Calm, Undisturbed, OwnPacket, OwnPlace, InLoop, Reading,
     GsSteps
<1>6. Dumping'
  <2> SUFFICES ASSUME want.op = "dump" PROVE Dumping'
    BY <1>1 DEF Dumping
  <2> HIDE DEF NextLen
  <2>1. \A k \in 0 .. len' - 1 : dataBuffer'[k] = memory[offset + k]
    <3>1. DOMAIN dataBuffer = 0 .. Chunk - 1
      BY DEF Calm, Typed, MachineOK
    <3>2. \A k \in 0 .. len' - 1 : k \in 0 .. Chunk - 1 /\ k < NextLen
      BY <1>1, <1>2, MemAssumption
    <3> QED BY <1>1, <3>1, <3>2
  <2>2. /\ memory = before.memory
        /\ files = [before.files EXCEPT ![want.id] = Written(Contents, 0,
                      [k \in 0 .. Passed - 1 |-> memory[want.offset + k]],
                      Passed)]
    BY <1>1 DEF Calm, Undisturbed, Dumping, InLoop
  <2> QED BY <1>1, <1>4, <2>1, <2>2 DEF Dumping
<1>7. Writing'
  <2>1. Writing
    BY DEF Calm, Undisturbed
  <2> QED BY <1>1, <1>4, <2>1 DEF Writing, InLoop
<1>8. SendingRegs' /\ SendingGs' /\ Finished'
  BY <1>1, <1>3 DEF SendingRegs, SendingGs, Finished, Moves
<1> QED BY <1>5, <1>6, <1>7, <1>8 DEF Undisturbed

(* The range is through.                                                    *)
LEMMA Ending ==
    ASSUME Calm, LoopEnd
    PROVE  Undisturbed'
<1>1. /\ cpc = "loop" /\ cpc' = "close" /\ total >= size
      /\ UNCHANGED <<want, before, memory, files, gif>>
  BY DEF LoopEnd, parVars, dataVars, pcVars
<1>2. Moves /\ total = want.size
  <2>1. size = want.size /\ total <= size /\ total \in Nat /\ size \in Nat
    BY <1>1, RangesNat DEF Calm, Undisturbed, OwnPacket, OwnPlace, InLoop,
       Typed, Placed, NumbersOK
  <2> QED BY <1>1, <2>1 DEF Calm, Typed, Placed, CommandKnown
<1>3. Passed = want.size
  <2>1. want.size \in Nat
    BY <1>1, CalmFacts
  <2> QED BY <1>1, <1>2, <2>1 DEF Passed, InLoop
<1>4. want.op = "dump" => Dumped
  BY <1>1, <1>3 DEF Calm, Undisturbed, Dumping, InLoop, Dumped
<1>5. want.op = "write" => MemWritten
  <2>1. DOMAIN memory = 0 .. MemSize - 1
    BY <1>1, CalmFacts
  <2> QED
    BY <1>1, <1>2, <2>1 DEF Calm, Undisturbed, Writing, InLoop, MemWritten
<1>6. Delivered
  BY <1>2, <1>4, <1>5 DEF Delivered, Moves
<1>7. Delivered'
  BY <1>1, <1>6 DEF Delivered, Dumped, RegsDumped, MemWritten, Untouched,
     Contents
<1> QED
  BY <1>1, <1>7 DEF Undisturbed, OwnPacket, OwnPlace, Dumping, Writing,
     SendingRegs, SendingGs, Finished, InLoop, Reading, GsSteps

-----------------------------------------------------------------------------
(* The calls.  The file grows by the chunk, or the buffer gets it.          *)
LEMMA Sending ==
    ASSUME Calm, WriteSome, upset' = {}
    PROVE  Undisturbed'
<1>1. PICK n \in 1 .. len : WriteFd(fd, Source, n) /\ Upset("short", n < len)
  BY DEF WriteSome
<1>2. /\ cpc = "io" /\ want.op \in {"dump", "regs"}
      /\ cpc' = IF want.op = "regs" THEN "close" ELSE "advance"
      /\ UNCHANGED <<want, path, offset, size, before, total, len, fd,
                     dataBuffer, memory, gif>>
  BY DEF WriteSome, Afterwards, parVars, dataVars
<1>3. len \in Nat /\ total \in Nat /\ n = len
  <2>1. len \in Nat /\ total \in Nat
    BY DEF Calm, Typed, Placed, NumbersOK
  <2>2. ~(n < len)
    BY <1>1 DEF Upset
  <2> QED BY <2>1, <2>2
<1>4. /\ fd \in Fds /\ table[fd] = [file |-> want.id, pos |-> Passed]
      /\ size = want.size /\ path = want.id
  BY <1>2 DEF Calm, Undisturbed, OwnPlace, OwnPacket, InLoop
<1>5. /\ want.id \in Files /\ Contents \in Seq(Int)
      /\ before.files \in [Files -> Seq(Int)]
      /\ files \in [Files -> Seq(Int)]
  BY <1>2, CalmFacts
<1>6. /\ files' = [files EXCEPT ![want.id] =
                     Written(files[want.id], Passed, Source, len)]
      /\ table' = Advanced(fd, len)
  BY <1>1, <1>3, <1>4 DEF WriteFd
<1>7. Contents' = Contents
  BY <1>2 DEF Contents
<1>8. CASE want.op = "regs"
  <2>1. Passed = 0 /\ len = want.size /\ Untouched /\ Source = Registers
    BY <1>2, <1>4, <1>8 DEF Passed, Moves, Calm, Undisturbed, SendingRegs,
       Typed, RangeInside, Source
  <2>2. files' = [before.files EXCEPT ![want.id] =
                    Written(Contents, 0, Registers, want.size)]
    BY <1>6, <2>1 DEF Untouched, Contents
  <2>3. memory = before.memory
    BY <2>1 DEF Untouched
  <2>4. Delivered'
    BY <1>2, <1>7, <1>8, <2>2, <2>3 DEF Delivered, RegsDumped
  <2>5. cpc' = "close"
    BY <1>2, <1>8
  <2> QED
    BY <2>4, <2>5 DEF Undisturbed, OwnPacket, OwnPlace, Dumping, Writing,
       SendingRegs, SendingGs, Finished, InLoop, Reading, GsSteps
<1>9. CASE want.op = "dump"
  <2>1. cpc' = "advance" /\ Source = dataBuffer
    BY <1>2, <1>9 DEF Source
  <2>2. Passed = total /\ Passed' = total + len
    BY <1>2, <1>3, <1>9, <2>1 DEF Passed, InLoop, Moves
  <2>3. /\ offset = want.offset + total /\ total + len <= want.size
        /\ len <= Chunk
    BY <1>2, <1>4, <1>9 DEF Calm, Typed, Placed, Follows, ChunkInside, Done,
       InLoop, Moves
  <2>4. /\ memory = before.memory
        /\ files = [before.files EXCEPT ![want.id] = Written(Contents, 0,
                      [k \in 0 .. total - 1 |-> memory[want.offset + k]],
                      total)]
        /\ \A k \in 0 .. len - 1 : dataBuffer[k] = memory[offset + k]
    BY <1>2, <1>9, <2>2 DEF Calm, Undisturbed, Dumping, InLoop
  <2>5. /\ want.offset \in Nat /\ want.offset + want.size <= MemSize
        /\ want.size \in Nat /\ memory \in [0 .. MemSize - 1 -> Int]
    BY <1>2, CalmFacts
  <2>6. /\ total \in Nat /\ len \in Nat /\ want.offset \in Nat
        /\ MemSize \in Nat /\ offset = want.offset + total
        /\ want.offset + total + len <= MemSize
    BY <1>3, <2>3, <2>5, MemAssumption
  <2> DEFINE src == [k \in 0 .. total - 1 |-> memory[want.offset + k]]
             all == [k \in 0 .. (total + len) - 1 |-> memory[want.offset + k]]
  <2>7. \A k \in 0 .. total - 1 : src[k] \in Int /\ src[k] = all[k]
    <3> SUFFICES ASSUME NEW k \in 0 .. total - 1
                 PROVE  src[k] \in Int /\ src[k] = all[k]
      OBVIOUS
    <3>0. k \in 0 .. total - 1
      OBVIOUS
    <3>1. /\ k \in 0 .. (total + len) - 1
          /\ want.offset + k \in 0 .. MemSize - 1
      BY ONLY <2>6, <3>0
    <3> QED BY <2>5, <3>1
  <2>8. \A k \in 0 .. len - 1 :
          dataBuffer[k] \in Int /\ dataBuffer[k] = all[total + k]
    <3> SUFFICES ASSUME NEW k \in 0 .. len - 1
                 PROVE  dataBuffer[k] \in Int /\ dataBuffer[k] = all[total + k]
      OBVIOUS
    <3>0. k \in 0 .. len - 1
      OBVIOUS
    <3>1. /\ total + k \in 0 .. (total + len) - 1
          /\ want.offset + (total + k) \in 0 .. MemSize - 1
          /\ offset + k = want.offset + (total + k)
      BY ONLY <2>6, <3>0
    <3>2. dataBuffer[k] = memory[want.offset + (total + k)]
      BY <2>4, <3>1
    <3>3. all[total + k] = memory[want.offset + (total + k)]
      BY <3>1
    <3> QED BY <2>5, <3>1, <3>2, <3>3
  <2> HIDE DEF src, all
  <2>9. Written(Written(Contents, 0, src, total), total, dataBuffer, len)
          = Written(Contents, 0, all, total + len)
    <3>1. \A s, d, t :
            /\ \A k \in 0 .. total - 1 : s[k] \in Int /\ s[k] = t[k]
            /\ \A k \in 0 .. len - 1 : d[k] \in Int /\ d[k] = t[total + k]
            => Written(Written(Contents, 0, s, total), total, d, len)
                 = Written(Contents, 0, t, total + len)
      <4>1. SUFFICES ASSUME NEW s, NEW d, NEW t,
              \A k \in 0 .. total - 1 : s[k] \in Int /\ s[k] = t[k],
              \A k \in 0 .. len - 1 : d[k] \in Int /\ d[k] = t[total + k]
            PROVE Written(Written(Contents, 0, s, total), total, d, len)
                    = Written(Contents, 0, t, total + len)
        OBVIOUS
      <4>2. Contents \in Seq(Int) /\ total \in Nat /\ len \in Nat
        BY <1>3, <1>5
      <4> HIDE DEF Contents
      <4> QED BY ONLY <4>1, <4>2, WrittenTwice
    <3> QED BY ONLY <2>7, <2>8, <3>1
  <2>10. files[want.id] = Written(Contents, 0, src, total)
    BY <1>5, <2>4 DEF src
  <2>11. files' = [before.files EXCEPT ![want.id] =
                     Written(Contents, 0, all, total + len)]
    <3>1. files' = [files EXCEPT ![want.id] =
                      Written(Contents, 0, all, total + len)]
      BY <1>6, <2>1, <2>2, <2>9, <2>10
    <3>2. files = [before.files EXCEPT ![want.id] =
                     Written(Contents, 0, src, total)]
      BY <2>4 DEF src
    <3> QED BY <1>5, <3>1, <3>2
  <2>12. Dumping'
    <3>1. files' = [before'.files EXCEPT ![want'.id] = Written(Contents', 0,
                      [k \in 0 .. Passed' - 1 |-> memory'[want'.offset + k]],
                      Passed')]
      BY <1>2, <1>7, <2>2, <2>11 DEF all
    <3> QED BY <1>2, <2>1, <2>4, <3>1 DEF Dumping
  <2>13. OwnPlace'
    <3>1. table'[fd] = [file |-> want.id, pos |-> total + len]
      BY <1>3, <1>4, <1>6, <2>2 DEF Advanced, Calm, Typed, PCSideOK
    <3> QED BY <1>2, <1>4, <2>1, <2>2, <3>1 DEF OwnPlace, InLoop
  <2>14. OwnPacket'
    BY <1>2, <1>4, <2>1 DEF OwnPacket, InLoop, Reading, GsSteps
  <2> QED
    BY <1>2, <1>9, <2>1, <2>12, <2>13, <2>14 DEF Undisturbed, Writing,
       SendingRegs, SendingGs, Finished
<1> QED BY <1>2, <1>8, <1>9

(* A call that reads from the file fills the buffer with its next bytes.    *)
LEMMA Receiving ==
    ASSUME Calm, ReadSome, upset' = {}
    PROVE  Undisturbed'
<1>1. PICK n \in Readable(fd, len) : ReadFd(fd, n) /\ Upset("short", n < len)
  BY DEF ReadSome
<1>2. /\ cpc = "io" /\ cpc' = "advance" /\ want.op = "write"
      /\ UNCHANGED <<want, path, offset, size, before, total, len, fd, memory,
                     gif, files>>
  BY DEF ReadSome, parVars
<1>3. len \in Nat /\ total \in Nat /\ n = len
  <2>1. len \in Nat /\ total \in Nat
    BY DEF Calm, Typed, Placed, NumbersOK
  <2>2. ~(n < len) /\ n \in 0 .. len
    BY <1>1 DEF Upset, Readable
  <2> QED BY <2>1, <2>2
<1>4. Passed = total /\ Passed' = total + len /\ Contents' = Contents
  BY <1>2, <1>3 DEF Passed, InLoop, Moves, Contents
<1>5. /\ fd \in Fds /\ table[fd] = [file |-> want.id, pos |-> total]
      /\ size = want.size /\ path = want.id
  BY <1>2, <1>4 DEF Calm, Undisturbed, OwnPlace, OwnPacket, InLoop
<1>6. files[want.id] = Contents
  BY <1>2 DEF Calm, Undisturbed, Writing, InLoop, Contents
<1>7. \A k \in 0 .. len - 1 : dataBuffer'[k] = Contents[total + k + 1]
  <2>1. dataBuffer' = [k \in DOMAIN dataBuffer |->
                         IF k < n THEN Contents[total + k + 1]
                         ELSE dataBuffer[k]]
    BY <1>1, <1>5, <1>6 DEF ReadFd
  <2>2. DOMAIN dataBuffer = 0 .. Chunk - 1 /\ Chunk \in Nat /\ len <= Chunk
    BY <1>2, MemAssumption DEF Calm, Typed, MachineOK, Placed, ChunkInside
  <2>3. \A k \in 0 .. len - 1 : k \in 0 .. Chunk - 1 /\ k < n
    BY <1>3, <2>2
  <2> QED BY <2>1, <2>2, <2>3
<1>8. Writing'
  <2>1. /\ files = before.files
        /\ memory = [a \in 0 .. MemSize - 1 |->
                       IF a \in Span(want.offset, total)
                       THEN Contents[a - want.offset + 1] ELSE before.memory[a]]
    BY <1>2 DEF Calm, Undisturbed, Writing, InLoop
  <2> QED BY <1>2, <1>4, <1>7, <2>1 DEF Writing
<1>9. OwnPlace'
  <2>1. table' = Advanced(fd, len)
    BY <1>1, <1>3 DEF ReadFd
  <2>2. table'[fd] = [file |-> want.id, pos |-> total + len]
    BY <1>3, <1>5, <2>1 DEF Advanced, Calm, Typed, PCSideOK
  <2> QED BY <1>2, <1>4, <1>5, <2>2 DEF OwnPlace, InLoop
<1>10. OwnPacket'
  BY <1>2, <1>5 DEF OwnPacket, InLoop, Reading, GsSteps
<1> QED
  BY <1>2, <1>8, <1>9, <1>10 DEF Undisturbed, Dumping, SendingRegs, SendingGs,
     Finished

(* The round is over: what the buffer held is in memory.                    *)
LEMMA Advancing ==
    ASSUME Calm, Advance
    PROVE  Undisturbed'
<1>1. /\ cpc = "advance" /\ cpc' = "loop"
      /\ offset' = offset + len /\ total' = total + len
      /\ UNCHANGED <<want, path, size, before, fd, len, dataBuffer, table,
                     files>>
      /\ memory' = IF want.op = "write"
                   THEN [a \in DOMAIN memory |->
                           IF a \in offset .. offset + len - 1
                           THEN dataBuffer[a - offset] ELSE memory[a]]
                   ELSE memory
  BY DEF Advance, pcVars
<1>2. /\ Moves /\ len \in Nat /\ total \in Nat /\ total + len <= size
      /\ offset = want.offset + total /\ want.offset \in Nat
  <2>1. Moves
    BY <1>1 DEF Calm, Typed, Placed, CommandKnown
  <2>2. len \in Nat /\ total \in Nat
    BY DEF Calm, Typed, Placed, NumbersOK
  <2>3. total + len <= size
    BY <1>1, <2>1 DEF Calm, Typed, Placed, ChunkInside, Moves
  <2>4. offset = want.offset + total
    BY <1>1, <2>1 DEF Calm, Typed, Placed, Follows, Done, InLoop
  <2>5. want.offset \in Nat
    BY <1>1, CalmFacts
  <2> QED BY <2>1, <2>2, <2>3, <2>4, <2>5
<1>3. Passed' = Passed /\ Passed = total + len /\ Contents' = Contents
  BY <1>1, <1>2 DEF Passed, Moves, InLoop, Contents
<1>4. OwnPacket' /\ OwnPlace'
  BY <1>1, <1>2, <1>3 DEF Calm, Undisturbed, OwnPacket, OwnPlace, InLoop,
     Reading, GsSteps
<1>5. Dumping'
  <2> SUFFICES ASSUME want.op = "dump" PROVE Dumping'
    BY <1>1 DEF Dumping
  <2>1. memory' = memory
    BY <1>1
  <2>2. /\ memory = before.memory
        /\ files = [before.files EXCEPT ![want.id] = Written(Contents, 0,
                      [k \in 0 .. Passed - 1 |-> memory[want.offset + k]],
                      Passed)]
    BY <1>1 DEF Calm, Undisturbed, Dumping, InLoop
  <2> QED BY <1>1, <1>3, <2>1, <2>2 DEF Dumping
<1>6. Writing'
  <2> SUFFICES ASSUME want.op = "write" PROVE Writing'
    BY <1>1 DEF Writing
  <2>1. /\ files = before.files
        /\ memory = [a \in 0 .. MemSize - 1 |->
                       IF a \in Span(want.offset, total)
                       THEN Contents[a - want.offset + 1] ELSE before.memory[a]]
        /\ \A k \in 0 .. len - 1 : dataBuffer[k] = Contents[total + k + 1]
    BY <1>1 DEF Calm, Undisturbed, Writing, InLoop
  <2>2. DOMAIN memory = 0 .. MemSize - 1
    BY <1>1, CalmFacts
  <2>3. memory' = [a \in 0 .. MemSize - 1 |->
                     IF a \in offset .. offset + len - 1
                     THEN dataBuffer[a - offset] ELSE memory[a]]
    BY <1>1, <2>2
  <2>4. ASSUME NEW a \in 0 .. MemSize - 1
        PROVE  memory'[a] = IF a \in Span(want.offset, total + len)
                            THEN Contents[a - want.offset + 1]
                            ELSE before.memory[a]
    <3>1. CASE a \in offset .. offset + len - 1
      <4>1. /\ a - offset \in 0 .. len - 1
            /\ total + (a - offset) + 1 = a - want.offset + 1
            /\ a \in Span(want.offset, total + len)
        BY <1>2, <3>1, MemAssumption DEF Span
      <4>2. memory'[a] = dataBuffer[a - offset]
        BY <2>3, <3>1
      <4>3. dataBuffer[a - offset] = Contents[total + (a - offset) + 1]
        BY <2>1, <4>1
      <4> QED BY <4>1, <4>2, <4>3
    <3>2. CASE a \notin offset .. offset + len - 1
      <4>1. a \in Span(want.offset, total + len) <=> a \in Span(want.offset, total)
        BY <1>2, <3>2, MemAssumption DEF Span
      <4>2. memory'[a] = memory[a]
        BY <2>3, <3>2
      <4>3. memory[a] = IF a \in Span(want.offset, total)
                        THEN Contents[a - want.offset + 1] ELSE before.memory[a]
        BY <2>1
      <4> QED BY <4>1, <4>2, <4>3
    <3> QED BY <3>1, <3>2
  <2>5. memory' = [a \in 0 .. MemSize - 1 |->
                     IF a \in Span(want.offset, total + len)
                     THEN Contents[a - want.offset + 1] ELSE before.memory[a]]
    BY <2>3, <2>4
  <2> QED BY <1>1, <1>3, <2>1, <2>5 DEF Writing
<1> QED
  BY <1>1, <1>4, <1>5, <1>6 DEF Undisturbed, SendingRegs, SendingGs, Finished

(* The file is closed and keeps what was written to it.                     *)
LEMMA Closing ==
    ASSUME Calm, Close
    PROVE  Undisturbed'
<1>1. /\ cpc = "close" /\ cpc' = IF fd > 0 THEN "moved" ELSE "failed"
      /\ UNCHANGED <<want, before, memory, files, gif>>
  BY DEF Close, parVars, dataVars
<1>2. CASE fd > 0
  <2>1. Delivered
    BY <1>1, <1>2 DEF Calm, Undisturbed, Finished
  <2>2. Delivered'
    BY <1>1, <2>1 DEF Delivered, Dumped, RegsDumped, MemWritten, Untouched,
       Contents
  <2> QED
    BY <1>1, <1>2, <2>2 DEF Undisturbed, OwnPacket, OwnPlace, Dumping, Writing,
       SendingRegs, SendingGs, Finished, InLoop, Reading, GsSteps
<1>3. CASE ~(fd > 0)
  BY <1>1, <1>3, Away
<1> QED BY <1>2, <1>3

-----------------------------------------------------------------------------
(* pkoGSExec.                                                               *)
LEMMA GsReceiving ==
    ASSUME Calm, GsRead
    PROVE  Undisturbed'
<1>1. /\ cpc = "gsread" /\ cpc' = "gsclose"
      /\ UNCHANGED <<mailbox, want, before, memory, files>>
      /\ \/ ret' = -1
         \/ \E n \in Readable(fd, GsMax) : ret' = n /\ ReadFd(fd, n)
  BY DEF GsRead, cmdVars, parVars
<1>2. /\ mailbox = want /\ Untouched /\ want.op = "gs"
      /\ fd \in Fds /\ table[fd] = [file |-> want.id, pos |-> 0]
  BY <1>1 DEF Calm, Undisturbed, OwnPacket, OwnPlace, Typed, Placed,
     CommandKnown, Reading, GsSteps, Passed, InLoop
<1>3. files[want.id] = Contents /\ Contents' = Contents /\ Untouched'
  BY <1>1, <1>2 DEF Untouched, Contents
<1>4. ASSUME NEW n \in Readable(fd, GsMax), ret' = n, ReadFd(fd, n)
      PROVE  /\ n <= Chunk /\ n <= Len(Contents)
             /\ \A k \in 0 .. n - 1 : dataBuffer'[k] = Contents[k + 1]
  <2>1. n \in Nat /\ n <= Chunk /\ 0 + n <= Len(Contents) /\ Chunk \in Nat
    BY <1>2, <1>3, <1>4, MemAssumption DEF Readable
  <2>2. dataBuffer' = [k \in DOMAIN dataBuffer |->
                         IF k < n THEN Contents[0 + k + 1] ELSE dataBuffer[k]]
    BY <1>2, <1>3, <1>4 DEF ReadFd
  <2>3. DOMAIN dataBuffer = 0 .. Chunk - 1
    BY DEF Calm, Typed, MachineOK
  <2>4. \A k \in 0 .. n - 1 : k \in 0 .. Chunk - 1 /\ k < n /\ 0 + k + 1 = k + 1
    BY <2>1
  <2>5. Len(Contents) \in Nat
    BY <1>1, CalmFacts
  <2> QED BY <2>1, <2>2, <2>3, <2>4, <2>5
<1>5. SendingGs'
  BY <1>1, <1>3, <1>4 DEF SendingGs
<1>6. OwnPacket'
  BY <1>1, <1>2, <1>3 DEF OwnPacket, InLoop
<1> QED
  BY <1>1, <1>5, <1>6 DEF Undisturbed, OwnPlace, Dumping, Writing, SendingRegs,
     Finished, InLoop

(* pkoGSExec closes its file before it sends.                               *)
LEMMA GsClosing ==
    ASSUME Calm, GsClose
    PROVE  Undisturbed'
<1>1. /\ cpc = "gsclose" /\ cpc' = IF ret < 0 THEN "failed" ELSE "gssend"
      /\ UNCHANGED <<mailbox, want, before, memory, files, ret, dataBuffer>>
  BY DEF GsClose, cmdVars, parVars, loopVars, dataVars
<1>2. CASE ret < 0
  BY <1>1, <1>2, Away
<1>3. CASE ~(ret < 0)
  <2>1. ret \in Int
    BY DEF Calm, Typed, MachineOK
  <2>2. Contents' = Contents /\ Untouched' = Untouched
    BY <1>1 DEF Contents, Untouched
  <2>3. SendingGs'
    BY <1>1, <1>3, <2>1, <2>2 DEF Calm, Undisturbed, SendingGs
  <2>4. OwnPacket'
    BY <1>1, <1>3, <2>2 DEF Calm, Undisturbed, OwnPacket, Reading, GsSteps,
       InLoop
  <2> QED
    BY <1>1, <1>3, <2>3, <2>4 DEF Undisturbed, OwnPlace, Dumping, Writing,
       SendingRegs, Finished, InLoop
<1> QED BY <1>2, <1>3

(* What is sent to the GS is what was read.                                 *)
LEMMA GsSending ==
    ASSUME Calm, GsSend, upset' = {}
    PROVE  Undisturbed'
<1> DEFINE n == QuadBytes(want.size)
<1>1. /\ cpc = "gssend" /\ cpc' = "moved"
      /\ UNCHANGED <<want, before, memory, files>>
  BY DEF GsSend, parVars, pcVars
<1>2. /\ mailbox = want /\ Untouched /\ want.op = "gs"
      /\ want.size \in Nat /\ Contents \in Seq(Int) /\ Len(Contents) \in Nat
  BY <1>1, CalmFacts DEF Calm, Undisturbed, OwnPacket, Reading, GsSteps, Typed,
     Placed, CommandKnown
<1>3. /\ gif' = [k \in 1 .. n |-> IF k <= Chunk THEN dataBuffer[k - 1]
                                 ELSE Beyond(k - Chunk)]
      /\ ~(ret < n)
  <2>1. SizeRead = {want.size}
    BY <1>2 DEF SizeRead
  <2> QED BY <2>1 DEF GsSend, Upset
<1>4. n \in Nat
  BY <1>2, QuadBytesNat
<1> HIDE DEF n
<1>5. ret \in Int /\ Chunk \in Nat
  BY MemAssumption DEF Calm, Typed, MachineOK
<1>6. /\ n <= ret /\ ret <= Chunk /\ ret <= Len(Contents)
      /\ \A k \in 0 .. ret - 1 : dataBuffer[k] = Contents[k + 1]
  BY <1>1, <1>3, <1>4, <1>5 DEF Calm, Undisturbed, SendingGs
<1>7. \A k \in 1 .. n : Contents[k] \in Int
  BY <1>2, <1>4, <1>5, <1>6, ElementOfSeq
<1>8. ASSUME NEW k \in 1 .. n
      PROVE  k <= Chunk /\ dataBuffer[k - 1] = Contents[k]
  <2>1. k <= Chunk /\ k - 1 \in 0 .. ret - 1 /\ (k - 1) + 1 = k
    BY <1>4, <1>5, <1>6
  <2>2. dataBuffer[k - 1] = Contents[(k - 1) + 1]
    BY <1>6, <2>1
  <2> QED BY <2>1, <2>2
<1>9. gif' = [k \in 1 .. n |-> Contents[k]]
  BY <1>3, <1>8
<1>10. gif' \in Seq(Int) /\ Len(gif') = n
  <2>1. gif' \in [1 .. n -> Int]
    BY <1>7, <1>9
  <2> QED BY <1>4, <2>1, FunctionIsSeq
<1>11. /\ SubSeq(Contents, 1, n) \in Seq(Int)
       /\ Len(SubSeq(Contents, 1, n)) = n
       /\ \A k \in 1 .. n : SubSeq(Contents, 1, n)[k] = Contents[k]
  BY <1>2, <1>4, <1>7, SubSeqProperties
<1>12. gif' = SubSeq(Contents, 1, n)
  BY <1>9, <1>10, <1>11, SeqEqual
<1>13. Delivered'
  BY <1>1, <1>2, <1>12 DEF Delivered, Untouched, Contents, n
<1> QED
  BY <1>1, <1>13 DEF Undisturbed, OwnPacket, OwnPlace, Dumping, Writing,
     SendingRegs, SendingGs, Finished, InLoop, Reading, GsSteps

-----------------------------------------------------------------------------
Exact == Typed /\ WantOK /\ (upset = {} => Undisturbed)

(* At first nothing has been moved.                                         *)
LEMMA ExactInit == Init => Exact
BY TypedInit, WantInit DEF Init, Exact, Undisturbed, OwnPacket, OwnPlace,
   Dumping, Writing, SendingRegs, SendingGs, Finished, InLoop, Reading, GsSteps

(* Every step keeps Exact: what was moved is what the packet said, unless   *)
(* something disturbed it.                                                  *)
LEMMA ExactNext == Exact /\ [Next]_vars => Exact'
<1> SUFFICES ASSUME Exact, [Next]_vars, upset' = {} PROVE Undisturbed'
  BY TypedNext, WantNext DEF Exact
<1>1. CASE Dispatch
  BY <1>1, Choosing DEF Exact
<1>2. CASE ~Dispatch
  <2>1. Calm
    <3>1. upset \subseteq upset'
      BY <1>2 DEF Next, CmdStep, ReadSize, ReadOffset, ReadPath, Open, LoopEnd,
         LoopChunk, WriteSome, ReadSome, GiveUp, Advance, Close, GsOpen,
         GsRead, GsClose, GsSend, Return, Land, Connect, Drop, UserOpen,
         Upset, histVars, vars
    <3> QED BY <3>1 DEF Exact, Calm
  <2>2. ~Drop
    BY DEF Drop, Upset
  <2>3. GiveUp \/ Return => cpc' \in {"failed", "idle"}
    BY DEF GiveUp, Return
  <2> QED
    BY <1>2, <2>1, <2>2, <2>3, Away, Landing, Elsewhere, ReadingParams, Opening,
       GsOpening, Filling, Ending, Sending, Receiving, Advancing, Closing,
       GsReceiving, GsClosing, GsSending DEF Next, CmdStep
<1> QED BY <1>1, <1>2

(* A command whose counts were full, whose connection lasted and whose      *)
(* packet was not overtaken did exactly what that packet says, byte for     *)
(* byte (to the GIF, whole quadwords of them) and nothing else (pkoDumpMem, *)
(* pkoWriteMem, pkoDumpReg, pkoGSExec).                                     *)
THEOREM TransferAlwaysExact == Spec => []TransferExact
<1>1. Exact => TransferExact
  <2> SUFFICES ASSUME Exact, cpc = "moved", upset = {} PROVE TransferExact
    BY DEF TransferExact
  <2>1. Delivered /\ want.op \in {"dump", "write", "regs", "gs"}
    <3>1. want.op \in {"none", "dump", "write", "regs", "gs"} /\ want.op # "none"
      BY DEF Exact, WantOK, Typed, Placed, NumbersOK, Packets
    <3> QED BY <3>1 DEF Exact, Undisturbed, Finished
  <2> QED
    BY <2>1 DEF TransferExact, Delivered, Dumped, RegsDumped, MemWritten,
       Untouched, Contents, QuadBytes
<1> QED BY <1>1, ExactInit, ExactNext, PTL DEF Spec
=============================================================================
