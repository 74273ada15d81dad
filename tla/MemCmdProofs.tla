---------------------------- MODULE MemCmdProofs ----------------------------
(* What MemCmd promises for every size of memory, buffer, range and file,   *)
(* every number of packets, descriptors and connections.                    *)
EXTENDS MemCmd, TLAPS

Ranges == Sizes \cup {0, RegSet}
InLoop == {"loop", "io", "advance"}
GsSteps == {"gsopen", "gsread", "gsclose", "gssend"}
Moves  == want.op \in {"dump", "write"}
Done   == IF cpc \in InLoop THEN total ELSE 0

(* The types the argument needs: TypeOK without what only TLC looks at.     *)
NumbersOK ==
    /\ mailbox \in Packets /\ want \in Packets /\ npkt \in Nat
    /\ cpc \in Labels
    /\ mailbox.op # "gs" => mailbox.size \in Ranges
    /\ mailbox.offset \in Offsets \cup {0}
    /\ size \in Ranges /\ offset \in Nat
    /\ total \in Nat /\ len \in Nat
    /\ upset \subseteq Upsets

(* A packet that wakes the thread is a command, and each step of a command  *)
(* belongs to it.                                                           *)
CommandKnown ==
    /\ woken => mailbox.op # "none" /\ mailbox.id # 0
    /\ cpc \in {"params", "offset", "path", "open"} \cup InLoop
         => want.op \in {"dump", "write", "regs"}
    /\ cpc \in {"offset", "loop", "advance"} => Moves
    /\ cpc \in GsSteps => want.op = "gs"

(* A command that still reads the mailbox finds its own packet there, unless *)
(* the next one has landed on it.                                           *)
ReadsOwn ==
    /\ cpc \in Reading \ {"gssend"} => mailbox.id # 0
    /\ cpc \in {"params", "offset", "path"} /\ "mixed" \notin upset
         => mailbox = want

(* A round starts with a length the buffer holds, and after the first one   *)
(* the range holds it too.                                                  *)
LoopLen ==
    cpc = "loop" => len \in 1 .. Chunk /\ (total # 0 => len <= size)

(* The range is the packet's, once its size and then its offset are read,   *)
(* and offset has moved by what was done since.                             *)
Follows ==
    Moves /\ "mixed" \notin upset =>
        /\ cpc \in {"offset", "path", "open"} \cup InLoop => size = want.size
        /\ cpc \in {"path", "open"} \cup InLoop
             => offset = want.offset + Done

Placed == NumbersOK /\ CommandKnown /\ ReadsOwn /\ LoopLen /\ Follows
            /\ ChunkInside

-----------------------------------------------------------------------------
(* The length of a round is positive and inside both the buffer and the     *)
(* range (NextLen).                                                         *)
LEMMA NextLenBounds ==
    ASSUME size \in Nat, total \in Nat, total < size, len \in 1 .. Chunk,
           total # 0 => len <= size, Chunk \in Nat
    PROVE  NextLen \in 1 .. Chunk /\ total + NextLen <= size
BY DEF NextLen

(* Addresses and sizes of packets are numbers.                              *)
LEMMA RangesNat == Ranges \subseteq Nat /\ Offsets \cup {0} \subseteq Nat
BY MemAssumption DEF Ranges

(* At first no command is running.                                          *)
LEMMA PlacedInit == Init => Placed
BY MemAssumption DEF Init, Placed, NumbersOK, CommandKnown, ReadsOwn, LoopLen,
   Follows, ChunkInside, NoPacket, Packet, Packets, Labels, Reading, InLoop,
   Ranges, Upsets, Ids, GsSteps

(* A landing packet, at every step of a command.                            *)
LEMMA LandPlaced == ASSUME Placed, Land PROVE Placed'
<1> USE DEF Placed
<1>1. PICK r \in Requests : mailbox' = Packet(r.op, npkt + 1, r.offset, r.size)
  BY DEF Land
<1>2. /\ r.op \in {"dump", "write", "regs", "gs"}
      /\ r.size \in Nat /\ (r.op # "gs" => r.size \in Ranges)
      /\ r.offset \in Offsets \cup {0}
  <2>1. \/ r \in [op : {"gs"}, offset : {0}, size : GsSizes]
        \/ /\ r.op \in {"dump", "write", "regs"}
           /\ r.size \in Ranges /\ r.offset \in Offsets \cup {0}
    BY <1>1 DEF Requests, Ranges
  <2> QED BY <2>1, RangesNat, MemAssumption
<1>3. npkt + 1 \in Ids /\ npkt' = npkt + 1
  BY MemAssumption DEF Land, NumbersOK, Ids
<1>4. mailbox' \in Packets
        /\ (mailbox'.op # "gs" => mailbox'.size \in Ranges)
        /\ mailbox'.offset \in Offsets \cup {0}
        /\ mailbox'.op # "none" /\ mailbox'.id # 0
  <2>1. r.size \in Nat /\ r.offset \in Nat
    BY <1>2, RangesNat
  <2>2. npkt + 1 # 0
    BY DEF NumbersOK
  <2> QED
    BY <1>1, <1>2, <1>3, <2>1, <2>2 DEF Packet, Packets
<1>5. /\ UNCHANGED <<cpc, parVars, loopVars>>
      /\ upset' = IF cpc \in Reading THEN upset \cup {"mixed"} ELSE upset
  BY DEF Land, Upset
<1>6. NumbersOK'
  BY <1>3, <1>4, <1>5 DEF NumbersOK, parVars, loopVars, Upsets
<1>7. CommandKnown'
  BY <1>4, <1>5 DEF CommandKnown, parVars, Moves
<1>8. ReadsOwn'
  BY <1>4, <1>5 DEF ReadsOwn, Reading
<1>9. LoopLen' /\ ChunkInside'
  BY <1>5 DEF LoopLen, ChunkInside, parVars, loopVars
<1>10. Follows'
  BY <1>5 DEF Follows, Done, Moves, parVars, loopVars
<1> QED BY <1>6, <1>7, <1>8, <1>9, <1>10

-----------------------------------------------------------------------------
(* The steps that choose a command and read its packet.                     *)
LEMMA DispatchPlaced == ASSUME Placed, Dispatch PROVE Placed'
<1> USE DEF Placed
<1>1. /\ want' = mailbox /\ mailbox' = mailbox /\ woken' = FALSE
      /\ npkt' = npkt /\ upset' = {}
      /\ UNCHANGED <<size, offset, total, len>>
      /\ mailbox.op # "none" /\ mailbox.id # 0
  BY DEF Dispatch, loopVars, CommandKnown
<1>2. /\ cpc' \in {"params", "gsopen"}
      /\ cpc' = "params" <=> mailbox.op # "gs"
  BY DEF Dispatch
<1>3. NumbersOK'
  BY <1>1, <1>2 DEF NumbersOK, Labels, Reading
<1>4. CommandKnown'
  BY <1>1, <1>2 DEF CommandKnown, InLoop, NumbersOK, Packets, GsSteps
<1>5. ReadsOwn' /\ LoopLen' /\ ChunkInside' /\ Follows'
  BY <1>1, <1>2 DEF ReadsOwn, LoopLen, ChunkInside, Follows, InLoop
<1> QED BY <1>3, <1>4, <1>5

(* The size is read from a packet, and the offset from it or the next one.  *)
LEMMA ReadSizePlaced == ASSUME Placed, ReadSize PROVE Placed'
<1> USE DEF Placed
<1>1. /\ cpc = "params"
      /\ cpc' = IF want.op = "regs" THEN "path" ELSE "offset"
      /\ UNCHANGED <<mailbox, woken, npkt, want, offset, total, len, upset>>
      /\ size' \in SizeRead
  BY DEF ReadSize, cmdVars, loopVars, histVars
<1>2. want.op \in {"dump", "write", "regs"}
  BY <1>1 DEF CommandKnown
<1>3. size' \in Ranges /\ (Moves /\ mailbox = want => size' = want.size)
  BY <1>1, <1>2 DEF SizeRead, Moves, NumbersOK, Ranges
<1>4. NumbersOK'
  BY <1>1, <1>3 DEF NumbersOK, Labels, Reading
<1>5. CommandKnown' /\ ReadsOwn'
  BY <1>1, <1>2 DEF CommandKnown, InLoop, Moves, GsSteps, ReadsOwn, Reading
<1>6. Follows'
  BY <1>1, <1>3 DEF Follows, InLoop, Moves, ReadsOwn
<1>7. LoopLen' /\ ChunkInside'
  BY <1>1 DEF LoopLen, ChunkInside
<1> QED BY <1>4, <1>5, <1>6, <1>7

LEMMA ReadOffsetPlaced == ASSUME Placed, ReadOffset PROVE Placed'
<1> USE DEF Placed
<1>1. /\ cpc = "offset" /\ cpc' = "path"
      /\ UNCHANGED <<mailbox, woken, npkt, want, size, total, len, upset>>
      /\ offset' \in Offsets \cup {0}
      /\ mailbox.op \in {"dump", "write"} => offset' = mailbox.offset
  BY DEF ReadOffset, cmdVars, loopVars, histVars, NumbersOK
<1>2. NumbersOK'
  BY <1>1, RangesNat DEF NumbersOK, Labels, Reading
<1>3. CommandKnown' /\ ReadsOwn'
  BY <1>1 DEF CommandKnown, InLoop, Moves, GsSteps, ReadsOwn, Reading
<1>4. Follows'
  BY <1>1, <1>2 DEF Follows, Done, InLoop, Moves, ReadsOwn, CommandKnown,
     NumbersOK
<1>5. LoopLen' /\ ChunkInside'
  BY <1>1 DEF LoopLen, ChunkInside
<1> QED BY <1>2, <1>3, <1>4, <1>5

(* So is the path, after them.                                              *)
LEMMA ReadPathPlaced == ASSUME Placed, ReadPath PROVE Placed'
<1> USE DEF Placed
<1>1. /\ cpc = "path" /\ cpc' = "open"
      /\ UNCHANGED <<cmdVars, want, offset, size, total, len, upset>>
  BY DEF ReadPath, histVars
<1>2. NumbersOK' /\ CommandKnown'
  BY <1>1 DEF NumbersOK, CommandKnown, cmdVars, Labels, InLoop, Moves, GsSteps
<1>3. ReadsOwn' /\ LoopLen' /\ ChunkInside'
  BY <1>1 DEF ReadsOwn, LoopLen, ChunkInside, cmdVars, Reading
<1>4. Follows'
  BY <1>1 DEF Follows, Done, InLoop, Moves
<1> QED BY <1>2, <1>3, <1>4

(* A file that opens leaves the first length to be chosen.                  *)
LEMMA OpenPlaced == ASSUME Placed, Open PROVE Placed'
<1> USE DEF Placed
<1>1. /\ cpc = "open" /\ total' = 0
      /\ cpc' = "close" \/ cpc' = IF want.op = "regs" THEN "io" ELSE "loop"
      /\ len' = IF want.op = "regs" THEN size ELSE Chunk
      /\ UNCHANGED <<cmdVars, parVars, upset>>
  BY DEF Open, OpenFile, histVars
<1>2. Chunk \in 1 .. Chunk /\ size \in Nat
  BY MemAssumption, RangesNat DEF NumbersOK
<1>3. NumbersOK'
  BY <1>1, <1>2 DEF NumbersOK, cmdVars, parVars, Labels
<1>4. CommandKnown' /\ ReadsOwn'
  BY <1>1 DEF CommandKnown, ReadsOwn, cmdVars, parVars, InLoop, Moves, Reading,
     GsSteps
<1>5. LoopLen' /\ ChunkInside'
  BY <1>1, <1>2 DEF LoopLen, ChunkInside, parVars
<1>6. Follows'
  BY <1>1, RangesNat DEF Follows, Done, InLoop, Moves, parVars, NumbersOK
<1> QED BY <1>3, <1>4, <1>5, <1>6

-----------------------------------------------------------------------------
(* The loop.                                                                *)
LEMMA LoopChunkPlaced == ASSUME Placed, LoopChunk PROVE Placed'
<1> USE DEF Placed
<1>1. /\ cpc = "loop" /\ total < size /\ len' = NextLen /\ cpc' = "io"
      /\ UNCHANGED <<cmdVars, parVars, total, upset>>
  BY DEF LoopChunk, histVars
<1>2. NextLen \in 1 .. Chunk /\ total + NextLen <= size
  BY <1>1, NextLenBounds, MemAssumption, RangesNat DEF NumbersOK, LoopLen
<1>3. NumbersOK' /\ ChunkInside'
  BY <1>1, <1>2 DEF NumbersOK, ChunkInside, cmdVars, parVars, Labels
<1>4. CommandKnown' /\ ReadsOwn' /\ LoopLen'
  BY <1>1 DEF CommandKnown, ReadsOwn, LoopLen, cmdVars, parVars, InLoop,
     Moves, Reading, GsSteps
<1>5. Follows'
  BY <1>1 DEF Follows, Done, InLoop, Moves, parVars
<1> QED BY <1>3, <1>4, <1>5

(* The calls leave the command's own numbers alone.                         *)
LEMMA IOPlaced == ASSUME Placed, WriteSome \/ ReadSome PROVE Placed'
<1> USE DEF Placed
<1>1. /\ cpc = "io" /\ cpc' \in {"advance", "close"}
      /\ cpc' = "advance" => Moves
      /\ UNCHANGED <<cmdVars, parVars, total, len>>
      /\ upset' \in {upset, upset \cup {"short"}}
  BY DEF WriteSome, ReadSome, Afterwards, Moves, Upset
<1>2. NumbersOK' /\ LoopLen'
  BY <1>1 DEF NumbersOK, LoopLen, cmdVars, parVars, Labels, Upsets
<1>3. CommandKnown' /\ ReadsOwn'
  BY <1>1 DEF CommandKnown, ReadsOwn, cmdVars, parVars, InLoop, Moves, Reading,
     GsSteps
<1>4. ChunkInside' /\ Follows'
  BY <1>1 DEF ChunkInside, Follows, Done, InLoop, Moves, parVars
<1> QED BY <1>2, <1>3, <1>4

(* The end of a round chooses the next length from what is left.            *)
LEMMA AdvancePlaced == ASSUME Placed, Advance PROVE Placed'
<1> USE DEF Placed
<1>1. /\ cpc = "advance" /\ cpc' = "loop"
      /\ offset' = offset + len /\ total' = total + len
      /\ UNCHANGED <<cmdVars, want, size, len, upset>>
  BY DEF Advance, histVars
<1>2. Moves /\ len \in 1 .. Chunk /\ total + len <= size /\ size \in Nat
  BY <1>1, RangesNat DEF CommandKnown, ChunkInside, Moves, NumbersOK
<1>3. NumbersOK' /\ LoopLen'
  BY <1>1, <1>2 DEF NumbersOK, LoopLen, cmdVars, Labels
<1>4. CommandKnown' /\ ReadsOwn' /\ ChunkInside'
  BY <1>1, <1>2 DEF CommandKnown, ReadsOwn, ChunkInside, cmdVars, InLoop,
     Moves, Reading, GsSteps
<1>5. Follows'
  BY <1>1, <1>2, RangesNat DEF Follows, Done, InLoop, Moves, NumbersOK, Packets
<1> QED BY <1>3, <1>4, <1>5

(* Steps that leave the loop, and the steps of pkoGSExec.                   *)
LEMMA LeavePlaced ==
    ASSUME Placed, LoopEnd \/ GiveUp \/ Close \/ GsRead \/ GsClose
                     \/ GsSend \/ Return \/ GsOpen
    PROVE  Placed'
<1> USE DEF Placed
<1>1. /\ cpc' \in {"close", "failed", "moved", "gsread", "gsclose", "gssend",
                   "idle"}
      /\ cpc' \in {"gsread", "gsclose"} => cpc \in Reading \ {"gssend"}
      /\ cpc' \in GsSteps => cpc \in GsSteps
      /\ UNCHANGED <<cmdVars, want, size, offset, total, len>>
      /\ upset' \in {upset, upset \cup {"short"}}
  BY DEF LoopEnd, GiveUp, Close, GsRead, GsClose, GsSend, Return, GsOpen,
     OpenFile, Upset, Reading, GsSteps, parVars, loopVars, histVars
<1>2. NumbersOK'
  BY <1>1 DEF NumbersOK, cmdVars, Labels, Reading, Upsets
<1>3. CommandKnown' /\ ReadsOwn' /\ LoopLen' /\ ChunkInside' /\ Follows'
  BY <1>1 DEF CommandKnown, ReadsOwn, LoopLen, ChunkInside, Follows, InLoop,
     cmdVars, Reading, GsSteps
<1> QED BY <1>2, <1>3

(* The PC's side and the user program.                                      *)
LEMMA OutsidePlaced ==
    ASSUME Placed, Connect \/ Drop \/ UserOpen \/ UNCHANGED vars
    PROVE  Placed'
<1> USE DEF Placed
<1>1. /\ UNCHANGED <<cmdVars, cpc, parVars, loopVars>>
      /\ upset' \in {upset, upset \cup {"lost"}}
  BY DEF Connect, Drop, UserOpen, Upset, vars, histVars
<1>2. NumbersOK' /\ CommandKnown'
  BY <1>1 DEF NumbersOK, CommandKnown, cmdVars, parVars, loopVars, Upsets, Moves
<1>3. ReadsOwn' /\ LoopLen' /\ ChunkInside' /\ Follows'
  BY <1>1 DEF ReadsOwn, LoopLen, ChunkInside, Follows, Done, Moves, cmdVars,
     parVars, loopVars
<1> QED BY <1>2, <1>3

(* Every step keeps Placed, on which a round's bounds rest.                 *)
THEOREM PlacedNext == Placed /\ [Next]_vars => Placed'
BY LandPlaced, DispatchPlaced, ReadSizePlaced, ReadOffsetPlaced,
   ReadPathPlaced, OpenPlaced, LoopChunkPlaced, IOPlaced,
   AdvancePlaced, LeavePlaced, OutsidePlaced
   DEF Next, CmdStep

(* Every round of a transfer fits the buffer and what is left of the range. *)
THEOREM ChunkAlwaysInside == Spec => []ChunkInside
<1>1. Placed => ChunkInside
  BY DEF Placed
<1> QED BY <1>1, PlacedInit, PlacedNext, PTL DEF Spec

-----------------------------------------------------------------------------
(* A write of memory stays inside the range of its packet, whatever the     *)
(* calls return, whoever lands and whoever disconnects.                     *)
THEOREM WritesInside == Spec => OutsideUntouched
<1> DEFINE Kept ==
      \A a \in DOMAIN memory :
         memory'[a] # memory[a] /\ "mixed" \notin upset
            => a \in Span(want.offset, want.size)
<1>1. Placed /\ [Next]_vars => [Kept]_vars
  <2> SUFFICES ASSUME Placed, Next PROVE Kept
    OBVIOUS
  <2> USE DEF Placed
  <2>1. CASE Advance
    <3> SUFFICES ASSUME NEW a \in DOMAIN memory, memory'[a] # memory[a],
                        "mixed" \notin upset
                 PROVE  a \in Span(want.offset, want.size)
      OBVIOUS
    <3>1. want.op = "write" /\ a \in offset .. offset + len - 1
      BY <2>1 DEF Advance
    <3>2. size = want.size /\ offset = want.offset + total
      BY <2>1, <3>1 DEF Advance, Follows, Done, InLoop, Moves
    <3>3. len \in 1 .. Chunk /\ total + len <= size
      BY <2>1, <3>1 DEF Advance, ChunkInside
    <3>4. total \in Nat /\ want.offset \in Nat /\ size \in Nat
      BY RangesNat DEF NumbersOK, Packets
    <3> QED
      BY <3>1, <3>2, <3>3, <3>4, MemAssumption DEF Span
  <2>2. CASE ~Advance
    <3>1. memory' = memory
      BY <2>2 DEF Next, CmdStep, Dispatch, ReadSize, ReadOffset, ReadPath, Open,
         LoopEnd, LoopChunk, WriteSome, ReadSome, GiveUp, Close, GsOpen, GsRead,
         GsClose, GsSend, Return, Land, Connect, Drop, UserOpen, dataVars
    <3> QED
      BY <3>1
  <2> QED BY <2>1, <2>2
<1> QED BY <1>1, PlacedInit, PlacedNext, PTL DEF Spec, OutsideUntouched

-----------------------------------------------------------------------------
(* Whose file it is: the descriptor of a command leads to the file its path *)
(* names for as long as the connection lasts, and until the file is open    *)
(* nothing has changed.                                                     *)
FilesOK ==
    /\ table \in [Fds -> [file : Nat, pos : Nat]]
    /\ DOMAIN files = Files /\ path \in Nat

OwnFd ==
    /\ cpc \in {"open"} \cup InLoop => path # 0
    /\ cpc \in InLoop /\ "lost" \notin upset
         => fd \in Fds /\ table[fd].file = path

NothingYet ==
    cpc \in Reading \cup {"open"} /\ "lost" \notin upset
        => \A f \in Files : files[f] = before.files[f]

Owned == Placed /\ FilesOK /\ OwnFd /\ NothingYet /\ OthersUntouched

(* At first no command has a descriptor.                                    *)
LEMMA OwnedInit == Init => Owned
BY PlacedInit DEF Init, Owned, FilesOK, OwnFd, NothingYet, OthersUntouched,
   Closed, Reading, InLoop

(* Opening a file, for a command with a name.                               *)
LEMMA OpenTable ==
    ASSUME FilesOK, NEW f \in Nat, NEW next, OpenFile(f, next)
    PROVE  /\ table' \in [Fds -> [file : Nat, pos : Nat]]
           /\ cpc' = next["failed"]
                \/ (fd' \in Fds /\ table'[fd'].file = f)
<1>1. CASE table' = table /\ cpc' = next["failed"]
  BY <1>1, Zenon DEF FilesOK
<1>2. ASSUME NEW n \in FreeFds, fd' = n,
             table' = [table EXCEPT ![n] = AtStart(f)]
      PROVE  /\ table' \in [Fds -> [file : Nat, pos : Nat]]
             /\ fd' \in Fds /\ table'[fd'].file = f
  BY <1>2 DEF FreeFds, AtStart, FilesOK
<1> QED BY <1>1, <1>2 DEF OpenFile

(* Moving bytes through a descriptor changes where it stands, not what it   *)
(* leads to.                                                                *)
LEMMA AdvancedKeeps ==
    ASSUME FilesOK, NEW n \in Nat, NEW g \in Fds
    PROVE  /\ Advanced(g, n) \in [Fds -> [file : Nat, pos : Nat]]
           /\ \A m \in Fds : Advanced(g, n)[m].file = table[m].file
BY DEF Advanced, FilesOK

(* Every step keeps Owned: while the connection lasts the PC gives no       *)
(* number out twice.                                                        *)
THEOREM OwnedNext == Owned /\ [Next]_vars => Owned'
<1> SUFFICES ASSUME Owned, [Next]_vars PROVE Owned'
  OBVIOUS
<1> USE DEF Owned
<1>1. Placed'
  BY PlacedNext
<1>2. CASE Dispatch
  <2>1. /\ UNCHANGED <<table, files, path>> /\ before'.files = files
        /\ cpc' \in {"gsopen", "params"}
    BY <1>2 DEF Dispatch, pcVars
  <2> QED
    BY <1>1, <2>1 DEF FilesOK, OwnFd, NothingYet, OthersUntouched, InLoop
<1>3. CASE ReadSize \/ ReadOffset \/ ReadPath
  <2>1. /\ UNCHANGED <<table, files, before, upset>>
        /\ path' \in {path, mailbox.id}
        /\ cpc \in {"params", "offset", "path"}
        /\ cpc' \in {"offset", "path", "open"}
        /\ cpc' = "open" => path' = mailbox.id
    BY <1>3 DEF ReadSize, ReadOffset, ReadPath, pcVars, histVars
  <2>2. mailbox.id # 0 /\ mailbox.id \in Nat
    BY <2>1, MemAssumption DEF Placed, ReadsOwn, NumbersOK, Packets, Ids,
       Reading
  <2> QED
    BY <1>1, <2>1, <2>2 DEF FilesOK, OwnFd, NothingYet, OthersUntouched,
       InLoop, Reading
<1>4. CASE Open
  <2>1. /\ UNCHANGED <<files, before, upset, path>> /\ cpc = "open"
        /\ cpc' \in {"close", "io", "loop"}
    BY <1>4 DEF Open, OpenFile, parVars, histVars
  <2>2. /\ table' \in [Fds -> [file : Nat, pos : Nat]]
        /\ cpc' = "close" \/ (fd' \in Fds /\ table'[fd'].file = path)
    <3>1. FilesOK /\ path \in Nat
      BY DEF FilesOK
    <3>2. OpenFile(path, [failed |-> "close",
                     opened |-> IF want.op = "regs" THEN "io" ELSE "loop"])
      BY <1>4 DEF Open
    <3> QED BY <3>1, <3>2, OpenTable
  <2> QED
    BY <1>1, <2>1, <2>2 DEF FilesOK, OwnFd, NothingYet, OthersUntouched,
       InLoop, Reading
<1>5. CASE GsOpen
  <2>1. /\ UNCHANGED <<files, before, upset>> /\ cpc = "gsopen"
        /\ path' = mailbox.id /\ cpc' \in {"failed", "gsread"}
        /\ mailbox.id \in Nat
    BY <1>5, MemAssumption DEF GsOpen, OpenFile, parVars, histVars, Placed,
       NumbersOK, Packets, Ids
  <2>2. table' \in [Fds -> [file : Nat, pos : Nat]]
    <3>1. OpenFile(mailbox.id, [failed |-> "failed", opened |-> "gsread"])
      BY <1>5 DEF GsOpen
    <3> QED BY <2>1, <3>1, OpenTable
  <2> QED
    BY <1>1, <2>1, <2>2 DEF FilesOK, OwnFd, NothingYet, OthersUntouched,
       InLoop, Reading
<1>6. CASE WriteSome
  <2>1. PICK n \in 1 .. len : WriteFd(fd, Source, n)
    BY <1>6 DEF WriteSome
  <2>2. /\ cpc = "io" /\ fd \in Fds /\ cpc' \in {"close", "advance"}
        /\ UNCHANGED <<path, fd, before>>
        /\ "lost" \in upset => "lost" \in upset'
    BY <1>6 DEF WriteSome, IsOpen, Afterwards, parVars, Upset
  <2>3. n \in Nat
    BY DEF Placed, NumbersOK
  <2>4. FilesOK'
    BY <2>1, <2>2, <2>3, AdvancedKeeps DEF FilesOK, WriteFd
  <2>5. OwnFd'
    BY <2>1, <2>2, <2>3, AdvancedKeeps DEF OwnFd, InLoop, WriteFd
  <2>6. \A f \in Files : f # table[fd].file => files'[f] = files[f]
    BY <2>1 DEF WriteFd, FilesOK
  <2>7. OthersUntouched'
    BY <2>2, <2>6 DEF OthersUntouched, OwnFd, InLoop
  <2> QED
    BY <1>1, <2>2, <2>4, <2>5, <2>7 DEF NothingYet, Reading
<1>7. CASE ReadSome \/ GsRead
  <2>1. /\ table' = table \/ \E n \in Nat : fd \in Fds /\ table' = Advanced(fd, n)
        /\ UNCHANGED <<path, fd, before, files>>
        /\ cpc \in {"io", "gsread"}
        /\ cpc' = IF cpc = "io" THEN "advance" ELSE "gsclose"
        /\ "lost" \in upset => "lost" \in upset'
    <3>1. ASSUME NEW m, NEW n \in Readable(fd, m), m \in Nat PROVE n \in Nat
      BY <3>1 DEF Readable
    <3>2. len \in Nat /\ GsMax \in Nat
      BY MemAssumption DEF Placed, NumbersOK
    <3> QED
      BY <1>7, <3>1, <3>2 DEF ReadSome, GsRead, ReadFd, IsOpen, parVars, Upset,
         histVars, loopVars
  <2>2. /\ table' \in [Fds -> [file : Nat, pos : Nat]]
        /\ \A m \in Fds : table'[m].file = table[m].file
    <3>1. CASE table' = table
      BY <3>1 DEF FilesOK
    <3>2. CASE \E n \in Nat : fd \in Fds /\ table' = Advanced(fd, n)
      <4>1. PICK n \in Nat : fd \in Fds /\ table' = Advanced(fd, n)
        BY <3>2
      <4> QED BY <4>1, AdvancedKeeps
    <3> QED BY <2>1, <3>1, <3>2
  <2> QED
    BY <1>1, <2>1, <2>2 DEF FilesOK, OwnFd, NothingYet, OthersUntouched,
       InLoop, Reading
<1>8. CASE Close \/ GsClose
  <2>1. /\ UNCHANGED <<files, before, upset, path>>
        /\ CloseFd(fd)
        /\ cpc \in {"close", "gsclose"} /\ cpc' \in {"moved", "failed", "gssend"}
        /\ cpc' = "gssend" => cpc = "gsclose"
    BY <1>8 DEF Close, GsClose, parVars, histVars
  <2>2. table' \in [Fds -> [file : Nat, pos : Nat]]
    BY <2>1 DEF CloseFd, Closed, FilesOK
  <2> QED
    BY <1>1, <2>1, <2>2 DEF FilesOK, OwnFd, NothingYet, OthersUntouched,
       InLoop, Reading
<1>9. CASE UserOpen
  <2>1. PICK n \in FreeFds : table' = [table EXCEPT ![n] = AtStart(User)]
    BY <1>9 DEF UserOpen
  <2>2. UNCHANGED <<cpc, path, before, fd, files, upset>>
    BY <1>9 DEF UserOpen, parVars, loopVars, histVars
  <2>3. User \in Nat
    BY MemAssumption DEF User
  <2>4. FilesOK'
    BY <2>1, <2>2, <2>3 DEF FilesOK, AtStart
  <2>5. OwnFd'
    BY <2>1, <2>2 DEF OwnFd, FilesOK, FreeFds, InLoop
  <2> QED
    BY <1>1, <2>2, <2>4, <2>5 DEF NothingYet, OthersUntouched
<1>10. CASE Drop
  BY <1>1, <1>10 DEF Drop, Closed, Upset, FilesOK, OwnFd, NothingYet,
     OthersUntouched, parVars, loopVars
<1>11. CASE Connect \/ Land \/ UNCHANGED vars
  <2>1. UNCHANGED <<cpc, path, before, fd, files, table>>
        /\ ("lost" \in upset' <=> "lost" \in upset)
    BY <1>11 DEF Connect, Land, vars, parVars, loopVars, pcVars, histVars, Upset
  <2> QED
    BY <1>1, <2>1 DEF FilesOK, OwnFd, NothingYet, OthersUntouched, InLoop
<1>12. CASE LoopEnd \/ LoopChunk \/ GiveUp \/ Advance \/ GsSend \/ Return
  <2>1. /\ UNCHANGED <<path, before, fd, files, table>>
        /\ "lost" \in upset => "lost" \in upset'
        /\ cpc \in InLoop \cup {"gssend", "moved", "failed"}
        /\ cpc' \in {"close", "io", "failed", "loop", "moved", "idle"}
        /\ cpc' \in InLoop => cpc \in InLoop
    BY <1>12 DEF LoopEnd, LoopChunk, GiveUp, Advance, GsSend, Return, parVars,
       loopVars, pcVars, histVars, Upset, InLoop
  <2> QED
    BY <1>1, <2>1 DEF FilesOK, OwnFd, NothingYet, OthersUntouched, InLoop,
       Reading
<1> QED
  BY <1>2, <1>3, <1>4, <1>5, <1>6, <1>7, <1>8, <1>9, <1>10, <1>11, <1>12
     DEF Next, CmdStep

(* While its connection lasts, no command changes another one's file or the *)
(* user program's (own_fd, net_fsys.c).                                     *)
THEOREM OthersAlwaysUntouched == Spec => []OthersUntouched
<1>1. Owned => OthersUntouched
  BY DEF Owned
<1> QED BY <1>1, OwnedInit, OwnedNext, PTL DEF Spec
=============================================================================
