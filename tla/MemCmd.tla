------------------------------- MODULE MemCmd -------------------------------
(***************************************************************************)
(* The commands of ee/cmdHandler.c that move data between the machine and a *)
(* file of the PC: pkoDumpMem, pkoWriteMem, pkoDumpReg and pkoGSExec.  They *)
(* run one at a time on cmdThread and share dataBuffer.  Each of their      *)
(* calls of the file system blocks for as long as the PC likes; meanwhile   *)
(* the next packet may land in the mailbox, the user program may open a     *)
(* file, and the PC may go away and come back with an empty descriptor      *)
(* table.  What a call returns is what FileIO lets it return: an error, or  *)
(* a count that may be short.                                               *)
(*                                                                         *)
(* A byte is a number that says where it was first; a file's name is the    *)
(* number of the packet that names it.                                      *)
(***************************************************************************)
EXTENDS Integers, Sequences, FiniteSets

CONSTANTS
    Chunk,       \* size of dataBuffer and of a transfer, 16 KB
    GsMax,       \* bytes pkoGSExec reads, 128
    Quad,        \* bytes the GIF is sent at a time, 16
    MemSize,     \* bytes of memory
    FileLen,     \* bytes in each file of the PC
    RegSet,      \* bytes of a register set
    Offsets, Sizes,   \* where and how much a command may move
    GsSizes,     \* how much the GIF may be sent
    MaxCmds,     \* bound: packets
    MaxFds,      \* bound: descriptors of the PC
    MaxLinks     \* bound: connections

ASSUME MemAssumption ==
    /\ Chunk \in Nat \ {0} /\ GsMax \in 1 .. Chunk /\ Quad \in Nat \ {0}
    /\ MemSize \in Nat /\ FileLen \in Nat /\ RegSet \in Nat
    /\ Offsets \subseteq Nat /\ Sizes \subseteq Nat /\ GsSizes \subseteq Nat
    /\ \A o \in Offsets \cup {0}, s \in Sizes \cup {0, RegSet} :
          o + s <= MemSize
    /\ MaxCmds \in Nat /\ MaxFds \in Nat /\ MaxLinks \in Nat

VARIABLES
    mailbox,     \* the packet at sifDmaDataPtr
    woken,       \* cmdThread has been woken for it
    cpc,         \* where cmdThread is
    want,        \* the packet as it was when the command was chosen
    path, offset, size, total, len, fd, ret,   \* the command's locals
    dataBuffer, memory,
    gif,         \* what the GIF was sent
    npkt,        \* packets so far
    link,        \* the connection to the PC: its number, or 0
    nlinks,      \* connections so far
    table,       \* the PC's descriptors on it
    files,       \* contents of the PC's files
    before,      \* history: memory and files when the command was chosen
    upset,       \* history: what went wrong that the command does not see
    failures     \* history: commands that gave up on this connection

cmdVars  == <<mailbox, woken, npkt>>
parVars  == <<want, path, offset, size, before>>
loopVars == <<total, len, fd, ret>>
dataVars == <<dataBuffer, memory, gif>>
pcVars   == <<link, nlinks, table, files>>
histVars == <<upset, failures>>
vars == <<cmdVars, cpc, parVars, loopVars, dataVars, pcVars, histVars>>

Ids   == 0 .. MaxCmds
Fds   == 1 .. MaxFds
User  == MaxCmds + 1                   \* the user program's file
Files == 1 .. User

Packet(op, id, o, s) == [op |-> op, id |-> id, offset |-> o, size |-> s]
NoPacket == Packet("none", 0, 0, 0)
Closed   == [file |-> 0, pos |-> 0]    \* a free descriptor

Requests ==
    [op : {"dump", "write"}, offset : Offsets, size : Sizes]
    \cup [op : {"regs"}, offset : {0}, size : {0, RegSet}]
    \cup [op : {"gs"}, offset : {0}, size : GsSizes]

MemByte(a)     == a + 1
RegByte(k)     == -(k + 1)
FileByte(f, k) == 100 * f + k
Beyond(k)      == -1000 - k            \* the k-th byte of what follows dataBuffer

(* A short count, a lost connection, parameters of two packets.             *)
Upsets == {"short", "lost", "mixed"}
Upset(what, happens) == upset' = IF happens THEN upset \cup {what} ELSE upset

Init ==
    /\ mailbox = NoPacket /\ woken = FALSE /\ npkt = 0
    /\ cpc = "idle" /\ want = NoPacket
    /\ path = 0 /\ offset = 0 /\ size = 0
    /\ total = 0 /\ len = 0 /\ fd = 0 /\ ret = 0
    /\ dataBuffer = [k \in 0 .. Chunk - 1 |-> 0]
    /\ memory = [a \in 0 .. MemSize - 1 |-> MemByte(a)]
    /\ gif = <<>>
    /\ link = 0 /\ nlinks = 0 /\ table = [n \in Fds |-> Closed]
    /\ files = [f \in Files |-> [k \in 1 .. FileLen |-> FileByte(f, k)]]
    /\ before = [memory |-> memory, files |-> files]
    /\ upset = {} /\ failures = 0

-----------------------------------------------------------------------------
(* The mailbox, as SifCmd delivers it.                                      *)

(* Steps in which a command still reads the mailbox.                        *)
Reading == {"params", "offset", "path", "gsopen", "gsread", "gsclose", "gssend"}

Land ==
    /\ npkt < MaxCmds
    /\ \E r \in Requests :
          mailbox' = Packet(r.op, npkt + 1, r.offset, r.size)
    /\ npkt' = npkt + 1
    /\ woken' = TRUE
    /\ Upset("mixed", cpc \in Reading)
    /\ UNCHANGED <<cpc, parVars, loopVars, dataVars, pcVars, failures>>

(* cmdThread wakes up and chooses the command.                              *)
Dispatch ==
    /\ cpc = "idle" /\ woken
    /\ woken' = FALSE
    /\ want' = mailbox
    /\ before' = [memory |-> memory, files |-> files]
    /\ cpc' = IF mailbox.op = "gs" THEN "gsopen" ELSE "params"
    /\ gif' = <<>>
    /\ upset' = {}
    /\ UNCHANGED <<mailbox, npkt, path, offset, size, loopVars, dataBuffer,
                   memory, pcVars, failures>>

-----------------------------------------------------------------------------
(* The PC, external: open, read, write and close as the file system returns *)
(* them.  A connection that is lost takes its descriptors with it.          *)

Connect ==
    /\ link = 0 /\ nlinks < MaxLinks
    /\ nlinks' = nlinks + 1 /\ link' = nlinks + 1
    /\ failures' = 0
    /\ UNCHANGED <<cmdVars, cpc, parVars, loopVars, dataVars, table, files,
                   upset>>

Drop ==
    /\ link # 0
    /\ link' = 0
    /\ table' = [n \in Fds |-> Closed]
    /\ Upset("lost", TRUE)
    /\ UNCHANGED <<cmdVars, cpc, parVars, loopVars, dataVars, nlinks, files,
                   failures>>

FreeFds == {n \in Fds : table[n].file = 0}
AtStart(f) == [file |-> f, pos |-> 0]

(* The user program opens a file of its own.                                *)
UserOpen ==
    /\ link # 0 /\ \A n \in Fds : table[n].file # User
    /\ \E n \in FreeFds : table' = [table EXCEPT ![n] = AtStart(User)]
    /\ UNCHANGED <<cmdVars, cpc, parVars, loopVars, dataVars, link, nlinks,
                   files, histVars>>

OpenFile(f, next) ==
    \/ /\ fd' = -1
       /\ UNCHANGED table
       /\ cpc' = next["failed"]
    \/ /\ link # 0
       /\ \E n \in FreeFds :
             fd' = n /\ table' = [table EXCEPT ![n] = AtStart(f)]
       /\ cpc' = next["opened"]

(* close: a descriptor that is not open is an error nobody looks at.        *)
CloseFd(n) ==
    table' = IF n \in Fds THEN [table EXCEPT ![n] = Closed] ELSE table

IsOpen(n) == link # 0 /\ n \in Fds /\ table[n].file # 0

(* The file with n bytes written at pos; s is what they are taken from.     *)
Written(content, pos, s, n) ==
    [k \in 1 .. (IF pos + n > Len(content) THEN pos + n ELSE Len(content)) |->
        IF k > pos /\ k <= pos + n THEN s[k - pos - 1] ELSE content[k]]

Advanced(n, count) == [table EXCEPT ![n].pos = @ + count]

WriteFd(n, s, count) ==
    LET e == table[n] IN
    /\ files' = [files EXCEPT ![e.file] = Written(@, e.pos, s, count)]
    /\ table' = Advanced(n, count)

(* The bytes read replace the front of dataBuffer.                          *)
ReadFd(n, count) ==
    LET e == table[n] IN
    /\ dataBuffer' = [k \in DOMAIN dataBuffer |->
                        IF k < count THEN files[e.file][e.pos + k + 1]
                        ELSE dataBuffer[k]]
    /\ table' = Advanced(n, count)

(* The counts a read of at most max bytes may return.                       *)
Readable(n, max) ==
    {k \in 0 .. max : table[n].pos + k <= Len(files[table[n].file])}

-----------------------------------------------------------------------------
(* pkoDumpMem and pkoWriteMem: parameters first, then a loop over chunks.   *)

(* The size a command finds in the mailbox.  The field of another kind's    *)
(* packet is whatever lies there: any size, and so with the offset.         *)
SizeRead ==
    CASE want.op \in {"dump", "write"} ->
            IF mailbox.op \in {"dump", "write"} THEN {mailbox.size} ELSE Sizes
      [] want.op = "regs" ->
            IF mailbox.op = "regs" THEN {mailbox.size} ELSE {0, RegSet}
      [] want.op = "gs" ->
            IF mailbox.op = "gs" THEN {mailbox.size} ELSE GsSizes

ReadSize ==
    /\ cpc = "params"
    /\ size' \in SizeRead
    /\ cpc' = IF want.op = "regs" THEN "path" ELSE "offset"
    /\ UNCHANGED <<cmdVars, want, path, offset, before, loopVars, dataVars,
                   pcVars, histVars>>

ReadOffset ==
    /\ cpc = "offset"
    /\ offset' \in IF mailbox.op \in {"dump", "write"} THEN {mailbox.offset}
                  ELSE Offsets
    /\ cpc' = "path"
    /\ UNCHANGED <<cmdVars, want, path, size, before, loopVars, dataVars,
                   pcVars, histVars>>

ReadPath ==
    /\ cpc = "path"
    /\ path' = mailbox.id
    /\ ret' = 0
    /\ cpc' = "open"
    /\ UNCHANGED <<cmdVars, want, offset, size, before, total, len, fd,
                   dataVars, pcVars, histVars>>

(* Fault: the path is not copied before the call, as in pkoGSExec.          *)
Open_Mailbox ==
    /\ cpc = "open"
    /\ OpenFile(mailbox.id, [failed |-> "close",
                       opened |-> IF want.op = "regs" THEN "io" ELSE "loop"])
    /\ total' = 0
    /\ len' = IF want.op = "regs" THEN size ELSE Chunk
    /\ UNCHANGED <<cmdVars, parVars, ret, dataVars, link, nlinks, files,
                   histVars>>

Open ==
    /\ cpc = "open"
    /\ OpenFile(path, [failed |-> "close",
                       opened |-> IF want.op = "regs" THEN "io" ELSE "loop"])
    /\ total' = 0
    /\ len' = IF want.op = "regs" THEN size ELSE Chunk
    /\ UNCHANGED <<cmdVars, parVars, ret, dataVars, link, nlinks, files,
                   histVars>>

(* Fault: the last chunk is not cut to what is left.                        *)
NextLen_Uncut == IF size < len THEN size ELSE len

(* How much the next round moves.                                           *)
NextLen ==
    IF size < len THEN size
    ELSE IF size - total < len THEN size - total ELSE len

LoopEnd ==
    /\ cpc = "loop" /\ total >= size
    /\ cpc' = "close"
    /\ UNCHANGED <<cmdVars, parVars, loopVars, dataVars, pcVars, histVars>>

LoopChunk ==
    /\ cpc = "loop" /\ total < size
    /\ len' = NextLen
    /\ dataBuffer' = IF want.op = "write" THEN dataBuffer
                     ELSE [k \in DOMAIN dataBuffer |->
                             IF k < NextLen THEN memory[offset + k]
                             ELSE dataBuffer[k]]
    /\ cpc' = "io"
    /\ UNCHANGED <<cmdVars, parVars, total, fd, ret, memory, gif, pcVars,
                   histVars>>

Registers == [k \in 0 .. RegSet - 1 |-> RegByte(k)]
Source == IF want.op = "regs" THEN Registers ELSE dataBuffer

Afterwards == IF want.op = "regs" THEN "close" ELSE "advance"

(* write: some of the bytes, at least one, are taken.                       *)
WriteSome ==
    /\ cpc = "io" /\ want.op \in {"dump", "regs"} /\ IsOpen(fd)
    /\ \E n \in 1 .. len :
        /\ WriteFd(fd, Source, n)
        /\ ret' = n
        /\ Upset("short", n < len)
    /\ cpc' = Afterwards
    /\ UNCHANGED <<cmdVars, parVars, total, len, fd, dataVars, link, nlinks,
                   failures>>

(* read: the file may end before the range does.                            *)
ReadSome ==
    /\ cpc = "io" /\ want.op = "write" /\ IsOpen(fd)
    /\ \E n \in Readable(fd, len) \ {0} :
        /\ ReadFd(fd, n)
        /\ ret' = n
        /\ Upset("short", n < len)
    /\ cpc' = "advance"
    /\ UNCHANGED <<cmdVars, parVars, total, len, fd, memory, gif, link,
                   nlinks, files, failures>>

(* Fault: a call that fails is made again, for as long as it fails.         *)
GiveUp_Retry ==
    /\ cpc = "io"
    /\ ret' \in {-1, 0}
    /\ cpc' = "loop"
    /\ UNCHANGED <<cmdVars, parVars, total, len, fd, dataVars, pcVars, histVars>>

(* Nothing was moved, or an error: the command returns the descriptor, and  *)
(* leaves it open.                                                          *)
GiveUp ==
    /\ cpc = "io"
    /\ ret' \in {-1, 0}
    /\ failures' = failures + 1
    /\ cpc' = "failed"
    /\ UNCHANGED <<cmdVars, parVars, total, len, fd, dataVars, pcVars, upset>>

(* Both loops go on by the chunk's length, whatever the count was.          *)
Advance ==
    /\ cpc = "advance"
    /\ memory' = IF want.op = "write"
                 THEN [a \in DOMAIN memory |->
                         IF a \in offset .. offset + len - 1
                         THEN dataBuffer[a - offset] ELSE memory[a]]
                 ELSE memory
    /\ offset' = offset + len
    /\ total' = total + len
    /\ cpc' = "loop"
    /\ UNCHANGED <<cmdVars, want, path, size, before, len, fd, ret,
                   dataBuffer, gif, pcVars, histVars>>

(* Fault: a transfer that went well leaves its file open.                   *)
Close_Never ==
    /\ cpc = "close"
    /\ cpc' = IF fd > 0 THEN "moved" ELSE "failed"
    /\ UNCHANGED <<cmdVars, parVars, loopVars, dataVars, pcVars, histVars>>

Close ==
    /\ cpc = "close"
    /\ CloseFd(fd)
    /\ cpc' = IF fd > 0 THEN "moved" ELSE "failed"
    /\ UNCHANGED <<cmdVars, parVars, loopVars, dataVars, link, nlinks, files,
                   histVars>>

-----------------------------------------------------------------------------
(* pkoGSExec: read GsMax bytes, send as many as the mailbox says by then.   *)

GsOpen ==
    /\ cpc = "gsopen"
    /\ path' = mailbox.id
    /\ OpenFile(mailbox.id, [failed |-> "failed", opened |-> "gsread"])
    /\ UNCHANGED <<cmdVars, want, offset, size, before, total, len, ret,
                   dataVars, link, nlinks, files, histVars>>

GsRead ==
    /\ cpc = "gsread"
    /\ \/ ret' = -1 /\ UNCHANGED <<dataBuffer, table>>
       \/ IsOpen(fd) /\ \E n \in Readable(fd, GsMax) :
             ret' = n /\ ReadFd(fd, n)
    /\ cpc' = "gsclose"
    /\ UNCHANGED <<cmdVars, parVars, total, len, fd, memory, gif, link,
                   nlinks, files, histVars>>

GsClose ==
    /\ cpc = "gsclose"
    /\ CloseFd(fd)
    /\ cpc' = IF ret < 0 THEN "failed" ELSE "gssend"
    /\ UNCHANGED <<cmdVars, parVars, loopVars, dataVars, link, nlinks, files,
                   histVars>>

(* Fault: the size is taken for a number of quadwords.                      *)
QuadBytes_Undivided(n) == Quad * n

(* What a size amounts to: the GIF is sent whole quadwords.                 *)
QuadBytes(n) == Quad * (n \div Quad)

GsSend ==
    /\ cpc = "gssend"
    /\ \E n \in {QuadBytes(s) : s \in SizeRead} :
        /\ gif' = [k \in 1 .. n |-> IF k <= Chunk THEN dataBuffer[k - 1]
                                   ELSE Beyond(k - Chunk)]
        /\ Upset("short", ret < n)
    /\ cpc' = "moved"
    /\ UNCHANGED <<cmdVars, parVars, loopVars, dataBuffer, memory, pcVars,
                   failures>>

(* The command is over, whatever it returned.                               *)
Return ==
    /\ cpc \in {"moved", "failed"}
    /\ cpc' = "idle"
    /\ UNCHANGED <<cmdVars, parVars, loopVars, dataVars, pcVars, histVars>>

-----------------------------------------------------------------------------
CmdStep ==
    \/ Dispatch \/ ReadSize \/ ReadOffset \/ ReadPath \/ Open \/ LoopEnd
    \/ LoopChunk \/ WriteSome \/ ReadSome \/ GiveUp \/ Advance \/ Close
    \/ GsOpen \/ GsRead \/ GsClose \/ GsSend \/ Return

Next == CmdStep \/ Land \/ Connect \/ Drop \/ UserOpen

Spec == Init /\ [][Next]_vars

(* cmdThread runs when it is ready, and every call of the file system       *)
(* returns (FileIO, CallsReturn).                                           *)
FairSpec == Spec /\ WF_vars(CmdStep)

-----------------------------------------------------------------------------
(* Properties.                                                              *)

Labels == Reading \cup {"idle", "open", "loop", "io", "advance", "close",
                        "moved", "failed"}
Packets == [op : {"none", "dump", "write", "regs", "gs"}, id : Ids,
            offset : Nat, size : Nat]
Memories == [0 .. MemSize - 1 -> Int]

(* Every variable has its type, and no count runs past the largest range a  *)
(* packet asks for.                                                         *)
TypeOK ==
    /\ mailbox \in Packets /\ woken \in BOOLEAN /\ npkt \in Ids
    /\ cpc \in Labels /\ want \in Packets
    /\ path \in Ids /\ offset \in Nat /\ size \in Nat
    /\ total \in Nat /\ \E s \in Sizes \cup {0, RegSet} : total <= s
    /\ len \in Nat /\ fd \in Fds \cup {-1, 0} /\ ret \in Int
    /\ dataBuffer \in [0 .. Chunk - 1 -> Int]
    /\ memory \in Memories /\ gif \in Seq(Int)
    /\ link \in 0 .. MaxLinks /\ nlinks \in 0 .. MaxLinks
    /\ table \in [Fds -> [file : 0 .. User, pos : Nat]]
    /\ files \in [Files -> Seq(Int)]
    /\ before \in [memory : Memories, files : [Files -> Seq(Int)]]
    /\ upset \subseteq Upsets /\ failures \in Nat

(* A round moves at least a byte, no more than dataBuffer holds and no more *)
(* than what is left of the range (the tests at the top of both loops).     *)
ChunkInside ==
    cpc \in {"io", "advance"} /\ want.op \in {"dump", "write"}
        => len \in 1 .. Chunk /\ total + len <= size

Span(o, n) == o .. o + n - 1

(* A command that moved everything, was not shorted, kept its connection    *)
(* and read one packet did what the packet says: a dump put that range of   *)
(* memory, or the registers, at the front of the file and changed nothing   *)
(* else, a write put the file there, and the GIF got as many of the file's  *)
(* bytes as make whole quadwords, even though the next packet landed        *)
(* meanwhile (ee/cmdHandler.c: "command to dump cmd->size bytes of memory   *)
(* from cmd->offset").                                                      *)
TransferExact ==
    cpc = "moved" /\ upset = {} =>
        LET o == want.offset
            n == want.size
            f == before.files[want.id]
        IN
        CASE want.op = "dump" ->
                /\ memory = before.memory
                /\ files = [before.files EXCEPT ![want.id] = Written(@, 0,
                               [k \in 0 .. n - 1 |-> memory[o + k]], n)]
          [] want.op = "regs" ->
                /\ memory = before.memory
                /\ files = [before.files EXCEPT ![want.id] =
                               Written(@, 0, Registers, n)]
          [] want.op = "write" ->
                /\ files = before.files
                /\ memory = [a \in DOMAIN memory |->
                               IF a \in Span(o, n) THEN f[a - o + 1]
                               ELSE before.memory[a]]
          [] want.op = "gs" ->
                /\ files = before.files /\ memory = before.memory
                /\ gif = SubSeq(f, 1, Quad * (n \div Quad))

(* Unless the connection is lost while it runs, a command changes no file   *)
(* but its own, the user program's least of all (net_fsys.c: own_fd is all  *)
(* that says which file of the PC a descriptor means).                      *)
OthersUntouched ==
    cpc # "idle" /\ "lost" \notin upset =>
        \A f \in Files : files[f] # before.files[f]
            => cpc \notin {"params", "offset", "path", "open"} /\ f = path

(* Between two commands the only descriptors of theirs still open are those *)
(* of commands that gave up half-way.                                       *)
LeakOnlyOnFailure ==
    cpc = "idle" =>
        Cardinality({n \in Fds : table[n].file \in 1 .. MaxCmds}) <= failures

(* Short or not, a write changes no byte outside the range its packet says. *)
OutsideUntouched ==
    [][\A a \in DOMAIN memory :
         memory'[a] # memory[a] /\ "mixed" \notin upset
            => a \in Span(want.offset, want.size)]_vars

(* A command comes to an end, however its calls turn out.                   *)
CommandEnds == cpc # "idle" ~> cpc = "idle"
=============================================================================
