------------------------------ MODULE Packets -------------------------------
(***************************************************************************)
(* What the code does to the texts and packets it is given: getIpConfig of  *)
(* ee/ps2link.c, makeArgs of ee/cmdHandler.c, the arguments of pkoExecIop   *)
(* and pkoSendSifCmd of iop/cmdHandler.c, ExceptionGetModuleName and        *)
(* pko_copy_exception_name of the IOP's exception handler.                  *)
(*                                                                         *)
(* The machine takes one job, does it, and stops; what it has done is       *)
(* compared with a definition that says what was meant.  A text is a        *)
(* sequence of characters, and an index into it counts from 1; sizes of     *)
(* buffers are constants, so that every text that fits can be tried.        *)
(***************************************************************************)
EXTENDS Integers, Sequences, FiniteSets, FiniteSetsExt, SequencesExt

CONSTANTS
    ConfLen, Field,     \* IPCONF_MAX_LEN and what strncpy copies of it
    PathLen, MaxArgs,   \* PKO_MAX_PATH and MAX_ARGS
    NameBytes,          \* PKO_IOP_EXCEPTION_NAME_BYTES
    Chars,              \* what a text is made of
    Texts,              \* contents of IPCONFIG.DAT
    Word,               \* how many values an unsigned int has
    Argvs, Argcs,       \* an execee or execiop packet
    ModuleLists, Epcs,  \* the IOP's modules, where it failed
    Names,              \* module names as they lie in memory
    SendLists           \* packets sent one after the other

ASSUME PacketsAssumption ==
    /\ Field \in Nat \ {0} /\ ConfLen \in Nat
    /\ 3 * (Field + 1) <= ConfLen
    /\ PathLen \in Nat \ {0} /\ MaxArgs \in Nat \ {0}
    /\ Word \in Nat \ {0} /\ NameBytes \in Nat \ {0}
    /\ \A t \in Texts \cup Names : t \in Seq(Chars)
    /\ Argvs \subseteq [1 .. PathLen -> Chars] /\ Argcs \subseteq Int
    /\ \A l \in ModuleLists : l \in Seq([start : Nat, size : Nat])
    /\ Epcs \subseteq Nat

VARIABLES job, done

vars == <<job, done>>

NUL == "0"
Space == " "
ASSUME CharsAssumption == NUL \in Chars /\ Space \in Chars

Nothing == [kind |-> "nothing"]

Zeros(n) == [k \in 1 .. n |-> NUL]

(* strlen of the text that starts at i; what lies behind the buffer is      *)
(* taken to be empty texts.                                                 *)
StrLen(s, i) ==
    LET ends == {k \in i .. Len(s) : s[k] = NUL} \cup {Len(s) + 1}
    IN  IF i > Len(s) THEN 0 ELSE Min(ends) - i

-----------------------------------------------------------------------------
(* getIpConfig: the file, cut into texts at its spaces, three of them       *)
(* copied one behind the other.                                             *)

(* strncpy(&conf[i], &buf[i], Field)                                        *)
CopyField(conf, buf, i) ==
    [k \in DOMAIN conf |->
        IF k < i \/ k >= i + Field THEN conf[k]
        ELSE IF k < i + StrLen(buf, i) THEN buf[k] ELSE NUL]

(* Fault: the index moves to the terminator, not past it.                   *)
NextField_Off(acc, buf) ==
    LET conf == CopyField(acc.conf, buf, acc.i)
    IN  [conf |-> conf, i |-> acc.i + StrLen(conf, acc.i)]

NextField(acc, buf) ==
    LET conf == CopyField(acc.conf, buf, acc.i)
    IN  [conf |-> conf, i |-> acc.i + StrLen(conf, acc.i) + 1]

GetIpConfig(file) ==
    LET buf == [k \in 1 .. ConfLen |->
                  IF k <= Len(file) /\ k < ConfLen THEN file[k] ELSE NUL]
        cut == [k \in 1 .. ConfLen |->
                  IF k <= StrLen(buf, 1) /\ buf[k] = Space THEN NUL
                  ELSE buf[k]]
        one == NextField([conf |-> Zeros(ConfLen), i |-> 1], cut)
        all == NextField(NextField(one, cut), cut)
    IN  [if_conf |-> all.conf, if_conf_len |-> all.i - 1]

-----------------------------------------------------------------------------
(* makeArgs: where the arguments of a user program start in its packet.     *)

(* Fault: the end of the packet does not end the arguments.                 *)
MoreArgs_Count(n, t, argc) == n < argc

MoreArgs(n, t, argc) == n < argc /\ t <= PathLen

MakeArgs(argc, argv) ==
    LET count == IF argc > MaxArgs THEN MaxArgs ELSE argc
        payload == [argv EXCEPT ![PathLen] = NUL]
        args[i \in 1 .. PathLen + MaxArgs] ==
            IF i = 1 THEN 1
            ELSE args[i - 1] + StrLen(payload, args[i - 1]) + 1
        last == CHOOSE n \in DOMAIN args :
                   /\ ~MoreArgs(n, args[n + 1], count)
                   /\ \A m \in 1 .. n - 1 : MoreArgs(m, args[m + 1], count)
    IN  [argc |-> last, argv |-> [i \in 1 .. last |-> args[i]]]

(* Fault: the path is counted as one of its arguments.                      *)
IopArgCount_All(argc) == argc % Word

(* argc - 1, unsigned.                                                      *)
IopArgCount(argc) == (argc - 1) % Word

(* pkoExecIop: where the module's arguments start, behind its path, and how *)
(* many bytes they are.                                                     *)
IopArgs(argc, argv) ==
    LET text == [argv EXCEPT ![PathLen] = NUL]
        first == StrLen(text, 1) + 2
        len[i \in 0 .. Word] ==
            IF i = 0 THEN 0
            ELSE len[i - 1] + StrLen(text, first + len[i - 1]) + 1
    IN  [args |-> first, arglen |-> len[IopArgCount(argc)]]

-----------------------------------------------------------------------------
(* excep_handler2: the first module of the IOP's list whose text holds the  *)
(* address, its end included.                                               *)

(* Fault: the first instruction of a module is not its own.                 *)
Holds_After(m, epc) == epc > m.start /\ epc <= m.start + m.size

Holds(m, epc) == epc >= m.start /\ epc <= m.start + m.size

FindModule(mods, epc) ==
    LET found == {k \in DOMAIN mods : Holds(mods[k], epc)}
    IN  IF found = {} THEN [module |-> 0, r_epc |-> epc]
        ELSE [module |-> Min(found), r_epc |-> epc - mods[Min(found)].start]

(* Fault: a name as long as the field leaves no room for its end.           *)
NameLimit_All(limit) == IF limit > NameBytes THEN NameBytes ELSE limit

NameLimit(limit) == IF limit >= NameBytes THEN NameBytes - 1 ELSE limit

(* pko_copy_exception_name, into a packet full of something else.           *)
CopyName(src, limit) ==
    LET n == Min({NameLimit(limit), StrLen(src, 1)})
    IN  [length |-> n,
         name |-> [k \in 1 .. Max({NameBytes, n + 1}) |->
                     IF k <= n THEN src[k]
                     ELSE IF k = n + 1 THEN NUL ELSE "?"]]

-----------------------------------------------------------------------------
(* pkoSendSifCmd, with the packets of hostlink.h.  Lengths are those of the *)
(* code, in pairs of bytes; a pair is the number of the packet it is of.    *)

BufPairs == 512
Align    == 8

(* Size of a packet, where its name starts and what that has room for.      *)
Shape == [reset  |-> [size |-> 3,   name |-> 3,  room |-> 0],
          vu     |-> [size |-> 5,   name |-> 5,  room |-> 0],
          gsexec |-> [size |-> 132, name |-> 4,  room |-> 128],
          execee |-> [size |-> 133, name |-> 5,  room |-> 128],
          regs   |-> [size |-> 133, name |-> 5,  room |-> 128],
          memio  |-> [size |-> 135, name |-> 7,  room |-> 128],
          excep  |-> [size |-> 148, name |-> 84, room |-> 64]]

(* A datagram is forwarded at the length it came with, shorter or longer    *)
(* than its packet; a reset's length is looked at, and an exception's is    *)
(* the IOP's own.                                                           *)
Sendable == [kind : DOMAIN Shape, size : 3 .. BufPairs, length : Nat]

(* At least one packet is sent, and no name is longer than its field.       *)
ASSUME SendListsAssumption ==
    \A l \in SendLists :
        /\ l \in Seq(Sendable) /\ l # <<>>
        /\ \A m \in DOMAIN l :
              /\ l[m].length <= Shape[l[m].kind].room
              /\ l[m].kind \in {"reset", "excep"}
                   => l[m].size = Shape[l[m].kind].size

(* Fault: rounded down.                                                     *)
DmaLen_Down(len) == (len \div Align) * Align

DmaLen(len) == ((len + Align - 1) \div Align) * Align

(* One packet: a word for the command, the packet behind it, and a transfer *)
(* as long as the packet, rounded up.  What memcpy writes behind rpc_data,  *)
(* 4 bytes when the datagram fills recvbuf, is not of this buffer.          *)
SendSifCmd(acc, p) ==
    LET n == acc.n + 1
        len == Min({p.size, BufPairs})
        data == [k \in 0 .. BufPairs - 1 |->
                   IF k < len + 2 THEN n ELSE acc.data[k]]
    IN  [n |-> n, data |-> data,
         mailbox |-> [k \in 0 .. BufPairs - 1 |->
                        IF k < DmaLen(len) THEN data[k] ELSE acc.mailbox[k]]]

SendAll(list) ==
    LET sent[m \in 0 .. Len(list)] ==
            IF m = 0 THEN [n |-> 0, data |-> [k \in 0 .. BufPairs - 1 |-> 0],
                           mailbox |-> [k \in 0 .. BufPairs - 1 |-> 0]]
            ELSE SendSifCmd(sent[m - 1], list[m])
    IN  sent[Len(list)]

-----------------------------------------------------------------------------
(* One job.                                                                 *)

Init == job = Nothing /\ done = Nothing

Configure ==
    \E file \in Texts :
        /\ job' = [kind |-> "config", file |-> file]
        /\ done' = GetIpConfig(file)

ExecEE ==
    \E argc \in Argcs, argv \in Argvs :
        /\ job' = [kind |-> "execee", argc |-> argc, argv |-> argv]
        /\ done' = MakeArgs(argc, argv)

ExecIop ==
    \E argc \in Argcs \cap 0 .. Word - 1, argv \in Argvs :
        /\ job' = [kind |-> "execiop", argc |-> argc, argv |-> argv]
        /\ done' = IopArgs(argc, argv)

Locate ==
    \E mods \in ModuleLists, epc \in Epcs :
        /\ job' = [kind |-> "locate", mods |-> mods, epc |-> epc]
        /\ done' = FindModule(mods, epc)

NameModule ==
    \E src \in Names, limit \in 0 .. 2 * NameBytes :
        /\ job' = [kind |-> "name", src |-> src, limit |-> limit]
        /\ done' = CopyName(src, limit)

SendPackets ==
    \E list \in SendLists :
        /\ job' = [kind |-> "send", list |-> list]
        /\ done' = SendAll(list).mailbox

Next ==
    /\ job = Nothing
    /\ \/ Configure \/ ExecEE \/ ExecIop \/ Locate \/ NameModule
       \/ SendPackets

Spec == Init /\ [][Next]_vars

-----------------------------------------------------------------------------
(* What was meant.                                                          *)

Repeat(c, n) == [k \in 1 .. n |-> c]

(* A file of three fields "seperated by a single space" (README.md:57),     *)
(* each no longer than an address, is kept as three texts one behind the    *)
(* other; whatever the file says, they fit the buffer.                      *)
ConfigParsed ==
    job.kind = "config" =>
        /\ done.if_conf_len <= 3 * (Field + 1)
        /\ \A a, b, c \in 1 .. Field, n \in 0 .. 2 :
             job.file = Repeat("a", a) \o <<Space>> \o Repeat("a", b)
                          \o <<Space>> \o Repeat("a", c) \o Repeat(Space, n)
             => /\ done.if_conf_len = a + b + c + 3
                /\ SubSeq(done.if_conf, 1, done.if_conf_len) =
                     Repeat("a", a) \o <<NUL>> \o Repeat("a", b) \o <<NUL>>
                       \o Repeat("a", c) \o <<NUL>>

(* Where the texts of a packet start, and the n-th of them.                 *)
Starts(argv) ==
    {1} \cup {k + 1 : k \in {j \in 1 .. PathLen - 1 : argv[j] = NUL}}

Nth(starts, n) ==
    CHOOSE s \in starts : Cardinality({t \in starts : t < s}) = n - 1

(* A program gets as many of the packet's texts as it asks for, at least    *)
(* one, at most MAX_ARGS, and none from behind the packet.                  *)
ArgsSplit ==
    job.kind = "execee" =>
        LET starts == Starts(job.argv)
            n == Min({Max({job.argc, 1}), MaxArgs, Cardinality(starts)})
        IN  done = [argc |-> n, argv |-> [i \in 1 .. n |-> Nth(starts, i)]]

(* A module gets the bytes of the texts behind its path, when the packet    *)
(* has as many as it says.                                                  *)
IopArgsSplit ==
    job.kind = "execiop" =>
        LET starts == Starts(job.argv)
            n == Cardinality(starts)
        IN  job.argc \in 2 .. n =>
              /\ done.args = Nth(starts, 2)
              /\ done.args + done.arglen =
                   IF job.argc < n THEN Nth(starts, job.argc + 1)
                   ELSE PathLen + 1

Inside(m, epc) == epc \in m.start .. m.start + m.size - 1

(* An address inside a module is reported with it, unless it is just behind *)
(* another one; only an address in no module is reported without.           *)
ModuleFound ==
    job.kind = "locate" =>
        LET in == {k \in DOMAIN job.mods : Inside(job.mods[k], job.epc)}
            behind == {k \in DOMAIN job.mods :
                         job.epc = job.mods[k].start + job.mods[k].size}
        IN
        /\ done.module = 0 => in = {} /\ done.r_epc = job.epc
        /\ done.module # 0 =>
             job.epc = job.mods[done.module].start + done.r_epc
        /\ in # {} /\ behind = {} => done.module = Min(in)

(* A name ends inside its field, and is the module's as far as it fits      *)
(* (tests/exception_packet.c).                                              *)
NameEnds ==
    job.kind = "name" =>
        /\ Len(done.name) = NameBytes
        /\ done.name[done.length + 1] = NUL
        /\ SubSeq(done.name, 1, done.length) = SubSeq(job.src, 1, done.length)
        /\ done.length = Min({job.limit, NameBytes - 1, StrLen(job.src, 1)})

(* The name in a packet reaches the EE whole, whatever was sent before and  *)
(* whatever lies behind a short packet.  The last two pairs are not always  *)
(* transferred: the path of a dump or a write of memory must be two bytes   *)
(* shorter than its field, and a datagram that is not as long as its packet *)
(* must go on for two pairs behind the name.                                *)
NameArrives ==
    job.kind = "send" =>
        LET p == Last(job.list)
            s == Shape[p.kind]
            end == s.name + p.length
        IN  (IF p.size = s.size THEN ~(p.kind = "memio" /\ p.length = s.room)
                                ELSE end + 2 <= p.size)
            => \A k \in 0 .. end + 1 : done[k] = Len(job.list)
=============================================================================
