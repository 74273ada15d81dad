------------------------------- MODULE SifCmd -------------------------------
(***************************************************************************)
(* The command channel from the IOP to the EE and the threads it controls:  *)
(* pkoSendSifCmd of iop/cmdHandler.c fills one static buffer and queues a   *)
(* DMA transfer of it; the transfer lands in a fixed EE mailbox and raises  *)
(* an interrupt; pkoCmdIntrHandler of ee/cmdHandler.c wakes cmdThread,      *)
(* which reads the mailbox and runs the command: it starts the user         *)
(* program, stops it on a reset or an IOP exception, or does some work of   *)
(* its own.                                                                 *)
(*                                                                         *)
(* There is one buffer and one mailbox, and no acknowledgement: commands    *)
(* may overwrite each other on either side.  A packet is abstracted to its  *)
(* command and a number (id) that stands for the rest of its contents.      *)
(***************************************************************************)
EXTENDS Integers

CONSTANTS
    Senders,     \* IOP threads that send: the command listener, power-off
    QueueLen,    \* depth of the SIF DMA queue
    Faults,      \* may IOP exceptions occur?
    StartFails,  \* may StartThread refuse the user thread?
    MaxSends,    \* bound: packets sent
    MaxOther,    \* bound: other SIF0 transfers
    MaxProgs     \* bound: user programs loaded

ASSUME SifAssumption ==
    /\ QueueLen \in Nat \ {0} /\ MaxSends \in Nat
    /\ MaxOther \in Nat /\ MaxProgs \in Nat
    /\ Faults \in BOOLEAN /\ StartFails \in BOOLEAN

VARIABLES
    rpc_data,      \* IOP: the buffer every command is built in
    spc,           \* IOP: where each sender is
    dmaPending,    \* transfers queued; their source is rpc_data
    sifOn,         \* the EE end of SIF0 accepts a transfer
    mailbox,       \* EE: the words at sifDmaDataPtr
    intr,          \* EE: a SIF0 interrupt is pending
    ipc, flag,     \* EE: the interrupt handler and its local
    wakeups,       \* EE: wake-ups counted for cmdThread
    cpc,           \* EE: where cmdThread is
    cmdThreadID,   \* EE: the thread the interrupt handler wakes
    userThreadID,  \* EE: 0, or the user program's thread
    newPid,        \* EE: pid in pkoExecEE
    user,          \* EE: state of each user thread
    nsent, nother, nprog,   \* what has been sent and loaded so far
    executed,      \* history: packets cmdThread has run
    again,         \* history: packets it has run more than once
    crowded        \* history: packets that landed on one still to be run,
                   \* or landed twice

iopVars  == <<rpc_data, spc, nsent>>
sifVars  == <<dmaPending, sifOn, nother, crowded>>
intrVars == <<intr, ipc, flag>>
cmdVars  == <<cpc, cmdThreadID, newPid, executed, again, nprog>>
userVars == <<userThreadID, user>>
vars == <<iopVars, sifVars, mailbox, intrVars, wakeups, cmdVars, userVars>>

Cmd     == 1                       \* cmdThread's own thread id
Pids    == 1 .. MaxProgs
SendOps == {"reset", "execee", "other"}
Ops     == SendOps \cup {"iopexcep", "none"}
Ids     == 0 .. MaxSends
Alive   == {"running", "crashed"}

Packet(op, id) == [op |-> op, id |-> id]
Box(set, op, id) == [set |-> set, op |-> op, id |-> id]

Init ==
    /\ rpc_data = Packet("none", 0) /\ spc = [s \in Senders |-> "idle"]
    /\ dmaPending = 0 /\ sifOn = TRUE
    /\ mailbox = Box(FALSE, "none", 0)
    /\ intr = FALSE /\ ipc = "idle" /\ flag = FALSE
    /\ wakeups = 0 /\ cpc = "asleep" /\ cmdThreadID = Cmd
    /\ userThreadID = 0 /\ newPid = 0
    /\ user = [p \in Pids |-> "none"]
    /\ nsent = 0 /\ nother = 0 /\ nprog = 0
    /\ executed = {} /\ again = {} /\ crowded = {}

-----------------------------------------------------------------------------
(* IOP: pkoSendSifCmd.                                                      *)

Fill(s, op) ==
    /\ spc[s] = "idle" /\ nsent < MaxSends
    /\ nsent' = nsent + 1
    /\ rpc_data' = Packet(op, nsent + 1)
    /\ spc' = [spc EXCEPT ![s] = "filled"]
    /\ UNCHANGED <<sifVars, mailbox, intrVars, wakeups, cmdVars, userVars>>

(* Fault: the queue's limit is ignored.                                     *)
Enqueue_NoLimit == dmaPending' = dmaPending + 1

(* sceSifSetDma refuses when its queue is full; nobody looks at the result. *)
Enqueue == dmaPending' = IF dmaPending < QueueLen THEN dmaPending + 1
                         ELSE dmaPending

Queue(s) ==
    /\ spc[s] = "filled"
    /\ spc' = [spc EXCEPT ![s] = "idle"]
    /\ Enqueue
    /\ UNCHANGED <<rpc_data, nsent, sifOn, nother, crowded, mailbox,
                   intrVars, wakeups, cmdVars, userVars>>

(* An IOP exception: its handler sends in exception context, between any    *)
(* two steps of a thread that is sending.                                   *)
IopException ==
    /\ Faults /\ nsent < MaxSends
    /\ nsent' = nsent + 1
    /\ rpc_data' = Packet("iopexcep", nsent + 1)
    /\ Enqueue
    /\ UNCHANGED <<spc, sifOn, nother, crowded, mailbox, intrVars, wakeups,
                   cmdVars, userVars>>

-----------------------------------------------------------------------------
(* The SIF, external.  A transfer carries what rpc_data holds by then.      *)

(* A packet has landed that the interrupt handler has not seen, is looking  *)
(* at, or has woken cmdThread for, which has not read it yet.               *)
StillToRun ==
    \/ mailbox.set
    \/ ipc # "idle" /\ flag
    \/ wakeups > 0
    \/ cpc = "awake"

Transfer ==
    /\ dmaPending > 0 /\ sifOn
    /\ dmaPending' = dmaPending - 1
    /\ sifOn' = FALSE /\ intr' = TRUE
    /\ mailbox' = Box(TRUE, rpc_data.op, rpc_data.id)
    /\ crowded' = IF StillToRun \/ mailbox.id = rpc_data.id
                  THEN crowded \cup {rpc_data.id} ELSE crowded
    /\ UNCHANGED <<iopVars, nother, ipc, flag, wakeups, cmdVars, userVars>>

(* Remote procedure calls and the like: the same interrupt, no packet.      *)
OtherTransfer ==
    /\ nother < MaxOther /\ sifOn
    /\ nother' = nother + 1
    /\ sifOn' = FALSE /\ intr' = TRUE
    /\ UNCHANGED <<iopVars, dmaPending, crowded, mailbox, ipc, flag,
                   wakeups, cmdVars, userVars>>

-----------------------------------------------------------------------------
(* EE: pkoCmdIntrHandler.  cmdThread does not run while it does; the SIF    *)
(* may transfer again once iSifSetDChain has let it.                        *)

IntrRead ==
    /\ ipc = "idle" /\ intr /\ cpc # "done"
    /\ intr' = FALSE
    /\ flag' = mailbox.set
    /\ ipc' = "chain"
    /\ UNCHANGED <<iopVars, sifVars, mailbox, wakeups, cmdVars, userVars>>

IntrChain ==
    /\ ipc = "chain"
    /\ sifOn' = TRUE
    /\ ipc' = "wake"
    /\ UNCHANGED <<iopVars, dmaPending, nother, crowded, mailbox, intr, flag,
                   wakeups, cmdVars, userVars>>

(* Fault: the new-packet flag is left set.                                  *)
IntrWake_NoClear ==
    /\ ipc = "wake"
    /\ ipc' = "idle"
    /\ wakeups' = IF flag /\ cmdThreadID = Cmd THEN wakeups + 1 ELSE wakeups
    /\ UNCHANGED <<iopVars, sifVars, mailbox, intr, flag, cmdVars, userVars>>

(* Fault: a wake-up for a thread that is busy is not counted.               *)
IntrWake_Uncounted ==
    /\ ipc = "wake"
    /\ ipc' = "idle"
    /\ mailbox' = IF flag THEN [mailbox EXCEPT !.set = FALSE] ELSE mailbox
    /\ wakeups' = IF flag /\ cmdThreadID = Cmd /\ cpc = "asleep"
                  THEN 1 ELSE wakeups
    /\ UNCHANGED <<iopVars, sifVars, intr, flag, cmdVars, userVars>>

IntrWake ==
    /\ ipc = "wake"
    /\ ipc' = "idle"
    /\ mailbox' = IF flag THEN [mailbox EXCEPT !.set = FALSE] ELSE mailbox
    /\ wakeups' = IF flag /\ cmdThreadID = Cmd THEN wakeups + 1 ELSE wakeups
    /\ UNCHANGED <<iopVars, sifVars, intr, flag, cmdVars, userVars>>

-----------------------------------------------------------------------------
(* EE: cmdThread.                                                           *)

ThreadsRun == ipc = "idle"

(* SleepThread returns when a wake-up has been counted.                     *)
Resume ==
    /\ ThreadsRun /\ cpc = "asleep" /\ wakeups > 0
    /\ wakeups' = wakeups - 1
    /\ cpc' = "awake"
    /\ UNCHANGED <<iopVars, sifVars, mailbox, intrVars, cmdThreadID, newPid,
                   executed, again, nprog, userVars>>

(* The command is whatever the mailbox holds now.                           *)
Dispatch ==
    /\ ThreadsRun /\ cpc = "awake"
    /\ cpc' = mailbox.op
    /\ executed' = executed \cup {mailbox.id}
    /\ again' = again \cup (executed \cap {mailbox.id})
    /\ UNCHANGED <<iopVars, sifVars, mailbox, intrVars, wakeups, cmdThreadID,
                   newPid, nprog, userVars>>

(* Commands that leave threads and channel alone.                           *)
RunOther ==
    /\ ThreadsRun /\ cpc \in {"other", "none"}
    /\ cpc' = "asleep"
    /\ UNCHANGED <<iopVars, sifVars, mailbox, intrVars, wakeups, cmdThreadID,
                   newPid, executed, again, nprog, userVars>>

(* pkoExecEE: refused while userThreadID is set, or the program is loaded.  *)
ExecRefuse ==
    /\ ThreadsRun /\ cpc = "execee" /\ userThreadID # 0
    /\ cpc' = "asleep"
    /\ UNCHANGED <<iopVars, sifVars, mailbox, intrVars, wakeups, cmdThreadID,
                   newPid, executed, again, nprog, userVars>>

LoadFails ==
    /\ ThreadsRun /\ cpc = "execee" /\ userThreadID = 0
    /\ cpc' = "asleep"
    /\ UNCHANGED <<iopVars, sifVars, mailbox, intrVars, wakeups, cmdThreadID,
                   newPid, executed, again, nprog, userVars>>

(* Fault: the check for a program that is still there is dropped.           *)
ExecLoad_NoCheck ==
    /\ ThreadsRun /\ cpc = "execee" /\ nprog < MaxProgs
    /\ nprog' = nprog + 1
    /\ newPid' = nprog + 1
    /\ user' = [user EXCEPT ![nprog + 1] = "ready"]
    /\ cpc' = "loaded"
    /\ UNCHANGED <<iopVars, sifVars, mailbox, intrVars, wakeups, cmdThreadID,
                   executed, again, userThreadID>>

ExecLoad ==
    /\ ThreadsRun /\ cpc = "execee" /\ userThreadID = 0 /\ nprog < MaxProgs
    /\ nprog' = nprog + 1
    /\ newPid' = nprog + 1
    /\ user' = [user EXCEPT ![nprog + 1] = "ready"]
    /\ cpc' = "loaded"
    /\ UNCHANGED <<iopVars, sifVars, mailbox, intrVars, wakeups, cmdThreadID,
                   executed, again, userThreadID>>

ExecAssign ==
    /\ ThreadsRun /\ cpc = "loaded"
    /\ userThreadID' = newPid
    /\ cpc' = "start"
    /\ UNCHANGED <<iopVars, sifVars, mailbox, intrVars, wakeups, cmdThreadID,
                   newPid, executed, again, nprog, user>>

ExecStart ==
    /\ ThreadsRun /\ cpc = "start"
    /\ user' = [user EXCEPT ![userThreadID] = "running"]
    /\ cpc' = "asleep"
    /\ UNCHANGED <<iopVars, sifVars, mailbox, intrVars, wakeups, cmdThreadID,
                   newPid, executed, again, nprog, userThreadID>>

(* The failure path clears cmdThreadID and leaves userThreadID.             *)
ExecStartFail ==
    /\ StartFails /\ ThreadsRun /\ cpc = "start"
    /\ cmdThreadID' = 0
    /\ user' = [user EXCEPT ![userThreadID] = "dead"]
    /\ cpc' = "asleep"
    /\ UNCHANGED <<iopVars, sifVars, mailbox, intrVars, wakeups, newPid,
                   executed, again, nprog, userThreadID>>

(* TerminateThread and DeleteThread of the thread userThreadID names.       *)
KillUser ==
    user' = IF userThreadID = 0 THEN user
            ELSE [user EXCEPT ![userThreadID] = "dead"]

(* iopException ends in a SleepThread of its own.                           *)
RunIopException ==
    /\ ThreadsRun /\ cpc = "iopexcep"
    /\ KillUser
    /\ cpc' = "excepasleep"
    /\ UNCHANGED <<iopVars, sifVars, mailbox, intrVars, wakeups, cmdThreadID,
                   newPid, executed, again, nprog, userThreadID>>

ExceptionResume ==
    /\ ThreadsRun /\ cpc = "excepasleep" /\ wakeups > 0
    /\ wakeups' = wakeups - 1
    /\ cpc' = "asleep"
    /\ UNCHANGED <<iopVars, sifVars, mailbox, intrVars, cmdThreadID, newPid,
                   executed, again, nprog, userVars>>

(* pkoReset, up to the point where the machine starts again: the interrupt  *)
(* handler is removed, and cmdThread takes no further command.              *)
RunReset ==
    /\ ThreadsRun /\ cpc = "reset"
    /\ KillUser
    /\ userThreadID' = 0
    /\ cpc' = "done"
    /\ UNCHANGED <<iopVars, sifVars, mailbox, intrVars, wakeups, cmdThreadID,
                   newPid, executed, again, nprog>>

-----------------------------------------------------------------------------
(* EE: the user program, external.  It may raise an exception: pkoDebug     *)
(* then sleeps on its thread, which it cannot terminate, being on it.  Its  *)
(* start-up code clears userThreadID through userArgs.pid when it exits.    *)

UserCrash(p) ==
    /\ ThreadsRun /\ user[p] = "running"
    /\ user' = [user EXCEPT ![p] = "crashed"]
    /\ UNCHANGED <<iopVars, sifVars, mailbox, intrVars, wakeups, cmdVars,
                   userThreadID>>

UserExit(p) ==
    /\ ThreadsRun /\ user[p] = "running"
    /\ userThreadID' = 0
    /\ user' = [user EXCEPT ![p] = "dead"]
    /\ UNCHANGED <<iopVars, sifVars, mailbox, intrVars, wakeups, cmdVars>>

-----------------------------------------------------------------------------
InterruptStep == IntrRead \/ IntrChain \/ IntrWake

CmdStep ==
    \/ Resume \/ Dispatch \/ RunOther
    \/ ExecRefuse \/ LoadFails \/ ExecLoad \/ ExecAssign
    \/ ExecStart \/ ExecStartFail
    \/ RunIopException \/ ExceptionResume \/ RunReset

Next ==
    \/ \E s \in Senders : Queue(s) \/ \E op \in SendOps : Fill(s, op)
    \/ IopException \/ Transfer \/ OtherTransfer
    \/ InterruptStep \/ CmdStep
    \/ \E p \in Pids : UserCrash(p) \/ UserExit(p)

Spec == Init /\ [][Next]_vars

(* Interrupts are taken, the SIF carries what is queued when it may, and    *)
(* cmdThread, whose priority is above the user program's, runs when ready.  *)
FairSpec ==
    Spec /\ WF_vars(Transfer) /\ WF_vars(InterruptStep) /\ WF_vars(CmdStep)

-----------------------------------------------------------------------------
(* Properties.                                                              *)

(* Every variable has its type.                                             *)
TypeOK ==
    /\ rpc_data \in [op : Ops, id : Ids]
    /\ spc \in [Senders -> {"idle", "filled"}]
    /\ dmaPending \in 0 .. QueueLen /\ sifOn \in BOOLEAN
    /\ mailbox \in [set : BOOLEAN, op : Ops, id : Ids]
    /\ intr \in BOOLEAN /\ flag \in BOOLEAN
    /\ ipc \in {"idle", "chain", "wake"}
    /\ wakeups \in Nat /\ cmdThreadID \in {0, Cmd}
    /\ cpc \in Ops \cup {"asleep", "awake", "loaded", "start",
                         "excepasleep", "done"}
    /\ userThreadID \in 0 .. MaxProgs /\ newPid \in 0 .. MaxProgs
    /\ user \in [Pids -> Alive \cup {"none", "ready", "dead"}]
    /\ nsent \in Ids /\ nother \in 0 .. MaxOther /\ nprog \in 0 .. MaxProgs
    /\ executed \subseteq Ids /\ again \subseteq Ids /\ crowded \subseteq Ids

(* A user program that still has its thread is the one userThreadID names,  *)
(* so a reset stops it and no second one is started beside it               *)
(* (ee/cmdHandler.c: "Check if user thread is running, if so kill it").     *)
ProgramTracked == \A p \in Pids : user[p] \in Alive => userThreadID = p

(* No packet is run twice, though every SIF0 transfer raises the interrupt  *)
(* and the packet stays in the mailbox (the new-packet flag of              *)
(* pkoCmdIntrHandler).  The exceptions are what the code cannot tell apart: *)
(* a packet that lands on one still to be run has two wake-ups, and one     *)
(* whose buffer was refilled before a queued transfer read it lands twice.  *)
RunOnce == again \subseteq crowded

(* A packet that reaches the mailbox is run, unless another one overwrites  *)
(* it there or the machine is reset (ee/cmdHandler.c: the handler "wakes up *)
(* the cmd handler thread if data was sent to our dma area").               *)
LatestServed ==
    \A i \in 1 .. MaxSends :
        mailbox.id = i ~> i \in executed \/ mailbox.id # i \/ cpc = "done"

(* The same with exceptions and start failures: what excuses the command    *)
(* thread from a packet that has landed is that it sleeps in iopException   *)
(* or that its id was cleared.                                              *)
ServedUnlessDeaf ==
    \A i \in 1 .. MaxSends :
        mailbox.set /\ mailbox.id = i
            ~> \/ i \in executed \/ mailbox.id # i
               \/ cpc \in {"done", "excepasleep"} \/ cmdThreadID = 0
=============================================================================
