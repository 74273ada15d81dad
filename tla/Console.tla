------------------------------ MODULE Console -------------------------------
(***************************************************************************)
(* The machine as a whole from power-on to restart: main, loadModules and   *)
(* restartIOP of ee/ps2link.c, initCmdRpc, cmdThread and pkoReset of        *)
(* ee/cmdHandler.c, _start of iop/ps2link.c, and the command listener and   *)
(* the power button of iop/cmdHandler.c.  What FileIO, SifCmd and MemCmd    *)
(* say in detail is abstract here: a call of host: holds fsys_sema until it *)
(* ends, a command packet may be lost, a command takes a while.  How        *)
(* cmdThread goes deaf is here too: in iopException's sleep, for one        *)
(* command, and for good when a program's thread was refused.               *)
(*                                                                         *)
(* A restart is not a power-on: ExecPS2 runs the same image again with .bss *)
(* cleared, .data as it was left, and the mailbox and the IOP untouched.    *)
(***************************************************************************)
EXTENDS Integers, Sequences

CONSTANTS
    Modules,     \* what loadModules loads, in its order
    MaxFails,    \* bound: modules and threads that fail, IOP exceptions
    MaxPackets,  \* bound: packets of the PC
    MaxPresses   \* bound: presses of the power button

ASSUME ConsoleAssumption ==
    /\ Len(Modules) \in Nat
    /\ \E k \in 1 .. Len(Modules) : Modules[k] = "ps2link"
    /\ MaxFails \in Nat /\ MaxPackets \in Nat /\ MaxPresses \in Nat

VARIABLES
    epc,         \* EE: where main, and after it cmdThread, is
    config,      \* EE: if_conf and if_conf_len hold a configuration (.data)
    scrEE,       \* EE: excepscrdump (.data)
    next,        \* EE: loadModules' progress
    dmac,        \* EE: the SIF0 handler is installed and enabled
    mailbox,     \* EE: the words at sifDmaDataPtr
    cmdThreadID, \* EE: the handler knows whom to wake
    woken,       \* EE: wake-ups counted for cmdThread
    sync,        \* IOP: it has booted (SifIopSync)
    loaded,      \* IOP: the modules in it
    start,       \* IOP: progress of ps2link.irx's _start
    mounted,     \* IOP: host: is there
    holder,      \* IOP: who holds fsys_sema
    listener, power,  \* IOP: where cmdListener and cmdPowerOff are
    scrIOP,      \* IOP: excepscrdump
    wire,        \* a packet in the SIF DMA queue
    boots,       \* history: how often the EE has been restarted
    broken,      \* history: what failed since the IOP booted
    lost,        \* history: commands whose packets were lost since then
    missed,      \* history: commands that arrived since then and were not run
    asked,       \* history: a reset was accepted since then
    moded,       \* history: a dump mode was chosen since then
    nfails, npackets, npresses

eeVars   == <<epc, config, scrEE, next, dmac, cmdThreadID>>
boxVars  == <<mailbox, woken>>
irxVars  == <<loaded, start>>
hostVars == <<mounted, holder>>
cmdVars  == <<listener, power, scrIOP>>
sinceVars == <<broken, lost, missed, asked, moded>>
countVars == <<nfails, npackets, npresses>>
vars == <<eeVars, boxVars, sync, irxVars, hostVars, cmdVars, wire, boots,
          sinceVars, countVars>>

Ops    == {"reset", "scrdump", "netdump", "iopexcep", "other"}
Packet(op) == [op |-> op, boot |-> boots]
NoPacket   == [op |-> "none", boot |-> 0]
Box(set, p) == [set |-> set, packet |-> p]

(* ps2link.irx imports from these three.                                    *)
Needs == {"poweroff", "ps2ip", "ioptrap"}

(* The IOP right after a reset, whatever it was doing.                      *)
IopCleared ==
    /\ loaded' = {} /\ start' = "none"
    /\ mounted' = FALSE /\ holder' = "nobody"
    /\ listener' = "none" /\ power' = "none" /\ scrIOP' = TRUE
    /\ wire' = NoPacket
    /\ broken' = {} /\ lost' = {} /\ missed' = {}
    /\ asked' = FALSE /\ moded' = FALSE

Init ==
    /\ epc = "main" /\ config = FALSE /\ scrEE = TRUE /\ next = 1
    /\ dmac = FALSE /\ mailbox = Box(FALSE, NoPacket)
    /\ cmdThreadID = FALSE /\ woken = 0
    /\ sync = TRUE /\ loaded = {} /\ start = "none"
    /\ mounted = FALSE /\ holder = "nobody"
    /\ listener = "none" /\ power = "none" /\ scrIOP = TRUE
    /\ wire = NoPacket /\ boots = 0
    /\ broken = {} /\ lost = {} /\ missed = {}
    /\ asked = FALSE /\ moded = FALSE
    /\ nfails = 0 /\ npackets = 0 /\ npresses = 0

-----------------------------------------------------------------------------
(* EE: main.  The first time round there is no configuration: it is read,   *)
(* from the file or the defaults, and the machine restarts.                 *)

Goto(label) == epc' = label
EEOnly == UNCHANGED <<boxVars, sync, irxVars, hostVars, cmdVars, wire, boots,
                      sinceVars, countVars>>

GetIpConfig ==
    /\ epc = "main" /\ ~config /\ sync
    /\ config' = TRUE
    /\ Goto("reset")
    /\ UNCHANGED <<scrEE, next, dmac, cmdThreadID>> /\ EEOnly

(* restartIOP: asks until the IOP takes it, then waits until it is back.    *)
RestartIOP ==
    /\ epc = "main" /\ config /\ sync
    /\ sync' = FALSE /\ IopCleared
    /\ Goto("sync")
    /\ UNCHANGED <<config, scrEE, next, dmac, cmdThreadID, boxVars, boots,
                   countVars>>

(* Fault: the second wait is like pkoReset's.                               *)
IopSynced_While ==
    /\ epc = "sync" /\ ~sync
    /\ Goto("load") /\ next' = 1
    /\ UNCHANGED <<config, scrEE, dmac, cmdThreadID>> /\ EEOnly

IopSynced ==
    /\ epc = "sync" /\ sync
    /\ Goto("load") /\ next' = 1
    /\ UNCHANGED <<config, scrEE, dmac, cmdThreadID>> /\ EEOnly

Once == nfails < MaxFails /\ nfails' = nfails + 1
Fail(what) == Once /\ broken' = broken \cup {what}
Counts == <<npackets, npresses>>

(* loadModules: nobody looks at a module's result.  The last one is         *)
(* ps2link.irx, which runs _start while the EE waits.                       *)
LoadModule ==
    /\ epc = "load" /\ next <= Len(Modules) /\ start = "none"
    /\ LET m == Modules[next] IN
       \/ /\ m # "ps2link"
          /\ loaded' = loaded \cup {m} /\ next' = next + 1
          /\ UNCHANGED <<start, broken, nfails>>
       \/ /\ m = "ps2link" /\ Needs \subseteq loaded
          /\ loaded' = loaded \cup {m} /\ start' = "mount"
          /\ UNCHANGED <<next, broken, nfails>>
       \/ /\ m = "ps2link" /\ ~(Needs \subseteq loaded)
          /\ broken' = broken \cup {m} /\ next' = next + 1
          /\ UNCHANGED <<loaded, start, nfails>>
       \/ Fail(m) /\ next' = next + 1 /\ UNCHANGED <<loaded, start>>
    /\ UNCHANGED <<epc, config, scrEE, dmac, cmdThreadID, boxVars, sync,
                   hostVars, cmdVars, wire, boots, lost, missed, asked, moded,
                   Counts>>

ModuleStarted ==
    /\ epc = "load" /\ start = "done"
    /\ next' = next + 1 /\ start' = "none"
    /\ UNCHANGED <<epc, config, scrEE, dmac, cmdThreadID, boxVars, sync, loaded,
                   hostVars, cmdVars, wire, boots, sinceVars, countVars>>

(* initCmdRpc: cmdThread first, and without it no handler at all.           *)
InitCmdRpc ==
    /\ epc = "load" /\ next > Len(Modules)
    /\ \/ Goto("clear") /\ cmdThreadID' = TRUE /\ UNCHANGED <<broken, nfails>>
       \/ Goto("deaf") /\ Fail("cmdThread") /\ UNCHANGED cmdThreadID
    /\ UNCHANGED <<config, scrEE, next, dmac, boxVars, sync, irxVars, hostVars,
                   cmdVars, wire, boots, lost, missed, asked, moded, Counts>>

(* Fault: what the mailbox holds since the last run stays there.            *)
ClearMailbox_Not ==
    /\ epc = "clear"
    /\ Goto("install")
    /\ UNCHANGED <<config, scrEE, next, dmac, cmdThreadID>> /\ EEOnly

ClearMailbox ==
    /\ epc = "clear"
    /\ mailbox' = [mailbox EXCEPT !.set = FALSE]
    /\ lost' = lost \cup {op \in {mailbox.packet.op} : mailbox.set
                                /\ mailbox.packet.boot = boots}
    /\ Goto("install")
    /\ UNCHANGED <<config, scrEE, next, dmac, cmdThreadID, woken, sync, irxVars,
                   hostVars, cmdVars, wire, boots, broken, missed, asked, moded,
                   countVars>>

(* Fault: the handler is added and the channel stays disabled.              *)
InstallHandler_Disabled ==
    /\ epc = "install"
    /\ Goto("ready")
    /\ UNCHANGED <<config, scrEE, next, dmac, cmdThreadID>> /\ EEOnly

InstallHandler ==
    /\ epc = "install"
    /\ dmac' = TRUE
    /\ Goto("ready")
    /\ UNCHANGED <<config, scrEE, next, cmdThreadID>> /\ EEOnly

-----------------------------------------------------------------------------
(* EE: pkoReset, run by main at the first boot and by cmdThread later.      *)

TakeDown ==
    /\ epc = "reset"
    /\ dmac' = FALSE
    /\ Goto("iopreset")
    /\ UNCHANGED <<config, scrEE, next, cmdThreadID>> /\ EEOnly

(* The result of SifIopReset is not looked at.                              *)
ResetIop ==
    /\ epc = "iopreset" /\ sync
    /\ \/ sync' = FALSE /\ IopCleared /\ UNCHANGED nfails
       \/ /\ Fail("iopreset")
          /\ UNCHANGED <<sync, irxVars, hostVars, cmdVars, wire, lost, missed,
                         asked, moded>>
    /\ Goto("look")
    /\ UNCHANGED <<config, scrEE, next, dmac, cmdThreadID, boxVars, boots,
                   Counts>>

(* while (SifIopSync()): it goes on when the IOP is not back yet.           *)
LookAway ==
    /\ epc = "look" /\ ~sync
    /\ Goto("exec")
    /\ UNCHANGED <<config, scrEE, next, dmac, cmdThreadID>> /\ EEOnly

(* Fault: the configuration is in .bss.                                     *)
ExecPS2_Bss ==
    /\ epc = "exec" /\ sync
    /\ config' = FALSE /\ next' = 1 /\ woken' = 0 /\ cmdThreadID' = FALSE
    /\ boots' = boots + 1
    /\ Goto("main")
    /\ UNCHANGED <<scrEE, dmac, mailbox, sync, irxVars, hostVars, cmdVars,
                   wire, sinceVars, countVars>>

(* SifInitRpc waits for the IOP; then the image runs again from its start,  *)
(* without its threads.                                                     *)
ExecPS2 ==
    /\ epc = "exec" /\ sync
    /\ next' = 1 /\ woken' = 0 /\ cmdThreadID' = FALSE
    /\ boots' = boots + 1
    /\ Goto("main")
    /\ UNCHANGED <<config, scrEE, dmac, mailbox, sync, irxVars, hostVars,
                   cmdVars, wire, sinceVars, countVars>>

-----------------------------------------------------------------------------
(* EE: cmdThread.                                                           *)

TakeCommand ==
    /\ epc = "ready" /\ woken > 0
    /\ woken' = woken - 1
    /\ LET op == mailbox.packet.op IN
       /\ Goto(CASE op = "reset"    -> "reset"
                 [] op = "other"    -> "working"
                 [] op = "iopexcep" -> "excepsleep"
                 [] OTHER           -> "ready")
       /\ scrEE' = CASE op = "scrdump" -> TRUE [] op = "netdump" -> FALSE
                     [] OTHER -> scrEE
    /\ UNCHANGED <<config, next, dmac, cmdThreadID, mailbox, sync, irxVars,
                   hostVars, cmdVars, wire, boots, sinceVars, countVars>>

(* iopException ends in SleepThread: the next wake-up only ends that, and   *)
(* unless another one follows what is in the mailbox is not run.            *)
ExceptionResume ==
    /\ epc = "excepsleep" /\ woken > 0
    /\ woken' = woken - 1
    /\ missed' = IF woken = 1 THEN missed \cup {mailbox.packet.op} ELSE missed
    /\ Goto("ready")
    /\ UNCHANGED <<config, scrEE, next, dmac, cmdThreadID, mailbox, sync,
                   irxVars, hostVars, cmdVars, wire, boots, broken, lost, asked,
                   moded, countVars>>

(* Any other command comes to an end (MemCmd, CommandEnds).  One that could *)
(* not start its program has cleared cmdThreadID.                           *)
CommandDone ==
    /\ epc = "working"
    /\ Goto("ready")
    /\ \/ UNCHANGED <<cmdThreadID, nfails>>
       \/ cmdThreadID' = FALSE /\ Once
    /\ UNCHANGED <<config, scrEE, next, dmac, boxVars, sync, irxVars, hostVars,
                   cmdVars, wire, boots, sinceVars, Counts>>

-----------------------------------------------------------------------------
(* The SIF, external.                                                       *)

(* The handler's part: with nobody's id there is nobody to wake.            *)
Wake(op) ==
    IF cmdThreadID THEN woken' = woken + 1 /\ UNCHANGED missed
    ELSE missed' = missed \cup {op} /\ UNCHANGED woken

Deliver ==
    /\ wire # NoPacket
    /\ wire' = NoPacket
    /\ mailbox' = Box(~dmac, wire)
    /\ IF dmac THEN Wake(wire.op) ELSE UNCHANGED <<woken, missed>>
    /\ lost' = lost \cup {op \in {mailbox.packet.op} : mailbox.set \/ woken > 0}
    /\ UNCHANGED <<eeVars, sync, irxVars, hostVars, cmdVars, boots, broken,
                   asked, moded, countVars>>

(* Another transfer's interrupt finds a packet that came without one.       *)
OtherInterrupt ==
    /\ dmac /\ mailbox.set
    /\ mailbox' = [mailbox EXCEPT !.set = FALSE]
    /\ Wake(mailbox.packet.op)
    /\ UNCHANGED <<eeVars, sync, irxVars, hostVars, cmdVars, wire, boots,
                   broken, lost, asked, moded, countVars>>

IopBoots ==
    /\ ~sync
    /\ sync' = TRUE
    /\ IopCleared
    /\ UNCHANGED <<eeVars, boxVars, boots, countVars>>

-----------------------------------------------------------------------------
(* IOP: _start of ps2link.irx, on the module loader's thread.               *)

StartOnly == UNCHANGED <<eeVars, boxVars, sync, loaded, wire, boots, lost,
                         missed, asked, moded, Counts>>

(* Nobody looks at the result of AddDrv.                                    *)
Mount ==
    /\ start = "mount"
    /\ start' = "button"
    /\ \/ mounted' = TRUE /\ UNCHANGED <<broken, nfails>>
       \/ Fail("host") /\ UNCHANGED mounted
    /\ UNCHANGED <<holder, cmdVars>> /\ StartOnly

(* cmdHandlerInit: the button works before there is a listener.             *)
SetPowerButton ==
    /\ start = "button"
    /\ power' = "idle" /\ start' = "thread"
    /\ UNCHANGED <<hostVars, listener, scrIOP, broken, nfails>> /\ StartOnly

(* A thread, a socket or a bind that fails leaves no listener.              *)
StartListener ==
    /\ start = "thread"
    /\ start' = "naplink"
    /\ \/ listener' = "idle" /\ UNCHANGED <<broken, nfails>>
       \/ Fail("listener") /\ UNCHANGED listener
    /\ UNCHANGED <<hostVars, power, scrIOP>> /\ StartOnly

(* naplinkRpcInit and installExceptionHandlers: nothing here depends on how *)
(* they turn out.                                                           *)
StartNaplink ==
    /\ start = "naplink"
    /\ start' = "done"
    /\ UNCHANGED <<hostVars, cmdVars, broken, nfails>> /\ StartOnly

-----------------------------------------------------------------------------
(* IOP: sending, abstractly: the packet replaces one still queued, or the   *)
(* queue is full and it is dropped (SifCmd).                                *)

Send(op) ==
    \/ wire' = Packet(op) /\ lost' = lost \cup ({wire.op} \ {"none"})
    \/ lost' = lost \cup {op} /\ UNCHANGED wire

SendOnly == UNCHANGED <<eeVars, boxVars, sync, irxVars, boots, broken>>
IopOnly  == SendOnly /\ UNCHANGED nfails

(* A reset is accepted; what became of earlier ones is no excuse for it.    *)
Accept ==
    /\ asked' = TRUE
    /\ lost' = lost \ {"reset"} /\ missed' = missed \ {"reset"}

(* An exception of the IOP once _start has installed the handlers; the IOP  *)
(* goes on ("keeps iop alive").                                             *)
IopException ==
    /\ "ps2link" \in loaded /\ start \in {"none", "done"} /\ Once
    /\ Send("iopexcep")
    /\ UNCHANGED <<hostVars, cmdVars, missed, asked, moded, Counts>>
    /\ SendOnly

(* Fault: the EE is not told.                                               *)
ChooseMode_Here(op) ==
    /\ scrIOP' = (op = "scrdump") /\ moded' = TRUE
    /\ UNCHANGED <<wire, lost>>

(* How exceptions are shown, on both processors.                            *)
ChooseMode(op) ==
    /\ scrIOP' = (op = "scrdump") /\ moded' = TRUE
    /\ Send(op)

(* cmdListener: a packet of the PC.                                         *)
Receive ==
    /\ listener = "idle" /\ npackets < MaxPackets
    /\ npackets' = npackets + 1
    /\ \/ listener' = "unmount" /\ Accept
          /\ UNCHANGED <<wire, scrIOP, moded>>
       \/ listener' = "execiop"
          /\ UNCHANGED <<asked, wire, lost, missed, scrIOP, moded>>
       \/ Send("other")
          /\ UNCHANGED <<listener, asked, missed, scrIOP, moded>>
       \/ \E op \in {"scrdump", "netdump"} : ChooseMode(op)
          /\ UNCHANGED <<listener, asked, missed>>
    /\ UNCHANGED <<hostVars, power, npresses>> /\ IopOnly

(* pkoExecIop: LoadStartModule reads the file, over host: if it is there,   *)
(* and runs the module's own start routine on the listener's thread.        *)
ExecIop ==
    /\ listener = "execiop"
    /\ \/ listener' \in {"idle", "running"} /\ UNCHANGED holder
       \/ /\ mounted /\ holder = "nobody"
          /\ holder' = "listener" /\ listener' = "loading"
    /\ UNCHANGED <<mounted, power, scrIOP, wire, lost, missed, asked,
                   moded, Counts>>
    /\ IopOnly

(* It may never return.                                                     *)
ModuleReturns ==
    /\ listener = "running"
    /\ listener' = "idle"
    /\ UNCHANGED <<hostVars, power, scrIOP, wire, lost, missed, asked,
                   moded, Counts>>
    /\ IopOnly

(* A program or a command of the EE calls host:.                            *)
HostCall ==
    /\ epc \in {"ready", "working", "excepsleep"}
    /\ mounted /\ holder = "nobody"
    /\ holder' = "ee"
    /\ UNCHANGED <<mounted, cmdVars, wire, lost, missed, asked,
                   moded, Counts>>
    /\ IopOnly

(* The PC answers, or the connection is lost (FileIO, CallsReturn).         *)
CallEnds ==
    /\ holder # "nobody"
    /\ holder' = "nobody"
    /\ IF holder = "listener" THEN listener' \in {"idle", "running"}
       ELSE UNCHANGED listener
    /\ UNCHANGED <<mounted, power, scrIOP, wire, lost, missed, asked,
                   moded, Counts>>
    /\ IopOnly

(* fsysUnmount: the driver's last function waits for the call under way;    *)
(* when the driver is gone already there is nothing to wait for.            *)
FsysUnmount ==
    /\ mounted => holder = "nobody"
    /\ mounted' = FALSE

ListenerUnmount ==
    /\ listener = "unmount"
    /\ FsysUnmount
    /\ listener' = "send"
    /\ UNCHANGED <<holder, power, scrIOP, wire, lost, missed, asked,
                   moded, Counts>>
    /\ IopOnly

ListenerSend ==
    /\ listener = "send"
    /\ Send("reset")
    /\ listener' = "idle"
    /\ UNCHANGED <<hostVars, power, scrIOP, missed, asked, moded, Counts>>
    /\ IopOnly

(* cmdPowerOff, as it is built: a reset of its own, on another thread.      *)
Press ==
    /\ power = "idle" /\ npresses < MaxPresses
    /\ npresses' = npresses + 1
    /\ power' = "unmount" /\ Accept
    /\ UNCHANGED <<hostVars, listener, scrIOP, wire, moded, npackets>>
    /\ IopOnly

(* Fault: the button's reset waits for the listener.                        *)
PowerUnmount_Waits ==
    /\ power = "unmount" /\ listener \in {"none", "idle"}
    /\ FsysUnmount
    /\ power' = "send"
    /\ UNCHANGED <<holder, listener, scrIOP, wire, lost, missed, asked,
                   moded, Counts>>
    /\ IopOnly

PowerUnmount ==
    /\ power = "unmount"
    /\ FsysUnmount
    /\ power' = "send"
    /\ UNCHANGED <<holder, listener, scrIOP, wire, lost, missed, asked,
                   moded, Counts>>
    /\ IopOnly

PowerSend ==
    /\ power = "send"
    /\ Send("reset")
    /\ power' = "idle"
    /\ UNCHANGED <<hostVars, listener, scrIOP, missed, asked, moded, Counts>>
    /\ IopOnly

-----------------------------------------------------------------------------
EEStep ==
    \/ GetIpConfig \/ RestartIOP \/ IopSynced \/ LoadModule \/ ModuleStarted
    \/ InitCmdRpc \/ ClearMailbox \/ InstallHandler
    \/ TakeDown \/ ResetIop \/ LookAway \/ ExecPS2 \/ TakeCommand
    \/ ExceptionResume \/ CommandDone

StartStep == Mount \/ SetPowerButton \/ StartListener \/ StartNaplink

ListenerStep == ExecIop \/ ListenerUnmount \/ ListenerSend
PowerStep    == PowerUnmount \/ PowerSend

External == Receive \/ Press \/ ModuleReturns \/ HostCall \/ OtherInterrupt
              \/ IopException

Next == EEStep \/ StartStep \/ ListenerStep \/ PowerStep \/ CallEnds
          \/ Deliver \/ IopBoots \/ External

Spec == Init /\ [][Next]_vars

(* Threads run, the IOP boots, the SIF transfers, calls end.  SignalSema    *)
(* hands the semaphore to a thread that waits for it, so a waiter's turn    *)
(* comes however often others call: strong fairness for those who wait.     *)
FairSpec ==
    /\ Spec
    /\ WF_vars(EEStep) /\ WF_vars(StartStep) /\ WF_vars(Deliver)
    /\ WF_vars(IopBoots) /\ WF_vars(CallEnds)
    /\ SF_vars(ListenerStep) /\ SF_vars(PowerStep)

-----------------------------------------------------------------------------
(* Properties.                                                              *)

MaxBoots == 1 + MaxPackets + MaxPresses

(* Every variable has its type; there is no more than one restart for each  *)
(* reset that was asked for, and the one of the first boot.                 *)
TypeOK ==
    /\ epc \in {"main", "sync", "load", "clear", "install", "ready",
                "working", "excepsleep", "deaf", "reset", "iopreset", "look",
                "exec"}
    /\ config \in BOOLEAN /\ scrEE \in BOOLEAN /\ dmac \in BOOLEAN
    /\ next \in 1 .. Len(Modules) + 1
    /\ mailbox \in [set : BOOLEAN,
                    packet : [op : Ops \cup {"none"}, boot : 0 .. MaxBoots]]
    /\ cmdThreadID \in BOOLEAN /\ woken \in Nat /\ sync \in BOOLEAN
    /\ \A m \in loaded : \E k \in 1 .. Len(Modules) : Modules[k] = m
    /\ start \in {"none", "mount", "button", "thread", "naplink", "done"}
    /\ mounted \in BOOLEAN /\ holder \in {"nobody", "ee", "listener"}
    /\ listener \in {"none", "idle", "unmount", "send", "execiop", "loading",
                     "running"}
    /\ power \in {"none", "idle", "unmount", "send"} /\ scrIOP \in BOOLEAN
    /\ wire \in [op : Ops \cup {"none"}, boot : 0 .. MaxBoots]
    /\ boots \in 0 .. MaxBoots
    /\ lost \subseteq Ops /\ missed \subseteq Ops
    /\ asked \in BOOLEAN /\ moded \in BOOLEAN
    /\ nfails \in 0 .. MaxFails /\ npackets \in 0 .. MaxPackets
    /\ npresses \in 0 .. MaxPresses

(* cmdThread never runs a command that was sent before the last restart: a  *)
(* second reset that crossed the first one does not restart the machine     *)
(* again (initCmdRpc, sifDmaDataPtr[0] = 0).                                *)
NoStaleCommand == woken > 0 => mailbox.packet.boot = boots

(* A machine that is ready, nothing of it having failed and no reset being  *)
(* under way, has all its modules on the IOP that runs now, host: mounted   *)
(* and somebody listening (main, restartIOP, loadModules).                  *)
ReadyComplete ==
    epc = "ready" /\ broken = {} /\ ~asked =>
        /\ sync /\ dmac /\ mounted /\ listener # "none" /\ power # "none"
        /\ \A k \in 1 .. Len(Modules) : Modules[k] \in loaded

Quiet == epc \in {"ready", "excepsleep"} /\ wire = NoPacket /\ woken = 0
           /\ ~mailbox.set

(* Once a dump mode has been chosen since the IOP booted, both processors   *)
(* show exceptions the same way, unless the packet that says so was lost or *)
(* reached a deaf cmdThread.                                                *)
ModesAgree ==
    Quiet /\ moded /\ (lost \cup missed) \cap {"scrdump", "netdump"} = {}
        => scrEE = scrIOP

(* The IOP was back before pkoReset looked, or never went.                  *)
Spinning == epc = "look" /\ sync

(* A boot gets somewhere.                                                   *)
BootCompletes == epc = "main" ~> epc \in {"ready", "deaf"} \/ Spinning

(* What keeps a reset from restarting the machine: its packet was lost, or  *)
(* came without an interrupt, or only ended iopException's sleep, or found  *)
(* cmdThreadID cleared; there is no cmdThread; pkoReset spins.              *)
Excused ==
    \/ "reset" \in lost \cup missed \/ epc = "deaf" \/ Spinning
    \/ mailbox.set /\ mailbox.packet.op = "reset" /\ dmac

(* A reset the listener has accepted restarts the machine.                  *)
ResetRestarts ==
    \A b \in 0 .. MaxBoots :
        listener = "unmount" /\ boots = b ~> boots # b \/ Excused

(* So does the power button, even when the listener is in a module that     *)
(* never returns.                                                           *)
PowerRestarts ==
    \A b \in 0 .. MaxBoots :
        power = "unmount" /\ boots = b ~> boots # b \/ Excused
=============================================================================
