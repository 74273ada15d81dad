--------------------------- MODULE ConsoleProofs ----------------------------
(* What Console promises for every list of modules that contains            *)
(* ps2link.irx, and every number of failures, packets and presses.          *)
EXTENDS Console, TLAPS

(* No module or thread of the last IOP image is left, nor a packet of its.  *)
IopClear == loaded = {} /\ start = "none" /\ listener = "none"
              /\ power = "none" /\ holder = "nobody" /\ wire = NoPacket

(* While the IOP boots, and until the EE image runs again, there is nobody  *)
(* who could send.                                                          *)
NobodyThere ==
    /\ ~sync \/ epc = "exec" => IopClear
    /\ epc \notin {"sync", "look", "exec"} => sync

(* The handler is installed only while cmdThread is there to be woken.      *)
Listening == {"ready", "working", "excepsleep"}
HandlerWhen == dmac => epc \in Listening \cup {"reset"}

(* What is queued, what woke cmdThread and what an interrupt would still    *)
(* find was sent since the last restart.                                    *)
Fresh ==
    /\ wire # NoPacket => wire.boot = boots
    /\ woken > 0 => mailbox.packet.boot = boots
    /\ mailbox.set /\ (dmac \/ epc = "install")
         => mailbox.packet.boot = boots

Crossing == NobodyThere /\ HandlerWhen /\ Fresh

(* At power-on the IOP is empty and nothing is queued.                      *)
LEMMA CrossingInit == Init => Crossing
BY DEF Init, Crossing, NobodyThere, HandlerWhen, Fresh, IopClear, Box

(* Every step keeps Crossing: the mailbox's flag is cleared before the      *)
(* handler is installed, and a restart empties the IOP before the EE        *)
(* runs.                                                                    *)
THEOREM CrossingNext == Crossing /\ [Next]_vars => Crossing'
<1> SUFFICES ASSUME Crossing, [Next]_vars PROVE Crossing'
  OBVIOUS
<1> USE DEF Crossing, Listening, eeVars, boxVars, irxVars, hostVars, cmdVars,
            sinceVars, countVars, EEOnly, IopOnly, SendOnly, StartOnly, Goto,
            Counts
<1>1. CASE GetIpConfig \/ IopSynced \/ InstallHandler \/ TakeDown \/ LookAway
             \/ CommandDone
  BY <1>1 DEF GetIpConfig, IopSynced, InstallHandler, TakeDown, LookAway,
     CommandDone, NobodyThere, HandlerWhen, Fresh, IopClear
<1>2. CASE RestartIOP \/ ResetIop
  BY <1>2 DEF RestartIOP, ResetIop, IopCleared, NobodyThere, HandlerWhen,
     Fresh, IopClear
<1>3. CASE LoadModule \/ ModuleStarted \/ InitCmdRpc
  BY <1>3 DEF LoadModule, ModuleStarted, InitCmdRpc, NobodyThere, HandlerWhen,
     Fresh, IopClear
<1>4. CASE ClearMailbox
  BY <1>4 DEF ClearMailbox, NobodyThere, HandlerWhen, Fresh, IopClear
<1>5. CASE ExecPS2
  BY <1>5 DEF ExecPS2, NobodyThere, HandlerWhen, Fresh, IopClear
<1>6. CASE TakeCommand \/ ExceptionResume
  <2>1. /\ epc \in Listening /\ epc' \in Listening \cup {"reset"}
        /\ woken > 0
        /\ UNCHANGED <<mailbox, sync, loaded, start, listener, power, holder,
                       wire, dmac, boots>>
    BY <1>6 DEF TakeCommand, ExceptionResume
  <2> QED
    BY <2>1 DEF NobodyThere, HandlerWhen, Fresh, IopClear
<1>7. CASE StartStep
  BY <1>7 DEF StartStep, Mount, SetPowerButton, StartListener, StartNaplink,
     NobodyThere, HandlerWhen, Fresh, IopClear
<1>8. CASE ListenerUnmount \/ PowerUnmount \/ ExecIop \/ ModuleReturns
             \/ HostCall \/ CallEnds \/ Press
  <2>1. /\ UNCHANGED <<epc, sync, loaded, start, wire, dmac, mailbox, woken,
                       boots>>
        /\ \/ listener # "none" \/ power # "none" \/ holder # "nobody"
           \/ epc \in Listening
    BY <1>8 DEF ListenerUnmount, PowerUnmount, ExecIop, ModuleReturns,
       HostCall, CallEnds, Press
  <2> QED
    BY <1>8, <2>1 DEF NobodyThere, HandlerWhen, Fresh, IopClear
<1>9. CASE ListenerSend \/ PowerSend \/ Receive \/ IopException
  <2>1. /\ UNCHANGED <<epc, sync, loaded, start, dmac, mailbox, woken, boots,
                       holder>>
        /\ listener # "none" \/ power # "none" \/ loaded # {}
        /\ wire' = wire \/ \E op \in Ops : wire' = Packet(op)
    BY <1>9 DEF ListenerSend, PowerSend, Receive, IopException, Send,
       ChooseMode, Ops
  <2>2. \A op \in Ops : Packet(op).boot = boots
    BY DEF Packet
  <2> QED
    BY <2>1, <2>2 DEF NobodyThere, HandlerWhen, Fresh, IopClear
<1>10. CASE Deliver
  BY <1>10 DEF Deliver, Wake, Box, NobodyThere, HandlerWhen, Fresh, IopClear
<1>11. CASE OtherInterrupt
  BY <1>11 DEF OtherInterrupt, Wake, NobodyThere, HandlerWhen, Fresh, IopClear
<1>12. CASE IopBoots
  BY <1>12 DEF IopBoots, IopCleared, NobodyThere, HandlerWhen, Fresh, IopClear
<1>13. CASE UNCHANGED vars
  BY <1>13 DEF vars, NobodyThere, HandlerWhen, Fresh, IopClear
<1> QED
  BY <1>1, <1>2, <1>3, <1>4, <1>5, <1>6, <1>7, <1>8, <1>9, <1>10, <1>11,
     <1>12, <1>13
     DEF Next, EEStep, ListenerStep, PowerStep, External

(* No command crosses a restart.                                            *)
THEOREM NoCommandCrosses == Spec => []NoStaleCommand
<1>1. Crossing => NoStaleCommand
  BY DEF Crossing, Fresh, NoStaleCommand
<1> QED BY <1>1, CrossingInit, CrossingNext, PTL DEF Spec

-----------------------------------------------------------------------------
(* The other half of a boot: what has been loaded is there.                 *)

Ready == {"clear", "install"} \cup Listening
Indices == 1 .. Len(Modules)

(* Each module that has had its turn is loaded, or broken.                  *)
TurnsTaken ==
    /\ next \in Nat \ {0}
    /\ start # "none" => epc = "load" /\ next \in Indices
                           /\ Modules[next] \in loaded
    /\ epc = "load" =>
         \A k \in Indices : k < next => Modules[k] \in loaded \cup broken
    /\ epc \in Ready => \A k \in Indices : Modules[k] \in loaded \cup broken

(* _start has done what it has passed, unless a reset undid it.             *)
Started ==
    /\ epc \in Ready => start = "none"
    /\ "ps2link" \in loaded /\ start # "mount"
         => mounted \/ asked \/ "host" \in broken
    /\ "ps2link" \in loaded /\ start \notin {"mount", "button"}
         => power # "none"
    /\ "ps2link" \in loaded /\ start \notin {"mount", "button", "thread"}
         => listener # "none" \/ "listener" \in broken
    /\ listener = "unmount" \/ power = "unmount" => asked

HandlerOn == epc \in Listening => dmac

Boot == Crossing /\ TurnsTaken /\ Started /\ HandlerOn

(* At power-on no module has had its turn.                                  *)
LEMMA BootInit == Init => Boot
BY CrossingInit DEF Init, Boot, TurnsTaken, Started, HandlerOn, Ready, Listening

(* Every step keeps Boot: a module's turn ends with it loaded or broken.    *)
THEOREM BootNext == Boot /\ [Next]_vars => Boot'
<1> SUFFICES ASSUME Boot, [Next]_vars PROVE Boot'
  OBVIOUS
<1> USE DEF Boot, Listening, eeVars, boxVars, irxVars, hostVars, cmdVars,
            sinceVars, countVars, EEOnly, IopOnly, SendOnly, StartOnly, Goto,
            Counts
<1>0. Crossing'
  BY CrossingNext
<1>1. CASE GetIpConfig \/ InstallHandler \/ TakeDown \/ LookAway
             \/ CommandDone
  BY <1>0, <1>1 DEF GetIpConfig, InstallHandler, TakeDown, LookAway,
     CommandDone, TurnsTaken, Started, HandlerOn, Ready
<1>2. CASE IopSynced
  BY <1>0, <1>2 DEF IopSynced, TurnsTaken, Started, HandlerOn, Ready, Indices
<1>3. CASE RestartIOP
  BY <1>0, <1>3 DEF RestartIOP, IopCleared, TurnsTaken, Started, HandlerOn,
     Ready
<1>4. CASE ResetIop
  <2>1. epc = "iopreset" /\ epc' = "look" /\ next' = next
    BY <1>4 DEF ResetIop
  <2>2. CASE IopCleared
    BY <1>0, <2>1, <2>2 DEF IopCleared, TurnsTaken, Started, HandlerOn, Ready
  <2>3. CASE broken' = broken \cup {"iopreset"}
               /\ UNCHANGED <<irxVars, hostVars, cmdVars, asked>>
    BY <1>0, <2>1, <2>3 DEF TurnsTaken, Started, HandlerOn, Ready
  <2> QED
    BY <1>4, <2>2, <2>3 DEF ResetIop, Fail
<1>5. CASE LoadModule
  <2> DEFINE m == Modules[next]
  <2>1. /\ epc = "load" /\ start = "none" /\ epc' = "load" /\ dmac' = dmac
        /\ UNCHANGED <<mounted, listener, power, asked>>
        /\ next \in Indices
    BY <1>5, ConsoleAssumption DEF LoadModule, TurnsTaken, Indices
  <2>2. \/ /\ m # "ps2link" /\ loaded' = loaded \cup {m} /\ next' = next + 1
           /\ UNCHANGED <<start, broken>>
        \/ /\ loaded' = loaded \cup {m} /\ start' = "mount"
           /\ UNCHANGED <<next, broken>>
        \/ /\ broken' = broken \cup {m} /\ next' = next + 1
           /\ UNCHANGED <<loaded, start>>
    BY <1>5 DEF LoadModule, Fail
  <2>3. Started'
    BY <2>1, <2>2 DEF Started, Ready
  <2>4. /\ next' \in Nat \ {0}
        /\ start' # "none" => next' \in Indices /\ Modules[next'] \in loaded'
    BY <2>1, <2>2 DEF TurnsTaken
  <2>5. ASSUME NEW k \in Indices, k < next'
        PROVE  Modules[k] \in loaded' \cup broken'
    BY <2>1, <2>2, <2>5 DEF TurnsTaken, Indices
  <2> QED
    BY <1>0, <2>1, <2>3, <2>4, <2>5 DEF TurnsTaken, HandlerOn, Ready
<1>6. CASE ModuleStarted
  BY <1>0, <1>6 DEF ModuleStarted, TurnsTaken, Started, HandlerOn, Ready,
     Indices
<1>7. CASE InitCmdRpc
  BY <1>0, <1>7, ConsoleAssumption DEF InitCmdRpc, Fail, TurnsTaken, Started,
     HandlerOn, Ready, Indices
<1>8. CASE ClearMailbox
  BY <1>0, <1>8 DEF ClearMailbox, TurnsTaken, Started, HandlerOn, Ready
<1>9. CASE ExecPS2
  BY <1>0, <1>9 DEF ExecPS2, TurnsTaken, Started, HandlerOn, Ready
<1>10. CASE TakeCommand \/ ExceptionResume
  <2>1. /\ epc \in Listening /\ epc' \in Listening \cup {"reset"}
        /\ UNCHANGED <<next, loaded, broken, start, mounted, listener, power,
                       asked, dmac>>
    BY <1>10 DEF TakeCommand, ExceptionResume
  <2> QED
    BY <1>0, <2>1 DEF TurnsTaken, Started, HandlerOn, Ready
<1>11. CASE StartStep
  BY <1>0, <1>11 DEF StartStep, Mount, SetPowerButton, StartListener,
     StartNaplink, Fail, TurnsTaken, Started, HandlerOn, Ready
<1>12. CASE ListenerStep \/ PowerStep \/ CallEnds \/ External \/ Deliver
  <2>1. UNCHANGED <<epc, next, loaded, broken, start, dmac>>
    BY <1>12 DEF ListenerStep, PowerStep, CallEnds, External, Deliver, ExecIop,
       ListenerUnmount, ListenerSend, PowerUnmount, PowerSend, Receive, Press,
       ModuleReturns, HostCall, OtherInterrupt, IopException
  <2>2. /\ listener # "none" => listener' # "none"
        /\ power # "none" => power' # "none"
    BY <1>12 DEF ListenerStep, PowerStep, CallEnds, External, Deliver, ExecIop,
       ListenerUnmount, ListenerSend, PowerUnmount, PowerSend, Receive, Press,
       ModuleReturns, HostCall, OtherInterrupt, IopException, ChooseMode,
       Accept
  <2>3. mounted /\ ~asked => mounted' \/ asked'
    BY <1>12 DEF ListenerStep, PowerStep, CallEnds, External, Deliver, ExecIop,
       ListenerUnmount, ListenerSend, PowerUnmount, PowerSend, Receive, Press,
       ModuleReturns, HostCall, OtherInterrupt, IopException, ChooseMode,
       Accept, Started
  <2>4. /\ asked => asked'
        /\ listener' = "unmount" \/ power' = "unmount" => asked'
    BY <1>12 DEF ListenerStep, PowerStep, CallEnds, External, Deliver, ExecIop,
       ListenerUnmount, ListenerSend, PowerUnmount, PowerSend, Receive, Press,
       ModuleReturns, HostCall, OtherInterrupt, IopException, ChooseMode,
       Accept, Started
  <2> QED
    BY <1>0, <2>1, <2>2, <2>3, <2>4 DEF TurnsTaken, Started, HandlerOn
<1>13. CASE IopBoots
  <2>1. /\ ~sync /\ UNCHANGED <<epc, next, dmac>>
        /\ epc \in {"sync", "look", "exec"}
    BY <1>13 DEF IopBoots, Crossing, NobodyThere
  <2> QED
    BY <1>0, <1>13, <2>1 DEF IopBoots, IopCleared, TurnsTaken, Started,
       HandlerOn, Ready
<1>14. CASE UNCHANGED vars
  BY <1>0, <1>14 DEF vars, TurnsTaken, Started, HandlerOn
<1> QED
  BY <1>1, <1>2, <1>3, <1>4, <1>5, <1>6, <1>7, <1>8, <1>9, <1>10, <1>11,
     <1>12, <1>13, <1>14
     DEF Next, EEStep

(* A machine that says it is ready is: whatever else has happened, unless a *)
(* part of it failed or a reset is under way.                               *)
THEOREM ReadyIsComplete == Spec => []ReadyComplete
<1>1. Boot => ReadyComplete
  <2> SUFFICES ASSUME Boot, epc = "ready", broken = {}, ~asked
               PROVE  /\ sync /\ dmac /\ mounted
                      /\ listener # "none" /\ power # "none"
                      /\ \A k \in Indices : Modules[k] \in loaded
    BY DEF ReadyComplete, Indices
  <2>1. \A k \in Indices : Modules[k] \in loaded
    BY DEF Boot, TurnsTaken, Ready, Listening
  <2>2. "ps2link" \in loaded /\ start = "none"
    BY <2>1, ConsoleAssumption DEF Boot, Started, Ready, Listening, Indices
  <2>3. sync /\ dmac
    BY DEF Boot, Crossing, NobodyThere, HandlerOn, Listening
  <2> QED
    BY <2>1, <2>2, <2>3 DEF Boot, Started
<1> QED BY <1>1, BootInit, BootNext, PTL DEF Spec

-----------------------------------------------------------------------------
(* Commands on their way to cmdThread.                                      *)
Pending    == mailbox.set \/ woken > 0
Restarting == {"reset", "iopreset", "look", "exec"}
Labels     == {"main", "sync", "load", "clear", "install", "deaf"}
                \cup Listening \cup Restarting

(* One packet at a time is for cmdThread, and only while it is there.       *)
Posted ==
    /\ woken \in Nat
    /\ woken > 0 => epc \in Listening \cup Restarting
    /\ epc \in Listening => ~(mailbox.set /\ woken > 0)
    /\ Pending => mailbox.packet.op \in Ops
    /\ wire # NoPacket => wire.op \in Ops

(* At power-on nothing waits for cmdThread.                                 *)
LEMMA PostedInit == Init => Posted
BY DEF Init, Posted, Pending, Box

(* Every step keeps Posted: only the handler wakes cmdThread.               *)
LEMMA PostedNext == ASSUME Boot, Posted, [Next]_vars PROVE Posted'
<1> USE DEF Posted, Pending, Listening, Restarting, eeVars, boxVars, irxVars,
            hostVars, cmdVars, sinceVars, countVars, EEOnly, IopOnly, SendOnly,
            StartOnly, Goto, Counts
<1>1. CASE GetIpConfig \/ IopSynced \/ InstallHandler \/ TakeDown \/ LookAway
             \/ CommandDone
  BY <1>1 DEF GetIpConfig, IopSynced, InstallHandler, TakeDown, LookAway,
     CommandDone
<1>2. CASE RestartIOP \/ ResetIop
  BY <1>2 DEF RestartIOP, ResetIop, IopCleared
<1>3. CASE LoadModule \/ ModuleStarted \/ InitCmdRpc
  <2>1. /\ UNCHANGED <<mailbox, woken, wire>> /\ epc = "load"
        /\ epc' \in {"load", "clear", "deaf"}
    BY <1>3 DEF LoadModule, ModuleStarted, InitCmdRpc
  <2> QED BY <2>1
<1>10. CASE ClearMailbox
  BY <1>10 DEF ClearMailbox
<1>11. CASE ExecPS2
  BY <1>11 DEF ExecPS2
<1>4. CASE TakeCommand \/ ExceptionResume
  <2>1. /\ epc \in Listening /\ epc' \in Listening \cup {"reset"}
        /\ woken > 0 /\ woken' = woken - 1 /\ UNCHANGED <<mailbox, wire>>
    BY <1>4 DEF TakeCommand, ExceptionResume
  <2> QED BY <2>1
<1>5. CASE Deliver
  <2>1. /\ wire # NoPacket /\ wire' = NoPacket /\ UNCHANGED <<epc, dmac>>
        /\ mailbox'.packet = wire /\ (dmac => ~mailbox'.set)
        /\ woken' = woken \/ (dmac /\ woken' = woken + 1)
    BY <1>5 DEF Deliver, Wake, Box
  <2>2. epc \in Listening => dmac
    BY DEF Boot, HandlerOn
  <2>3. dmac => epc \in Listening \cup {"reset"}
    BY DEF Boot, Crossing, HandlerWhen
  <2> QED BY <2>1, <2>2, <2>3
<1>6. CASE OtherInterrupt
  <2>1. epc \in Listening \cup {"reset"}
    BY <1>6 DEF OtherInterrupt, Boot, Crossing, HandlerWhen
  <2>2. /\ mailbox.set /\ mailbox' = [mailbox EXCEPT !.set = FALSE]
        /\ woken' \in {woken, woken + 1} /\ UNCHANGED <<epc, wire>>
    BY <1>6 DEF OtherInterrupt, Wake
  <2> QED BY <2>1, <2>2
<1>7. CASE IopBoots
  BY <1>7 DEF IopBoots, IopCleared
<1>8. CASE ListenerSend \/ PowerSend \/ Receive \/ IopException
  <2>1. /\ UNCHANGED <<epc, mailbox, woken>>
        /\ wire' = wire \/ \E op \in Ops : wire' = Packet(op)
    BY <1>8 DEF ListenerSend, PowerSend, Receive, IopException, Send,
       ChooseMode, Ops
  <2> QED BY <2>1 DEF Packet
<1>9. CASE StartStep \/ ListenerUnmount \/ PowerUnmount \/ ExecIop
             \/ ModuleReturns \/ HostCall \/ CallEnds \/ Press \/ UNCHANGED vars
  <2>1. UNCHANGED <<epc, mailbox, woken, wire>>
    BY <1>9 DEF StartStep, Mount, SetPowerButton, StartListener, StartNaplink,
       ListenerUnmount, PowerUnmount, ExecIop, ModuleReturns, HostCall,
       CallEnds, Press, vars
  <2> QED BY <2>1
<1> QED
  BY <1>1, <1>2, <1>3, <1>4, <1>5, <1>6, <1>7, <1>8, <1>9, <1>10, <1>11
     DEF Next, EEStep, ListenerStep, PowerStep, External

-----------------------------------------------------------------------------
(* Each restart needs one of its own: the first boot, a packet of the PC or *)
(* a press of the button.  What is under way is counted where it is.        *)
One(b) == IF b THEN 1 ELSE 0

Resets ==
    boots + One(~config) + One(epc \in Restarting)
      + One(listener \in {"unmount", "send"})
      + One(power \in {"unmount", "send"})
      + One(wire.op = "reset")
      + One(/\ epc \in {"install"} \cup Listening
            /\ Pending /\ mailbox.packet.op = "reset")

Granted ==
    /\ boots \in Nat /\ npackets \in Nat /\ npresses \in Nat
    /\ Resets <= 1 + npackets + npresses

(* At power-on the one reset under way is the first boot's.                 *)
LEMMA GrantedInit == Init => Granted
BY DEF Init, Granted, Resets, One, Pending, Listening, Restarting, NoPacket, Box

(* Every step keeps Granted: a restart uses up what asked for it.           *)
LEMMA GrantedNext ==
    ASSUME Boot, Posted, Granted, [Next]_vars
    PROVE  Granted'
<1> USE DEF Granted, Resets, One, Pending, Listening, Restarting, eeVars,
            boxVars, irxVars, hostVars, cmdVars, sinceVars, countVars, EEOnly,
            IopOnly, SendOnly, StartOnly, Goto, Counts
<1>1. CASE GetIpConfig
  BY <1>1 DEF GetIpConfig
<1>2. CASE IopSynced \/ InstallHandler \/ TakeDown \/ LookAway \/ CommandDone
  BY <1>2 DEF IopSynced, InstallHandler, TakeDown, LookAway, CommandDone
<1>3. CASE RestartIOP
  BY <1>3 DEF RestartIOP, IopCleared, NoPacket
<1>4. CASE ResetIop
  <2>1. /\ UNCHANGED <<boots, config, mailbox, woken, npackets, npresses>>
        /\ epc = "iopreset" /\ epc' = "look"
        /\ \/ UNCHANGED <<listener, power, wire>>
           \/ listener' = "none" /\ power' = "none" /\ wire' = NoPacket
    BY <1>4 DEF ResetIop, IopCleared
  <2>2. NoPacket.op = "none"
    BY DEF NoPacket
  <2> QED BY <2>1, <2>2
<1>5. CASE LoadModule \/ ModuleStarted
  <2>1. UNCHANGED <<boots, epc, config, mailbox, woken, listener, power, wire,
                    npackets, npresses>>
    BY <1>5, Zenon DEF LoadModule, ModuleStarted, Fail
  <2> QED BY <2>1
<1>6. CASE InitCmdRpc
  BY <1>6 DEF InitCmdRpc, Fail
<1>7. CASE ClearMailbox
  <2>1. /\ UNCHANGED <<boots, config, listener, power, wire, npackets, npresses,
                       woken>>
        /\ epc = "clear" /\ epc' = "install"
        /\ mailbox' = [mailbox EXCEPT !.set = FALSE] /\ ~(woken > 0)
    BY <1>7 DEF ClearMailbox, Posted
  <2> QED BY <2>1
<1>8. CASE ExecPS2
  <2>1. /\ UNCHANGED <<config, listener, power, wire, npackets, npresses,
                       mailbox>>
        /\ epc = "exec" /\ epc' = "main" /\ boots' = boots + 1
    BY <1>8 DEF ExecPS2
  <2> QED BY <2>1
<1>9. CASE TakeCommand \/ ExceptionResume
  <2>1. /\ UNCHANGED <<boots, config, listener, power, wire, npackets, npresses,
                       mailbox>>
        /\ epc \in Listening /\ woken > 0
        /\ epc' \in Listening \cup {"reset"}
        /\ epc' = "reset" => mailbox.packet.op = "reset"
    BY <1>9 DEF TakeCommand, ExceptionResume
  <2> QED BY <2>1
<1>10. CASE Deliver
  <2>1. /\ UNCHANGED <<boots, config, epc, listener, power, npackets, npresses>>
        /\ wire' = NoPacket /\ mailbox'.packet = wire
    BY <1>10 DEF Deliver, Box
  <2>2. wire'.op = "none"
    BY <2>1 DEF NoPacket
  <2> QED BY <2>1, <2>2
<1>11. CASE OtherInterrupt
  <2>1. /\ UNCHANGED <<boots, config, epc, listener, power, npackets, npresses,
                       wire>>
        /\ mailbox.set /\ mailbox'.packet = mailbox.packet
    BY <1>11 DEF OtherInterrupt
  <2> QED BY <2>1
<1>12. CASE IopBoots
  BY <1>12 DEF IopBoots, IopCleared, NoPacket
<1>13. CASE StartStep
  <2>1. /\ UNCHANGED <<boots, config, epc, mailbox, woken, npackets, npresses,
                       wire>>
        /\ listener' \in {listener, "idle"} /\ power' \in {power, "idle"}
    BY <1>13 DEF StartStep, Mount, SetPowerButton, StartListener, StartNaplink
  <2> QED BY <2>1
<1>14. CASE ListenerSend
  <2>1. /\ UNCHANGED <<boots, config, epc, mailbox, woken, npackets, npresses,
                       power>>
        /\ listener = "send" /\ listener' = "idle"
    BY <1>14 DEF ListenerSend
  <2> QED BY <2>1
<1>15. CASE PowerSend
  <2>1. /\ UNCHANGED <<boots, config, epc, mailbox, woken, npackets, npresses,
                       listener>>
        /\ power = "send" /\ power' = "idle"
    BY <1>15 DEF PowerSend
  <2> QED BY <2>1
<1>16. CASE Receive
  <2>1. /\ UNCHANGED <<boots, config, epc, mailbox, woken, npresses, power>>
        /\ listener = "idle" /\ npackets' = npackets + 1
        /\ \/ listener' = "unmount" /\ wire' = wire
           \/ listener' \in {"idle", "execiop"}
                /\ (wire' = wire \/ wire'.op # "reset")
    BY <1>16 DEF Receive, ChooseMode, Send, Packet
  <2> QED BY <2>1
<1>20. CASE IopException
  <2>1. /\ UNCHANGED <<boots, config, epc, mailbox, woken, listener, power,
                       npackets, npresses>>
        /\ wire' = wire \/ wire'.op # "reset"
    BY <1>20 DEF IopException, Send, Packet
  <2> QED BY <2>1
<1>17. CASE Press
  <2>1. /\ UNCHANGED <<boots, config, epc, mailbox, woken, npackets, listener,
                       wire>>
        /\ power = "idle" /\ power' = "unmount" /\ npresses' = npresses + 1
    BY <1>17 DEF Press
  <2> QED BY <2>1
<1>18. CASE ListenerUnmount \/ PowerUnmount \/ ExecIop \/ ModuleReturns
             \/ HostCall \/ UNCHANGED vars
  BY <1>18 DEF ListenerUnmount, PowerUnmount, ExecIop, ModuleReturns, HostCall,
     vars
<1>19. CASE CallEnds
  BY <1>19 DEF CallEnds
<1> QED
  BY <1>1, <1>2, <1>3, <1>4, <1>5, <1>6, <1>7, <1>8, <1>9, <1>10, <1>11,
     <1>12, <1>13, <1>14, <1>15, <1>16, <1>17, <1>18, <1>19, <1>20
     DEF Next, EEStep, ListenerStep, PowerStep, External

-----------------------------------------------------------------------------
(* The types.                                                               *)
CountsOK ==
    /\ nfails \in 0 .. MaxFails /\ npackets \in 0 .. MaxPackets
    /\ npresses \in 0 .. MaxPresses

EEKinds ==
    /\ epc \in Labels
    /\ config \in BOOLEAN /\ scrEE \in BOOLEAN /\ dmac \in BOOLEAN
    /\ cmdThreadID \in BOOLEAN
    /\ next \in 1 .. Len(Modules) + 1

PacketsOK == [op : Ops \cup {"none"}, boot : 0 .. MaxBoots]

BoxKinds ==
    /\ mailbox \in [set : BOOLEAN, packet : PacketsOK]
    /\ wire \in PacketsOK

IopKinds ==
    /\ sync \in BOOLEAN
    /\ \A m \in loaded : \E k \in 1 .. Len(Modules) : Modules[k] = m
    /\ start \in {"none", "mount", "button", "thread", "naplink", "done"}
    /\ mounted \in BOOLEAN /\ holder \in {"nobody", "ee", "listener"}
    /\ listener \in {"none", "idle", "unmount", "send", "execiop", "loading",
                     "running"}
    /\ power \in {"none", "idle", "unmount", "send"} /\ scrIOP \in BOOLEAN

SinceKinds == lost \subseteq Ops /\ missed \subseteq Ops
                /\ asked \in BOOLEAN /\ moded \in BOOLEAN

Whole == Boot /\ Posted /\ Granted /\ CountsOK
Kinds == EEKinds /\ BoxKinds /\ IopKinds /\ SinceKinds

(* What each action does is visible in the next lemmas; where it matters is *)
(* said by citing Next.                                                     *)
USE DEF EEStep, StartStep, ListenerStep, PowerStep, External,
    GetIpConfig, RestartIOP, IopSynced, LoadModule, ModuleStarted, InitCmdRpc,
    ClearMailbox, InstallHandler, TakeDown, ResetIop, LookAway, ExecPS2,
    TakeCommand, ExceptionResume, CommandDone, Mount, SetPowerButton,
    StartListener, StartNaplink, ExecIop, ListenerUnmount, ListenerSend,
    PowerUnmount, PowerSend, CallEnds, Deliver, IopBoots, Receive, Press,
    ModuleReturns, HostCall, OtherInterrupt, IopException

(* The counters stay below their bounds.                                    *)
LEMMA CountsNext == ASSUME CountsOK, [Next]_vars PROVE CountsOK'
<1>1. \/ UNCHANGED nfails
      \/ nfails < MaxFails /\ nfails' = nfails + 1
  BY DEF Next, Fail, Once, EEOnly, IopOnly, SendOnly, StartOnly, countVars,
     Counts, vars
<1>2. \/ UNCHANGED npackets
      \/ npackets < MaxPackets /\ npackets' = npackets + 1
  BY DEF Next, EEOnly, IopOnly, SendOnly, StartOnly, countVars, Counts, vars
<1>3. \/ UNCHANGED npresses
      \/ npresses < MaxPresses /\ npresses' = npresses + 1
  BY DEF Next, EEOnly, IopOnly, SendOnly, StartOnly, countVars, Counts, vars
<1> QED BY <1>1, <1>2, <1>3, ConsoleAssumption DEF CountsOK

(* The parts about resets hold at every moment.                             *)
LEMMA WholeAlways == Spec => []Whole
<1>1. Init => Whole
  BY BootInit, PostedInit, GrantedInit, ConsoleAssumption
     DEF Init, Whole, CountsOK
<1>2. Whole /\ [Next]_vars => Whole'
  BY BootNext, PostedNext, GrantedNext, CountsNext DEF Whole
<1> QED BY <1>1, <1>2, PTL DEF Spec

(* There are no more restarts than TypeOK says.                             *)
LEMMA BootsBounded == ASSUME Whole PROVE boots \in 0 .. MaxBoots
<1>1. boots \in Nat /\ npackets \in Nat /\ npresses \in Nat
        /\ boots <= 1 + npackets + npresses
  BY DEF Whole, Granted, Resets, One
<1> QED BY <1>1, ConsoleAssumption DEF Whole, CountsOK, MaxBoots

(* Every step keeps the types of the EE's side.                             *)
LEMMA EEKindsNext == ASSUME Whole, Kinds, [Next]_vars PROVE EEKinds'
<1> USE DEF Kinds, EEKinds, eeVars, EEOnly, IopOnly, SendOnly, StartOnly
<1>1. epc' \in Labels
  BY DEF Labels, Listening, Restarting, Goto, Next, vars
<1>2. config' \in BOOLEAN /\ dmac' \in BOOLEAN /\ cmdThreadID' \in BOOLEAN
  BY Zenon DEF Next, vars
<1>3. scrEE' \in BOOLEAN
  BY Zenon DEF Next, vars
<1>4. next' \in 1 .. Len(Modules) + 1
  <2>1. \/ next' \in {next, 1}
        \/ next' = next + 1 /\ (next <= Len(Modules) \/ start # "none")
    BY DEF Next, vars
  <2>2. start # "none" => next \in 1 .. Len(Modules)
    BY DEF Whole, Boot, TurnsTaken, Indices
  <2> QED BY <2>1, <2>2, ConsoleAssumption
<1> QED BY <1>1, <1>2, <1>3, <1>4

(* A mailbox stays one when its flag is cleared.                            *)
LEMMA Cleared ==
    ASSUME NEW P, NEW box \in [set : BOOLEAN, packet : P]
    PROVE  [box EXCEPT !.set = FALSE] \in [set : BOOLEAN, packet : P]
OBVIOUS

(* Every step keeps the types of what is on the wire.                       *)
LEMMA BoxKindsNext == ASSUME Whole, Kinds, [Next]_vars PROVE BoxKinds'
<1> USE DEF Kinds, BoxKinds, boxVars, EEOnly, IopOnly, SendOnly, StartOnly
<1>1. \A op \in Ops : Packet(op) \in PacketsOK
  BY BootsBounded DEF Packet, PacketsOK
<1>2. NoPacket \in PacketsOK
  BY ConsoleAssumption DEF NoPacket, PacketsOK, MaxBoots
<1>3. wire' \in PacketsOK
  <2>1. wire' \in {wire, NoPacket} \/ \E op \in Ops : wire' = Packet(op)
    BY DEF IopCleared, Send, ChooseMode, Ops, Next, vars
  <2> QED BY <1>1, <1>2, <2>1
<1>4. mailbox' \in [set : BOOLEAN, packet : PacketsOK]
  <2>1. \/ mailbox' \in {mailbox, [mailbox EXCEPT !.set = FALSE]}
        \/ mailbox' = [set |-> ~dmac, packet |-> wire]
    BY DEF Box, Next, vars
  <2>2. ASSUME NEW b \in BOOLEAN, NEW p \in PacketsOK
        PROVE  [set |-> b, packet |-> p] \in [set : BOOLEAN, packet : PacketsOK]
    OBVIOUS
  <2>3. [mailbox EXCEPT !.set = FALSE] \in [set : BOOLEAN, packet : PacketsOK]
    BY Cleared, Zenon
  <2>4. (~dmac) \in BOOLEAN
    BY Zenon
  <2>5. wire \in PacketsOK /\ mailbox \in [set : BOOLEAN, packet : PacketsOK]
    OBVIOUS
  <2>6. [set |-> ~dmac, packet |-> wire] \in [set : BOOLEAN, packet : PacketsOK]
    BY <2>2, <2>4, <2>5, Zenon
  <2> HIDE DEF Kinds, BoxKinds
  <2> QED BY <2>1, <2>3, <2>5, <2>6, Zenon
<1> QED BY <1>3, <1>4

(* Every step keeps the types of the IOP's side.                            *)
LEMMA IopKindsNext == ASSUME Whole, Kinds, [Next]_vars PROVE IopKinds'
<1> USE DEF Kinds, IopKinds, irxVars, hostVars, cmdVars, EEOnly, IopOnly,
            SendOnly, StartOnly
<1>1. sync' \in BOOLEAN /\ mounted' \in BOOLEAN
  BY Zenon DEF IopCleared, FsysUnmount, Next, vars
<1>2. \A m \in loaded' : \E k \in 1 .. Len(Modules) : Modules[k] = m
  <2>1. \/ loaded' \in {loaded, {}}
        \/ next <= Len(Modules) /\ loaded' = loaded \cup {Modules[next]}
    BY DEF IopCleared, Next, vars
  <2>2. next <= Len(Modules) => next \in 1 .. Len(Modules)
    BY ConsoleAssumption DEF EEKinds
  <2> QED BY <2>1, <2>2
<1>3. start' \in {"none", "mount", "button", "thread", "naplink", "done"}
  BY DEF IopCleared, Next, vars
<1>4. holder' \in {"nobody", "ee", "listener"}
  BY DEF IopCleared, Next, vars
<1>5. listener' \in {"none", "idle", "unmount", "send", "execiop", "loading",
                     "running"}
  BY DEF IopCleared, Next, vars
<1>6. power' \in {"none", "idle", "unmount", "send"}
  BY DEF IopCleared, Next, vars
<1>7. scrIOP' \in BOOLEAN
  BY Zenon DEF IopCleared, ChooseMode, Next, vars
<1> QED BY <1>1, <1>2, <1>3, <1>4, <1>5, <1>6, <1>7

(* Every step keeps the types of what is remembered since a restart.        *)
LEMMA SinceKindsNext == ASSUME Whole, Kinds, [Next]_vars PROVE SinceKinds'
<1> USE DEF Kinds, SinceKinds, sinceVars, EEOnly, IopOnly, SendOnly, StartOnly
<1>1. asked' \in BOOLEAN /\ moded' \in BOOLEAN
  BY Zenon DEF IopCleared, ChooseMode, Accept, Next, vars
<1>2. lost' \subseteq Ops
  <2>1. Pending => mailbox.packet.op \in Ops
    BY DEF Whole, Posted
  <2>2. wire.op \in Ops \cup {"none"}
    BY DEF BoxKinds, PacketsOK
  <2>3. CASE ClearMailbox \/ Deliver
    BY <2>1, <2>3 DEF ClearMailbox, Deliver, Pending
  <2>4. CASE Receive \/ ListenerSend \/ PowerSend \/ Press \/ IopException
    <3>1. \/ lost' \in {lost, lost \ {"reset"}}
          \/ \E op \in Ops : lost' \in {lost \cup {op},
                                        lost \cup ({wire.op} \ {"none"})}
      BY <2>4 DEF Receive, ListenerSend, PowerSend, Press, IopException, Accept,
         ChooseMode, Send, Ops
    <3> QED BY <2>2, <3>1
  <2>5. CASE ~(\/ ClearMailbox \/ Deliver \/ Receive \/ ListenerSend
               \/ PowerSend \/ Press \/ IopException)
    <3>1. lost' \in {lost, {}}
      BY <2>5 DEF IopCleared, Next, vars
    <3> QED BY <3>1
  <2> QED BY <2>3, <2>4, <2>5
<1>3. missed' \subseteq Ops
  <2>1. Pending => mailbox.packet.op \in Ops
    BY DEF Whole, Posted
  <2>2. wire # NoPacket => wire.op \in Ops
    BY DEF Whole, Posted
  <2>3. CASE ExceptionResume \/ Deliver \/ OtherInterrupt
    BY <2>1, <2>2, <2>3 DEF ExceptionResume, Deliver, OtherInterrupt, Wake,
       Pending
  <2>4. CASE ~(ExceptionResume \/ Deliver \/ OtherInterrupt)
    <3>1. missed' \in {missed, {}, missed \ {"reset"}}
      BY <2>4 DEF IopCleared, Accept, ChooseMode, Next, vars
    <3> QED BY <3>1
  <2> QED BY <2>3, <2>4
<1> QED BY <1>1, <1>2, <1>3

HIDE DEF EEStep, StartStep, ListenerStep, PowerStep, External,
    GetIpConfig, RestartIOP, IopSynced, LoadModule, ModuleStarted, InitCmdRpc,
    ClearMailbox, InstallHandler, TakeDown, ResetIop, LookAway, ExecPS2,
    TakeCommand, ExceptionResume, CommandDone, Mount, SetPowerButton,
    StartListener, StartNaplink, ExecIop, ListenerUnmount, ListenerSend,
    PowerUnmount, PowerSend, CallEnds, Deliver, IopBoots, Receive, Press,
    ModuleReturns, HostCall, OtherInterrupt, IopException

(* At power-on everything has its type.                                     *)
LEMMA KindsInit == Init => Kinds
<1> SUFFICES ASSUME Init PROVE Kinds
  OBVIOUS
<1> USE DEF Init
<1>1. /\ config \in BOOLEAN /\ scrEE \in BOOLEAN /\ dmac \in BOOLEAN
      /\ cmdThreadID \in BOOLEAN /\ sync \in BOOLEAN /\ mounted \in BOOLEAN
      /\ scrIOP \in BOOLEAN /\ asked \in BOOLEAN /\ moded \in BOOLEAN
  BY Zenon
<1>2. EEKinds
  BY <1>1, ConsoleAssumption DEF EEKinds, Labels
<1>3. BoxKinds
  <2>1. NoPacket \in PacketsOK
    BY ConsoleAssumption DEF NoPacket, PacketsOK, MaxBoots
  <2>2. FALSE \in BOOLEAN
    OBVIOUS
  <2> QED BY <1>1, <2>1, <2>2, Zenon DEF BoxKinds, Box
<1>4. IopKinds /\ SinceKinds
  BY <1>1 DEF IopKinds, SinceKinds
<1> QED BY <1>2, <1>3, <1>4 DEF Kinds

(* Every variable has its type at every moment; the part of it that is hard *)
(* is that the machine restarts no more often than it was asked to, however *)
(* the resets of the PC, of the button and of the first boot overlap.       *)
THEOREM TypeCorrect == Spec => []TypeOK
<1>1. Whole /\ Kinds /\ [Next]_vars => Kinds'
  BY EEKindsNext, BoxKindsNext, IopKindsNext, SinceKindsNext DEF Kinds
<1>2. Whole /\ Kinds => TypeOK
  BY BootsBounded DEF Whole, Posted, CountsOK, Kinds, EEKinds, BoxKinds,
     IopKinds, SinceKinds, PacketsOK, Labels, Listening, Restarting, TypeOK
<1> QED BY <1>1, <1>2, KindsInit, WholeAlways, PTL DEF Spec

-----------------------------------------------------------------------------
(* How exceptions are shown: the mode the IOP chose last is on its way to   *)
(* the EE, or has come to it.                                               *)
Modes == {"scrdump", "netdump"}
Waiting == Pending /\ mailbox.packet.op \in Modes

NoMode == ~sync \/ epc = "exec" => ~moded

Follows ==
    moded /\ (lost \cup missed) \cap Modes = {} =>
        /\ wire.op \in Modes => (scrIOP <=> wire.op = "scrdump")
        /\ wire.op \notin Modes /\ Waiting =>
             /\ mailbox.packet.boot = boots
             /\ scrIOP <=> mailbox.packet.op = "scrdump"
        /\ wire.op \notin Modes /\ ~Waiting => (scrEE <=> scrIOP)

(* Every step keeps NoMode: no mode is chosen before the listener is        *)
(* there.                                                                   *)
LEMMA NoModeNext == ASSUME Boot, NoMode, [Next]_vars PROVE NoMode'
<1> USE DEF NoMode, Boot, Crossing, NobodyThere, eeVars, boxVars, irxVars,
            hostVars, cmdVars, sinceVars, countVars, EEOnly, IopOnly,
            SendOnly, StartOnly, Goto, Counts
<1>1. CASE RestartIOP \/ ResetIop \/ IopBoots
  BY <1>1 DEF RestartIOP, ResetIop, IopBoots, IopCleared
<1>2. CASE LookAway \/ ExecPS2
  BY <1>2 DEF LookAway, ExecPS2
<1>3. CASE Receive
  BY <1>3 DEF Receive, ChooseMode, IopClear
<1>4. CASE TakeCommand \/ ExceptionResume
  <2>1. epc' # "exec" /\ UNCHANGED <<sync, moded>>
    BY <1>4 DEF TakeCommand, ExceptionResume
  <2> QED BY <2>1
<1>5. CASE GetIpConfig \/ IopSynced \/ LoadModule \/ ModuleStarted
             \/ InitCmdRpc \/ ClearMailbox \/ InstallHandler \/ TakeDown
             \/ CommandDone
  <2>1. epc' # "exec" /\ UNCHANGED <<sync, moded>>
    BY <1>5 DEF GetIpConfig, IopSynced, LoadModule, ModuleStarted, InitCmdRpc,
       ClearMailbox, InstallHandler, TakeDown, CommandDone
  <2> QED BY <2>1
<1>6. CASE StartStep \/ ListenerStep \/ PowerStep \/ CallEnds \/ Deliver
             \/ Press \/ ModuleReturns \/ HostCall \/ OtherInterrupt
             \/ IopException \/ UNCHANGED vars
  <2>1. UNCHANGED <<epc, sync, moded>>
    BY <1>6 DEF StartStep, Mount, SetPowerButton, StartListener, StartNaplink,
       ListenerStep, PowerStep, ExecIop, ListenerUnmount, ListenerSend,
       PowerUnmount, PowerSend, CallEnds, Deliver, Press, ModuleReturns,
       HostCall, OtherInterrupt, IopException, vars
  <2> QED BY <2>1
<1> QED
  BY <1>1, <1>2, <1>3, <1>4, <1>5, <1>6 DEF Next, EEStep, External

(* A packet that is sent: it replaces what was queued, or is dropped.       *)
LEMMA FollowsSent ==
    ASSUME Follows, NEW op \in Ops, Send(op),
           UNCHANGED <<scrEE, mailbox, woken, boots, missed>>,
           \/ op \in Modes /\ (scrIOP' <=> op = "scrdump")
           \/ op \notin Modes /\ scrIOP' = scrIOP /\ moded' = moded
    PROVE  Follows'
<1>1. CASE lost' = lost \cup {op} /\ UNCHANGED wire
  BY <1>1 DEF Follows, Waiting, Pending
<1>2. CASE wire' = Packet(op) /\ lost' = lost \cup ({wire.op} \ {"none"})
  <2>1. wire'.op = op
    BY <1>2 DEF Packet
  <2>2. wire.op \in Modes => lost' \cap Modes # {}
    BY <1>2 DEF Modes
  <2> QED BY <1>2, <2>1, <2>2 DEF Follows, Waiting, Pending
<1> QED BY <1>1, <1>2 DEF Send

(* Every step keeps Follows: the IOP sets its mode and sends it at once,    *)
(* and the EE takes it from the mailbox.                                    *)
LEMMA FollowsNext ==
    ASSUME Boot, Posted, NoMode, Follows, [Next]_vars PROVE Follows'
<1> USE DEF eeVars, boxVars, irxVars, hostVars, cmdVars, sinceVars, countVars,
            EEOnly, IopOnly, SendOnly, StartOnly, Goto, Counts
<1>1. CASE RestartIOP \/ ResetIop \/ IopBoots
  <2>1. \/ moded' = FALSE
        \/ UNCHANGED <<moded, lost, missed, wire, scrIOP, mailbox, woken, boots,
                       scrEE>>
    BY <1>1 DEF RestartIOP, ResetIop, IopBoots, IopCleared
  <2> QED BY <2>1 DEF Follows, Waiting, Pending
<1>2. CASE ExecPS2
  BY <1>2 DEF ExecPS2, NoMode, Follows
<1>3. CASE ClearMailbox
  <2>1. /\ UNCHANGED <<moded, missed, wire, scrIOP, woken, boots, scrEE>>
        /\ mailbox' = [mailbox EXCEPT !.set = FALSE] /\ epc = "clear"
        /\ mailbox.set /\ mailbox.packet.boot = boots
             => lost' = lost \cup {mailbox.packet.op}
        /\ lost \subseteq lost'
    BY <1>3 DEF ClearMailbox
  <2>2. ~(woken > 0)
    BY <2>1 DEF Posted, Restarting, Listening
  <2>3. ~Waiting'
    BY <2>1, <2>2 DEF Waiting, Pending
  <2>4. wire.op \notin Modes /\ Waiting /\ (lost' \cup missed') \cap Modes = {}
          => ~moded
    BY <2>1, <2>2 DEF Follows, Waiting, Pending
  <2> QED BY <2>1, <2>3, <2>4 DEF Follows
<1>4. CASE Deliver
  <2>1. /\ UNCHANGED <<moded, scrIOP, boots, scrEE, dmac>>
        /\ wire # NoPacket /\ wire' = NoPacket
        /\ mailbox'.packet = wire
        /\ mailbox'.set \/ woken' = woken + 1 \/ wire.op \in missed'
        /\ Pending => lost' = lost \cup {mailbox.packet.op}
        /\ lost \subseteq lost' /\ missed \subseteq missed'
    BY <1>4 DEF Deliver, Wake, Box, Pending
  <2>2. wire'.op \notin Modes
    BY <2>1 DEF NoPacket, Modes
  <2>3. wire.boot = boots
    BY <2>1 DEF Boot, Crossing, Fresh
  <2>4. /\ Waiting' => wire.op \in Modes
        /\ wire.op \in Modes => Waiting' \/ wire.op \in missed'
    BY <2>1 DEF Waiting, Pending, Posted
  <2>5. Waiting => lost' \cap Modes # {}
    BY <2>1 DEF Waiting
  <2> QED BY <2>1, <2>2, <2>3, <2>4, <2>5 DEF Follows
<1>5. CASE TakeCommand
  <2>1. /\ UNCHANGED <<moded, lost, missed, scrIOP, boots, mailbox, wire>>
        /\ epc = "ready" /\ woken > 0
    BY <1>5 DEF TakeCommand
  <2>3. /\ mailbox.packet.op = "scrdump" => scrEE' = TRUE
        /\ mailbox.packet.op = "netdump" => scrEE' = FALSE
        /\ mailbox.packet.op \notin Modes => scrEE' = scrEE
    BY <1>5 DEF TakeCommand, Modes
  <2>4. (Waiting <=> mailbox.packet.op \in Modes) /\ (Waiting' => Waiting)
    BY <2>1 DEF Waiting, Pending
  <2>5. CASE mailbox.packet.op \in Modes
    BY <2>1, <2>3, <2>4, <2>5 DEF Follows, Modes
  <2>6. CASE mailbox.packet.op \notin Modes
    BY <2>1, <2>3, <2>4, <2>6 DEF Follows
  <2> QED BY <2>5, <2>6
<1>10. CASE ExceptionResume
  <2>1. /\ UNCHANGED <<moded, lost, scrIOP, boots, mailbox, wire, scrEE>>
        /\ woken > 0 /\ woken' = woken - 1
        /\ missed' = IF woken = 1 THEN missed \cup {mailbox.packet.op}
                     ELSE missed
    BY <1>10 DEF ExceptionResume
  <2>2. (Waiting' => Waiting) /\ (Waiting => Waiting' \/ woken = 1)
    BY <2>1 DEF Waiting, Pending, Posted
  <2>3. woken = 1 /\ Waiting => missed' \cap Modes # {}
    BY <2>1 DEF Waiting
  <2> QED BY <2>1, <2>2, <2>3 DEF Follows
<1>6. CASE OtherInterrupt
  <2>1. /\ UNCHANGED <<moded, lost, scrIOP, boots, wire, scrEE>>
        /\ mailbox'.packet = mailbox.packet /\ mailbox.set
        /\ \/ woken' = woken + 1 /\ missed' = missed
           \/ missed' = missed \cup {mailbox.packet.op}
    BY <1>6 DEF OtherInterrupt, Wake
  <2>2. (Waiting' => Waiting)
          /\ (Waiting => Waiting' \/ mailbox.packet.op \in missed')
    BY <2>1 DEF Waiting, Pending, Posted
  <2>3. mailbox.packet.op \in missed' /\ Waiting => missed' \cap Modes # {}
    BY DEF Waiting
  <2>4. missed \subseteq missed'
    BY <2>1
  <2> QED BY <2>1, <2>2, <2>3, <2>4 DEF Follows
<1>7. CASE ListenerSend \/ PowerSend \/ IopException
  <2>1. /\ Send("reset") \/ Send("iopexcep")
        /\ UNCHANGED <<moded, scrIOP, scrEE, mailbox, woken, boots, missed>>
    BY <1>7 DEF ListenerSend, PowerSend, IopException
  <2> QED BY <2>1, FollowsSent DEF Ops, Modes
<1>8. CASE Receive
  <2>0. UNCHANGED <<scrEE, mailbox, woken, boots>>
    BY <1>8 DEF Receive
  <2>1. CASE /\ UNCHANGED <<wire, scrIOP, moded>>
             /\ UNCHANGED <<lost, missed>> \/ Accept
    <3>1. (lost \cup missed) \cap Modes = {}
            <=> (lost' \cup missed') \cap Modes = {}
      BY <2>1 DEF Accept, Modes
    <3> QED BY <2>0, <2>1, <3>1 DEF Follows, Waiting, Pending
  <2>2. CASE Send("other") /\ UNCHANGED <<scrIOP, moded, missed>>
    BY <2>0, <2>2, FollowsSent DEF Ops, Modes
  <2>3. ASSUME NEW op \in Modes, ChooseMode(op), UNCHANGED missed
        PROVE  Follows'
    <3>1. Send(op) /\ (scrIOP' <=> op = "scrdump")
      BY <2>3 DEF ChooseMode
    <3>2. op \in Ops
      BY DEF Modes, Ops
    <3> QED BY <2>0, <2>3, <3>1, <3>2, FollowsSent
  <2> QED BY <1>8, <2>1, <2>2, <2>3 DEF Receive, Modes
<1>9. CASE \/ GetIpConfig \/ IopSynced \/ LoadModule \/ ModuleStarted
           \/ InitCmdRpc \/ InstallHandler \/ TakeDown \/ LookAway
           \/ CommandDone \/ StartStep \/ ListenerUnmount \/ PowerUnmount
           \/ ExecIop \/ CallEnds \/ ModuleReturns \/ HostCall
           \/ UNCHANGED vars
  <2>1. UNCHANGED <<moded, lost, missed, wire, scrIOP, mailbox, woken, boots,
                    scrEE>>
    BY <1>9 DEF GetIpConfig, IopSynced, LoadModule, ModuleStarted, InitCmdRpc,
       InstallHandler, TakeDown, LookAway, CommandDone, StartStep, Mount,
       SetPowerButton, StartListener, StartNaplink, ListenerUnmount,
       PowerUnmount, ExecIop, CallEnds, ModuleReturns, HostCall, vars
  <2> QED BY <2>1 DEF Follows, Waiting, Pending
<1>11. CASE Press
  <2>1. /\ Accept
        /\ UNCHANGED <<moded, wire, scrIOP, mailbox, woken, boots, scrEE>>
    BY <1>11 DEF Press
  <2>2. (lost \cup missed) \cap Modes = {}
          <=> (lost' \cup missed') \cap Modes = {}
    BY <2>1 DEF Accept, Modes
  <2> QED BY <2>1, <2>2 DEF Follows, Waiting, Pending
<1> QED
  BY <1>1, <1>2, <1>3, <1>4, <1>5, <1>6, <1>7, <1>8, <1>9, <1>10, <1>11
     DEF Next, EEStep, ListenerStep, PowerStep, External

(* Both processors show exceptions the same way once everything that was    *)
(* sent has come: whatever crossed on the way, and across restarts.         *)
THEOREM ModesAlwaysAgree == Spec => []ModesAgree
<1>1. Init => NoMode /\ Follows
  BY DEF Init, NoMode, Follows
<1>2. Whole /\ NoMode /\ Follows /\ [Next]_vars => NoMode' /\ Follows'
  BY NoModeNext, FollowsNext DEF Whole
<1>3. TypeOK /\ Follows => ModesAgree
  <2> SUFFICES ASSUME TypeOK, Follows, Quiet, moded,
                      (lost \cup missed) \cap {"scrdump", "netdump"} = {}
               PROVE  scrEE = scrIOP
    BY DEF ModesAgree
  <2>1. scrEE <=> scrIOP
    BY DEF Follows, Quiet, Waiting, Pending, NoPacket, Modes
  <2>2. scrEE \in BOOLEAN /\ scrIOP \in BOOLEAN
    BY DEF TypeOK
  <2> QED BY <2>1, <2>2, Zenon
<1> QED BY <1>1, <1>2, <1>3, WholeAlways, TypeCorrect, PTL DEF Spec
=============================================================================
