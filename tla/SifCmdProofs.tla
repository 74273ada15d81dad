---------------------------- MODULE SifCmdProofs ----------------------------
(* Theorems about SifCmd, for every number of senders, packets and programs *)
(* and whether or not IOP exceptions occur and StartThread fails.           *)
EXTENDS SifCmd, TLAPS

(* Every variable keeps its type; a program about to be started has a       *)
(* thread.                                                                  *)
TypeInv ==
    /\ TypeOK
    /\ cpc \in {"loaded", "start"} => newPid \in Pids

(* Every step of the channel, its senders and cmdThread keeps TypeInv.      *)
THEOREM TypeInvariant == Spec => []TypeInv
<1> USE SifAssumption DEF Ids, Pids, Cmd
<1>1. Init => TypeInv
  <2> SUFFICES ASSUME Init PROVE TypeInv
    OBVIOUS
  <2>1. sifOn \in BOOLEAN /\ intr \in BOOLEAN /\ flag \in BOOLEAN
    BY Zenon DEF Init
  <2>2. mailbox \in [set : BOOLEAN, op : Ops, id : Ids]
    BY DEF Init, Box, Ops
  <2>3. user \in [Pids -> Alive \cup {"none", "ready", "dead"}]
    BY DEF Init
  <2> QED
    <3>1. rpc_data \in [op : Ops, id : Ids] /\ nsent \in Ids
      BY DEF Init, Packet, Ops
    <3>2. /\ spc \in [Senders -> {"idle", "filled"}]
          /\ ipc \in {"idle", "chain", "wake"}
          /\ dmaPending \in 0 .. QueueLen /\ wakeups \in Nat
      BY DEF Init
    <3>3. cpc = "asleep" /\ cmdThreadID \in {0, Cmd}
      BY DEF Init
    <3>4. /\ userThreadID \in 0 .. MaxProgs /\ newPid \in 0 .. MaxProgs
          /\ nother \in 0 .. MaxOther /\ nprog \in 0 .. MaxProgs
          /\ executed \subseteq Ids /\ again \subseteq Ids /\ crowded \subseteq Ids
      BY DEF Init
    <3> QED
      BY <2>1, <2>2, <2>3, <3>1, <3>2, <3>3, <3>4 DEF TypeInv, TypeOK
<1>2. TypeInv /\ [Next]_vars => TypeInv'
  <2> SUFFICES ASSUME TypeInv, [Next]_vars PROVE TypeInv'
    OBVIOUS
  <2> USE DEF TypeInv, TypeOK, Ops, Alive, iopVars, sifVars, intrVars, cmdVars, userVars
  <2>1. ASSUME NEW s \in Senders, NEW op \in SendOps, Fill(s, op) PROVE TypeInv'
    BY <2>1 DEF Fill, Packet, SendOps
  <2>2. ASSUME NEW s \in Senders, Queue(s) PROVE TypeInv'
    BY <2>2 DEF Queue, Enqueue
  <2>3. CASE IopException
    BY <2>3 DEF IopException, Enqueue, Packet
  <2>4. CASE Transfer
    <3>1. sifOn' \in BOOLEAN /\ intr' \in BOOLEAN /\ flag' \in BOOLEAN
      BY <2>4, Zenon DEF Transfer
    <3>2. mailbox' \in [set : BOOLEAN, op : Ops, id : Ids]
      BY <2>4 DEF Transfer, Box
    <3>3. dmaPending' \in 0 .. QueueLen /\ crowded' \subseteq Ids
      <4>1. rpc_data.id \in Ids
        OBVIOUS
      <4>2. crowded' = crowded \/ crowded' = crowded \cup {rpc_data.id}
        BY <2>4 DEF Transfer
      <4>3. crowded' \subseteq Ids
        BY <4>1, <4>2, Zenon
      <4> QED
        BY <2>4, <4>3 DEF Transfer
    <3> QED
      BY <2>4, <3>1, <3>2, <3>3 DEF Transfer
  <2>5. CASE OtherTransfer
    <3>1. sifOn' \in BOOLEAN /\ intr' \in BOOLEAN /\ flag' \in BOOLEAN
      BY <2>5, Zenon DEF OtherTransfer
    <3> QED
      BY <2>5, <3>1 DEF OtherTransfer
  <2>6. CASE IntrRead
    <3>1. mailbox.set \in BOOLEAN
      OBVIOUS
    <3>2. intr' \in BOOLEAN /\ flag' \in BOOLEAN
      BY <2>6, <3>1, Zenon DEF IntrRead
    <3> QED
      BY <2>6, <3>2 DEF IntrRead
  <2>7. CASE IntrChain
    BY <2>7 DEF IntrChain
  <2>8. CASE IntrWake
    <3>1. mailbox' \in [set : BOOLEAN, op : Ops, id : Ids]
      BY <2>8 DEF IntrWake
    <3>2. wakeups' \in Nat
      BY <2>8 DEF IntrWake
    <3>3. sifOn' \in BOOLEAN /\ intr' \in BOOLEAN /\ flag' \in BOOLEAN
      BY <2>8, Zenon DEF IntrWake
    <3> QED
      BY <2>8, <3>1, <3>2, <3>3 DEF IntrWake
  <2>9. CASE Resume
    BY <2>9 DEF Resume
  <2>10. CASE Dispatch
    <3>1. mailbox.op \in Ops /\ mailbox.id \in Ids
      OBVIOUS
    <3>2. cpc' \in Ops /\ cpc' \notin {"loaded", "start"}
      BY <2>10, <3>1 DEF Dispatch, SendOps
    <3>3. executed' \subseteq Ids /\ again' \subseteq Ids
      BY <2>10, <3>1 DEF Dispatch
    <3> QED
      BY <2>10, <3>2, <3>3 DEF Dispatch
  <2>11. CASE RunOther
    BY <2>11 DEF RunOther
  <2>12. CASE ExecRefuse
    BY <2>12 DEF ExecRefuse
  <2>13. CASE LoadFails
    BY <2>13 DEF LoadFails
  <2>14. CASE ExecLoad
    BY <2>14 DEF ExecLoad
  <2>15. CASE ExecAssign
    BY <2>15 DEF ExecAssign
  <2>16. CASE ExecStart
    <3>1. user' \in [Pids -> Alive \cup {"none", "ready", "dead"}]
      BY <2>16 DEF ExecStart, Alive
    <3> QED
      BY <2>16, <3>1 DEF ExecStart
  <2>17. CASE ExecStartFail
    BY <2>17 DEF ExecStartFail
  <2>18. CASE RunIopException
    BY <2>18 DEF RunIopException, KillUser
  <2>19. CASE ExceptionResume
    BY <2>19 DEF ExceptionResume
  <2>20. CASE RunReset
    BY <2>20 DEF RunReset, KillUser
  <2>21. ASSUME NEW p \in Pids, UserCrash(p) PROVE TypeInv'
    BY <2>21 DEF UserCrash
  <2>22. ASSUME NEW p \in Pids, UserExit(p) PROVE TypeInv'
    BY <2>22 DEF UserExit
  <2>23. CASE UNCHANGED vars
    BY <2>23 DEF vars
  <2> QED
    BY <2>1, <2>2, <2>3, <2>4, <2>5, <2>6, <2>7, <2>8, <2>9, <2>10, <2>11,
       <2>12, <2>13, <2>14, <2>15, <2>16, <2>17, <2>18, <2>19, <2>20, <2>21, <2>22, <2>23, Zenon
    DEF Next, InterruptStep, CmdStep
<1> QED
  BY <1>1, <1>2, PTL DEF Spec

(* The state variables of the command channel stay within their types.      *)
THEOREM TypeCorrect == Spec => []TypeOK
<1>1. TypeInv => TypeOK
  BY DEF TypeInv
<1> QED
  BY <1>1, TypeInvariant, PTL

-----------------------------------------------------------------------------
(* While a program is loaded and not yet started no other one is there.     *)
TrackInv ==
    /\ ProgramTracked
    /\ cpc = "loaded" => userThreadID = 0
    /\ cpc = "start" => userThreadID = newPid /\ user[newPid] = "ready"
    /\ cpc = "loaded" => user[newPid] = "ready"

(* The user program's thread is never lost sight of.                        *)
THEOREM ProgramIsTracked == Spec => []ProgramTracked
<1> USE SifAssumption DEF Pids, Alive
<1>1. Init => TrackInv
  BY DEF Init, TrackInv, ProgramTracked
<1>2. TypeInv /\ TrackInv /\ [Next]_vars => TrackInv'
  <2> SUFFICES ASSUME TypeInv, TrackInv, [Next]_vars PROVE TrackInv'
    OBVIOUS
  <2> USE DEF TypeInv, TypeOK, TrackInv, ProgramTracked, iopVars, sifVars, intrVars, cmdVars, userVars
  <2>1. ASSUME NEW s \in Senders, NEW op \in SendOps, Fill(s, op) PROVE TrackInv'
    BY <2>1 DEF Fill
  <2>2. ASSUME NEW s \in Senders, Queue(s) PROVE TrackInv'
    BY <2>2 DEF Queue, Enqueue
  <2>3. CASE IopException
    BY <2>3 DEF IopException, Enqueue
  <2>4. CASE Transfer
    BY <2>4 DEF Transfer
  <2>5. CASE OtherTransfer
    BY <2>5 DEF OtherTransfer
  <2>6. CASE IntrRead
    BY <2>6 DEF IntrRead
  <2>7. CASE IntrChain
    BY <2>7 DEF IntrChain
  <2>8. CASE IntrWake
    BY <2>8 DEF IntrWake
  <2>9. CASE Resume
    BY <2>9 DEF Resume
  <2>10. CASE Dispatch
    <3>1. cpc' \notin {"loaded", "start"}
      BY <2>10 DEF Dispatch, Ops, SendOps
    <3> QED
      BY <2>10, <3>1 DEF Dispatch
  <2>11. CASE RunOther
    BY <2>11 DEF RunOther
  <2>12. CASE ExecRefuse
    BY <2>12 DEF ExecRefuse
  <2>13. CASE LoadFails
    BY <2>13 DEF LoadFails
  <2>14. CASE ExecLoad
    BY <2>14 DEF ExecLoad
  <2>15. CASE ExecAssign
    BY <2>15 DEF ExecAssign
  <2>16. CASE ExecStart
    BY <2>16 DEF ExecStart
  <2>17. CASE ExecStartFail
    BY <2>17 DEF ExecStartFail
  <2>18. CASE RunIopException
    BY <2>18 DEF RunIopException, KillUser
  <2>19. CASE ExceptionResume
    BY <2>19 DEF ExceptionResume
  <2>20. CASE RunReset
    BY <2>20 DEF RunReset, KillUser
  <2>21. ASSUME NEW p \in Pids, UserCrash(p) PROVE TrackInv'
    BY <2>21 DEF UserCrash
  <2>22. ASSUME NEW p \in Pids, UserExit(p) PROVE TrackInv'
    BY <2>22 DEF UserExit
  <2>23. CASE UNCHANGED vars
    BY <2>23 DEF vars
  <2> QED
    BY <2>1, <2>2, <2>3, <2>4, <2>5, <2>6, <2>7, <2>8, <2>9, <2>10, <2>11,
       <2>12, <2>13, <2>14, <2>15, <2>16, <2>17, <2>18, <2>19, <2>20, <2>21, <2>22, <2>23, Zenon
    DEF Next, InterruptStep, CmdStep
<1>3. TrackInv => ProgramTracked
  BY DEF TrackInv
<1> QED
  BY <1>1, <1>2, <1>3, TypeInvariant, PTL DEF Spec

-----------------------------------------------------------------------------
(* Where the packet in the mailbox may still be on its way to being run:    *)
(* seen by the interrupt handler, or waiting for it, or a wake-up, counted  *)
(* or taken.                                                                *)
Seen == ipc # "idle" /\ flag
Owed == Seen \/ mailbox.set
Due  == wakeups > 0 \/ cpc = "awake"

(* A packet that landed alone is in one of these places, or has been run,   *)
(* or neither; and one wake-up is all it has.                               *)
Single ==
    /\ ~(Owed /\ Due)
    /\ ~(wakeups > 0 /\ cpc = "awake") /\ wakeups <= 1
    /\ Owed \/ Due => mailbox.id \notin executed

(* Packets are numbered as they are sent, and land in that order.           *)
OrderInv ==
    /\ mailbox.id <= rpc_data.id /\ rpc_data.id <= nsent
    /\ \A i \in executed : i <= mailbox.id

OnceInv ==
    /\ OrderInv
    /\ RunOnce
    /\ mailbox.id \notin crowded => Single

(* A packet is run once, unless it crowded another or landed twice.         *)
THEOREM NothingReplayed == Spec => []RunOnce
<1> USE SifAssumption DEF Ids
<1>1. Init => OnceInv
  BY DEF Init, OnceInv, OrderInv, RunOnce, Single, Owed, Due, Seen, Box, Packet
<1>2. TypeInv /\ OnceInv /\ [Next]_vars => OnceInv'
  <2> SUFFICES ASSUME TypeInv, OnceInv, [Next]_vars PROVE OnceInv'
    OBVIOUS
  <2> USE DEF TypeInv, TypeOK, OnceInv, OrderInv, RunOnce, Single, Owed, Due, Seen, iopVars, sifVars, intrVars, cmdVars, userVars
  <2>1. ASSUME NEW s \in Senders, NEW op \in SendOps, Fill(s, op) PROVE OnceInv'
    BY <2>1 DEF Fill, Packet
  <2>2. ASSUME NEW s \in Senders, Queue(s) PROVE OnceInv'
    BY <2>2 DEF Queue, Enqueue
  <2>3. CASE IopException
    BY <2>3 DEF IopException, Enqueue, Packet
  <2>4. CASE Transfer
    <3>1. OrderInv'
      BY <2>4 DEF Transfer, Box
    <3>2. RunOnce'
      BY <2>4 DEF Transfer
    <3>3. ASSUME mailbox'.id \notin crowded' PROVE Single'
      <4>1. ~StillToRun /\ mailbox.id # rpc_data.id
        BY <2>4, <3>3 DEF Transfer, Box
      <4>2. rpc_data.id \notin executed
        BY <4>1
      <4> QED
        BY <2>4, <4>1, <4>2 DEF Transfer, Box, StillToRun
    <3> QED
      BY <3>1, <3>2, <3>3
  <2>5. CASE OtherTransfer
    BY <2>5 DEF OtherTransfer
  <2>6. CASE IntrRead
    BY <2>6 DEF IntrRead
  <2>7. CASE IntrChain
    BY <2>7 DEF IntrChain
  <2>8. CASE IntrWake
    BY <2>8 DEF IntrWake
  <2>9. CASE Resume
    BY <2>9 DEF Resume
  <2>10. CASE Dispatch
    <3>1. cpc' # "awake" /\ cpc = "awake"
      BY <2>10 DEF Dispatch, Ops, SendOps
    <3>2. OrderInv'
      BY <2>10 DEF Dispatch
    <3>3. RunOnce'
      <4>1. mailbox.id \in executed => mailbox.id \in crowded
        BY <3>1
      <4>2. again' \subseteq again \cup (executed \cap {mailbox.id})
        BY <2>10 DEF Dispatch
      <4>3. crowded' = crowded /\ again \subseteq crowded
        BY <2>10 DEF Dispatch
      <4>4. RunOnce' <=> again' \subseteq crowded'
        BY DEF RunOnce
      <4> QED
        BY <4>1, <4>2, <4>3, <4>4, Zenon
    <3> QED
      BY <2>10, <3>1, <3>2, <3>3 DEF Dispatch
  <2>11. CASE RunOther
    BY <2>11 DEF RunOther
  <2>12. CASE ExecRefuse
    BY <2>12 DEF ExecRefuse
  <2>13. CASE LoadFails
    BY <2>13 DEF LoadFails
  <2>14. CASE ExecLoad
    BY <2>14 DEF ExecLoad
  <2>15. CASE ExecAssign
    BY <2>15 DEF ExecAssign
  <2>16. CASE ExecStart
    BY <2>16 DEF ExecStart
  <2>17. CASE ExecStartFail
    BY <2>17 DEF ExecStartFail
  <2>18. CASE RunIopException
    BY <2>18 DEF RunIopException, KillUser
  <2>19. CASE ExceptionResume
    BY <2>19 DEF ExceptionResume
  <2>20. CASE RunReset
    BY <2>20 DEF RunReset, KillUser
  <2>21. ASSUME NEW p \in Pids, UserCrash(p) PROVE OnceInv'
    BY <2>21 DEF UserCrash
  <2>22. ASSUME NEW p \in Pids, UserExit(p) PROVE OnceInv'
    BY <2>22 DEF UserExit
  <2>23. CASE UNCHANGED vars
    BY <2>23 DEF vars
  <2> QED
    BY <2>1, <2>2, <2>3, <2>4, <2>5, <2>6, <2>7, <2>8, <2>9, <2>10, <2>11,
       <2>12, <2>13, <2>14, <2>15, <2>16, <2>17, <2>18, <2>19, <2>20, <2>21, <2>22, <2>23, Zenon
    DEF Next, InterruptStep, CmdStep
<1>3. OnceInv => RunOnce
  BY DEF OnceInv
<1> QED
  BY <1>1, <1>2, <1>3, TypeInvariant, PTL DEF Spec
=============================================================================
