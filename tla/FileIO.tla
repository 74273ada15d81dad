------------------------------- MODULE FileIO -------------------------------
(***************************************************************************)
(* The host: file system of the IOP: the driver entries of iop/net_fsys.c,  *)
(* the RPC client and the connection server of iop/net_fio.c, and, as       *)
(* external parts, the socket layer and the PC that serves the requests.    *)
(*                                                                         *)
(* Callers are IOP threads inside a driver entry; Server is the thread      *)
(* fsysInit starts; Unmounters are threads in fsysUnmount (the command      *)
(* thread's reset and the power-off thread's).  A thread may be preempted   *)
(* between any two accesses to the shared static variables, so every read   *)
(* of pko_fileio_sock is a step of its own, and so are the two halves of    *)
(* pko_fileio_detach_socket.                                                *)
(*                                                                         *)
(* Data is abstract: a stream carries one token per request header, block   *)
(* of data, reply header and reply body.  An operation's number (id) stands *)
(* for the contents of its packet.                                          *)
(*                                                                         *)
(* A handle is known here by the connection it was made for.  In the code   *)
(* it is a number, which the socket layer hands out again when it is free:  *)
(* a handle kept too long then names another connection.                    *)
(***************************************************************************)
EXTENDS Integers, Sequences

CONSTANTS
    Callers,      \* threads calling the file system
    Unmounters,   \* threads unmounting it
    Server,       \* the connection server thread
    Conns,        \* TCP connections the PC may open, also their handles
    Nums,         \* the numbers the socket layer has for handles
    NoSock,       \* the invalid handle, -1 in the code
    FixedOps,     \* operations whose request and reply have a fixed size
    MaxLen,       \* bound: longest read or write
    MaxReqs       \* bound: number of requests

ASSUME AgentsAssumption ==
    /\ Server \notin Callers \cup Unmounters
    /\ Callers \cap Unmounters = {}
ASSUME HandleAssumption == NoSock \notin Conns \cup Nums
ASSUME OpsAssumption == FixedOps \cap {"read", "write", "other"} = {}
ASSUME BoundsAssumption == MaxLen \in Nat /\ MaxReqs \in Nat

VARIABLES
    sema,               \* count of fsys_sema (initial 1, max 1)
    semaLive,           \* fsys_sema has not been deleted
    pko_fileio_sock,    \* the current connection's handle, or NoSock
    pko_fileio_active,  \* the server's run flag
    send_packet,        \* the shared request buffer
    recv_packet,        \* the shared reply buffer
    fd,                 \* socket table: what each handle names by now
    num,                \* socket table: the number of each handle
    reused,             \* history: a number was handed out again while a
                        \* thread still held it
    peer,               \* the PC's end of each connection: new, up or gone
    backlog,            \* connections waiting in the listen queue
    up, down,           \* tokens under way to and from the PC
    pc,                 \* what each thread does next
    req,                \* caller's arguments
    ret,                \* caller's return value
    csock, cconn,       \* handle passed to send/recv, and what it named then
    dsock,              \* local of pko_close_socket
    client,             \* the server's client_sock
    nreq,               \* requests made so far
    sentOn,             \* history: connection that took the request header
    served              \* history: requests the PC has executed

semaVars   == <<sema, semaLive>>
globalVars == <<pko_fileio_sock, pko_fileio_active>>
bufferVars == <<send_packet, recv_packet>>
streamVars == <<up, down>>
sockVars   == <<fd, num, reused>>
netVars    == <<sockVars, peer, backlog, up, down>>
callVars   == <<req, ret, nreq, sentOn>>
argVars    == <<csock, cconn>>
vars == <<semaVars, globalVars, bufferVars, netVars, pc, callVars, argVars,
          dsock, client, served>>

Agents == Callers \cup Unmounters \cup {Server}
Ops    == FixedOps \cup {"read", "write"}
Socks  == Conns \cup {NoSock}
Ids    == 0 .. MaxReqs

(* One token of a stream.  val is a length in a request or a reply header,  *)
(* the return value in a reply body, the byte count of a data block.        *)
Token(k, op, id, val) == [k |-> k, op |-> op, id |-> id, val |-> val]
Kinds  == {"req", "torn", "data", "hdr", "body"}
Tokens == [k : Kinds, op : Ops \cup {"other"}, id : Ids, val : Int]

NoPacket == Token("data", "other", 0, 0)
NoReq    == [op |-> "other", len |-> 0, id |-> 0]

(* The reply length each operation passes to pko_accept_pkt.                *)
RlySize(op) ==
    CASE op = "read"    -> 14
      [] op = "dread"   -> 306
      [] op = "getstat" -> 50
      [] OTHER          -> 10

HeaderValid(command, length, expected_command, expected_length) ==
    /\ expected_length \in 6 .. 4096
    /\ command = expected_command
    /\ length = expected_length

ReadLengthValid(received, requested) ==
    requested >= 0 /\ received >= 0 /\ received <= requested

WriteProgressValid(written, requested) ==
    requested > 0 /\ written > 0 /\ written <= requested

(* What a handle names at this moment.                                      *)
ConnOf(h) == IF h = NoSock THEN NoSock ELSE fd[h]

Goto(a, label) == pc' = [pc EXCEPT ![a] = label]

Init ==
    /\ sema = 1 /\ semaLive = TRUE
    /\ pko_fileio_sock = NoSock /\ pko_fileio_active = FALSE
    /\ send_packet = NoPacket /\ recv_packet = NoPacket
    /\ fd = [h \in Conns |-> NoSock] /\ num = [h \in Conns |-> NoSock]
    /\ reused = FALSE
    /\ peer = [c \in Conns |-> "new"] /\ backlog = {}
    /\ up = [c \in Conns |-> <<>>] /\ down = [c \in Conns |-> <<>>]
    /\ pc = [a \in Agents |-> IF a = Server THEN "boot" ELSE "idle"]
    /\ req = [t \in Callers |-> NoReq] /\ ret = [t \in Callers |-> 0]
    /\ csock = [t \in Callers |-> NoSock] /\ cconn = [t \in Callers |-> NoSock]
    /\ dsock = [a \in Agents |-> NoSock] /\ client = NoSock
    /\ nreq = 0 /\ sentOn = [t \in Callers |-> NoSock] /\ served = {}

-----------------------------------------------------------------------------
(* The driver entries: fsys_sema around each call of net_fio.c.             *)

Mounted == \A u \in Unmounters : pc[u] # "unmounted"

Call(t, op, len) ==
    /\ pc[t] = "idle" /\ Mounted /\ nreq < MaxReqs
    /\ nreq' = nreq + 1
    /\ req' = [req EXCEPT ![t] = [op |-> op, len |-> len, id |-> nreq + 1]]
    /\ Goto(t, "wait")
    /\ UNCHANGED <<semaVars, globalVars, bufferVars, netVars, ret, sentOn,
                   argVars, dsock, client, served>>

FixedCall(t) == \E op \in FixedOps : Call(t, op, 0)
ReadCall(t)  == \E len \in -1 .. MaxLen : Call(t, "read", len)
WriteCall(t) == \E len \in -1 .. MaxLen : Call(t, "write", len)

(* Fault: the count is taken without waiting for it.                        *)
Acquire_NoWait(a) ==
    /\ pc[a] = "wait"
    /\ sema' = IF semaLive THEN sema - 1 ELSE sema
    /\ Goto(a, IF a \in Callers THEN "enter" ELSE "deactivate")
    /\ UNCHANGED <<semaLive, globalVars, bufferVars, netVars, callVars,
                   argVars, dsock, client, served>>

(* WaitSema; its result is ignored, so a deleted semaphore lets callers in. *)
Acquire(a) ==
    /\ pc[a] = "wait"
    /\ semaLive => sema > 0
    /\ sema' = IF semaLive THEN sema - 1 ELSE sema
    /\ Goto(a, IF a \in Callers THEN "enter" ELSE "deactivate")
    /\ UNCHANGED <<semaLive, globalVars, bufferVars, netVars, callVars,
                   argVars, dsock, client, served>>

(* Fault: an operation that failed returns without SignalSema.              *)
Release_Forget(a) ==
    /\ pc[a] = "release"
    /\ sema' = IF semaLive /\ (a \in Callers => ret[a] >= 0) THEN 1 ELSE sema
    /\ Goto(a, IF a \in Callers THEN "idle" ELSE "delete")
    /\ UNCHANGED <<semaLive, globalVars, bufferVars, netVars, callVars,
                   argVars, dsock, client, served>>

(* SignalSema, and the driver entry returns.                                *)
Release(a) ==
    /\ pc[a] = "release"
    /\ sema' = IF semaLive THEN 1 ELSE sema
    /\ Goto(a, IF a \in Callers THEN "idle" ELSE "delete")
    /\ IF a \in Callers
       THEN /\ req' = [req EXCEPT ![a] = NoReq]
            /\ ret' = [ret EXCEPT ![a] = 0]
            /\ sentOn' = [sentOn EXCEPT ![a] = NoSock]
            /\ csock' = [csock EXCEPT ![a] = NoSock]
            /\ cconn' = [cconn EXCEPT ![a] = NoSock]
       ELSE UNCHANGED <<req, ret, sentOn, argVars>>
    /\ UNCHANGED <<semaLive, globalVars, bufferVars, netVars, nreq, dsock,
                   client, served>>

(* fsysUnmount -> DelDrv -> fsysDestroy.                                    *)
Unmount(u) ==
    /\ pc[u] = "idle" /\ Mounted
    /\ Goto(u, "wait")
    /\ UNCHANGED <<semaVars, globalVars, bufferVars, netVars, callVars,
                   argVars, dsock, client, served>>

Deactivate(u) ==
    /\ pc[u] = "deactivate"
    /\ pko_fileio_active' = FALSE
    /\ Goto(u, "close_read")
    /\ UNCHANGED <<semaVars, pko_fileio_sock, bufferVars, netVars, callVars,
                   argVars, dsock, client, served>>

DeleteSema(u) ==
    /\ pc[u] = "delete"
    /\ semaLive' = FALSE
    /\ Goto(u, "unmounted")
    /\ UNCHANGED <<sema, globalVars, bufferVars, netVars, callVars, argVars,
                   dsock, client, served>>

-----------------------------------------------------------------------------
(* pko_close_socket: read the shared handle, invalidate it, disconnect what *)
(* was read.  It closes the current connection, whichever that is.          *)

AfterClose(a) ==
    IF a # Server THEN "release"
    ELSE IF client # NoSock THEN "install" ELSE "unlisten"

CloseRead(a) ==
    /\ pc[a] = "close_read"
    /\ dsock' = [dsock EXCEPT ![a] = pko_fileio_sock]
    /\ Goto(a, "close_clear")
    /\ UNCHANGED <<semaVars, globalVars, bufferVars, netVars, callVars,
                   argVars, client, served>>

(* Fault: a detach that returns the handle and leaves it in place.          *)
CloseClear_Keep(a) ==
    /\ pc[a] = "close_clear"
    /\ Goto(a, IF dsock[a] = NoSock THEN AfterClose(a) ELSE "disconnect")
    /\ UNCHANGED <<semaVars, globalVars, bufferVars, netVars, callVars,
                   argVars, dsock, client, served>>

CloseClear(a) ==
    /\ pc[a] = "close_clear"
    /\ pko_fileio_sock' = NoSock
    /\ Goto(a, IF dsock[a] = NoSock THEN AfterClose(a) ELSE "disconnect")
    /\ UNCHANGED <<semaVars, pko_fileio_active, bufferVars, netVars, callVars,
                   argVars, dsock, client, served>>

(* Closing frees the number; the PC sees the end of the stream.             *)
Disconnect(a) ==
    LET c == ConnOf(dsock[a]) IN
    /\ pc[a] = "disconnect"
    /\ IF c = NoSock
       THEN UNCHANGED netVars
       ELSE /\ fd' = [h \in Conns |-> IF fd[h] = c THEN NoSock ELSE fd[h]]
            /\ peer' = [peer EXCEPT ![c] = "gone"]
            /\ up' = [up EXCEPT ![c] = <<>>]
            /\ down' = [down EXCEPT ![c] = <<>>]
            /\ UNCHANGED <<num, reused, backlog>>
    /\ dsock' = [dsock EXCEPT ![a] = NoSock]
    /\ Goto(a, AfterClose(a))
    /\ UNCHANGED <<semaVars, globalVars, bufferVars, callVars, argVars,
                   client, served>>

-----------------------------------------------------------------------------
(* The RPC client: one request, one reply, on whatever connection the       *)
(* shared handle names each time it is read.                                *)

Refused(t) ==
    \/ pko_fileio_sock = NoSock
    \/ req[t].op \in {"read", "write"} /\ req[t].len < 0

Trivial(t) == req[t].op = "write" /\ req[t].len = 0

(* An early return: no connection, a negative length, an empty write.       *)
EnterReturn(t) ==
    /\ pc[t] = "enter"
    /\ Refused(t) \/ Trivial(t)
    /\ ret' = [ret EXCEPT ![t] = IF Refused(t) THEN -1 ELSE 0]
    /\ Goto(t, "release")
    /\ UNCHANGED <<semaVars, globalVars, bufferVars, netVars, req, nreq,
                   sentOn, argVars, dsock, client, served>>

EnterBuild(t) ==
    /\ pc[t] = "enter"
    /\ ~Refused(t) /\ ~Trivial(t)
    /\ send_packet' = Token("req", req[t].op, req[t].id, req[t].len)
    /\ Goto(t, "cap_send")
    /\ UNCHANGED <<semaVars, globalVars, recv_packet, netVars, callVars,
                   argVars, dsock, client, served>>

(* The handle is read into the argument of the next socket call.            *)
Captures == [cap_send |-> "send", cap_data |-> "data",
             cap_accept |-> "header", cap_rdata |-> "rdata"]

Capture(t) ==
    /\ pc[t] \in DOMAIN Captures
    /\ csock' = [csock EXCEPT ![t] = pko_fileio_sock]
    /\ cconn' = [cconn EXCEPT ![t] = ConnOf(pko_fileio_sock)]
    /\ Goto(t, Captures[pc[t]])
    /\ UNCHANGED <<semaVars, globalVars, bufferVars, netVars, callVars,
                   dsock, client, served>>

Fail(t) ==
    /\ ret' = [ret EXCEPT ![t] = -1]
    /\ Goto(t, "close_read")

(* Faults below use this: a failure that leaves the connection as it is.     *)
FailKeep(t) ==
    /\ ret' = [ret EXCEPT ![t] = -1]
    /\ Goto(t, "release")

Deliver(c, token) ==
    up' = IF peer[c] = "up" THEN [up EXCEPT ![c] = Append(@, token)] ELSE up

(* Fault: the header is sent again although it has gone.                    *)
SendHeader_Twice(t) ==
    LET c == ConnOf(csock[t]) IN
    /\ pc[t] = "send" /\ c # NoSock
    /\ up' = IF peer[c] = "up"
             THEN [up EXCEPT ![c] = @ \o <<send_packet, send_packet>>] ELSE up
    /\ sentOn' = [sentOn EXCEPT ![t] = c]
    /\ Goto(t, IF req[t].op = "write" THEN "cap_data" ELSE "cap_accept")
    /\ UNCHANGED <<semaVars, globalVars, bufferVars, sockVars, peer, backlog,
                   down, req, ret, nreq, argVars, dsock, client, served>>

SendHeader(t) ==
    LET c == ConnOf(csock[t]) IN
    /\ pc[t] = "send" /\ c # NoSock
    /\ Deliver(c, send_packet)
    /\ sentOn' = [sentOn EXCEPT ![t] = c]
    /\ Goto(t, IF req[t].op = "write" THEN "cap_data" ELSE "cap_accept")
    /\ UNCHANGED <<semaVars, globalVars, bufferVars, sockVars, peer, backlog,
                   down, req, ret, nreq, argVars, dsock, client, served>>

SendData(t) ==
    LET c == ConnOf(csock[t]) IN
    /\ pc[t] = "data" /\ c # NoSock
    /\ Deliver(c, Token("data", "write", req[t].id, req[t].len))
    /\ Goto(t, "cap_accept")
    /\ UNCHANGED <<semaVars, globalVars, bufferVars, sockVars, peer, backlog,
                   down, callVars, argVars, dsock, client, served>>

(* Fault: a failed send leaves the connection as it is.                     *)
SendFail_Keep(t) ==
    LET c == ConnOf(csock[t]) IN
    /\ pc[t] \in {"send", "data"}
    /\ \/ UNCHANGED up
       \/ /\ pc[t] = "send" /\ c # NoSock
          /\ Deliver(c, [send_packet EXCEPT !.k = "torn"])
    /\ FailKeep(t)
    /\ UNCHANGED <<semaVars, globalVars, bufferVars, sockVars, peer, backlog,
                   down, req, nreq, sentOn, argVars, dsock, client, served>>

(* send() fails at any time; part of the header may be on its way.          *)
SendFail(t) ==
    LET c == ConnOf(csock[t]) IN
    /\ pc[t] \in {"send", "data"}
    /\ \/ UNCHANGED up
       \/ /\ pc[t] = "send" /\ c # NoSock
          /\ Deliver(c, [send_packet EXCEPT !.k = "torn"])
    /\ Fail(t)
    /\ UNCHANGED <<semaVars, globalVars, bufferVars, sockVars, peer, backlog,
                   down, req, nreq, sentOn, argVars, dsock, client, served>>

Receiving == {"header", "body", "rdata"}

(* recv() returns the next token of the stream the handle names.            *)
Receive(t, c) ==
    /\ c = ConnOf(csock[t])
    /\ c # NoSock /\ down[c] # <<>>
    /\ down' = [down EXCEPT ![c] = Tail(@)]

(* recv() fails: the handle is closed, or was when the call blocked on it,  *)
(* or the PC's end is gone and the stream is drained.                       *)
RecvBroken(t) ==
    LET c == ConnOf(csock[t]) IN
    \/ c = NoSock \/ c # cconn[t]
    \/ c # NoSock /\ peer[c] = "gone" /\ down[c] = <<>>

NoBytes(t) == pc[t] = "rdata" /\ ret[t] = 0

RecvFail(t) ==
    /\ pc[t] \in Receiving /\ ~NoBytes(t) /\ RecvBroken(t)
    /\ Fail(t)
    /\ UNCHANGED <<semaVars, globalVars, bufferVars, netVars, req, nreq,
                   sentOn, argVars, dsock, client, served>>

(* Fault: a reply that is not the expected one is skipped.                  *)
RecvHeader_Skip(t) ==
    \E c \in Conns :
    /\ pc[t] = "header" /\ Receive(t, c)
    /\ LET m == Head(down[c])
           op == req[t].op
           cmd == IF m.k = "hdr" THEN m.op ELSE "other"
       IN /\ recv_packet' = m
          /\ Goto(t, IF HeaderValid(cmd, m.val, op, RlySize(op))
                     THEN "body" ELSE "header")
    /\ UNCHANGED <<semaVars, globalVars, send_packet, sockVars, peer, backlog,
                   up, callVars, argVars, dsock, client, served>>

(* pko_accept_pkt: the header is received and validated.  A token that is   *)
(* not a header is read as one of some other type.                          *)
RecvHeader(t) ==
    \E c \in Conns :
    /\ pc[t] = "header" /\ Receive(t, c)
    /\ LET m == Head(down[c])
           op == req[t].op
           cmd == IF m.k = "hdr" THEN m.op ELSE "other"
       IN /\ recv_packet' = m
          /\ IF HeaderValid(cmd, m.val, op, RlySize(op))
             THEN Goto(t, "body") /\ UNCHANGED ret
             ELSE Fail(t)
    /\ UNCHANGED <<semaVars, globalVars, send_packet, sockVars, peer, backlog,
                   up, req, nreq, sentOn, argVars, dsock, client, served>>

RecvBody(t) ==
    \E c \in Conns :
    /\ pc[t] = "body" /\ Receive(t, c)
    /\ recv_packet' = Head(down[c])
    /\ Goto(t, "result")
    /\ UNCHANGED <<semaVars, globalVars, send_packet, sockVars, peer, backlog,
                   up, callVars, argVars, dsock, client, served>>

(* Fault: an invalid byte count is refused, the connection kept.            *)
Result_Keep(t) ==
    LET val == recv_packet.val
        op  == req[t].op
        len == req[t].len
    IN
    /\ pc[t] = "result"
    /\ IF \/ op = "read" /\ ~ReadLengthValid(val, len)
          \/ op = "write" /\ val >= 0 /\ ~WriteProgressValid(val, len)
       THEN FailKeep(t)
       ELSE /\ ret' = [ret EXCEPT ![t] = val]
            /\ Goto(t, IF op = "read" THEN "cap_rdata" ELSE "release")
    /\ UNCHANGED <<semaVars, globalVars, bufferVars, netVars, req, nreq,
                   sentOn, argVars, dsock, client, served>>

(* The value of a validated reply, checked by read and write.               *)
Result(t) ==
    LET val == recv_packet.val
        op  == req[t].op
        len == req[t].len
    IN
    /\ pc[t] = "result"
    /\ IF \/ op = "read" /\ ~ReadLengthValid(val, len)
          \/ op = "write" /\ val >= 0 /\ ~WriteProgressValid(val, len)
       THEN Fail(t)
       ELSE /\ ret' = [ret EXCEPT ![t] = val]
            /\ Goto(t, IF op = "read" THEN "cap_rdata" ELSE "release")
    /\ UNCHANGED <<semaVars, globalVars, bufferVars, netVars, req, nreq,
                   sentOn, argVars, dsock, client, served>>

(* The data of a read; nothing is received when the reply announced none.   *)
RecvData(t) ==
    /\ pc[t] = "rdata"
    /\ IF NoBytes(t) THEN UNCHANGED down ELSE \E c \in Conns : Receive(t, c)
    /\ Goto(t, "release")
    /\ UNCHANGED <<semaVars, globalVars, bufferVars, sockVars, peer, backlog,
                   up, callVars, argVars, dsock, client, served>>

-----------------------------------------------------------------------------
(* pko_file_serv: the connection server.                                    *)

ServerStart ==
    /\ pc[Server] = "boot"
    /\ pko_fileio_active' = TRUE
    /\ Goto(Server, "loop")
    /\ UNCHANGED <<semaVars, pko_fileio_sock, bufferVars, netVars, callVars,
                   argVars, dsock, client, served>>

(* socket, bind or listen fails.                                            *)
ServerFail ==
    /\ pc[Server] = "boot"
    /\ Goto(Server, "dead")
    /\ UNCHANGED <<semaVars, globalVars, bufferVars, netVars, callVars,
                   argVars, dsock, client, served>>

ServerLoop ==
    /\ pc[Server] = "loop"
    /\ Goto(Server, IF pko_fileio_active THEN "accept" ELSE "close_read")
    /\ UNCHANGED <<semaVars, globalVars, bufferVars, netVars, callVars,
                   argVars, dsock, client, served>>

(* Handles a thread has read and has not yet used for the last time.        *)
Held(h) ==
    \/ h = pko_fileio_sock
    \/ \E t \in Callers :
          csock[t] = h /\ pc[t] \in {"send", "data", "header", "body", "rdata"}
    \/ \E a \in Agents : dsock[a] = h

Numbered(n) == {h \in Conns : num[h] = n}

(* The new connection's handle has a number that no open one has.  Whoever  *)
(* still holds a closed handle of that number holds the new one.            *)
Accept ==
    /\ pc[Server] = "accept"
    /\ \E c \in backlog, n \in Nums :
        /\ \A h \in Numbered(n) : fd[h] = NoSock
        /\ fd' = [h \in Conns |->
                    IF h \in Numbered(n) \cup {c} THEN c ELSE fd[h]]
        /\ num' = [num EXCEPT ![c] = n]
        /\ reused' = (reused \/ \E h \in Numbered(n) : Held(h))
        /\ backlog' = backlog \ {c}
        /\ client' = c
    /\ Goto(Server, "check")
    /\ UNCHANGED <<semaVars, globalVars, bufferVars, peer, streamVars,
                   callVars, argVars, dsock, served>>

AcceptError ==
    /\ pc[Server] = "accept"
    /\ Goto(Server, "loop")
    /\ UNCHANGED <<semaVars, globalVars, bufferVars, netVars, callVars,
                   argVars, dsock, client, served>>

(* Fault: the server forgets the connection it already has.                 *)
CheckReconnect_Never ==
    /\ pc[Server] = "check"
    /\ Goto(Server, "install")
    /\ UNCHANGED <<semaVars, globalVars, bufferVars, netVars, callVars,
                   argVars, dsock, client, served>>

CheckReconnect ==
    /\ pc[Server] = "check"
    /\ Goto(Server, IF pko_fileio_sock # NoSock THEN "close_read"
                    ELSE "install")
    /\ UNCHANGED <<semaVars, globalVars, bufferVars, netVars, callVars,
                   argVars, dsock, client, served>>

Install ==
    /\ pc[Server] = "install"
    /\ pko_fileio_sock' = client
    /\ client' = NoSock
    /\ Goto(Server, "loop")
    /\ UNCHANGED <<semaVars, pko_fileio_active, bufferVars, netVars, callVars,
                   argVars, dsock, served>>

(* The listening socket is closed, and with it what waits in its queue.     *)
Unlisten ==
    /\ pc[Server] = "unlisten"
    /\ backlog' = {}
    /\ peer' = [c \in Conns |-> IF c \in backlog THEN "gone" ELSE peer[c]]
    /\ Goto(Server, "dead")
    /\ UNCHANGED <<semaVars, globalVars, bufferVars, sockVars, streamVars,
                   callVars, argVars, dsock, client, served>>

-----------------------------------------------------------------------------
(* The PC, external: ps2client as the code expects it.                      *)

Listening == pc[Server] \notin {"boot", "dead"}

Connect(c) ==
    /\ peer[c] = "new" /\ Listening
    /\ peer' = [peer EXCEPT ![c] = "up"]
    /\ backlog' = backlog \cup {c}
    /\ UNCHANGED <<semaVars, globalVars, bufferVars, sockVars, streamVars, pc,
                   callVars, argVars, dsock, client, served>>

(* The PC takes a request's bytes off the stream, whatever they really are: *)
(* a write, or a torn header, is completed by the token behind it.          *)
Taken(s) == IF Head(s).k = "torn" \/ Head(s).op = "write" THEN 2 ELSE 1

Genuine(s) ==
    /\ Head(s).k = "req"
    /\ Taken(s) = 2 => s[2].k = "data" /\ s[2].id = Head(s).id

GoodReply(m, val) ==
    << Token("hdr", m.op, m.id, RlySize(m.op)), Token("body", m.op, m.id, val) >>
    \o IF m.op = "read" /\ val > 0
       THEN << Token("data", m.op, m.id, val) >> ELSE <<>>

(* A reply of another type, or of another length.                           *)
BadReplies(m) ==
    { << Token("hdr", "other", m.id, RlySize(m.op)), Token("body", m.op, m.id, 0) >>,
      << Token("hdr", m.op, m.id, 6), Token("body", m.op, m.id, 0) >> }

ReplyVals(m) ==
    IF m.op \in {"read", "write"} THEN -1 .. m.val + 1 ELSE {0}

Serve(c) ==
    LET s == up[c]
        m == Head(s)
    IN
    /\ peer[c] = "up"
    /\ s # <<>> /\ m.k \in {"req", "torn"} /\ Len(s) >= Taken(s)
    /\ up' = [up EXCEPT ![c] = SubSeq(s, Taken(s) + 1, Len(s))]
    /\ \E val \in ReplyVals(m) :
        /\ \E reply \in {GoodReply(m, val)} \cup BadReplies(m) :
              down' = [down EXCEPT ![c] = @ \o reply]
        /\ served' = IF Genuine(s) THEN served \cup {[id |-> m.id, val |-> val]}
                     ELSE served
    /\ UNCHANGED <<semaVars, globalVars, bufferVars, sockVars, peer, backlog,
                   pc, callVars, argVars, dsock, client>>

(* Data that belongs to no request is dropped.                              *)
Discard(c) ==
    /\ peer[c] = "up" /\ up[c] # <<>> /\ Head(up[c]).k = "data"
    /\ up' = [up EXCEPT ![c] = Tail(@)]
    /\ UNCHANGED <<semaVars, globalVars, bufferVars, sockVars, peer, backlog,
                   down, pc, callVars, argVars, dsock, client, served>>

(* The PC goes away; what it sent may arrive in full, in part or not.       *)
Drop(c) ==
    /\ peer[c] = "up"
    /\ peer' = [peer EXCEPT ![c] = "gone"]
    /\ up' = [up EXCEPT ![c] = <<>>]
    /\ \E n \in 0 .. Len(down[c]) :
          down' = [down EXCEPT ![c] = SubSeq(@, 1, n)]
    /\ UNCHANGED <<semaVars, globalVars, bufferVars, sockVars, backlog, pc,
                   callVars, argVars, dsock, client, served>>

-----------------------------------------------------------------------------
Exchange(t) ==
    \/ EnterReturn(t) \/ EnterBuild(t) \/ Capture(t)
    \/ SendHeader(t) \/ SendData(t) \/ SendFail(t)
    \/ RecvHeader(t) \/ RecvBody(t) \/ RecvData(t) \/ RecvFail(t) \/ Result(t)

Guarded(a) ==
    Acquire(a) \/ CloseRead(a) \/ CloseClear(a) \/ Disconnect(a) \/ Release(a)

CallerStep(t)    == Exchange(t) \/ Guarded(t)
UnmounterStep(u) == Deactivate(u) \/ DeleteSema(u) \/ Guarded(u)
ServerStep ==
    \/ ServerStart \/ ServerFail \/ ServerLoop \/ Accept \/ CheckReconnect
    \/ Install \/ Unlisten
    \/ CloseRead(Server) \/ CloseClear(Server) \/ Disconnect(Server)
PCStep(c) == Serve(c) \/ Discard(c)

Next ==
    \/ \E t \in Callers : FixedCall(t) \/ ReadCall(t) \/ WriteCall(t)
    \/ \E t \in Callers : CallerStep(t)
    \/ \E u \in Unmounters : Unmount(u) \/ UnmounterStep(u)
    \/ ServerStep \/ AcceptError
    \/ \E c \in Conns : Connect(c) \/ PCStep(c) \/ Drop(c)

Spec == Init /\ [][Next]_vars

(* The IOP schedules every ready thread: a thread inside an operation takes *)
(* its next step unless it is blocked.  Nothing obliges a thread to call,   *)
(* or the PC to connect or to answer.                                       *)
Fairness ==
    /\ \A t \in Callers : WF_vars(CallerStep(t))
    /\ \A u \in Unmounters : WF_vars(UnmounterStep(u))
    /\ WF_vars(ServerStep)

FairSpec == Spec /\ Fairness

-----------------------------------------------------------------------------
(* Properties.                                                              *)

Labels == {"boot", "loop", "accept", "check", "install", "unlisten", "dead",
           "idle", "wait", "enter", "cap_send", "send", "cap_data", "data",
           "cap_accept", "header", "body", "result", "cap_rdata", "rdata",
           "close_read", "close_clear", "disconnect", "release",
           "deactivate", "delete", "unmounted"}

(* Every variable has its type.                                             *)
TypeOK ==
    /\ sema \in 0 .. 1 /\ semaLive \in BOOLEAN
    /\ pko_fileio_sock \in Socks /\ pko_fileio_active \in BOOLEAN
    /\ send_packet \in Tokens /\ recv_packet \in Tokens
    /\ fd \in [Conns -> Socks] /\ num \in [Conns -> Nums \cup {NoSock}]
    /\ reused \in BOOLEAN
    /\ peer \in [Conns -> {"new", "up", "gone"}] /\ backlog \subseteq Conns
    /\ up \in [Conns -> Seq(Tokens)] /\ down \in [Conns -> Seq(Tokens)]
    /\ pc \in [Agents -> Labels]
    /\ req \in [Callers -> [op : Ops \cup {"other"}, len : Int, id : Ids]]
    /\ ret \in [Callers -> Int] /\ nreq \in Ids
    /\ csock \in [Callers -> Socks] /\ cconn \in [Callers -> Socks]
    /\ dsock \in [Agents -> Socks] /\ client \in Socks
    /\ sentOn \in [Callers -> Socks]
    /\ served \subseteq [id : Ids, val : Int]

Outside == {"idle", "wait", "delete", "unmounted"}
Holding(a) == a # Server /\ pc[a] \notin Outside

(* While fsys_sema exists, at most one thread is between its WaitSema and   *)
(* its SignalSema (net_fsys.c: "We need(?) to protect the net access").     *)
SemaExclusion ==
    semaLive => \A a, b \in Agents : Holding(a) /\ Holding(b) => a = b

(* When the server stores a new connection's handle there is no handle in   *)
(* the variable to lose (net_fio.c, the "Client reconnected" branch).       *)
NoOverwrite == pc[Server] = "install" => pko_fileio_sock = NoSock

(* The shared handle names an open connection, the one it was made for:     *)
(* every close path invalidates it before the socket goes (fileio_reply.h). *)
(* The exception is a handle handed out again under a thread that was about *)
(* to close it: its late disconnect then hits the new connection.           *)
HandleNeverStale ==
    ~reused /\ pko_fileio_sock # NoSock => fd[pko_fileio_sock] = pko_fileio_sock

(* What the file system promises ends with the deletion of its semaphore,   *)
(* and with a handle that is handed out again under a thread that holds it. *)
Promised == semaLive /\ ~reused

(* A non-negative result is the PC's own answer to this very request: the   *)
(* PC took the whole request, with its data, off the stream and replied     *)
(* with that value, which is no more than what was asked for.               *)
AckTruthful ==
    Promised => \A t \in Callers :
        pc[t] = "release" /\ ret[t] >= 0 /\ ~Trivial(t) =>
            /\ [id |-> req[t].id, val |-> ret[t]] \in served
            /\ req[t].op \in {"read", "write"} => ret[t] <= req[t].len

(* Between two operations nothing of an earlier one is under way on the     *)
(* current connection (net_fio.c: "Only a fully validated reply may remain  *)
(* on the TCP stream").                                                     *)
StreamCleanAlways ==
    LET c == ConnOf(pko_fileio_sock) IN
    /\ semaLive /\ c # NoSock
    /\ \A t \in Callers : pc[t] \in {"idle", "wait", "release"}
    => up[c] = <<>> /\ down[c] = <<>>

(* The same, as long as no handle was handed out again under a thread that  *)
(* still held it.                                                           *)
StreamClean == ~reused => StreamCleanAlways

(* A caller that waits for a reply on a connection that never carried its   *)
(* request.                                                                 *)
Stranded(t) == pc[t] \in Receiving /\ cconn[t] # sentOn[t]

(* A PC that keeps its connection answers.                                  *)
PCAnswers == \A c \in Conns : WF_vars(PCStep(c))

(* With a PC that answers every call returns, unless some call is stranded  *)
(* by a reconnection.                                                       *)
CallsReturn ==
    PCAnswers =>
        \A t \in Callers :
            pc[t] # "idle" ~> pc[t] = "idle" \/ \E s \in Callers : Stranded(s)

(* A caller blocked in recv: its connection is up and brings nothing.       *)
WaitsForPC(t) ==
    /\ pc[t] \in Receiving /\ ~NoBytes(t) /\ ~RecvBroken(t)
    /\ down[ConnOf(csock[t])] = <<>>

(* A reset's fsysUnmount gets through, unless a call that keeps the         *)
(* semaphore waits for ever for a PC that keeps the connection and is       *)
(* silent: nothing the PC sends, breaks off or gets wrong stops it.         *)
UnmountCompletes ==
    (\A t \in Callers : []<>~WaitsForPC(t)) =>
        \A u \in Unmounters : pc[u] # "idle" ~> pc[u] = "unmounted"

(* A failed exchange gives up the connection it was on, not one the PC has  *)
(* opened since (net_fio.c: the server lets the PC "reconnect").            *)
OwnConnectionClosed ==
    [][\A t \in Callers :
         pc[t] = "disconnect" /\ pc'[t] # "disconnect" /\ cconn[t] # NoSock
           => ConnOf(dsock[t]) \in {NoSock, cconn[t]}]_vars

(* A write's data follows its header on one stream (net_fio.c, the comment  *)
(* above pko_write_file).                                                   *)
WriteIsOneStream ==
    [][\A t \in Callers :
         pc[t] = "data" /\ pc'[t] = "cap_accept"
           => ConnOf(csock[t]) = sentOn[t]]_vars
-----------------------------------------------------------------------------
(* The file system implements HostRPC.                                      *)

ServiceStage(t) ==
    CASE pc[t] = "idle"    -> "idle"
      [] pc[t] = "wait"    -> "waiting"
      [] pc[t] = "release" -> "answered"
      [] OTHER             -> "served"

(* Once the driver is destroyed two callers may share recv_packet, and one  *)
(* then returns the length in the other's reply header.                     *)
ReturnVals == (-1 .. MaxLen + 1) \cup {RlySize(op) : op \in Ops} \cup {6}

Host == INSTANCE HostRPC WITH
    Clients  <- Callers,
    Requests <- Ids,
    Values   <- ReturnVals,
    live     <- Promised,
    stage    <- [t \in Callers |-> ServiceStage(t)],
    call     <- [t \in Callers |-> [id |-> req[t].id, local |-> Trivial(t)]],
    answer   <- [t \in Callers |-> IF pc[t] = "release" THEN ret[t] ELSE 0],
    asked    <- 1 .. nreq,
    executed <- served

(* Every behaviour is one of HostRPC's, until the semaphore is deleted or a *)
(* handle still held is handed out again: calls are served one at a time, no *)
(* request is executed twice or before its turn, and a result that is no    *)
(* error is what the PC executed it with (net_fsys.c, net_fio.c).           *)
ImplementsHostRPC == Host!Spec
=============================================================================
