--------------------------- MODULE HostRPCProofs ---------------------------
(* The file system implements HostRPC: what a caller sees of it is a server *)
(* that executes each request at most once, one at a time, and answers with *)
(* the value it was executed with, until the semaphore is deleted or a      *)
(* handle is handed out again under a thread that still holds it.           *)
EXTENDS FileIOStreamProofs

-----------------------------------------------------------------------------
(* Bounds: what is on its way to the PC is a request made, what comes back  *)
(* is something a call may return.                                          *)

Outgoing == {m \in Tokens : /\ m.val <= MaxLen
                            /\ m.k = "req" => m.id \in 1 .. nreq}
Incoming == {m \in Tokens : m.val \in ReturnVals}

BoundInv ==
    /\ up \in [Conns -> Seq(Outgoing)] /\ down \in [Conns -> Seq(Incoming)]
    /\ send_packet \in Outgoing /\ recv_packet \in Incoming
    /\ \A e \in served : e.id \in 1 .. nreq
    /\ \A t \in Callers :
        /\ pc[t] \notin {"delete", "unmounted"}
        /\ req[t].id <= nreq /\ req[t].len <= MaxLen /\ ret[t] \in ReturnVals
        /\ pc[t] # "idle" => req[t].id >= 1
        /\ pc[t] \notin {"idle", "wait", "enter", "release"} => ~Trivial(t)

(* What a call returns: a count, the size of a reply, or an error.          *)
LEMMA Returned ==
    /\ \A v \in -1 .. MaxLen + 1 : v \in ReturnVals
    /\ \A op \in Ops \cup {"other"} : RlySize(op) \in ReturnVals
    /\ -1 \in ReturnVals /\ 0 \in ReturnVals /\ 6 \in ReturnVals
<1>1. \A op \in Ops : RlySize(op) \in ReturnVals
  BY DEF ReturnVals
<1>2. RlySize("other") = RlySize("write") /\ "write" \in Ops
  BY DEF RlySize, Ops
<1>3. \A v \in -1 .. MaxLen + 1 : v \in ReturnVals
  BY DEF ReturnVals
<1>4. -1 \in -1 .. MaxLen + 1 /\ 0 \in -1 .. MaxLen + 1
  BY BoundsAssumption
<1> QED
  BY <1>1, <1>2, <1>3, <1>4 DEF ReturnVals

(* A part of a sequence over S is one.                                      *)
LEMMA PartOfSeq ==
    ASSUME NEW S, NEW s \in Seq(S), NEW m \in Int, NEW n \in Int,
           1 <= m, n <= Len(s)
    PROVE  SubSeq(s, m, n) \in Seq(S)
<1>1. \A i \in m .. n : s[i] \in S
  BY ElementOfSeq
<1> QED
  BY <1>1, SubSeqProperties

(* A sequence over S is one over a larger set.                              *)
LEMMA WiderSeq ==
    ASSUME NEW S, NEW T, S \subseteq T, NEW s \in Seq(S)
    PROVE  s \in Seq(T)
OBVIOUS

(* What the PC sends back is something a call may return.                   *)
LEMMA ReplyReturned ==
    ASSUME TypeOK, NEW m \in Outgoing, NEW val \in ReplyVals(m),
           NEW reply \in {GoodReply(m, val)} \cup BadReplies(m)
    PROVE  val \in ReturnVals /\ reply \in Seq(Incoming)
<1>1. m \in Tokens /\ m.val \in Int /\ m.val <= MaxLen /\ val \in Int
  BY DEF Outgoing, Tokens, ReplyVals
<1>2. val \in ReturnVals
  BY <1>1, Returned, BoundsAssumption DEF ReplyVals
<1>3. RlySize(m.op) \in ReturnVals /\ RlySize(m.op) \in Int /\ 0 \in ReturnVals
      /\ 6 \in ReturnVals
  BY <1>1, Returned DEF Tokens, RlySize
<1>4. /\ Token("hdr", m.op, m.id, RlySize(m.op)) \in Incoming
      /\ Token("hdr", "other", m.id, RlySize(m.op)) \in Incoming
      /\ Token("hdr", m.op, m.id, 6) \in Incoming
      /\ Token("body", m.op, m.id, val) \in Incoming
      /\ Token("body", m.op, m.id, 0) \in Incoming
      /\ Token("data", m.op, m.id, val) \in Incoming
  BY <1>1, <1>2, <1>3 DEF Token, Tokens, Kinds, Incoming
<1>5. CASE reply \in BadReplies(m)
  <2>1. BadReplies(m) \subseteq Seq(Incoming)
    BY <1>4, ShortSeqs, Zenon DEF BadReplies
  <2> QED
    BY <1>2, <1>5, <2>1
<1>6. CASE reply = GoodReply(m, val)
  <2> DEFINE front == << Token("hdr", m.op, m.id, RlySize(m.op)),
                         Token("body", m.op, m.id, val) >>
             tail  == IF m.op = "read" /\ val > 0
                      THEN << Token("data", m.op, m.id, val) >> ELSE <<>>
  <2>1. front \in Seq(Incoming) /\ tail \in Seq(Incoming)
    BY <1>4, ShortSeqs, EmptySeq, Zenon DEF front, tail
  <2> HIDE DEF front, tail
  <2>2. front \o tail \in Seq(Incoming)
    BY <2>1, ConcatProperties
  <2>3. reply = front \o tail
    BY <1>6 DEF GoodReply, front, tail
  <2> QED
    BY <1>2, <2>2, <2>3
<1> QED
  BY <1>5, <1>6

(* A step that puts nothing new on its way and starts no request.           *)
LEMMA BoundKept ==
    ASSUME BoundInv,
           up' \in [Conns -> Seq(Outgoing)], down' \in [Conns -> Seq(Incoming)],
           send_packet' \in Outgoing, recv_packet' \in Incoming,
           UNCHANGED <<nreq, req, served>>,
           \A t \in Callers :
              /\ pc'[t] \notin {"delete", "unmounted", "idle"} \/ pc'[t] = pc[t]
              /\ ret'[t] \in ReturnVals
              /\ pc[t] = "idle" => pc'[t] = "idle"
              /\ pc'[t] \notin {"idle", "wait", "enter", "release"} =>
                    \/ pc[t] \notin {"idle", "wait", "enter", "release"}
                    \/ ~Trivial(t)
    PROVE  BoundInv'
BY DEF BoundInv, Outgoing, Incoming, Trivial

(* Every step keeps to the bounds, on every connection.                     *)
LEMMA BoundAlways == Spec => []BoundInv
<1>1. Init => BoundInv
  <2> SUFFICES ASSUME Init PROVE BoundInv
    OBVIOUS
  <2>1. NoPacket \in Outgoing /\ NoPacket \in Incoming
    BY Returned, BoundsAssumption
       DEF NoPacket, Token, Outgoing, Incoming, Tokens, Kinds, Ids
  <2>2. /\ up \in [Conns -> Seq(Outgoing)] /\ down \in [Conns -> Seq(Incoming)]
    BY EmptySeq DEF Init
  <2>3. \A t \in Callers :
          /\ pc[t] = "idle" /\ req[t].id = 0 /\ req[t].len = 0 /\ ret[t] = 0
    BY AgentsAssumption DEF Init, Agents, NoReq
  <2>4. nreq = 0 /\ served = {} /\ send_packet = NoPacket /\ recv_packet = NoPacket
    BY DEF Init
  <2> QED
    BY <2>1, <2>2, <2>3, <2>4, Returned, BoundsAssumption DEF BoundInv
<1>2. TypeOK /\ BoundInv /\ [Next]_vars => BoundInv'
  <2> SUFFICES ASSUME TypeOK, BoundInv, [Next]_vars PROVE BoundInv'
    OBVIOUS
  <2> DEFINE Moves == \A t \in Callers :
              /\ pc'[t] \notin {"delete", "unmounted", "idle"} \/ pc'[t] = pc[t]
              /\ ret'[t] \in ReturnVals
              /\ pc[t] = "idle" => pc'[t] = "idle"
              /\ pc'[t] \notin {"idle", "wait", "enter", "release"} =>
                    \/ pc[t] \notin {"idle", "wait", "enter", "release"}
                    \/ ~Trivial(t)
             Streams == /\ up' \in [Conns -> Seq(Outgoing)]
                        /\ down' \in [Conns -> Seq(Incoming)]
                        /\ send_packet' \in Outgoing /\ recv_packet' \in Incoming
             Numbers == UNCHANGED <<nreq, req, served>>
  <2> USE AgentsAssumption DEF TypeOK, Agents, vars, semaVars, globalVars,
          bufferVars, streamVars, sockVars, netVars, callVars, argVars, Goto
  <2>1. ASSUME NEW t \in Callers, NEW op \in Ops, NEW len \in -1 .. MaxLen,
               Call(t, op, len)
        PROVE  BoundInv'
    <3>1. /\ pc' = [pc EXCEPT ![t] = "wait"] /\ nreq' = nreq + 1
          /\ req' = [req EXCEPT ![t] = [op |-> op, len |-> len, id |-> nreq + 1]]
          /\ UNCHANGED <<up, down, send_packet, recv_packet, served, ret>>
      BY <2>1 DEF Call
    <3>2. Outgoing \subseteq Outgoing' /\ Incoming' = Incoming
      BY <3>1 DEF Outgoing, Incoming, Ids
    <3>3. up' \in [Conns -> Seq(Outgoing)']
      BY <3>1, <3>2, WiderSeq DEF BoundInv
    <3>4. /\ down' \in [Conns -> Seq(Incoming')]
          /\ send_packet' \in Outgoing' /\ recv_packet' \in Incoming'
          /\ \A e \in served' : e.id \in 1 .. nreq'
      BY <3>1, <3>2 DEF BoundInv, Ids
    <3>5. ASSUME NEW s \in Callers
          PROVE  /\ pc'[s] \notin {"delete", "unmounted"}
                 /\ req'[s].id <= nreq' /\ req'[s].len <= MaxLen
                 /\ ret'[s] \in ReturnVals
                 /\ pc'[s] # "idle" => req'[s].id >= 1
                 /\ pc'[s] \notin {"idle", "wait", "enter", "release"} => ~Trivial(s)'
      BY <3>1, BoundsAssumption DEF BoundInv, Ids, Trivial
    <3> QED
      BY <3>3, <3>4, <3>5 DEF BoundInv
  <2>2. ASSUME NEW a \in Callers \cup Unmounters, Acquire(a) PROVE BoundInv'
    <3>1. Moves /\ Streams /\ Numbers
      BY <2>2 DEF Acquire, BoundInv
    <3> QED BY <3>1, BoundKept
  <2>3. ASSUME NEW a \in Callers \cup Unmounters, Release(a) PROVE BoundInv'
    <3>1. CASE a \in Unmounters
      <4>1. Moves /\ Streams /\ Numbers
        BY <2>3, <3>1 DEF Release, BoundInv
      <4> QED BY <4>1, BoundKept
    <3>2. CASE a \in Callers
      <4>1. /\ pc' = [pc EXCEPT ![a] = "idle"] /\ req' = [req EXCEPT ![a] = NoReq]
            /\ ret' = [ret EXCEPT ![a] = 0]
            /\ UNCHANGED <<up, down, send_packet, recv_packet, served, nreq>>
        BY <2>3, <3>2 DEF Release
      <4>2. Outgoing' = Outgoing /\ Incoming' = Incoming
        BY <4>1 DEF Outgoing, Incoming
      <4>3. ASSUME NEW s \in Callers
            PROVE  /\ pc'[s] \notin {"delete", "unmounted"}
                   /\ req'[s].id <= nreq' /\ req'[s].len <= MaxLen
                   /\ ret'[s] \in ReturnVals
                   /\ pc'[s] # "idle" => req'[s].id >= 1
                   /\ pc'[s] \notin {"idle", "wait", "enter", "release"} => ~Trivial(s)'
        BY <4>1, BoundsAssumption, Returned DEF BoundInv, Ids, Trivial, NoReq
      <4> QED
        BY <4>1, <4>2, <4>3 DEF BoundInv
    <3> QED BY <3>1, <3>2
  <2>4. ASSUME NEW u \in Unmounters, Unmount(u) \/ Deactivate(u) \/ DeleteSema(u)
        PROVE  BoundInv'
    <3>1. Moves /\ Streams /\ Numbers
      BY <2>4 DEF Unmount, Deactivate, DeleteSema, BoundInv
    <3> QED BY <3>1, BoundKept
  <2>5. ASSUME NEW a \in Agents, CloseRead(a) \/ CloseClear(a) PROVE BoundInv'
    <3>1. Moves /\ Streams /\ Numbers
      BY <2>5 DEF CloseRead, CloseClear, AfterClose, BoundInv
    <3> QED BY <3>1, BoundKept
  <2>6. ASSUME NEW a \in Agents, Disconnect(a) PROVE BoundInv'
    <3>1. Moves /\ Numbers
      BY <2>6 DEF Disconnect, AfterClose, BoundInv
    <3>2. <<>> \in Seq(Outgoing) /\ <<>> \in Seq(Incoming)
      BY EmptySeq
    <3>3. UNCHANGED bufferVars
      BY <2>6 DEF Disconnect
    <3>4. \/ UNCHANGED <<up, down>>
          \/ /\ up' = [up EXCEPT ![ConnOf(dsock[a])] = <<>>]
             /\ down' = [down EXCEPT ![ConnOf(dsock[a])] = <<>>]
      BY <2>6 DEF Disconnect
    <3>5. Streams
      <4> HIDE DEF TypeOK
      <4> QED
        BY <3>2, <3>3, <3>4 DEF BoundInv
    <3> QED BY <3>1, <3>5, BoundKept
  <2>7. ASSUME NEW t \in Callers, EnterReturn(t) \/ Capture(t) PROVE BoundInv'
    <3>1. Moves /\ Streams /\ Numbers
      BY <2>7, Returned DEF EnterReturn, Capture, Captures, BoundInv
    <3> QED BY <3>1, BoundKept
  <2>8. ASSUME NEW t \in Callers, EnterBuild(t) PROVE BoundInv'
    <3>1. send_packet' \in Outgoing
      BY <2>8 DEF EnterBuild, BoundInv, Outgoing, Token, Tokens, Kinds, Ids
    <3>2. Moves /\ Streams /\ Numbers
      BY <2>8, <3>1 DEF EnterBuild, BoundInv
    <3> QED BY <3>2, BoundKept
  <2>9. ASSUME NEW t \in Callers, SendHeader(t) \/ SendData(t) \/ SendFail(t)
        PROVE  BoundInv'
    <3>1. /\ [send_packet EXCEPT !.k = "torn"] \in Outgoing
          /\ Token("data", "write", req[t].id, req[t].len) \in Outgoing
      BY DEF BoundInv, Outgoing, Token, Tokens, Kinds, Ops
    <3>2. PICK m \in Outgoing, c \in Conns \cup {NoSock} :
            up' = up \/ up' = [up EXCEPT ![c] = Append(@, m)]
      BY <2>9, <3>1 DEF SendHeader, SendData, SendFail, Deliver, BoundInv, ConnOf, Socks
    <3>3. up' \in [Conns -> Seq(Outgoing)]
      <4>1. CASE c \in Conns
        <5>1. Append(up[c], m) \in Seq(Outgoing)
          BY <4>1, AppendProperties DEF BoundInv
        <5> QED
          BY <3>2, <4>1, <5>1 DEF BoundInv
      <4>2. CASE c \notin Conns
        BY <3>2, <4>2 DEF BoundInv
      <4> QED BY <4>1, <4>2
    <3>4. Moves /\ Numbers /\ UNCHANGED <<down, bufferVars>>
      BY <2>9, Returned DEF SendHeader, SendData, SendFail, Fail, BoundInv
    <3> QED BY <3>3, <3>4, BoundKept DEF BoundInv
  <2>10. ASSUME NEW t \in Callers, RecvHeader(t) \/ RecvBody(t) PROVE BoundInv'
    <3>1. PICK c \in Conns :
            /\ down[c] # <<>> /\ down' = [down EXCEPT ![c] = Tail(@)]
            /\ recv_packet' = Head(down[c])
      BY <2>10 DEF RecvHeader, RecvBody, Receive
    <3>2. Head(down[c]) \in Incoming /\ Tail(down[c]) \in Seq(Incoming)
      BY <3>1, HeadTailProperties DEF BoundInv
    <3>3. Moves /\ Numbers /\ UNCHANGED <<up, send_packet>>
      BY <2>10, Returned DEF RecvHeader, RecvBody, Fail, BoundInv
    <3>4. Streams
      BY <3>1, <3>2, <3>3 DEF BoundInv
    <3> QED BY <3>3, <3>4, BoundKept
  <2>11. ASSUME NEW t \in Callers, RecvData(t) PROVE BoundInv'
    <3>1. down' \in [Conns -> Seq(Incoming)]
      <4>1. CASE UNCHANGED down
        BY <4>1 DEF BoundInv
      <4>2. CASE \E c \in Conns : Receive(t, c)
        BY <4>2, HeadTailProperties DEF Receive, BoundInv
      <4> QED
        BY <2>11, <4>1, <4>2 DEF RecvData
    <3>2. Moves /\ Numbers /\ UNCHANGED <<up, bufferVars>>
      BY <2>11 DEF RecvData, BoundInv
    <3> QED BY <3>1, <3>2, BoundKept DEF BoundInv
  <2>12. ASSUME NEW t \in Callers, RecvFail(t) PROVE BoundInv'
    <3>1. Moves /\ Streams /\ Numbers
      BY <2>12, Returned DEF RecvFail, Receiving, Fail, BoundInv
    <3> QED BY <3>1, BoundKept
  <2>13. ASSUME NEW t \in Callers, Result(t) PROVE BoundInv'
    <3>1. recv_packet.val \in ReturnVals
      BY DEF BoundInv, Incoming
    <3>2. Moves /\ Streams /\ Numbers
      BY <2>13, <3>1, Returned DEF Result, Fail, BoundInv
    <3> QED BY <3>2, BoundKept
  <2>14. CASE \/ ServerStart \/ ServerFail \/ ServerLoop \/ Accept \/ AcceptError
              \/ CheckReconnect \/ Install \/ Unlisten \/ UNCHANGED vars
    <3>1. UNCHANGED <<up, down, bufferVars, callVars, served>>
      BY <2>14 DEF ServerStart, ServerFail, ServerLoop, Accept, AcceptError,
         CheckReconnect, Install, Unlisten
    <3>2. \A t \in Callers : pc'[t] = pc[t]
      BY <2>14 DEF ServerStart, ServerFail, ServerLoop, Accept, AcceptError,
         CheckReconnect, Install, Unlisten
    <3> QED BY <3>1, <3>2, BoundKept DEF BoundInv
  <2>15. ASSUME NEW c \in Conns, Connect(c) PROVE BoundInv'
    <3>1. Moves /\ Streams /\ Numbers
      BY <2>15 DEF Connect, BoundInv
    <3> QED BY <3>1, BoundKept
  <2>16. ASSUME NEW c \in Conns, Discard(c) PROVE BoundInv'
    <3>1. Tail(up[c]) \in Seq(Outgoing)
      BY <2>16, HeadTailProperties DEF Discard, BoundInv
    <3>2. Moves /\ Streams /\ Numbers
      BY <2>16, <3>1 DEF Discard, BoundInv
    <3> QED BY <3>2, BoundKept
  <2>17. ASSUME NEW c \in Conns, Drop(c) PROVE BoundInv'
    <3>1. PICK k \in 0 .. Len(down[c]) :
            down' = [down EXCEPT ![c] = SubSeq(@, 1, k)]
      BY <2>17 DEF Drop
    <3>2. SubSeq(down[c], 1, k) \in Seq(Incoming) /\ <<>> \in Seq(Outgoing)
      BY PartOfSeq, LenProperties, EmptySeq DEF BoundInv
    <3>3. Moves /\ Streams /\ Numbers
      BY <2>17, <3>1, <3>2 DEF Drop, BoundInv
    <3> QED BY <3>3, BoundKept
  <2>18. ASSUME NEW c \in Conns, Serve(c) PROVE BoundInv'
    <3> DEFINE s == up[c]
    <3>1. /\ s \in Seq(Outgoing) /\ s # <<>> /\ Len(s) >= Taken(s)
          /\ up' = [up EXCEPT ![c] = SubSeq(s, Taken(s) + 1, Len(s))]
      BY <2>18 DEF Serve, BoundInv
    <3>2. Head(s) \in Outgoing
      BY <3>1, HeadTailProperties
    <3>3. PICK val \in ReplyVals(Head(s)) :
            /\ \E reply \in {GoodReply(Head(s), val)} \cup BadReplies(Head(s)) :
                  down' = [down EXCEPT ![c] = @ \o reply]
            /\ served' = IF Genuine(s)
                         THEN served \cup {[id |-> Head(s).id, val |-> val]}
                         ELSE served
      BY <2>18, Zenon DEF Serve
    <3>4. PICK reply \in {GoodReply(Head(s), val)} \cup BadReplies(Head(s)) :
            down' = [down EXCEPT ![c] = @ \o reply]
      BY <3>3
    <3>5. reply \in Seq(Incoming)
      BY <3>2, ReplyReturned
    <3>6. SubSeq(s, Taken(s) + 1, Len(s)) \in Seq(Outgoing)
      <4>1. Taken(s) \in {1, 2} /\ Len(s) \in Nat
        BY <3>1, LenProperties DEF Taken
      <4> QED BY <3>1, <4>1, PartOfSeq
    <3>7. down[c] \o reply \in Seq(Incoming)
      BY <3>5, ConcatProperties DEF BoundInv
    <3>8. up' \in [Conns -> Seq(Outgoing)] /\ down' \in [Conns -> Seq(Incoming)]
      BY <3>1, <3>4, <3>6, <3>7 DEF BoundInv
    <3>9. \A e \in served' : e.id \in 1 .. nreq
      BY <3>2, <3>3 DEF BoundInv, Genuine, Outgoing
    <3>10. UNCHANGED <<bufferVars, callVars, pc>>
      BY <2>18 DEF Serve
    <3>11. Outgoing' = Outgoing /\ Incoming' = Incoming
      BY <3>10 DEF Outgoing, Incoming
    <3> QED
      BY <3>8, <3>9, <3>10, <3>11 DEF BoundInv, Trivial
  <2> QED
    BY NextCases, <2>1, <2>2, <2>3, <2>4, <2>5, <2>6, <2>7, <2>8, <2>9, <2>10,
       <2>11, <2>12, <2>13, <2>14, <2>15, <2>16, <2>17, <2>18, Zenon
<1> QED
  BY <1>1, <1>2, TypeCorrect, PTL DEF Spec

-----------------------------------------------------------------------------
(* The numbers of the requests: no two calls have the same, and a request   *)
(* is on its way once at most, after its caller has sent it and before the  *)
(* PC has executed it.                                                      *)

Unsent == {"wait", "enter", "cap_send", "send"}

(* The k-th token on its way on c is request i.                             *)
Carries(c, k, i) ==
    k \in 1 .. Len(up[c]) /\ up[c][k].k = "req" /\ up[c][k].id = i

OnceInv ==
    semaLive =>
      /\ \A s, t \in Callers : s # t /\ pc[t] # "idle" => req[s].id # req[t].id
      /\ \A t \in Callers : pc[t] \in Unsent => \A e \in served : e.id # req[t].id
      /\ \A c \in Conns, i \in Ids : \A k \in 1 .. Len(up[c]) : Carries(c, k, i) =>
           /\ \A e \in served : e.id # i
           /\ \A t \in Callers : pc[t] \in Unsent => req[t].id # i
           /\ \A d \in Conns : \A j \in 1 .. Len(up[d]) :
                Carries(d, j, i) => d = c /\ j = k

(* The requests on their way on c are some that were on it before.          *)
Fewer(c) ==
    \E n \in Nat : \A k \in 1 .. Len(up'[c]) :
        up'[c][k].k = "req" =>
          k + n \in 1 .. Len(up[c]) /\ up'[c][k] = up[c][k + n]

(* A stream that stays as it is carries no more requests.                   *)
LEMMA FewerSame ==
    ASSUME TypeOK, NEW c \in Conns, up'[c] = up[c]
    PROVE  Fewer(c)
<1>1. up[c] \in Seq(Tokens) /\ Len(up[c]) \in Nat
  BY LenProperties DEF TypeOK
<1>2. \A k \in 1 .. Len(up'[c]) : k + 0 \in 1 .. Len(up[c]) /\ up'[c][k] = up[c][k + 0]
  BY <1>1
<1> QED
  BY <1>2 DEF Fewer

(* Nor does one that is lost.                                               *)
LEMMA FewerLost ==
    ASSUME NEW c \in Conns, up'[c] = <<>>
    PROVE  Fewer(c)
BY DEF Fewer

(* Nor one to which a block of data is added.                               *)
LEMMA FewerAppended ==
    ASSUME TypeOK, NEW c \in Conns, NEW m \in Tokens, m.k # "req",
           up'[c] = Append(up[c], m)
    PROVE  Fewer(c)
<1>1. up[c] \in Seq(Tokens) /\ Len(up[c]) \in Nat
  BY LenProperties DEF TypeOK
<1>2. /\ Len(up'[c]) = Len(up[c]) + 1
      /\ \A k \in 1 .. Len(up[c]) : up'[c][k] = up[c][k]
      /\ up'[c][Len(up[c]) + 1] = m
  BY <1>1, AppendProperties
<1>3. \A k \in 1 .. Len(up'[c]) : up'[c][k].k = "req" =>
         k + 0 \in 1 .. Len(up[c]) /\ up'[c][k] = up[c][k + 0]
  BY <1>1, <1>2
<1> QED
  BY <1>3 DEF Fewer

(* What is taken off the front of a stream moves the rest forward.          *)
LEMMA FewerTaken ==
    ASSUME TypeOK, NEW c \in Conns, NEW n \in Nat, n <= Len(up[c]),
           up'[c] = SubSeq(up[c], n + 1, Len(up[c]))
    PROVE  \A k \in 1 .. Len(up'[c]) :
              k + n \in 1 .. Len(up[c]) /\ up'[c][k] = up[c][k + n]
<1>1. up[c] \in Seq(Tokens) /\ Len(up[c]) \in Nat
  BY LenProperties DEF TypeOK
<1>2. \A i \in n + 1 .. Len(up[c]) : up[c][i] \in Tokens
  BY <1>1, ElementOfSeq
<1>3. /\ Len(up'[c]) = Len(up[c]) - n
      /\ \A k \in 1 .. Len(up[c]) - n : up'[c][k] = up[c][(n + 1) + k - 1]
  BY <1>1, <1>2, SubSeqProperties
<1> QED
  BY <1>1, <1>3

(* A step that puts no request on its way.                                  *)
LEMMA OnceKept ==
    ASSUME TypeOK, BoundInv, OnceInv, semaLive' => semaLive,
           \A t \in Callers :
              /\ \/ req'[t].id = req[t].id
                 \/ pc'[t] = "idle" /\ req'[t].id = 0
              /\ pc'[t] \in Unsent => pc[t] \in Unsent
              /\ pc'[t] # "idle" => pc[t] # "idle",
           \A e \in served' :
              \/ e \in served
              \/ /\ \A c \in Conns, k \in Nat : ~Carries(c, k, e.id)'
                 /\ \A t \in Callers : pc[t] \in Unsent => req[t].id # e.id,
           \A c \in Conns : Fewer(c)
    PROVE  OnceInv'
<1> SUFFICES ASSUME semaLive PROVE OnceInv'
  BY DEF OnceInv
<1> USE DEF Unsent
<1>1. ASSUME NEW s \in Callers, NEW t \in Callers, s # t, pc'[t] # "idle"
      PROVE  req'[s].id # req'[t].id
  <2>1. req[s].id # req[t].id /\ req[t].id >= 1 /\ req'[t].id = req[t].id
    BY <1>1 DEF OnceInv, BoundInv
  <2> QED
    BY <2>1
<1>2. ASSUME NEW t \in Callers, pc'[t] \in Unsent, NEW e \in served'
      PROVE  e.id # req'[t].id
  <2>1. pc[t] \in Unsent /\ req'[t].id = req[t].id
    BY <1>2
  <2> QED
    BY <2>1 DEF OnceInv
<1>3. ASSUME NEW c \in Conns, NEW i \in Ids, NEW k \in 1 .. Len(up'[c]),
             Carries(c, k, i)'
      PROVE  \E j \in 1 .. Len(up[c]) : Carries(c, j, i)
  BY <1>3 DEF Fewer, Carries
<1>4. ASSUME NEW c \in Conns, NEW i \in Ids, NEW k \in 1 .. Len(up'[c]),
             Carries(c, k, i)'
      PROVE  /\ \A e \in served' : e.id # i
             /\ \A t \in Callers : pc'[t] \in Unsent => req'[t].id # i
  <2>1. PICK j \in 1 .. Len(up[c]) : Carries(c, j, i)
    BY <1>3, <1>4
  <2>2. \A e \in served : e.id # i
    BY <2>1 DEF OnceInv
  <2>3. \A t \in Callers : pc[t] \in Unsent => req[t].id # i
    BY <2>1 DEF OnceInv
  <2>4. k \in Nat
    BY DEF Carries
  <2> QED
    BY <1>4, <2>2, <2>3, <2>4
<1>5. ASSUME NEW c \in Conns, NEW i \in Ids, NEW k \in 1 .. Len(up'[c]),
             NEW d \in Conns, NEW j \in 1 .. Len(up'[d]),
             Carries(c, k, i)', Carries(d, j, i)'
      PROVE  d = c /\ j = k
  <2>1. PICK n \in Nat : \A l \in 1 .. Len(up'[c]) : up'[c][l].k = "req" =>
          l + n \in 1 .. Len(up[c]) /\ up'[c][l] = up[c][l + n]
    BY DEF Fewer
  <2>2. PICK m \in Nat : \A l \in 1 .. Len(up'[d]) : up'[d][l].k = "req" =>
          l + m \in 1 .. Len(up[d]) /\ up'[d][l] = up[d][l + m]
    BY DEF Fewer
  <2>3. k + n \in 1 .. Len(up[c]) /\ Carries(c, k + n, i)
    BY <1>5, <2>1 DEF Carries
  <2>4. j + m \in 1 .. Len(up[d]) /\ Carries(d, j + m, i)
    BY <1>5, <2>2 DEF Carries
  <2>5. d = c /\ j + m = k + n
    BY <2>3, <2>4 DEF OnceInv
  <2>6. k + m \in 1 .. Len(up[c]) /\ Carries(c, k + m, i)
    BY <1>5, <2>2, <2>5 DEF Carries
  <2>7. k + m = k + n
    BY <2>3, <2>6 DEF OnceInv
  <2> QED
    BY <2>5, <2>7
<1> QED
  BY <1>1, <1>2, <1>4, <1>5 DEF OnceInv

(* A new request has a new number.                                          *)
LEMMA OnceCall ==
    ASSUME TypeOK, BoundInv, OnceInv, NEW t \in Callers, NEW op \in Ops,
           NEW len \in -1 .. MaxLen, Call(t, op, len)
    PROVE  OnceInv'
<1> USE DEF TypeOK, Agents, semaVars, globalVars, bufferVars, streamVars,
            sockVars, netVars, callVars, argVars, Goto, Unsent
<1>1. /\ pc' = [pc EXCEPT ![t] = "wait"] /\ nreq' = nreq + 1 /\ nreq \in Nat
      /\ req' = [req EXCEPT ![t] = [op |-> op, len |-> len, id |-> nreq + 1]]
      /\ UNCHANGED <<semaLive, up, served>>
  BY BoundsAssumption DEF Call, Ids
<1>2. \A s \in Callers : req[s].id <= nreq /\ req[s].id \in Nat
  BY BoundsAssumption DEF BoundInv, Ids
<1>3. \A e \in served : e.id \in 1 .. nreq
  BY DEF BoundInv
<1>4. ASSUME NEW c \in Conns, NEW k \in 1 .. Len(up[c]), NEW i \in Ids,
             Carries(c, k, i)
      PROVE  i \in 1 .. nreq
  <2>1. up[c][k] \in Outgoing
    BY ElementOfSeq DEF BoundInv
  <2> QED
    BY <1>4, <2>1 DEF Carries, Outgoing
<1>5. \A c, k, i : Carries(c, k, i)' <=> Carries(c, k, i)
  BY <1>1 DEF Carries
<1> SUFFICES ASSUME semaLive PROVE OnceInv'
  BY <1>1 DEF OnceInv
<1>6. \A r, s \in Callers : r # s /\ pc'[s] # "idle" => req'[r].id # req'[s].id
  BY <1>1, <1>2 DEF OnceInv
<1>7. \A s \in Callers : pc'[s] \in Unsent => \A e \in served : e.id # req'[s].id
  BY <1>1, <1>3 DEF OnceInv
<1>8. ASSUME NEW c \in Conns, NEW i \in Ids, NEW k \in 1 .. Len(up[c]),
             Carries(c, k, i)
      PROVE  \A s \in Callers : pc'[s] \in Unsent => req'[s].id # i
  BY <1>1, <1>4, <1>8 DEF OnceInv
<1> QED
  BY <1>1, <1>5, <1>6, <1>7, <1>8 DEF OnceInv

(* It goes out once.                                                        *)
LEMMA OnceSent ==
    ASSUME TypeOK, FreshInv, StreamInv, SemaInv, BoundInv, OnceInv,
           NEW t \in Callers, SendHeader(t)
    PROVE  OnceInv'
<1> USE DEF TypeOK, semaVars, globalVars, bufferVars, streamVars, sockVars, netVars,
            callVars, argVars, Goto
<1>1. /\ t \in Agents /\ Holding(t)
      /\ UNCHANGED <<semaLive, req, pko_fileio_sock>>
      /\ \A s \in Callers : s # t => pc'[s] = pc[s]
  BY Exchanging, Zenon DEF Exchange
<1>2. PICK h \in Conns : csock[t] = h /\ ConnOf(csock[t]) = h
  <2>1. pc[t] = "send" /\ ConnOf(csock[t]) # NoSock
    BY DEF SendHeader
  <2> QED
    BY <2>1, OpenHandle
<1>3. /\ pc[t] = "send" /\ pc'[t] \in {"cap_data", "cap_accept"} /\ served' = served
      /\ up' \in {up, [up EXCEPT ![h] = Append(@, send_packet)]}
  BY <1>1, <1>2 DEF SendHeader, Deliver
<1>4. \A s \in Callers : /\ pc'[s] \in Unsent => pc[s] \in Unsent
                         /\ pc'[s] # "idle" => pc[s] # "idle"
  BY <1>1, <1>3 DEF Unsent
<1>5. CASE up' = up
  <2>1. \A c \in Conns : Fewer(c)
    BY <1>5, FewerSame
  <2> QED
    BY <1>1, <1>3, <1>4, <2>1, OnceKept
<1>6. CASE up' = [up EXCEPT ![h] = Append(@, send_packet)]
  <2> SUFFICES ASSUME semaLive PROVE OnceInv'
    BY <1>1 DEF OnceInv
  <2> DEFINE n == Len(up[h]) + 1
             me == req[t].id
  <2>1. send_packet = Request(t) /\ Request(t).id = me /\ pc[t] \in Unsent
    BY <1>1, <1>3, Alone DEF Knows, Request, Token, Unsent
  <2>2. /\ Len(up'[h]) = n /\ n \in Nat
        /\ \A k \in 1 .. Len(up[h]) : up'[h][k] = up[h][k]
        /\ up'[h][n] = send_packet
    BY <1>6, AppendProperties, LenProperties
  <2> HIDE DEF n, me
  <2>3. ASSUME NEW c \in Conns, NEW i \in Ids, NEW k \in 1 .. Len(up'[c]),
               Carries(c, k, i)'
        PROVE  \/ k \in 1 .. Len(up[c]) /\ Carries(c, k, i) /\ i # me
               \/ c = h /\ k = n /\ i = me
    <3>1. CASE c = h /\ k = n
      BY <2>1, <2>2, <2>3, <3>1 DEF Carries
    <3>2. CASE c # h \/ k # n
      <4>1. k \in 1 .. Len(up[c]) /\ up'[c][k] = up[c][k]
        BY <1>6, <2>2, <3>2 DEF n
      <4>2. Carries(c, k, i)
        BY <2>3, <4>1 DEF Carries
      <4>3. i # me
        BY <2>1, <4>1, <4>2 DEF OnceInv, me
      <4> QED
        BY <4>1, <4>2, <4>3
    <3> QED BY <3>1, <3>2
  <2>4. \A r, s \in Callers : r # s /\ pc'[s] # "idle" => req'[r].id # req'[s].id
    BY <1>1, <1>4 DEF OnceInv
  <2>5. \A s \in Callers : pc'[s] \in Unsent => \A e \in served' : e.id # req'[s].id
    BY <1>1, <1>3, <1>4 DEF OnceInv
  <2>6. /\ \A e \in served' : e.id # me
        /\ \A s \in Callers : pc'[s] \in Unsent => req'[s].id # me
    <3>1. pc'[t] \notin Unsent /\ pc[t] # "idle"
      BY <1>3 DEF Unsent
    <3> QED
      BY <1>1, <1>3, <2>1, <3>1 DEF OnceInv, me
  <2>7. ASSUME NEW c \in Conns, NEW i \in Ids, NEW k \in 1 .. Len(up'[c]),
               Carries(c, k, i)'
        PROVE  /\ \A e \in served' : e.id # i
               /\ \A s \in Callers : pc'[s] \in Unsent => req'[s].id # i
    BY <1>1, <1>3, <1>4, <2>3, <2>6, <2>7 DEF OnceInv
  <2>8. ASSUME NEW c \in Conns, NEW i \in Ids, NEW k \in 1 .. Len(up'[c]),
               NEW d \in Conns, NEW j \in 1 .. Len(up'[d]),
               Carries(c, k, i)', Carries(d, j, i)'
        PROVE  d = c /\ j = k
    <3>1. CASE i = me
      BY <2>3, <2>8, <3>1
    <3>2. CASE i # me
      BY <2>3, <2>8, <3>2 DEF OnceInv
    <3> QED BY <3>1, <3>2
  <2> QED
    BY <2>4, <2>5, <2>7, <2>8 DEF OnceInv
<1> QED BY <1>3, <1>5, <1>6

(* The PC takes it off the stream as it executes it.                        *)
LEMMA OnceServed ==
    ASSUME TypeOK, BoundInv, OnceInv, NEW d \in Conns, Serve(d)
    PROVE  OnceInv'
<1> USE DEF TypeOK, semaVars, globalVars, bufferVars, streamVars, sockVars, netVars,
            callVars, argVars
<1>1. PICK s \in Seq(Tokens), n \in 1 .. 2, i \in Ids :
        /\ s = up[d] /\ s # <<>> /\ n = Taken(s) /\ n <= Len(s) /\ i = Head(s).id
        /\ up' = [up EXCEPT ![d] = SubSeq(s, n + 1, Len(s))]
        /\ UNCHANGED <<semaLive, pc, req>>
  <2>1. Head(up[d]) \in Tokens /\ Taken(up[d]) \in 1 .. 2
    BY HeadTailProperties DEF Serve, Taken
  <2> QED
    BY <2>1 DEF Serve, Tokens
<1>2. Len(s) \in Nat /\ Len(s) >= 1 /\ s[1] = Head(s) /\ Head(s) \in Tokens
  BY <1>1, EmptySeq, LenProperties, HeadTailProperties
<1>3. \A k \in 1 .. Len(up'[d]) :
         k + n \in 1 .. Len(up[d]) /\ up'[d][k] = up[d][k + n]
  <2>1. up'[d] = SubSeq(up[d], n + 1, Len(up[d]))
    <3>1. up \in [Conns -> Seq(Tokens)] /\ d \in Conns
      OBVIOUS
    <3> QED
      BY ONLY <1>1, <3>1
  <2>2. n <= Len(up[d]) /\ n \in Nat
    BY ONLY <1>1, n \in 1 .. 2
  <2> QED
    BY <2>1, <2>2, FewerTaken
<1>4. ASSUME NEW c \in Conns PROVE Fewer(c)
  <2>1. CASE c = d
    <3>1. n \in Nat
      OBVIOUS
    <3>2. Fewer(d)
      BY <1>3, <3>1, Zenon DEF Fewer
    <3> QED BY <2>1, <3>2
  <2>2. CASE c # d
    BY <1>1, <2>2, FewerSame
  <2> QED BY <2>1, <2>2
<1>5. PICK val : served' = IF Genuine(s)
                           THEN served \cup {[id |-> i, val |-> val]}
                           ELSE served
  BY <1>1 DEF Serve
<1>6. ASSUME Genuine(s), semaLive
      PROVE  /\ \A c \in Conns, k \in Nat : ~Carries(c, k, i)'
             /\ \A t \in Callers : pc[t] \in Unsent => req[t].id # i
  <2>1. 1 \in 1 .. Len(up[d]) /\ Carries(d, 1, i) /\ i \in Ids
    BY <1>1, <1>2, <1>6 DEF Carries, Genuine
  <2>2. ASSUME NEW c \in Conns, NEW k \in Nat, Carries(c, k, i)' PROVE FALSE
    <3>1. CASE c = d
      <4>1. k \in 1 .. Len(up'[d]) /\ up'[d][k].k = "req" /\ up'[d][k].id = i
        BY <1>1, <2>2, <3>1 DEF Carries
      <4>2. k + n \in 1 .. Len(up[d]) /\ Carries(d, k + n, i)
        BY <1>3, <4>1 DEF Carries
      <4>3. k + n # 1
        BY <1>1, <4>1
      <4> QED
        BY <1>6, <2>1, <4>2, <4>3 DEF OnceInv
    <3>2. CASE c # d
      <4>1. k \in 1 .. Len(up[c]) /\ Carries(c, k, i)
        BY <1>1, <2>2, <3>2 DEF Carries
      <4> QED
        BY <1>6, <2>1, <3>2, <4>1 DEF OnceInv
    <3> QED BY <3>1, <3>2
  <2> QED
    BY <1>6, <2>1, <2>2 DEF OnceInv
<1> SUFFICES ASSUME semaLive PROVE OnceInv'
  BY <1>1 DEF OnceInv
<1>7. ASSUME NEW e \in served'
      PROVE  \/ e \in served
             \/ /\ \A c \in Conns, k \in Nat : ~Carries(c, k, e.id)'
                /\ \A t \in Callers : pc[t] \in Unsent => req[t].id # e.id
  <2>1. CASE Genuine(s)
    <3>1. e \in served \/ e = [id |-> i, val |-> val]
      BY <1>5, <1>7, <2>1
    <3>2. e \in served \/ e.id = i
      BY <3>1
    <3> QED
      BY <1>6, <2>1, <3>2
  <2>2. CASE ~Genuine(s)
    BY <1>5, <1>7, <2>2
  <2> QED BY <2>1, <2>2
<1> QED
  BY <1>1, <1>4, <1>7, OnceKept

(* Whatever else is done to the streams takes requests away.                *)
LEMMA OnceFewer ==
    ASSUME TypeOK, BoundInv, OnceInv,
           \/ \E t \in Callers : SendData(t) \/ SendFail(t)
           \/ \E a \in Agents : Disconnect(a)
           \/ \E c \in Conns : Discard(c) \/ Drop(c)
    PROVE  OnceInv'
<1> USE DEF TypeOK, semaVars, globalVars, bufferVars, streamVars, sockVars, netVars,
            callVars, argVars, Goto, Unsent, Agents
<1>1. ASSUME NEW t \in Callers, SendData(t) \/ SendFail(t) PROVE OnceInv'
  <2>1. /\ UNCHANGED <<semaLive, req, served>>
        /\ \A s \in Callers : /\ pc'[s] \in Unsent => pc[s] \in Unsent
                              /\ pc'[s] # "idle" => pc[s] # "idle"
    BY <1>1 DEF SendData, SendFail, Fail
  <2>2. /\ [send_packet EXCEPT !.k = "torn"] \in Tokens
        /\ [send_packet EXCEPT !.k = "torn"].k # "req"
        /\ Token("data", "write", req[t].id, req[t].len) \in Tokens
        /\ Token("data", "write", req[t].id, req[t].len).k # "req"
    BY DEF Token, Tokens, Kinds, Ops
  <2>3. PICK m \in Tokens, h \in Conns \cup {NoSock} :
          m.k # "req" /\ (up' = up \/ up' = [up EXCEPT ![h] = Append(@, m)])
    BY <1>1, <2>2 DEF SendData, SendFail, Deliver, ConnOf, Socks
  <2>4. ASSUME NEW c \in Conns PROVE Fewer(c)
    <3>1. up'[c] = up[c] \/ up'[c] = Append(up[c], m)
      BY <2>3
    <3> QED
      BY <2>3, <3>1, FewerSame, FewerAppended
  <2> QED
    BY <2>1, <2>4, OnceKept
<1>2. ASSUME NEW a \in Agents, Disconnect(a) PROVE OnceInv'
  <2>1. /\ UNCHANGED <<semaLive, req, served>>
        /\ \A s \in Callers : /\ pc'[s] \in Unsent => pc[s] \in Unsent
                              /\ pc'[s] # "idle" => pc[s] # "idle"
    BY <1>2 DEF Disconnect, AfterClose
  <2>2. ASSUME NEW c \in Conns PROVE Fewer(c)
    <3>1. up'[c] = up[c] \/ up'[c] = <<>>
      BY <1>2 DEF Disconnect
    <3> QED
      BY <3>1, FewerSame, FewerLost
  <2> QED
    BY <2>1, <2>2, OnceKept
<1>3. ASSUME NEW d \in Conns, Discard(d) \/ Drop(d) PROVE OnceInv'
  <2>1. UNCHANGED <<semaLive, pc, req, served>>
    BY <1>3 DEF Discard, Drop
  <2>2. ASSUME NEW c \in Conns PROVE Fewer(c)
    <3>1. CASE up'[c] = up[c] \/ up'[c] = <<>>
      BY <3>1, FewerSame, FewerLost
    <3>2. CASE up[c] # <<>> /\ up'[c] = Tail(up[c])
      <4>1. /\ 1 \in Nat
            /\ \A k \in 1 .. Len(up'[c]) :
                  k + 1 \in 1 .. Len(up[c]) /\ up'[c][k] = up[c][k + 1]
        BY <3>2, HeadTailProperties, LenProperties
      <4> QED
        BY <4>1, Zenon DEF Fewer
    <3> QED
      BY <1>3, <3>1, <3>2 DEF Discard, Drop
  <2> QED
    BY <2>1, <2>2, OnceKept
<1> QED BY <1>1, <1>2, <1>3

(* The other steps leave what is on its way to the PC alone.                *)
LEMMA OnceElsewhere ==
    ASSUME TypeOK, BoundInv, OnceInv, UNCHANGED <<up, served>>, semaLive' => semaLive,
           \A t \in Callers :
              /\ \/ req'[t] = req[t]
                 \/ pc'[t] = "idle" /\ req'[t] = NoReq
              /\ pc'[t] \in Unsent => pc[t] \in Unsent
              /\ pc'[t] # "idle" => pc[t] # "idle"
    PROVE  OnceInv'
<1>1. \A c \in Conns : Fewer(c)
  BY FewerSame
<1> QED
  BY <1>1, OnceKept DEF NoReq

(* The steps that send nothing and execute nothing keep OnceInv.            *)
LEMMA OnceOthers ==
    ASSUME TypeOK, BoundInv, OnceInv,
           \/ \E a \in Callers \cup Unmounters : Acquire(a) \/ Release(a)
           \/ \E a \in Agents : CloseRead(a) \/ CloseClear(a)
           \/ \E u \in Unmounters : Unmount(u) \/ Deactivate(u) \/ DeleteSema(u)
           \/ \E t \in Callers : EnterReturn(t) \/ EnterBuild(t) \/ Capture(t)
           \/ \E t \in Callers : RecvHeader(t) \/ RecvBody(t) \/ RecvData(t)
           \/ \E t \in Callers : RecvFail(t) \/ Result(t)
           \/ ServerStart \/ ServerFail \/ ServerLoop \/ Accept \/ AcceptError
           \/ CheckReconnect \/ Install \/ Unlisten
           \/ \E c \in Conns : Connect(c)
           \/ UNCHANGED vars
    PROVE  OnceInv'
<1> DEFINE Kept ==
             /\ UNCHANGED <<up, served>> /\ (semaLive' => semaLive)
             /\ \A t \in Callers :
                  /\ \/ req'[t] = req[t]
                     \/ pc'[t] = "idle" /\ req'[t] = NoReq
                  /\ pc'[t] \in Unsent => pc[t] \in Unsent
                  /\ pc'[t] # "idle" => pc[t] # "idle"
<1> USE AgentsAssumption DEF TypeOK, vars, semaVars, globalVars, bufferVars,
        streamVars, sockVars, netVars, callVars, argVars, Goto, Unsent, Agents
<1>1. ASSUME NEW a \in Callers \cup Unmounters, Acquire(a) \/ Release(a) PROVE Kept
  BY <1>1 DEF Acquire, Release
<1>2. ASSUME NEW a \in Agents, CloseRead(a) \/ CloseClear(a) PROVE Kept
  <2>1. UNCHANGED <<up, served, semaLive, req>>
    BY <1>2 DEF CloseRead, CloseClear
  <2>2. CASE CloseRead(a)
    BY <2>1, <2>2 DEF CloseRead
  <2>3. CASE CloseClear(a)
    <3>1. AfterClose(a) \in {"release", "install", "unlisten"}
      BY DEF AfterClose
    <3> QED BY <2>1, <2>3, <3>1 DEF CloseClear
  <2> QED BY <1>2, <2>2, <2>3
<1>3. ASSUME NEW u \in Unmounters, Unmount(u) \/ Deactivate(u) \/ DeleteSema(u)
      PROVE  Kept
  BY <1>3 DEF Unmount, Deactivate, DeleteSema
<1>4. ASSUME NEW t \in Callers, EnterReturn(t) \/ EnterBuild(t) \/ Capture(t)
      PROVE  Kept
  BY <1>4 DEF EnterReturn, EnterBuild, Capture, Captures
<1>5. ASSUME NEW t \in Callers, RecvHeader(t) \/ RecvBody(t) \/ RecvData(t)
      PROVE  Kept
  <2>1. UNCHANGED <<up, served, semaLive, req>>
    BY <1>5 DEF RecvHeader, RecvBody, RecvData
  <2>2. \E label \in {"body", "result", "release", "close_read"} :
           pc' = [pc EXCEPT ![t] = label]
    BY <1>5, Zenon DEF RecvHeader, RecvBody, RecvData, Fail
  <2>3. pc[t] \in {"header", "body", "rdata"}
    BY <1>5, Zenon DEF RecvHeader, RecvBody, RecvData
  <2> QED BY <2>1, <2>2, <2>3
<1>6. ASSUME NEW t \in Callers, RecvFail(t) \/ Result(t) PROVE Kept
  BY <1>6 DEF RecvFail, Result, Receiving, Fail
<1>7. ASSUME \/ ServerStart \/ ServerFail \/ ServerLoop \/ Accept \/ AcceptError
             \/ CheckReconnect \/ Install \/ Unlisten
             \/ \E c \in Conns : Connect(c)
             \/ UNCHANGED vars
      PROVE  Kept
  <2>1. UNCHANGED <<up, served, semaLive, req>>
    BY <1>7 DEF ServerStart, ServerFail, ServerLoop, Accept, AcceptError,
       CheckReconnect, Install, Unlisten, Connect
  <2>2. \A t \in Callers : pc'[t] = pc[t]
    BY <1>7 DEF ServerStart, ServerFail, ServerLoop, Accept, AcceptError,
       CheckReconnect, Install, Unlisten, Connect
  <2> QED BY <2>1, <2>2
<1>8. Kept
  BY <1>1, <1>2, <1>3, <1>4, <1>5, <1>6, <1>7, Zenon
<1> QED BY <1>8, OnceElsewhere

(* Every request has its own number and is executed once at most.           *)
LEMMA OnceAlways == Spec => [](~reused => OnceInv)
<1>1. Init => OnceInv
  BY AgentsAssumption DEF Init, OnceInv, Carries, Agents, Unsent
<1>2. TypeOK /\ SemaInv /\ BoundInv /\ (~reused => FreshInv)
      /\ (~reused => StreamInv) /\ (~reused => OnceInv) /\ [Next]_vars
      => (~reused => OnceInv)'
  <2> SUFFICES ASSUME TypeOK, SemaInv, FreshInv, StreamInv, BoundInv, OnceInv,
                      [Next]_vars
               PROVE  OnceInv'
    BY ReusedStays
  <2>1. ASSUME NEW t \in Callers, NEW op \in Ops, NEW len \in -1 .. MaxLen,
               Call(t, op, len)
        PROVE  OnceInv'
    BY <2>1, OnceCall
  <2>2. ASSUME NEW t \in Callers, SendHeader(t) PROVE OnceInv'
    BY <2>2, OnceSent
  <2>3. ASSUME NEW c \in Conns, Serve(c) PROVE OnceInv'
    BY <2>3, OnceServed
  <2> QED
    BY NextCases, <2>1, <2>2, <2>3, OnceFewer, OnceOthers, Zenon
<1> QED
  BY <1>1, <1>2, TypeCorrect, SemaAlways, FreshAlways, StreamAlways, BoundAlways,
     PTL DEF Spec

-----------------------------------------------------------------------------
(* Step by step.                                                            *)

(* What HostRPC sees of a call.                                             *)
CallOf(t)   == [id |-> req[t].id, local |-> Trivial(t)]
AnswerOf(t) == IF pc[t] = "release" THEN ret[t] ELSE 0
Seen(t)     == <<ServiceStage(t), CallOf(t), AnswerOf(t)>>

(* What leaves a call's stage, request and answer alone is no step of       *)
(* HostRPC.                                                                 *)
LEMMA HostStutter ==
    ASSUME UNCHANGED <<Promised, nreq, served>>,
           \A t \in Callers : UNCHANGED Seen(t)
    PROVE  UNCHANGED Host!vars
BY DEF Host!vars, Seen, CallOf, AnswerOf

(* A call of the driver asks HostRPC.                                       *)
LEMMA HostAsk ==
    ASSUME TypeOK, NEW t \in Callers, NEW op \in Ops, NEW len \in -1 .. MaxLen,
           Call(t, op, len)
    PROVE  Host!Ask(t)
<1> USE DEF Promised, TypeOK, semaVars, globalVars, bufferVars, streamVars, sockVars, netVars,
            callVars, argVars, Goto, Agents
<1>1. /\ pc[t] = "idle" /\ pc' = [pc EXCEPT ![t] = "wait"] /\ t \in Agents
      /\ nreq' = nreq + 1 /\ nreq + 1 \in Ids /\ nreq \in Nat
      /\ req' = [req EXCEPT ![t] = [op |-> op, len |-> len, id |-> nreq + 1]]
      /\ UNCHANGED <<Promised, served, ret>>
  BY BoundsAssumption DEF Call, Ids
<1>2. ServiceStage(t) = "idle" /\ ServiceStage(t)' = "waiting"
  BY <1>1 DEF ServiceStage
<1>3. \A s \in Callers : s # t => UNCHANGED Seen(s)
  BY <1>1 DEF Seen, ServiceStage, CallOf, AnswerOf, Trivial
<1>4. AnswerOf(t)' = AnswerOf(t)
  BY <1>1 DEF AnswerOf
<1>5. CallOf(t)' = [id |-> nreq + 1, local |-> Trivial(t)'] /\ Trivial(t)' \in BOOLEAN
  BY <1>1 DEF CallOf, Trivial
<1>6. nreq + 1 \in Ids \ (1 .. nreq) /\ 1 .. nreq' = (1 .. nreq) \cup {nreq + 1}
  BY <1>1
<1>7. [s \in Callers |-> ServiceStage(s)]'
         = [[s \in Callers |-> ServiceStage(s)] EXCEPT ![t] = "waiting"]
  BY <1>2, <1>3 DEF Seen
<1>8. [s \in Callers |-> [id |-> req[s].id, local |-> Trivial(s)]]'
         = [[s \in Callers |-> [id |-> req[s].id, local |-> Trivial(s)]]
             EXCEPT ![t] = [id |-> nreq + 1, local |-> Trivial(t)']]
  BY <1>3, <1>5 DEF Seen, CallOf
<1>9. UNCHANGED [s \in Callers |-> IF pc[s] = "release" THEN ret[s] ELSE 0]
  BY <1>3, <1>4 DEF Seen, AnswerOf
<1> QED
  BY <1>1, <1>2, <1>5, <1>6, <1>7, <1>8, <1>9 DEF Host!Ask

(* A caller that gets the semaphore is granted its call.                    *)
LEMMA HostGrant ==
    ASSUME TypeOK, SemaInv, BoundInv, NEW t \in Callers, Acquire(t)
    PROVE  Host!Grant(t)
<1> USE AgentsAssumption DEF Promised, TypeOK, semaVars, globalVars, bufferVars,
        streamVars, sockVars, netVars, callVars, argVars, Goto, Agents
<1>1. /\ pc[t] = "wait" /\ pc' = [pc EXCEPT ![t] = "enter"]
      /\ UNCHANGED <<Promised, nreq, served, req, ret>>
  BY DEF Acquire
<1>2. ServiceStage(t) = "waiting" /\ ServiceStage(t)' = "served"
  BY <1>1 DEF ServiceStage
<1>3. \A s \in Callers : s # t => ServiceStage(s)' = ServiceStage(s)
  BY <1>1 DEF ServiceStage
<1>4. \A s \in Callers : AnswerOf(s)' = AnswerOf(s) /\ CallOf(s)' = CallOf(s)
  BY <1>1 DEF AnswerOf, CallOf, Trivial
<1>5. ASSUME Promised, NEW s \in Callers PROVE ServiceStage(s) \in {"idle", "waiting"}
  <2>1. sema # 0
    BY <1>5 DEF Acquire
  <2>2. ~Holding(s)
    BY <1>5, <2>1 DEF SemaInv
  <2>3. pc[s] \in {"idle", "wait"}
    BY <2>2 DEF Holding, Outside, BoundInv
  <2> QED
    BY <2>3 DEF ServiceStage
<1>6. [s \in Callers |-> ServiceStage(s)]'
         = [[s \in Callers |-> ServiceStage(s)] EXCEPT ![t] = "served"]
  BY <1>2, <1>3
<1>7. Promised => Host!InService = {}
  BY <1>5 DEF Host!InService
<1>8. /\ UNCHANGED [s \in Callers |-> [id |-> req[s].id, local |-> Trivial(s)]]
      /\ UNCHANGED [s \in Callers |-> IF pc[s] = "release" THEN ret[s] ELSE 0]
  BY <1>4 DEF CallOf, AnswerOf
<1> QED
  BY <1>1, <1>2, <1>6, <1>7, <1>8 DEF Host!Grant

(* What a caller does while it is served is out of sight, until it has an   *)
(* answer.                                                                  *)
LEMMA HostServed ==
    ASSUME TypeOK, BoundInv', (~reused => StreamInv)', NEW t \in Callers,
           UNCHANGED <<Promised, nreq, served, req>>,
           pc[t] \notin {"idle", "wait", "release"}, pc'[t] \notin {"idle", "wait"},
           \A s \in Callers : s # t => UNCHANGED <<pc[s], ret[s]>>,
           Trivial(t) => ret'[t] <= 0
    PROVE  Host!Answer(t) \/ UNCHANGED Host!vars
<1>1. /\ \A s \in Callers : CallOf(s)' = CallOf(s)
      /\ \A s \in Callers : s # t => UNCHANGED Seen(s)
  BY DEF CallOf, Trivial, Seen, ServiceStage, AnswerOf
<1>2. ServiceStage(t) = "served" /\ AnswerOf(t) = 0
  BY DEF ServiceStage, AnswerOf
<1>3. CASE pc'[t] # "release"
  <2>1. ServiceStage(t)' = "served" /\ AnswerOf(t)' = 0
    BY <1>3 DEF ServiceStage, AnswerOf
  <2>2. \A s \in Callers : UNCHANGED Seen(s)
    BY <1>1, <1>2, <2>1 DEF Seen
  <2> QED
    BY <2>2, HostStutter
<1>4. CASE pc'[t] = "release"
  <2>1. ServiceStage(t)' = "answered" /\ AnswerOf(t)' = ret'[t]
    BY <1>4 DEF ServiceStage, AnswerOf
  <2>2. ret'[t] \in ReturnVals /\ ret'[t] \in Int
    BY DEF BoundInv, ReturnVals, RlySize
  <2>3. Promised => Host!Truthful(t, ret'[t])
    <3> SUFFICES ASSUME Promised, ret'[t] >= 0 PROVE Host!Truthful(t, ret'[t])
      BY <2>2 DEF Host!Truthful
    <3>1. CASE Trivial(t)
      <4>1. ret'[t] = 0
        BY <2>2, <3>1
      <4> QED
        BY <3>1, <4>1 DEF Host!Truthful
    <3>2. CASE ~Trivial(t)
      <4>1. Knows(t)' /\ Trivial(t)' = Trivial(t)
        BY DEF Promised, StreamInv, Trivial
      <4>2. Executed(t, ret[t])'
        BY <1>4, <3>2, <4>1 DEF Knows
      <4> QED
        BY <4>2 DEF Executed, Host!Truthful
    <3> QED BY <3>1, <3>2
  <2>4. [s \in Callers |-> ServiceStage(s)]'
           = [[s \in Callers |-> ServiceStage(s)] EXCEPT ![t] = "answered"]
    BY <1>1, <2>1 DEF Seen
  <2>5. [s \in Callers |-> IF pc[s] = "release" THEN ret[s] ELSE 0]'
           = [[s \in Callers |-> IF pc[s] = "release" THEN ret[s] ELSE 0]
               EXCEPT ![t] = ret'[t]]
    BY <1>1, <2>1 DEF Seen, AnswerOf
  <2>6. UNCHANGED [s \in Callers |-> [id |-> req[s].id, local |-> Trivial(s)]]
    BY <1>1 DEF CallOf
  <2> QED
    BY <1>2, <2>2, <2>3, <2>4, <2>5, <2>6 DEF Host!Answer
<1> QED BY <1>3, <1>4

(* A caller that gives the semaphore back returns.                          *)
LEMMA HostReturn ==
    ASSUME TypeOK, NEW t \in Callers, Release(t)
    PROVE  Host!Return(t)
<1> USE DEF Promised, TypeOK, semaVars, globalVars, bufferVars, streamVars, sockVars, netVars,
        callVars, argVars, Goto, Agents
<1>1. /\ pc[t] = "release" /\ pc' = [pc EXCEPT ![t] = "idle"]
      /\ req' = [req EXCEPT ![t] = NoReq] /\ ret' = [ret EXCEPT ![t] = 0]
      /\ UNCHANGED <<Promised, nreq, served>>
  BY DEF Release
<1>2. ServiceStage(t) = "answered" /\ ServiceStage(t)' = "idle" /\ AnswerOf(t)' = 0
  BY <1>1 DEF ServiceStage, AnswerOf
<1>3. \A s \in Callers : s # t => UNCHANGED Seen(s)
  BY <1>1 DEF Seen, ServiceStage, CallOf, AnswerOf, Trivial
<1>4. CallOf(t)' = Host!NoCall
  BY <1>1 DEF CallOf, Trivial, NoReq, Host!NoCall
<1>5. [s \in Callers |-> ServiceStage(s)]'
         = [[s \in Callers |-> ServiceStage(s)] EXCEPT ![t] = "idle"]
  BY <1>2, <1>3 DEF Seen
<1>6. [s \in Callers |-> [id |-> req[s].id, local |-> Trivial(s)]]'
         = [[s \in Callers |-> [id |-> req[s].id, local |-> Trivial(s)]]
             EXCEPT ![t] = Host!NoCall]
  BY <1>3, <1>4 DEF Seen, CallOf
<1>7. [s \in Callers |-> IF pc[s] = "release" THEN ret[s] ELSE 0]'
         = [[s \in Callers |-> IF pc[s] = "release" THEN ret[s] ELSE 0]
             EXCEPT ![t] = 0]
  BY <1>2, <1>3 DEF Seen, AnswerOf
<1> QED
  BY <1>1, <1>2, <1>5, <1>6, <1>7 DEF Host!Return

(* What changes no caller's place is no step of HostRPC.                    *)
LEMMA HostElsewhere ==
    ASSUME UNCHANGED <<Promised, nreq, served, req, ret>>,
           \A t \in Callers : UNCHANGED pc[t]
    PROVE  UNCHANGED Host!vars
BY HostStutter DEF Seen, ServiceStage, CallOf, AnswerOf, Trivial

(* A request is executed when the PC takes it off the stream; bytes that    *)
(* are no whole request of somebody are nothing to HostRPC.                 *)
LEMMA HostExecute ==
    ASSUME TypeOK, BoundInv, ~reused => OnceInv, NEW c \in Conns, Serve(c)
    PROVE  Host!Execute \/ UNCHANGED Host!vars
<1> USE DEF Promised, TypeOK, semaVars, globalVars, bufferVars, streamVars, sockVars, netVars,
            callVars, argVars
<1>1. UNCHANGED <<Promised, nreq, req, ret, pc>>
  BY DEF Serve
<1>2. /\ \A s \in Callers : UNCHANGED Seen(s)
      /\ UNCHANGED [s \in Callers |-> ServiceStage(s)]
      /\ UNCHANGED [s \in Callers |-> [id |-> req[s].id, local |-> Trivial(s)]]
      /\ UNCHANGED [s \in Callers |-> IF pc[s] = "release" THEN ret[s] ELSE 0]
  BY <1>1 DEF Seen, ServiceStage, CallOf, AnswerOf, Trivial
<1>3. PICK m \in Outgoing : m = Head(up[c]) /\ m = up[c][1] /\ 1 \in 1 .. Len(up[c])
  BY HeadTailProperties, EmptySeq, LenProperties DEF Serve, BoundInv
<1>4. PICK val \in ReplyVals(m) :
        served' = IF Genuine(up[c]) THEN served \cup {[id |-> m.id, val |-> val]}
                  ELSE served
  BY <1>3, Zenon DEF Serve
<1>5. CASE ~Genuine(up[c])
  BY <1>1, <1>2, <1>4, <1>5, HostStutter
<1>6. CASE Genuine(up[c])
  <2>1. m.k = "req" /\ m.id \in 1 .. nreq /\ m.id \in Ids
    BY <1>3, <1>6 DEF Genuine, Outgoing, Tokens
  <2>2. val \in ReturnVals
    BY ReplyReturned
  <2>3. Carries(c, 1, m.id)
    BY <1>3, <2>1 DEF Carries
  <2>4. ASSUME Promised
        PROVE  /\ \A e \in served : e.id # m.id
               /\ \A s \in Callers : ServiceStage(s) = "waiting" => req[s].id # m.id
    <3>1. \A s \in Callers : ServiceStage(s) = "waiting" => pc[s] \in Unsent
      BY DEF ServiceStage, Unsent
    <3> QED
      BY <1>3, <2>1, <2>3, <2>4, <3>1 DEF OnceInv
  <2>5. served' = served \cup {[id |-> m.id, val |-> val]}
    BY <1>4, <1>6
  <2> QED
    BY <1>1, <1>2, <2>1, <2>2, <2>4, <2>5 DEF Host!Execute
<1> QED BY <1>5, <1>6

(* Deleting the semaphore ends the promise.                                 *)
LEMMA HostDestroy ==
    ASSUME TypeOK, NEW u \in Unmounters, DeleteSema(u)
    PROVE  Host!Destroy
<1> USE AgentsAssumption DEF Promised, TypeOK, semaVars, globalVars, bufferVars,
        streamVars, sockVars, netVars, callVars, argVars, Goto, Agents
<1>1. /\ Promised' = FALSE /\ UNCHANGED <<nreq, served, req, ret>>
      /\ \A t \in Callers : UNCHANGED pc[t]
  BY DEF DeleteSema
<1>2. /\ UNCHANGED [s \in Callers |-> ServiceStage(s)]
      /\ UNCHANGED [s \in Callers |-> [id |-> req[s].id, local |-> Trivial(s)]]
      /\ UNCHANGED [s \in Callers |-> IF pc[s] = "release" THEN ret[s] ELSE 0]
  BY <1>1 DEF ServiceStage, Trivial
<1> QED
  BY <1>1, <1>2 DEF Host!Destroy

(* A step of an exchange is out of sight, or it gives the call an answer.   *)
LEMMA HostExchange ==
    ASSUME TypeOK, BoundInv, BoundInv', (~reused => StreamInv)', NEW t \in Callers,
           \/ EnterReturn(t) \/ EnterBuild(t) \/ Capture(t)
           \/ SendHeader(t) \/ SendData(t) \/ SendFail(t)
           \/ RecvHeader(t) \/ RecvBody(t) \/ RecvData(t)
           \/ RecvFail(t) \/ Result(t)
           \/ CloseRead(t) \/ CloseClear(t) \/ Disconnect(t)
    PROVE  Host!Answer(t) \/ UNCHANGED Host!vars
<1> DEFINE Served ==
      /\ UNCHANGED <<Promised, nreq, served, req>>
      /\ pc[t] \notin {"idle", "wait", "release"} /\ pc'[t] \notin {"idle", "wait"}
      /\ \A s \in Callers : s # t => UNCHANGED <<pc[s], ret[s]>>
      /\ Trivial(t) => ret'[t] <= 0
<1> USE AgentsAssumption DEF Promised, TypeOK, semaVars, globalVars, bufferVars,
        streamVars, sockVars, netVars, callVars, argVars, Goto, Fail, Agents
<1>1. CASE EnterReturn(t)
  <2>1. Served
    BY <1>1 DEF EnterReturn
  <2> QED BY <2>1, HostServed
<1>2. CASE EnterBuild(t)
  <2>1. Served
    BY <1>2 DEF EnterBuild
  <2> QED BY <2>1, HostServed
<1>3. CASE Capture(t)
  <2>1. Served
    BY <1>3 DEF Capture, Captures, BoundInv
  <2> QED BY <2>1, HostServed
<1>4. CASE SendHeader(t) \/ SendData(t) \/ SendFail(t)
  <2>1. Served
    BY <1>4 DEF SendHeader, SendData, SendFail, BoundInv
  <2> QED BY <2>1, HostServed
<1>5. CASE RecvHeader(t) \/ RecvBody(t)
  <2>1. Served
    BY <1>5 DEF RecvHeader, RecvBody, BoundInv
  <2> QED BY <2>1, HostServed
<1>6. CASE RecvData(t)
  <2>1. Served
    BY <1>6 DEF RecvData, BoundInv
  <2> QED BY <2>1, HostServed
<1>7. CASE RecvFail(t) \/ Result(t)
  <2>1. Served
    BY <1>7 DEF RecvFail, Receiving, Result, BoundInv
  <2> QED BY <2>1, HostServed
<1>8. CASE CloseRead(t) \/ CloseClear(t) \/ Disconnect(t)
  <2>1. Served
    BY <1>8 DEF CloseRead, CloseClear, Disconnect, AfterClose, BoundInv
  <2> QED BY <2>1, HostServed
<1> QED BY <1>1, <1>2, <1>3, <1>4, <1>5, <1>6, <1>7, <1>8

(* A new connection is out of sight, unless its handle is one still held.   *)
LEMMA HostAccept ==
    ASSUME TypeOK, Accept
    PROVE  Host!Destroy \/ UNCHANGED Host!vars
<1> USE AgentsAssumption DEF TypeOK, semaVars, globalVars, bufferVars,
        streamVars, callVars, argVars, Goto, Agents
<1>1. /\ UNCHANGED <<semaLive, nreq, served, req, ret>>
      /\ \A t \in Callers : UNCHANGED pc[t]
  BY DEF Accept
<1>2. reused' = reused \/ reused' = TRUE
  BY DEF Accept
<1>3. CASE reused' = reused
  BY <1>1, <1>3, HostElsewhere DEF Promised
<1>4. CASE reused' = TRUE
  <2>1. Promised' = FALSE
    BY <1>4 DEF Promised
  <2>2. /\ UNCHANGED [s \in Callers |-> ServiceStage(s)]
        /\ UNCHANGED [s \in Callers |-> [id |-> req[s].id, local |-> Trivial(s)]]
        /\ UNCHANGED [s \in Callers |-> IF pc[s] = "release" THEN ret[s] ELSE 0]
    BY <1>1 DEF ServiceStage, Trivial
  <2> QED
    BY <1>1, <2>1, <2>2 DEF Host!Destroy
<1> QED BY <1>2, <1>3, <1>4

(* The rest is out of sight.                                                *)
LEMMA HostOthers ==
    ASSUME TypeOK,
           \/ \E u \in Unmounters : \/ Unmount(u) \/ Deactivate(u)
                                    \/ Acquire(u) \/ Release(u)
           \/ \E a \in Agents \ Callers :
                 CloseRead(a) \/ CloseClear(a) \/ Disconnect(a)
           \/ ServerStart \/ ServerFail \/ ServerLoop \/ AcceptError
           \/ CheckReconnect \/ Install \/ Unlisten
           \/ \E c \in Conns : Connect(c) \/ Discard(c) \/ Drop(c)
           \/ UNCHANGED vars
    PROVE  UNCHANGED Host!vars
<1> DEFINE Elsewhere == /\ UNCHANGED <<Promised, nreq, served, req, ret>>
                        /\ \A t \in Callers : UNCHANGED pc[t]
<1> USE AgentsAssumption DEF Promised, TypeOK, vars, semaVars, globalVars, bufferVars,
        streamVars, sockVars, netVars, callVars, argVars, Goto, Agents
<1>1. ASSUME NEW u \in Unmounters,
             Unmount(u) \/ Deactivate(u) \/ Acquire(u) \/ Release(u)
      PROVE  Elsewhere
  BY <1>1 DEF Unmount, Deactivate, Acquire, Release
<1>2. ASSUME NEW a \in Agents \ Callers, CloseRead(a) \/ CloseClear(a) \/ Disconnect(a)
      PROVE  Elsewhere
  BY <1>2 DEF CloseRead, CloseClear, Disconnect
<1>3. ASSUME \/ ServerStart \/ ServerFail \/ ServerLoop \/ AcceptError
             \/ CheckReconnect \/ Install \/ Unlisten
      PROVE  Elsewhere
  BY <1>3 DEF ServerStart, ServerFail, ServerLoop, AcceptError,
     CheckReconnect, Install, Unlisten
<1>4. ASSUME NEW c \in Conns, Connect(c) \/ Discard(c) \/ Drop(c) PROVE Elsewhere
  BY <1>4 DEF Connect, Discard, Drop
<1>5. ASSUME UNCHANGED vars PROVE Elsewhere
  BY <1>5
<1>6. Elsewhere
  BY <1>1, <1>2, <1>3, <1>4, <1>5, Zenon
<1> QED BY <1>6, HostElsewhere

(* The file system implements HostRPC: one call at a time, a request        *)
(* executed once at most and in its turn, the PC's own answers (net_fsys.c, *)
(* net_fio.c).                                                              *)
THEOREM HostImplemented == Spec => ImplementsHostRPC
<1>1. Init => Host!Init
  <2> SUFFICES ASSUME Init PROVE Host!Init
    OBVIOUS
  <2>1. \A t \in Callers : pc[t] = "idle" /\ req[t] = NoReq
    BY AgentsAssumption DEF Init, Agents
  <2>2. \A t \in Callers :
          ServiceStage(t) = "idle" /\ CallOf(t) = Host!NoCall /\ AnswerOf(t) = 0
    <3> SUFFICES ASSUME NEW t \in Callers
                 PROVE  /\ ServiceStage(t) = "idle" /\ AnswerOf(t) = 0
                        /\ CallOf(t) = Host!NoCall
      OBVIOUS
    <3>1. req[t].id = 0 /\ Trivial(t) = FALSE
      BY <2>1 DEF Trivial, NoReq
    <3> QED
      BY <2>1, <3>1 DEF ServiceStage, CallOf, AnswerOf, Host!NoCall
  <2>3. /\ [t \in Callers |-> ServiceStage(t)] = [t \in Callers |-> "idle"]
        /\ [t \in Callers |-> [id |-> req[t].id, local |-> Trivial(t)]]
             = [t \in Callers |-> Host!NoCall]
        /\ [t \in Callers |-> IF pc[t] = "release" THEN ret[t] ELSE 0]
             = [t \in Callers |-> 0]
    BY <2>2 DEF CallOf, AnswerOf
  <2>4. 1 .. nreq = {} /\ served = {} /\ Promised = TRUE
    BY DEF Init, Promised
  <2> QED
    BY <2>3, <2>4 DEF Host!Init
<1>2. TypeOK /\ SemaInv /\ BoundInv /\ BoundInv'
      /\ (~reused => StreamInv)' /\ (~reused => OnceInv) /\ [Next]_vars
      => [Host!Next]_Host!vars
  <2> SUFFICES ASSUME TypeOK, SemaInv, BoundInv, BoundInv', (~reused => StreamInv)',
                      ~reused => OnceInv, [Next]_vars
               PROVE  Host!Next \/ UNCHANGED Host!vars
    OBVIOUS
  <2> DEFINE Goal == Host!Next \/ UNCHANGED Host!vars
  <2>1. ASSUME NEW t \in Callers, Host!Ask(t) \/ Host!Grant(t) \/ Host!Answer(t)
                                    \/ Host!Return(t)
        PROVE  Goal
    BY <2>1, Zenon DEF Host!Next
  <2>2. Host!Execute \/ Host!Destroy => Goal
    BY Zenon DEF Host!Next
  <2> HIDE DEF Goal
  <2>3. ASSUME NEW t \in Callers, NEW op \in Ops, NEW len \in -1 .. MaxLen,
               Call(t, op, len)
        PROVE  Goal
    BY <2>1, <2>3, HostAsk
  <2>4. ASSUME NEW t \in Callers, Acquire(t) \/ Release(t) PROVE Goal
    BY <2>1, <2>4, HostGrant, HostReturn
  <2>5. ASSUME NEW t \in Callers,
               \/ EnterReturn(t) \/ EnterBuild(t) \/ Capture(t)
               \/ SendHeader(t) \/ SendData(t) \/ SendFail(t)
               \/ RecvHeader(t) \/ RecvBody(t) \/ RecvData(t)
               \/ RecvFail(t) \/ Result(t)
               \/ CloseRead(t) \/ CloseClear(t) \/ Disconnect(t)
        PROVE  Goal
    BY <2>1, <2>5, HostExchange, Zenon DEF Goal
  <2>6. ASSUME NEW c \in Conns, Serve(c) PROVE Goal
    BY <2>2, <2>6, HostExecute, Zenon DEF Goal
  <2>7. ASSUME NEW u \in Unmounters, DeleteSema(u) PROVE Goal
    BY <2>2, <2>7, HostDestroy
  <2>8. ASSUME \/ \E u \in Unmounters : \/ Unmount(u) \/ Deactivate(u)
                                        \/ Acquire(u) \/ Release(u)
               \/ \E a \in Agents \ Callers :
                     CloseRead(a) \/ CloseClear(a) \/ Disconnect(a)
               \/ ServerStart \/ ServerFail \/ ServerLoop \/ AcceptError
               \/ CheckReconnect \/ Install \/ Unlisten
               \/ \E c \in Conns : Connect(c) \/ Discard(c) \/ Drop(c)
               \/ UNCHANGED vars
        PROVE  Goal
    BY <2>8, HostOthers, Zenon DEF Goal
  <2>9. Accept => Goal
    BY <2>2, HostAccept, Zenon DEF Goal
  <2>10. Goal
    BY NextCases, <2>3, <2>4, <2>5, <2>6, <2>7, <2>8, <2>9, Zenon
  <2> QED BY <2>10 DEF Goal
<1> QED
  BY <1>1, <1>2, TypeCorrect, SemaAlways, BoundAlways, StreamAlways, OnceAlways,
     PTL DEF Spec, ImplementsHostRPC, Host!Spec
=============================================================================
