------------------------- MODULE FileIOStreamProofs -------------------------
(* What is under way on a connection, step by step of an exchange, and what *)
(* follows from it: a result is the PC's own answer, and the connection is  *)
(* clean between two operations.  All of it until a handle is handed out    *)
(* again under a thread that holds it (FileIORecycle shows why).            *)
EXTENDS FileIOProofs

-----------------------------------------------------------------------------
(* Streams.                                                                 *)

(* s is a first part of what reply has behind its first n tokens.           *)
Rest(s, reply, n) ==
    Len(s) + n <= Len(reply) /\ \A k \in 1 .. Len(s) : s[k] = reply[k + n]

(* Nothing is a first part of any rest.                                     *)
LEMMA RestOfNothing ==
    ASSUME NEW reply, NEW n \in Nat, Len(reply) \in Nat, n <= Len(reply)
    PROVE  Rest(<<>>, reply, n)
BY DEF Rest

(* The whole of a reply is what is behind its first 0 tokens.               *)
LEMMA RestWhole ==
    ASSUME NEW reply \in Seq(Tokens)
    PROVE  Rest(<<>> \o reply, reply, 0)
<1>1. <<>> \o reply = reply
  BY ConcatEmptySeq
<1>2. Len(reply) \in Nat
  BY LenProperties
<1> QED
  BY <1>1, <1>2 DEF Rest

(* Taking a token off s.                                                    *)
LEMMA RestTail ==
    ASSUME NEW reply, NEW n \in Nat, NEW s \in Seq(Tokens), s # <<>>,
           Len(reply) \in Nat, Rest(s, reply, n)
    PROVE  Rest(Tail(s), reply, n + 1) /\ Head(s) = reply[n + 1]
<1>1. /\ Len(s) \in Nat /\ Len(s) >= 1 /\ Len(Tail(s)) = Len(s) - 1
      /\ \A k \in 1 .. Len(Tail(s)) : Tail(s)[k] = s[k + 1]
      /\ Head(s) = s[1]
  BY HeadTailProperties, EmptySeq, LenProperties
<1>2. ASSUME NEW k \in 1 .. Len(Tail(s))
      PROVE  Tail(s)[k] = reply[k + (n + 1)]
  <2>1. k + 1 \in 1 .. Len(s) /\ (k + 1) + n = k + (n + 1)
    BY <1>1
  <2> QED
    BY <1>1, <2>1 DEF Rest
<1>3. 1 \in 1 .. Len(s) /\ 1 + n = n + 1
  BY <1>1
<1> QED
  BY <1>1, <1>2, <1>3 DEF Rest

(* s breaks off after k tokens.                                             *)
LEMMA RestFront ==
    ASSUME NEW reply, NEW n \in Nat, NEW s \in Seq(Tokens),
           NEW k \in 0 .. Len(s), Len(reply) \in Nat, Rest(s, reply, n)
    PROVE  Rest(SubSeq(s, 1, k), reply, n)
<1>1. Len(s) \in Nat
  BY LenProperties
<1>2. \A i \in 1 .. k : s[i] \in Tokens
  BY <1>1, ElementOfSeq
<1>3. /\ Len(SubSeq(s, 1, k)) = k
      /\ \A i \in 1 .. k : SubSeq(s, 1, k)[i] = s[i]
  BY <1>1, <1>2, SubSeqProperties
<1> QED
  BY <1>1, <1>3 DEF Rest

(* The shape of what the PC sends.                                          *)
LEMMA GoodReplyShape ==
    ASSUME NEW m \in Tokens, NEW val \in Int
    PROVE  LET reply == GoodReply(m, val) IN
           /\ Len(reply) = IF m.op = "read" /\ val > 0 THEN 3 ELSE 2
           /\ reply[1] = Token("hdr", m.op, m.id, RlySize(m.op))
           /\ reply[2] = Token("body", m.op, m.id, val)
BY DEF GoodReply

(* An answer to something else is told by its type or its length.           *)
LEMMA BadReplyShape ==
    ASSUME NEW m \in Tokens, NEW reply \in BadReplies(m)
    PROVE  /\ Len(reply) = 2
           /\ reply[1].k = "hdr" => reply[1].op = "other" \/ reply[1].val = 6
BY DEF BadReplies, Token

-----------------------------------------------------------------------------
(* What the server has not yet installed nobody has used: a caller sends    *)
(* only where pko_fileio_sock has been.                                     *)
Quiet(c) == up[c] = <<>> /\ down[c] = <<>>

SpentInv ==
    /\ \A t \in Callers : csock[t] # NoSock => Spent(csock[t])
    /\ \A c \in Conns : Spent(c) \/ Quiet(c)

(* Once used, a connection stays so.                                        *)
LEMMA SpentStays ==
    ASSUME TypeOK, [Next]_vars, NEW h \in Conns, Spent(h)
    PROVE  Spent(h)'
<1> USE DEF TypeOK, Spent, vars, semaVars, globalVars, bufferVars, streamVars,
            sockVars, netVars, callVars, argVars
<1>1. CASE UNCHANGED <<peer, backlog, client>>
  BY <1>1
<1>2. ASSUME NEW a \in Agents, Disconnect(a) PROVE Spent(h)'
  BY <1>2 DEF Disconnect
<1>3. CASE Accept
  BY <1>3, HandleAssumption DEF Accept
<1>4. CASE Install
  BY <1>4, HandleAssumption DEF Install
<1>5. CASE Unlisten
  BY <1>5 DEF Unlisten
<1>6. ASSUME NEW c \in Conns, Connect(c) PROVE Spent(h)'
  BY <1>6 DEF Connect
<1>7. ASSUME NEW c \in Conns, Drop(c) PROVE Spent(h)'
  BY <1>7 DEF Drop
<1>8. ASSUME NEW a \in Agents, CloseRead(a) \/ CloseClear(a)
      PROVE UNCHANGED <<peer, backlog, client>>
  BY <1>8 DEF CloseRead, CloseClear
<1>9. ASSUME NEW t \in Callers, NEW op \in Ops, NEW len \in -1 .. MaxLen,
             Call(t, op, len)
      PROVE UNCHANGED <<peer, backlog, client>>
  BY <1>9 DEF Call
<1>10. ASSUME NEW a \in Callers \cup Unmounters, Acquire(a) \/ Release(a)
       PROVE UNCHANGED <<peer, backlog, client>>
  BY <1>10 DEF Acquire, Release
<1>11. ASSUME NEW u \in Unmounters, Unmount(u) \/ Deactivate(u) \/ DeleteSema(u)
       PROVE UNCHANGED <<peer, backlog, client>>
  BY <1>11 DEF Unmount, Deactivate, DeleteSema
<1>12. ASSUME NEW t \in Callers,
              \/ EnterReturn(t) \/ EnterBuild(t) \/ Capture(t)
              \/ SendHeader(t) \/ SendData(t) \/ SendFail(t)
       PROVE UNCHANGED <<peer, backlog, client>>
  BY <1>12 DEF EnterReturn, EnterBuild, Capture, SendHeader, SendData, SendFail
<1>13. ASSUME NEW t \in Callers,
              \/ RecvHeader(t) \/ RecvBody(t) \/ RecvData(t)
              \/ RecvFail(t) \/ Result(t)
       PROVE UNCHANGED <<peer, backlog, client>>
  BY <1>13 DEF RecvHeader, RecvBody, RecvData, RecvFail, Result
<1>14. CASE ServerStart \/ ServerFail \/ ServerLoop \/ AcceptError
              \/ CheckReconnect \/ UNCHANGED vars
  BY <1>14 DEF ServerStart, ServerFail, ServerLoop, AcceptError, CheckReconnect
<1>15. ASSUME NEW c \in Conns, Serve(c) \/ Discard(c)
       PROVE UNCHANGED <<peer, backlog, client>>
  BY <1>15 DEF Serve, Discard
<1> QED
  BY NextCases, <1>1, <1>2, <1>3, <1>4, <1>5, <1>6, <1>7, <1>8, <1>9, <1>10,
     <1>11, <1>12, <1>13, <1>14, <1>15, Zenon

(* Where a caller is about to use the handle it has captured, that handle   *)
(* names the connection it was made for, if it is open.                     *)
LEMMA OpenHandle ==
    ASSUME TypeOK, FreshInv, NEW t \in Callers, ConnOf(csock[t]) # NoSock,
           pc[t] \in {"send", "data", "header", "body", "rdata"}
    PROVE  csock[t] \in Conns /\ ConnOf(csock[t]) = csock[t]
BY HandleAssumption DEF TypeOK, FreshInv, Held, ConnOf, Socks

(* What a step can do to the streams of a connection: nothing; bring it to  *)
(* an end; what a caller does on the handle it captured; what the PC does.  *)
LEMMA StreamStep ==
    ASSUME TypeOK, FreshInv, [Next]_vars, NEW c \in Conns
    PROVE  \/ UNCHANGED <<up[c], down[c]>>
           \/ \E a \in Agents : Disconnect(a) /\ c = dsock[a]
           \/ \E t \in Callers : csock[t] = c
           \/ Serve(c) \/ Discard(c) \/ Drop(c)
<1> USE DEF TypeOK, FreshInv, Spent, ConnOf, vars, semaVars, globalVars,
            bufferVars, streamVars, sockVars, netVars, callVars, argVars
<1> DEFINE Same == UNCHANGED <<up[c], down[c]>>
<1>1. ASSUME NEW t \in Callers, NEW op \in Ops, NEW len \in -1 .. MaxLen,
             Call(t, op, len)
      PROVE  Same
  BY <1>1 DEF Call
<1>2. ASSUME NEW a \in Callers \cup Unmounters, Acquire(a) \/ Release(a)
      PROVE  Same
  BY <1>2 DEF Acquire, Release
<1>3. ASSUME NEW u \in Unmounters, Unmount(u) \/ Deactivate(u) \/ DeleteSema(u)
      PROVE  Same
  BY <1>3 DEF Unmount, Deactivate, DeleteSema
<1>4. ASSUME NEW a \in Agents, CloseRead(a) \/ CloseClear(a) PROVE Same
  BY <1>4 DEF CloseRead, CloseClear
<1>5. ASSUME NEW a \in Agents, Disconnect(a) PROVE Same \/ c = dsock[a]
  <2>1. dsock[a] # NoSock => Held(dsock[a])
    BY DEF Held
  <2>2. ConnOf(dsock[a]) \in {dsock[a], NoSock}
    BY <2>1, HandleAssumption DEF Socks
  <2> HIDE DEF ConnOf, FreshInv
  <2> QED
    BY <1>5, <2>2, HandleAssumption DEF Disconnect
<1>6. ASSUME NEW t \in Callers,
             EnterReturn(t) \/ EnterBuild(t) \/ Capture(t) \/ RecvFail(t) \/ Result(t)
      PROVE  Same
  BY <1>6 DEF EnterReturn, EnterBuild, Capture, RecvFail, Result
<1>7. ASSUME NEW t \in Callers, SendHeader(t) \/ SendData(t) \/ SendFail(t)
      PROVE  Same \/ csock[t] = c
  <2>1. /\ UNCHANGED down
        /\ \/ UNCHANGED up
           \/ /\ ConnOf(csock[t]) # NoSock
              /\ \E token : Deliver(ConnOf(csock[t]), token)
    BY <1>7, Zenon DEF SendHeader, SendData, SendFail
  <2>2. ConnOf(csock[t]) # NoSock => ConnOf(csock[t]) = csock[t]
    <3>1. pc[t] \in {"send", "data"}
      BY <1>7, Zenon DEF SendHeader, SendData, SendFail
    <3> QED
      BY <3>1, OpenHandle
  <2>3. ASSUME NEW h, NEW token, Deliver(h, token) PROVE up'[c] = up[c] \/ h = c
    BY ONLY TypeOK, c \in Conns, <2>3, Zenon DEF Deliver
  <2> QED BY <2>1, <2>2, <2>3
<1>8. ASSUME NEW t \in Callers, RecvHeader(t) \/ RecvBody(t) \/ RecvData(t)
      PROVE  Same \/ csock[t] = c
  <2>1. UNCHANGED up /\ (UNCHANGED down \/ \E h \in Conns : Receive(t, h))
    BY <1>8, Zenon DEF RecvHeader, RecvBody, RecvData
  <2>2. ASSUME NEW h \in Conns, Receive(t, h) PROVE Same \/ csock[t] = c
    <3>1. pc[t] \in {"header", "body", "rdata"}
      BY <1>8 DEF RecvHeader, RecvBody, RecvData
    <3>2. csock[t] = h
      BY <2>2, <3>1, OpenHandle, HandleAssumption DEF Receive
    <3> QED
      BY <2>1, <2>2, <3>2 DEF Receive
  <2> QED
    BY <2>1, <2>2
<1>9. CASE ServerStart \/ ServerFail \/ ServerLoop \/ Accept \/ AcceptError
             \/ CheckReconnect \/ Install \/ Unlisten \/ UNCHANGED vars
  BY <1>9 DEF ServerStart, ServerFail, ServerLoop, Accept, AcceptError,
     CheckReconnect, Install, Unlisten
<1>10. ASSUME NEW d \in Conns, Connect(d) PROVE Same
  BY <1>10 DEF Connect
<1>11. ASSUME NEW d \in Conns, Serve(d) \/ Discard(d) \/ Drop(d)
       PROVE  Same \/ d = c
  BY <1>11 DEF Serve, Discard, Drop
<1> QED
  BY NextCases, <1>1, <1>2, <1>3, <1>4, <1>5, <1>6, <1>7, <1>8, <1>9, <1>10,
     <1>11, Zenon

(* The PC does nothing to an empty stream.                                  *)
LEMMA QuietStays ==
    ASSUME TypeOK, NEW c \in Conns, NEW d \in Conns, Quiet(d),
           Serve(c) \/ Discard(c) \/ Drop(c)
    PROVE  Quiet(d)'
<1> USE DEF TypeOK, Quiet
<1>1. CASE Serve(c) \/ Discard(c)
  BY <1>1 DEF Serve, Discard
<1>2. CASE Drop(c)
  <2>1. PICK n \in 0 .. Len(down[c]) :
          down' = [down EXCEPT ![c] = SubSeq(@, 1, n)]
    BY <1>2 DEF Drop
  <2>2. down[c] = <<>> => SubSeq(down[c], 1, n) = <<>>
    BY <2>1, SubSeqEmpty, EmptySeq
  <2> QED
    BY <1>2, <2>1, <2>2 DEF Drop
<1> QED BY <1>1, <1>2

(* The same over a whole behaviour.                                         *)
LEMMA SpentAlways == Spec => [](~reused => SpentInv)
<1>1. Init => SpentInv
  BY DEF Init, SpentInv, Quiet
<1>2. TypeOK /\ (~reused => FreshInv) /\ (~reused => SpentInv) /\ [Next]_vars
         => (~reused => SpentInv)'
  <2> SUFFICES ASSUME TypeOK, FreshInv, SpentInv, [Next]_vars PROVE SpentInv'
    BY ReusedStays
  <2>1. ASSUME NEW t \in Callers, csock'[t] # NoSock PROVE Spent(csock[t])'
    <3>1. csock'[t] \in {csock[t], NoSock, pko_fileio_sock}
      <4> DEFINE Got == csock'[t] \in {csock[t], NoSock, pko_fileio_sock}
      <4> USE DEF TypeOK, vars, argVars
      <4>1. ASSUME NEW s \in Callers, Capture(s) PROVE Got
        BY <4>1 DEF Capture
      <4>2. ASSUME NEW a \in Callers \cup Unmounters, Release(a) PROVE Got
        BY <4>2 DEF Release
      <4>3. ASSUME NEW s \in Callers, NEW op \in Ops, NEW len \in -1 .. MaxLen,
                   Call(s, op, len)
            PROVE  Got
        BY <4>3 DEF Call
      <4>4. ASSUME NEW a \in Callers \cup Unmounters, Acquire(a) PROVE Got
        BY <4>4 DEF Acquire
      <4>5. ASSUME NEW a \in Agents, CloseRead(a) \/ CloseClear(a) \/ Disconnect(a)
            PROVE  Got
        BY <4>5 DEF CloseRead, CloseClear, Disconnect
      <4>6. ASSUME NEW u \in Unmounters, Unmount(u) \/ Deactivate(u) \/ DeleteSema(u)
            PROVE  Got
        BY <4>6 DEF Unmount, Deactivate, DeleteSema
      <4>7. ASSUME NEW s \in Callers,
                   \/ EnterReturn(s) \/ EnterBuild(s)
                   \/ SendHeader(s) \/ SendData(s) \/ SendFail(s)
            PROVE  Got
        BY <4>7 DEF EnterReturn, EnterBuild, SendHeader, SendData, SendFail
      <4>8. ASSUME NEW s \in Callers,
                   \/ RecvHeader(s) \/ RecvBody(s) \/ RecvData(s)
                   \/ RecvFail(s) \/ Result(s)
            PROVE  Got
        BY <4>8 DEF RecvHeader, RecvBody, RecvData, RecvFail, Result, callVars
      <4>9. CASE \/ ServerStart \/ ServerFail \/ ServerLoop \/ Accept
                 \/ AcceptError \/ CheckReconnect \/ Install \/ Unlisten
                 \/ UNCHANGED vars
        BY <4>9 DEF ServerStart, ServerFail, ServerLoop, Accept, AcceptError,
           CheckReconnect, Install, Unlisten
      <4>10. ASSUME NEW c \in Conns, Connect(c) \/ Serve(c) \/ Discard(c) \/ Drop(c)
             PROVE  Got
        BY <4>10 DEF Connect, Serve, Discard, Drop
      <4> QED
        BY NextCases, <4>1, <4>2, <4>3, <4>4, <4>5, <4>6, <4>7, <4>8, <4>9,
           <4>10, Zenon
    <3>2. PICK h \in Conns : csock'[t] = h /\ Spent(h)
      BY <2>1, <3>1, HandleAssumption DEF SpentInv, FreshInv, TypeOK, Socks
    <3>3. Spent(h)'
      BY <3>2, SpentStays
    <3> QED
      BY <3>2, <3>3 DEF Spent
  <2>2. ASSUME NEW c \in Conns PROVE Spent(c)' \/ Quiet(c)'
    <3>1. CASE Spent(c)
      BY <3>1, SpentStays
    <3>2. CASE ~Spent(c)
      <4>1. Quiet(c) /\ \A t \in Callers : csock[t] # c
        BY <3>2, HandleAssumption DEF SpentInv
      <4>2. \A a \in Agents : c # dsock[a]
        BY <3>2, HandleAssumption DEF FreshInv
      <4>3. UNCHANGED <<up[c], down[c]>> \/ Serve(c) \/ Discard(c) \/ Drop(c)
        BY <4>1, <4>2, StreamStep
      <4> QED
        BY <4>1, <4>3, QuietStays DEF Quiet
    <3> QED BY <3>1, <3>2
  <2> QED
    BY <2>1, <2>2 DEF SpentInv
<1> QED
  BY <1>1, <1>2, TypeCorrect, FreshAlways, PTL DEF Spec

-----------------------------------------------------------------------------
(* What an exchange has put on the connections near to it: the current one, *)
(* and the one whose handle the caller has captured.                        *)

Request(t) == Token("req", req[t].op, req[t].id, req[t].len)
Block(t)   == Token("data", "write", req[t].id, req[t].len)

Executed(t, val) == [id |-> req[t].id, val |-> val] \in served

(* The answer val to t's request, but for its first n tokens, is under way. *)
Answering(t, c, val, n) ==
    up[c] = <<>> /\ Rest(down[c], GoodReply(Request(t), val), n)

Refusing(t, c) ==
    up[c] = <<>> /\ \E reply \in BadReplies(Request(t)) : Rest(down[c], reply, 0)

(* The request, with its block, or what has come back for it so far.        *)
Asking(t, c) ==
    /\ down[c] = <<>>
    /\ \/ up[c] \in {<<>>, <<Request(t)>>}
       \/ req[t].op = "write"
            /\ up[c] \in {<<Block(t)>>, <<Request(t), Block(t)>>}

Requested(t, c) ==
    \/ Asking(t, c)
    \/ \E val \in Int : Executed(t, val) /\ Answering(t, c, val, 0)
    \/ Refusing(t, c)

(* A block whose header went to another connection.                         *)
Stray(t, c) == down[c] = <<>> /\ up[c] \in {<<>>, <<Block(t)>>}

Talk(t, c) ==
    /\ pc[t] = "send" => Quiet(c)
    /\ pc[t] \in {"cap_data", "data"} =>
         IF c = sentOn[t] THEN down[c] = <<>> /\ up[c] \in {<<>>, <<Request(t)>>}
         ELSE Quiet(c)
    /\ pc[t] \in {"cap_accept", "header"} =>
         IF c = sentOn[t] THEN Requested(t, c) ELSE Stray(t, c)
    /\ pc[t] = "header" /\ csock[t] = sentOn[t] /\ c # sentOn[t] => Quiet(c)
    /\ pc[t] = "body" =>
         IF c = csock[t]
         THEN \E val \in Int : Executed(t, val) /\ Answering(t, c, val, 1)
         ELSE Quiet(c)
    /\ pc[t] = "result" =>
         IF c = csock[t] THEN Answering(t, c, recv_packet.val, 2) ELSE Quiet(c)
    /\ pc[t] \in {"cap_rdata", "rdata"} =>
         IF c = csock[t] THEN Answering(t, c, ret[t], 2) ELSE Quiet(c)

(* What the caller itself knows by then.                                    *)
Knows(t) ==
    /\ pc[t] # "idle" => req[t].op \in Ops
    /\ pc[t] \in {"cap_data", "data"} => req[t].op = "write"
    /\ pc[t] \in {"cap_send", "send"} => send_packet = Request(t)
    /\ pc[t] = "result" => Executed(t, recv_packet.val)
    /\ pc[t] \in {"cap_rdata", "rdata"} =>
          /\ req[t].op = "read" /\ Executed(t, ret[t])
          /\ ret[t] \in 0 .. req[t].len
    /\ pc[t] \in {"close_read", "close_clear", "disconnect"} => ret[t] = -1
    /\ pc[t] = "release" /\ ret[t] >= 0 /\ ~Trivial(t) =>
          /\ Executed(t, ret[t])
          /\ req[t].op \in {"read", "write"} => ret[t] <= req[t].len

(* Where a caller uses the handle it has captured, and where it has left    *)
(* nothing on the current connection.                                       *)
Using == {"send", "data", "header", "body", "result", "rdata"}
Calm  == Outside \cup {"enter", "cap_send", "send", "disconnect", "release"}

Near(t, c) == c = pko_fileio_sock \/ (pc[t] \in Using /\ c = csock[t])

StreamInv ==
    semaLive =>
      /\ (\A t \in Callers : pc[t] \in Calm) =>
            \A c \in Conns : c = pko_fileio_sock => Quiet(c)
      /\ \A t \in Callers :
            Knows(t) /\ \A c \in Conns : Near(t, c) => Talk(t, c)

-----------------------------------------------------------------------------
(* What a caller sends is made of tokens.                                   *)
LEMMA RequestTypes ==
    ASSUME TypeOK, NEW t \in Callers
    PROVE  Request(t) \in Tokens /\ Block(t) \in Tokens
BY DEF TypeOK, Request, Block, Token, Tokens, Kinds, Ops

(* A reply is never shorter than its header and its body.                   *)
LEMMA ReplyLen ==
    ASSUME TypeOK, NEW t \in Callers, NEW val \in Int
    PROVE  /\ Len(GoodReply(Request(t), val)) =
                IF req[t].op = "read" /\ val > 0 THEN 3 ELSE 2
           /\ GoodReply(Request(t), val)[1] =
                Token("hdr", req[t].op, req[t].id, RlySize(req[t].op))
           /\ GoodReply(Request(t), val)[2] =
                Token("body", req[t].op, req[t].id, val)
<1>1. /\ Request(t).op = req[t].op /\ Request(t).id = req[t].id
  BY DEF Request, Token
<1> QED
  BY <1>1, RequestTypes, GoodReplyShape

(* An empty connection is one on which everything may have been lost.       *)
LEMMA QuietTalk ==
    ASSUME TypeOK, NEW t \in Callers, NEW c \in Conns, Quiet(c),
           pc[t] = "body" => c # csock[t]
    PROVE  Talk(t, c)
<1>1. recv_packet.val \in Int /\ ret[t] \in Int
  BY DEF TypeOK, Tokens
<1>2. ASSUME NEW val \in Int PROVE Answering(t, c, val, 2)
  <2>1. Rest(<<>>, GoodReply(Request(t), val), 2)
    BY ReplyLen, RestOfNothing
  <2> QED
    BY <2>1 DEF Answering, Quiet
<1> QED
  BY <1>1, <1>2 DEF Talk, Quiet, Requested, Asking, Stray

(* What t does not notice: somebody else's step.                            *)
Unaware(t) ==
    /\ UNCHANGED <<pc[t], req[t], ret[t], csock[t], sentOn[t], recv_packet>>
    /\ served \subseteq served'

(* A caller sees no difference where its streams stay as they are.          *)
LEMMA TalkSame ==
    ASSUME NEW t \in Callers, NEW c \in Conns, Talk(t, c), Unaware(t),
           UNCHANGED <<up[c], down[c]>>
    PROVE  Talk(t, c)'
<1>1. /\ Request(t)' = Request(t) /\ Block(t)' = Block(t)
      /\ \A val : Executed(t, val) => Executed(t, val)'
  BY DEF Unaware, Request, Block, Executed
<1>2. \A val, n : Answering(t, c, val, n)' <=> Answering(t, c, val, n)
  BY <1>1 DEF Answering, Rest, GoodReply
<1> QED
  BY <1>1, <1>2 DEF Talk, Unaware, Quiet, Requested, Asking, Refusing, Stray

(* Nothing is a first part of what is left of any reply.                    *)
LEMMA NothingLeft ==
    ASSUME NEW m \in Tokens, NEW val \in Int, NEW n \in 0 .. 2
    PROVE  Rest(<<>>, GoodReply(m, val), n)
BY GoodReplyShape, RestOfNothing

(* Nor where a connection ends and its streams are emptied.                 *)
LEMMA TalkBroken ==
    ASSUME TypeOK, TypeOK', NEW t \in Callers, NEW c \in Conns, Talk(t, c),
           Unaware(t), Quiet(c)'
    PROVE  Talk(t, c)'
<1>1. /\ Request(t)' = Request(t)
      /\ \A val : Executed(t, val) => Executed(t, val)'
  BY DEF Unaware, Request, Executed
<1>2. recv_packet.val \in Int /\ ret[t] \in Int
  BY DEF TypeOK, Tokens
<1>3. ASSUME NEW val \in Int, NEW n \in 0 .. 2 PROVE Answering(t, c, val, n)'
  <2>1. Rest(<<>>, GoodReply(Request(t), val), n)
    BY RequestTypes, NothingLeft
  <2> QED
    BY <1>1, <2>1 DEF Answering, Quiet
<1> QED
  BY <1>1, <1>2, <1>3 DEF Talk, Unaware, Quiet, Requested, Asking, Stray

(* The PC goes away and only a part of its answer arrives.                  *)
LEMMA TalkDropped ==
    ASSUME TypeOK, NEW t \in Callers, NEW c \in Conns, Talk(t, c), Unaware(t),
           NEW d \in Conns, Drop(d)
    PROVE  Talk(t, c)'
<1>1. CASE d # c
  BY <1>1, TalkSame DEF Drop, TypeOK
<1>2. CASE d = c
  <2>1. PICK n \in 0 .. Len(down[c]) :
          down' = [down EXCEPT ![c] = SubSeq(@, 1, n)]
    BY <1>2 DEF Drop
  <2>2. up'[c] = <<>> /\ down'[c] = SubSeq(down[c], 1, n) /\ down[c] \in Seq(Tokens)
    BY <1>2, <2>1 DEF Drop, TypeOK
  <2>3. down[c] = <<>> => down'[c] = <<>>
    BY <2>1, <2>2, SubSeqEmpty, EmptySeq
  <2>4. /\ Request(t)' = Request(t) /\ Block(t)' = Block(t)
        /\ \A val : Executed(t, val) => Executed(t, val)'
    BY DEF Unaware, Request, Block, Executed
  <2>5. ASSUME NEW val \in Int, NEW k \in 0 .. 2, Answering(t, c, val, k)
        PROVE  Answering(t, c, val, k)'
    <3>1. Len(GoodReply(Request(t), val)) \in Nat
      BY ReplyLen
    <3>2. Rest(down'[c], GoodReply(Request(t), val), k)
      BY <2>2, <2>5, <3>1, RestFront DEF Answering
    <3> QED
      BY <2>2, <2>4, <3>2 DEF Answering
  <2>6. Refusing(t, c) => Refusing(t, c)'
    <3>1. ASSUME NEW reply \in BadReplies(Request(t)), Rest(down[c], reply, 0)
          PROVE  Rest(down'[c], reply, 0)
      <4>1. Len(reply) = 2
        BY RequestTypes, BadReplyShape
      <4> QED
        BY <2>2, <3>1, <4>1, RestFront
    <3> QED
      BY <2>2, <2>4, <3>1 DEF Refusing
  <2>7. recv_packet.val \in Int /\ ret[t] \in Int
    BY DEF TypeOK, Tokens
  <2>8. Requested(t, c) => Requested(t, c)'
    <3>1. Asking(t, c) => Asking(t, c)'
      BY <2>2, <2>3 DEF Asking
    <3> QED
      BY <2>4, <2>5, <2>6, <3>1 DEF Requested
  <2> QED
    BY <2>2, <2>3, <2>4, <2>5, <2>7, <2>8 DEF Talk, Unaware, Quiet, Stray
<1> QED BY <1>1, <1>2

(* The PC drops a stray block.                                              *)
LEMMA TalkDiscarded ==
    ASSUME TypeOK, NEW t \in Callers, NEW c \in Conns, Talk(t, c), Unaware(t),
           NEW d \in Conns, Discard(d)
    PROVE  Talk(t, c)'
<1>1. CASE d # c
  BY <1>1, TalkSame DEF Discard, TypeOK
<1>2. CASE d = c
  <2>1. /\ up[c] # <<>> /\ Head(up[c]).k = "data"
        /\ up'[c] = Tail(up[c]) /\ down'[c] = down[c]
    BY <1>2 DEF Discard, TypeOK
  <2>2. /\ Request(t)' = Request(t) /\ Block(t)' = Block(t)
        /\ Request(t).k = "req"
    BY DEF Unaware, Request, Block, Token
  <2>3. up[c] \notin {<<Request(t)>>, <<Request(t), Block(t)>>}
    BY <2>1, <2>2
  <2>4. up[c] = <<Block(t)>> => up'[c] = <<>>
    BY <2>1
  <2>5. Requested(t, c) => Requested(t, c)'
    BY <2>1, <2>3, <2>4 DEF Requested, Asking, Answering, Refusing
  <2> QED
    BY <2>1, <2>3, <2>4, <2>5 DEF Talk, Unaware, Quiet, Stray, Answering
<1> QED BY <1>1, <1>2

(* The PC takes a request: it is t's, whole, and what it sends back is the  *)
(* answer to it.                                                            *)
LEMMA TalkServed ==
    ASSUME TypeOK, NEW t \in Callers, NEW c \in Conns, Talk(t, c), Unaware(t),
           Knows(t), pc[t] \in Using \cup {"cap_data", "cap_accept", "cap_rdata"},
           NEW d \in Conns, Serve(d)
    PROVE  Talk(t, c)'
<1>1. CASE d # c
  BY <1>1, TalkSame DEF Serve, TypeOK
<1>2. CASE d = c
  <2> DEFINE s == up[c]
  <2>1. /\ s # <<>> /\ Head(s).k \in {"req", "torn"} /\ Len(s) >= Taken(s)
        /\ up'[c] = SubSeq(s, Taken(s) + 1, Len(s))
    BY <1>2 DEF Serve, TypeOK
  <2>2. /\ Request(t).k = "req" /\ Request(t).op = req[t].op
        /\ Request(t).id = req[t].id
        /\ Block(t).k = "data" /\ Block(t).id = req[t].id
        /\ Request(t)' = Request(t)
    BY DEF Request, Block, Token, Unaware
  <2>3. s # <<Block(t)>>
    BY <2>1, <2>2
  <2>4. ASSUME req[t].op = "write" PROVE s # <<Request(t)>>
    <3> HIDE DEF s
    <3> SUFFICES ASSUME s = <<Request(t)>> PROVE FALSE
      OBVIOUS
    <3>1. Head(s).op = "write" /\ Len(s) = 1
      BY <2>2, <2>4
    <3>2. Taken(s) = 2
      BY <3>1 DEF Taken
    <3>3. Len(s) >= 2
      BY <2>1, <3>2
    <3> QED
      BY <3>1, <3>3
  <2>5. pc[t] \in {"cap_accept", "header"} /\ c = sentOn[t] /\ Asking(t, c)
    BY <2>1, <2>3, <2>4 DEF Talk, Quiet, Stray, Requested, Answering, Refusing,
       Using, Knows
  <2>6. \/ s = <<Request(t)>> /\ req[t].op # "write"
        \/ s = <<Request(t), Block(t)>> /\ req[t].op = "write"
    BY <2>1, <2>3, <2>4, <2>5 DEF Asking
  <2>7. up'[c] = <<>> /\ Genuine(s) /\ Head(s) = Request(t) /\ down[c] = <<>>
    <3>1. CASE s = <<Request(t)>> /\ req[t].op # "write"
      BY <2>1, <2>2, <2>5, <3>1 DEF Taken, Genuine, Asking
    <3>2. CASE s = <<Request(t), Block(t)>> /\ req[t].op = "write"
      BY <2>1, <2>2, <2>5, <3>2 DEF Taken, Genuine, Asking
    <3> QED BY <2>6, <3>1, <3>2
  <2>8. PICK val \in ReplyVals(Request(t)) :
          /\ \E reply \in {GoodReply(Request(t), val)}
                            \cup BadReplies(Request(t)) :
                down' = [down EXCEPT ![c] = @ \o reply]
          /\ served' = served \cup {[id |-> req[t].id, val |-> val]}
    <3> HIDE DEF s
    <3>1. \E val \in ReplyVals(Head(s)) :
            /\ \E reply \in {GoodReply(Head(s), val)} \cup BadReplies(Head(s)) :
                  down' = [down EXCEPT ![c] = @ \o reply]
            /\ served' = IF Genuine(s)
                         THEN served \cup {[id |-> Head(s).id, val |-> val]}
                         ELSE served
      BY <1>2, Zenon DEF Serve, s
    <3> QED
      BY <2>2, <2>7, <3>1
  <2>9. PICK reply \in {GoodReply(Request(t), val)} \cup BadReplies(Request(t)) :
          down' = [down EXCEPT ![c] = @ \o reply]
    BY <2>8
  <2>10. val \in Int /\ reply \in Seq(Tokens)
    BY RequestTypes, ReplyIsStream
  <2>11. Rest(down'[c], reply, 0)
    <3>1. down'[c] = <<>> \o reply
      BY <2>7, <2>9 DEF TypeOK
    <3> QED
      BY <2>10, <3>1, RestWhole
  <2>12. Requested(t, c)'
    <3>1. CASE reply = GoodReply(Request(t), val)
      <4>1. Executed(t, val)' /\ Answering(t, c, val, 0)'
        BY <2>2, <2>7, <2>8, <2>11, <3>1 DEF Executed, Answering, Unaware
      <4> QED
        BY <2>10, <4>1 DEF Requested
    <3>2. CASE reply \in BadReplies(Request(t))
      <4>1. Refusing(t, c)'
        BY <2>2, <2>7, <2>11, <3>2 DEF Refusing
      <4> QED
        BY <4>1 DEF Requested
    <3> QED BY <3>1, <3>2
  <2> QED
    BY <2>5, <2>12 DEF Talk, Unaware
<1> QED BY <1>1, <1>2

-----------------------------------------------------------------------------
(* A step that no caller notices: the server's, an unmounter's, the PC's.   *)
LEMMA OthersStep ==
    ASSUME StreamInv, semaLive' => semaLive, UNCHANGED send_packet,
           \A t \in Callers : Unaware(t),
           \A c \in Conns : Quiet(c) => Quiet(c)',
           \A t \in Callers : \A c \in Conns : Near(t, c) /\ Talk(t, c) => Talk(t, c)',
           \A c \in Conns : c = pko_fileio_sock' =>
              \/ c = pko_fileio_sock
              \/ Quiet(c)' /\ \A t \in Callers : Talk(t, c)'
    PROVE  StreamInv'
<1> SUFFICES ASSUME semaLive' PROVE StreamInv'
  BY DEF StreamInv
<1>1. ASSUME \A t \in Callers : pc'[t] \in Calm, NEW c \in Conns, c = pko_fileio_sock'
      PROVE  Quiet(c)'
  <2>1. \A t \in Callers : pc[t] \in Calm
    BY <1>1 DEF Unaware
  <2> QED
    BY <1>1, <2>1 DEF StreamInv
<1>2. ASSUME NEW t \in Callers PROVE Knows(t)'
  <2>1. Knows(t) /\ Unaware(t)
    BY DEF StreamInv
  <2> QED
    BY <2>1 DEF Knows, Unaware, Executed, Request, Trivial
<1>3. ASSUME NEW t \in Callers, NEW c \in Conns, Near(t, c)'
      PROVE  Talk(t, c)'
  BY <1>3 DEF Near, Unaware, StreamInv
<1> QED
  BY <1>1, <1>2, <1>3 DEF StreamInv, Calm, Outside

(* A caller inside an exchange is alone, and finds the current connection   *)
(* as it has left it.                                                       *)
LEMMA Alone ==
    ASSUME SemaInv, StreamInv, semaLive, NEW t \in Callers, Holding(t)
    PROVE  /\ \A s \in Callers : s # t => pc[s] \in Outside
           /\ pc[t] \in Calm =>
                \A c \in Conns : c = pko_fileio_sock => Quiet(c)
           /\ Knows(t)
           /\ \A c \in Conns : Near(t, c) => Talk(t, c)
<1>1. ASSUME NEW s \in Callers, s # t PROVE pc[s] \in Outside
  BY <1>1, AgentsAssumption DEF SemaInv, SemaExclusion, Holding, Agents
<1> QED
  BY <1>1 DEF StreamInv, Calm

(* A step of a caller inside an exchange.                                   *)
LEMMA OwnStep ==
    ASSUME SemaInv, StreamInv, NEW t \in Callers, Holding(t),
           semaLive' => semaLive,
           \A s \in Callers : s # t => UNCHANGED <<pc[s], req[s]>>,
           semaLive => Knows(t)' /\ \A c \in Conns : Near(t, c)' => Talk(t, c)',
           semaLive /\ pc'[t] \in Calm =>
              \A c \in Conns : c = pko_fileio_sock' => Quiet(c)'
    PROVE  StreamInv'
<1> SUFFICES ASSUME semaLive, semaLive' PROVE StreamInv'
  BY DEF StreamInv
<1>1. \A s \in Callers : s # t => pc[s] \in Outside
  BY Alone
<1>2. ASSUME NEW s \in Callers, s # t
      PROVE  Knows(s)' /\ \A c \in Conns : Near(s, c)' => Talk(s, c)'
  <2>1. pc'[s] \in Outside /\ UNCHANGED <<pc[s], req[s]>>
    BY <1>1, <1>2
  <2>2. Knows(s)'
    BY <1>2, <2>1 DEF Knows, StreamInv, Outside
  <2>3. ASSUME NEW c \in Conns PROVE Talk(s, c)'
    BY <2>1 DEF Talk, Outside
  <2> QED BY <2>2, <2>3
<1> QED
  BY <1>2 DEF StreamInv

(* What every step of an exchange has in common.                            *)
LEMMA Exchanging ==
    ASSUME TypeOK, NEW t \in Callers, Exchange(t)
    PROVE  /\ t \in Agents /\ Holding(t)
           /\ UNCHANGED <<semaLive, req, pko_fileio_sock>>
           /\ \A s \in Callers : s # t => pc'[s] = pc[s]
<1> USE AgentsAssumption DEF TypeOK, semaVars, globalVars, callVars, Goto, Fail,
        Holding, Outside, Agents
<1>1. CASE EnterReturn(t) \/ EnterBuild(t) \/ Capture(t)
  BY <1>1 DEF EnterReturn, EnterBuild, Capture, Captures
<1>2. CASE SendHeader(t) \/ SendData(t) \/ SendFail(t)
  BY <1>2 DEF SendHeader, SendData, SendFail
<1>3. CASE RecvHeader(t) \/ RecvBody(t)
  BY <1>3 DEF RecvHeader, RecvBody
<1>4. CASE RecvData(t)
  BY <1>4 DEF RecvData
<1>5. CASE RecvFail(t) \/ Result(t)
  BY <1>5 DEF RecvFail, Result, Receiving
<1> QED
  BY <1>1, <1>2, <1>3, <1>4, <1>5, Zenon DEF Exchange

(* Steps of an exchange before anything is sent.                            *)
LEMMA EnterStreams ==
    ASSUME TypeOK, SemaInv, StreamInv, NEW t \in Callers,
           EnterReturn(t) \/ EnterBuild(t)
    PROVE  StreamInv'
<1> USE DEF TypeOK, semaVars, globalVars, bufferVars, streamVars, sockVars, netVars,
            callVars, argVars, Goto
<1>1. /\ t \in Agents /\ Holding(t)
      /\ UNCHANGED <<semaLive, req, pko_fileio_sock>>
      /\ \A s \in Callers : s # t => pc'[s] = pc[s]
  BY Exchanging, Zenon DEF Exchange
<1>2. /\ pc[t] = "enter" /\ pc'[t] \in {"cap_send", "release"}
      /\ UNCHANGED <<up, down>>
  BY <1>1 DEF EnterReturn, EnterBuild
<1>3. ASSUME semaLive PROVE Knows(t)'
  <2>1. Knows(t)
    BY <1>1, <1>3, Alone
  <2>2. CASE EnterReturn(t)
    BY <1>1, <1>2, <2>1, <2>2 DEF EnterReturn, Knows, Trivial
  <2>3. CASE EnterBuild(t)
    BY <1>1, <1>2, <2>1, <2>3 DEF EnterBuild, Knows, Request
  <2> QED BY <2>2, <2>3
<1>4. ASSUME semaLive, NEW c \in Conns, c = pko_fileio_sock' PROVE Quiet(c)'
  BY <1>1, <1>2, <1>4, Alone DEF Quiet, Calm
<1>5. ASSUME NEW c \in Conns PROVE Talk(t, c)'
  BY <1>2 DEF Talk
<1> QED
  BY <1>1, <1>3, <1>4, <1>5, OwnStep

(* The handle read now is that of the current connection.                   *)
LEMMA CaptureStreams ==
    ASSUME TypeOK, SemaInv, StreamInv, NEW t \in Callers, Capture(t)
    PROVE  StreamInv'
<1> USE DEF TypeOK, semaVars, globalVars, bufferVars, streamVars, sockVars, netVars,
            callVars, argVars, Goto
<1>1. /\ t \in Agents /\ Holding(t)
      /\ UNCHANGED <<semaLive, req, pko_fileio_sock>>
      /\ \A s \in Callers : s # t => pc'[s] = pc[s]
  BY Exchanging, Zenon DEF Exchange
<1>2. /\ \/ pc[t] = "cap_send" /\ pc'[t] = "send"
         \/ pc[t] = "cap_data" /\ pc'[t] = "data"
         \/ pc[t] = "cap_accept" /\ pc'[t] = "header"
         \/ pc[t] = "cap_rdata" /\ pc'[t] = "rdata"
      /\ UNCHANGED <<up, down, ret, sentOn, served, send_packet, recv_packet>>
      /\ csock'[t] = pko_fileio_sock
  BY <1>1 DEF Capture, Captures
<1>3. ASSUME semaLive PROVE Knows(t)'
  BY <1>1, <1>2, <1>3, Alone DEF Knows, Executed, Request
<1>4. ASSUME semaLive, NEW c \in Conns, c = pko_fileio_sock, pc[t] = "cap_send"
      PROVE  Quiet(c)'
  BY <1>1, <1>2, <1>4, Alone DEF Quiet, Calm
<1>5. ASSUME semaLive, NEW c \in Conns, Near(t, c)' PROVE Talk(t, c)'
  <2>1. c = pko_fileio_sock /\ c = csock'[t]
    BY <1>1, <1>2, <1>5 DEF Near
  <2>2. Talk(t, c)
    BY <1>1, <1>5, <2>1, Alone DEF Near
  <2>3. CASE pc[t] = "cap_send"
    BY <1>2, <1>4, <1>5, <2>1, <2>3 DEF Talk
  <2>4. CASE pc[t] = "cap_data"
    BY <1>1, <1>2, <2>2, <2>4 DEF Talk, Request, Quiet
  <2>5. CASE pc[t] = "cap_accept"
    <3>1. Requested(t, c) => Requested(t, c)'
      BY <1>1, <1>2 DEF Requested, Asking, Answering, Refusing, Executed,
         Request, Block
    <3>2. Stray(t, c) => Stray(t, c)'
      BY <1>1, <1>2 DEF Stray, Block
    <3> QED
      BY <1>1, <1>2, <2>1, <2>2, <2>5, <3>1, <3>2 DEF Talk
  <2>6. CASE pc[t] = "cap_rdata"
    <3>1. ret[t] \in Int
      OBVIOUS
    <3>2. Answering(t, c, ret[t], 2)
      <4>1. Rest(<<>>, GoodReply(Request(t), ret[t]), 2)
        BY <3>1, RequestTypes, NothingLeft
      <4> QED
        BY <2>2, <2>6, <4>1 DEF Talk, Quiet, Answering
    <3>3. Answering(t, c, ret[t], 2)'
      BY <1>1, <1>2, <3>2 DEF Answering, Request
    <3> QED
      BY <1>2, <2>1, <2>6, <3>3 DEF Talk
  <2> QED BY <1>2, <2>3, <2>4, <2>5, <2>6
<1>6. ASSUME semaLive, pc'[t] \in Calm, NEW c \in Conns, c = pko_fileio_sock'
      PROVE  Quiet(c)'
  BY <1>1, <1>2, <1>4, <1>6 DEF Calm, Outside
<1> QED
  BY <1>1, <1>3, <1>5, <1>6, OwnStep

(* One token, and two.                                                      *)
LEMMA ShortAppend ==
    ASSUME NEW a \in Tokens, NEW b \in Tokens
    PROVE  Append(<<>>, a) = <<a>> /\ Append(<<a>>, b) = <<a, b>>
<1>1. <<>> \in Seq(Tokens) /\ <<a>> \in Seq(Tokens) /\ <<a, b>> \in Seq(Tokens)
  BY EmptySeq
<1>2. ASSUME NEW x \in Seq(Tokens), NEW y \in Seq(Tokens),
             Len(x) = Len(y), \A i \in 1 .. Len(x) : x[i] = y[i]
      PROVE  x = y
  BY <1>2, SeqEqual
<1>3. Append(<<>>, a) = <<a>>
  BY <1>1, <1>2, AppendProperties
<1>4. Append(<<a>>, b) = <<a, b>>
  <2>1. /\ Append(<<a>>, b) \in Seq(Tokens) /\ Len(Append(<<a>>, b)) = 2
        /\ Append(<<a>>, b)[1] = a /\ Append(<<a>>, b)[2] = b
    BY <1>1, AppendProperties
  <2>2. Len(<<a, b>>) = 2 /\ <<a, b>>[1] = a /\ <<a, b>>[2] = b
    OBVIOUS
  <2>3. ASSUME NEW x \in Seq(Tokens), NEW y \in Seq(Tokens), Len(x) = 2,
               Len(y) = 2, x[1] = y[1], x[2] = y[2]
        PROVE  x = y
    <3>1. \A i \in 1 .. Len(x) : x[i] = y[i]
      BY <2>3
    <3> QED
      BY <2>3, <3>1, <1>2
  <2> DEFINE x == Append(<<a>>, b)
             y == <<a, b>>
  <2>4. x \in Seq(Tokens) /\ y \in Seq(Tokens) /\ Len(x) = 2 /\ Len(y) = 2
        /\ x[1] = y[1] /\ x[2] = y[2]
    BY <1>1, <2>1, <2>2
  <2> HIDE DEF x, y
  <2>5. x = y
    BY <2>3, <2>4
  <2> QED
    BY <2>5 DEF x, y
<1> QED
  BY <1>3, <1>4

(* A request, or its block, leaves on the connection whose handle was read, *)
(* unless that one has been closed: then the send fails.                    *)
LEMMA SendStreams ==
    ASSUME TypeOK, SemaInv, FreshInv, StreamInv, NEW t \in Callers,
           SendHeader(t) \/ SendData(t)
    PROVE  StreamInv'
<1> USE DEF TypeOK, semaVars, globalVars, bufferVars, streamVars, sockVars, netVars,
            callVars, argVars, Goto
<1>1. /\ t \in Agents /\ Holding(t)
      /\ UNCHANGED <<semaLive, req, pko_fileio_sock>>
      /\ \A s \in Callers : s # t => pc'[s] = pc[s]
  BY Exchanging, Zenon DEF Exchange
<1>2. ConnOf(csock[t]) # NoSock
  BY DEF SendHeader, SendData
<1>3. PICK h \in Conns : csock[t] = h /\ ConnOf(csock[t]) = h
  <2>1. pc[t] \in {"send", "data"}
    BY DEF SendHeader, SendData
  <2> QED
    BY <1>2, <2>1, OpenHandle
<1>4. \A c \in Conns : c # h => up'[c] = up[c]
  BY <1>3 DEF SendHeader, SendData, Deliver
<1>5. UNCHANGED <<down, served>>
  BY DEF SendHeader, SendData
<1>6. pc'[t] \in {"cap_data", "cap_accept"}
  BY <1>1 DEF SendHeader, SendData
<1>7. ASSUME semaLive PROVE Knows(t)'
  BY <1>1, <1>6, <1>7, Alone DEF Knows, SendHeader, SendData
<1>8. ASSUME semaLive, NEW c \in Conns, c = pko_fileio_sock PROVE Talk(t, c)'
  <2>1. Request(t)' = Request(t) /\ Block(t)' = Block(t)
    BY <1>1 DEF Request, Block
  <2>2. pc[t] \in Using /\ Talk(t, h) /\ Talk(t, c) /\ Knows(t)
    BY <1>1, <1>3, <1>8, Alone DEF Near, SendHeader, SendData, Using
  <2>3. CASE SendHeader(t)
    <3>1. pc[t] = "send" /\ sentOn'[t] = h
      BY <1>3, <2>3 DEF SendHeader
    <3>2. Quiet(c)
      BY <1>1, <1>8, <3>1, Alone DEF Calm
    <3>3. up'[h] \in {up[h], Append(up[h], Request(t))}
      BY <1>3, <2>2, <2>3, <3>1 DEF SendHeader, Deliver, Knows
    <3>4. CASE c = h
      <4>1. up'[h] \in {<<>>, <<Request(t)>>} /\ down'[h] = <<>>
        BY <1>5, <3>2, <3>3, <3>4 DEF Quiet
      <4> QED
        BY <1>6, <2>1, <3>1, <3>4, <4>1 DEF Talk, Requested, Asking
    <3>5. CASE c # h
      BY <1>4, <1>5, <1>6, <3>1, <3>2, <3>5 DEF Talk, Quiet, Stray
    <3> QED BY <3>4, <3>5
  <2>4. CASE SendData(t)
    <3>1. pc[t] = "data" /\ sentOn'[t] = sentOn[t] /\ pc'[t] = "cap_accept"
      BY <1>1, <2>4 DEF SendData
    <3>2. req[t].op = "write"
      BY <2>2, <3>1 DEF Knows
    <3>3. up'[h] \in {up[h], Append(up[h], Block(t))}
      BY <1>3, <2>4 DEF SendData, Deliver, Block
    <3>4. CASE c = sentOn[t]
      <4>1. down[c] = <<>> /\ up[c] \in {<<>>, <<Request(t)>>}
        BY <2>2, <3>1, <3>4 DEF Talk
      <4>2. up'[c] \in {up[c], Append(up[c], Block(t))} /\ down'[c] = <<>>
        BY <1>4, <1>5, <3>3, <4>1
      <4>3. up'[c] \in {<<>>, <<Request(t)>>, <<Block(t)>>,
                         <<Request(t), Block(t)>>}
        BY <4>1, <4>2, ShortAppend, RequestTypes
      <4>4. Asking(t, c)'
        BY <1>1, <2>1, <3>2, <4>2, <4>3 DEF Asking
      <4> QED
        BY <3>1, <3>4, <4>4 DEF Talk, Requested
    <3>5. CASE c # sentOn[t]
      <4>1. Quiet(c)
        BY <2>2, <3>1, <3>5 DEF Talk
      <4>2. up'[c] \in {<<>>, <<Block(t)>>} /\ down'[c] = <<>>
        BY <1>4, <1>5, <3>3, <4>1, ShortAppend, RequestTypes DEF Quiet
      <4> QED
        BY <2>1, <3>1, <3>5, <4>2 DEF Talk, Stray
    <3> QED BY <3>4, <3>5
  <2> QED BY <2>3, <2>4
<1>9. ASSUME NEW c \in Conns, Near(t, c)' PROVE c = pko_fileio_sock
  BY <1>1, <1>6, <1>9 DEF Near, Using
<1> QED
  BY <1>1, <1>6, <1>7, <1>8, <1>9, OwnStep DEF Calm, Outside

(* Whatever fails, the exchange gives up the connection next.               *)
LEMMA FailStreams ==
    ASSUME TypeOK, SemaInv, StreamInv, NEW t \in Callers, Exchange(t), Fail(t)
    PROVE  StreamInv'
<1>1. /\ t \in Agents /\ Holding(t)
      /\ UNCHANGED <<semaLive, req, pko_fileio_sock>>
      /\ \A s \in Callers : s # t => pc'[s] = pc[s]
  BY Exchanging
<1>2. pc'[t] = "close_read" /\ ret'[t] = -1
  BY <1>1 DEF Fail, Goto, TypeOK
<1>3. ASSUME semaLive PROVE Knows(t)'
  BY <1>1, <1>2, <1>3, Alone DEF Knows, Holding, Outside
<1>4. ASSUME NEW c \in Conns PROVE Talk(t, c)'
  BY <1>2 DEF Talk
<1> QED
  BY <1>1, <1>2, <1>3, <1>4, OwnStep DEF Calm, Outside

(* A header is accepted only with the type and the length asked for.        *)
LEMMA HeaderIs ==
    ASSUME NEW command, NEW length, NEW op, NEW size,
           HeaderValid(command, length, op, size)
    PROVE  command = op /\ length = size
BY DEF HeaderValid

(* A header is accepted only if it is the one of the PC's own answer.       *)
LEMMA HeaderStreams ==
    ASSUME TypeOK, SemaInv, FreshInv, StreamInv, NEW t \in Callers, RecvHeader(t)
    PROVE  StreamInv'
<1> USE DEF TypeOK, semaVars, globalVars, bufferVars, streamVars, sockVars, netVars,
            callVars, argVars, Goto
<1>1. /\ t \in Agents /\ Holding(t)
      /\ UNCHANGED <<semaLive, req, pko_fileio_sock>>
      /\ \A s \in Callers : s # t => pc'[s] = pc[s]
  BY Exchanging, Zenon DEF Exchange
<1>2. CASE Fail(t)
  BY <1>2, FailStreams, Zenon DEF Exchange
<1>3. CASE ~Fail(t)
  <2>1. PICK h \in Conns :
          /\ pc[t] = "header" /\ Receive(t, h)
          /\ HeaderValid(IF Head(down[h]).k = "hdr" THEN Head(down[h]).op
                         ELSE "other",
                         Head(down[h]).val, req[t].op, RlySize(req[t].op))
          /\ Goto(t, "body") /\ UNCHANGED ret
    BY <1>3, Zenon DEF RecvHeader
  <2>2. csock[t] = h /\ down[h] # <<>> /\ down' = [down EXCEPT ![h] = Tail(@)]
    BY <2>1, OpenHandle DEF Receive
  <2> DEFINE m == Head(down[h])
  <2>3. UNCHANGED <<up, ret, csock, sentOn, served>>
    BY <2>1 DEF RecvHeader
  <2>4. /\ pc[t] = "header" /\ pc'[t] = "body"
        /\ UNCHANGED <<up, ret, csock, sentOn, served>>
        /\ m.k = "hdr" \/ req[t].op = "other"
        /\ m.k = "hdr" => m.op = req[t].op
        /\ m.val = RlySize(req[t].op)
    <3>1. pc[t] = "header" /\ pc'[t] = "body"
      BY <1>1, <2>1
    <3>2. /\ (IF m.k = "hdr" THEN m.op ELSE "other") = req[t].op
          /\ m.val = RlySize(req[t].op)
      BY <2>1, HeaderIs, Zenon
    <3>3. /\ m.k = "hdr" \/ req[t].op = "other"
          /\ m.k = "hdr" => m.op = req[t].op
      BY <3>2, Zenon
    <3> QED
      BY <2>3, <3>1, <3>2, <3>3, Zenon
  <2> HIDE DEF m
  <2>5. ASSUME semaLive PROVE Knows(t)'
    BY <1>1, <2>4, <2>5, Alone DEF Knows
  <2>6. ASSUME semaLive, NEW c \in Conns, Near(t, c)' PROVE Talk(t, c)'
    <3>1. pc[t] \in Using /\ Near(t, h) /\ Near(t, c)
      BY <1>1, <2>2, <2>4, <2>6 DEF Near, Using
    <3>2. Talk(t, h) /\ Talk(t, c) /\ Knows(t)
      BY <1>1, <2>6, <3>1, Alone
    <3>3. h = sentOn[t] /\ Requested(t, h)
      BY <2>2, <2>4, <3>2 DEF Talk, Stray
    <3>4. CASE c # h
      BY <2>2, <2>4, <3>2, <3>3, <3>4 DEF Talk, Quiet
    <3>5. CASE c = h
      <4>1. req[t].op # "other" /\ RlySize(req[t].op) # 6
        BY <2>4, <3>2, OpsAssumption DEF Knows, Ops, RlySize
      <4>2. ~Refusing(t, h)
        <5> SUFFICES ASSUME NEW reply \in BadReplies(Request(t)),
                            Rest(down[h], reply, 0)
                     PROVE  FALSE
          BY DEF Refusing
        <5>1. Len(reply) = 2 /\ down[h] \in Seq(Tokens)
          BY RequestTypes, BadReplyShape
        <5>2. m = reply[1]
          <6>1. /\ Rest(Tail(down[h]), reply, 0 + 1)
                /\ Head(down[h]) = reply[0 + 1]
            BY <2>2, <5>1, RestTail
          <6> QED
            BY <6>1 DEF m
        <5> QED
          BY <2>4, <4>1, <5>2, RequestTypes, BadReplyShape
      <4>3. PICK val \in Int : Executed(t, val) /\ Answering(t, h, val, 0)
        BY <2>2, <3>3, <4>2 DEF Requested, Asking
      <4>4. Rest(Tail(down[h]), GoodReply(Request(t), val), 1)
        <5>1. Len(GoodReply(Request(t), val)) \in Nat /\ down[h] \in Seq(Tokens)
          BY ReplyLen
        <5> QED
          BY <2>2, <4>3, <5>1, RestTail DEF Answering
      <4>5. Executed(t, val)' /\ Answering(t, h, val, 1)'
        BY <1>1, <2>2, <2>4, <4>3, <4>4 DEF Executed, Answering, Request
      <4> QED
        BY <1>1, <2>2, <2>4, <3>5, <4>5 DEF Talk
    <3> QED BY <3>4, <3>5
  <2> QED
    BY <1>1, <2>4, <2>5, <2>6, OwnStep DEF Calm, Outside
<1> QED BY <1>2, <1>3

(* The body behind it carries the value.                                    *)
LEMMA BodyStreams ==
    ASSUME TypeOK, SemaInv, FreshInv, StreamInv, NEW t \in Callers, RecvBody(t)
    PROVE  StreamInv'
<1> USE DEF TypeOK, semaVars, globalVars, bufferVars, streamVars, sockVars, netVars,
            callVars, argVars, Goto
<1>1. /\ t \in Agents /\ Holding(t)
      /\ UNCHANGED <<semaLive, req, pko_fileio_sock>>
      /\ \A s \in Callers : s # t => pc'[s] = pc[s]
  BY Exchanging, Zenon DEF Exchange
<1>2. PICK h \in Conns : Receive(t, h) /\ recv_packet' = Head(down[h])
  BY DEF RecvBody
<1>3. csock[t] = h /\ down[h] # <<>> /\ down' = [down EXCEPT ![h] = Tail(@)]
  <2>1. pc[t] = "body"
    BY DEF RecvBody
  <2> QED
    BY <1>2, <2>1, OpenHandle DEF Receive
<1>4. /\ pc[t] = "body" /\ pc'[t] = "result"
      /\ UNCHANGED <<up, ret, csock, sentOn, served>>
  BY <1>1 DEF RecvBody
<1>5. ASSUME semaLive
      PROVE  Executed(t, recv_packet.val)' /\ Answering(t, h, recv_packet.val, 2)'
  <2>1. Talk(t, h)
    BY <1>1, <1>3, <1>4, <1>5, Alone DEF Near, Using
  <2>2. PICK val \in Int : Executed(t, val) /\ Answering(t, h, val, 1)
    BY <1>3, <1>4, <2>1 DEF Talk
  <2>3. /\ Len(GoodReply(Request(t), val)) \in Nat /\ down[h] \in Seq(Tokens)
        /\ GoodReply(Request(t), val)[2] = Token("body", req[t].op, req[t].id, val)
    BY ReplyLen
  <2>4. /\ Rest(Tail(down[h]), GoodReply(Request(t), val), 2)
        /\ recv_packet' = GoodReply(Request(t), val)[2]
    BY <1>2, <1>3, <2>2, <2>3, RestTail DEF Answering
  <2>5. recv_packet'.val = val
    BY <2>3, <2>4 DEF Token
  <2> QED
    BY <1>1, <1>3, <1>4, <2>2, <2>4, <2>5 DEF Executed, Answering, Request
<1>6. ASSUME semaLive PROVE Knows(t)'
  BY <1>1, <1>4, <1>5, <1>6, Alone DEF Knows
<1>7. ASSUME semaLive, NEW c \in Conns, Near(t, c)' PROVE Talk(t, c)'
  <2>1. Near(t, c)
    BY <1>1, <1>4, <1>7 DEF Near, Using
  <2>2. Talk(t, c)
    BY <1>1, <1>7, <2>1, Alone
  <2>3. CASE c = h
    BY <1>3, <1>4, <1>5, <1>7, <2>3 DEF Talk
  <2>4. CASE c # h
    BY <1>3, <1>4, <2>2, <2>4 DEF Talk, Quiet
  <2> QED BY <2>3, <2>4
<1> QED
  BY <1>1, <1>4, <1>6, <1>7, OwnStep DEF Calm, Outside

(* The value is checked; only a read has more to receive.                   *)
LEMMA ResultStreams ==
    ASSUME TypeOK, SemaInv, StreamInv, NEW t \in Callers, Result(t)
    PROVE  StreamInv'
<1> USE DEF TypeOK, semaVars, globalVars, bufferVars, streamVars, sockVars, netVars,
            callVars, argVars, Goto
<1>1. /\ t \in Agents /\ Holding(t)
      /\ UNCHANGED <<semaLive, req, pko_fileio_sock>>
      /\ \A s \in Callers : s # t => pc'[s] = pc[s]
  BY Exchanging, Zenon DEF Exchange
<1>2. CASE Fail(t)
  BY <1>2, FailStreams, Zenon DEF Exchange
<1>3. CASE ~Fail(t)
  <2> DEFINE val == recv_packet.val
  <2>1. /\ pc[t] = "result" /\ val \in Int
        /\ UNCHANGED <<up, down, csock, sentOn, served>>
    BY DEF Result, Tokens
  <2>2. /\ ret'[t] = val
        /\ pc'[t] = IF req[t].op = "read" THEN "cap_rdata" ELSE "release"
        /\ req[t].op = "read" => val \in 0 .. req[t].len
        /\ req[t].op = "write" /\ val >= 0 => val <= req[t].len
    BY <1>1, <1>3, <2>1 DEF Result, ReadLengthValid, WriteProgressValid
  <2>3. ASSUME semaLive PROVE Knows(t)'
    <3>1. Knows(t)
      BY <1>1, <2>3, Alone
    <3> QED
      BY <1>1, <2>1, <2>2, <3>1 DEF Knows, Executed
  <2>4. ASSUME semaLive, NEW c \in Conns, c = pko_fileio_sock
        PROVE  Answering(t, c, val, 2)
    <3>1. Talk(t, c)
      BY <1>1, <2>4, Alone DEF Near
    <3>2. Rest(<<>>, GoodReply(Request(t), val), 2)
      BY <2>1, RequestTypes, NothingLeft
    <3> QED
      BY <2>1, <3>1, <3>2 DEF Talk, Quiet, Answering
  <2>5. ASSUME semaLive, NEW c \in Conns, Near(t, c)' PROVE Talk(t, c)'
    <3>1. c = pko_fileio_sock
      BY <1>1, <2>2, <2>5 DEF Near, Using
    <3>2. Answering(t, c, ret[t], 2)'
      BY <1>1, <2>1, <2>2, <2>4, <2>5, <3>1 DEF Answering, Request
    <3>3. Talk(t, c)
      BY <1>1, <2>5, <3>1, Alone DEF Near
    <3> QED
      BY <2>1, <2>2, <3>2, <3>3 DEF Talk, Quiet
  <2>6. ASSUME semaLive, pc'[t] \in Calm, NEW c \in Conns, c = pko_fileio_sock'
        PROVE  Quiet(c)'
    <3>1. req[t].op # "read"
      BY <2>2, <2>6 DEF Calm, Outside
    <3>2. Len(GoodReply(Request(t), val)) = 2 /\ down[c] \in Seq(Tokens)
      BY <2>1, <3>1, ReplyLen
    <3>3. Answering(t, c, val, 2)
      BY <1>1, <2>4, <2>6
    <3>4. down[c] = <<>> /\ up[c] = <<>>
      BY <3>2, <3>3, EmptySeq, LenProperties DEF Answering, Rest
    <3> QED
      BY <2>1, <3>4 DEF Quiet
  <2> QED
    BY <1>1, <2>3, <2>5, <2>6, OwnStep
<1> QED BY <1>2, <1>3

(* The data of a read is the last of the answer.                            *)
LEMMA DataStreams ==
    ASSUME TypeOK, SemaInv, FreshInv, StreamInv, NEW t \in Callers, RecvData(t)
    PROVE  StreamInv'
<1> USE DEF TypeOK, semaVars, globalVars, bufferVars, streamVars, sockVars, netVars,
            callVars, argVars, Goto
<1>1. /\ t \in Agents /\ Holding(t)
      /\ UNCHANGED <<semaLive, req, pko_fileio_sock>>
      /\ \A s \in Callers : s # t => pc'[s] = pc[s]
  BY Exchanging, Zenon DEF Exchange
<1>2. /\ pc[t] = "rdata" /\ pc'[t] = "release"
      /\ UNCHANGED <<up, ret, csock, sentOn, served>>
  BY <1>1 DEF RecvData
<1>3. ASSUME semaLive PROVE Knows(t)'
  <2>1. Knows(t)
    BY <1>1, <1>3, Alone
  <2> QED
    BY <1>1, <1>2, <2>1 DEF Knows, Executed
<1>4. ASSUME NEW c \in Conns PROVE Talk(t, c)'
  BY <1>2 DEF Talk
<1>5. ASSUME semaLive, NEW c \in Conns, c = pko_fileio_sock PROVE Quiet(c)'
  <2>1. Talk(t, c) /\ Knows(t)
    BY <1>1, <1>5, Alone DEF Near
  <2>2. ret[t] \in Int /\ req[t].op = "read"
    BY <1>2, <2>1 DEF Knows
  <2>3. CASE c # csock[t]
    <3>1. down'[c] = down[c]
      <4>1. CASE UNCHANGED down
        BY <4>1
      <4>2. CASE \E h \in Conns : Receive(t, h)
        BY <1>2, <2>3, <4>2, OpenHandle DEF Receive
      <4> QED
        BY <4>1, <4>2, Zenon DEF RecvData
    <3> QED
      BY <1>2, <2>1, <2>3, <3>1 DEF Talk, Quiet
  <2>4. CASE c = csock[t]
    <3> DEFINE reply == GoodReply(Request(t), ret[t])
    <3>1. up[c] = <<>> /\ Rest(down[c], reply, 2) /\ down[c] \in Seq(Tokens)
      BY <1>2, <2>1, <2>4 DEF Talk, Answering
    <3>2. Len(reply) = IF ret[t] > 0 THEN 3 ELSE 2
      BY <2>2, ReplyLen
    <3> HIDE DEF reply
    <3>3. CASE NoBytes(t)
      <4>1. down' = down /\ Len(reply) = 2
        BY <3>2, <3>3 DEF RecvData, NoBytes
      <4>2. down[c] = <<>>
        BY <3>1, <4>1, EmptySeq, LenProperties DEF Rest
      <4> QED
        BY <1>2, <3>1, <4>1, <4>2 DEF Quiet
    <3>4. CASE ~NoBytes(t)
      <4>1. down[c] # <<>> /\ down'[c] = Tail(down[c])
        <5>1. PICK h \in Conns : Receive(t, h)
          BY <3>4, Zenon DEF RecvData
        <5>2. h = c
          BY <1>2, <2>4, <5>1, OpenHandle DEF Receive
        <5> QED
          BY <5>1, <5>2 DEF Receive
      <4>2. Rest(Tail(down[c]), reply, 2 + 1) /\ Tail(down[c]) \in Seq(Tokens)
        BY <3>1, <3>2, <4>1, RestTail
      <4>3. Tail(down[c]) = <<>>
        BY <3>2, <4>2, EmptySeq, LenProperties DEF Rest
      <4> QED
        BY <1>2, <3>1, <4>1, <4>3 DEF Quiet
    <3> QED BY <3>3, <3>4
  <2> QED BY <2>3, <2>4
<1> QED
  BY <1>1, <1>3, <1>4, <1>5, OwnStep

(* A caller gives the connection up, and leaves.                            *)
LEMMA LeavingStreams ==
    ASSUME TypeOK, SemaInv, StreamInv, NEW t \in Callers,
           CloseRead(t) \/ CloseClear(t) \/ Disconnect(t) \/ Release(t)
    PROVE  StreamInv'
<1> USE DEF TypeOK, semaVars, globalVars, bufferVars, streamVars, sockVars, netVars,
            callVars, argVars, Goto
<1>1. t \in Agents /\ t # Server
  BY AgentsAssumption DEF Agents
<1>2. /\ pc[t] \in {"close_read", "close_clear", "disconnect", "release"}
      /\ pc'[t] \in {"close_clear", "disconnect", "release", "idle"}
      /\ pc[t] = "close_read" => pc'[t] = "close_clear"
      /\ pc'[t] = "release" => pc[t] # "release"
  BY <1>1 DEF CloseRead, CloseClear, Disconnect, Release, AfterClose
<1>3. Holding(t)
  BY <1>1, <1>2 DEF Holding, Outside
<1>4. ASSUME NEW s \in Callers, s # t PROVE UNCHANGED <<pc[s], req[s]>>
  BY <1>1, <1>4 DEF CloseRead, CloseClear, Disconnect, Release, Agents
<1>5. ASSUME semaLive PROVE Knows(t)'
  <2>1. Knows(t)
    BY <1>3, <1>5, Alone
  <2>2. CASE Release(t)
    <3>1. pc'[t] = "idle"
      BY <1>1, <2>2 DEF Release
    <3> QED
      BY <3>1 DEF Knows
  <2>3. CASE CloseRead(t) \/ CloseClear(t) \/ Disconnect(t)
    <3>1. UNCHANGED <<req, ret>> /\ pc[t] # "release" /\ pc'[t] # "idle"
      BY <1>1, <2>3 DEF CloseRead, CloseClear, Disconnect, AfterClose
    <3>2. ret[t] = -1 /\ req[t].op \in Ops
      BY <1>2, <2>1, <3>1 DEF Knows
    <3> QED
      BY <1>2, <3>1, <3>2 DEF Knows
  <2> QED BY <2>2, <2>3
<1>6. ASSUME NEW c \in Conns PROVE Talk(t, c)'
  BY <1>2 DEF Talk
<1>7. ASSUME semaLive, pc'[t] \in Calm, NEW c \in Conns, c = pko_fileio_sock'
      PROVE  Quiet(c)'
  <2>1. pc[t] # "close_clear"
    BY <1>7, HandleAssumption DEF CloseRead, CloseClear, Disconnect, Release
  <2>2. pc[t] \in Calm
    BY <1>2, <1>7, <2>1 DEF Calm, Outside
  <2>3. c = pko_fileio_sock
    BY <1>7, <2>1 DEF CloseRead, CloseClear, Disconnect, Release
  <2>4. Quiet(c)
    BY <1>3, <1>7, <2>2, <2>3, Alone
  <2>5. up'[c] \in {<<>>, up[c]} /\ down'[c] \in {<<>>, down[c]}
    BY DEF CloseRead, CloseClear, Disconnect, Release
  <2> QED
    BY <2>4, <2>5 DEF Quiet
<1>8. semaLive' = semaLive
  BY DEF CloseRead, CloseClear, Disconnect, Release
<1> QED
  BY <1>3, <1>4, <1>5, <1>6, <1>7, <1>8, OwnStep

(* A caller asks, waits and gets in.                                        *)
LEMMA EnteringStreams ==
    ASSUME TypeOK, StreamInv, NEW t \in Callers,
           (\E op \in Ops, len \in -1 .. MaxLen : Call(t, op, len)) \/ Acquire(t)
    PROVE  StreamInv'
<1> USE DEF TypeOK, semaVars, globalVars, bufferVars, streamVars, sockVars, netVars,
            callVars, argVars, Goto
<1>1. t \in Agents
  BY DEF Agents
<1>2. /\ pc[t] \in {"idle", "wait"} /\ pc'[t] \in {"wait", "enter"}
      /\ UNCHANGED <<semaLive, pko_fileio_sock, up, down, send_packet,
                     recv_packet, ret, csock, sentOn, served>>
  BY <1>1 DEF Call, Acquire
<1>3. ASSUME semaLive PROVE req'[t].op \in Ops
  <2>1. CASE \E op \in Ops, len \in -1 .. MaxLen : Call(t, op, len)
    BY <2>1 DEF Call
  <2>2. CASE Acquire(t)
    BY <1>3, <2>2 DEF Acquire, StreamInv, Knows
  <2> QED BY <2>1, <2>2
<1>4. ASSUME NEW s \in Callers, s # t PROVE UNCHANGED <<pc[s], req[s]>>
  BY <1>1, <1>4 DEF Call, Acquire, Agents
<1> SUFFICES ASSUME semaLive PROVE StreamInv'
  BY <1>2 DEF StreamInv
<1>5. ASSUME NEW s \in Callers
      PROVE  Knows(s)' /\ \A c \in Conns : Near(s, c)' => Talk(s, c)'
  <2>1. CASE s = t
    BY <1>2, <1>3, <2>1 DEF Knows, Talk
  <2>2. CASE s # t
    <3>1. Unaware(s)
      BY <1>2, <1>4, <2>2 DEF Unaware
    <3>2. Knows(s)'
      BY <1>2, <3>1 DEF StreamInv, Knows, Unaware, Executed, Request, Trivial
    <3>3. ASSUME NEW c \in Conns, Near(s, c)' PROVE Talk(s, c)'
      BY <1>2, <3>1, <3>3, TalkSame DEF StreamInv, Near, Unaware
    <3> QED BY <3>2, <3>3
  <2> QED BY <2>1, <2>2
<1>6. ASSUME \A s \in Callers : pc'[s] \in Calm, NEW c \in Conns, c = pko_fileio_sock'
      PROVE  Quiet(c)'
  <2>1. \A s \in Callers : pc[s] \in Calm
    BY <1>2, <1>4, <1>6 DEF Calm, Outside
  <2> QED
    BY <1>2, <1>6, <2>1 DEF StreamInv, Quiet
<1> QED
  BY <1>5, <1>6 DEF StreamInv

-----------------------------------------------------------------------------
(* Who is not a caller leaves the streams alone, but for a disconnect.      *)
LEMMA ElsewhereStreams ==
    ASSUME StreamInv, semaLive' => semaLive,
           UNCHANGED <<up, down, bufferVars, callVars, csock, served>>,
           \A t \in Callers : pc'[t] = pc[t],
           pko_fileio_sock' \in {pko_fileio_sock, NoSock}
    PROVE  StreamInv'
<1> USE DEF bufferVars, callVars
<1>1. \A t \in Callers : Unaware(t)
  BY DEF Unaware
<1>2. \A t \in Callers : \A c \in Conns : Talk(t, c) => Talk(t, c)'
  BY <1>1, TalkSame
<1>3. \A c \in Conns : Quiet(c) => Quiet(c)'
  BY DEF Quiet
<1>4. \A c \in Conns : c = pko_fileio_sock' => c = pko_fileio_sock
  BY HandleAssumption
<1> QED
  BY <1>1, <1>2, <1>3, <1>4, OthersStep

(* An unmounter's step keeps StreamInv: it uses no connection.              *)
LEMMA UnmounterStreams ==
    ASSUME TypeOK, StreamInv, NEW u \in Unmounters,
           Unmount(u) \/ Deactivate(u) \/ DeleteSema(u) \/ Acquire(u) \/ Release(u)
    PROVE  StreamInv'
<1> USE AgentsAssumption DEF TypeOK, semaVars, globalVars, bufferVars,
        streamVars, sockVars, netVars, callVars, argVars, Goto, Agents
<1>1. CASE Unmount(u) \/ Deactivate(u) \/ DeleteSema(u)
  <2>1. /\ semaLive' => semaLive
        /\ UNCHANGED <<up, down, bufferVars, callVars, csock, served>>
        /\ \A t \in Callers : pc'[t] = pc[t]
        /\ pko_fileio_sock' \in {pko_fileio_sock, NoSock}
    BY <1>1 DEF Unmount, Deactivate, DeleteSema
  <2> QED BY <2>1, ElsewhereStreams
<1>2. CASE Acquire(u) \/ Release(u)
  <2>1. /\ semaLive' => semaLive
        /\ UNCHANGED <<up, down, bufferVars, callVars, csock, served>>
        /\ \A t \in Callers : pc'[t] = pc[t]
        /\ pko_fileio_sock' \in {pko_fileio_sock, NoSock}
    BY <1>2 DEF Acquire, Release
  <2> QED BY <2>1, ElsewhereStreams
<1> QED BY <1>1, <1>2

(* The server's steps keep StreamInv, except for the installation of a      *)
(* new connection.                                                          *)
LEMMA ServerStreams ==
    ASSUME TypeOK, StreamInv,
           \/ ServerStart \/ ServerFail \/ ServerLoop \/ Accept \/ AcceptError
           \/ CheckReconnect \/ Unlisten
           \/ \E c \in Conns : Connect(c)
           \/ UNCHANGED vars
    PROVE  StreamInv'
<1> USE AgentsAssumption DEF TypeOK, vars, semaVars, globalVars, bufferVars,
        streamVars, sockVars, netVars, callVars, argVars, Goto, Agents
<1>1. /\ semaLive' = semaLive /\ pko_fileio_sock' = pko_fileio_sock
      /\ UNCHANGED <<up, down, bufferVars, callVars, csock, served>>
  BY DEF ServerStart, ServerFail, ServerLoop, Accept, AcceptError,
     CheckReconnect, Unlisten, Connect
<1>2. \A t \in Callers : pc'[t] = pc[t]
  BY DEF ServerStart, ServerFail, ServerLoop, Accept, AcceptError,
     CheckReconnect, Unlisten, Connect
<1> QED BY <1>1, <1>2, ElsewhereStreams

(* Somebody else gives up the current connection, perhaps while a caller    *)
(* uses it: everything on it is lost.                                       *)
LEMMA ClosingStreams ==
    ASSUME TypeOK, TypeOK', FreshInv, StreamInv, NEW a \in Agents \ Callers,
           CloseRead(a) \/ CloseClear(a) \/ Disconnect(a)
    PROVE  StreamInv'
<1> USE DEF TypeOK, semaVars, globalVars, bufferVars, streamVars, sockVars, netVars,
        callVars, argVars, Goto
<1>1. CASE CloseRead(a) \/ CloseClear(a)
  <2>1. /\ semaLive' = semaLive
        /\ UNCHANGED <<up, down, bufferVars, callVars, csock, served>>
        /\ \A t \in Callers : pc'[t] = pc[t]
        /\ pko_fileio_sock' \in {pko_fileio_sock, NoSock}
    BY <1>1 DEF CloseRead, CloseClear, Agents
  <2> QED BY <2>1, ElsewhereStreams
<1>2. CASE Disconnect(a)
  <2>1. /\ UNCHANGED <<semaLive, pko_fileio_sock, bufferVars, callVars, csock,
                       served>>
        /\ \A t \in Callers : pc'[t] = pc[t]
    BY <1>2 DEF Disconnect, Agents
  <2>2. \A c \in Conns : UNCHANGED <<up[c], down[c]>> \/ Quiet(c)'
    BY <1>2 DEF Disconnect, Quiet
  <2>3. \A t \in Callers : Unaware(t)
    BY <2>1 DEF Unaware
  <2>4. \A t \in Callers : \A c \in Conns : Talk(t, c) => Talk(t, c)'
    BY <2>2, <2>3, TalkSame, TalkBroken
  <2>5. \A c \in Conns : Quiet(c) => Quiet(c)'
    BY <2>2 DEF Quiet
  <2> QED
    BY <2>1, <2>3, <2>4, <2>5, OthersStep
<1> QED BY <1>1, <1>2

(* A connection installed is a fresh one.                                   *)
LEMMA InstallStreams ==
    ASSUME TypeOK, SpentInv, StreamInv, TypeOK', Install
    PROVE  StreamInv'
<1> USE DEF TypeOK, semaVars, globalVars, bufferVars, streamVars, sockVars, netVars,
        callVars, argVars, Goto
<1>1. /\ UNCHANGED <<semaLive, up, down, bufferVars, callVars, csock, served>>
      /\ \A t \in Callers : pc'[t] = pc[t]
      /\ pko_fileio_sock' = client
  BY AgentsAssumption DEF Install, Agents
<1>2. \A t \in Callers : Unaware(t)
  BY <1>1 DEF Unaware
<1>3. \A c \in Conns : Quiet(c) => Quiet(c)'
  BY <1>1 DEF Quiet
<1>4. \A t \in Callers : \A c \in Conns : Talk(t, c) => Talk(t, c)'
  BY <1>1, <1>2, TalkSame
<1>5. ASSUME NEW c \in Conns, c = client
      PROVE  Quiet(c) /\ \A t \in Callers : Talk(t, c)
  <2>1. Quiet(c) /\ \A t \in Callers : csock[t] # c
    BY <1>5, HandleAssumption DEF SpentInv, Spent
  <2> QED
    BY <2>1, QuietTalk
<1> QED
  BY <1>1, <1>2, <1>3, <1>4, <1>5, OthersStep

(* The PC's steps keep StreamInv: it serves the request it finds, drops a   *)
(* stray block, or goes away.                                               *)
LEMMA PCStreams ==
    ASSUME TypeOK, StreamInv, NEW d \in Conns, Serve(d) \/ Discard(d) \/ Drop(d)
    PROVE  StreamInv'
<1> USE DEF TypeOK, semaVars, globalVars, bufferVars, streamVars, sockVars, netVars,
        callVars, argVars, Goto
<1>1. /\ UNCHANGED <<semaLive, pko_fileio_sock, bufferVars, callVars, csock, pc>>
      /\ served \subseteq served'
  BY DEF Serve, Discard, Drop
<1>2. \A t \in Callers : Unaware(t)
  BY <1>1 DEF Unaware
<1>3. \A c \in Conns : Quiet(c) => Quiet(c)'
  BY QuietStays
<1>4. ASSUME semaLive, NEW t \in Callers, NEW c \in Conns, Talk(t, c)
      PROVE  Talk(t, c)'
  <2>1. CASE Discard(d) \/ Drop(d)
    BY <1>2, <1>4, <2>1, TalkDiscarded, TalkDropped
  <2>2. CASE Serve(d) /\ pc[t] \in Using \cup {"cap_data", "cap_accept", "cap_rdata"}
    BY <1>2, <1>4, <2>2, TalkServed DEF StreamInv
  <2>3. CASE pc[t] \notin Using \cup {"cap_data", "cap_accept", "cap_rdata"}
    BY <1>1, <2>3 DEF Talk, Using
  <2> QED BY <2>1, <2>2, <2>3
<1> SUFFICES ASSUME semaLive PROVE StreamInv'
  BY <1>1 DEF StreamInv
<1> QED
  BY <1>1, <1>2, <1>3, <1>4, OthersStep

(* So the streams stay as the callers take them to be.                      *)
LEMMA StreamAlways == Spec => [](~reused => StreamInv)
<1>1. Init => StreamInv
  <2> SUFFICES ASSUME Init PROVE StreamInv
    OBVIOUS
  <2>1. \A t \in Callers : pc[t] = "idle"
    BY AgentsAssumption DEF Init, Agents
  <2>2. \A c \in Conns : Quiet(c)
    BY DEF Init, Quiet
  <2>3. \A t \in Callers : Knows(t)
    BY <2>1 DEF Knows
  <2>4. \A t \in Callers : \A c \in Conns : Talk(t, c)
    BY <2>1 DEF Talk
  <2> QED
    BY <2>2, <2>3, <2>4 DEF StreamInv
<1>2. /\ TypeOK /\ TypeOK' /\ SemaInv /\ (~reused => FreshInv)
      /\ (~reused => SpentInv) /\ (~reused => StreamInv) /\ [Next]_vars
      => (~reused => StreamInv)'
  <2> SUFFICES ASSUME TypeOK, TypeOK', SemaInv, FreshInv, SpentInv, StreamInv,
                      [Next]_vars
               PROVE  StreamInv'
    BY ReusedStays
  <2>1. ASSUME NEW t \in Callers, NEW op \in Ops, NEW len \in -1 .. MaxLen,
               Call(t, op, len)
        PROVE  StreamInv'
    BY <2>1, EnteringStreams
  <2>2. ASSUME NEW t \in Callers, Acquire(t) \/ Release(t) PROVE StreamInv'
    BY <2>2, EnteringStreams, LeavingStreams
  <2>3. ASSUME NEW u \in Unmounters,
               \/ Unmount(u) \/ Deactivate(u) \/ DeleteSema(u)
               \/ Acquire(u) \/ Release(u)
        PROVE  StreamInv'
    BY <2>3, UnmounterStreams
  <2>4. ASSUME NEW a \in Agents, CloseRead(a) \/ CloseClear(a) \/ Disconnect(a)
        PROVE  StreamInv'
    BY <2>4, LeavingStreams, ClosingStreams
  <2>5. ASSUME NEW t \in Callers, EnterReturn(t) \/ EnterBuild(t) \/ Capture(t)
        PROVE  StreamInv'
    BY <2>5, EnterStreams, CaptureStreams
  <2>6. ASSUME NEW t \in Callers, SendHeader(t) \/ SendData(t) \/ SendFail(t)
        PROVE  StreamInv'
    <3>1. SendFail(t) => Fail(t)
      BY DEF SendFail
    <3> QED
      BY <2>6, <3>1, SendStreams, FailStreams, Zenon DEF Exchange
  <2>7. ASSUME NEW t \in Callers,
               \/ RecvHeader(t) \/ RecvBody(t) \/ RecvData(t)
               \/ RecvFail(t) \/ Result(t)
        PROVE  StreamInv'
    <3>1. RecvFail(t) => Fail(t)
      BY DEF RecvFail
    <3> QED
      BY <2>7, <3>1, HeaderStreams, BodyStreams, DataStreams, ResultStreams,
         FailStreams, Zenon DEF Exchange
  <2>8. CASE \/ ServerStart \/ ServerFail \/ ServerLoop \/ Accept \/ AcceptError
             \/ CheckReconnect \/ Unlisten
             \/ \E c \in Conns : Connect(c)
             \/ UNCHANGED vars
    BY <2>8, ServerStreams
  <2>9. CASE Install
    BY <2>9, InstallStreams
  <2>10. ASSUME NEW c \in Conns, Serve(c) \/ Discard(c) \/ Drop(c)
         PROVE  StreamInv'
    BY <2>10, PCStreams
  <2> QED
    BY NextCases, <2>1, <2>2, <2>3, <2>4, <2>5, <2>6, <2>7, <2>8, <2>9, <2>10,
       Zenon
<1> QED
  BY <1>1, <1>2, TypeCorrect, SemaAlways, FreshAlways, SpentAlways, PTL DEF Spec

-----------------------------------------------------------------------------
(* A result that is no error is the PC's own answer to this very request,   *)
(* whatever becomes of the connections meanwhile.                           *)
THEOREM AnswersTruthful == Spec => []AckTruthful
<1>1. (~reused => StreamInv) => AckTruthful
  BY DEF StreamInv, Knows, Executed, Promised, AckTruthful
<1> QED
  BY <1>1, StreamAlways, PTL

(* Between two operations nothing is under way on the current connection.   *)
THEOREM StreamAlwaysClean == Spec => []StreamClean
<1>1. TypeOK /\ (~reused => FreshInv) /\ (~reused => StreamInv) => StreamClean
  BY DEF TypeOK, FreshInv, StreamInv, Calm, Outside, Quiet, StreamClean,
     StreamCleanAlways, ConnOf, Socks
<1> QED
  BY <1>1, TypeCorrect, FreshAlways, StreamAlways, PTL
=============================================================================
