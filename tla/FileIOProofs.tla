---------------------------- MODULE FileIOProofs ----------------------------
(* Theorems about FileIO, for every set of callers, unmounters, connections *)
(* and operations and for every bound.                                      *)
EXTENDS FileIO, SequenceTheorems, TLAPS

(* A stream stays a sequence of tokens when the PC takes a request off it,  *)
(* or when the connection breaks in the middle of what it carries.          *)
LEMMA PartOfStream ==
    ASSUME NEW s \in Seq(Tokens), NEW m \in Int, NEW n \in Int,
           1 <= m, n <= Len(s)
    PROVE  SubSeq(s, m, n) \in Seq(Tokens)
<1>1. \A i \in m .. n : s[i] \in Tokens
  BY ElementOfSeq
<1> QED
  BY <1>1, SubSeqProperties

(* A header alone, or a header with its body, is a sequence.                *)
LEMMA ShortSeqs ==
    ASSUME NEW S, NEW a \in S, NEW b \in S
    PROVE  <<a>> \in Seq(S) /\ <<a, b>> \in Seq(S)
OBVIOUS

(* What the PC sends back is a sequence of tokens.                          *)
LEMMA ReplyIsStream ==
    ASSUME NEW m \in Tokens, NEW val \in ReplyVals(m),
           NEW reply \in {GoodReply(m, val)} \cup BadReplies(m)
    PROVE  val \in Int /\ reply \in Seq(Tokens)
<1>1. val \in Int
  BY DEF ReplyVals, Tokens
<1>2. RlySize(m.op) \in Int
  BY DEF RlySize
<1>3. /\ Token("hdr", m.op, m.id, RlySize(m.op)) \in Tokens
      /\ Token("hdr", "other", m.id, RlySize(m.op)) \in Tokens
      /\ Token("hdr", m.op, m.id, 6) \in Tokens
      /\ Token("body", m.op, m.id, val) \in Tokens
      /\ Token("body", m.op, m.id, 0) \in Tokens
      /\ Token("data", m.op, m.id, val) \in Tokens
  BY <1>1, <1>2 DEF Token, Tokens, Kinds
<1>4. CASE reply \in BadReplies(m)
  <2>1. BadReplies(m) \subseteq Seq(Tokens)
    BY <1>3, ShortSeqs, Zenon DEF BadReplies
  <2> QED
    BY <1>1, <1>4, <2>1
<1>5. CASE reply = GoodReply(m, val)
  <2> DEFINE front == << Token("hdr", m.op, m.id, RlySize(m.op)),
                         Token("body", m.op, m.id, val) >>
             tail  == IF m.op = "read" /\ val > 0
                      THEN << Token("data", m.op, m.id, val) >> ELSE <<>>
  <2>1. front \in Seq(Tokens) /\ tail \in Seq(Tokens)
    BY <1>3, ShortSeqs, EmptySeq, Zenon DEF front, tail
  <2> HIDE DEF front, tail
  <2>2. front \o tail \in Seq(Tokens)
    BY <2>1, ConcatProperties
  <2>3. reply = front \o tail
    BY <1>5 DEF GoodReply, front, tail
  <2> QED
    BY <1>1, <2>2, <2>3
<1> QED
  BY <1>4, <1>5
-----------------------------------------------------------------------------
(* The actions a step can be, as the proofs below take them.                *)
LEMMA NextCases ==
    [Next]_vars =>
      \/ \E t \in Callers, op \in Ops, len \in -1 .. MaxLen : Call(t, op, len)
      \/ \E a \in Callers \cup Unmounters : Acquire(a) \/ Release(a)
      \/ \E a \in Agents : CloseRead(a) \/ CloseClear(a) \/ Disconnect(a)
      \/ \E u \in Unmounters : Unmount(u) \/ Deactivate(u) \/ DeleteSema(u)
      \/ \E t \in Callers : EnterReturn(t) \/ EnterBuild(t) \/ Capture(t)
      \/ \E t \in Callers : SendHeader(t) \/ SendData(t) \/ SendFail(t)
      \/ \E t \in Callers : RecvHeader(t) \/ RecvBody(t) \/ RecvData(t)
      \/ \E t \in Callers : RecvFail(t) \/ Result(t)
      \/ ServerStart \/ ServerFail \/ ServerLoop \/ Accept \/ AcceptError
      \/ CheckReconnect \/ Install \/ Unlisten
      \/ \E c \in Conns : Connect(c) \/ Serve(c) \/ Discard(c) \/ Drop(c)
      \/ UNCHANGED vars
<1> SUFFICES ASSUME [Next]_vars PROVE NextCases!2
  OBVIOUS
<1> USE DEF Agents, Guarded
<1>1. CASE \E t \in Callers : FixedCall(t) \/ ReadCall(t) \/ WriteCall(t)
  <2>1. 0 \in -1 .. MaxLen
    BY BoundsAssumption
  <2> QED
    BY <1>1, <2>1 DEF FixedCall, ReadCall, WriteCall, Ops
<1>2. CASE \E t \in Callers : CallerStep(t)
  BY <1>2, Zenon DEF CallerStep, Exchange
<1>3. CASE \E u \in Unmounters : Unmount(u) \/ UnmounterStep(u)
  BY <1>3, Zenon DEF UnmounterStep
<1>4. CASE ServerStep \/ AcceptError
  BY <1>4, Zenon DEF ServerStep
<1>5. CASE \E c \in Conns : Connect(c) \/ PCStep(c) \/ Drop(c)
  BY <1>5, Zenon DEF PCStep
<1> QED
  BY <1>1, <1>2, <1>3, <1>4, <1>5, Zenon DEF Next

(* Every variable keeps its type.                                           *)
THEOREM TypeCorrect == Spec => []TypeOK
<1>1. Init => TypeOK
  <2> SUFFICES ASSUME Init PROVE TypeOK
    OBVIOUS
  <2>1. NoPacket \in Tokens /\ 0 \in Ids
    BY BoundsAssumption DEF NoPacket, Token, Tokens, Kinds, Ids
  <2>2. NoReq \in [op : Ops \cup {"other"}, len : Int, id : Ids]
    BY <2>1 DEF NoReq
  <2>3. pc \in [Agents -> Labels]
    BY DEF Init, Labels
  <2>4. /\ fd \in [Conns -> Socks] /\ backlog \subseteq Conns
        /\ num \in [Conns -> Nums \cup {NoSock}] /\ reused \in BOOLEAN
        /\ peer \in [Conns -> {"new", "up", "gone"}]
        /\ up \in [Conns -> Seq(Tokens)] /\ down \in [Conns -> Seq(Tokens)]
    BY EmptySeq DEF Init, Socks
  <2>5. /\ req \in [Callers -> [op : Ops \cup {"other"}, len : Int, id : Ids]]
        /\ ret \in [Callers -> Int]
        /\ csock \in [Callers -> Socks] /\ cconn \in [Callers -> Socks]
        /\ dsock \in [Agents -> Socks] /\ sentOn \in [Callers -> Socks]
    BY <2>2 DEF Init, Socks
  <2>6. sema \in 0 .. 1 /\ pko_fileio_sock \in Socks /\ client \in Socks
    BY DEF Init, Socks
  <2>7. served \subseteq [id : Ids, val : Int]
    BY DEF Init
  <2>8. send_packet \in Tokens /\ recv_packet \in Tokens /\ nreq \in Ids
    BY <2>1 DEF Init
  <2>9. semaLive \in BOOLEAN /\ pko_fileio_active \in BOOLEAN
    BY Zenon DEF Init
  <2> QED
    BY <2>3, <2>4, <2>5, <2>6, <2>7, <2>8, <2>9 DEF TypeOK
<1>2. TypeOK /\ [Next]_vars => TypeOK'
  <2> SUFFICES ASSUME TypeOK, [Next]_vars PROVE TypeOK'
    OBVIOUS
  <2> USE DEF TypeOK, semaVars, globalVars, bufferVars, streamVars, sockVars, netVars, callVars, argVars
  <2>1. ASSUME NEW t \in Callers, NEW op \in Ops, NEW len \in -1 .. MaxLen, Call(t, op, len) PROVE TypeOK'
    <3>1. nreq' \in Ids
      BY <2>1, BoundsAssumption DEF Call, Ids
    <3>2. req' \in [Callers -> [op : Ops \cup {"other"}, len : Int, id : Ids]]
      BY <2>1, BoundsAssumption DEF Call, Ids, Ops
    <3>3. pc' \in [Agents -> Labels]
      BY <2>1 DEF Call, Goto, Labels
    <3> QED
      BY <2>1, <3>1, <3>2, <3>3 DEF Call
  <2>2. ASSUME NEW a \in Callers \cup Unmounters, Acquire(a) PROVE TypeOK'
    <3>1. sema' \in 0 .. 1
      BY <2>2 DEF Acquire
    <3>2. pc' \in [Agents -> Labels]
      BY <2>2 DEF Acquire, Goto, Labels
    <3> QED
      BY <2>2, <3>1, <3>2 DEF Acquire
  <2>3. ASSUME NEW a \in Callers \cup Unmounters, Release(a) PROVE TypeOK'
    <3>1. sema' \in 0 .. 1
      BY <2>3 DEF Release
    <3>2. req' \in [Callers -> [op : Ops \cup {"other"}, len : Int, id : Ids]]
      <4>1. NoReq \in [op : Ops \cup {"other"}, len : Int, id : Ids]
        BY BoundsAssumption DEF NoReq, Ids
      <4> QED
        BY <2>3, <4>1 DEF Release
    <3>3. ret' \in [Callers -> Int]
      BY <2>3 DEF Release
    <3>4. sentOn' \in [Callers -> Socks]
      BY <2>3 DEF Release, Socks
    <3>5. csock' \in [Callers -> Socks]
      BY <2>3 DEF Release, Socks
    <3>6. cconn' \in [Callers -> Socks]
      BY <2>3 DEF Release, Socks
    <3>7. pc' \in [Agents -> Labels]
      BY <2>3 DEF Release, Goto, Labels
    <3> QED
      BY <2>3, <3>1, <3>2, <3>3, <3>4, <3>5, <3>6, <3>7 DEF Release
  <2>4. ASSUME NEW u \in Unmounters, Unmount(u) PROVE TypeOK'
    BY <2>4 DEF Unmount, Goto, Labels
  <2>5. ASSUME NEW u \in Unmounters, Deactivate(u) PROVE TypeOK'
    BY <2>5 DEF Deactivate, Goto, Labels
  <2>6. ASSUME NEW u \in Unmounters, DeleteSema(u) PROVE TypeOK'
    BY <2>6 DEF DeleteSema, Goto, Labels
  <2>7. ASSUME NEW a \in Agents, CloseRead(a) PROVE TypeOK'
    BY <2>7 DEF CloseRead, Goto, Labels
  <2>8. ASSUME NEW a \in Agents, CloseClear(a) PROVE TypeOK'
    BY <2>8 DEF CloseClear, AfterClose, Goto, Labels, Socks
  <2>9. ASSUME NEW a \in Agents, Disconnect(a) PROVE TypeOK'
    <3>1. fd' \in [Conns -> Socks]
      BY <2>9 DEF Disconnect, ConnOf, Socks
    <3>2. peer' \in [Conns -> {"new", "up", "gone"}]
      BY <2>9 DEF Disconnect
    <3>3. <<>> \in Seq(Tokens)
      BY EmptySeq
    <3>4. up' \in [Conns -> Seq(Tokens)] /\ down' \in [Conns -> Seq(Tokens)]
      <4>1. CASE UNCHANGED netVars
        BY <4>1
      <4>2. CASE /\ up' = [up EXCEPT ![ConnOf(dsock[a])] = <<>>]
                 /\ down' = [down EXCEPT ![ConnOf(dsock[a])] = <<>>]
        BY <3>3, <4>2
      <4> QED
        BY <2>9, <4>1, <4>2 DEF Disconnect
    <3>5. dsock' \in [Agents -> Socks]
      BY <2>9 DEF Disconnect, Socks
    <3>6. pc' \in [Agents -> Labels]
      BY <2>9 DEF Disconnect, AfterClose, Goto, Labels
    <3> QED
      BY <2>9, <3>1, <3>2, <3>3, <3>4, <3>5, <3>6 DEF Disconnect
  <2>10. ASSUME NEW t \in Callers, EnterReturn(t) PROVE TypeOK'
    <3>1. ret' \in [Callers -> Int]
      BY <2>10 DEF EnterReturn
    <3>2. pc' \in [Agents -> Labels]
      BY <2>10 DEF EnterReturn, Goto, Labels
    <3> QED
      BY <2>10, <3>1, <3>2 DEF EnterReturn
  <2>11. ASSUME NEW t \in Callers, EnterBuild(t) PROVE TypeOK'
    BY <2>11 DEF EnterBuild, Token, Tokens, Kinds, Goto, Labels
  <2>12. ASSUME NEW t \in Callers, Capture(t) PROVE TypeOK'
    <3>1. csock' \in [Callers -> Socks]
      BY <2>12 DEF Capture
    <3>2. cconn' \in [Callers -> Socks]
      BY <2>12 DEF Capture, ConnOf, Socks
    <3>3. pc' \in [Agents -> Labels]
      <4>1. \A l \in DOMAIN Captures : Captures[l] \in Labels
        BY DEF Captures, Labels
      <4> QED
        BY <2>12, <4>1 DEF Capture, Goto
    <3> QED
      BY <2>12, <3>1, <3>2, <3>3 DEF Capture
  <2>13. ASSUME NEW t \in Callers, SendHeader(t) PROVE TypeOK'
    <3>1. up' \in [Conns -> Seq(Tokens)]
      BY <2>13 DEF SendHeader, Deliver, ConnOf, Socks
    <3>2. sentOn' \in [Callers -> Socks]
      BY <2>13 DEF SendHeader, ConnOf, Socks
    <3>3. pc' \in [Agents -> Labels]
      BY <2>13 DEF SendHeader, Goto, Labels
    <3> QED
      BY <2>13, <3>1, <3>2, <3>3 DEF SendHeader
  <2>14. ASSUME NEW t \in Callers, SendData(t) PROVE TypeOK'
    <3>1. Token("data", "write", req[t].id, req[t].len) \in Tokens
      BY DEF Token, Tokens, Kinds, Ops
    <3>2. up' \in [Conns -> Seq(Tokens)]
      BY <2>14, <3>1 DEF SendData, Deliver, ConnOf, Socks
    <3>3. pc' \in [Agents -> Labels]
      BY <2>14 DEF SendData, Goto, Labels
    <3> QED
      BY <2>14, <3>2, <3>3 DEF SendData
  <2>15. ASSUME NEW t \in Callers, SendFail(t) PROVE TypeOK'
    <3>1. [send_packet EXCEPT !.k = "torn"] \in Tokens
      BY DEF Tokens, Kinds
    <3>2. up' \in [Conns -> Seq(Tokens)]
      <4> DEFINE c == ConnOf(csock[t])
      <4>1. PICK m \in Tokens : up' = up \/ up' = [up EXCEPT ![c] = Append(@, m)]
        BY <2>15, <3>1 DEF SendFail, Deliver
      <4> HIDE DEF c
      <4>2. CASE c \in Conns
        <5>1. Append(up[c], m) \in Seq(Tokens)
          BY <4>2, AppendProperties
        <5> QED
          BY <4>1, <4>2, <5>1
      <4>3. CASE c \notin Conns
        BY <4>1, <4>3
      <4> QED
        BY <4>2, <4>3
    <3>3. ret' \in [Callers -> Int]
      BY <2>15 DEF SendFail, Fail
    <3>4. pc' \in [Agents -> Labels]
      BY <2>15 DEF SendFail, Fail, Goto, Labels
    <3> QED
      BY <2>15, <3>2, <3>3, <3>4 DEF SendFail
  <2>16. ASSUME NEW t \in Callers, RecvHeader(t) PROVE TypeOK'
    <3>1. recv_packet' \in Tokens
      BY <2>16, HeadTailProperties DEF RecvHeader, Receive
    <3>2. down' \in [Conns -> Seq(Tokens)]
      BY <2>16, HeadTailProperties DEF RecvHeader, Receive
    <3>3. ret' \in [Callers -> Int]
      BY <2>16 DEF RecvHeader, Fail
    <3>4. pc' \in [Agents -> Labels]
      <4>1. Goto(t, "body") \/ Goto(t, "close_read")
        BY <2>16 DEF RecvHeader, Fail
      <4> QED
        BY <4>1 DEF Goto, Labels
    <3> QED
      BY <2>16, <3>1, <3>2, <3>3, <3>4 DEF RecvHeader
  <2>17. ASSUME NEW t \in Callers, RecvBody(t) PROVE TypeOK'
    <3>1. recv_packet' \in Tokens
      BY <2>17, HeadTailProperties DEF RecvBody, Receive
    <3>2. down' \in [Conns -> Seq(Tokens)]
      BY <2>17, HeadTailProperties DEF RecvBody, Receive
    <3>3. pc' \in [Agents -> Labels]
      BY <2>17 DEF RecvBody, Goto, Labels
    <3> QED
      BY <2>17, <3>1, <3>2, <3>3 DEF RecvBody
  <2>18. ASSUME NEW t \in Callers, RecvData(t) PROVE TypeOK'
    <3>1. down' \in [Conns -> Seq(Tokens)]
      <4>1. CASE UNCHANGED down
        BY <4>1
      <4>2. CASE \E c \in Conns : Receive(t, c)
        BY <4>2, HeadTailProperties DEF Receive
      <4> QED
        BY <2>18, <4>1, <4>2 DEF RecvData
    <3>2. pc' \in [Agents -> Labels]
      BY <2>18 DEF RecvData, Goto, Labels
    <3> QED
      BY <2>18, <3>1, <3>2 DEF RecvData
  <2>19. ASSUME NEW t \in Callers, RecvFail(t) PROVE TypeOK'
    <3>1. ret' \in [Callers -> Int]
      BY <2>19 DEF RecvFail, Fail
    <3>2. pc' \in [Agents -> Labels]
      BY <2>19 DEF RecvFail, Fail, Goto, Labels
    <3> QED
      BY <2>19, <3>1, <3>2 DEF RecvFail
  <2>20. ASSUME NEW t \in Callers, Result(t) PROVE TypeOK'
    <3>1. ret' \in [Callers -> Int]
      BY <2>20 DEF Result, Fail, Tokens
    <3>2. pc' \in [Agents -> Labels]
      <4>1. PICK l \in {"close_read", "cap_rdata", "release"} : Goto(t, l)
        BY <2>20, Zenon DEF Result, Fail
      <4>2. l \in Labels
        BY DEF Labels
      <4> QED
        BY <4>1, <4>2 DEF Goto
    <3> QED
      BY <2>20, <3>1, <3>2 DEF Result
  <2>21. CASE ServerStart
    BY <2>21 DEF ServerStart, Goto, Labels
  <2>22. CASE ServerFail
    BY <2>22 DEF ServerFail, Goto, Labels
  <2>23. CASE ServerLoop
    BY <2>23 DEF ServerLoop, Goto, Labels
  <2>24. CASE Accept
    <3>1. PICK c \in backlog, n \in Nums :
             /\ fd' = [h \in Conns |->
                        IF h \in Numbered(n) \cup {c} THEN c ELSE fd[h]]
             /\ num' = [num EXCEPT ![c] = n]
             /\ reused' = (reused \/ \E h \in Numbered(n) : Held(h))
             /\ backlog' = backlog \ {c} /\ client' = c
      BY <2>24, Zenon DEF Accept
    <3>2. /\ fd' \in [Conns -> Socks] /\ client' \in Socks
          /\ backlog' \subseteq Conns
          /\ num' \in [Conns -> Nums \cup {NoSock}]
      BY <3>1 DEF Socks
    <3>4. reused' \in BOOLEAN
      BY <3>1, Zenon
    <3>3. pc' \in [Agents -> Labels]
      BY <2>24 DEF Accept, Goto, Labels
    <3> QED
      BY <2>24, <3>2, <3>3, <3>4 DEF Accept
  <2>25. CASE AcceptError
    BY <2>25 DEF AcceptError, Goto, Labels
  <2>26. CASE CheckReconnect
    BY <2>26 DEF CheckReconnect, Goto, Labels
  <2>27. CASE Install
    BY <2>27 DEF Install, Socks, Goto, Labels
  <2>28. CASE Unlisten
    BY <2>28 DEF Unlisten, Goto, Labels
  <2>29. ASSUME NEW c \in Conns, Connect(c) PROVE TypeOK'
    BY <2>29 DEF Connect
  <2>30. ASSUME NEW c \in Conns, Serve(c) PROVE TypeOK'
    <3> DEFINE s == up[c]
    <3>1. /\ s \in Seq(Tokens) /\ s # <<>> /\ Len(s) >= Taken(s)
          /\ up' = [up EXCEPT ![c] = SubSeq(s, Taken(s) + 1, Len(s))]
      BY <2>30 DEF Serve
    <3>2. Head(s) \in Tokens
      BY <3>1, HeadTailProperties
    <3>3. PICK val \in ReplyVals(Head(s)) :
            /\ \E reply \in {GoodReply(Head(s), val)} \cup BadReplies(Head(s)) :
                  down' = [down EXCEPT ![c] = @ \o reply]
            /\ served' \in {served, served \cup {[id |-> Head(s).id, val |-> val]}}
      BY <2>30 DEF Serve
    <3>4. PICK reply \in {GoodReply(Head(s), val)} \cup BadReplies(Head(s)) :
            down' = [down EXCEPT ![c] = @ \o reply]
      BY <3>3
    <3>5. val \in Int /\ reply \in Seq(Tokens)
      BY <3>2, ReplyIsStream
    <3>6. SubSeq(s, Taken(s) + 1, Len(s)) \in Seq(Tokens)
      BY <3>1, PartOfStream, LenProperties DEF Taken
    <3>7. up' \in [Conns -> Seq(Tokens)]
      BY <3>1, <3>6
    <3>8. down[c] \o reply \in Seq(Tokens)
      BY <3>5, ConcatProperties
    <3>9. down' \in [Conns -> Seq(Tokens)]
      BY <3>4, <3>8
    <3>10. served' \subseteq [id : Ids, val : Int]
      BY <3>2, <3>3, <3>5 DEF Tokens
    <3> QED
      BY <2>30, <3>7, <3>9, <3>10 DEF Serve
  <2>31. ASSUME NEW c \in Conns, Discard(c) PROVE TypeOK'
    BY <2>31 DEF Discard
  <2>32. ASSUME NEW c \in Conns, Drop(c) PROVE TypeOK'
    <3>1. PICK k \in 0 .. Len(down[c]) :
            down' = [down EXCEPT ![c] = SubSeq(@, 1, k)]
      BY <2>32 DEF Drop
    <3>2. SubSeq(down[c], 1, k) \in Seq(Tokens)
      BY PartOfStream, LenProperties
    <3> QED
      BY <2>32, <3>1, <3>2 DEF Drop
  <2>33. CASE UNCHANGED vars
    BY <2>33 DEF vars
  <2> QED
    BY NextCases, <2>1, <2>2, <2>3, <2>4, <2>5, <2>6, <2>7, <2>8, <2>9, <2>10, <2>11,
       <2>12, <2>13, <2>14, <2>15, <2>16, <2>17, <2>18, <2>19, <2>20, <2>21, <2>22, <2>23,
       <2>24, <2>25, <2>26, <2>27, <2>28, <2>29, <2>30, <2>31, <2>32, <2>33, Zenon
<1> QED
  BY <1>1, <1>2, PTL DEF Spec
-----------------------------------------------------------------------------
(* fsys_sema: a thread between WaitSema and SignalSema holds the only unit. *)
SemaInv ==
    semaLive => /\ SemaExclusion
                /\ \A a \in Agents : Holding(a) => sema = 0

(* Only the semaphore's own operations let a thread in.                     *)
LEMMA HoldingStep ==
    ASSUME TypeOK, [Next]_vars
    PROVE  \/ \E a \in Callers \cup Unmounters : Acquire(a) \/ Release(a)
           \/ \E u \in Unmounters : DeleteSema(u)
           \/ /\ UNCHANGED semaVars
              /\ \A b \in Agents : Holding(b)' => Holding(b)
<1> DEFINE Quiet == /\ UNCHANGED semaVars
                    /\ \A b \in Agents : Holding(b)' => Holding(b)
<1> USE AgentsAssumption DEF TypeOK, Agents, Holding, Outside, semaVars
<1>1. ASSUME NEW t \in Callers, NEW op \in Ops, NEW len \in -1 .. MaxLen, Call(t, op, len) PROVE Quiet
  BY <1>1 DEF Call, Goto
<1>2. ASSUME NEW u \in Unmounters, Unmount(u) PROVE Quiet
  BY <1>2 DEF Unmount, Goto
<1>3. ASSUME NEW u \in Unmounters, Deactivate(u) PROVE Quiet
  BY <1>3 DEF Deactivate, Goto
<1>4. ASSUME NEW a \in Agents, CloseRead(a) PROVE Quiet
  BY <1>4 DEF CloseRead, Goto
<1>5. ASSUME NEW a \in Agents, CloseClear(a) PROVE Quiet
  BY <1>5 DEF CloseClear, AfterClose, Goto
<1>6. ASSUME NEW a \in Agents, Disconnect(a) PROVE Quiet
  BY <1>6 DEF Disconnect, AfterClose, Goto
<1>7. ASSUME NEW t \in Callers, EnterReturn(t) PROVE Quiet
  BY <1>7 DEF EnterReturn, Goto
<1>8. ASSUME NEW t \in Callers, EnterBuild(t) PROVE Quiet
  BY <1>8 DEF EnterBuild, Goto
<1>9. ASSUME NEW t \in Callers, Capture(t) PROVE Quiet
  BY <1>9 DEF Capture, Captures, Goto
<1>10. ASSUME NEW t \in Callers, SendHeader(t) PROVE Quiet
  BY <1>10 DEF SendHeader, Goto
<1>11. ASSUME NEW t \in Callers, SendData(t) PROVE Quiet
  BY <1>11 DEF SendData, Goto
<1>12. ASSUME NEW t \in Callers, SendFail(t) PROVE Quiet
  BY <1>12 DEF SendFail, Fail, Goto
<1>13. ASSUME NEW t \in Callers, RecvHeader(t) PROVE Quiet
  BY <1>13 DEF RecvHeader, Fail, Goto
<1>14. ASSUME NEW t \in Callers, RecvBody(t) PROVE Quiet
  BY <1>14 DEF RecvBody, Goto
<1>15. ASSUME NEW t \in Callers, RecvData(t) PROVE Quiet
  BY <1>15 DEF RecvData, Goto
<1>16. ASSUME NEW t \in Callers, RecvFail(t) PROVE Quiet
  BY <1>16 DEF RecvFail, Receiving, Fail, Goto
<1>17. ASSUME NEW t \in Callers, Result(t) PROVE Quiet
  BY <1>17 DEF Result, Fail, Goto
<1>18. CASE ServerStart
  BY <1>18 DEF ServerStart, Goto
<1>19. CASE ServerFail
  BY <1>19 DEF ServerFail, Goto
<1>20. CASE ServerLoop
  BY <1>20 DEF ServerLoop, Goto
<1>21. CASE Accept
  BY <1>21 DEF Accept, Goto
<1>22. CASE AcceptError
  BY <1>22 DEF AcceptError, Goto
<1>23. CASE CheckReconnect
  BY <1>23 DEF CheckReconnect, Goto
<1>24. CASE Install
  BY <1>24 DEF Install, Goto
<1>25. CASE Unlisten
  BY <1>25 DEF Unlisten, Goto
<1>26. ASSUME NEW c \in Conns, Connect(c) PROVE Quiet
  BY <1>26 DEF Connect
<1>27. ASSUME NEW c \in Conns, Serve(c) PROVE Quiet
  BY <1>27 DEF Serve
<1>28. ASSUME NEW c \in Conns, Discard(c) PROVE Quiet
  BY <1>28 DEF Discard
<1>29. ASSUME NEW c \in Conns, Drop(c) PROVE Quiet
  BY <1>29 DEF Drop
<1>30. CASE UNCHANGED vars
  BY <1>30 DEF vars
<1> QED
  BY NextCases, <1>1, <1>2, <1>3, <1>4, <1>5, <1>6, <1>7, <1>8, <1>9, <1>10, <1>11, <1>12, <1>13, 
     <1>14, <1>15, <1>16, <1>17, <1>18, <1>19, <1>20, <1>21, <1>22, <1>23, <1>24, <1>25, <1>26, <1>27, <1>28, <1>29, <1>30, Zenon

(* The count of the semaphore tells whether somebody holds it.              *)
LEMMA SemaAlways == Spec => []SemaInv
<1>1. Init => SemaInv
  BY AgentsAssumption DEF Init, SemaInv, SemaExclusion, Holding, Outside, Agents
<1>2. TypeOK /\ SemaInv /\ [Next]_vars => SemaInv'
  <2> SUFFICES ASSUME TypeOK, SemaInv, [Next]_vars PROVE SemaInv'
    OBVIOUS
  <2> USE DEF TypeOK, SemaInv, SemaExclusion, Holding, Outside
  <2>1. ASSUME NEW a \in Callers \cup Unmounters, Acquire(a) PROVE SemaInv'
    BY <2>1, AgentsAssumption DEF Acquire, Goto, Agents
  <2>2. ASSUME NEW a \in Callers \cup Unmounters, Release(a) PROVE SemaInv'
    BY <2>2, AgentsAssumption DEF Release, Goto, Agents
  <2>3. ASSUME NEW u \in Unmounters, DeleteSema(u) PROVE SemaInv'
    BY <2>3 DEF DeleteSema
  <2>4. CASE /\ UNCHANGED semaVars
             /\ \A b \in Agents : Holding(b)' => Holding(b)
    BY <2>4 DEF semaVars
  <2> QED
    BY HoldingStep, <2>1, <2>2, <2>3, <2>4
<1> QED
  BY <1>1, <1>2, TypeCorrect, PTL DEF Spec

(* The file system's mutual exclusion, for any number of threads.           *)
THEOREM MutualExclusion == Spec => []SemaExclusion
<1>1. SemaInv => SemaExclusion
  BY DEF SemaInv, SemaExclusion
<1> QED
  BY <1>1, SemaAlways, PTL
-----------------------------------------------------------------------------
(* Once the server has cleared the handle, nobody else stores one.          *)
CloseInv == pc[Server] \in {"disconnect", "install"} => pko_fileio_sock = NoSock

(* No connection is overwritten in pko_fileio_sock.                         *)
THEOREM NothingOverwritten == Spec => []NoOverwrite
<1>1. Init => CloseInv
  BY DEF Init, CloseInv, Agents
<1>2. TypeOK /\ CloseInv /\ [Next]_vars => CloseInv'
  <2> SUFFICES ASSUME TypeOK, CloseInv, [Next]_vars PROVE CloseInv'
    OBVIOUS
  <2> USE AgentsAssumption DEF TypeOK, Agents, CloseInv, semaVars, globalVars, bufferVars, streamVars, sockVars, netVars, callVars, argVars
  <2>1. ASSUME NEW t \in Callers, NEW op \in Ops, NEW len \in -1 .. MaxLen, Call(t, op, len) PROVE CloseInv'
    BY <2>1 DEF Call, Goto
  <2>2. ASSUME NEW a \in Callers \cup Unmounters, Acquire(a) PROVE CloseInv'
    BY <2>2 DEF Acquire, Goto
  <2>3. ASSUME NEW a \in Callers \cup Unmounters, Release(a) PROVE CloseInv'
    BY <2>3 DEF Release, Goto
  <2>4. ASSUME NEW u \in Unmounters, Unmount(u) PROVE CloseInv'
    BY <2>4 DEF Unmount, Goto
  <2>5. ASSUME NEW u \in Unmounters, Deactivate(u) PROVE CloseInv'
    BY <2>5 DEF Deactivate, Goto
  <2>6. ASSUME NEW u \in Unmounters, DeleteSema(u) PROVE CloseInv'
    BY <2>6 DEF DeleteSema, Goto
  <2>7. ASSUME NEW a \in Agents, CloseRead(a) PROVE CloseInv'
    BY <2>7 DEF CloseRead, Goto
  <2>8. ASSUME NEW a \in Agents, CloseClear(a) PROVE CloseInv'
    BY <2>8 DEF CloseClear, AfterClose, Goto
  <2>9. ASSUME NEW a \in Agents, Disconnect(a) PROVE CloseInv'
    BY <2>9 DEF Disconnect, AfterClose, Goto
  <2>10. ASSUME NEW t \in Callers, EnterReturn(t) PROVE CloseInv'
    BY <2>10 DEF EnterReturn, Goto
  <2>11. ASSUME NEW t \in Callers, EnterBuild(t) PROVE CloseInv'
    BY <2>11 DEF EnterBuild, Goto
  <2>12. ASSUME NEW t \in Callers, Capture(t) PROVE CloseInv'
    BY <2>12 DEF Capture, Captures, Goto
  <2>13. ASSUME NEW t \in Callers, SendHeader(t) PROVE CloseInv'
    BY <2>13 DEF SendHeader, Goto
  <2>14. ASSUME NEW t \in Callers, SendData(t) PROVE CloseInv'
    BY <2>14 DEF SendData, Goto
  <2>15. ASSUME NEW t \in Callers, SendFail(t) PROVE CloseInv'
    BY <2>15 DEF SendFail, Fail, Goto
  <2>16. ASSUME NEW t \in Callers, RecvHeader(t) PROVE CloseInv'
    BY <2>16 DEF RecvHeader, Fail, Goto
  <2>17. ASSUME NEW t \in Callers, RecvBody(t) PROVE CloseInv'
    BY <2>17 DEF RecvBody, Goto
  <2>18. ASSUME NEW t \in Callers, RecvData(t) PROVE CloseInv'
    BY <2>18 DEF RecvData, Goto
  <2>19. ASSUME NEW t \in Callers, RecvFail(t) PROVE CloseInv'
    BY <2>19 DEF RecvFail, Fail, Receiving, Goto
  <2>20. ASSUME NEW t \in Callers, Result(t) PROVE CloseInv'
    BY <2>20 DEF Result, Fail, Goto
  <2>21. CASE ServerStart
    BY <2>21 DEF ServerStart, Goto
  <2>22. CASE ServerFail
    BY <2>22 DEF ServerFail, Goto
  <2>23. CASE ServerLoop
    BY <2>23 DEF ServerLoop, Goto
  <2>24. CASE Accept
    BY <2>24 DEF Accept, Goto
  <2>25. CASE AcceptError
    BY <2>25 DEF AcceptError, Goto
  <2>26. CASE CheckReconnect
    BY <2>26 DEF CheckReconnect, Goto
  <2>27. CASE Install
    BY <2>27 DEF Install, Goto
  <2>28. CASE Unlisten
    BY <2>28 DEF Unlisten, Goto
  <2>29. ASSUME NEW c \in Conns, Connect(c) PROVE CloseInv'
    BY <2>29 DEF Connect
  <2>30. ASSUME NEW c \in Conns, Serve(c) PROVE CloseInv'
    BY <2>30 DEF Serve
  <2>31. ASSUME NEW c \in Conns, Discard(c) PROVE CloseInv'
    BY <2>31 DEF Discard
  <2>32. ASSUME NEW c \in Conns, Drop(c) PROVE CloseInv'
    BY <2>32 DEF Drop
  <2>33. CASE UNCHANGED vars
    BY <2>33 DEF vars
  <2> QED
    BY NextCases, <2>1, <2>2, <2>3, <2>4, <2>5, <2>6, <2>7, <2>8, <2>9, <2>10, <2>11,
       <2>12, <2>13, <2>14, <2>15, <2>16, <2>17, <2>18, <2>19, <2>20, <2>21, <2>22, <2>23,
       <2>24, <2>25, <2>26, <2>27, <2>28, <2>29, <2>30, <2>31, <2>32, <2>33, Zenon
<1>3. CloseInv => NoOverwrite
  BY DEF CloseInv, NoOverwrite
<1> QED
  BY <1>1, <1>2, <1>3, TypeCorrect, PTL DEF Spec

-----------------------------------------------------------------------------
(* As long as no number was handed out again under a thread that holds it,  *)
(* a handle that is held names the connection it was made for.  One that    *)
(* has reached pko_fileio_sock is never the server's next one, so a thread  *)
(* late with its disconnect never hits the current connection.              *)
Spent(h) == peer[h] # "new" /\ h \notin backlog /\ h # client

FreshInv ==
    /\ \A h \in Conns : Held(h) => fd[h] \in {h, NoSock}
    /\ \A c \in backlog : peer[c] # "new"
    /\ client # NoSock =>
          fd[client] = client /\ client \notin backlog /\ peer[client] # "new"
    /\ pko_fileio_sock # NoSock =>
          Spent(pko_fileio_sock) /\ fd[pko_fileio_sock] = pko_fileio_sock
    /\ \A a \in Agents : dsock[a] # NoSock =>
          /\ Spent(dsock[a])
          /\ pc[a] = "disconnect" => dsock[a] # pko_fileio_sock

(* A number that was handed out too early stays so.                         *)
LEMMA ReusedStays ==
    ASSUME TypeOK, [Next]_vars, ~reused' PROVE ~reused
<1> USE DEF vars, netVars, sockVars
<1>1. CASE Accept
  BY <1>1, Zenon DEF Accept
<1>2. CASE UNCHANGED reused
  BY <1>2, Zenon
<1>3. ASSUME NEW t \in Callers, NEW op \in Ops, NEW len \in -1 .. MaxLen,
             Call(t, op, len)
      PROVE  UNCHANGED reused
  BY <1>3 DEF Call
<1>4. ASSUME NEW a \in Callers \cup Unmounters, Acquire(a) \/ Release(a)
      PROVE  UNCHANGED reused
  BY <1>4 DEF Acquire, Release
<1>5. ASSUME NEW u \in Unmounters, Unmount(u) \/ Deactivate(u) \/ DeleteSema(u)
      PROVE  UNCHANGED reused
  BY <1>5 DEF Unmount, Deactivate, DeleteSema
<1>6. ASSUME NEW a \in Agents, CloseRead(a) \/ CloseClear(a) \/ Disconnect(a)
      PROVE  UNCHANGED reused
  BY <1>6 DEF CloseRead, CloseClear, Disconnect
<1>7. ASSUME NEW t \in Callers,
             \/ EnterReturn(t) \/ EnterBuild(t) \/ Capture(t)
             \/ SendHeader(t) \/ SendData(t) \/ SendFail(t)
      PROVE  UNCHANGED reused
  BY <1>7 DEF EnterReturn, EnterBuild, Capture, SendHeader, SendData, SendFail
<1>8. ASSUME NEW t \in Callers,
             \/ RecvHeader(t) \/ RecvBody(t) \/ RecvData(t)
             \/ RecvFail(t) \/ Result(t)
      PROVE  UNCHANGED reused
  BY <1>8 DEF RecvHeader, RecvBody, RecvData, RecvFail, Result
<1>9. CASE \/ ServerStart \/ ServerFail \/ ServerLoop \/ AcceptError
           \/ CheckReconnect \/ Install \/ Unlisten \/ UNCHANGED vars
  BY <1>9 DEF ServerStart, ServerFail, ServerLoop, AcceptError,
     CheckReconnect, Install, Unlisten
<1>10. ASSUME NEW c \in Conns, Connect(c) \/ Serve(c) \/ Discard(c) \/ Drop(c)
       PROVE  UNCHANGED reused
  BY <1>10 DEF Connect, Serve, Discard, Drop
<1> QED
  BY NextCases, <1>1, <1>2, <1>3, <1>4, <1>5, <1>6, <1>7, <1>8, <1>9, <1>10, Zenon

(* Handles that are held name what they were made for.                      *)
LEMMA FreshAlways == Spec => [](~reused => FreshInv)
<1>1. Init => FreshInv
  BY HandleAssumption DEF Init, FreshInv
<1>2. TypeOK /\ (~reused => FreshInv) /\ [Next]_vars => (~reused => FreshInv)'
  <2> SUFFICES ASSUME TypeOK, FreshInv, [Next]_vars, ~reused' PROVE FreshInv'
    BY ReusedStays
  <2> USE HandleAssumption DEF TypeOK, Socks, FreshInv, Held, Spent, semaVars, globalVars, bufferVars, streamVars, sockVars, netVars, callVars, argVars
  <2>1. ASSUME NEW t \in Callers, NEW op \in Ops, NEW len \in -1 .. MaxLen, Call(t, op, len) PROVE FreshInv'
    BY <2>1 DEF Call, Goto
  <2>2. ASSUME NEW a \in Callers \cup Unmounters, Acquire(a) PROVE FreshInv'
    BY <2>2 DEF Acquire, Goto
  <2>3. ASSUME NEW a \in Callers \cup Unmounters, Release(a) PROVE FreshInv'
    BY <2>3 DEF Release, Goto
  <2>4. ASSUME NEW u \in Unmounters, Unmount(u) PROVE FreshInv'
    BY <2>4 DEF Unmount, Goto
  <2>5. ASSUME NEW u \in Unmounters, Deactivate(u) PROVE FreshInv'
    BY <2>5 DEF Deactivate, Goto
  <2>6. ASSUME NEW u \in Unmounters, DeleteSema(u) PROVE FreshInv'
    BY <2>6 DEF DeleteSema, Goto
  <2>7. ASSUME NEW a \in Agents, CloseRead(a) PROVE FreshInv'
    BY <2>7 DEF CloseRead, Goto
  <2>8. ASSUME NEW a \in Agents, CloseClear(a) PROVE FreshInv'
    BY <2>8 DEF CloseClear, AfterClose, Goto
  <2>9. ASSUME NEW a \in Agents, Disconnect(a) PROVE FreshInv'
    <3> DEFINE h == dsock[a]
    <3>1. pc[a] = "disconnect" /\ pko_fileio_sock' = pko_fileio_sock
      BY <2>9 DEF Disconnect
    <3>2. UNCHANGED <<backlog, client>>
      BY <2>9 DEF Disconnect
    <3>3. \A b \in Agents : dsock'[b] # NoSock => dsock'[b] = dsock[b] /\ b # a
      BY <2>9 DEF Disconnect
    <3>4. \A b \in Agents : b # a => pc'[b] = pc[b]
      BY <2>9 DEF Disconnect, Goto
    <3>5. \A c \in Conns : peer[c] # "new" => peer'[c] # "new"
      BY <2>9 DEF Disconnect
    <3>6. ConnOf(h) \in {h, NoSock} /\ (h # NoSock => Held(h))
      BY DEF ConnOf
    <3>7. \A c \in Conns : fd'[c] \in {fd[c], NoSock}
      BY <2>9 DEF Disconnect
    <3>8. \A c \in Conns : fd[c] # NoSock /\ fd[c] # h => fd'[c] = fd[c]
      BY <2>9, <3>6 DEF Disconnect
    <3>9. client # NoSock => client # h
      OBVIOUS
    <3>10. pko_fileio_sock # NoSock => pko_fileio_sock # h
      BY <3>1
    <3>11. \A c \in Conns : Held(c)' => Held(c)
      BY <2>9, <3>1, <3>3 DEF Disconnect, Goto, AfterClose
    <3> HIDE DEF h, Held
    <3>12. \A c \in Conns : Held(c)' => fd'[c] \in {c, NoSock}
      BY <3>7, <3>11
    <3> QED
      BY <3>1, <3>2, <3>3, <3>4, <3>5, <3>8, <3>9, <3>10, <3>12
  <2>10. ASSUME NEW t \in Callers, EnterReturn(t) PROVE FreshInv'
    BY <2>10 DEF EnterReturn, Goto
  <2>11. ASSUME NEW t \in Callers, EnterBuild(t) PROVE FreshInv'
    BY <2>11 DEF EnterBuild, Goto
  <2>12. ASSUME NEW t \in Callers, Capture(t) PROVE FreshInv'
    BY <2>12 DEF Capture, Captures, Goto
  <2>13. ASSUME NEW t \in Callers, SendHeader(t) PROVE FreshInv'
    BY <2>13 DEF SendHeader, Goto
  <2>14. ASSUME NEW t \in Callers, SendData(t) PROVE FreshInv'
    BY <2>14 DEF SendData, Goto
  <2>15. ASSUME NEW t \in Callers, SendFail(t) PROVE FreshInv'
    BY <2>15 DEF SendFail, Fail, Goto
  <2>16. ASSUME NEW t \in Callers, RecvHeader(t) PROVE FreshInv'
    <3>1. /\ pc[t] = "header"
          /\ UNCHANGED <<globalVars, sockVars, peer, backlog, csock, dsock, client>>
      BY <2>16 DEF RecvHeader
    <3>2. PICK l \in {"body", "close_read"} : pc' = [pc EXCEPT ![t] = l]
      BY <2>16, Zenon DEF RecvHeader, Fail, Goto
    <3>3. \A h \in Conns : Held(h)' => Held(h)
      BY <3>1, <3>2
    <3>4. \A a \in Agents : pc'[a] = "disconnect" => pc[a] = "disconnect"
      BY <3>2
    <3> HIDE DEF Held
    <3> QED
      BY <3>1, <3>3, <3>4
  <2>17. ASSUME NEW t \in Callers, RecvBody(t) PROVE FreshInv'
    BY <2>17 DEF RecvBody, Goto
  <2>18. ASSUME NEW t \in Callers, RecvData(t) PROVE FreshInv'
    BY <2>18 DEF RecvData, Goto
  <2>19. ASSUME NEW t \in Callers, RecvFail(t) PROVE FreshInv'
    BY <2>19 DEF RecvFail, Fail, Receiving, Goto
  <2>20. ASSUME NEW t \in Callers, Result(t) PROVE FreshInv'
    <3>1. /\ pc[t] = "result"
          /\ UNCHANGED <<globalVars, sockVars, peer, backlog, csock, dsock, client>>
      BY <2>20 DEF Result
    <3>2. PICK l \in {"cap_rdata", "release", "close_read"} :
             pc' = [pc EXCEPT ![t] = l]
      BY <2>20, Zenon DEF Result, Fail, Goto
    <3>3. \A h \in Conns : Held(h)' => Held(h)
      BY <3>1, <3>2
    <3>4. \A a \in Agents : pc'[a] = "disconnect" => pc[a] = "disconnect"
      BY <3>2
    <3> HIDE DEF Held
    <3> QED
      BY <3>1, <3>3, <3>4
  <2>21. CASE ServerStart
    BY <2>21 DEF ServerStart, Goto
  <2>22. CASE ServerFail
    BY <2>22 DEF ServerFail, Goto
  <2>23. CASE ServerLoop
    BY <2>23 DEF ServerLoop, Goto
  <2>24. CASE Accept
    <3>1. PICK c \in backlog, n \in Nums :
            /\ fd' = [h \in Conns |->
                        IF h \in Numbered(n) \cup {c} THEN c ELSE fd[h]]
            /\ reused' = (reused \/ \E h \in Numbered(n) : Held(h))
            /\ backlog' = backlog \ {c}
            /\ client' = c
      <4> HIDE DEF TypeOK, Socks, FreshInv, Held, Spent
      <4> QED
        BY <2>24, Zenon DEF Accept
    <3>2. /\ pc[Server] = "accept" /\ pc' = [pc EXCEPT ![Server] = "check"]
          /\ UNCHANGED <<pko_fileio_sock, csock, dsock, peer>>
      BY <2>24 DEF Accept, Goto
    <3>3. \A h \in Conns : Held(h)' => Held(h)
      <4>1. \A t \in Callers : pc'[t] = pc[t]
        BY <3>2, AgentsAssumption DEF Agents
      <4> HIDE DEF TypeOK, FreshInv
      <4> QED
        BY <3>2, <4>1
    <3>4. \A h \in Conns : Held(h) => h \notin Numbered(n)
      BY <3>1
    <3> HIDE DEF Held
    <3>5. \A h \in Conns : Held(h)' => fd'[h] \in {h, NoSock}
      BY <3>1, <3>3, <3>4
    <3>6. pko_fileio_sock # NoSock => Held(pko_fileio_sock)
      BY DEF Held
    <3>7. c \in Conns /\ fd'[c] = c /\ peer[c] # "new" /\ c # NoSock
      BY <3>1
    <3> QED
      BY <3>1, <3>2, <3>4, <3>5, <3>6, <3>7
  <2>25. CASE AcceptError
    BY <2>25 DEF AcceptError, Goto
  <2>26. CASE CheckReconnect
    BY <2>26 DEF CheckReconnect, Goto
  <2>27. CASE Install
    BY <2>27 DEF Install, Goto
  <2>28. CASE Unlisten
    BY <2>28 DEF Unlisten, Goto
  <2>29. ASSUME NEW c \in Conns, Connect(c) PROVE FreshInv'
    BY <2>29 DEF Connect
  <2>30. ASSUME NEW c \in Conns, Serve(c) PROVE FreshInv'
    BY <2>30 DEF Serve
  <2>31. ASSUME NEW c \in Conns, Discard(c) PROVE FreshInv'
    BY <2>31 DEF Discard
  <2>32. ASSUME NEW c \in Conns, Drop(c) PROVE FreshInv'
    BY <2>32 DEF Drop
  <2>33. CASE UNCHANGED vars
    BY <2>33 DEF vars
  <2> QED
    BY NextCases, <2>1, <2>2, <2>3, <2>4, <2>5, <2>6, <2>7, <2>8, <2>9, <2>10, <2>11,
       <2>12, <2>13, <2>14, <2>15, <2>16, <2>17, <2>18, <2>19, <2>20, <2>21, <2>22, <2>23,
       <2>24, <2>25, <2>26, <2>27, <2>28, <2>29, <2>30, <2>31, <2>32, <2>33, Zenon
<1> QED
  BY <1>1, <1>2, TypeCorrect, PTL DEF Spec

(* Every close path invalidates the handle before the socket is gone.       *)
THEOREM HandleValid == Spec => []HandleNeverStale
<1>1. (~reused => FreshInv) => HandleNeverStale
  BY DEF FreshInv, HandleNeverStale
<1> QED
  BY <1>1, FreshAlways, PTL
=============================================================================
