------------------------ MODULE WebSocketClientProofs ------------------------
(***************************************************************************)
(* Safety of the WebSocket client for any number of callers, connections   *)
(* and frames, when Connect is called only once the last connection is     *)
(* over (Settled).                                                         *)
(***************************************************************************)
EXTENDS WebSocketClient, Integers, TLAPS

StopLabels == {"shutdown", "markClosed", "closeSocket"}
CloseLabels == {"close", "markClosing", "sendClose"}

CallerPlaces == CallerLabels \cup SubroutineLabels
LoopPlaces == LoopLabels \cup StopLabels \cup CloseLabels

\* Which labels which threads can be at, and where their subroutines return.
Places ==
    /\ \A c \in Callers :
          /\ pc[c] \in CallerPlaces
          /\ ret[c] = "idle"
    /\ \A l \in Loops :
          /\ pc[l] \in LoopPlaces
          /\ pc[l] \in StopLabels => ret[l] \in {"onLost", "done"}
          /\ pc[l] \in CloseLabels => ret[l] = "closeSent"

Connecting(c) == pc[c] \in {"request", "response"}

\* A thread in Connect is alone: the other callers have not got past the first
\* test of what they call, no receive thread is there.
Alone ==
    \A c \in Callers : Connecting(c) =>
        /\ status = "Closed"
        /\ IsOpen(wsSocket)
        /\ pc[c] = "response" => sock[c] = wsSocket
        /\ \A d \in Callers : d # c => pc[d] \in {"idle", "shutdown", "close", "send"}
        /\ \A l \in Loops : ~Alive(l)

\* Of the receive threads one is at work at most.
OneLoop == \A l, m \in Loops : Alive(l) /\ Alive(m) => l = m

\* The one receive thread reads the object's socket, which stays open as long as
\* the status says so.
Serving ==
    /\ status = "Open" => IsOpen(wsSocket)
    /\ \A l \in Loops : Alive(l) =>
          /\ wsSocket \in Sockets
          /\ pc[l] # "start" => sock[l] = wsSocket

\* A socket is closed, and a loss told, after the status was changed.
Ended ==
    /\ \A t \in Threads : pc[t] = "closeSocket" => status # "Open"
    /\ LostMeansNotOpen

CloseSeen(s) == \E i \in 1..Len(sent[s]) : sent[s][i] = "Close"

\* Why a receive thread stops: the facts its decisions were taken on still hold.
Reason(l) ==
    /\ pc[l] = "recvFailed" /\ status = "Open" => peer[wsSocket] # "up"
    /\ lost[l] = "1006" /\ Alive(l) => pc[l] # "start" /\ peer[sock[l]] # "up"
    /\ lost[l] = "1000" /\ Alive(l) => pc[l] # "start" /\ CloseSeen(sock[l])
    /\ pc[l] \in {"closeFrame", "closeAgain", "closeSent"} \cup CloseLabels => CloseSeen(sock[l])

Reasons == \A l \in Loops : Reason(l)

\* No more is parsed than was read, no more is read than was sent.
Reading ==
    /\ \A s \in Sockets : taken[s] <= PartsPerFrame * Len(sent[s])
    /\ \A l \in Loops : Alive(l) => buf[l] <= taken[wsSocket]
    /\ \A l \in Loops : pc[l] = "unborn" => buf[l] = 0 /\ lost[l] = "no"

IInv ==
    /\ TypeOK /\ Places /\ Alone /\ OneLoop
    /\ Serving /\ Ended /\ Reasons /\ Reading


-----------------------------------------------------------------------------
(* Types *)

LEMMA LabelFacts ==
    /\ Labels = 
        {"idle", "request", "response", "unborn", "start", "while",
        "select", "selectError", "recv", "recvFailed", "parse",
        "parseError", "pong", "sendPong", "pongError", "closeFrame",
        "closeAgain", "closeSent", "opcodeError", "onText", "onBinary", "onLost", "done",
        "shutdown", "markClosed", "closeSocket", "close", "markClosing",
        "sendClose", "send", "transmit"}
    /\ \A label \in CallbackLabels : AfterCallback(label) \subseteq Labels
    /\ \A kind : Dispatch(kind) \in Labels
BY DEF CallbackLabels, LoopLabels, AfterCallback, Dispatch, Labels, CallerLabels,
       SubroutineLabels

LEMMA LabelNames ==
    /\ "idle" \in Labels
    /\ "request" \in Labels
    /\ "response" \in Labels
    /\ "unborn" \in Labels
    /\ "start" \in Labels
    /\ "while" \in Labels
    /\ "select" \in Labels
    /\ "selectError" \in Labels
    /\ "recv" \in Labels
    /\ "recvFailed" \in Labels
    /\ "parse" \in Labels
    /\ "parseError" \in Labels
    /\ "pong" \in Labels
    /\ "sendPong" \in Labels
    /\ "pongError" \in Labels
    /\ "closeFrame" \in Labels
    /\ "closeAgain" \in Labels
    /\ "closeSent" \in Labels
    /\ "opcodeError" \in Labels
    /\ "onText" \in Labels
    /\ "onBinary" \in Labels
    /\ "onLost" \in Labels
    /\ "done" \in Labels
    /\ "shutdown" \in Labels
    /\ "markClosed" \in Labels
    /\ "closeSocket" \in Labels
    /\ "close" \in Labels
    /\ "markClosing" \in Labels
    /\ "sendClose" \in Labels
    /\ "send" \in Labels
    /\ "transmit" \in Labels
BY LabelFacts

LEMMA PlaceNames ==
    /\ "idle" \in CallerPlaces
    /\ "request" \in CallerPlaces
    /\ "response" \in CallerPlaces
    /\ "shutdown" \in CallerPlaces
    /\ "markClosed" \in CallerPlaces
    /\ "closeSocket" \in CallerPlaces
    /\ "close" \in CallerPlaces
    /\ "markClosing" \in CallerPlaces
    /\ "sendClose" \in CallerPlaces
    /\ "send" \in CallerPlaces
    /\ "transmit" \in CallerPlaces
    /\ "start" \in LoopPlaces
    /\ "while" \in LoopPlaces
    /\ "select" \in LoopPlaces
    /\ "selectError" \in LoopPlaces
    /\ "recv" \in LoopPlaces
    /\ "recvFailed" \in LoopPlaces
    /\ "parse" \in LoopPlaces
    /\ "parseError" \in LoopPlaces
    /\ "pong" \in LoopPlaces
    /\ "sendPong" \in LoopPlaces
    /\ "pongError" \in LoopPlaces
    /\ "closeFrame" \in LoopPlaces
    /\ "closeAgain" \in LoopPlaces
    /\ "closeSent" \in LoopPlaces
    /\ "opcodeError" \in LoopPlaces
    /\ "onText" \in LoopPlaces
    /\ "onBinary" \in LoopPlaces
    /\ "onLost" \in LoopPlaces
    /\ "done" \in LoopPlaces
    /\ "shutdown" \in LoopPlaces
    /\ "markClosed" \in LoopPlaces
    /\ "closeSocket" \in LoopPlaces
    /\ "close" \in LoopPlaces
    /\ "markClosing" \in LoopPlaces
    /\ "sendClose" \in LoopPlaces
    /\ "send" \notin LoopPlaces /\ "transmit" \notin LoopPlaces
    /\ "idle" \notin LoopPlaces
    /\ \A label \in CallbackLabels :
          AfterCallback(label) \subseteq LoopPlaces \ (StopLabels \cup CloseLabels)
    /\ \A kind : Dispatch(kind) \in LoopPlaces \ (StopLabels \cup CloseLabels)
BY DEF CallerPlaces, LoopPlaces, CallbackLabels, LoopLabels, AfterCallback, Dispatch,
       CallerLabels, SubroutineLabels, StopLabels, CloseLabels

LEMMA TypeInit == Init => TypeOK
BY DEF Init, TypeOK, Labels, LoopLabels, CallerLabels, Threads

LEMMA CallType ==
    ASSUME TypeOK, NEW t \in Threads, NEW a \in Labels, NEW b \in Labels,
           Call(t, a, b)
    PROVE  pc' \in [Threads -> Labels] /\ ret' \in [Threads -> Labels]
BY DEF TypeOK, Call, GoTo

LEMMA TypeNext == TypeOK /\ [Next]_vars => TypeOK'
<1> SUFFICES ASSUME TypeOK, [Next]_vars PROVE TypeOK'
    OBVIOUS
<1> USE DEF TypeOK, shared, stream, threadVars, GoTo, Call, Threads
<1>1. ASSUME NEW c \in Callers, ConnectAssign(c) PROVE TypeOK'
    BY <1>1, LabelNames DEF ConnectAssign
<1>2. ASSUME NEW c \in Callers, ConnectRefused(c) PROVE TypeOK'
    BY <1>2 DEF ConnectRefused
<1>3. ASSUME NEW c \in Callers, NEW r \in Routines, Invoke(c, r) PROVE TypeOK'
    BY <1>3, RoutinesAssumption, LabelNames DEF Invoke
<1>4. ASSUME NEW c \in Callers, CallerStep(c) PROVE TypeOK'
  <2>1. CASE HandshakeSend(c)
        BY <2>1, LabelNames DEF HandshakeSend, CanSend, IsOpen
  <2>2. CASE HandshakeFails(c)
        BY <2>2, LabelNames DEF HandshakeFails
  <2>3. CASE HandshakeRecv(c)
    <3>1. taken' \in [Sockets -> Nat]
      <4>1. CASE UNCHANGED taken
            BY <4>1
      <4>2. CASE /\ sock[c] \in Sockets
                 /\ \E n \in 0..Len(sent[sock[c]]) :
                       taken' = [taken EXCEPT ![sock[c]] = PartsPerFrame * n]
        <5>1. Len(sent[sock[c]]) \in Nat
              BY <4>2
        <5> QED
              BY <4>2, <5>1 DEF PartsPerFrame
      <4>3. sock[c] \in Sockets \cup {NoSocket}
            OBVIOUS
      <4> QED
            BY <2>3, <4>1, <4>2, <4>3 DEF HandshakeRecv, IsOpen
    <3>2. pc' \in [Threads -> Labels]
      <4>1. \E l \in Loops : pc' = [pc EXCEPT ![c] = "idle", ![l] = "start"]
            BY <2>3 DEF HandshakeRecv
      <4> QED
            BY <4>1, LabelNames
    <3> QED
          BY <2>3, <3>1, <3>2 DEF HandshakeRecv
  <2> QED
        BY <1>4, <2>1, <2>2, <2>3 DEF CallerStep
<1>5. ASSUME NEW t \in Threads, Subroutine(t) PROVE TypeOK'
  <2>1. CASE ShutdownCheck(t)
        BY <2>1, LabelNames DEF ShutdownCheck
  <2>2. CASE MarkClosed(t)
        BY <2>2, LabelNames DEF MarkClosed
  <2>3. CASE CloseSocket(t)
        BY <2>3, LabelNames DEF CloseSocket
  <2>4. CASE CloseCheck(t)
        BY <2>4, LabelNames DEF CloseCheck
  <2>5. CASE MarkClosing(t)
        BY <2>5, LabelNames DEF MarkClosing
  <2>6. CASE SendClose(t)
        BY <2>6, LabelNames DEF SendClose
  <2>7. CASE SendCloseFails(t)
    <3>1. CASE t \in Callers
      <4>1. pc' = [pc EXCEPT ![t] = "idle"] /\ running' = running
            BY <2>7, <3>1 DEF SendCloseFails
      <4>2. pc' \in [Threads -> Labels]
            BY <4>1, LabelNames
      <4> QED
            BY <2>7, <4>1, <4>2 DEF SendCloseFails
    <3>2. CASE t \notin Callers
      <4>1. pc' = pc /\ running' = FALSE
            BY <2>7, <3>2 DEF SendCloseFails
      <4> QED
            BY <2>7, <4>1 DEF SendCloseFails
    <3> QED
          BY <3>1, <3>2
  <2>8. CASE SendCheck(t)
        BY <2>8, LabelNames DEF SendCheck
  <2>9. CASE SendData(t)
        BY <2>9, LabelNames DEF SendData
  <2>10. CASE SendDataFails(t)
    <3>1. pc' \in [Threads -> Labels]
          BY <2>10, LabelNames DEF SendDataFails
    <3> QED
          BY <2>10, <3>1 DEF SendDataFails
  <2> QED
        BY <1>5, <2>1, <2>2, <2>3, <2>4, <2>5, <2>6, <2>7, <2>8, <2>9, <2>10 DEF Subroutine
<1>6. ASSUME NEW l \in Loops, LoopStep(l) PROVE TypeOK'
  <2>1. CASE LoopStart(l)
        BY <2>1, LabelNames DEF LoopStart
  <2>2. CASE LoopWhile(l)
        BY <2>2, LabelNames DEF LoopWhile
  <2>3. CASE Select(l)
    <3>1. \E label \in Labels : GoTo(l, label)
          BY <2>3, LabelNames DEF Select
    <3> QED
          BY <2>3, <3>1 DEF Select
  <2>4. CASE RecvData(l)
        BY <2>4, LabelNames DEF RecvData, Available, IsOpen, PartsPerFrame
  <2>5. CASE RecvEnd(l)
        BY <2>5, LabelNames DEF RecvEnd
  <2>6. CASE RecvFailed(l)
    <3>1. CASE status = "Open"
      <4>1. Call(l, "shutdown", "onLost")
            BY <2>6, <3>1 DEF RecvFailed
      <4>2. pc' \in [Threads -> Labels] /\ ret' \in [Threads -> Labels]
            BY <4>1, CallType, LabelNames
      <4> QED
            BY <2>6, <3>1, <4>2 DEF RecvFailed
    <3>2. CASE status # "Open"
      <4>1. pc' = [pc EXCEPT ![l] = "done"] /\ UNCHANGED <<ret, lost>>
            BY <2>6, <3>2 DEF RecvFailed
      <4>2. pc' \in [Threads -> Labels]
            BY <4>1, LabelNames
      <4> QED
            BY <2>6, <4>1, <4>2 DEF RecvFailed
    <3> QED
          BY <3>1, <3>2
  <2>7. CASE ParseIncomplete(l)
        BY <2>7, LabelNames DEF ParseIncomplete
  <2>8. CASE ParseFrame(l)
        BY <2>8, LabelFacts DEF ParseFrame, PartsPerFrame
  <2>9. CASE PongCheck(l)
        BY <2>9, LabelNames DEF PongCheck
  <2>10. CASE SendPong(l)
        BY <2>10, LabelNames DEF SendPong
  <2>11. CASE SendPongFails(l)
        BY <2>11, LabelNames DEF SendPongFails
  <2>12. CASE CloseFrame(l) \/ CloseFrameAgain(l)
    <3>1. CASE Call(l, "shutdown", "done")
      <4>1. pc' \in [Threads -> Labels] /\ ret' \in [Threads -> Labels]
            BY <3>1, CallType, LabelNames
      <4> QED
            BY <2>12, <4>1 DEF CloseFrame, CloseFrameAgain
    <3>2. CASE Call(l, "close", "closeSent")
      <4>1. pc' \in [Threads -> Labels] /\ ret' \in [Threads -> Labels]
            BY <3>2, CallType, LabelNames
      <4> QED
            BY <2>12, <4>1 DEF CloseFrame, CloseFrameAgain
    <3>3. CASE GoTo(l, "closeAgain") /\ UNCHANGED ret
      <4>1. pc' \in [Threads -> Labels]
            BY <3>3, LabelNames
      <4> QED
            BY <2>12, <3>3, <4>1 DEF CloseFrame, CloseFrameAgain
    <3>4. CASE GoTo(l, "done") /\ UNCHANGED ret
      <4>1. pc' \in [Threads -> Labels]
            BY <3>4, LabelNames
      <4> QED
            BY <2>12, <3>4, <4>1 DEF CloseFrame, CloseFrameAgain
    <3> QED
          BY <2>12, <3>1, <3>2, <3>3, <3>4 DEF CloseFrame, CloseFrameAgain
  <2>13. CASE CloseSent(l)
        BY <2>13, LabelNames DEF CloseSent
  <2> QED
        BY <1>6, <2>1, <2>2, <2>3, <2>4, <2>5, <2>6, <2>7, <2>8, <2>9, <2>10, <2>11, <2>12, <2>13 DEF LoopStep
<1>7. ASSUME NEW l \in Loops, CallbackReturn(l) PROVE TypeOK'
    BY <1>7, LabelFacts DEF CallbackReturn
<1>8. ASSUME NEW s \in Sockets, Peer(s) PROVE TypeOK'
  <2>1. CASE PeerAnswer(s)
        BY <2>1 DEF PeerAnswer
  <2>2. CASE PeerSend(s)
        BY <2>2 DEF PeerSend
  <2>3. CASE PeerEnds(s)
        BY <2>3 DEF PeerEnds
  <2> QED
        BY <1>8, <2>1, <2>2, <2>3 DEF Peer
<1>9. CASE Terminated \/ UNCHANGED vars
    BY <1>9 DEF Terminated, vars
<1> QED
    BY <1>1, <1>2, <1>3, <1>4, <1>5, <1>6, <1>7, <1>8, <1>9 DEF Next, UserStep

\* The client's variables keep their types, whatever its callers and the peer do:
\* no label, buffer position or callback code outside the ones RecvLoop has.
THEOREM TypeCorrect == Spec => []TypeOK
<1>1. Init => TypeOK
      BY TypeInit
<1>2. TypeOK /\ [Next]_vars => TypeOK'
      BY TypeNext
<1> QED
      BY <1>1, <1>2, PTL DEF Spec

-----------------------------------------------------------------------------
(* The inductive invariant, one conjunct at a time *)

LEMMA GoToPlaces ==
    ASSUME TypeOK, Places, NEW l \in Loops,
           GoTo(l, "done") \/ GoTo(l, "closeAgain"), ret' = ret
    PROVE  Places'
<1> USE ThreadsAssumption, PlaceNames
    DEF TypeOK, Places, GoTo, Threads, StopLabels, CloseLabels
<1>1. CASE GoTo(l, "done")
    BY <1>1
<1>2. CASE GoTo(l, "closeAgain")
    BY <1>2
<1> QED
    BY <1>1, <1>2

LEMMA CallPlaces ==
    ASSUME TypeOK, Places, NEW l \in Loops,
           \/ Call(l, "shutdown", "onLost")
           \/ Call(l, "shutdown", "done")
           \/ Call(l, "close", "closeSent")
    PROVE  Places'
<1> USE ThreadsAssumption, PlaceNames
    DEF TypeOK, Places, GoTo, Call, Threads, StopLabels, CloseLabels
<1>1. CASE Call(l, "shutdown", "onLost")
      BY <1>1
<1>2. CASE Call(l, "shutdown", "done")
      BY <1>2
<1>3. CASE Call(l, "close", "closeSent")
      BY <1>3
<1> QED
      BY <1>1, <1>2, <1>3

LEMMA PlacesNext ==
    ASSUME TypeOK, Places, [Next]_vars
    PROVE  Places'
<1> USE DEF TypeOK, Places, shared, stream, threadVars, At, GoTo, Call, Threads,
           StopLabels, CloseLabels
<1>1. ASSUME NEW c \in Callers, ConnectAssign(c) PROVE Places'
    BY <1>1, ThreadsAssumption, PlaceNames DEF ConnectAssign
<1>2. ASSUME NEW c \in Callers, ConnectRefused(c) PROVE Places'
    BY <1>2, ThreadsAssumption, PlaceNames DEF ConnectRefused
<1>3. ASSUME NEW c \in Callers, HandshakeSend(c) PROVE Places'
    BY <1>3, ThreadsAssumption, PlaceNames DEF HandshakeSend
<1>4. ASSUME NEW c \in Callers, HandshakeFails(c) PROVE Places'
    BY <1>4, ThreadsAssumption, PlaceNames DEF HandshakeFails
<1>5. ASSUME NEW c \in Callers, HandshakeRecv(c) PROVE Places'
  <2>1. PICK l \in Loops : pc[l] = "unborn" /\ pc' = [pc EXCEPT ![c] = "idle", ![l] = "start"]
        BY <1>5 DEF HandshakeRecv
  <2>2. ret' = ret
        BY <1>5 DEF HandshakeRecv
  <2> QED
    <3>1. \A d \in Callers : pc'[d] \in CallerPlaces /\ ret'[d] = "idle"
          BY <2>1, <2>2, ThreadsAssumption, PlaceNames
    <3>2. \A k \in Loops : pc'[k] = pc[k] \/ pc'[k] = "start"
          BY <2>1, ThreadsAssumption
    <3> QED
          BY <2>2, <3>1, <3>2, PlaceNames
<1>6. ASSUME NEW t \in Threads, ShutdownCheck(t) PROVE Places'
    BY <1>6, ThreadsAssumption, PlaceNames DEF ShutdownCheck
<1>7. ASSUME NEW t \in Threads, MarkClosed(t) PROVE Places'
    BY <1>7, ThreadsAssumption, PlaceNames DEF MarkClosed
<1>8. ASSUME NEW t \in Threads, CloseSocket(t) PROVE Places'
    BY <1>8, ThreadsAssumption, PlaceNames DEF CloseSocket
<1>9. ASSUME NEW t \in Threads, CloseCheck(t) PROVE Places'
    BY <1>9, ThreadsAssumption, PlaceNames DEF CloseCheck
<1>10. ASSUME NEW t \in Threads, MarkClosing(t) PROVE Places'
    BY <1>10, ThreadsAssumption, PlaceNames DEF MarkClosing
<1>11. ASSUME NEW t \in Threads, SendClose(t) PROVE Places'
    BY <1>11, ThreadsAssumption, PlaceNames DEF SendClose
<1>12. ASSUME NEW t \in Threads, SendCloseFails(t) PROVE Places'
  <2>1. CASE t \in Callers
    <3>1. pc' = [pc EXCEPT ![t] = "idle"] /\ ret' = ret
          BY <1>12, <2>1 DEF SendCloseFails
    <3> QED
          BY <2>1, <3>1, ThreadsAssumption, PlaceNames
  <2>2. CASE t \notin Callers
        BY <1>12, <2>2 DEF SendCloseFails
  <2> QED
        BY <2>1, <2>2
<1>13. ASSUME NEW t \in Threads, SendCheck(t) PROVE Places'
    BY <1>13, ThreadsAssumption, PlaceNames DEF SendCheck
<1>14. ASSUME NEW t \in Threads, SendData(t) PROVE Places'
    BY <1>14, ThreadsAssumption, PlaceNames DEF SendData
<1>15. ASSUME NEW t \in Threads, SendDataFails(t) PROVE Places'
    BY <1>15, ThreadsAssumption, PlaceNames DEF SendDataFails
<1>16. ASSUME NEW l \in Loops, LoopStart(l) PROVE Places'
    BY <1>16, ThreadsAssumption, PlaceNames DEF LoopStart
<1>17. ASSUME NEW l \in Loops, LoopWhile(l) PROVE Places'
    BY <1>17, ThreadsAssumption, PlaceNames DEF LoopWhile
<1>18. ASSUME NEW l \in Loops, Select(l) PROVE Places'
  <2>1. ret' = ret /\ \E label \in {"recv", "parse", "selectError"} : GoTo(l, label)
        BY <1>18 DEF Select
  <2> QED
        BY <2>1, ThreadsAssumption, PlaceNames
<1>19. ASSUME NEW l \in Loops, RecvData(l) PROVE Places'
    BY <1>19, ThreadsAssumption, PlaceNames DEF RecvData
<1>20. ASSUME NEW l \in Loops, RecvEnd(l) PROVE Places'
    BY <1>20, ThreadsAssumption, PlaceNames DEF RecvEnd
<1>21. ASSUME NEW l \in Loops, RecvFailed(l) PROVE Places'
  <2>1. CASE status = "Open"
    <3>1. Call(l, "shutdown", "onLost")
          BY <1>21, <2>1 DEF RecvFailed
    <3> QED
          BY <3>1, CallPlaces
  <2>2. CASE status # "Open"
    <3>1. GoTo(l, "done") /\ ret' = ret
          BY <1>21, <2>2 DEF RecvFailed
    <3> QED
          BY <3>1, GoToPlaces, PlaceNames
  <2> QED
        BY <2>1, <2>2
<1>22. ASSUME NEW l \in Loops, ParseIncomplete(l) PROVE Places'
    BY <1>22, ThreadsAssumption, PlaceNames DEF ParseIncomplete
<1>23. ASSUME NEW l \in Loops, ParseFrame(l) PROVE Places'
    BY <1>23, ThreadsAssumption, PlaceNames DEF ParseFrame
<1>24. ASSUME NEW l \in Loops, PongCheck(l) PROVE Places'
    BY <1>24, ThreadsAssumption, PlaceNames DEF PongCheck
<1>25. ASSUME NEW l \in Loops, SendPong(l) PROVE Places'
    BY <1>25, ThreadsAssumption, PlaceNames DEF SendPong
<1>26. ASSUME NEW l \in Loops, SendPongFails(l) PROVE Places'
    BY <1>26, ThreadsAssumption, PlaceNames DEF SendPongFails
<1>27. ASSUME NEW l \in Loops, CloseFrame(l) \/ CloseFrameAgain(l) PROVE Places'
  <2>1. \/ Call(l, "shutdown", "done")
        \/ Call(l, "close", "closeSent")
        \/ GoTo(l, "closeAgain") /\ UNCHANGED ret
        \/ GoTo(l, "done") /\ UNCHANGED ret
        BY <1>27 DEF CloseFrame, CloseFrameAgain
  <2> QED
        BY <2>1, CallPlaces, GoToPlaces, PlaceNames
<1>28. ASSUME NEW l \in Loops, CloseSent(l) PROVE Places'
    BY <1>28, ThreadsAssumption, PlaceNames DEF CloseSent
<1>29. ASSUME NEW l \in Loops, CallbackReturn(l) PROVE Places'
    BY <1>29, ThreadsAssumption, PlaceNames DEF CallbackReturn
<1>30. ASSUME NEW s \in Sockets, PeerAnswer(s) PROVE Places'
    BY <1>30, ThreadsAssumption, PlaceNames DEF PeerAnswer
<1>31. ASSUME NEW s \in Sockets, PeerSend(s) PROVE Places'
    BY <1>31, ThreadsAssumption, PlaceNames DEF PeerSend
<1>32. ASSUME NEW s \in Sockets, PeerEnds(s) PROVE Places'
    BY <1>32, ThreadsAssumption, PlaceNames DEF PeerEnds
<1>33. ASSUME NEW c \in Callers, NEW r \in Routines, Invoke(c, r) PROVE Places'
    BY <1>33, RoutinesAssumption, ThreadsAssumption, PlaceNames DEF Invoke
<1>34. CASE Terminated \/ UNCHANGED vars
    BY <1>34 DEF Terminated, vars
<1> QED
    BY <1>1, <1>2, <1>3, <1>4, <1>5, <1>6, <1>7, <1>8, <1>9, <1>10, <1>11,
       <1>12, <1>13, <1>14, <1>15, <1>16, <1>17, <1>18, <1>19, <1>20, <1>21,
       <1>22, <1>23, <1>24, <1>25, <1>26, <1>27, <1>28, <1>29, <1>30, <1>31,
       <1>32, <1>33, <1>34
       DEF Next, UserStep, CallerStep, Subroutine, LoopStep, Peer, Threads

LEMMA OneLoopNext ==
    ASSUME TypeOK, Alone, OneLoop, [Next]_vars
    PROVE  OneLoop'
<1> USE DEF OneLoop, Alive, shared, stream, threadVars, At, GoTo, Call,
            Threads
<1>0. status \in {"Open", "Closing", "Closed"} /\ pc \in [Threads -> Labels] /\ ret \in [Threads -> Labels]
    BY DEF TypeOK
<1>1. ASSUME NEW c \in Callers, ConnectAssign(c) PROVE OneLoop'
    BY <1>1, <1>0, ThreadsAssumption DEF ConnectAssign
<1>2. ASSUME NEW c \in Callers, ConnectRefused(c) PROVE OneLoop'
    BY <1>2, <1>0, ThreadsAssumption DEF ConnectRefused
<1>3. ASSUME NEW c \in Callers, HandshakeSend(c) PROVE OneLoop'
    BY <1>3, <1>0, ThreadsAssumption DEF HandshakeSend
<1>4. ASSUME NEW c \in Callers, HandshakeFails(c) PROVE OneLoop'
    BY <1>4, <1>0, ThreadsAssumption DEF HandshakeFails
<1>5. ASSUME NEW c \in Callers, HandshakeRecv(c) PROVE OneLoop'
  <2>1. PICK l \in Loops : pc[l] = "unborn" /\ pc' = [pc EXCEPT ![c] = "idle", ![l] = "start"]
        BY <1>5, <1>0, ThreadsAssumption DEF HandshakeRecv

  <2>2. \A m \in Loops : ~Alive(m)
        BY <1>5, <1>0, ThreadsAssumption DEF HandshakeRecv, Alone, Connecting
  <2> QED
        BY <1>5, <1>0, ThreadsAssumption, <2>1, <2>2
<1>6. ASSUME NEW t \in Threads, ShutdownCheck(t) PROVE OneLoop'
    BY <1>6, <1>0, ThreadsAssumption DEF ShutdownCheck
<1>7. ASSUME NEW t \in Threads, MarkClosed(t) PROVE OneLoop'
    BY <1>7, <1>0, ThreadsAssumption DEF MarkClosed
<1>8. ASSUME NEW t \in Threads, CloseSocket(t) PROVE OneLoop'
    BY <1>8, <1>0, ThreadsAssumption DEF CloseSocket
<1>9. ASSUME NEW t \in Threads, CloseCheck(t) PROVE OneLoop'
    BY <1>9, <1>0, ThreadsAssumption DEF CloseCheck
<1>10. ASSUME NEW t \in Threads, MarkClosing(t) PROVE OneLoop'
    BY <1>10, <1>0, ThreadsAssumption DEF MarkClosing
<1>11. ASSUME NEW t \in Threads, SendClose(t) PROVE OneLoop'
    BY <1>11, <1>0, ThreadsAssumption DEF SendClose
<1>12. ASSUME NEW t \in Threads, SendCloseFails(t) PROVE OneLoop'
    BY <1>12, <1>0, ThreadsAssumption DEF SendCloseFails
<1>13. ASSUME NEW t \in Threads, SendCheck(t) PROVE OneLoop'
    BY <1>13, <1>0, ThreadsAssumption DEF SendCheck
<1>14. ASSUME NEW t \in Threads, SendData(t) PROVE OneLoop'
    BY <1>14, <1>0, ThreadsAssumption DEF SendData
<1>15. ASSUME NEW t \in Threads, SendDataFails(t) PROVE OneLoop'
    BY <1>15, <1>0, ThreadsAssumption DEF SendDataFails
<1>16. ASSUME NEW l \in Loops, LoopStart(l) PROVE OneLoop'
    BY <1>16, <1>0, ThreadsAssumption DEF LoopStart
<1>17. ASSUME NEW l \in Loops, LoopWhile(l) PROVE OneLoop'
    BY <1>17, <1>0, ThreadsAssumption DEF LoopWhile
<1>18. ASSUME NEW l \in Loops, Select(l) PROVE OneLoop'
    BY <1>18, <1>0, ThreadsAssumption DEF Select
<1>19. ASSUME NEW l \in Loops, RecvData(l) PROVE OneLoop'
    BY <1>19, <1>0, ThreadsAssumption DEF RecvData
<1>20. ASSUME NEW l \in Loops, RecvEnd(l) PROVE OneLoop'
    BY <1>20, <1>0, ThreadsAssumption DEF RecvEnd
<1>21. ASSUME NEW l \in Loops, RecvFailed(l) PROVE OneLoop'
    BY <1>21, <1>0, ThreadsAssumption DEF RecvFailed
<1>22. ASSUME NEW l \in Loops, ParseIncomplete(l) PROVE OneLoop'
    BY <1>22, <1>0, ThreadsAssumption DEF ParseIncomplete
<1>23. ASSUME NEW l \in Loops, ParseFrame(l) PROVE OneLoop'
    BY <1>23, <1>0, ThreadsAssumption DEF ParseFrame
<1>24. ASSUME NEW l \in Loops, PongCheck(l) PROVE OneLoop'
    BY <1>24, <1>0, ThreadsAssumption DEF PongCheck
<1>25. ASSUME NEW l \in Loops, SendPong(l) PROVE OneLoop'
    BY <1>25, <1>0, ThreadsAssumption DEF SendPong
<1>26. ASSUME NEW l \in Loops, SendPongFails(l) PROVE OneLoop'
    BY <1>26, <1>0, ThreadsAssumption DEF SendPongFails
<1>27. ASSUME NEW l \in Loops, CloseFrame(l) \/ CloseFrameAgain(l) PROVE OneLoop'
  <2>1. \/ pc' = [pc EXCEPT ![l] = "shutdown"]
        \/ pc' = [pc EXCEPT ![l] = "close"]
        \/ pc' = [pc EXCEPT ![l] = "closeAgain"]
        \/ pc' = [pc EXCEPT ![l] = "done"]
        BY <1>27, <1>0, ThreadsAssumption DEF CloseFrame, CloseFrameAgain
  <2> QED
        BY <1>27, <1>0, ThreadsAssumption, <2>1 DEF CloseFrame, CloseFrameAgain
<1>28. ASSUME NEW l \in Loops, CloseSent(l) PROVE OneLoop'
    BY <1>28, <1>0, ThreadsAssumption DEF CloseSent
<1>29. ASSUME NEW l \in Loops, CallbackReturn(l) PROVE OneLoop'
    BY <1>29, <1>0, ThreadsAssumption DEF CallbackReturn, CallbackLabels
<1>30. ASSUME NEW s \in Sockets, PeerAnswer(s) PROVE OneLoop'
    BY <1>30, <1>0, ThreadsAssumption DEF PeerAnswer
<1>31. ASSUME NEW s \in Sockets, PeerSend(s) PROVE OneLoop'
    BY <1>31, <1>0, ThreadsAssumption DEF PeerSend
<1>32. ASSUME NEW s \in Sockets, PeerEnds(s) PROVE OneLoop'
    BY <1>32, <1>0, ThreadsAssumption DEF PeerEnds
<1>33. ASSUME NEW c \in Callers, NEW r \in Routines, Invoke(c, r) PROVE OneLoop'
    BY <1>33, RoutinesAssumption, <1>0, ThreadsAssumption DEF Invoke
<1>34. CASE Terminated \/ UNCHANGED vars
    BY <1>34 DEF Terminated, vars
<1> QED
    BY <1>1, <1>2, <1>3, <1>4, <1>5, <1>6, <1>7, <1>8, <1>9, <1>10, <1>11,
       <1>12, <1>13, <1>14, <1>15, <1>16, <1>17, <1>18, <1>19, <1>20, <1>21,
       <1>22, <1>23, <1>24, <1>25, <1>26, <1>27, <1>28, <1>29, <1>30, <1>31,
       <1>32, <1>33, <1>34
       DEF Next, UserStep, CallerStep, Subroutine, LoopStep, Peer, Threads

LEMMA EndedNext ==
    ASSUME TypeOK, Places, Alone, Ended, [Next]_vars
    PROVE  Ended'
<1> USE DEF Ended, LostMeansNotOpen, shared, stream, threadVars, At, GoTo,
            Call, Threads
<1>0. status \in {"Open", "Closing", "Closed"} /\ pc \in [Threads -> Labels] /\ ret \in [Threads -> Labels]
    BY DEF TypeOK
<1>1. ASSUME NEW c \in Callers, ConnectAssign(c) PROVE Ended'
    BY <1>1, <1>0, ThreadsAssumption DEF ConnectAssign
<1>2. ASSUME NEW c \in Callers, ConnectRefused(c) PROVE Ended'
    BY <1>2, <1>0, ThreadsAssumption DEF ConnectRefused
<1>3. ASSUME NEW c \in Callers, HandshakeSend(c) PROVE Ended'
    BY <1>3, <1>0, ThreadsAssumption DEF HandshakeSend
<1>4. ASSUME NEW c \in Callers, HandshakeFails(c) PROVE Ended'
    BY <1>4, <1>0, ThreadsAssumption DEF HandshakeFails
<1>5. ASSUME NEW c \in Callers, HandshakeRecv(c) PROVE Ended'
  <2>1. PICK l \in Loops : pc[l] = "unborn" /\ pc' = [pc EXCEPT ![c] = "idle", ![l] = "start"]
        BY <1>5, <1>0, ThreadsAssumption DEF HandshakeRecv

  <2>2. /\ \A m \in Loops : ~Alive(m)
        /\ \A d \in Callers : d # c => pc[d] # "closeSocket"
        BY <1>5, <1>0, ThreadsAssumption DEF HandshakeRecv, Alone, Connecting
  <2> QED
        BY <1>5, <1>0, ThreadsAssumption, <2>1, <2>2 DEF Alive
<1>6. ASSUME NEW t \in Threads, ShutdownCheck(t) PROVE Ended'
    BY <1>6, <1>0, ThreadsAssumption DEF ShutdownCheck, Places, StopLabels
<1>7. ASSUME NEW t \in Threads, MarkClosed(t) PROVE Ended'
    BY <1>7, <1>0, ThreadsAssumption DEF MarkClosed
<1>8. ASSUME NEW t \in Threads, CloseSocket(t) PROVE Ended'
    BY <1>8, <1>0, ThreadsAssumption DEF CloseSocket, Places, StopLabels
<1>9. ASSUME NEW t \in Threads, CloseCheck(t) PROVE Ended'
    BY <1>9, <1>0, ThreadsAssumption DEF CloseCheck, Places, CloseLabels
<1>10. ASSUME NEW t \in Threads, MarkClosing(t) PROVE Ended'
    BY <1>10, <1>0, ThreadsAssumption DEF MarkClosing
<1>11. ASSUME NEW t \in Threads, SendClose(t) PROVE Ended'
    BY <1>11, <1>0, ThreadsAssumption DEF SendClose, Places, CloseLabels
<1>12. ASSUME NEW t \in Threads, SendCloseFails(t) PROVE Ended'
    BY <1>12, <1>0, ThreadsAssumption DEF SendCloseFails
<1>13. ASSUME NEW t \in Threads, SendCheck(t) PROVE Ended'
    BY <1>13, <1>0, ThreadsAssumption DEF SendCheck, Places
<1>14. ASSUME NEW t \in Threads, SendData(t) PROVE Ended'
  <2>1. t \in Callers /\ ret[t] = "idle"
        BY <1>14, <1>0, ThreadsAssumption, PlaceNames DEF Places, SendData
  <2> QED
        BY <1>14, <1>0, ThreadsAssumption, <2>1 DEF SendData
<1>15. ASSUME NEW t \in Threads, SendDataFails(t) PROVE Ended'
  <2>1. t \in Callers /\ ret[t] = "idle"
        BY <1>15, <1>0, ThreadsAssumption, PlaceNames DEF Places, SendDataFails
  <2> QED
        BY <1>15, <1>0, ThreadsAssumption, <2>1 DEF SendDataFails
<1>16. ASSUME NEW l \in Loops, LoopStart(l) PROVE Ended'
    BY <1>16, <1>0, ThreadsAssumption DEF LoopStart
<1>17. ASSUME NEW l \in Loops, LoopWhile(l) PROVE Ended'
    BY <1>17, <1>0, ThreadsAssumption DEF LoopWhile
<1>18. ASSUME NEW l \in Loops, Select(l) PROVE Ended'
    BY <1>18, <1>0, ThreadsAssumption DEF Select
<1>19. ASSUME NEW l \in Loops, RecvData(l) PROVE Ended'
    BY <1>19, <1>0, ThreadsAssumption DEF RecvData
<1>20. ASSUME NEW l \in Loops, RecvEnd(l) PROVE Ended'
    BY <1>20, <1>0, ThreadsAssumption DEF RecvEnd
<1>21. ASSUME NEW l \in Loops, RecvFailed(l) PROVE Ended'
    BY <1>21, <1>0, ThreadsAssumption DEF RecvFailed
<1>22. ASSUME NEW l \in Loops, ParseIncomplete(l) PROVE Ended'
    BY <1>22, <1>0, ThreadsAssumption DEF ParseIncomplete
<1>23. ASSUME NEW l \in Loops, ParseFrame(l) PROVE Ended'
    BY <1>23, <1>0, ThreadsAssumption DEF ParseFrame, Dispatch
<1>24. ASSUME NEW l \in Loops, PongCheck(l) PROVE Ended'
    BY <1>24, <1>0, ThreadsAssumption DEF PongCheck
<1>25. ASSUME NEW l \in Loops, SendPong(l) PROVE Ended'
    BY <1>25, <1>0, ThreadsAssumption DEF SendPong
<1>26. ASSUME NEW l \in Loops, SendPongFails(l) PROVE Ended'
    BY <1>26, <1>0, ThreadsAssumption DEF SendPongFails
<1>27. ASSUME NEW l \in Loops, CloseFrame(l) \/ CloseFrameAgain(l) PROVE Ended'
    BY <1>27, <1>0, ThreadsAssumption DEF CloseFrame, CloseFrameAgain
<1>28. ASSUME NEW l \in Loops, CloseSent(l) PROVE Ended'
    BY <1>28, <1>0, ThreadsAssumption DEF CloseSent
<1>29. ASSUME NEW l \in Loops, CallbackReturn(l) PROVE Ended'
    BY <1>29, <1>0, ThreadsAssumption DEF CallbackReturn, AfterCallback, CallbackLabels
<1>30. ASSUME NEW s \in Sockets, PeerAnswer(s) PROVE Ended'
    BY <1>30, <1>0, ThreadsAssumption DEF PeerAnswer
<1>31. ASSUME NEW s \in Sockets, PeerSend(s) PROVE Ended'
    BY <1>31, <1>0, ThreadsAssumption DEF PeerSend
<1>32. ASSUME NEW s \in Sockets, PeerEnds(s) PROVE Ended'
    BY <1>32, <1>0, ThreadsAssumption DEF PeerEnds
<1>33. ASSUME NEW c \in Callers, NEW r \in Routines, Invoke(c, r) PROVE Ended'
    BY <1>33, RoutinesAssumption, <1>0, ThreadsAssumption DEF Invoke
<1>34. CASE Terminated \/ UNCHANGED vars
    BY <1>34 DEF Terminated, vars
<1> QED
    BY <1>1, <1>2, <1>3, <1>4, <1>5, <1>6, <1>7, <1>8, <1>9, <1>10, <1>11,
       <1>12, <1>13, <1>14, <1>15, <1>16, <1>17, <1>18, <1>19, <1>20, <1>21,
       <1>22, <1>23, <1>24, <1>25, <1>26, <1>27, <1>28, <1>29, <1>30, <1>31,
       <1>32, <1>33, <1>34
       DEF Next, UserStep, CallerStep, Subroutine, LoopStep, Peer, Threads

LEMMA AloneNext ==
    ASSUME TypeOK, Places, Alone, OneLoop, Settled, [Next]_vars
    PROVE  Alone'
<1> USE DEF shared, stream, threadVars, At, GoTo, Call, Threads
<1>0. /\ status \in {"Open", "Closing", "Closed"}
      /\ pc \in [Threads -> Labels]
      /\ sock \in [Threads -> Sockets \cup {NoSocket}]
      /\ fd \in [Sockets -> {"unused", "open", "closed"}]
      BY DEF TypeOK
<1>1. ASSUME \A c \in Callers : ~Connecting(c)' PROVE Alone'
      BY <1>1 DEF Alone
<1>2. ASSUME NEW c \in Callers, ConnectAssign(c) PROVE Alone'
  <2>1. Quiet /\ \A d \in Callers : d # c => pc'[d] = "idle"
        BY <1>0, <1>2, SettledAssumption DEF ConnectAssign, ConnectAllowed, Quiet
  <2>2. \A l \in Loops : ~Alive(l)'
        BY <1>0, <1>2, <2>1, ThreadsAssumption DEF ConnectAssign, Quiet, Alive
  <2>3. status' = "Closed" /\ pc'[c] = "request"
        BY <1>0, <1>2, <2>1 DEF ConnectAssign, Quiet
  <2>4. IsOpen(wsSocket)'
        BY <1>0, <1>2, NoSocketAssumption DEF ConnectAssign, IsOpen
  <2> QED
        BY <2>1, <2>2, <2>3, <2>4 DEF Alone, Connecting
<1>3. ASSUME NEW c \in Callers, ConnectRefused(c) PROVE Alone'
      BY <1>1, <1>3, SettledAssumption DEF ConnectRefused, ConnectAllowed, Quiet, Connecting
<1>4. ASSUME NEW c \in Callers, HandshakeSend(c) PROVE Alone'
      BY <1>0, <1>4, ThreadsAssumption DEF HandshakeSend, Alone, Connecting, IsOpen, Alive
<1>5. ASSUME NEW c \in Callers, HandshakeFails(c) \/ HandshakeRecv(c) PROVE Alone'
  <2>1. \A d \in Callers : d # c => pc[d] \notin {"request", "response"}
        BY <1>5 DEF HandshakeFails, HandshakeRecv, Alone, Connecting
  <2>2. \A d \in Callers : pc'[d] = IF d = c THEN "idle" ELSE pc[d]
        BY <1>0, <1>5, ThreadsAssumption DEF HandshakeFails, HandshakeRecv
  <2> QED
        BY <1>1, <2>1, <2>2 DEF Connecting
<1>6. ASSUME NEW c \in Callers, Subroutine(c) \/ \E r \in Routines : Invoke(c, r)
      PROVE  Alone'
  <2>1. /\ \A t \in Threads : t # c => pc'[t] = pc[t]
        /\ wsSocket' = wsSocket /\ sock' = sock
        BY <1>0, <1>6 DEF Invoke, Subroutine, ShutdownCheck, MarkClosed, CloseSocket,
           CloseCheck, MarkClosing, SendClose, SendCloseFails, SendCheck, SendData,
           SendDataFails
  <2>2. ~Connecting(c) /\ ~Connecting(c)'
        BY <1>0, <1>6, RoutinesAssumption DEF Places, Connecting, Invoke, Subroutine,
           ShutdownCheck, MarkClosed, CloseSocket, CloseCheck, MarkClosing, SendClose,
           SendCloseFails, SendCheck, SendData, SendDataFails
  <2>3. ASSUME NEW d \in Callers, Connecting(d)
        PROVE  /\ pc'[c] \in {"idle", "shutdown", "close", "send"}
               /\ status' = status /\ fd' = fd
    <3>1. status = "Closed" /\ pc[c] \in {"idle", "shutdown", "close", "send"}
          BY <2>2, <2>3 DEF Alone
    <3> QED
          BY <1>0, <1>6, <3>1, RoutinesAssumption DEF Places, Invoke, Subroutine,
             ShutdownCheck, MarkClosed, CloseSocket, CloseCheck, MarkClosing, SendClose,
             SendCloseFails, SendCheck, SendData, SendDataFails
  <2> QED
        BY <2>1, <2>2, <2>3, ThreadsAssumption DEF Alone, Connecting, IsOpen, Alive
<1>7. ASSUME NEW l \in Loops, LoopStep(l) \/ CallbackReturn(l) \/ Subroutine(l)
      PROVE  Alone'
  <2>1. Alive(l)
        BY <1>7 DEF Alive, LoopStep, LoopStart, LoopWhile, Select, RecvData, RecvEnd,
           RecvFailed, ParseIncomplete, ParseFrame, PongCheck, SendPong, SendPongFails,
           CloseFrame, CloseFrameAgain, CloseSent, CallbackReturn, CallbackLabels, Subroutine,
           ShutdownCheck, MarkClosed, CloseSocket, CloseCheck, MarkClosing, SendClose,
           SendCloseFails, SendCheck, SendData, SendDataFails
  <2>2. \A c \in Callers : pc'[c] = pc[c]
    <3>1. CASE LoopStep(l) \/ CallbackReturn(l)
          BY <1>0, <3>1, ThreadsAssumption DEF LoopStep, LoopStart, LoopWhile, Select,
             RecvData, RecvEnd, RecvFailed, ParseIncomplete, ParseFrame, PongCheck,
             SendPong, SendPongFails, CloseFrame, CloseFrameAgain, CloseSent, CallbackReturn
    <3>2. CASE Subroutine(l)
          BY <1>0, <3>2, ThreadsAssumption DEF Subroutine, ShutdownCheck, MarkClosed,
             CloseSocket, CloseCheck, MarkClosing, SendClose, SendCloseFails, SendCheck,
             SendData, SendDataFails
    <3> QED
          BY <1>7, <3>1, <3>2
  <2> QED
        BY <1>1, <2>1, <2>2 DEF Alone, Connecting
<1>8. ASSUME NEW s \in Sockets, Peer(s) PROVE Alone'
      BY <1>8 DEF Peer, PeerAnswer, PeerSend, PeerEnds, Alone, Connecting, IsOpen, Alive
<1>9. CASE Terminated \/ UNCHANGED vars
      BY <1>9 DEF Terminated, vars, Alone, Connecting, IsOpen, Alive
<1> QED
      BY <1>2, <1>3, <1>4, <1>5, <1>6, <1>7, <1>8, <1>9
      DEF Next, UserStep, CallerStep

LEMMA ServingNext ==
    ASSUME TypeOK, Places, Alone, Serving, Ended, Settled, [Next]_vars
    PROVE  Serving'
<1> USE DEF Serving, Alive, IsOpen, shared, stream, threadVars, At, GoTo,
            Call, Threads
<1>0. /\ wsSocket \in Sockets \cup {NoSocket}
      /\ status \in {"Open", "Closing", "Closed"}
      /\ pc \in [Threads -> Labels] /\ ret \in [Threads -> Labels]
      /\ sock \in [Threads -> Sockets \cup {NoSocket}]
      /\ fd \in [Sockets -> {"unused", "open", "closed"}]
    BY DEF TypeOK
<1>1. ASSUME NEW c \in Callers, ConnectAssign(c) PROVE Serving'
  <2>1. status = "Closed" /\ \A l \in Loops : ~Alive(l)
        BY <1>1, <1>0, ThreadsAssumption, SettledAssumption DEF ConnectAssign, ConnectAllowed, Quiet, Alive
  <2> QED
        BY <1>1, <1>0, ThreadsAssumption, <2>1, NoSocketAssumption DEF ConnectAssign
<1>2. ASSUME NEW c \in Callers, ConnectRefused(c) PROVE Serving'
  <2>1. status = "Closed" /\ \A l \in Loops : ~Alive(l)
        BY <1>2, <1>0, ThreadsAssumption, SettledAssumption DEF ConnectRefused, ConnectAllowed, Quiet, Alive
  <2> QED
        BY <1>2, <1>0, ThreadsAssumption, <2>1, NoSocketAssumption DEF ConnectRefused
<1>3. ASSUME NEW c \in Callers, HandshakeSend(c) PROVE Serving'
    BY <1>3, <1>0, ThreadsAssumption DEF HandshakeSend
<1>4. ASSUME NEW c \in Callers, HandshakeFails(c) PROVE Serving'
    BY <1>4, <1>0, ThreadsAssumption DEF HandshakeFails
<1>5. ASSUME NEW c \in Callers, HandshakeRecv(c) PROVE Serving'
  <2>1. PICK l \in Loops : pc[l] = "unborn" /\ pc' = [pc EXCEPT ![c] = "idle", ![l] = "start"]
        BY <1>5, <1>0, ThreadsAssumption DEF HandshakeRecv
  <2>2. IsOpen(wsSocket) /\ \A m \in Loops : ~Alive(m)
        BY <1>5, <1>0, ThreadsAssumption DEF HandshakeRecv, Alone, Connecting

  <2> QED
        BY <1>5, <1>0, ThreadsAssumption, <2>1, <2>2 DEF HandshakeRecv
<1>6. ASSUME NEW t \in Threads, ShutdownCheck(t) PROVE Serving'
    BY <1>6, <1>0, ThreadsAssumption DEF ShutdownCheck
<1>7. ASSUME NEW t \in Threads, MarkClosed(t) PROVE Serving'
    BY <1>7, <1>0, ThreadsAssumption DEF MarkClosed
<1>8. ASSUME NEW t \in Threads, CloseSocket(t) PROVE Serving'
    BY <1>8, <1>0, ThreadsAssumption DEF CloseSocket, Ended
<1>9. ASSUME NEW t \in Threads, CloseCheck(t) PROVE Serving'
    BY <1>9, <1>0, ThreadsAssumption DEF CloseCheck
<1>10. ASSUME NEW t \in Threads, MarkClosing(t) PROVE Serving'
    BY <1>10, <1>0, ThreadsAssumption DEF MarkClosing
<1>11. ASSUME NEW t \in Threads, SendClose(t) PROVE Serving'
    BY <1>11, <1>0, ThreadsAssumption DEF SendClose
<1>12. ASSUME NEW t \in Threads, SendCloseFails(t) PROVE Serving'
    BY <1>12, <1>0, ThreadsAssumption DEF SendCloseFails
<1>13. ASSUME NEW t \in Threads, SendCheck(t) PROVE Serving'
    BY <1>13, <1>0, ThreadsAssumption DEF SendCheck
<1>14. ASSUME NEW t \in Threads, SendData(t) PROVE Serving'
    BY <1>14, <1>0, ThreadsAssumption DEF SendData
<1>15. ASSUME NEW t \in Threads, SendDataFails(t) PROVE Serving'
    BY <1>15, <1>0, ThreadsAssumption DEF SendDataFails
<1>16. ASSUME NEW l \in Loops, LoopStart(l) PROVE Serving'
    BY <1>16, <1>0, ThreadsAssumption DEF LoopStart
<1>17. ASSUME NEW l \in Loops, LoopWhile(l) PROVE Serving'
    BY <1>17, <1>0, ThreadsAssumption DEF LoopWhile
<1>18. ASSUME NEW l \in Loops, Select(l) PROVE Serving'
    BY <1>18, <1>0, ThreadsAssumption DEF Select
<1>19. ASSUME NEW l \in Loops, RecvData(l) PROVE Serving'
    BY <1>19, <1>0, ThreadsAssumption DEF RecvData
<1>20. ASSUME NEW l \in Loops, RecvEnd(l) PROVE Serving'
    BY <1>20, <1>0, ThreadsAssumption DEF RecvEnd
<1>21. ASSUME NEW l \in Loops, RecvFailed(l) PROVE Serving'
    BY <1>21, <1>0, ThreadsAssumption DEF RecvFailed
<1>22. ASSUME NEW l \in Loops, ParseIncomplete(l) PROVE Serving'
    BY <1>22, <1>0, ThreadsAssumption DEF ParseIncomplete
<1>23. ASSUME NEW l \in Loops, ParseFrame(l) PROVE Serving'
    BY <1>23, <1>0, ThreadsAssumption DEF ParseFrame
<1>24. ASSUME NEW l \in Loops, PongCheck(l) PROVE Serving'
    BY <1>24, <1>0, ThreadsAssumption DEF PongCheck
<1>25. ASSUME NEW l \in Loops, SendPong(l) PROVE Serving'
    BY <1>25, <1>0, ThreadsAssumption DEF SendPong
<1>26. ASSUME NEW l \in Loops, SendPongFails(l) PROVE Serving'
    BY <1>26, <1>0, ThreadsAssumption DEF SendPongFails
<1>27. ASSUME NEW l \in Loops, CloseFrame(l) \/ CloseFrameAgain(l) PROVE Serving'
  <2>1. \/ pc' = [pc EXCEPT ![l] = "shutdown"]
        \/ pc' = [pc EXCEPT ![l] = "close"]
        \/ pc' = [pc EXCEPT ![l] = "closeAgain"]
        \/ pc' = [pc EXCEPT ![l] = "done"]
        BY <1>27, <1>0, ThreadsAssumption DEF CloseFrame, CloseFrameAgain
  <2> QED
        BY <1>27, <1>0, ThreadsAssumption, <2>1 DEF CloseFrame, CloseFrameAgain
<1>28. ASSUME NEW l \in Loops, CloseSent(l) PROVE Serving'
    BY <1>28, <1>0, ThreadsAssumption DEF CloseSent
<1>29. ASSUME NEW l \in Loops, CallbackReturn(l) PROVE Serving'
    BY <1>29, <1>0, ThreadsAssumption DEF CallbackReturn, CallbackLabels
<1>30. ASSUME NEW s \in Sockets, PeerAnswer(s) PROVE Serving'
    BY <1>30, <1>0, ThreadsAssumption DEF PeerAnswer
<1>31. ASSUME NEW s \in Sockets, PeerSend(s) PROVE Serving'
    BY <1>31, <1>0, ThreadsAssumption DEF PeerSend
<1>32. ASSUME NEW s \in Sockets, PeerEnds(s) PROVE Serving'
    BY <1>32, <1>0, ThreadsAssumption DEF PeerEnds
<1>33. ASSUME NEW c \in Callers, NEW r \in Routines, Invoke(c, r) PROVE Serving'
    BY <1>33, RoutinesAssumption, <1>0, ThreadsAssumption DEF Invoke
<1>34. CASE Terminated \/ UNCHANGED vars
    BY <1>34 DEF Terminated, vars
<1> QED
    BY <1>1, <1>2, <1>3, <1>4, <1>5, <1>6, <1>7, <1>8, <1>9, <1>10, <1>11,
       <1>12, <1>13, <1>14, <1>15, <1>16, <1>17, <1>18, <1>19, <1>20, <1>21,
       <1>22, <1>23, <1>24, <1>25, <1>26, <1>27, <1>28, <1>29, <1>30, <1>31,
       <1>32, <1>33, <1>34
       DEF Next, UserStep, CallerStep, Subroutine, LoopStep, Peer, Threads

LEMMA SubroutineFrame ==
    ASSUME TypeOK, Places, NEW t \in Threads, Subroutine(t)
    PROVE  /\ UNCHANGED <<wsSocket, sock, buf, lost, peer, sent, taken>>
           /\ status' = "Open" => status = "Open"
           /\ \A u \in Threads : u # t => pc'[u] = pc[u]
           /\ t \in Loops =>
                 /\ pc[t] \in StopLabels \cup CloseLabels
                 /\ pc'[t] \in {"closeSent", "onLost", "done"} \cup StopLabels \cup CloseLabels
                 /\ pc'[t] \in {"closeSent"} \cup CloseLabels => pc[t] \in CloseLabels
<1> USE DEF shared, stream, threadVars, At, GoTo
<1>1. pc \in [Threads -> Labels] /\ Threads = Callers \cup Loops
      BY DEF TypeOK, Threads
<1>2. /\ UNCHANGED <<wsSocket, sock, buf, lost, peer, sent, taken>>
      /\ status' = "Open" => status = "Open"
      /\ \A u \in Threads : u # t => pc'[u] = pc[u]
      BY <1>1 DEF Subroutine, ShutdownCheck, MarkClosed, CloseSocket, CloseCheck, MarkClosing,
         SendClose, SendCloseFails, SendCheck, SendData, SendDataFails
<1>3. ASSUME t \in Loops
      PROVE  /\ pc[t] \in StopLabels \cup CloseLabels
             /\ pc'[t] \in {"closeSent", "onLost", "done"} \cup StopLabels \cup CloseLabels
             /\ pc'[t] \in {"closeSent"} \cup CloseLabels => pc[t] \in CloseLabels
  <2>1. /\ pc[t] \notin {"send", "transmit"}
        /\ pc[t] \in StopLabels => ret[t] \in {"onLost", "done"}
        /\ pc[t] \in CloseLabels => ret[t] = "closeSent"
        BY <1>3, PlaceNames DEF Places
  <2>2. t \notin Callers
        BY <1>3, ThreadsAssumption
  <2>3. CASE ShutdownCheck(t) \/ MarkClosed(t) \/ CloseSocket(t)
        BY <1>1, <2>1, <2>3 DEF ShutdownCheck, MarkClosed, CloseSocket, StopLabels, CloseLabels
  <2>4. CASE CloseCheck(t) \/ MarkClosing(t) \/ SendClose(t) \/ SendCloseFails(t)
        BY <1>1, <2>1, <2>2, <2>4 DEF CloseCheck, MarkClosing, SendClose, SendCloseFails,
           StopLabels, CloseLabels
  <2>5. CASE SendCheck(t) \/ SendData(t) \/ SendDataFails(t)
        BY <2>1, <2>5 DEF SendCheck, SendData, SendDataFails
  <2> QED
        BY <2>3, <2>4, <2>5 DEF Subroutine
<1> QED
      BY <1>2, <1>3

LEMMA LoopFrame ==
    ASSUME TypeOK, NEW l \in Loops, LoopStep(l) \/ CallbackReturn(l)
    PROVE  /\ UNCHANGED <<status, wsSocket, fd, sent, peer>>
           /\ Alive(l) /\ pc'[l] # "unborn"
           /\ \A u \in Threads : u # l => pc'[u] = pc[u]
<1> USE DEF shared, stream, threadVars, At, GoTo, Call
<1>1. /\ pc \in [Threads -> Labels] /\ Threads = Callers \cup Loops
      /\ status \in {"Open", "Closing", "Closed"}
      BY DEF TypeOK, Threads
<1>2. CASE LoopStep(l)
  <2>1. UNCHANGED <<status, wsSocket, fd, sent, peer>> /\ Alive(l)
        BY <1>2 DEF LoopStep, LoopStart, LoopWhile, Select, RecvData, RecvEnd, RecvFailed,
           ParseIncomplete, ParseFrame, PongCheck, SendPong, SendPongFails,
           CloseFrame, CloseFrameAgain, CloseSent, Alive
  <2>2. \E label : label # "unborn" /\ GoTo(l, label)
    <3>1. CASE CloseFrame(l) \/ CloseFrameAgain(l)
          BY <1>1, <3>1 DEF CloseFrame, CloseFrameAgain
    <3>2. CASE ~CloseFrame(l) /\ ~CloseFrameAgain(l)
          BY <1>2, <3>2 DEF LoopStep, LoopStart, LoopWhile, Select, RecvData, RecvEnd, RecvFailed,
             ParseIncomplete, ParseFrame, PongCheck, SendPong, SendPongFails,
             CloseSent, Dispatch
    <3> QED
          BY <3>1, <3>2
  <2> QED
        BY <1>1, <2>1, <2>2
<1>3. CASE CallbackReturn(l)
      BY <1>1, <1>3 DEF CallbackReturn, CallbackLabels, AfterCallback, Alive
<1> QED
      BY <1>2, <1>3

LEMMA ReadingNext ==
    ASSUME TypeOK, Places, Alone, OneLoop, Serving, Reading, Settled, [Next]_vars
    PROVE  Reading'
<1> USE DEF shared, stream, threadVars, At, GoTo, Call
<1>0. /\ wsSocket \in Sockets \cup {NoSocket}
      /\ pc \in [Threads -> Labels] /\ Threads = Callers \cup Loops
      /\ sock \in [Threads -> Sockets \cup {NoSocket}]
      /\ buf \in [Loops -> Nat] /\ taken \in [Sockets -> Nat]
      /\ sent \in [Sockets -> Seq(FrameKinds)]
      /\ lost \in [Loops -> {"no", "1006", "1000"}]
      BY DEF TypeOK, Threads
\* When nothing is read, sent or parsed, only the labels matter.
<1>1. ASSUME UNCHANGED <<taken, sent, buf, lost>>,
             \A l \in Loops : /\ Alive(l)' => Alive(l) /\ wsSocket' = wsSocket
                              /\ pc'[l] = "unborn" => pc[l] = "unborn"
      PROVE  Reading'
      BY <1>1 DEF Reading
<1>2. ASSUME NEW c \in Callers, ConnectAssign(c) \/ ConnectRefused(c) PROVE Reading'
  <2>1. \A l \in Loops : ~Alive(l) /\ pc'[l] = pc[l]
        BY <1>0, <1>2, ThreadsAssumption
        DEF ConnectAssign, ConnectRefused, ConnectAllowed, Quiet
  <2> QED
        BY <1>1, <1>2, <2>1 DEF ConnectAssign, ConnectRefused, Alive
<1>3. ASSUME NEW c \in Callers, HandshakeSend(c) \/ HandshakeFails(c) PROVE Reading'
  <2>1. \A l \in Loops : pc'[l] = pc[l]
        BY <1>0, <1>3, ThreadsAssumption DEF HandshakeSend, HandshakeFails
  <2> QED
        BY <1>1, <1>3, <2>1 DEF HandshakeSend, HandshakeFails, Alive
<1>4. ASSUME NEW c \in Callers, HandshakeRecv(c) PROVE Reading'
  <2>1. PICK l \in Loops : /\ pc[l] = "unborn"
                           /\ pc' = [pc EXCEPT ![c] = "idle", ![l] = "start"]
        BY <1>4 DEF HandshakeRecv
  <2>2. IsOpen(wsSocket) /\ sock[c] = wsSocket /\ \A m \in Loops : ~Alive(m)
        BY <1>4 DEF HandshakeRecv, Alone, Connecting
  <2>3. \A s \in Sockets : taken'[s] \in Nat /\ taken'[s] <= PartsPerFrame * Len(sent[s])
    <3>1. CASE UNCHANGED taken
          BY <1>0, <3>1 DEF Reading
    <3>2. CASE \E n \in 0..Len(sent[wsSocket]) :
                  taken' = [taken EXCEPT ![wsSocket] = PartsPerFrame * n]
      <4>1. PICK n \in 0..Len(sent[wsSocket]) :
                  taken' = [taken EXCEPT ![wsSocket] = PartsPerFrame * n]
            BY <3>2
      <4>2. wsSocket \in Sockets
            BY <1>0, <2>2 DEF IsOpen
      <4>3. Len(sent[wsSocket]) \in Nat
            BY <1>0, <4>2
      <4>4. PartsPerFrame * n \in Nat /\ PartsPerFrame * n <= PartsPerFrame * Len(sent[wsSocket])
            BY <4>3 DEF PartsPerFrame
      <4> QED
            BY <1>0, <4>1, <4>2, <4>4 DEF Reading
    <3> QED
          BY <1>4, <2>2, <3>1, <3>2 DEF HandshakeRecv
  <2>4. wsSocket \in Sockets /\ \A m \in Loops : Alive(m)' => buf[m] = 0
        BY <1>0, <2>1, <2>2, ThreadsAssumption DEF IsOpen, Alive, Reading
  <2>5. \A m \in Loops : pc'[m] = "unborn" => pc[m] = "unborn"
        BY <1>0, <2>1, ThreadsAssumption
  <2>6. UNCHANGED <<wsSocket, sent, buf, lost>>
        BY <1>4 DEF HandshakeRecv
  <2>7. \A m \in Loops : Alive(m)' => buf'[m] <= taken'[wsSocket]
        BY <1>0, <2>3, <2>4, <2>6
  <2> QED
        BY <2>3, <2>5, <2>6, <2>7 DEF Reading
<1>5. ASSUME NEW t \in Threads, Subroutine(t) PROVE Reading'
  <2>1. \A l \in Loops : /\ Alive(l)' => Alive(l)
                         /\ pc'[l] = "unborn" => pc[l] = "unborn"
        BY <1>0, <1>5, SubroutineFrame DEF Alive, StopLabels, CloseLabels
  <2> QED
        BY <1>1, <1>5, <2>1, SubroutineFrame
<1>6. ASSUME NEW c \in Callers, NEW r \in Routines, Invoke(c, r) PROVE Reading'
  <2>1. \A l \in Loops : pc'[l] = pc[l]
        BY <1>0, <1>6, ThreadsAssumption DEF Invoke
  <2> QED
        BY <1>1, <1>6, <2>1 DEF Invoke, Alive
<1>7. ASSUME NEW l \in Loops, LoopStep(l) \/ CallbackReturn(l) PROVE Reading'
  <2>1. /\ UNCHANGED <<wsSocket, sent>>
        /\ \A m \in Loops : /\ Alive(m)' => Alive(m)
                            /\ pc'[m] = "unborn" => pc[m] = "unborn" /\ m # l
        BY <1>0, <1>7, LoopFrame DEF Alive
  <2>2. CASE RecvData(l)
    <3>1. sock[l] = wsSocket /\ wsSocket \in Sockets
          BY <2>2 DEF RecvData, Serving, Alive
    <3>2. PICK n \in 1..Available(wsSocket) :
                  /\ taken' = [taken EXCEPT ![wsSocket] = @ + n]
                  /\ buf' = [buf EXCEPT ![l] = @ + n]
          BY <2>2, <3>1 DEF RecvData
    <3>3. Len(sent[wsSocket]) \in Nat /\ taken[wsSocket] \in Nat /\ buf[l] \in Nat
          BY <1>0, <3>1
    <3>4. n \in Nat /\ taken[wsSocket] + n <= PartsPerFrame * Len(sent[wsSocket])
          BY <3>2, <3>3 DEF Available, PartsPerFrame
    <3>5. \A m \in Loops : Alive(m) => m = l /\ buf[m] <= taken[wsSocket]
          BY <2>2 DEF RecvData, OneLoop, Reading, Alive
    <3>6. \A m \in Loops : Alive(m)' => buf'[m] <= taken'[wsSocket]
          BY <1>0, <2>1, <3>1, <3>2, <3>3, <3>4, <3>5
    <3>7. \A s \in Sockets : taken'[s] <= PartsPerFrame * Len(sent[s])
          BY <1>0, <3>1, <3>2, <3>4 DEF Reading
    <3>8. \A m \in Loops : pc'[m] = "unborn" => buf'[m] = 0 /\ lost'[m] = "no"
          BY <1>0, <2>1, <2>2, <3>2 DEF RecvData, Reading
    <3> QED
          BY <2>1, <3>6, <3>7, <3>8 DEF Reading
  <2>3. CASE ParseFrame(l)
    <3>1. /\ buf' = [buf EXCEPT ![l] = @ - PartsPerFrame] /\ buf[l] \in Nat
          /\ UNCHANGED <<taken, lost>>
          BY <1>0, <2>3 DEF ParseFrame
    <3>2. \A m \in Loops : Alive(m) => wsSocket \in Sockets /\ taken[wsSocket] \in Nat
          BY <1>0 DEF Serving
    <3>3. \A m \in Loops : buf'[m] <= buf[m] /\ buf'[m] \in Int /\ (m # l => buf'[m] = buf[m])
          BY <1>0, <3>1 DEF PartsPerFrame
    <3>4. \A m \in Loops : Alive(m)' => buf'[m] <= taken[wsSocket]
          BY <1>0, <2>1, <3>2, <3>3 DEF Reading
    <3> QED
          BY <2>1, <3>1, <3>3, <3>4 DEF Reading
  <2>4. CASE ~RecvData(l) /\ ~ParseFrame(l)
    <3>1. UNCHANGED <<taken, buf>> /\ \A m \in Loops : m # l => lost'[m] = lost[m]
      <4>1. CASE RecvFailed(l) \/ CloseSent(l)
            BY <1>0, <4>1 DEF RecvFailed, CloseSent
      <4>2. CASE ~RecvFailed(l) /\ ~CloseSent(l)
            BY <1>7, <2>4, <4>2 DEF LoopStep, LoopStart, LoopWhile, Select, RecvEnd, ParseIncomplete,
               PongCheck, SendPong, SendPongFails, CloseFrame, CloseFrameAgain, CallbackReturn
      <4> QED
            BY <4>1, <4>2
    <3> QED
          BY <2>1, <3>1 DEF Reading
  <2> QED
        BY <2>2, <2>3, <2>4
<1>8. ASSUME NEW s \in Sockets, Peer(s) PROVE Reading'
  <2>1. CASE PeerAnswer(s) \/ PeerEnds(s)
        BY <1>1, <2>1 DEF PeerAnswer, PeerEnds, Alive
  <2>2. CASE PeerSend(s)
    <3>1. PICK k \in FrameKinds : sent' = [sent EXCEPT ![s] = Append(@, k)]
          BY <2>2 DEF PeerSend
    <3>2. /\ Len(Append(sent[s], k)) = Len(sent[s]) + 1
          /\ Len(sent[s]) \in Nat
          BY <1>0
    <3>3. \A r \in Sockets : taken[r] <= PartsPerFrame * Len(sent'[r])
          BY <1>0, <3>1, <3>2 DEF Reading, PartsPerFrame
    <3> QED
          BY <2>2, <3>3 DEF PeerSend, Reading, Alive
  <2> QED
        BY <1>8, <2>1, <2>2 DEF Peer
<1>9. CASE Terminated \/ UNCHANGED vars
      BY <1>1, <1>9 DEF Terminated, vars, Alive
<1> QED
      BY <1>2, <1>3, <1>4, <1>5, <1>6, <1>7, <1>8, <1>9, ThreadsAssumption
      DEF Next, UserStep, CallerStep, Threads

LEMMA HeadFrameSent ==
    ASSUME TypeOK, Serving, Reading, NEW l \in Loops, Alive(l), pc[l] # "start",
           buf[l] >= PartsPerFrame
    PROVE  \E i \in 1..Len(sent[sock[l]]) : HeadFrame(l) = sent[sock[l]][i]
<1> DEFINE s == sock[l]
           i == ((taken[s] - buf[l]) \div PartsPerFrame) + 1
<1>1. s \in Sockets /\ s = wsSocket
      BY DEF Serving
<1>2. /\ taken[s] \in Nat /\ buf[l] \in Nat /\ Len(sent[s]) \in Nat
      /\ buf[l] <= taken[s] /\ taken[s] <= 3 * Len(sent[s]) /\ buf[l] >= 3
      BY <1>1 DEF TypeOK, Reading, PartsPerFrame
<1>3. ASSUME NEW a \in Nat, NEW b \in Nat, NEW n \in Nat,
             b <= a, a <= 3 * n, b >= 3
      PROVE  ((a - b) \div 3) + 1 \in 1..n
      BY <1>3
<1>4. i \in 1..Len(sent[s])
      BY <1>2, <1>3 DEF PartsPerFrame
<1> QED
      BY <1>4 DEF HeadFrame

LEMMA ReasonsNext ==
    ASSUME TypeOK, Places, Alone, OneLoop, Serving, Reading, Reasons, Settled,
           [Next]_vars
    PROVE  Reasons'
<1> USE DEF shared, stream, threadVars, At, GoTo, Call
<1>0. /\ wsSocket \in Sockets \cup {NoSocket}
      /\ pc \in [Threads -> Labels] /\ Threads = Callers \cup Loops
      /\ sock \in [Threads -> Sockets \cup {NoSocket}]
      /\ sent \in [Sockets -> Seq(FrameKinds)]
      /\ lost \in [Loops -> {"no", "1006", "1000"}]
      /\ peer \in [Sockets -> {"up", "fin", "reset"}]
      /\ status \in {"Open", "Closing", "Closed"}
      BY DEF TypeOK, Threads
<1>1. ASSUME NEW m \in Loops, ~Alive(m)' PROVE Reason(m)'
      BY <1>1 DEF Reason, Alive, CloseLabels
\* What a loop that does not move knows stays true.
<1>2. ASSUME NEW m \in Loops,
             UNCHANGED <<pc[m], sock[m], lost[m]>>,
             Alive(m) => wsSocket' = wsSocket,
             status' = "Open" => status = "Open",
             \A s \in Sockets : peer[s] # "up" => peer'[s] # "up",
             \A s \in Sockets : CloseSeen(s) => CloseSeen(s)'
      PROVE  Reason(m)'
  <2>1. CASE ~Alive(m)
        BY <1>1, <1>2, <2>1 DEF Alive
  <2>2. CASE pc[m] = "start"
        BY <1>2, <2>2 DEF Reasons, Reason, CloseLabels, Alive
  <2>3. CASE Alive(m) /\ pc[m] # "start"
    <3>1. sock[m] \in Sockets /\ wsSocket \in Sockets
          BY <2>3 DEF Serving
    <3> QED
          BY <1>2, <2>3, <3>1 DEF Reasons, Reason, Alive
  <2> QED
        BY <2>1, <2>2, <2>3
<1>3. ASSUME NEW c \in Callers, ConnectAssign(c) \/ ConnectRefused(c) PROVE Reasons'
  <2>1. \A l \in Loops : ~Alive(l) /\ pc'[l] = pc[l]
        BY <1>0, <1>3, ThreadsAssumption
        DEF ConnectAssign, ConnectRefused, ConnectAllowed, Quiet
  <2> QED
        BY <1>1, <2>1 DEF Reasons, Alive
<1>4. ASSUME NEW c \in Callers, HandshakeSend(c) \/ HandshakeFails(c) PROVE Reasons'
  <2>1. \A l \in Loops : pc'[l] = pc[l] /\ sock'[l] = sock[l]
        BY <1>0, <1>4, ThreadsAssumption DEF HandshakeSend, HandshakeFails
  <2>2. UNCHANGED <<wsSocket, status, peer, sent, lost>>
        BY <1>4 DEF HandshakeSend, HandshakeFails
  <2> QED
        BY <1>2, <2>1, <2>2 DEF Reasons, CloseSeen
<1>5. ASSUME NEW c \in Callers, HandshakeRecv(c) PROVE Reasons'
  <2>1. PICK l \in Loops : /\ pc[l] = "unborn"
                           /\ pc' = [pc EXCEPT ![c] = "idle", ![l] = "start"]
        BY <1>5 DEF HandshakeRecv
  <2>2. \A m \in Loops : ~Alive(m)
        BY <1>5 DEF HandshakeRecv, Alone, Connecting
  <2>3. \A m \in Loops : m # l => ~Alive(m)'
        BY <1>0, <2>1, <2>2, ThreadsAssumption DEF Alive
  <2>4. pc'[l] = "start" /\ lost'[l] = "no"
        BY <1>0, <1>5, <2>1, ThreadsAssumption DEF HandshakeRecv, Reading
  <2>5. Reason(l)'
        BY <2>4 DEF Reason, CloseLabels
  <2> QED
        BY <1>1, <2>3, <2>5 DEF Reasons
<1>6. ASSUME NEW t \in Threads, Subroutine(t) PROVE Reasons'
  <2>1. UNCHANGED <<wsSocket, sock, lost, peer, sent>>
        BY <1>6, SubroutineFrame
  <2>2. ASSUME NEW m \in Loops, m # t PROVE Reason(m)'
        BY <1>0, <1>2, <1>6, <2>1, <2>2, SubroutineFrame DEF CloseSeen
  <2>3. ASSUME t \in Loops PROVE Reason(t)'
    <3>1. pc[t] \in StopLabels \cup CloseLabels /\ Alive(t)
          BY <1>6, <2>3, SubroutineFrame DEF StopLabels, CloseLabels, Alive
    <3>2. /\ pc'[t] \in {"closeSent", "onLost", "done"} \cup StopLabels \cup CloseLabels
          /\ pc'[t] \in {"closeSent"} \cup CloseLabels => pc[t] \in CloseLabels
          BY <1>6, <2>3, SubroutineFrame
    <3>3. pc'[t] \notin {"recvFailed", "closeFrame", "closeAgain", "start"}
          BY <3>2 DEF StopLabels, CloseLabels
    <3>4. Reason(t)
          BY <2>3 DEF Reasons
    <3>5. CloseSeen(sock[t])' <=> CloseSeen(sock[t])
          BY <2>1 DEF CloseSeen
    <3> QED
          BY <2>1, <3>1, <3>2, <3>3, <3>4, <3>5 DEF Reason
  <2> QED
        BY <2>2, <2>3 DEF Reasons
<1>7. ASSUME NEW c \in Callers, NEW r \in Routines, Invoke(c, r) PROVE Reasons'
  <2>1. \A l \in Loops : pc'[l] = pc[l]
        BY <1>0, <1>7, ThreadsAssumption DEF Invoke
  <2> QED
        BY <1>2, <1>7, <2>1 DEF Invoke, Reasons, CloseSeen
<1>8. ASSUME NEW l \in Loops, LoopStep(l) \/ CallbackReturn(l) PROVE Reasons'
  <2>1. /\ UNCHANGED <<status, wsSocket, fd, sent, peer>>
        /\ Alive(l) /\ \A u \in Threads : u # l => pc'[u] = pc[u]
        BY <1>8, LoopFrame
  <2>2. \A m \in Loops : m # l => sock'[m] = sock[m] /\ lost'[m] = lost[m]
    <3>1. CASE RecvFailed(l) \/ CloseSent(l)
          BY <1>0, <3>1 DEF RecvFailed, CloseSent
    <3>2. CASE LoopStart(l)
          BY <1>0, <3>2 DEF LoopStart
    <3>3. CASE ~RecvFailed(l) /\ ~CloseSent(l) /\ ~LoopStart(l)
          BY <1>8, <3>3 DEF LoopStep, LoopWhile, Select, RecvData, RecvEnd,
             ParseIncomplete, ParseFrame, PongCheck, SendPong, SendPongFails, CloseFrame, CloseFrameAgain, CallbackReturn
    <3> QED
          BY <3>1, <3>2, <3>3
  <2>3. ASSUME NEW m \in Loops, m # l PROVE Reason(m)'
        BY <1>0, <1>2, <2>1, <2>2, <2>3 DEF CloseSeen
  <2>4. Reason(l)
        BY DEF Reasons
  <2>5. \A s : CloseSeen(s)' <=> CloseSeen(s)
        BY <2>1 DEF CloseSeen
  \* Steps that neither decide nor change what the loop knows.
  <2>6. ASSUME UNCHANGED <<sock[l], lost[l]>>, pc[l] # "start",
               pc'[l] \notin {"start", "recvFailed", "closeFrame", "closeAgain", "closeSent"}
                            \cup CloseLabels
        PROVE  Reason(l)'
        BY <2>1, <2>4, <2>5, <2>6 DEF Reason
  <2>7. ASSUME LoopStart(l) PROVE Reason(l)'
    <3>1. lost'[l] = lost[l] /\ pc[l] = "start" /\ pc'[l] = "while"
          BY <1>0, <2>7 DEF LoopStart
    <3>2. lost[l] = "no"
          BY <1>0, <2>1, <2>4, <3>1 DEF Reason
    <3> QED
          BY <3>1, <3>2 DEF Reason, CloseLabels
  <2>8. ASSUME RecvEnd(l) PROVE Reason(l)'
    <3>1. /\ pc[l] = "recv" /\ pc'[l] = "recvFailed" /\ UNCHANGED <<sock, lost>>
          /\ IsOpen(sock[l]) => peer[sock[l]] # "up"
          BY <1>0, <2>8 DEF RecvEnd
    <3>2. sock[l] = wsSocket /\ (status = "Open" => IsOpen(wsSocket))
          BY <2>1, <3>1 DEF Serving
    <3> QED
          BY <2>1, <2>4, <2>5, <3>1, <3>2 DEF Reason, CloseLabels
  <2>9. ASSUME RecvFailed(l) PROVE Reason(l)'
    <3>1. CASE status = "Open"
      <4>1. /\ pc[l] = "recvFailed" /\ pc'[l] = "shutdown" /\ lost'[l] = "1006"
            /\ sock' = sock
            BY <1>0, <2>9, <3>1 DEF RecvFailed
      <4>2. sock[l] = wsSocket /\ peer[wsSocket] # "up"
            BY <2>1, <2>4, <3>1, <4>1 DEF Serving, Reason
      <4> QED
            BY <2>1, <4>1, <4>2 DEF Reason, CloseLabels
    <3>2. CASE status # "Open"
          BY <1>0, <1>1, <2>9, <3>2 DEF RecvFailed, Alive
    <3> QED
          BY <3>1, <3>2
  <2>10. ASSUME ParseFrame(l) PROVE Reason(l)'
    <3>1. pc[l] = "parse" /\ UNCHANGED <<sock, lost>> /\ buf[l] >= PartsPerFrame
          BY <2>10 DEF ParseFrame
    <3>2. pc'[l] = Dispatch(HeadFrame(l))
          BY <1>0, <2>10 DEF ParseFrame
    <3>3. CASE HeadFrame(l) = "Close"
      <4>1. CloseSeen(sock[l])
            BY <2>1, <3>1, <3>3, HeadFrameSent DEF CloseSeen
      <4>2. pc'[l] = "closeFrame"
            BY <3>2, <3>3 DEF Dispatch
      <4> QED
            BY <2>1, <2>4, <2>5, <3>1, <4>1, <4>2 DEF Reason
    <3>4. CASE HeadFrame(l) # "Close"
      <4>1. pc'[l] \in {"onText", "onBinary", "pong", "opcodeError"}
            BY <3>2, <3>4 DEF Dispatch
      <4> QED
            BY <2>6, <3>1, <4>1 DEF CloseLabels
    <3> QED
          BY <3>3, <3>4
  <2>11. ASSUME CloseFrame(l) \/ CloseFrameAgain(l) PROVE Reason(l)'
    <3>1. /\ pc[l] \in {"closeFrame", "closeAgain"} /\ UNCHANGED <<sock, lost>>
          /\ pc'[l] \in {"shutdown", "close", "closeAgain", "done"}
          BY <1>0, <2>11 DEF CloseFrame, CloseFrameAgain
    <3> QED
          BY <2>1, <2>4, <2>5, <3>1 DEF Reason
  <2>12. ASSUME CloseSent(l) PROVE Reason(l)'
    <3>1. /\ pc[l] = "closeSent" /\ sock' = sock
          /\ pc'[l] = "shutdown" /\ lost'[l] = "1000"
          BY <1>0, <2>12 DEF CloseSent
    <3> QED
          BY <2>1, <2>4, <2>5, <3>1 DEF Reason, CloseLabels
  <2>13. ASSUME \/ LoopWhile(l) \/ Select(l) \/ RecvData(l) \/ ParseIncomplete(l)
                \/ PongCheck(l) \/ SendPong(l) \/ SendPongFails(l)
         PROVE  Reason(l)'
    <3>1. UNCHANGED <<sock, lost>> /\ pc[l] # "start"
          BY <2>13 DEF LoopWhile, Select, RecvData, ParseIncomplete, PongCheck,
             SendPong, SendPongFails
    <3>2. pc'[l] \in {"done", "select", "selectError", "recv", "parse", "parseError",
                      "while", "sendPong", "pongError"}
          BY <1>0, <2>13 DEF LoopWhile, Select, RecvData, ParseIncomplete, PongCheck,
             SendPong, SendPongFails
    <3> QED
          BY <2>6, <3>1, <3>2 DEF CloseLabels
  <2>14. ASSUME CallbackReturn(l) PROVE Reason(l)'
    <3>1. UNCHANGED <<sock, lost>> /\ pc[l] # "start"
          BY <2>14 DEF CallbackReturn, CallbackLabels
    <3>2. pc'[l] \in {"recv", "parse", "while", "done"}
          BY <1>0, <2>14 DEF CallbackReturn, CallbackLabels, AfterCallback
    <3> QED
          BY <2>6, <3>1, <3>2 DEF CloseLabels
  <2>15. Reason(l)'
        BY <1>8, <2>7, <2>8, <2>9, <2>10, <2>11, <2>12, <2>13, <2>14 DEF LoopStep
  <2> QED
        BY <2>3, <2>15 DEF Reasons
<1>9. ASSUME NEW s \in Sockets, Peer(s) PROVE Reasons'
  <2>1. UNCHANGED <<wsSocket, status, pc, sock, lost>>
        BY <1>9 DEF Peer, PeerAnswer, PeerSend, PeerEnds
  <2>2. \A r \in Sockets : peer[r] # "up" => peer'[r] # "up"
        BY <1>0, <1>9 DEF Peer, PeerAnswer, PeerSend, PeerEnds
  <2>3. ASSUME NEW r \in Sockets, CloseSeen(r) PROVE CloseSeen(r)'
    <3>1. CASE PeerSend(s)
      <4>1. PICK k \in FrameKinds : sent' = [sent EXCEPT ![s] = Append(@, k)]
            BY <3>1 DEF PeerSend
      <4>2. /\ Len(Append(sent[s], k)) = Len(sent[s]) + 1 /\ Len(sent[s]) \in Nat
            /\ \A i \in 1..Len(sent[s]) : Append(sent[s], k)[i] = sent[s][i]
            BY <1>0
      <4> QED
            BY <1>0, <2>3, <4>1, <4>2 DEF CloseSeen
    <3>2. CASE ~PeerSend(s)
          BY <1>9, <2>3, <3>2 DEF Peer, PeerAnswer, PeerEnds, CloseSeen
    <3> QED
          BY <3>1, <3>2
  <2> QED
        BY <1>2, <2>1, <2>2, <2>3 DEF Reasons
<1>10. CASE Terminated \/ UNCHANGED vars
      BY <1>2, <1>10 DEF Terminated, vars, Reasons, CloseSeen
<1> QED
      BY <1>3, <1>4, <1>5, <1>6, <1>7, <1>8, <1>9, <1>10, ThreadsAssumption
      DEF Next, UserStep, CallerStep, Threads

-----------------------------------------------------------------------------
(* The theorems *)

LEMMA InvInit == Init => IInv
<1> SUFFICES ASSUME Init PROVE IInv
    OBVIOUS
<1>1. TypeOK
      BY TypeInit
<1>2. /\ \A c \in Callers : pc[c] = "idle" /\ ret[c] = "idle"
      /\ \A l \in Loops : pc[l] = "unborn" /\ buf[l] = 0 /\ lost[l] = "no"
      /\ status = "Closed"
      /\ \A s \in Sockets : taken[s] = 0 /\ Len(sent[s]) = 0
      BY ThreadsAssumption DEF Init, Threads
<1>3. "unborn" \in LoopPlaces /\ "unborn" \notin StopLabels \cup CloseLabels
      BY DEF LoopPlaces, LoopLabels, StopLabels, CloseLabels
<1>4. Places
      BY <1>2, <1>3, PlaceNames DEF Places
<1>5. Alone /\ OneLoop /\ Serving /\ Ended /\ Reasons /\ Reading
      BY <1>2 DEF Alone, OneLoop, Serving, Ended, Reasons, Reading, Connecting, Alive,
         Threads, LostMeansNotOpen, Reason, CloseLabels, PartsPerFrame
<1> QED
      BY <1>1, <1>4, <1>5 DEF IInv

LEMMA InvNext == Settled /\ IInv /\ [Next]_vars => IInv'
BY TypeNext, PlacesNext, AloneNext, OneLoopNext, ServingNext, EndedNext, ReasonsNext,
   ReadingNext DEF IInv

\* The invariant of a client whose Connect is only called once the last connection
\* is over.
THEOREM Invariance ==
    ASSUME Settled
    PROVE  Spec => []IInv
BY InvInit, InvNext, PTL DEF Spec

\* LostConnectionCallback is called only for a connection its peer ended, never for
\* one closed by hand.
THEOREM LossIsReal ==
    ASSUME Settled
    PROVE  Spec => []LostMeansGone
<1>1. IInv => LostMeansGone
  <2> SUFFICES ASSUME IInv, NEW l \in Loops, pc[l] = "onLost"
               PROVE  /\ sock[l] \in Sockets
                      /\ lost[l] = "1006" => peer[sock[l]] # "up"
                      /\ lost[l] = "1000" => PeerGone(sock[l])
      BY DEF LostMeansGone
  <2>1. Alive(l)
        BY DEF Alive
  <2> QED
        BY <2>1 DEF IInv, Serving, Reasons, Reason, PeerGone, CloseSeen
<1> QED
      BY <1>1, Invariance, PTL

\* When LostConnectionCallback runs, no connection is open.
THEOREM LossIsToldAfter ==
    ASSUME Settled
    PROVE  Spec => []LostMeansNotOpen
<1>1. IInv => LostMeansNotOpen
      BY DEF IInv, Ended
<1> QED
      BY <1>1, Invariance, PTL

\* A receive thread's Shutdown closes the socket that thread reads, and no other.
THEOREM OwnSocketOnly ==
    ASSUME Settled
    PROVE  Spec => ClosesOwnSocket
<1>1. ASSUME IInv, [Next]_vars, NEW l \in Loops, CloseSocket(l), NEW s \in Sockets,
             fd[s] # fd'[s]
      PROVE  s = sock[l]
  <2>1. sock[l] = wsSocket
        BY <1>1 DEF IInv, Serving, CloseSocket, At, Alive
  <2>2. fd \in [Sockets -> {"unused", "open", "closed"}]
        BY <1>1 DEF IInv, TypeOK
  <2> QED
        BY <1>1, <2>1, <2>2 DEF CloseSocket
<1>2. IInv /\ [Next]_vars =>
          [\A l \in Loops : CloseSocket(l) =>
               \A s \in Sockets : fd[s] # fd'[s] => s = sock[l]]_vars
      BY <1>1
<1> QED
      BY <1>2, Invariance, PTL DEF Spec, ClosesOwnSocket

-----------------------------------------------------------------------------
(* While the status says Open *)

Served == status = "Open" => \E l \in Loops : Alive(l)

LEMMA ServedNext ==
    ASSUME TypeOK, Places, Ended, Served, [Next]_vars
    PROVE  Served'
<1> USE DEF Served, Alive, shared, stream, threadVars, At, GoTo, Call, Threads
<1>0. /\ status \in {"Open", "Closing", "Closed"} /\ pc \in [Threads -> Labels]
      /\ \A l \in Loops : pc[l] \in StopLabels => ret[l] \in {"onLost", "done"}
      /\ \A l \in Loops : pc[l] \in CloseLabels => ret[l] = "closeSent"
      /\ \A l \in Loops : pc[l] \in LoopPlaces
      /\ \A t \in Threads : pc[t] = "closeSocket" => status # "Open"
      /\ \A l \in Loops : pc[l] = "onLost" => status # "Open"
    BY DEF TypeOK, Places, Ended, LostMeansNotOpen
<1>1. ASSUME NEW c \in Callers, ConnectAssign(c) PROVE Served'
    BY <1>1, <1>0, ThreadsAssumption DEF ConnectAssign
<1>2. ASSUME NEW c \in Callers, ConnectRefused(c) PROVE Served'
    BY <1>2, <1>0, ThreadsAssumption DEF ConnectRefused
<1>3. ASSUME NEW c \in Callers, HandshakeSend(c) PROVE Served'
    BY <1>3, <1>0, ThreadsAssumption DEF HandshakeSend
<1>4. ASSUME NEW c \in Callers, HandshakeFails(c) PROVE Served'
    BY <1>4, <1>0, ThreadsAssumption DEF HandshakeFails
<1>5. ASSUME NEW c \in Callers, HandshakeRecv(c) PROVE Served'
    BY <1>5, <1>0, ThreadsAssumption DEF HandshakeRecv
<1>6. ASSUME NEW t \in Threads, ShutdownCheck(t) PROVE Served'
    BY <1>6, <1>0, ThreadsAssumption, PlaceNames DEF ShutdownCheck, StopLabels, CloseLabels, CallbackLabels, AfterCallback
<1>7. ASSUME NEW t \in Threads, MarkClosed(t) PROVE Served'
    BY <1>7, <1>0, ThreadsAssumption DEF MarkClosed
<1>8. ASSUME NEW t \in Threads, CloseSocket(t) PROVE Served'
    BY <1>8, <1>0, ThreadsAssumption, PlaceNames DEF CloseSocket, StopLabels, CloseLabels, CallbackLabels, AfterCallback
<1>9. ASSUME NEW t \in Threads, CloseCheck(t) PROVE Served'
    BY <1>9, <1>0, ThreadsAssumption, PlaceNames DEF CloseCheck, StopLabels, CloseLabels, CallbackLabels, AfterCallback
<1>10. ASSUME NEW t \in Threads, MarkClosing(t) PROVE Served'
    BY <1>10, <1>0, ThreadsAssumption DEF MarkClosing
<1>11. ASSUME NEW t \in Threads, SendClose(t) PROVE Served'
    BY <1>11, <1>0, ThreadsAssumption, PlaceNames DEF SendClose, StopLabels, CloseLabels, CallbackLabels, AfterCallback
<1>12. ASSUME NEW t \in Threads, SendCloseFails(t) PROVE Served'
    BY <1>12, <1>0, ThreadsAssumption DEF SendCloseFails
<1>13. ASSUME NEW t \in Threads, SendCheck(t) PROVE Served'
    BY <1>13, <1>0, ThreadsAssumption, PlaceNames DEF SendCheck, StopLabels, CloseLabels, CallbackLabels, AfterCallback
<1>14. ASSUME NEW t \in Threads, SendData(t) PROVE Served'
    BY <1>14, <1>0, ThreadsAssumption, PlaceNames DEF SendData, StopLabels, CloseLabels, CallbackLabels, AfterCallback
<1>15. ASSUME NEW t \in Threads, SendDataFails(t) PROVE Served'
    BY <1>15, <1>0, ThreadsAssumption, PlaceNames DEF SendDataFails, StopLabels, CloseLabels, CallbackLabels, AfterCallback
<1>16. ASSUME NEW l \in Loops, LoopStart(l) PROVE Served'
    BY <1>16, <1>0, ThreadsAssumption DEF LoopStart
<1>17. ASSUME NEW l \in Loops, LoopWhile(l) PROVE Served'
    BY <1>17, <1>0, ThreadsAssumption DEF LoopWhile
<1>18. ASSUME NEW l \in Loops, Select(l) PROVE Served'
    BY <1>18, <1>0, ThreadsAssumption DEF Select
<1>19. ASSUME NEW l \in Loops, RecvData(l) PROVE Served'
    BY <1>19, <1>0, ThreadsAssumption DEF RecvData
<1>20. ASSUME NEW l \in Loops, RecvEnd(l) PROVE Served'
    BY <1>20, <1>0, ThreadsAssumption DEF RecvEnd
<1>21. ASSUME NEW l \in Loops, RecvFailed(l) PROVE Served'
    BY <1>21, <1>0, ThreadsAssumption DEF RecvFailed
<1>22. ASSUME NEW l \in Loops, ParseIncomplete(l) PROVE Served'
    BY <1>22, <1>0, ThreadsAssumption DEF ParseIncomplete
<1>23. ASSUME NEW l \in Loops, ParseFrame(l) PROVE Served'
    BY <1>23, <1>0, ThreadsAssumption DEF ParseFrame, Dispatch
<1>24. ASSUME NEW l \in Loops, PongCheck(l) PROVE Served'
    BY <1>24, <1>0, ThreadsAssumption DEF PongCheck
<1>25. ASSUME NEW l \in Loops, SendPong(l) PROVE Served'
    BY <1>25, <1>0, ThreadsAssumption DEF SendPong
<1>26. ASSUME NEW l \in Loops, SendPongFails(l) PROVE Served'
    BY <1>26, <1>0, ThreadsAssumption DEF SendPongFails
<1>27. ASSUME NEW l \in Loops, CloseFrame(l) \/ CloseFrameAgain(l) PROVE Served'
    BY <1>27, <1>0, ThreadsAssumption DEF CloseFrame, CloseFrameAgain
<1>28. ASSUME NEW l \in Loops, CloseSent(l) PROVE Served'
    BY <1>28, <1>0, ThreadsAssumption DEF CloseSent
<1>29. ASSUME NEW l \in Loops, CallbackReturn(l) PROVE Served'
    BY <1>29, <1>0, ThreadsAssumption, PlaceNames DEF CallbackReturn, StopLabels, CloseLabels, CallbackLabels, AfterCallback
<1>30. ASSUME NEW s \in Sockets, PeerAnswer(s) PROVE Served'
    BY <1>30, <1>0, ThreadsAssumption DEF PeerAnswer
<1>31. ASSUME NEW s \in Sockets, PeerSend(s) PROVE Served'
    BY <1>31, <1>0, ThreadsAssumption DEF PeerSend
<1>32. ASSUME NEW s \in Sockets, PeerEnds(s) PROVE Served'
    BY <1>32, <1>0, ThreadsAssumption DEF PeerEnds
<1>33. ASSUME NEW c \in Callers, NEW r \in Routines, Invoke(c, r) PROVE Served'
    BY <1>33, RoutinesAssumption, <1>0, ThreadsAssumption DEF Invoke
<1>34. CASE Terminated \/ UNCHANGED vars
    BY <1>34 DEF Terminated, vars
<1> QED
    BY <1>1, <1>2, <1>3, <1>4, <1>5, <1>6, <1>7, <1>8, <1>9, <1>10, <1>11,
       <1>12, <1>13, <1>14, <1>15, <1>16, <1>17, <1>18, <1>19, <1>20, <1>21,
       <1>22, <1>23, <1>24, <1>25, <1>26, <1>27, <1>28, <1>29, <1>30, <1>31,
       <1>32, <1>33, <1>34
       DEF Next, UserStep, CallerStep, Subroutine, LoopStep, Peer, Threads

\* While the status says Open, a thread receives from the socket there is to send on.
THEOREM OpenHasThread ==
    ASSUME Settled
    PROVE  Spec => []OpenIsServed
<1>1. Init => Served
      BY DEF Init, Served
<1>2. IInv /\ Served /\ [Next]_vars => Served'
      BY ServedNext DEF IInv
<1>3. IInv /\ Served => OpenIsServed
      BY DEF IInv, Served, Serving, OpenIsServed
<1> QED
      BY <1>1, <1>2, <1>3, Invariance, PTL DEF Spec

-----------------------------------------------------------------------------
(* What TryParseFrame makes of the lengths that senders write *)

\* A length of up to 65535 is read as it was written.
THEOREM ShortLengthsRead ==
    ASSUME NEW len \in Lengths, Fits16(len)
    PROVE  ReadAs(len) = len
<1>1. \A i \in 1..8 : len[i] \in 0..255
    BY DEF Lengths, Byte
<1>2. len = [i \in 1..8 |-> len[i]]
    BY DEF Lengths
<1>3. \A i \in 1..6 : len[i] = 0
    BY DEF Fits16
<1>4. CASE Fits7(len)
  <2>1. LengthField(len) = <<len[8]>> /\ len[8] \in 0..125 /\ len[7] = 0
      BY <1>4, <1>1 DEF LengthField, Fits7
  <2>2. ReadAs(len) = [i \in 1..8 |-> IF i < 8 THEN 0 ELSE len[8]]
      BY <2>1 DEF ReadAs, FieldRead
  <2>3. \A i \in 1..8 : len[i] = IF i < 8 THEN 0 ELSE len[8]
      BY <2>1, <1>3
  <2> QED
      BY <2>2, <2>3, <1>2
<1>5. CASE ~Fits7(len)
  <2>1. LengthField(len) = <<126, len[7], len[8]>>
      BY <1>5 DEF LengthField
  <2>2. ReadAs(len) =
            [i \in 1..8 |-> IF i < 7 THEN 0 ELSE <<126, len[7], len[8]>>[i - 5]]
      BY <2>1 DEF ReadAs, FieldRead
  <2>3. \A i \in 1..8 :
            len[i] = IF i < 7 THEN 0 ELSE <<126, len[7], len[8]>>[i - 5]
      BY <1>3
  <2> QED
      BY <2>2, <2>3, <1>2
<1> QED
    BY <1>4, <1>5

\* A longer one, below 2^32, is read as one of at least 2^32, which is more than the
\* frame has: RecvLoop waits for bytes that do not come.
THEOREM LongLengthsMisread ==
    ASSUME NEW len \in Lengths, Fits32(len), ~Fits16(len)
    PROVE  ~Fits32(ReadAs(len)) /\ ~AtMost(ReadAs(len), len)
<1>1. \A i \in 1..8 : len[i] \in 0..255
    BY DEF Lengths, Byte
<1>2. LengthField(len) = [i \in 1..9 |-> IF i = 1 THEN 127 ELSE len[i - 1]]
    BY DEF LengthField, Fits7
<1>3. LengthField(len)[1] = 127 /\ \A i \in 1..8 : LengthField(len)[10 - i] = len[9 - i]
    BY <1>2
<1>4. ReadAs(len) = [i \in 1..8 |-> LengthField(len)[10 - i]]
    BY <1>3 DEF ReadAs, FieldRead
<1>5. \A i \in 1..8 : ReadAs(len)[i] = len[9 - i]
    BY <1>3, <1>4
<1>6. \A i \in 1..4 : len[i] = 0
    BY DEF Fits32
<1>7. PICK i \in 5..6 : len[i] # 0
    BY <1>6 DEF Fits16
<1>8. 9 - i \in 1..4 /\ ReadAs(len)[9 - i] = len[i] /\ 9 - (9 - i) = i
    BY <1>7, <1>5
<1>9. ~Fits32(ReadAs(len))
    BY <1>7, <1>8 DEF Fits32
<1>10. ReadAs(len) # len
    BY <1>8, <1>6, <1>7
<1>11. ASSUME NEW k \in 1..8, ReadAs(len)[k] < len[k],
              \A j \in 1..(k - 1) : ReadAs(len)[j] = len[j]
       PROVE  FALSE
  <2>1. k \in 5..8
      BY <1>11, <1>5, <1>6, <1>1
  <2>2. 9 - i \in 1..(k - 1)
      BY <2>1, <1>8
  <2> QED
      BY <2>2, <1>11, <1>8, <1>6, <1>7
<1> QED
    BY <1>9, <1>10, <1>11 DEF AtMost

-----------------------------------------------------------------------------
(* Frames in the buffer *)

\* Frames up to 65535 bytes are recognised when they are complete.
LEMMA ShortIsWhole ==
    ASSUME NEW kind \in Kinds, kind # "Long"
    PROVE  Whole(kind)
<1>1. SizeOf(kind) \in Lengths /\ Fits16(SizeOf(kind))
    BY DEF SizeOf, Kinds, Lengths, Byte, Fits16
<1> QED
    BY <1>1, ShortLengthsRead DEF Whole, AtMost

\* Where a receive thread has less than a frame in its buffer.
WaitLabels ==
    {"unborn", "start", "while", "select", "selectError", "recv", "parseError"}

Waiting == \A l \in Loops : pc[l] \in WaitLabels => buf[l] < PartsPerFrame

LEMMA WaitingNext ==
    ASSUME IInv, "Long" \notin FrameKinds, Waiting, [Next]_vars
    PROVE  Waiting'
<1> USE DEF Waiting, WaitLabels, PartsPerFrame, shared, stream, threadVars, At, GoTo, Call, Threads
<1>0. /\ status \in {"Open", "Closing", "Closed"}
      /\ pc \in [Threads -> Labels] /\ buf \in [Loops -> Nat]
      /\ \A l \in Loops : pc[l] \in StopLabels => ret[l] \in {"onLost", "done"}
      /\ \A l \in Loops : pc[l] \in CloseLabels => ret[l] = "closeSent"
      /\ \A l \in Loops : pc[l] \in LoopPlaces
    BY DEF IInv, TypeOK, Places
<1>1. ASSUME NEW c \in Callers, ConnectAssign(c) PROVE Waiting'
    BY <1>1, <1>0, ThreadsAssumption DEF ConnectAssign
<1>2. ASSUME NEW c \in Callers, ConnectRefused(c) PROVE Waiting'
    BY <1>2, <1>0, ThreadsAssumption DEF ConnectRefused
<1>3. ASSUME NEW c \in Callers, HandshakeSend(c) PROVE Waiting'
    BY <1>3, <1>0, ThreadsAssumption DEF HandshakeSend
<1>4. ASSUME NEW c \in Callers, HandshakeFails(c) PROVE Waiting'
    BY <1>4, <1>0, ThreadsAssumption DEF HandshakeFails
<1>5. ASSUME NEW c \in Callers, HandshakeRecv(c) PROVE Waiting'
    BY <1>5, <1>0, ThreadsAssumption DEF HandshakeRecv
<1>6. ASSUME NEW t \in Threads, ShutdownCheck(t) PROVE Waiting'
    BY <1>6, <1>0, ThreadsAssumption, PlaceNames DEF ShutdownCheck, StopLabels, CloseLabels, CallbackLabels, AfterCallback
<1>7. ASSUME NEW t \in Threads, MarkClosed(t) PROVE Waiting'
    BY <1>7, <1>0, ThreadsAssumption DEF MarkClosed
<1>8. ASSUME NEW t \in Threads, CloseSocket(t) PROVE Waiting'
    BY <1>8, <1>0, ThreadsAssumption, PlaceNames DEF CloseSocket, StopLabels, CloseLabels, CallbackLabels, AfterCallback
<1>9. ASSUME NEW t \in Threads, CloseCheck(t) PROVE Waiting'
    BY <1>9, <1>0, ThreadsAssumption, PlaceNames DEF CloseCheck, StopLabels, CloseLabels, CallbackLabels, AfterCallback
<1>10. ASSUME NEW t \in Threads, MarkClosing(t) PROVE Waiting'
    BY <1>10, <1>0, ThreadsAssumption DEF MarkClosing
<1>11. ASSUME NEW t \in Threads, SendClose(t) PROVE Waiting'
    BY <1>11, <1>0, ThreadsAssumption, PlaceNames DEF SendClose, StopLabels, CloseLabels, CallbackLabels, AfterCallback
<1>12. ASSUME NEW t \in Threads, SendCloseFails(t) PROVE Waiting'
    BY <1>12, <1>0, ThreadsAssumption DEF SendCloseFails
<1>13. ASSUME NEW t \in Threads, SendCheck(t) PROVE Waiting'
    BY <1>13, <1>0, ThreadsAssumption, PlaceNames DEF SendCheck, StopLabels, CloseLabels, CallbackLabels, AfterCallback
<1>14. ASSUME NEW t \in Threads, SendData(t) PROVE Waiting'
    BY <1>14, <1>0, ThreadsAssumption, PlaceNames DEF SendData, StopLabels, CloseLabels, CallbackLabels, AfterCallback
<1>15. ASSUME NEW t \in Threads, SendDataFails(t) PROVE Waiting'
    BY <1>15, <1>0, ThreadsAssumption, PlaceNames DEF SendDataFails, StopLabels, CloseLabels, CallbackLabels, AfterCallback
<1>16. ASSUME NEW l \in Loops, LoopStart(l) PROVE Waiting'
    BY <1>16, <1>0, ThreadsAssumption DEF LoopStart
<1>17. ASSUME NEW l \in Loops, LoopWhile(l) PROVE Waiting'
    BY <1>17, <1>0, ThreadsAssumption DEF LoopWhile
<1>18. ASSUME NEW l \in Loops, Select(l) PROVE Waiting'
    BY <1>18, <1>0, ThreadsAssumption DEF Select
<1>19. ASSUME NEW l \in Loops, RecvData(l) PROVE Waiting'
    BY <1>19, <1>0, ThreadsAssumption DEF RecvData
<1>20. ASSUME NEW l \in Loops, RecvEnd(l) PROVE Waiting'
    BY <1>20, <1>0, ThreadsAssumption DEF RecvEnd
<1>21. ASSUME NEW l \in Loops, RecvFailed(l) PROVE Waiting'
    BY <1>21, <1>0, ThreadsAssumption DEF RecvFailed
<1>22. ASSUME NEW l \in Loops, ParseIncomplete(l) PROVE Waiting'
  <2>1. pc[l] = "parse"
        BY <1>22 DEF ParseIncomplete
  <2>2. CASE buf[l] < 3
        BY <1>22, <1>0, ThreadsAssumption, <2>2 DEF ParseIncomplete
  <2>3. CASE buf[l] >= 3
    <3>1. PICK i \in 1..Len(sent[sock[l]]) : HeadFrame(l) = sent[sock[l]][i]
          BY <2>1, <2>3, HeadFrameSent DEF IInv, Alive
    <3>2. sock[l] \in Sockets
          BY <2>1 DEF IInv, Serving, Alive
    <3>3. HeadFrame(l) \in FrameKinds
          BY <3>1, <3>2 DEF IInv, TypeOK
    <3>4. Whole(HeadFrame(l))
          BY <3>3, FramesAssumption, ShortIsWhole
    <3> QED
          BY <1>22, <2>3, <3>4 DEF ParseIncomplete
  <2> QED
        BY <1>0, <2>2, <2>3
<1>23. ASSUME NEW l \in Loops, ParseFrame(l) PROVE Waiting'
    BY <1>23, <1>0, ThreadsAssumption DEF ParseFrame, Dispatch
<1>24. ASSUME NEW l \in Loops, PongCheck(l) PROVE Waiting'
    BY <1>24, <1>0, ThreadsAssumption DEF PongCheck
<1>25. ASSUME NEW l \in Loops, SendPong(l) PROVE Waiting'
    BY <1>25, <1>0, ThreadsAssumption DEF SendPong
<1>26. ASSUME NEW l \in Loops, SendPongFails(l) PROVE Waiting'
    BY <1>26, <1>0, ThreadsAssumption DEF SendPongFails
<1>27. ASSUME NEW l \in Loops, CloseFrame(l) \/ CloseFrameAgain(l) PROVE Waiting'
  <2>1. buf' = buf /\ \E label \in {"shutdown", "close", "closeAgain", "done"} : GoTo(l, label)
        BY <1>27, <1>0 DEF CloseFrame, CloseFrameAgain
  <2> QED
        BY <2>1, <1>0, ThreadsAssumption
<1>28. ASSUME NEW l \in Loops, CloseSent(l) PROVE Waiting'
    BY <1>28, <1>0, ThreadsAssumption DEF CloseSent
<1>29. ASSUME NEW l \in Loops, CallbackReturn(l) PROVE Waiting'
    BY <1>29, <1>0, ThreadsAssumption, PlaceNames DEF CallbackReturn, StopLabels, CloseLabels, CallbackLabels, AfterCallback
<1>30. ASSUME NEW s \in Sockets, PeerAnswer(s) PROVE Waiting'
    BY <1>30, <1>0, ThreadsAssumption DEF PeerAnswer
<1>31. ASSUME NEW s \in Sockets, PeerSend(s) PROVE Waiting'
    BY <1>31, <1>0, ThreadsAssumption DEF PeerSend
<1>32. ASSUME NEW s \in Sockets, PeerEnds(s) PROVE Waiting'
    BY <1>32, <1>0, ThreadsAssumption DEF PeerEnds
<1>33. ASSUME NEW c \in Callers, NEW r \in Routines, Invoke(c, r) PROVE Waiting'
    BY <1>33, RoutinesAssumption, <1>0, ThreadsAssumption DEF Invoke
<1>34. CASE Terminated \/ UNCHANGED vars
    BY <1>34 DEF Terminated, vars
<1> QED
    BY <1>1, <1>2, <1>3, <1>4, <1>5, <1>6, <1>7, <1>8, <1>9, <1>10, <1>11,
       <1>12, <1>13, <1>14, <1>15, <1>16, <1>17, <1>18, <1>19, <1>20, <1>21,
       <1>22, <1>23, <1>24, <1>25, <1>26, <1>27, <1>28, <1>29, <1>30, <1>31,
       <1>32, <1>33, <1>34
       DEF Next, UserStep, CallerStep, Subroutine, LoopStep, Peer, Threads

\* RecvLoop does not wait for more bytes with a whole frame in its buffer, if none of the
\* peer's frames is longer than 65535 bytes.
THEOREM FramesAreHandled ==
    ASSUME Settled, "Long" \notin FrameKinds
    PROVE  Spec => []NothingWaits
<1>1. Init => Waiting
      BY ThreadsAssumption DEF Init, Waiting, PartsPerFrame
<1>2. IInv /\ Waiting /\ [Next]_vars => Waiting'
      BY WaitingNext
<1>3. Waiting => NothingWaits
      BY DEF Waiting, WaitLabels, NothingWaits
<1> QED
      BY <1>1, <1>2, <1>3, Invariance, PTL DEF Spec

-----------------------------------------------------------------------------
(* The client implements ConnectionPromise *)

Born(l) == pc[l] # "unborn"
Told(l) == lost[l] # "no" /\ pc[l] \in {"onLost", "done"}

\* Every connection has a socket of its own, also those that are over and the one
\* being made; a code for LostConnectionCallback is set on the way to it only.
Owned ==
    /\ \A l \in Loops : Born(l) => SocketOf(l) \in Sockets /\ fd[SocketOf(l)] # "unused"
    /\ \A l, m \in Loops : Born(l) /\ Born(m) /\ SocketOf(l) = SocketOf(m) => l = m
    /\ \A c \in Callers, l \in Loops : Connecting(c) /\ Born(l) => SocketOf(l) # wsSocket
    /\ \A l \in Loops : lost[l] # "no" => pc[l] \in StopLabels \cup {"onLost", "done"}

\* The kinds of steps: a connection is made, the peer does something, the status is
\* changed, or neither status nor peer matters.
LEMMA StepKinds ==
    ASSUME [Next]_vars
    PROVE  \/ \E c \in Callers : HandshakeRecv(c)
           \/ \E s \in Sockets : PeerSend(s) \/ PeerEnds(s)
           \/ \E t \in Threads : MarkClosed(t) \/ MarkClosing(t)
           \/ UNCHANGED <<status, peer, sent>>
<1> USE DEF shared, stream, threadVars
<1>1. ASSUME NEW c \in Callers, UserStep(c) PROVE UNCHANGED <<status, peer, sent>>
      BY <1>1 DEF UserStep, ConnectAssign, ConnectRefused, Invoke
<1>2. ASSUME NEW c \in Callers, CallerStep(c), ~HandshakeRecv(c)
      PROVE  UNCHANGED <<status, peer, sent>>
      BY <1>2 DEF CallerStep, HandshakeSend, HandshakeFails
<1>3. ASSUME NEW t \in Threads, Subroutine(t), ~MarkClosed(t), ~MarkClosing(t)
      PROVE  UNCHANGED <<status, peer, sent>>
      BY <1>3 DEF Subroutine, ShutdownCheck, CloseSocket, CloseCheck, SendClose,
         SendCloseFails, SendCheck, SendData, SendDataFails
<1>4. ASSUME NEW l \in Loops, LoopStep(l) \/ CallbackReturn(l)
      PROVE  UNCHANGED <<status, peer, sent>>
      BY <1>4 DEF LoopStep, LoopStart, LoopWhile, Select, RecvData, RecvEnd, RecvFailed,
           ParseIncomplete, ParseFrame, PongCheck, SendPong, SendPongFails,
           CloseFrame, CloseFrameAgain, CloseSent, CallbackReturn
<1>5. ASSUME NEW s \in Sockets, PeerAnswer(s) PROVE UNCHANGED <<status, peer, sent>>
      BY <1>5 DEF PeerAnswer
<1>6. CASE Terminated \/ UNCHANGED vars
      BY <1>6 DEF Terminated, vars
<1> QED
      BY <1>1, <1>2, <1>3, <1>4, <1>5, <1>6 DEF Next, Peer, Threads

\* What any step does to a receive thread.
LEMMA LoopKept ==
    ASSUME IInv, Owned, Settled, [Next]_vars, NEW l \in Loops
    PROVE  /\ pc[l] = "done" => pc'[l] = "done"
           /\ Born(l) => Born(l)' /\ SocketOf(l)' = SocketOf(l)
           /\ (\A c \in Callers : ~HandshakeRecv(c)) => (Born(l)' => Born(l))
           /\ lost'[l] # "no" => pc'[l] \in StopLabels \cup {"onLost", "done"}
           /\ Told(l) => Told(l)'
           /\ ~Told(l) /\ Told(l)' =>
                 /\ pc[l] \in StopLabels /\ status # "Open"
                 /\ UNCHANGED <<status, peer, sent, lost>>
                 /\ \A m \in Loops \ {l} : pc'[m] = pc[m]
<1> USE DEF shared, stream, threadVars, At, GoTo, Call, Born, Told, SocketOf
<1>0. /\ pc \in [Threads -> Labels] /\ Threads = Callers \cup Loops
      /\ sock \in [Threads -> Sockets \cup {NoSocket}]
      /\ lost \in [Loops -> {"no", "1006", "1000"}]
      /\ status \in {"Open", "Closing", "Closed"}
      BY DEF IInv, TypeOK, Threads
<1>a. lost[l] # "no" => pc[l] \in StopLabels \cup {"onLost", "done"}
      BY DEF Owned
\* A step that leaves the thread, its socket and its code alone.
<1>b. ASSUME pc'[l] = pc[l], sock'[l] = sock[l], lost'[l] = lost[l],
             pc[l] = "start" => wsSocket' = wsSocket
      PROVE  /\ pc[l] = "done" => pc'[l] = "done"
             /\ Born(l) => Born(l)' /\ SocketOf(l)' = SocketOf(l)
             /\ Born(l)' => Born(l)
             /\ lost'[l] # "no" => pc'[l] \in StopLabels \cup {"onLost", "done"}
             /\ Told(l) => Told(l)'
             /\ ~(~Told(l) /\ Told(l)')
      BY <1>b, <1>a
<1>1. ASSUME NEW c \in Callers, ConnectAssign(c) \/ ConnectRefused(c)
      PROVE  pc'[l] = pc[l] /\ sock' = sock /\ lost' = lost /\ pc[l] # "start"
      BY <1>0, <1>1, ThreadsAssumption
      DEF ConnectAssign, ConnectRefused, ConnectAllowed, Quiet, StartedLoops
<1>2. ASSUME NEW c \in Callers, HandshakeSend(c) \/ HandshakeFails(c)
      PROVE  pc'[l] = pc[l] /\ sock'[l] = sock[l] /\ lost' = lost /\ wsSocket' = wsSocket
      BY <1>0, <1>2, ThreadsAssumption DEF HandshakeSend, HandshakeFails
<1>3. ASSUME NEW c \in Callers, NEW r \in Routines, Invoke(c, r)
      PROVE  pc'[l] = pc[l] /\ sock' = sock /\ lost' = lost /\ wsSocket' = wsSocket
      BY <1>0, <1>3, ThreadsAssumption DEF Invoke
<1>4. ASSUME NEW c \in Callers, HandshakeRecv(c)
      PROVE  /\ UNCHANGED <<sock, lost, wsSocket>>
             /\ pc[l] # "unborn" => pc'[l] = pc[l]
             /\ pc[l] = "unborn" => pc'[l] \in {"unborn", "start"}
  <2>1. PICK m \in Loops : /\ pc[m] = "unborn"
                           /\ pc' = [pc EXCEPT ![c] = "idle", ![m] = "start"]
        BY <1>4 DEF HandshakeRecv
  <2> QED
        BY <1>0, <1>4, <2>1, ThreadsAssumption DEF HandshakeRecv
<1>5. ASSUME NEW s \in Sockets, Peer(s)
      PROVE  UNCHANGED <<pc, sock, lost, wsSocket>>
      BY <1>5 DEF Peer, PeerAnswer, PeerSend, PeerEnds
<1>6. CASE Terminated \/ UNCHANGED vars
      BY <1>6, <1>b DEF Terminated, vars
<1>7. ASSUME NEW t \in Threads, Subroutine(t), t # l
      PROVE  pc'[l] = pc[l] /\ sock' = sock /\ lost' = lost /\ wsSocket' = wsSocket
      BY <1>7, <1>0, SubroutineFrame DEF IInv
<1>8. ASSUME NEW k \in Loops, LoopStep(k) \/ CallbackReturn(k), k # l
      PROVE  pc'[l] = pc[l] /\ sock'[l] = sock[l] /\ lost'[l] = lost[l] /\ wsSocket' = wsSocket
  <2>1. pc'[l] = pc[l] /\ wsSocket' = wsSocket
        BY <1>0, <1>8, LoopFrame DEF IInv
  <2>2. sock'[l] = sock[l] /\ lost'[l] = lost[l]
        BY <1>0, <1>8
        DEF LoopStep, LoopStart, LoopWhile, Select, RecvData, RecvEnd, RecvFailed,
            ParseIncomplete, ParseFrame, PongCheck, SendPong, SendPongFails,
            CloseFrame, CloseFrameAgain, CloseSent, CallbackReturn
  <2> QED
        BY <2>1, <2>2
<1>9. ASSUME Subroutine(l)
      PROVE  /\ pc[l] \in StopLabels \cup CloseLabels
             /\ pc'[l] \in {"closeSent", "onLost", "done"} \cup StopLabels \cup CloseLabels
             /\ pc[l] \in StopLabels => pc'[l] \in {"onLost", "done"} \cup StopLabels
             /\ UNCHANGED <<sock, lost, wsSocket, peer, sent>>
             /\ \A m \in Loops \ {l} : pc'[m] = pc[m]
             /\ pc[l] \in StopLabels /\ pc'[l] \notin StopLabels =>
                   status' = status /\ status # "Open"
  <2>1. l \in Threads /\ \A m \in Loops : m \in Threads
        BY <1>0
  <2>2. /\ pc[l] \in StopLabels \cup CloseLabels
        /\ pc'[l] \in {"closeSent", "onLost", "done"} \cup StopLabels \cup CloseLabels
        /\ pc'[l] \in {"closeSent"} \cup CloseLabels => pc[l] \in CloseLabels
        /\ UNCHANGED <<sock, lost, wsSocket, peer, sent>>
        /\ \A m \in Loops \ {l} : pc'[m] = pc[m]
        BY <1>9, <2>1, SubroutineFrame DEF IInv
  <2>3. ASSUME pc[l] \in StopLabels, pc'[l] \notin StopLabels
        PROVE  status' = status /\ status # "Open"
    <3>1. ShutdownCheck(l) \/ MarkClosed(l) \/ CloseSocket(l)
          BY <1>9, <2>3 DEF Subroutine, ShutdownCheck, MarkClosed, CloseSocket, CloseCheck,
             MarkClosing, SendClose, SendCloseFails, SendCheck, SendData, SendDataFails,
             StopLabels
    <3>2. CASE ShutdownCheck(l)
          BY <1>0, <2>1, <2>3, <3>2 DEF ShutdownCheck, StopLabels
    <3>3. CASE MarkClosed(l)
          BY <1>0, <2>1, <2>3, <3>3 DEF MarkClosed, StopLabels
    <3>4. CASE CloseSocket(l)
          BY <1>0, <2>1, <3>4 DEF CloseSocket, IInv, Ended
    <3> QED
          BY <3>1, <3>2, <3>3, <3>4
  <2> QED
        BY <2>2, <2>3 DEF StopLabels, CloseLabels
<1>10. ASSUME LoopStep(l) \/ CallbackReturn(l)
       PROVE  /\ pc[l] # "done" /\ Born(l) /\ Born(l)'
              /\ SocketOf(l)' = SocketOf(l)
              /\ lost'[l] # "no" => pc'[l] \in StopLabels \cup {"onLost", "done"}
              /\ Told(l) => Told(l)'
              /\ ~(~Told(l) /\ Told(l)')
  <2>1. Alive(l) /\ pc'[l] # "unborn" /\ wsSocket' = wsSocket
        BY <1>10, LoopFrame DEF IInv
  <2>2. CASE LoopStart(l)
        BY <1>0, <1>a, <2>2 DEF LoopStart, StopLabels
  <2>3. CASE RecvFailed(l)
        BY <1>0, <1>a, <2>3 DEF RecvFailed, StopLabels
  <2>4. CASE CloseSent(l)
        BY <1>0, <1>a, <2>4 DEF CloseSent, StopLabels
  <2>5. CASE CallbackReturn(l)
    <3>1. /\ pc[l] = "onLost" => pc'[l] = "done"
          /\ pc[l] # "onLost" => pc'[l] \notin {"onLost", "done", "start"}
          /\ pc[l] \in CallbackLabels /\ UNCHANGED <<sock, lost>>
          BY <1>0, <2>5 DEF CallbackReturn, AfterCallback, CallbackLabels
    <3> QED
          BY <1>a, <2>1, <3>1 DEF CallbackLabels, StopLabels, Alive
  <2>6. CASE LoopStep(l) /\ ~LoopStart(l) /\ ~RecvFailed(l) /\ ~CloseSent(l)
    <3>1. UNCHANGED <<sock, lost>>
          BY <2>6 DEF LoopStep, LoopWhile, Select, RecvData, RecvEnd,
             ParseIncomplete, ParseFrame, PongCheck, SendPong, SendPongFails, CloseFrame, CloseFrameAgain
    <3>2. pc[l] \notin StopLabels \cup {"onLost", "done", "start"}
          BY <2>6 DEF LoopStep, LoopWhile, Select, RecvData, RecvEnd,
             ParseIncomplete, ParseFrame, PongCheck, SendPong, SendPongFails, CloseFrame, CloseFrameAgain,
             StopLabels
    <3>3. \E label : label # "start" /\ GoTo(l, label)
      <4>1. CASE CloseFrame(l) \/ CloseFrameAgain(l)
            BY <1>0, <4>1 DEF CloseFrame, CloseFrameAgain
      <4>2. CASE ~CloseFrame(l) /\ ~CloseFrameAgain(l)
            BY <2>6, <4>2 DEF LoopStep, LoopWhile, Select, RecvData, RecvEnd,
               ParseIncomplete, ParseFrame, PongCheck, SendPong, SendPongFails, Dispatch
      <4> QED
            BY <4>1, <4>2
    <3> QED
          BY <1>0, <1>a, <2>1, <3>1, <3>2, <3>3 DEF Alive
  <2> QED
        BY <1>10, <2>1, <2>2, <2>3, <2>4, <2>5, <2>6 DEF Alive
<1>12. CASE Subroutine(l)
      BY <1>a, <1>9, <1>12 DEF StopLabels, CloseLabels
<1>13. CASE LoopStep(l) \/ CallbackReturn(l)
      BY <1>10, <1>13
<1>14. CASE \E c \in Callers : HandshakeRecv(c)
      BY <1>4, <1>14, <1>a DEF StopLabels
<1>15. CASE \E c \in Callers : UserStep(c) \/ HandshakeSend(c) \/ HandshakeFails(c)
  <2>1. PICK c \in Callers : UserStep(c) \/ HandshakeSend(c) \/ HandshakeFails(c)
        BY <1>15
  <2>2. /\ pc'[l] = pc[l] /\ sock'[l] = sock[l] /\ lost' = lost
        /\ pc[l] = "start" => wsSocket' = wsSocket
        BY <2>1, <1>1, <1>2, <1>3 DEF UserStep
  <2> QED
        BY <2>2, <1>b
<1>16. CASE \E t \in Threads : t # l /\ Subroutine(t)
      BY <1>7, <1>16, <1>b
<1>17. CASE \E k \in Loops : k # l /\ (LoopStep(k) \/ CallbackReturn(k))
      BY <1>8, <1>17, <1>b
<1>18. CASE \E s \in Sockets : Peer(s)
      BY <1>5, <1>18, <1>b
<1> QED
      BY <1>6, <1>12, <1>13, <1>14, <1>15, <1>16, <1>17, <1>18 DEF Next, CallerStep, Threads

\* A socket once used is never made again; Connect alone replaces the object's.
LEMMA SocketsKept ==
    ASSUME IInv, Settled, [Next]_vars
    PROVE  /\ \A s \in Sockets : fd[s] # "unused" => fd'[s] # "unused"
           /\ \/ /\ wsSocket' = wsSocket
                 /\ \A c \in Callers : Connecting(c)' => Connecting(c)
              \/ /\ \A c \in Callers : ~Connecting(c)
                 /\ \A l \in Loops : ~Alive(l)
                 /\ \/ wsSocket' \in Sockets /\ fd[wsSocket'] = "unused"
                    \/ \A c \in Callers : ~Connecting(c)'
<1> USE DEF shared, stream, threadVars, At, GoTo, Call, Connecting
<1>0. /\ pc \in [Threads -> Labels] /\ Threads = Callers \cup Loops
      /\ fd \in [Sockets -> {"unused", "open", "closed"}]
      /\ \A l \in Loops : pc[l] \in LoopPlaces
      /\ \A c \in Callers : ret[c] = "idle"
      /\ NoSocket \notin Sockets
      BY NoSocketAssumption DEF IInv, TypeOK, Places, Threads
<1>1. ASSUME NEW c \in Callers, ConnectAssign(c)
      PROVE  /\ wsSocket' \in Sockets /\ fd[wsSocket'] = "unused"
             /\ \A s \in Sockets : fd[s] # "unused" => fd'[s] # "unused"
             /\ \A d \in Callers : ~Connecting(d)
             /\ \A l \in Loops : ~Alive(l)
      BY <1>0, <1>1, SettledAssumption DEF ConnectAssign, ConnectAllowed, Quiet
<1>2. ASSUME NEW c \in Callers, ConnectRefused(c)
      PROVE  /\ fd' = fd
             /\ \A d \in Callers : ~Connecting(d) /\ ~Connecting(d)'
             /\ \A l \in Loops : ~Alive(l)
      BY <1>0, <1>2, SettledAssumption DEF ConnectRefused, ConnectAllowed, Quiet
<1>3. ASSUME NEW c \in Callers, NEW r \in Routines, Invoke(c, r)
      PROVE  /\ wsSocket' = wsSocket /\ fd' = fd
             /\ \A d \in Callers : Connecting(d)' => Connecting(d)
      BY <1>0, <1>3, RoutinesAssumption DEF Invoke
<1>4. ASSUME NEW c \in Callers, CallerStep(c)
      PROVE  /\ wsSocket' = wsSocket /\ fd' = fd
             /\ \A d \in Callers : Connecting(d)' => Connecting(d)
  <2>1. CASE HandshakeSend(c)
        BY <1>0, <2>1 DEF HandshakeSend
  <2>2. CASE HandshakeFails(c)
        BY <1>0, <2>2 DEF HandshakeFails
  <2>3. CASE HandshakeRecv(c)
    <3>1. \E m \in Loops : pc' = [pc EXCEPT ![c] = "idle", ![m] = "start"]
          BY <2>3 DEF HandshakeRecv
    <3> QED
          BY <1>0, <2>3, <3>1, ThreadsAssumption DEF HandshakeRecv
  <2> QED
        BY <1>4, <2>1, <2>2, <2>3 DEF CallerStep
<1>5. ASSUME NEW t \in Threads, Subroutine(t)
      PROVE  /\ wsSocket' = wsSocket
             /\ \A s \in Sockets : fd[s] # "unused" => fd'[s] # "unused"
             /\ \A d \in Callers : Connecting(d)' => Connecting(d)
  <2>1. wsSocket' = wsSocket /\ \A d \in Callers : d # t => pc'[d] = pc[d]
        BY <1>0, <1>5, SubroutineFrame DEF IInv
  <2>2. \A s \in Sockets : fd[s] # "unused" => fd'[s] # "unused"
    <3>1. CASE CloseSocket(t)
          BY <1>0, <3>1 DEF CloseSocket, IsOpen
    <3>2. CASE ~CloseSocket(t)
          BY <1>5, <3>2 DEF Subroutine, ShutdownCheck, MarkClosed, CloseCheck, MarkClosing,
             SendClose, SendCloseFails, SendCheck, SendData, SendDataFails
    <3> QED
          BY <3>1, <3>2
  <2>3. ASSUME t \in Callers PROVE Connecting(t)' => Connecting(t)
    <3>1. ret[t] = "idle"
          BY <1>0, <2>3
    <3> QED
          BY <1>0, <1>5, <3>1 DEF Subroutine, ShutdownCheck, MarkClosed, CloseSocket,
             CloseCheck, MarkClosing, SendClose, SendCloseFails, SendCheck, SendData,
             SendDataFails
  <2> QED
        BY <2>1, <2>2, <2>3
<1>6. ASSUME NEW l \in Loops, LoopStep(l) \/ CallbackReturn(l)
      PROVE  /\ wsSocket' = wsSocket /\ fd' = fd
             /\ \A d \in Callers : Connecting(d)' => Connecting(d)
      BY <1>0, <1>6, LoopFrame, ThreadsAssumption DEF IInv
<1>7. ASSUME NEW s \in Sockets, Peer(s)
      PROVE  /\ wsSocket' = wsSocket /\ fd' = fd
             /\ \A d \in Callers : Connecting(d)' => Connecting(d)
      BY <1>7 DEF Peer, PeerAnswer, PeerSend, PeerEnds
<1>8. CASE Terminated \/ UNCHANGED vars
      BY <1>8 DEF Terminated, vars
<1>9. CASE \E c \in Callers : ConnectAssign(c)
      BY <1>1, <1>9, <1>0 DEF ConnectAssign
<1>10. CASE \E c \in Callers : ConnectRefused(c)
      BY <1>2, <1>10
<1> QED
      BY <1>3, <1>4, <1>5, <1>6, <1>7, <1>8, <1>9, <1>10 DEF Next, UserStep, Threads

LEMMA OwnedNext ==
    ASSUME IInv, Owned, Settled, [Next]_vars
    PROVE  Owned'
<1> USE DEF Born
<1>0. /\ wsSocket \in Sockets \cup {NoSocket} /\ wsSocket' \in Sockets \cup {NoSocket}
      /\ \A c \in Callers : Connecting(c) => wsSocket \in Sockets /\ fd[wsSocket] # "unused"
      BY TypeNext DEF IInv, TypeOK, Alone, IsOpen
\* A new connection has the socket of the caller that made it.
<1>1. ASSUME NEW l \in Loops, ~Born(l), Born(l)'
      PROVE  /\ \E c \in Callers : Connecting(c)
             /\ wsSocket' = wsSocket /\ SocketOf(l)' = wsSocket
             /\ \A m \in Loops : m # l /\ Born(m)' => Born(m)
             /\ \A d \in Callers : ~Connecting(d)'
  <2>1. PICK c \in Callers : HandshakeRecv(c)
        BY <1>1, LoopKept
  <2>2. Connecting(c) /\ wsSocket' = wsSocket
        BY <2>1 DEF HandshakeRecv, At, Connecting
  <2>3. PICK m \in Loops : pc' = [pc EXCEPT ![c] = "idle", ![m] = "start"]
        BY <2>1 DEF HandshakeRecv
  <2>4. pc \in [Threads -> Labels] /\ Threads = Callers \cup Loops
        BY DEF IInv, TypeOK, Threads
  <2>5. m = l /\ pc'[l] = "start" /\ \A k \in Loops : k # l => pc'[k] = pc[k]
        BY <1>1, <2>3, <2>4, ThreadsAssumption
  <2>6. \A d \in Callers : ~Connecting(d)'
        BY <2>2, <2>3, <2>4, ThreadsAssumption DEF IInv, Alone, Connecting
  <2> QED
        BY <2>2, <2>5, <2>6 DEF SocketOf
<1>2. ASSUME NEW l \in Loops, Born(l)'
      PROVE  SocketOf(l)' \in Sockets /\ fd'[SocketOf(l)'] # "unused"
  <2>1. CASE Born(l)
        BY <2>1, LoopKept, SocketsKept DEF Owned
  <2>2. CASE ~Born(l)
        BY <1>0, <1>1, <1>2, <2>2, SocketsKept
  <2> QED
        BY <2>1, <2>2
<1>3. ASSUME NEW l \in Loops, NEW m \in Loops, Born(l)', Born(m)', l # m
      PROVE  SocketOf(l)' # SocketOf(m)'
  <2>1. CASE Born(l) /\ Born(m)
        BY <1>3, <2>1, LoopKept DEF Owned
  <2>2. CASE ~Born(l)
        BY <1>1, <1>3, <2>2, LoopKept DEF Owned
  <2>3. CASE ~Born(m)
        BY <1>1, <1>3, <2>3, LoopKept DEF Owned
  <2> QED
        BY <2>1, <2>2, <2>3
<1>4. ASSUME NEW c \in Callers, NEW l \in Loops, Connecting(c)', Born(l)'
      PROVE  SocketOf(l)' # wsSocket'
  <2>1. Born(l)
        BY <1>1, <1>4
  <2>2. SocketOf(l)' = SocketOf(l) /\ fd[SocketOf(l)] # "unused"
        BY <2>1, LoopKept DEF Owned
  <2>3. CASE wsSocket' = wsSocket /\ Connecting(c)
        BY <2>1, <2>2, <2>3 DEF Owned
  <2>4. CASE ~(wsSocket' = wsSocket /\ Connecting(c))
        BY <1>4, <2>2, <2>4, SocketsKept
  <2> QED
        BY <2>3, <2>4
<1>5. \A l \in Loops : lost'[l] # "no" => pc'[l] \in StopLabels \cup {"onLost", "done"}
      BY LoopKept
<1> QED
      BY <1>2, <1>3, <1>4, <1>5 DEF Owned

\* The promise's variables, as WebSocketClient gives them.
Made == {l \in Loops : pc[l] # "unborn"}
Gone == {l \in Loops : pc[l] # "unborn" /\ PeerGone(SocketOf(l))}
Heard == {l \in Loops : lost[l] # "no" /\ pc[l] \in {"onLost", "done"}}

\* What relates the two in every reachable state.
Sim == IInv /\ Served /\ Owned

LEMMA CurrentIs ==
    ASSUME OneLoop, NEW l \in Loops, Alive(l), status = "Open"
    PROVE  Current = l
BY DEF Current, OneLoop

LEMMA CurrentKept ==
    ASSUME Sim, Sim', Settled, [Next]_vars, status' = status,
           \A c \in Callers : ~HandshakeRecv(c)
    PROVE  Current' = Current
<1>1. CASE status # "Open"
      BY <1>1 DEF Current
<1>2. CASE status = "Open"
  <2>1. PICK l \in Loops : Alive(l)
        BY <1>2 DEF Sim, Served
  <2>2. PICK m \in Loops : Alive(m)'
        BY <1>2 DEF Sim, Served
  <2>3. Alive(m)
        BY <2>2, LoopKept DEF Sim, Alive, Born
  <2>4. m = l /\ Current = l
        BY <1>2, <2>1, <2>3, CurrentIs DEF Sim, IInv, OneLoop
  <2>5. OneLoop'
        BY DEF Sim, IInv
  <2>6. \A k \in Loops : Alive(k)' <=> k = l
        BY <2>2, <2>4, <2>5 DEF OneLoop
  <2>7. Current' = CHOOSE k \in Loops : Alive(k)'
        BY <1>2, <2>2 DEF Current
  <2> QED
        BY <2>4, <2>6, <2>7
<1> QED
      BY <1>1, <1>2

LEMMA MadeKept ==
    ASSUME Sim, Settled, [Next]_vars, \A c \in Callers : ~HandshakeRecv(c)
    PROVE  Made' = Made
BY LoopKept DEF Sim, Made, Born

LEMMA GoneKept ==
    ASSUME Sim, Settled, [Next]_vars, UNCHANGED <<peer, sent>>,
           \A c \in Callers : ~HandshakeRecv(c)
    PROVE  Gone' = Gone
<1>1. ASSUME NEW l \in Loops PROVE l \in Gone <=> l \in Gone'
      BY LoopKept DEF Sim, Gone, Born, PeerGone
<1> QED
      BY <1>1 DEF Gone

\* A thread on its way to LostConnectionCallback with a code has lost its peer.
LEMMA ToldIsGone ==
    ASSUME Sim, NEW l \in Loops, lost[l] # "no", pc[l] \in StopLabels
    PROVE  PeerGone(SocketOf(l))
<1>1. Alive(l) /\ lost[l] \in {"1006", "1000"}
      BY DEF Alive, StopLabels, Sim, IInv, TypeOK
<1> QED
      BY <1>1 DEF Sim, IInv, Reasons, Reason, PeerGone, CloseSeen, SocketOf

LEMMA SimulateTell ==
    ASSUME Sim, Sim', Settled, [Next]_vars, NEW l \in Loops, ~Told(l), Told(l)'
    PROVE  Promise!Tell(l)
<1>1. /\ pc[l] \in StopLabels /\ status # "Open"
      /\ UNCHANGED <<status, peer, sent, lost>>
      /\ \A m \in Loops \ {l} : pc'[m] = pc[m]
      BY LoopKept DEF Sim
<1>2. \A c \in Callers : ~HandshakeRecv(c)
  <2>1. SUFFICES ASSUME NEW c \in Callers, HandshakeRecv(c) PROVE FALSE
        OBVIOUS
  <2>2. Connecting(c) /\ Alive(l)
        BY <1>1, <2>1 DEF HandshakeRecv, At, Connecting, Alive, StopLabels
  <2> QED
        BY <2>2 DEF Sim, IInv, Alone
<1>3. Current = NoSocket /\ Current' = Current /\ Made' = Made /\ Gone' = Gone
      BY <1>1, <1>2, CurrentKept, MadeKept, GoneKept DEF Current
<1>4. l \in Gone
      BY <1>1, ToldIsGone DEF Told, Gone, StopLabels
<1>5. l \notin Heard /\ Heard' = Heard \cup {l}
      BY <1>1 DEF Told, Heard
<1> QED
      BY <1>3, <1>4, <1>5 DEF Promise!Tell, Made, Gone, Heard

LEMMA SimulateOpen ==
    ASSUME Sim, Sim', Settled, [Next]_vars, NEW c \in Callers, HandshakeRecv(c)
    PROVE  \E l \in Loops : Promise!Open(l)
<1> USE DEF At, Connecting
<1>0. pc \in [Threads -> Labels] /\ Threads = Callers \cup Loops
      BY DEF Sim, IInv, TypeOK, Threads
<1>1. PICK l \in Loops : /\ pc[l] = "unborn"
                         /\ pc' = [pc EXCEPT ![c] = "idle", ![l] = "start"]
      BY DEF HandshakeRecv
<1>2. UNCHANGED <<peer, sent, lost, wsSocket, sock>> /\ status' = "Open" /\ pc[c] = "response"
      BY DEF HandshakeRecv
<1>3. pc'[l] = "start" /\ \A m \in Loops : m # l => pc'[m] = pc[m]
      BY <1>0, <1>1, ThreadsAssumption
<1>4. status = "Closed" /\ Current = NoSocket
      BY <1>2 DEF Sim, IInv, Alone, Current
<1>5. Current' = l
  <2>1. OneLoop' /\ Alive(l)'
        BY <1>3 DEF Sim, IInv, Alive
  <2>2. \A k \in Loops : Alive(k)' <=> k = l
        BY <2>1 DEF OneLoop
  <2>3. Current' = CHOOSE k \in Loops : Alive(k)'
        BY <1>2, <2>1 DEF Current
  <2> QED
        BY <2>2, <2>3
<1>6. l \notin Made /\ Made' = Made \cup {l}
      BY <1>1, <1>3 DEF Made
<1>7. Gone' \in {Gone, Gone \cup {l}}
  <2>1. \A m \in Loops : m # l => (m \in Gone' <=> m \in Gone)
        BY <1>2, <1>3, LoopKept DEF Sim, Gone, Born, PeerGone
  <2>2. l \notin Gone /\ Gone \subseteq Loops /\ Gone' \subseteq Loops
        BY <1>1 DEF Gone
  <2>3. CASE l \in Gone'
        BY <2>1, <2>2, <2>3
  <2>4. CASE l \notin Gone'
        BY <2>1, <2>2, <2>4
  <2> QED
        BY <2>3, <2>4
<1>8. Heard' = Heard
      BY <1>1, <1>2, <1>3 DEF Heard, Sim, IInv, Reading
<1> QED
      BY <1>4, <1>5, <1>6, <1>7, <1>8 DEF Promise!Open, Made, Gone, Heard

LEMMA SimulatePeer ==
    ASSUME Sim, Sim', Settled, [Next]_vars, NEW s \in Sockets, PeerSend(s) \/ PeerEnds(s)
    PROVE  UNCHANGED Promise!vars \/ \E l \in Loops : Promise!PeerEnds(l)
<1>1. UNCHANGED <<status, pc, lost>>
      BY DEF PeerSend, PeerEnds, shared, threadVars
<1>2. \A c \in Callers : ~HandshakeRecv(c)
      BY <1>1 DEF HandshakeRecv, PeerSend, PeerEnds, Sim, IInv, Alone, At, Connecting
<1>3. Current' = Current /\ Made' = Made /\ Heard' = Heard
      BY <1>1, <1>2, CurrentKept, MadeKept DEF Heard
<1>4. (PeerGone(s) => PeerGone(s)') /\ \A r \in Sockets : r # s => (PeerGone(r)' <=> PeerGone(r))
  <2>1. /\ peer \in [Sockets -> {"up", "fin", "reset"}]
        /\ sent \in [Sockets -> Seq(FrameKinds)]
        BY DEF Sim, IInv, TypeOK
  <2>2. \A r \in Sockets : r # s => peer'[r] = peer[r] /\ sent'[r] = sent[r]
        BY <2>1 DEF PeerSend, PeerEnds
  <2>3. ASSUME PeerSend(s) PROVE ~PeerGone(s)
        BY <2>3 DEF PeerSend, PeerGone
  <2>4. ASSUME PeerEnds(s) PROVE PeerGone(s)'
        BY <2>1, <2>4 DEF PeerEnds, PeerGone
  <2> QED
        BY <2>2, <2>3, <2>4 DEF PeerGone
<1>5. \A l \in Loops : Born(l) => SocketOf(l) \in Sockets /\ SocketOf(l)' = SocketOf(l)
      BY LoopKept DEF Sim, Owned
<1>6. CASE \E l \in Loops : l \in Gone' /\ l \notin Gone
  <2>1. PICK l \in Loops : l \in Gone' /\ l \notin Gone
        BY <1>6
  <2>2. Born(l) /\ SocketOf(l) = s
        BY <1>1, <1>4, <1>5, <2>1 DEF Gone, Born
  <2>3. \A m \in Loops : m # l => (m \in Gone' <=> m \in Gone)
        BY <1>1, <1>4, <1>5, <2>2 DEF Gone, Born, Sim, Owned
  <2>4. Gone' = Gone \cup {l} /\ l \in Made
        BY <2>1, <2>2, <2>3 DEF Gone, Made, Born
  <2> QED
        BY <1>3, <2>1, <2>4 DEF Promise!PeerEnds, Made, Gone, Heard
<1>7. CASE \A l \in Loops : l \in Gone' => l \in Gone
  <2>1. \A l \in Loops : l \in Gone => l \in Gone'
        BY <1>1, <1>4, <1>5 DEF Gone, Born
  <2>2. Gone' = Gone
        BY <1>7, <2>1 DEF Gone
  <2> QED
        BY <1>3, <2>2 DEF Promise!vars, Made, Gone, Heard
<1> QED
      BY <1>6, <1>7

LEMMA SimulateMark ==
    ASSUME Sim, Sim', Settled, [Next]_vars, NEW t \in Threads, MarkClosed(t) \/ MarkClosing(t)
    PROVE  UNCHANGED Promise!vars \/ Promise!End
<1>1. UNCHANGED <<peer, sent>> /\ status' # "Open"
      BY DEF MarkClosed, MarkClosing, stream
<1>2. \A c \in Callers : ~HandshakeRecv(c)
      BY <1>1 DEF HandshakeRecv
<1>3. Made' = Made /\ Gone' = Gone
      BY <1>1, <1>2, MadeKept, GoneKept
<1>4. Heard' = Heard
  <2>1. ASSUME NEW l \in Loops, ~Told(l), Told(l)' PROVE FALSE
    <3>1. pc[l] \in StopLabels /\ status # "Open" /\ UNCHANGED status
          BY <2>1, LoopKept DEF Sim
    <3>2. pc[t] \in {"markClosed", "markClosing"}
          /\ pc' = [pc EXCEPT ![t] = IF pc[t] = "markClosed" THEN "closeSocket" ELSE "sendClose"]
          BY DEF MarkClosed, MarkClosing, At, GoTo
    <3>3. pc \in [Threads -> Labels] /\ l \in Threads
          BY DEF Sim, IInv, TypeOK, Threads
    <3> QED
          BY <2>1, <3>1, <3>2, <3>3 DEF Told, StopLabels
  <2>2. \A l \in Loops : Told(l) <=> Told(l)'
        BY <2>1, LoopKept DEF Sim
  <2> QED
        BY <2>2 DEF Told, Heard
<1>5. Current' = NoSocket
      BY <1>1 DEF Current
<1>6. CASE Current = NoSocket
      BY <1>3, <1>4, <1>5, <1>6 DEF Promise!vars, Made, Gone, Heard
<1>7. CASE Current # NoSocket
      BY <1>3, <1>4, <1>5, <1>7 DEF Promise!End, Made, Gone, Heard
<1> QED
      BY <1>6, <1>7

LEMMA SimulateStep ==
    ASSUME Sim, Sim', Settled, [Next]_vars
    PROVE  [Promise!Next]_(Promise!vars)
<1>1. CASE \E c \in Callers : HandshakeRecv(c)
      BY <1>1, SimulateOpen DEF Promise!Next
<1>2. CASE \E s \in Sockets : PeerSend(s) \/ PeerEnds(s)
      BY <1>2, SimulatePeer DEF Promise!Next
<1>3. CASE \E t \in Threads : MarkClosed(t) \/ MarkClosing(t)
      BY <1>3, SimulateMark DEF Promise!Next
<1>4. CASE /\ UNCHANGED <<status, peer, sent>>
           /\ \A c \in Callers : ~HandshakeRecv(c)
  <2>1. CASE \E l \in Loops : ~Told(l) /\ Told(l)'
        BY <2>1, SimulateTell DEF Promise!Next
  <2>2. CASE \A l \in Loops : Told(l)' => Told(l)
    <3>1. \A l \in Loops : Told(l) => Told(l)'
          BY LoopKept DEF Sim
    <3>2. Heard' = Heard
          BY <2>2, <3>1 DEF Told, Heard
    <3>3. Current' = Current /\ Made' = Made /\ Gone' = Gone
          BY <1>4, CurrentKept, MadeKept, GoneKept
    <3> QED
          BY <3>2, <3>3 DEF Promise!vars, Made, Gone, Heard
  <2> QED
        BY <2>1, <2>2
<1> QED
      BY <1>1, <1>2, <1>3, <1>4, StepKinds

\* Connections are made one at a time; the loss of one is told at most once, only if
\* its peer ended it, and never while a connection is open.
THEOREM Implements ==
    ASSUME Settled
    PROVE  Spec => KeepsPromise
<1>1. Init => Served /\ Owned
      BY ThreadsAssumption
      DEF Init, Served, Owned, Born, SocketOf, Connecting, Threads
<1>2. Init => Promise!Init
      BY ThreadsAssumption DEF Init, Promise!Init, Current, Threads
<1>3. IInv /\ Served /\ Owned /\ [Next]_vars => Served' /\ Owned'
      BY ServedNext, OwnedNext DEF IInv
<1>4. /\ IInv /\ Served /\ Owned /\ IInv' /\ Served' /\ Owned'
      /\ [Next]_vars
      => [Promise!Next]_(Promise!vars)
      BY SimulateStep DEF Sim
<1> QED
      BY <1>1, <1>2, <1>3, <1>4, Invariance, PTL
      DEF Spec, KeepsPromise, Promise!Spec

-----------------------------------------------------------------------------
(* Every frame in its turn *)

\* What is in the buffer starts with the first byte of a frame.
Aligned ==
    \A l \in Loops : Alive(l) =>
        \E n \in Nat : taken[wsSocket] = PartsPerFrame * n + buf[l]

\* Nothing is read from a socket before the handshake on it is answered.
Untouched ==
    /\ \A s \in Sockets : fd[s] = "unused" => taken[s] = 0
    /\ \A c \in Callers : Connecting(c) => taken[wsSocket] = 0

LEMMA AlignedNext ==
    ASSUME IInv, Untouched, Aligned, Settled, [Next]_vars
    PROVE  Untouched' /\ Aligned'
<1> USE DEF shared, stream, threadVars, At, GoTo, Call
<1>0. /\ wsSocket \in Sockets \cup {NoSocket}
      /\ pc \in [Threads -> Labels] /\ Threads = Callers \cup Loops
      /\ buf \in [Loops -> Nat] /\ taken \in [Sockets -> Nat]
      /\ fd \in [Sockets -> {"unused", "open", "closed"}]
      /\ \A s \in Sockets : fd'[s] = "unused" => fd[s] = "unused"
      BY SocketsKept DEF IInv, TypeOK, Threads
\* When nothing is read or parsed, only the labels matter.
<1>1. ASSUME UNCHANGED <<taken, buf>>,
             \A c \in Callers : Connecting(c)' => Connecting(c) /\ wsSocket' = wsSocket,
             \A l \in Loops : Alive(l)' => Alive(l) /\ wsSocket' = wsSocket
      PROVE  Untouched' /\ Aligned'
  <2>1. Untouched'
        BY <1>0, <1>1 DEF Untouched
  <2>2. Aligned'
        BY <1>1 DEF Aligned
  <2> QED
        BY <2>1, <2>2
<1>2. ASSUME NEW c \in Callers, ConnectAssign(c) PROVE Untouched' /\ Aligned'
  <2>1. /\ wsSocket' \in Sockets /\ fd[wsSocket'] = "unused" /\ UNCHANGED taken
        /\ \A l \in Loops : ~Alive(l) /\ pc'[l] = pc[l]
        BY <1>0, <1>2, ThreadsAssumption, SettledAssumption
        DEF ConnectAssign, ConnectAllowed, Quiet
  <2>2. Untouched'
        BY <1>0, <2>1 DEF Untouched
  <2>3. Aligned'
        BY <2>1 DEF Aligned, Alive
  <2> QED
        BY <2>2, <2>3
<1>3. ASSUME NEW c \in Callers, ConnectRefused(c) PROVE Untouched' /\ Aligned'
  <2>1. /\ UNCHANGED <<taken, buf, pc>>
        /\ \A l \in Loops : ~Alive(l)
        /\ \A d \in Callers : ~Connecting(d)
        BY <1>3, SettledAssumption DEF ConnectRefused, ConnectAllowed, Quiet, Connecting
  <2> QED
        BY <1>1, <2>1 DEF Alive, Connecting
<1>4. ASSUME NEW c \in Callers, HandshakeSend(c) \/ HandshakeFails(c)
      PROVE  Untouched' /\ Aligned'
  <2>1. /\ UNCHANGED <<taken, buf, wsSocket>>
        /\ \A l \in Loops : pc'[l] = pc[l]
        /\ \A d \in Callers : Connecting(d)' => Connecting(d)
        BY <1>0, <1>4, ThreadsAssumption DEF HandshakeSend, HandshakeFails, Connecting
  <2> QED
        BY <1>1, <2>1 DEF Alive
<1>5. ASSUME NEW c \in Callers, HandshakeRecv(c) PROVE Untouched' /\ Aligned'
  <2>1. PICK l \in Loops : /\ pc[l] = "unborn"
                           /\ pc' = [pc EXCEPT ![c] = "idle", ![l] = "start"]
        BY <1>5 DEF HandshakeRecv
  <2>2. /\ Connecting(c) /\ taken[wsSocket] = 0
        /\ sock[c] = wsSocket /\ wsSocket \in Sockets /\ fd[wsSocket] = "open"
        /\ \A m \in Loops : ~Alive(m)
        /\ \A d \in Callers : d # c => ~Connecting(d)
        BY <1>0, <1>5 DEF IInv, HandshakeRecv, Alone, Connecting, IsOpen, Untouched
  <2>3. UNCHANGED <<wsSocket, fd, buf>>
        BY <1>5 DEF HandshakeRecv
  <2>4. /\ \A s \in Sockets : s # wsSocket => taken'[s] = taken[s]
        /\ \E n \in Nat : taken'[wsSocket] = PartsPerFrame * n
    <3>1. CASE UNCHANGED taken
          BY <2>2, <3>1 DEF PartsPerFrame
    <3>2. CASE \E n \in 0..Len(sent[wsSocket]) :
                  taken' = [taken EXCEPT ![wsSocket] = PartsPerFrame * n]
      <4>1. PICK n \in 0..Len(sent[wsSocket]) :
                  taken' = [taken EXCEPT ![wsSocket] = PartsPerFrame * n]
            BY <3>2
      <4>2. n \in Nat
            BY <2>2, <4>1 DEF IInv, TypeOK
      <4> QED
            BY <1>0, <2>2, <4>1, <4>2
    <3> QED
          BY <1>5, <2>2, <3>1, <3>2 DEF HandshakeRecv
  <2>5. Untouched'
    <3>1. \A d \in Callers : ~Connecting(d)'
          BY <1>0, <2>1, <2>2, ThreadsAssumption DEF Connecting
    <3>2. \A s \in Sockets : fd'[s] = "unused" => taken'[s] = 0
          BY <2>2, <2>3, <2>4 DEF Untouched
    <3> QED
          BY <3>1, <3>2 DEF Untouched
  <2>6. Aligned'
    <3>1. \A m \in Loops : Alive(m)' => buf'[m] = 0
          BY <1>0, <2>1, <2>2, <2>3, ThreadsAssumption DEF IInv, Reading, Alive
    <3>2. PICK n \in Nat : taken'[wsSocket] = PartsPerFrame * n
          BY <2>4
    <3>3. \A m \in Loops : Alive(m)' => taken'[wsSocket'] = PartsPerFrame * n + buf'[m]
          BY <2>3, <3>1, <3>2 DEF PartsPerFrame
    <3> QED
          BY <3>2, <3>3 DEF Aligned
  <2> QED
        BY <2>5, <2>6
<1>6. ASSUME NEW t \in Threads, Subroutine(t) PROVE Untouched' /\ Aligned'
  <2>1. /\ UNCHANGED <<taken, buf, wsSocket>>
        /\ \A u \in Threads : u # t => pc'[u] = pc[u]
        BY <1>6, SubroutineFrame DEF IInv
  <2>2. \A l \in Loops : Alive(l)' => Alive(l)
        BY <1>0, <1>6, SubroutineFrame DEF IInv, Alive, StopLabels, CloseLabels
  <2>3. \A c \in Callers : Connecting(c)' => Connecting(c)
    <3> SUFFICES ASSUME t \in Callers PROVE Connecting(t)' => Connecting(t)
          BY <1>0, <2>1 DEF Connecting
    <3>1. ret[t] = "idle"
          BY DEF IInv, Places
    <3> QED
          BY <1>0, <1>6, <3>1
          DEF Connecting, Subroutine, ShutdownCheck, MarkClosed, CloseSocket, CloseCheck,
              MarkClosing, SendClose, SendCloseFails, SendCheck, SendData, SendDataFails
  <2> QED
        BY <1>1, <2>1, <2>2, <2>3
<1>7. ASSUME NEW c \in Callers, NEW r \in Routines, Invoke(c, r)
      PROVE  Untouched' /\ Aligned'
  <2>1. /\ UNCHANGED <<taken, buf, wsSocket>>
        /\ \A l \in Loops : pc'[l] = pc[l]
        /\ \A d \in Callers : Connecting(d)' => Connecting(d)
        BY <1>0, <1>7, RoutinesAssumption, ThreadsAssumption DEF Invoke, Connecting
  <2> QED
        BY <1>1, <2>1 DEF Alive
<1>8. ASSUME NEW l \in Loops, LoopStep(l) \/ CallbackReturn(l)
      PROVE  Untouched' /\ Aligned'
  <2>1. /\ UNCHANGED <<wsSocket, fd, sent>> /\ Alive(l)
        /\ \A u \in Threads : u # l => pc'[u] = pc[u]
        BY <1>8, LoopFrame DEF IInv
  <2>2. /\ \A c \in Callers : ~Connecting(c) /\ pc'[c] = pc[c]
        /\ \A m \in Loops : Alive(m)' => Alive(m)
        /\ \A m \in Loops : Alive(m) => m = l
        BY <1>0, <2>1, ThreadsAssumption DEF IInv, Alone, OneLoop, Alive
  <2>3. CASE RecvData(l)
    <3>1. sock[l] = wsSocket /\ wsSocket \in Sockets /\ fd[wsSocket] = "open"
          BY <2>3 DEF RecvData, IInv, Serving, Alive, IsOpen
    <3>2. PICK n \in 1..Available(wsSocket) :
                  /\ taken' = [taken EXCEPT ![wsSocket] = @ + n]
                  /\ buf' = [buf EXCEPT ![l] = @ + n]
          BY <2>3, <3>1 DEF RecvData
    <3>3. taken[wsSocket] \in Nat /\ buf[l] \in Nat /\ n \in Int
          BY <1>0, <3>1
    <3>4. PICK k \in Nat : taken[wsSocket] = PartsPerFrame * k + buf[l]
          BY <2>1 DEF Aligned
    <3>5. taken'[wsSocket'] = PartsPerFrame * k + buf'[l]
          BY <1>0, <2>1, <3>1, <3>2, <3>3, <3>4 DEF PartsPerFrame
    <3>6. Aligned'
          BY <2>2, <3>5 DEF Aligned
    <3>7. Untouched'
          BY <1>0, <2>1, <2>2, <3>1, <3>2 DEF Untouched, Connecting
    <3> QED
          BY <3>6, <3>7
  <2>4. CASE ParseFrame(l)
    <3>1. /\ buf' = [buf EXCEPT ![l] = @ - PartsPerFrame] /\ buf[l] \in Nat
          /\ UNCHANGED taken
          BY <1>0, <2>4 DEF ParseFrame
    <3>2. PICK k \in Nat : taken[wsSocket] = PartsPerFrame * k + buf[l]
          BY <2>1 DEF Aligned
    <3>3. k + 1 \in Nat /\ taken[wsSocket] = PartsPerFrame * (k + 1) + buf'[l]
          BY <1>0, <3>1, <3>2 DEF PartsPerFrame
    <3>4. Aligned'
          BY <2>1, <2>2, <3>1, <3>3 DEF Aligned
    <3>5. Untouched'
          BY <2>1, <2>2, <3>1 DEF Untouched, Connecting
    <3> QED
          BY <3>4, <3>5
  <2>5. CASE ~RecvData(l) /\ ~ParseFrame(l)
    <3>1. UNCHANGED <<taken, buf>>
          BY <1>8, <2>5
          DEF LoopStep, LoopStart, LoopWhile, Select, RecvEnd, RecvFailed, ParseIncomplete,
              PongCheck, SendPong, SendPongFails, CloseFrame, CloseFrameAgain, CloseSent, CallbackReturn
    <3> QED
          BY <1>1, <2>1, <2>2, <3>1 DEF Connecting
  <2> QED
        BY <2>3, <2>4, <2>5
<1>9. ASSUME NEW s \in Sockets, Peer(s) PROVE Untouched' /\ Aligned'
      BY <1>1, <1>9 DEF Peer, PeerAnswer, PeerSend, PeerEnds, Alive, Connecting
<1>10. CASE Terminated \/ UNCHANGED vars
      BY <1>1, <1>10 DEF Terminated, vars, Alive, Connecting
<1> QED
      BY <1>2, <1>3, <1>4, <1>5, <1>6, <1>7, <1>8, <1>9, <1>10
      DEF Next, UserStep, CallerStep, Threads

\* What the buffer has is what the frames after the handled ones begin with.
LEMMA HandledIs ==
    ASSUME IInv, Aligned, NEW l \in Loops, Alive(l), pc[l] # "start"
    PROVE  /\ sock[l] = wsSocket /\ wsSocket \in Sockets
           /\ Handled(l) \in Nat
           /\ taken[wsSocket] = PartsPerFrame * Handled(l) + buf[l]
<1>1. /\ sock[l] = wsSocket /\ wsSocket \in Sockets
      /\ taken[wsSocket] \in Nat /\ buf[l] \in Nat
      BY DEF IInv, Serving, TypeOK
<1>2. PICK n \in Nat : taken[wsSocket] = PartsPerFrame * n + buf[l]
      BY DEF Aligned
<1>3. ASSUME NEW a \in Nat, NEW b \in Nat, a = 3 * n + b
      PROVE  (a - b) \div 3 = n
      BY <1>3
<1>4. Handled(l) = n
      BY <1>1, <1>2, <1>3 DEF Handled, PartsPerFrame
<1> QED
      BY <1>1, <1>2, <1>4

LEMMA StepInTurn ==
    ASSUME IInv, Aligned, Settled, [Next]_vars
    PROVE  \A l \in Loops : Alive(l) /\ pc[l] # "start" => TakesInTurn(l)
<1> SUFFICES ASSUME NEW l \in Loops, Alive(l), pc[l] # "start"
             PROVE  \/ /\ Handled(l)' = Handled(l)
                       /\ pc'[l] # pc[l] => pc'[l] \notin FrameLabels
                    \/ /\ Handled(l)' = Handled(l) + 1
                       /\ Handled(l) < Len(sent[sock[l]])
                       /\ pc'[l] = Dispatch(sent[sock[l]][Handled(l) + 1])
      BY DEF TakesInTurn
<1> USE DEF shared, stream, threadVars, At, GoTo, Call
<1>0. /\ pc \in [Threads -> Labels] /\ Threads = Callers \cup Loops
      /\ buf \in [Loops -> Nat] /\ taken \in [Sockets -> Nat]
      /\ sock \in [Threads -> Sockets \cup {NoSocket}]
      /\ status \in {"Open", "Closing", "Closed"}
      BY DEF IInv, TypeOK, Threads
<1>h. /\ sock[l] = wsSocket /\ wsSocket \in Sockets
      /\ Handled(l) \in Nat
      /\ taken[wsSocket] = PartsPerFrame * Handled(l) + buf[l]
      /\ taken[wsSocket] \in Nat /\ buf[l] \in Nat
      BY <1>0, HandledIs
<1>o. \A m \in Loops : Alive(m) => m = l
      BY DEF IInv, OneLoop
\* A step that neither reads nor parses.
<1>1. ASSUME taken'[sock[l]] = taken[sock[l]], buf'[l] = buf[l], sock'[l] = sock[l]
      PROVE  Handled(l)' = Handled(l)
      BY <1>1 DEF Handled
<1>2. ASSUME NEW c \in Callers, UserStep(c) \/ CallerStep(c)
      PROVE  Handled(l)' = Handled(l) /\ pc'[l] = pc[l]
  <2>1. ~HandshakeRecv(c)
        BY DEF HandshakeRecv, IInv, Alone, Connecting
  <2>2. CASE UserStep(c)
        BY <1>0, <1>1, <2>2, ThreadsAssumption
        DEF UserStep, ConnectAssign, ConnectRefused, Invoke
  <2>3. CASE CallerStep(c)
        BY <1>0, <1>1, <2>1, <2>3, ThreadsAssumption
        DEF CallerStep, HandshakeSend, HandshakeFails
  <2> QED
        BY <1>2, <2>2, <2>3
<1>3. ASSUME NEW t \in Threads, Subroutine(t)
      PROVE  Handled(l)' = Handled(l) /\ (pc'[l] # pc[l] => pc'[l] \notin FrameLabels)
  <2>1. /\ UNCHANGED <<taken, buf, sock>>
        /\ l # t => pc'[l] = pc[l]
        /\ t \in Loops =>
              pc'[t] \in {"closeSent", "onLost", "done"} \cup StopLabels \cup CloseLabels
        BY <1>0, <1>3, SubroutineFrame DEF IInv
  <2> QED
        BY <1>1, <2>1 DEF FrameLabels, StopLabels, CloseLabels
<1>4. ASSUME NEW m \in Loops, LoopStep(m) \/ CallbackReturn(m) PROVE m = l
      BY <1>4, <1>o, LoopFrame DEF IInv
<1>5. CASE RecvData(l)
  <2>1. PICK n \in 1..Available(wsSocket) :
                /\ taken' = [taken EXCEPT ![wsSocket] = @ + n]
                /\ buf' = [buf EXCEPT ![l] = @ + n]
        BY <1>5, <1>h DEF RecvData
  <2>2. taken'[wsSocket] = taken[wsSocket] + n /\ buf'[l] = buf[l] + n /\ n \in Int
        BY <1>0, <1>h, <2>1
  <2>3. taken'[wsSocket] - buf'[l] = taken[wsSocket] - buf[l]
        BY <1>h, <2>2
  <2>4. sock' = sock /\ pc'[l] = "parse"
        BY <1>0, <1>5 DEF RecvData
  <2> QED
        BY <1>h, <2>3, <2>4 DEF Handled, FrameLabels
<1>6. CASE ParseFrame(l)
  <2>1. /\ buf'[l] = buf[l] - PartsPerFrame /\ buf[l] >= PartsPerFrame
        /\ UNCHANGED <<taken, sock>>
        /\ pc'[l] = Dispatch(HeadFrame(l))
        BY <1>0, <1>6 DEF ParseFrame
  <2>2. HeadFrame(l) = sent[sock[l]][Handled(l) + 1]
        BY DEF HeadFrame, Handled
  <2>3. ASSUME NEW a \in Nat, NEW b \in Nat, NEW n \in Nat, a = 3 * n + b
        PROVE  (a - (b - 3)) \div 3 = n + 1
        BY <2>3
  <2>4. Handled(l)' = Handled(l) + 1
    <3>1. Handled(l)' = (taken[wsSocket] - (buf[l] - 3)) \div 3
          BY <1>h, <2>1 DEF Handled, PartsPerFrame
    <3>2. taken[wsSocket] = 3 * Handled(l) + buf[l]
          BY <1>h DEF PartsPerFrame
    <3> HIDE DEF Handled
    <3> QED
          BY <1>h, <2>3, <3>1, <3>2
  <2>5. taken[wsSocket] <= PartsPerFrame * Len(sent[wsSocket]) /\ Len(sent[wsSocket]) \in Nat
        BY <1>h DEF IInv, Reading, TypeOK
  <2>6. Handled(l) < Len(sent[sock[l]])
        BY <1>h, <2>1, <2>5 DEF PartsPerFrame
  <2> QED
        BY <2>1, <2>2, <2>4, <2>6
<1>7. CASE (LoopStep(l) \/ CallbackReturn(l)) /\ ~RecvData(l) /\ ~ParseFrame(l)
  <2>1. UNCHANGED <<taken, buf>> /\ sock'[l] = sock[l]
    <3>1. ~LoopStart(l)
          BY DEF LoopStart
    <3> QED
          BY <1>7, <3>1
          DEF LoopStep, LoopWhile, Select, RecvEnd, RecvFailed, ParseIncomplete,
              PongCheck, SendPong, SendPongFails, CloseFrame, CloseFrameAgain, CloseSent, CallbackReturn
  <2>2. pc'[l] \notin FrameLabels
    <3>1. CASE CallbackReturn(l)
          BY <1>0, <3>1 DEF CallbackReturn, AfterCallback, CallbackLabels, FrameLabels
    <3>2. CASE CloseFrame(l) \/ CloseFrameAgain(l)
          BY <1>0, <3>2 DEF CloseFrame, CloseFrameAgain, FrameLabels
    <3>3. CASE LoopStep(l) /\ ~CloseFrame(l) /\ ~CloseFrameAgain(l)
          BY <1>0, <1>7, <3>3
          DEF LoopStep, LoopStart, LoopWhile, Select, RecvEnd, RecvFailed, ParseIncomplete,
              PongCheck, SendPong, SendPongFails, CloseSent, FrameLabels
    <3> QED
          BY <1>7, <3>1, <3>2, <3>3
  <2> QED
        BY <1>1, <2>1, <2>2
<1>8. ASSUME NEW s \in Sockets, Peer(s)
      PROVE  Handled(l)' = Handled(l) /\ pc'[l] = pc[l]
      BY <1>1, <1>8 DEF Peer, PeerAnswer, PeerSend, PeerEnds
<1>9. CASE Terminated \/ UNCHANGED vars
      BY <1>1, <1>9 DEF Terminated, vars
<1> QED
      BY <1>2, <1>3, <1>4, <1>5, <1>6, <1>7, <1>8, <1>9 DEF Next, Threads

\* The buffer of a receive thread starts at the beginning of a frame, wherever the reads of
\* RecvLoop cut the stream.  That none is cut by the read of the handshake's answer is
\* taken for granted, see HandshakeRecv.
LEMMA BufferAligned ==
    ASSUME Settled
    PROVE  Spec => []Aligned
<1>1. Init => Untouched /\ Aligned
      BY ThreadsAssumption DEF Init, Untouched, Aligned, Connecting, Alive, Threads
<1>2. IInv /\ Untouched /\ Aligned /\ [Next]_vars => Untouched' /\ Aligned'
      BY AlignedNext
<1> QED
      BY <1>1, <1>2, Invariance, PTL DEF Spec

\* Every frame of the peer that did not come with the handshake's answer is handled once,
\* in the order sent, by the handler of its kind: for any number of frames of any kind.
THEOREM FramesInOrder ==
    ASSUME Settled
    PROVE  Spec => FramesInTurn
BY StepInTurn, BufferAligned, Invariance, PTL DEF Spec, FramesInTurn

=============================================================================
