--------------------------- MODULE WebSocketClient ---------------------------
(***************************************************************************)
(* The WebSocket client of src/src/WebSocketClient.cpp: one object, shared *)
(* without a lock by the threads that call its API (Callers) and by the    *)
(* detached receive threads its Connect starts (Loops).                    *)
(*                                                                         *)
(* Every thread has a program counter; the API functions that several      *)
(* kinds of threads call (Shutdown, Close, SendText/SendBinary/Ping) are   *)
(* subroutines, ret holding the label they return to.  A step is one       *)
(* access to the shared members or one socket call.  A callback is a label *)
(* of its own: the thread stays there while the user's function runs.      *)
(***************************************************************************)
EXTENDS Naturals, Sequences, FrameHeader

CONSTANTS
    Callers,      \* threads that use the API
    Loops,        \* receive threads, in the order Connect happens to start them
    Sockets,      \* the sockets hostname_connect can return, each used once
    NoSocket,     \* INVALID_SOCKET
    FrameKinds,   \* kinds of frame the peer sends, see Kinds
    MaxFrames,    \* bound: frames the peer sends on a socket
    Routines,     \* labels of the API functions the callers use besides Connect
    Settled       \* TRUE: Connect is called only once the last connection is over

\* A "Long" frame is a text of 65536 bytes.
Kinds == {"Text", "Long", "Binary", "Ping", "Close", "Other"}

Threads == Callers \cup Loops

ASSUME FramesAssumption == FrameKinds \subseteq Kinds /\ MaxFrames \in Nat
ASSUME RoutinesAssumption == Routines \subseteq {"shutdown", "close", "send"}
ASSUME SettledAssumption == Settled \in BOOLEAN
ASSUME NoSocketAssumption == NoSocket \notin Sockets \cup Loops
ASSUME ThreadsAssumption == Callers \cap Loops = {}

VARIABLES
    status,     \* WebSocketClient::status
    wsSocket,   \* pimpl::wsSocket
    fd,         \* this side of each socket: "unused", "open" or "closed"
    peer,       \* the other side: "up", "fin" (it ended its stream) or "reset"
    answered,   \* the peer has answered the handshake on this socket
    sent,       \* the frames the peer sent on each socket
    taken,      \* parts of frames read from each socket, see PartsPerFrame
    pc, ret,    \* where each thread is, and where its subroutine returns to
    sock,       \* local variable sock of RecvLoop; the socket Connect waits on
    buf,        \* parts of frames in RecvLoop's buffer
    lost,       \* the code each loop gives its LostConnectionCallback, or "no"
    running     \* FALSE once an exception left a thread (std::terminate)

shared == <<status, wsSocket>>
stream == <<peer, answered, sent, taken>>
threadVars == <<pc, ret, sock, buf, lost>>
vars == <<shared, fd, stream, threadVars, running>>

(***************************************************************************)
(* A frame is cut in three parts, so that a read may end inside its header *)
(* (TryParseFrame fails) or inside its payload (RecvLoop waits for more).  *)
(***************************************************************************)
PartsPerFrame == 3

Available(s) == PartsPerFrame * Len(sent[s]) - taken[s]

\* One length for each form it can have in the header.
SizeOf(kind) ==
    CASE kind = "Long"   -> <<0, 0, 0, 0, 0, 1, 0, 0>>
      [] kind = "Text"   -> <<0, 0, 0, 0, 0, 0, 0, 126>>
      [] OTHER           -> <<0, 0, 0, 0, 0, 0, 0, 5>>

\* All of such a frame is in the buffer: does RecvLoop see that?
Whole(kind) == AtMost(ReadAs(SizeOf(kind)), SizeOf(kind))

\* The frame at the head of the buffer of loop l.
HeadFrame(l) ==
    sent[sock[l]][((taken[sock[l]] - buf[l]) \div PartsPerFrame) + 1]

CallbackLabels ==
    {"selectError", "parseError", "pongError", "opcodeError",
     "onText", "onBinary", "onLost"}

\* Where RecvLoop goes on after a callback; after a failed select it reads the
\* socket if FD_ISSET finds it still in the set.
AfterCallback(label) ==
    CASE label = "selectError"              -> {"recv", "parse"}
      [] label = "parseError"               -> {"while"}
      [] label = "onLost"                   -> {"done"}
      [] OTHER                              -> {"parse"}

LoopLabels ==
    {"unborn", "start", "while", "select", "recv", "recvFailed", "parse",
     "pong", "sendPong", "closeFrame", "closeAgain", "closeSent", "done"} \cup CallbackLabels

CallerLabels == {"idle", "request", "response"}

SubroutineLabels ==
    {"shutdown", "markClosed", "closeSocket", "close", "markClosing",
     "sendClose", "send", "transmit"}

Labels == LoopLabels \cup CallerLabels \cup SubroutineLabels

Alive(l) == pc[l] \notin {"unborn", "done"}

TypeOK ==
    /\ status \in {"Open", "Closing", "Closed"}
    /\ wsSocket \in Sockets \cup {NoSocket}
    /\ fd \in [Sockets -> {"unused", "open", "closed"}]
    /\ peer \in [Sockets -> {"up", "fin", "reset"}]
    /\ answered \in [Sockets -> BOOLEAN]
    /\ sent \in [Sockets -> Seq(FrameKinds)]
    /\ taken \in [Sockets -> Nat]
    /\ pc \in [Threads -> Labels]
    /\ ret \in [Threads -> Labels]
    /\ sock \in [Threads -> Sockets \cup {NoSocket}]
    /\ buf \in [Loops -> Nat]
    /\ lost \in [Loops -> {"no", "1006", "1000"}]
    /\ running \in BOOLEAN

Init ==
    /\ status = "Closed"
    /\ wsSocket = NoSocket
    /\ fd = [s \in Sockets |-> "unused"]
    /\ peer = [s \in Sockets |-> "up"]
    /\ answered = [s \in Sockets |-> FALSE]
    /\ sent = [s \in Sockets |-> <<>>]
    /\ taken = [s \in Sockets |-> 0]
    /\ pc = [t \in Threads |-> IF t \in Callers THEN "idle" ELSE "unborn"]
    /\ ret = [t \in Threads |-> "idle"]
    /\ sock = [t \in Threads |-> NoSocket]
    /\ buf = [l \in Loops |-> 0]
    /\ lost = [l \in Loops |-> "no"]
    /\ running = TRUE

-----------------------------------------------------------------------------
(* Sockets *)

At(t, label) == running /\ pc[t] = label

GoTo(t, label) == pc' = [pc EXCEPT ![t] = label]

Call(t, routine, back) ==
    /\ GoTo(t, routine)
    /\ ret' = [ret EXCEPT ![t] = back]

IsOpen(s) == s # NoSocket /\ fd[s] = "open"

\* send() fails on a socket this side closed or the peer reset; towards a peer
\* that only ended its own stream it may do either.
CanSend(s) == IsOpen(s) /\ peer[s] # "reset"
SendMayFail(s) == IsOpen(s) => peer[s] # "up"

\* recv() and select() find something to report: bytes, or the end of the stream.
Readable(s) == IsOpen(s) /\ (peer[s] # "up" \/ Available(s) > 0)

-----------------------------------------------------------------------------
(* Faulty variants of some steps below, one plausible slip each.  Nothing uses *)
(* them: put in place of the step they are named after, they break a property. *)

\* Shutdown forgets to set the status.
ShutdownCheckUnmarked(t) ==
    /\ At(t, "shutdown")
    /\ GoTo(t, IF status = "Closed" THEN ret[t] ELSE "closeSocket")
    /\ UNCHANGED <<shared, fd, stream, ret, sock, buf, lost, running>>

\* RecvLoop does not take its socket from the object.
LoopStartWithoutSocket(l) ==
    /\ At(l, "start")
    /\ GoTo(l, "while")
    /\ UNCHANGED <<shared, fd, stream, ret, sock, buf, lost, running>>

\* What is read takes the place of what is in the buffer.
RecvDataReplaces(l) ==
    /\ At(l, "recv")
    /\ IsOpen(sock[l]) /\ peer[sock[l]] # "reset"
    /\ \E n \in 1..Available(sock[l]) :
          /\ taken' = [taken EXCEPT ![sock[l]] = @ + n]
          /\ buf' = [buf EXCEPT ![l] = n]
    /\ GoTo(l, "parse")
    /\ UNCHANGED <<shared, fd, peer, answered, sent, ret, sock, lost, running>>

\* RecvLoop loops without looking at the status.
LoopWhileForever(l) ==
    /\ At(l, "while")
    /\ GoTo(l, IF IsOpen(sock[l]) THEN "select" ELSE "selectError")
    /\ UNCHANGED <<shared, fd, stream, ret, sock, buf, lost, running>>

\* recv() returning 0 is not taken for the end of the stream.
RecvEndIgnored(l) ==
    /\ At(l, "recv")
    /\ IsOpen(sock[l]) => peer[sock[l]] = "fin" /\ Available(sock[l]) = 0
    /\ GoTo(l, "parse")
    /\ UNCHANGED <<shared, fd, stream, ret, sock, buf, lost, running>>

\* A failed read is reported whoever closed the socket.
RecvFailedUnchecked(l) ==
    /\ At(l, "recvFailed")
    /\ Call(l, "shutdown", "onLost")
    /\ lost' = [lost EXCEPT ![l] = "1006"]
    /\ UNCHANGED <<shared, fd, stream, sock, buf, running>>

\* One byte too many is erased after a frame.
ParseFrameErasesMore(l) ==
    /\ At(l, "parse")
    /\ buf[l] >= PartsPerFrame
    /\ GoTo(l, "onText")
    /\ buf' = [buf EXCEPT ![l] = @ - PartsPerFrame - 1]
    /\ UNCHANGED <<shared, fd, stream, ret, sock, lost, running>>

-----------------------------------------------------------------------------
(* Connect *)

\* What Settled asks of the callers: the last connection is over and so is the
\* thread that served it.
Quiet ==
    /\ status = "Closed"
    /\ \A c \in Callers : pc[c] = "idle"
    /\ \A l \in Loops : ~Alive(l)

\* Resolving the name and opening the TCP connection take far longer than a new
\* thread takes to run its first statement.
StartedLoops == \A l \in Loops : pc[l] # "start"

ConnectAllowed == (Settled => Quiet) /\ StartedLoops

\* hostname_connect succeeds: its result overwrites wsSocket.
ConnectAssign(c) ==
    /\ At(c, "idle")
    /\ ConnectAllowed
    /\ \E l \in Loops : pc[l] = "unborn"
    /\ \E s \in Sockets :
          /\ fd[s] = "unused"
          /\ fd' = [fd EXCEPT ![s] = "open"]
          /\ wsSocket' = s
    /\ GoTo(c, "request")
    /\ UNCHANGED <<status, stream, ret, sock, buf, lost, running>>

\* hostname_connect returns INVALID_SOCKET, which overwrites wsSocket too.  When the name
\* cannot be resolved it throws before that, and nothing changes.
ConnectRefused(c) ==
    /\ At(c, "idle")
    /\ ConnectAllowed
    /\ wsSocket' = NoSocket
    /\ UNCHANGED <<status, fd, stream, threadVars, running>>

HandshakeSend(c) ==
    /\ At(c, "request")
    /\ CanSend(wsSocket)
    /\ sock' = [sock EXCEPT ![c] = wsSocket]
    /\ GoTo(c, "response")
    /\ UNCHANGED <<shared, fd, stream, ret, buf, lost, running>>

\* The exception leaves the socket open and status as it was.
HandshakeFails(c) ==
    /\ At(c, "request")
    /\ SendMayFail(wsSocket)
    /\ GoTo(c, "idle")
    /\ UNCHANGED <<shared, fd, stream, ret, sock, buf, lost, running>>

\* recv() returns: with the answer and whatever frames came with it, none of
\* which is looked at, or with an error, which is not looked at either.
HandshakeRecv(c) ==
    /\ At(c, "response")
    /\ LET s == sock[c] IN
          \/ /\ IsOpen(s) => peer[s] # "up"
             /\ UNCHANGED taken
          \/ /\ IsOpen(s) /\ answered[s]
             /\ \E n \in 0..Len(sent[s]) :
                   taken' = [taken EXCEPT ![s] = PartsPerFrame * n]
    /\ status' = "Open"
    /\ \E l \in Loops :
          /\ pc[l] = "unborn"
          /\ pc' = [pc EXCEPT ![c] = "idle", ![l] = "start"]
    /\ UNCHANGED <<wsSocket, fd, peer, answered, sent, ret, sock, buf, lost, running>>

-----------------------------------------------------------------------------
(* Shutdown, Close and the send functions, called by any thread *)

ShutdownCheck(t) ==
    /\ At(t, "shutdown")
    /\ GoTo(t, IF status = "Closed" THEN ret[t] ELSE "markClosed")
    /\ UNCHANGED <<shared, fd, stream, ret, sock, buf, lost, running>>

MarkClosed(t) ==
    /\ At(t, "markClosed")
    /\ status' = "Closed"
    /\ GoTo(t, "closeSocket")
    /\ UNCHANGED <<wsSocket, fd, stream, ret, sock, buf, lost, running>>

CloseSocket(t) ==
    /\ At(t, "closeSocket")
    /\ fd' = IF IsOpen(wsSocket) THEN [fd EXCEPT ![wsSocket] = "closed"] ELSE fd
    /\ GoTo(t, ret[t])
    /\ UNCHANGED <<shared, stream, ret, sock, buf, lost, running>>

CloseCheck(t) ==
    /\ At(t, "close")
    /\ GoTo(t, IF status = "Closed" THEN ret[t] ELSE "markClosing")
    /\ UNCHANGED <<shared, fd, stream, ret, sock, buf, lost, running>>

MarkClosing(t) ==
    /\ At(t, "markClosing")
    /\ status' = "Closing"
    /\ GoTo(t, "sendClose")
    /\ UNCHANGED <<wsSocket, fd, stream, ret, sock, buf, lost, running>>

SendClose(t) ==
    /\ At(t, "sendClose")
    /\ CanSend(wsSocket)
    /\ GoTo(t, ret[t])
    /\ UNCHANGED <<shared, fd, stream, ret, sock, buf, lost, running>>

\* A caller of the API gets the exception; nobody catches it in a receive
\* thread, which ends the process.
SendCloseFails(t) ==
    /\ At(t, "sendClose")
    /\ SendMayFail(wsSocket)
    /\ IF t \in Callers
          THEN GoTo(t, "idle") /\ UNCHANGED running
          ELSE running' = FALSE /\ UNCHANGED pc
    /\ UNCHANGED <<shared, fd, stream, ret, sock, buf, lost>>

SendCheck(t) ==
    /\ At(t, "send")
    /\ GoTo(t, IF status = "Closed" THEN ret[t] ELSE "transmit")
    /\ UNCHANGED <<shared, fd, stream, ret, sock, buf, lost, running>>

SendData(t) ==
    /\ At(t, "transmit")
    /\ CanSend(wsSocket)
    /\ GoTo(t, ret[t])
    /\ UNCHANGED <<shared, fd, stream, ret, sock, buf, lost, running>>

SendDataFails(t) ==
    /\ At(t, "transmit")
    /\ SendMayFail(wsSocket)
    /\ GoTo(t, ret[t])
    /\ UNCHANGED <<shared, fd, stream, ret, sock, buf, lost, running>>

Invoke(c, routine) ==
    /\ At(c, "idle")
    /\ Call(c, routine, "idle")
    /\ UNCHANGED <<shared, fd, stream, sock, buf, lost, running>>

Subroutine(t) ==
    \/ ShutdownCheck(t) \/ MarkClosed(t) \/ CloseSocket(t)
    \/ CloseCheck(t) \/ MarkClosing(t) \/ SendClose(t) \/ SendCloseFails(t)
    \/ SendCheck(t) \/ SendData(t) \/ SendDataFails(t)

-----------------------------------------------------------------------------
(* RecvLoop *)

LoopStart(l) ==
    /\ At(l, "start")
    /\ sock' = [sock EXCEPT ![l] = wsSocket]
    /\ GoTo(l, "while")
    /\ UNCHANGED <<shared, fd, stream, ret, buf, lost, running>>

\* The loop condition, then select(), which fails at once on a closed socket.
LoopWhile(l) ==
    /\ At(l, "while")
    /\ GoTo(l, IF status # "Open" THEN "done"
               ELSE IF IsOpen(sock[l]) THEN "select" ELSE "selectError")
    /\ UNCHANGED <<shared, fd, stream, ret, sock, buf, lost, running>>

\* select() returns: the socket is readable, nothing came for 200 ms, or the
\* socket was closed while the thread waited.
Select(l) ==
    /\ At(l, "select")
    /\ \/ Readable(sock[l]) /\ GoTo(l, "recv")
       \/ ~Readable(sock[l]) /\ GoTo(l, "parse")
       \/ ~IsOpen(sock[l]) /\ GoTo(l, "selectError")
    /\ UNCHANGED <<shared, fd, stream, ret, sock, buf, lost, running>>

\* A reset discards what was not read; an orderly end comes after the data.
RecvData(l) ==
    /\ At(l, "recv")
    /\ IsOpen(sock[l]) /\ peer[sock[l]] # "reset"
    /\ \E n \in 1..Available(sock[l]) :
          /\ taken' = [taken EXCEPT ![sock[l]] = @ + n]
          /\ buf' = [buf EXCEPT ![l] = @ + n]
    /\ GoTo(l, "parse")
    /\ UNCHANGED <<shared, fd, peer, answered, sent, ret, sock, lost, running>>

RecvEnd(l) ==
    /\ At(l, "recv")
    /\ IsOpen(sock[l]) =>
          \/ peer[sock[l]] = "reset"
          \/ peer[sock[l]] = "fin" /\ Available(sock[l]) = 0
    /\ GoTo(l, "recvFailed")
    /\ UNCHANGED <<shared, fd, stream, ret, sock, buf, lost, running>>

\* If the socket was closed by hand there is nothing to report.
RecvFailed(l) ==
    /\ At(l, "recvFailed")
    /\ IF status = "Open"
          THEN Call(l, "shutdown", "onLost") /\ lost' = [lost EXCEPT ![l] = "1006"]
          ELSE GoTo(l, "done") /\ UNCHANGED <<ret, lost>>
    /\ UNCHANGED <<shared, fd, stream, sock, buf, running>>

-----------------------------------------------------------------------------
(* The inner loop: frames out of the buffer *)

\* No header yet: an error.  Not as much payload as the header says: wait for it.
ParseIncomplete(l) ==
    /\ At(l, "parse")
    /\ ~(buf[l] >= PartsPerFrame /\ Whole(HeadFrame(l)))
    /\ GoTo(l, IF buf[l] = 1 THEN "parseError" ELSE "while")
    /\ UNCHANGED <<shared, fd, stream, ret, sock, buf, lost, running>>

Dispatch(kind) ==
    CASE kind \in {"Text", "Long"} -> "onText"
      [] kind = "Binary" -> "onBinary"
      [] kind = "Ping"   -> "pong"
      [] kind = "Close"  -> "closeFrame"
      [] OTHER           -> "opcodeError"

ParseFrame(l) ==
    /\ At(l, "parse")
    /\ buf[l] >= PartsPerFrame /\ Whole(HeadFrame(l))
    /\ GoTo(l, Dispatch(HeadFrame(l)))
    /\ buf' = [buf EXCEPT ![l] = @ - PartsPerFrame]
    /\ UNCHANGED <<shared, fd, stream, ret, sock, lost, running>>

PongCheck(l) ==
    /\ At(l, "pong")
    /\ GoTo(l, IF status = "Closed" THEN "parse" ELSE "sendPong")
    /\ UNCHANGED <<shared, fd, stream, ret, sock, buf, lost, running>>

SendPong(l) ==
    /\ At(l, "sendPong")
    /\ CanSend(wsSocket)
    /\ GoTo(l, "parse")
    /\ UNCHANGED <<shared, fd, stream, ret, sock, buf, lost, running>>

SendPongFails(l) ==
    /\ At(l, "sendPong")
    /\ SendMayFail(wsSocket)
    /\ GoTo(l, "pongError")
    /\ UNCHANGED <<shared, fd, stream, ret, sock, buf, lost, running>>

\* The status is read twice: whether a close was sent, then whether to answer this one.
CloseFrame(l) ==
    /\ At(l, "closeFrame")
    /\ IF status = "Closing"
          THEN Call(l, "shutdown", "done")
          ELSE GoTo(l, "closeAgain") /\ UNCHANGED ret
    /\ UNCHANGED <<shared, fd, stream, sock, buf, lost, running>>

CloseFrameAgain(l) ==
    /\ At(l, "closeAgain")
    /\ IF status = "Open"
          THEN Call(l, "close", "closeSent")
          ELSE GoTo(l, "done") /\ UNCHANGED ret
    /\ UNCHANGED <<shared, fd, stream, sock, buf, lost, running>>

\* The close frame is answered; now the socket, then the callback.
CloseSent(l) ==
    /\ At(l, "closeSent")
    /\ Call(l, "shutdown", "onLost")
    /\ lost' = [lost EXCEPT ![l] = "1000"]
    /\ UNCHANGED <<shared, fd, stream, sock, buf, running>>

CallbackReturn(l) ==
    /\ running
    /\ pc[l] \in CallbackLabels
    /\ \E label \in AfterCallback(pc[l]) : GoTo(l, label)
    /\ UNCHANGED <<shared, fd, stream, ret, sock, buf, lost, running>>

LoopStep(l) ==
    \/ LoopStart(l) \/ LoopWhile(l) \/ Select(l)
    \/ RecvData(l) \/ RecvEnd(l) \/ RecvFailed(l)
    \/ ParseIncomplete(l) \/ ParseFrame(l)
    \/ PongCheck(l) \/ SendPong(l) \/ SendPongFails(l)
    \/ CloseFrame(l) \/ CloseFrameAgain(l) \/ CloseSent(l)

-----------------------------------------------------------------------------
(* The peer: a WebSocket server and the network before it *)

PeerAnswer(s) ==
    /\ IsOpen(s) /\ peer[s] = "up" /\ ~answered[s]
    /\ \E c \in Callers : At(c, "response") /\ sock[c] = s
    /\ answered' = [answered EXCEPT ![s] = TRUE]
    /\ UNCHANGED <<shared, fd, peer, sent, taken, threadVars, running>>

\* A close frame is the last frame of a server.
PeerSend(s) ==
    /\ running
    /\ IsOpen(s) /\ peer[s] = "up" /\ answered[s]
    /\ Len(sent[s]) < MaxFrames
    /\ \A i \in 1..Len(sent[s]) : sent[s][i] # "Close"
    /\ \E k \in FrameKinds : sent' = [sent EXCEPT ![s] = Append(@, k)]
    /\ UNCHANGED <<shared, fd, peer, answered, taken, threadVars, running>>

PeerEnds(s) ==
    /\ running
    /\ IsOpen(s) /\ peer[s] = "up"
    /\ \E how \in {"fin", "reset"} : peer' = [peer EXCEPT ![s] = how]
    /\ UNCHANGED <<shared, fd, answered, sent, taken, threadVars, running>>

Peer(s) == PeerAnswer(s) \/ PeerSend(s) \/ PeerEnds(s)

-----------------------------------------------------------------------------
(* The program *)

CallerStep(c) == HandshakeSend(c) \/ HandshakeFails(c) \/ HandshakeRecv(c)

\* What a caller decides to do, and when, is up to the user.
UserStep(c) ==
    \/ ConnectAssign(c) \/ ConnectRefused(c)
    \/ \E routine \in Routines : Invoke(c, routine)

\* An exception no function catches has ended the process.
Terminated == ~running /\ UNCHANGED vars

Next ==
    \/ \E c \in Callers : UserStep(c) \/ CallerStep(c) \/ Subroutine(c)
    \/ \E l \in Loops : LoopStep(l) \/ CallbackReturn(l) \/ Subroutine(l)
    \/ \E s \in Sockets : Peer(s)
    \/ Terminated

\* The threads are scheduled, socket calls return once they can, and callbacks
\* return; nothing is owed by the user or the peer.
Fairness ==
    /\ \A c \in Callers : WF_vars(CallerStep(c) \/ Subroutine(c))
    /\ \A l \in Loops : WF_vars(LoopStep(l) \/ CallbackReturn(l) \/ Subroutine(l))

Spec == Init /\ [][Next]_vars
FairSpec == Spec /\ Fairness

-----------------------------------------------------------------------------
(* What the client promises its user *)

\* While the status says Open there is a socket to send on and a thread that
\* receives from that very socket.
OpenIsServed ==
    running /\ status = "Open" =>
        /\ IsOpen(wsSocket)
        /\ \E l \in Loops : Alive(l) /\ (pc[l] # "start" => sock[l] = wsSocket)

\* The peer's side of the connection on s is over, or it said so in a close frame.
PeerGone(s) ==
    peer[s] # "up" \/ \E i \in 1..Len(sent[s]) : sent[s][i] = "Close"

\* The comment in RecvLoop: a socket closed by hand is not reported.  So a loss
\* is reported only of a connection the peer ended, with 1006 if the stream
\* ended and 1000 if it sent a close frame.
LostMeansGone ==
    \A l \in Loops : pc[l] = "onLost" =>
        /\ sock[l] \in Sockets
        /\ lost[l] = "1006" => peer[sock[l]] # "up"
        /\ lost[l] = "1000" => PeerGone(sock[l])

\* The user hears of a loss only when there is no open connection any more.
LostMeansNotOpen ==
    \A l \in Loops : pc[l] = "onLost" => status # "Open"

\* A receive thread closes no socket but the one it reads: on another it would
\* cut a connection its user has just made.
ClosesOwnSocket ==
    [][\A l \in Loops : CloseSocket(l) =>
          \A s \in Sockets : fd[s] # fd'[s] => s = sock[l]]_vars

\* When RecvLoop goes to wait for more bytes there is no frame left of which all bytes
\* have come: every text is given to its callback, as OnTextReceived documents, without
\* waiting for what comes after it.
NothingWaits ==
    \A l \in Loops :
        pc[l] \in {"while", "select", "selectError", "recv"} => buf[l] < PartsPerFrame

\* The frames of its socket the receive thread is done with: those that came with the
\* handshake's answer, which nobody looks at, and those it took from its buffer.
Handled(l) == (taken[sock[l]] - buf[l]) \div PartsPerFrame

\* Where RecvLoop goes with a frame, see Dispatch.
FrameLabels == {"onText", "onBinary", "pong", "closeFrame", "opcodeError"}

\* The thread turns to a frame by taking the next one the peer sent, and in no other way.
TakesInTurn(l) ==
    \/ /\ Handled(l)' = Handled(l)
       /\ pc'[l] # pc[l] => pc'[l] \notin FrameLabels
    \/ /\ Handled(l)' = Handled(l) + 1
       /\ Handled(l) < Len(sent[sock[l]])
       /\ pc'[l] = Dispatch(sent[sock[l]][Handled(l) + 1])

\* Wherever the reads cut the stream, a receive thread gives every frame to the handler of
\* its kind, in the order sent: RecvLoop's buffer leaves none out, takes none twice and
\* none for another.
FramesInTurn ==
    [][\A l \in Loops : Alive(l) /\ pc[l] # "start" => TakesInTurn(l)]_vars

\* The exception in Close never escapes from a receive thread: a close frame from
\* the peer is answered and reported, as OnLostConnection documents.
CloseFrameReported == running

\* Whatever the thread is doing when the connection stops being open, it ends;
\* Connect may then be called.
LoopEnds ==
    \A l \in Loops :
        (Alive(l) /\ status # "Open") ~> (~Alive(l) \/ status = "Open" \/ ~running)

\* When the peer goes away the client notices: its status does not stay Open.
LossNoticed ==
    \A s \in Sockets :
        (wsSocket = s /\ status = "Open" /\ peer[s] # "up")
            ~> (status # "Open" \/ wsSocket # s \/ ~running)

-----------------------------------------------------------------------------
(* Refinement: ConnectionPromise with the receive threads as connections *)

Current ==
    IF status = "Open" /\ \E l \in Loops : Alive(l)
       THEN CHOOSE l \in Loops : Alive(l) ELSE NoSocket

SocketOf(l) == IF pc[l] = "start" THEN wsSocket ELSE sock[l]

Promise == INSTANCE ConnectionPromise WITH
    Connections <- Loops,
    None <- NoSocket,
    current <- Current,
    made <- {l \in Loops : pc[l] # "unborn"},
    gone <- {l \in Loops : pc[l] # "unborn" /\ PeerGone(SocketOf(l))},
    told <- {l \in Loops : lost[l] # "no" /\ pc[l] \in {"onLost", "done"}}

\* The client implements the promise: one connection at a time, a loss reported
\* once, after the fact, and of a connection its peer ended.
KeepsPromise == Promise!Spec

=============================================================================
