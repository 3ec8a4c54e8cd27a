---------------------------- MODULE MiraiSession ----------------------------
(***************************************************************************)
(* The session with Mirai (src/src/ws_client.cpp): the flag logined, the   *)
(* connection time and the panel of the main window (src/src/cspbot20.cpp) *)
(* between three kinds of threads: the starter, which makes one attempt to *)
(* connect, the receive thread of each connection, and the GUI thread with *)
(* the buttons connect and disConnect.  The WebSocket client below is what *)
(* ConnectionPromise says of it.                                           *)
(*                                                                         *)
(* What another thread emits waits in queue for the GUI thread; what the   *)
(* GUI thread emits is a call.  While a picture is loaded or a message box *)
(* is open its handler runs an event loop: frames is the stack of the      *)
(* handlers under way.                                                     *)
(***************************************************************************)
EXTENDS Naturals, Sequences

CONSTANTS
    Connections,  \* one for each successful Connect; its receive thread has its name
    None

ASSUME NoneAssumption == None \notin Connections

VARIABLES
    current, made, gone, told,  \* the WebSocket client, see ConnectionPromise
    thread,     \* where each receive thread is
    starter,    \* where the thread of Mirai::run is
    frames,     \* handlers of the GUI thread, the innermost first
    queue,      \* signals the GUI thread has not taken yet
    connected,  \* WsClient::connected
    logined,    \* Mirai::logined
    requests,   \* botProfile packets sent on each connection
    replies,    \* how many of them were answered
    mGetTime,   \* the connection time: not initialized, 0, or some time
    panel       \* the user the panel shows

client == <<current, made, gone, told>>
threads == <<thread, starter, frames, queue>>
session == <<connected, logined, requests, replies>>
window == <<mGetTime, panel>>
vars == <<client, threads, session, window>>

Client == INSTANCE ConnectionPromise

ThreadLabels ==
    {"none", "reading", "welcome", "send", "ending", "lost", "clear", "done"}
StarterLabels == {"login", "made", "failed", "profile", "done"}
Loops == {"image", "box", "notice"}
FrameLabels == {"login", "made", "profile", "disConnect", "reset", "send"} \cup Loops
Signals == {"time", "zero", "user", "noUser", "notice"}

TypeOK ==
    /\ current \in Connections \cup {None}
    /\ made \subseteq Connections /\ gone \subseteq made /\ told \subseteq gone
    /\ thread \in [Connections -> ThreadLabels]
    /\ starter \in StarterLabels
    /\ frames \in Seq(FrameLabels)
    /\ queue \in Seq(Signals)
    /\ connected \in BOOLEAN /\ logined \in BOOLEAN
    /\ requests \in [Connections -> Nat]
    /\ replies \in [Connections -> Nat]
    /\ mGetTime \in {"unset", "zero", "time"}
    /\ panel \in {"nobody", "user"}

Init ==
    /\ Client!Init
    /\ thread = [n \in Connections |-> "none"]
    /\ starter = "login"
    /\ frames = <<>> /\ queue = <<>>
    /\ connected = FALSE /\ logined = FALSE
    /\ requests = [n \in Connections |-> 0]
    /\ replies = [n \in Connections |-> 0]
    /\ mGetTime = "unset"
    /\ panel = "nobody"

-----------------------------------------------------------------------------

Top(label) == frames # <<>> /\ Head(frames) = label
Push(label) == frames' = <<label>> \o frames
Pop == frames' = Tail(frames)
Become(label) == frames' = <<label>> \o Tail(frames)

Goes(n, label) == thread' = [thread EXCEPT ![n] = label]

\* The event loop runs, in main or inside a handler.
TakesEvents == frames = <<>> \/ \E label \in Loops : Top(label)

\* A message box is modal: it lets no click through, wherever it is on the stack.
\* Signals that wait are delivered before the next click.
TakesInput ==
    /\ \A i \in 1..Len(frames) : frames[i] = "image"
    /\ queue = <<>>

\* ws.Shutdown(): nothing happens unless a connection is open.
Shutdown == IF current = None THEN UNCHANGED client ELSE Client!End

\* What the client asks of its users, see Settled in WebSocketClient, and a user who
\* waits until the starter has tried; the code does not see to either.
MayConnect ==
    /\ starter = "done"
    /\ current = None
    /\ \A n \in Connections : thread[n] \in {"none", "done"}

\* botProfile.  SendText throws if no connection is open, and may throw if its peer is
\* gone; sendTextMsg catches that.
BotProfile ==
    \/ /\ connected /\ current # None
       /\ requests' = [requests EXCEPT ![current] = @ + 1]
    \/ /\ ~connected \/ current = None \/ current \in gone
       /\ UNCHANGED requests

-----------------------------------------------------------------------------
(* Faulty variants of some steps below, one plausible slip each; nothing uses *)
(* them: put in place of the step they are named after, they break a property. *)

\* connect asks for the profile as well, so that two answers come.
WindowMadeAsking ==
    /\ Top("made")
    /\ connected' = TRUE
    /\ mGetTime' = "time"
    /\ requests' = [n \in Connections |-> requests[n] + IF n = current THEN 1 ELSE 0]
    /\ Become("profile")
    /\ UNCHANGED <<client, thread, starter, queue, logined, replies, panel>>

\* connect does not emit the time.
WindowMadeSilent ==
    /\ Top("made")
    /\ connected' = TRUE
    /\ Become("profile")
    /\ UNCHANGED <<client, thread, starter, queue, logined, requests, replies, window>>

\* connectMirai asks for the profile only after a failure.
WindowMadeReturns ==
    /\ Top("made")
    /\ connected' = TRUE
    /\ mGetTime' = "time"
    /\ Pop
    /\ UNCHANGED <<client, thread, starter, queue, logined, requests, replies, panel>>

\* A rule sends without the test of logined, as SendPacket does.
ThreadRuleUntested(n) ==
    /\ thread[n] = "reading"
    /\ Goes(n, "send")
    /\ UNCHANGED <<client, starter, frames, queue, session, window>>

\* setUserImage gives up if the picture cannot be loaded.
ImageMayFail ==
    /\ Top("image")
    /\ panel' \in {panel, "user"}
    /\ Pop
    /\ UNCHANGED <<client, thread, starter, queue, session, mGetTime>>

\* onText emits sigLogin, to which nothing is connected.
WelcomeUnheard(n) ==
    /\ thread[n] = "welcome"
    /\ queue' = Append(queue, "sigLogin")
    /\ Goes(n, "reading")
    /\ UNCHANGED <<client, starter, frames, session, window>>

\* onLost leaves logined as it is.
LostStillLogined(n) ==
    /\ thread[n] = "lost"
    /\ Client!Tell(n)
    /\ Goes(n, "clear")
    /\ UNCHANGED <<starter, frames, queue, session, window>>

-----------------------------------------------------------------------------
(* connectMirai on the starter thread *)

StarterConnects(n) ==
    /\ starter = "login"
    /\ Client!Open(n)
    /\ starter' = "made"
    /\ Goes(n, "reading")
    /\ UNCHANGED <<frames, queue, session, window>>

StarterFails ==
    /\ starter = "login"
    /\ starter' = "profile"
    /\ queue' = queue \o <<"notice", "zero">>
    /\ UNCHANGED <<client, thread, frames, session, window>>

StarterMade ==
    /\ starter = "made"
    /\ connected' = TRUE
    /\ queue' = Append(queue, "time")
    /\ starter' = "profile"
    /\ UNCHANGED <<client, thread, frames, logined, requests, replies, window>>

StarterProfile ==
    /\ starter = "profile"
    /\ BotProfile
    /\ starter' = "done"
    /\ UNCHANGED <<client, thread, frames, queue, connected, logined, replies, window>>

-----------------------------------------------------------------------------
(* The buttons *)

\* slotConnectMirai
ClickConnect ==
    /\ TakesInput /\ MayConnect
    /\ ~logined
    /\ Push("login")
    /\ UNCHANGED <<client, thread, starter, queue, session, window>>

WindowConnects(n) ==
    /\ Top("login")
    /\ Client!Open(n)
    /\ Become("made")
    /\ Goes(n, "reading")
    /\ UNCHANGED <<starter, queue, session, window>>

\* slotMiraiMessageBox shows its box only if there is a URL to connect to.
WindowFails ==
    /\ Top("login")
    /\ \/ Become("box") /\ UNCHANGED mGetTime
       \/ Become("profile") /\ mGetTime' = "zero"
    /\ UNCHANGED <<client, thread, starter, queue, session, panel>>

CloseBox ==
    /\ Top("box")
    /\ mGetTime' = "zero"
    /\ Become("profile")
    /\ UNCHANGED <<client, thread, starter, queue, session, panel>>

WindowMade ==
    /\ Top("made")
    /\ connected' = TRUE
    /\ mGetTime' = "time"
    /\ Become("profile")
    /\ UNCHANGED <<client, thread, starter, queue, logined, requests, replies, panel>>

WindowProfile ==
    /\ Top("profile")
    /\ BotProfile
    /\ Pop
    /\ UNCHANGED <<client, thread, starter, queue, connected, logined, replies, window>>

\* slotDisConnectMirai
ClickDisconnect ==
    /\ TakesInput
    /\ logined
    /\ Push("disConnect")
    /\ UNCHANGED <<client, thread, starter, queue, session, window>>

\* WsClient::shutdown, whatever has become of the connection since logined was tested.
WindowShutdown ==
    /\ Top("disConnect")
    /\ \/ connected /\ Shutdown /\ Become("reset")
       \/ ~connected /\ Pop /\ UNCHANGED client
    /\ UNCHANGED <<thread, starter, queue, session, window>>

\* The rest of WsClient::shutdown.
Reset ==
    /\ Top("reset")
    /\ logined' = FALSE
    /\ mGetTime' = "zero"
    /\ panel' = "nobody"
    /\ Pop
    /\ UNCHANGED <<client, thread, starter, queue, connected, requests, replies>>

-----------------------------------------------------------------------------
(* The signals *)

TakeSignal ==
    /\ TakesEvents
    /\ queue # <<>>
    /\ queue' = Tail(queue)
    /\ CASE Head(queue) \in {"time", "zero"} ->
                mGetTime' = Head(queue) /\ UNCHANGED <<frames, panel>>
         [] Head(queue) = "user"   -> Push("image") /\ UNCHANGED window
         [] Head(queue) = "noUser" -> panel' = "nobody" /\ UNCHANGED <<frames, mGetTime>>
         [] Head(queue) = "notice" -> frames' \in {frames, <<"notice">> \o frames}
                                      /\ UNCHANGED window
    /\ UNCHANGED <<client, thread, starter, session>>

CloseNotice ==
    /\ Top("notice")
    /\ Pop
    /\ UNCHANGED <<client, thread, starter, queue, session, window>>

\* The rest of setUserImage once the picture is there, or its download has failed.
ImageLoaded ==
    /\ Top("image")
    /\ panel' = "user"
    /\ Pop
    /\ UNCHANGED <<client, thread, starter, queue, session, mGetTime>>

\* A rule for the console sends a message: sendGroupMsg tests logined, then sends.
WindowRule ==
    /\ TakesEvents
    /\ logined
    /\ Push("send")
    /\ UNCHANGED <<client, thread, starter, queue, session, window>>

WindowSends ==
    /\ Top("send")
    /\ Pop
    /\ UNCHANGED <<client, thread, starter, queue, session, window>>

-----------------------------------------------------------------------------
(* A receive thread.  It goes on with what it has read when the connection was *)
(* shut down in the meantime. *)

PeerEnds(n) ==
    /\ Client!PeerEnds(n)
    /\ UNCHANGED <<threads, session, window>>

\* onText of the answer to botProfile, as far as logined ...
Login(n) ==
    /\ thread[n] = "reading"
    /\ replies[n] < requests[n]
    /\ replies' = [replies EXCEPT ![n] = @ + 1]
    /\ logined' = TRUE
    /\ Goes(n, "welcome")
    /\ UNCHANGED <<client, starter, frames, queue, connected, requests, window>>

\* ... and the rest.
Welcome(n) ==
    /\ thread[n] = "welcome"
    /\ queue' = Append(queue, "user")
    /\ Goes(n, "reading")
    /\ UNCHANGED <<client, starter, frames, session, window>>

\* onText of a group message, to which a rule answers in the group.
ThreadRule(n) ==
    /\ thread[n] = "reading"
    /\ logined
    /\ Goes(n, "send")
    /\ UNCHANGED <<client, starter, frames, queue, session, window>>

ThreadSends(n) ==
    /\ thread[n] = "send"
    /\ Goes(n, "reading")
    /\ UNCHANGED <<client, starter, frames, queue, session, window>>

\* onError: a frame the client cannot read, or a select that fails.
Error(n) ==
    /\ thread[n] = "reading"
    /\ logined' = FALSE
    /\ UNCHANGED <<client, threads, connected, requests, replies, window>>

\* The thread finds the connection ended, while its status is still Open, ...
NoticeEnd(n) ==
    /\ thread[n] = "reading"
    /\ current = n /\ n \in gone
    /\ Goes(n, "ending")
    /\ UNCHANGED <<client, starter, frames, queue, session, window>>

\* ... shuts it down, if the user has not done so, ...
ThreadShutdown(n) ==
    /\ thread[n] = "ending"
    /\ Shutdown
    /\ Goes(n, "lost")
    /\ UNCHANGED <<starter, frames, queue, session, window>>

\* ... and calls onLost.
Lost(n) ==
    /\ thread[n] = "lost"
    /\ Client!Tell(n)
    /\ logined' = FALSE
    /\ Goes(n, "clear")
    /\ UNCHANGED <<starter, frames, queue, connected, requests, replies, window>>

LostTold(n) ==
    /\ thread[n] = "clear"
    /\ queue' = queue \o <<"noUser", "zero">>
    /\ Goes(n, "done")
    /\ UNCHANGED <<client, starter, frames, session, window>>

\* The loop ends without a word when somebody else has closed the socket.
Leave(n) ==
    /\ thread[n] = "reading"
    /\ current # n
    /\ Goes(n, "done")
    /\ UNCHANGED <<client, starter, frames, queue, session, window>>

-----------------------------------------------------------------------------

StarterStep ==
    \/ \E n \in Connections : StarterConnects(n)
    \/ StarterFails \/ StarterMade \/ StarterProfile

\* Handlers go on by themselves; only a box waits for the user.
WindowStep ==
    \/ \E n \in Connections : WindowConnects(n)
    \/ WindowFails \/ WindowMade \/ WindowProfile
    \/ WindowShutdown \/ Reset \/ TakeSignal \/ ImageLoaded \/ WindowSends

User == ClickConnect \/ ClickDisconnect \/ CloseBox \/ CloseNotice \/ WindowRule

ThreadStep(n) ==
    \/ Welcome(n) \/ ThreadSends(n) \/ NoticeEnd(n) \/ ThreadShutdown(n)
    \/ Lost(n) \/ LostTold(n) \/ Leave(n)

Mirai(n) == PeerEnds(n) \/ Login(n) \/ ThreadRule(n) \/ Error(n)

Next ==
    \/ StarterStep \/ WindowStep \/ User
    \/ \E n \in Connections : ThreadStep(n) \/ Mirai(n)

\* The threads are scheduled, the event loop runs, pictures load or fail.  What a
\* thread has still to read of a connection that has ended comes to an end.
Fairness ==
    /\ WF_vars(StarterStep) /\ WF_vars(WindowStep)
    /\ \A n \in Connections :
          WF_vars(ThreadStep(n)) /\ SF_vars(NoticeEnd(n) \/ Leave(n))

Spec == Init /\ [][Next]_vars
FairSpec == Spec /\ Fairness

-----------------------------------------------------------------------------
(* Properties *)

InReset == \E i \in 1..Len(frames) : frames[i] = "reset"

\* logined outlives the connection only until shutdown or onLost has cleared it:
\* otherwise the button connect says that there is a connection, for good.
LoginIsLive ==
    logined /\ current = None =>
        InReset \/ \E n \in Connections : thread[n] = "lost"

\* sendGroupMsg tests logined and sends later: what goes out by then goes out on a
\* connection that has answered the login, or not at all.
SendsAreLoggedIn ==
    (Top("send") \/ \E n \in Connections : thread[n] = "send")
        => current = None \/ replies[current] > 0

\* Nothing is under way but the receive thread of an open connection.
Quiet ==
    /\ starter = "done" /\ frames = <<>> /\ queue = <<>>
    /\ \A n \in Connections :
          \/ thread[n] \in {"none", "done"}
          \/ thread[n] = "reading" /\ current = n

\* "更新连接时间" (update the connection time): once all signals are delivered the time
\* runs for an open connection, whatever an earlier one has left behind.
TimeTells == Quiet /\ current # None => mGetTime = "time"

\* And the panel shows the user while he is logged in.
PanelShows == Quiet /\ logined => panel = "user"

\* A connection that stays is asked who the bot is, so that it can log in.
ProfileIsAsked ==
    \A n \in Connections : current = n ~> requests[n] > 0 \/ current # n

\* The loss of a connection ends the session, and the buttons work again.
SessionEnds ==
    \A n \in Connections : current = n /\ n \in gone ~> ~logined /\ current # n

=============================================================================
