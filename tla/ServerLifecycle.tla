--------------------------- MODULE ServerLifecycle ---------------------------
(***************************************************************************)
(* The game server as CSPBot runs it: class Server (src/src/server.cpp)    *)
(* around a child process, the buttons of the main window that start and   *)
(* stop it (src/src/cspbot20.cpp), and the chat command stop               *)
(* (src/src/command.cpp), which a receive thread of the WebSocket client   *)
(* runs without a lock.                                                    *)
(*                                                                         *)
(* The GUI thread runs one handler at a time, but a handler that shows a   *)
(* message box takes further events while the box is open, and a callback  *)
(* may start a server in the middle of a handler: frames is the stack of   *)
(* the handlers under way.                                                 *)
(***************************************************************************)
EXTENDS Naturals, Sequences, FiniteSets

CONSTANTS
    MaxServers,   \* bound: Server objects created
    MaxQueue,     \* bound: events of the chat thread the GUI has not taken yet
    MaxNesting,   \* bound: handlers under way when one more server is asked for
    Features      \* what may happen besides the buttons, see AllFeatures

AllFeatures ==
    {"chatStart",     \* a rule for group messages starts the server
     "shortcut",      \* Ctrl+Shift+C clicks the button for a cmd.exe server
     "autoRestart",   \* event.yml starts a server on onServerStop
     "noRunner",      \* runner.bat may be missing
     "startFails"}    \* the process may not start

ASSUME FeaturesAssumption == Features \subseteq AllFeatures
ASSUME BoundsAssumption ==
    MaxServers \in Nat /\ MaxQueue \in Nat /\ MaxNesting \in Nat

Servers == 1..MaxServers

VARIABLES
    g_server,      \* the last Server created, 0 for nullptr
    proc,          \* the child process of each; "over" once finished() was taken
    started, normalStop, TypeOfStop,
    start, stop, force,   \* the buttons; the command line goes with force
    status,        \* the label tells that the server runs
    frames,        \* handlers of the GUI thread, the innermost first
    queue,         \* events of the chat thread for the GUI thread
    chat,          \* where the chat thread is
    told,          \* the last callback was onServerStart
    program        \* "up", "fading" before the window closes, "closed", "crashed"

server == <<g_server, proc, started, normalStop, TypeOfStop>>
buttons == <<start, stop, force>>
window == <<buttons, status>>
vars == <<server, window, frames, queue, chat, told, program>>

Boxes == {"warnBox", "forceBox", "closeBox"}
Frames == Boxes \cup {"run", "finish"}

TypeOK ==
    /\ g_server \in 0..MaxServers
    /\ proc \in [Servers -> {"none", "running", "exited", "over"}]
    /\ started \in [Servers -> BOOLEAN]
    /\ normalStop \in [Servers -> BOOLEAN]
    /\ TypeOfStop \in [Servers -> {"unset", "normal", "force", "accident"}]
    /\ start \in BOOLEAN /\ stop \in BOOLEAN /\ force \in BOOLEAN
    /\ status \in BOOLEAN
    /\ frames \in Seq(Frames)
    /\ queue \in Seq({"start", "send"})
    /\ chat \in {"idle", "stop"}
    /\ told \in BOOLEAN
    /\ program \in {"up", "fading", "closed", "crashed"}

Init ==
    /\ g_server = 0
    /\ proc = [s \in Servers |-> "none"]
    /\ started = [s \in Servers |-> FALSE]
    /\ normalStop = [s \in Servers |-> FALSE]
    /\ TypeOfStop = [s \in Servers |-> "unset"]
    /\ start = TRUE /\ stop = FALSE /\ force = FALSE
    /\ status = FALSE
    /\ frames = <<>> /\ queue = <<>>
    /\ chat = "idle"
    /\ told = FALSE
    /\ program = "up"

-----------------------------------------------------------------------------

Top(kind) == frames # <<>> /\ Head(frames) = kind

Alive == program \in {"up", "fading"}

\* A faulty variant: a box that holds back the events of the program as well.
TakesEventsUnboxed == Alive /\ frames = <<>>

\* Every message box is modal: it lets events through, but no click or key.
TakesEvents == Alive /\ (frames = <<>> \/ \E kind \in Boxes : Top(kind))
TakesInput == Alive /\ frames = <<>>

Crash ==
    /\ program' = "crashed"
    /\ UNCHANGED <<server, window, frames, queue, chat, told>>

\* startServer and startCmd as far as createServer, on top of the handlers in stack.
BeginStart(stack) ==
    \/ /\ "noRunner" \in Features
       /\ Len(stack) <= MaxNesting
       /\ frames' = <<"warnBox">> \o stack
       /\ UNCHANGED g_server
    \/ /\ g_server < MaxServers
       /\ g_server' = g_server + 1
       /\ frames' = <<"run">> \o stack

\* taskkill /F /T, which knows the process only by its id.
Kill(s) ==
    /\ proc' = [proc EXCEPT ![s] = IF @ = "running" THEN "exited" ELSE @]
    /\ TypeOfStop' = [TypeOfStop EXCEPT ![s] = "force"]

\* stopServer, and sendCmd with the stop command: the process may obey, or not.
AskToStop(s) == normalStop' = [normalStop EXCEPT ![s] = TRUE]

\* slotChenableForce
ChenableForce(on) == force' = on /\ stop' = on /\ start' = ~on

-----------------------------------------------------------------------------
(* Faulty variants of some steps below, one plausible slip each; nothing uses *)
(* them: put in place of the step they are named after, they break a property. *)

\* stopServer with the two lines that are commented out at its end.
UserStopAtOnce ==
    /\ TakesInput /\ stop
    /\ g_server # 0 /\ AskToStop(g_server)
    /\ stop' = FALSE /\ start' = TRUE
    /\ UNCHANGED <<g_server, proc, started, TypeOfStop, force, status, frames, queue,
                   chat, told, program>>

\* progressFinished leaves started set.
FinishedStillStarted(s) ==
    /\ TakesEvents
    /\ proc[s] = "exited"
    /\ proc' = [proc EXCEPT ![s] = "over"]
    /\ told' = FALSE
    /\ frames' = <<"finish">> \o frames
    /\ UNCHANGED <<g_server, started, normalStop, TypeOfStop, window, queue, chat,
                   program>>

\* progressFinished records an outcome that stopType does not have.
FinishCrashed ==
    /\ Alive /\ Top("finish")
    /\ frames' = Tail(frames)
    /\ ChenableForce(FALSE)
    /\ status' = FALSE
    /\ TypeOfStop' = [TypeOfStop EXCEPT ![g_server] =
                         IF normalStop[g_server] THEN "normal" ELSE "crashed"]
    /\ UNCHANGED <<g_server, proc, started, normalStop, queue, chat, told, program>>

\* The answer yes to the question before leaving does not stop the server, as if the line
\* with forceStopServer were commented out like those that follow it.
CloseYesLeavesIt ==
    /\ Alive /\ Top("closeBox")
    /\ frames' = Tail(frames)
    /\ program' = "fading"
    /\ UNCHANGED <<server, window, queue, chat, told>>

-----------------------------------------------------------------------------
(* Starting *)

UserStart ==
    /\ TakesInput /\ start
    /\ BeginStart(frames)
    /\ UNCHANGED <<proc, started, normalStop, TypeOfStop, window, queue, chat, told, program>>

\* The button ui.ServerCmd behind the shortcut is never disabled.
UserShortcut ==
    /\ "shortcut" \in Features
    /\ TakesInput
    /\ BeginStart(frames)
    /\ UNCHANGED <<proc, started, normalStop, TypeOfStop, window, queue, chat, told, program>>

\* createServer, the callback onServerStart, and the end of startServer.
RunServer ==
    /\ Alive /\ Top("run")
    /\ frames' = Tail(frames)
    /\ ChenableForce(TRUE)
    /\ status' = TRUE
    /\ proc' = [proc EXCEPT ![g_server] = "running"]
    /\ started' = [started EXCEPT ![g_server] = TRUE]
    /\ told' = TRUE
    /\ UNCHANGED <<g_server, normalStop, TypeOfStop, queue, chat, program>>

\* The process does not start; startServer ends all the same.
RunFails ==
    /\ "startFails" \in Features
    /\ Alive /\ Top("run")
    /\ frames' = Tail(frames)
    /\ stop' = TRUE /\ start' = FALSE
    /\ UNCHANGED <<server, force, status, queue, chat, told, program>>

\* The box "runner.bat is missing" is closed; startServer ends.
WarnClosed ==
    /\ Alive /\ Top("warnBox")
    /\ frames' = Tail(frames)
    /\ stop' = TRUE /\ start' = FALSE
    /\ UNCHANGED <<server, force, status, queue, chat, told, program>>

-----------------------------------------------------------------------------
(* Stopping *)

UserStop ==
    /\ TakesInput /\ stop
    /\ IF g_server = 0
          THEN Crash
          ELSE /\ AskToStop(g_server)
               /\ UNCHANGED <<g_server, proc, started, TypeOfStop, window, frames, queue,
                              chat, told, program>>

\* The stop command as a line of the console: typed (text left in the line can be
\* sent with Return after the line is disabled again), or by a rule for console
\* output, once there has been a process that writes some.
ConsoleStop ==
    /\ TakesEvents
    /\ \E s \in Servers : proc[s] # "none"
    /\ AskToStop(g_server)
    /\ UNCHANGED <<g_server, proc, started, TypeOfStop, window, frames, queue, chat,
                   told, program>>

UserForce ==
    /\ TakesInput /\ force
    /\ frames' = <<"forceBox">>
    /\ UNCHANGED <<server, window, queue, chat, told, program>>

ForceYes ==
    /\ Alive /\ Top("forceBox")
    /\ Kill(g_server)
    /\ frames' = Tail(frames)
    /\ UNCHANGED <<g_server, started, normalStop, window, queue, chat, told, program>>

\* Exit of the process, obeying or not.
Exit(s) ==
    /\ program # "crashed"
    /\ proc[s] = "running"
    /\ proc' = [proc EXCEPT ![s] = "exited"]
    /\ UNCHANGED <<g_server, started, normalStop, TypeOfStop, window, frames, queue,
                   chat, told, program>>

\* progressFinished as far as the callback onServerStop, with the server that a
\* rule for this event may start.
Finished(s) ==
    /\ TakesEvents
    /\ proc[s] = "exited"
    /\ proc' = [proc EXCEPT ![s] = "over"]
    /\ started' = [started EXCEPT ![g_server] = FALSE]
    /\ told' = FALSE
    /\ LET stack == <<"finish">> \o frames IN
          \/ frames' = stack /\ UNCHANGED g_server
          \/ "autoRestart" \in Features /\ BeginStart(stack)
    /\ UNCHANGED <<normalStop, TypeOfStop, window, queue, chat, program>>

\* The rest of progressFinished, about the server that is current now.
Finish ==
    /\ Alive /\ Top("finish")
    /\ frames' = Tail(frames)
    /\ ChenableForce(FALSE)
    /\ status' = FALSE
    /\ TypeOfStop' = [TypeOfStop EXCEPT ![g_server] =
                         IF normalStop[g_server] THEN "normal" ELSE "accident"]
    /\ UNCHANGED <<g_server, proc, started, normalStop, queue, chat, told, program>>

-----------------------------------------------------------------------------
(* Leaving the program *)

\* checkClose asks only if the server is started.
UserClose ==
    /\ TakesInput
    /\ IF g_server # 0 /\ started[g_server]
          THEN frames' = <<"closeBox">> /\ UNCHANGED program
          ELSE program' = "fading" /\ UNCHANGED frames
    /\ UNCHANGED <<server, window, queue, chat, told>>

CloseYes ==
    /\ Alive /\ Top("closeBox")
    /\ Kill(g_server)
    /\ frames' = Tail(frames)
    /\ program' = "fading"
    /\ UNCHANGED <<g_server, started, normalStop, window, queue, chat, told>>

\* The answer no, to either question.
BoxNo ==
    /\ Alive /\ (Top("forceBox") \/ Top("closeBox"))
    /\ frames' = Tail(frames)
    /\ UNCHANGED <<server, window, queue, chat, told, program>>

\* deletePointer, when the animation has ended.
FadeEnds ==
    /\ TakesEvents /\ program = "fading"
    /\ program' = "closed"
    /\ UNCHANGED <<server, window, frames, queue, chat, told>>

-----------------------------------------------------------------------------
(* The chat thread: rules for group messages *)

\* CustomCmd stop: is the server started?
ChatStop ==
    /\ Alive /\ chat = "idle"
    /\ IF g_server = 0
          THEN Crash
          ELSE /\ started[g_server]
               /\ chat' = "stop"
               /\ UNCHANGED <<server, window, frames, queue, told, program>>

\* Then it is stopped, whichever server is current by now.  Of one that is only being
\* created the process is a pointer nobody has set, until createServer has got to it.
ChatStopServer ==
    /\ Alive /\ chat = "stop"
    /\ \/ Top("run") /\ Crash
       \/ /\ AskToStop(g_server)
          /\ chat' = "idle"
          /\ UNCHANGED <<g_server, proc, started, TypeOfStop, window, frames, queue, told,
                         program>>

\* The signals signalStartServer and sendServerCommand wait for the GUI thread.
ChatSignal(signal) ==
    /\ Alive /\ chat = "idle"
    /\ Len(queue) < MaxQueue
    /\ signal = "start" => "chatStart" \in Features
    /\ queue' = Append(queue, signal)
    /\ UNCHANGED <<server, window, frames, chat, told, program>>

TakeStart ==
    /\ TakesEvents /\ queue # <<>> /\ Head(queue) = "start"
    /\ queue' = Tail(queue)
    /\ BeginStart(frames)
    /\ UNCHANGED <<proc, started, normalStop, TypeOfStop, window, chat, told, program>>

\* slotSendCommand; the command may be the stop command.
TakeSend ==
    /\ TakesEvents /\ queue # <<>> /\ Head(queue) = "send"
    /\ IF g_server = 0
          THEN Crash
          ELSE /\ queue' = Tail(queue)
               /\ \/ AskToStop(g_server)
                  \/ UNCHANGED normalStop
               /\ UNCHANGED <<g_server, proc, started, TypeOfStop, window, frames, chat,
                              told, program>>

-----------------------------------------------------------------------------

User == UserStart \/ UserShortcut \/ UserStop \/ UserForce \/ UserClose

Answer == WarnClosed \/ ForceYes \/ CloseYes \/ BoxNo

Gui ==
    \/ RunServer \/ RunFails \/ Finish \/ ConsoleStop \/ FadeEnds
    \/ TakeStart \/ TakeSend
    \/ \E s \in Servers : Finished(s)

Chat == ChatStop \/ ChatStopServer \/ \E signal \in {"start", "send"} : ChatSignal(signal)

Next == User \/ Answer \/ Gui \/ Chat \/ \E s \in Servers : Exit(s)

Spec == Init /\ [][Next]_vars

\* The event loop of the GUI thread never starves a handler or a signal; users and
\* servers owe nothing.
FairSpec ==
    /\ Spec
    /\ WF_vars(RunServer) /\ WF_vars(Finish)
    /\ \A s \in Servers : WF_vars(Finished(s))

-----------------------------------------------------------------------------
(* Properties *)

Lives(s) == proc[s] \in {"running", "exited"}

Handling(kind) == \E i \in 1..Len(frames) : frames[i] = kind

\* Two game servers never run on the same world, however the user and chat hurry:
\* the start button comes back only after finished().
OneServer == \A r, s \in Servers : proc[r] = "running" /\ proc[s] = "running" => r = s

\* Outside of a handler that is about to change them, the start button is enabled
\* exactly if no process is left to finish (slotChenableForce), and the label says that
\* the server runs exactly if one is (slotChangeStatus).
ButtonsTell ==
    Alive /\ ~Handling("run") /\ ~Handling("finish")
        => start = (\A s \in Servers : ~Lives(s)) /\ status = ~start

\* "是否开启" (whether it runs): started, which chat and checkClose decide on, tells that
\* the process of the current server lives.
StartedTells ==
    /\ \A s \in Servers : started[s] => Lives(s)
    /\ \A s \in Servers : proc[s] = "running" => s = g_server /\ started[s]

\* The window begins to fade only when no server process runs: checkClose has found none
\* by started, or has just killed the one it asked about, whatever chat, rules and the
\* process itself did while the question was open.
LeavesNothingRunning ==
    [][program = "up" /\ program' = "fading" =>
          \A s \in Servers : proc'[s] # "running"]_vars

Promise == INSTANCE ServerPromise WITH
    running <- \E s \in Servers : proc[s] = "running",
    told <- told

KeepsPromise == Promise!Spec

\* With every feature on, handlers nested in boxes and in callbacks: the end of
\* each process is handled in the end.
EndsAreHandled == \A s \in Servers : proc[s] = "exited" ~> proc[s] = "over" \/ ~Alive

=============================================================================
