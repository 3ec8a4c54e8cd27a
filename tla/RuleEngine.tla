----------------------------- MODULE RuleEngine -----------------------------
(***************************************************************************)
(* What rules do: those of g_regular, to the messages of QQ groups         *)
(* (Mirai::selfGroupCatchLine, on a receive thread) and to the lines of the *)
(* server (Server::selfCatchLine, on the GUI thread), and those of         *)
(* event.yml, to the events which all of this raises.                      *)
(*                                                                         *)
(* On the GUI thread a signal is a call: a rule sends a command, which     *)
(* raises an event, whose rules send commands, and so on.  frames is that  *)
(* stack.  What the receive thread emits waits in queue.  A server has been *)
(* started before, and runner.bat is where startServer looks for it.       *)
(***************************************************************************)
EXTENDS Naturals, Sequences

CONSTANTS
    Texts, Patterns,
    Matches,       \* which text matches which pattern: pairs
    RuleLists,     \* what the editors make of g_regular
    EventFiles,    \* what event.yml may hold: the actions for each event
    Rank,          \* of the events, see RanksAssumption
    Groups,        \* the number of groups in the configuration
    MaxMessages    \* bound: messages that are received

\* onLogin stands for the events that nothing here raises: onServerStop, onConnectLost,
\* onConnectError; onBinded for onUnBinded too.
EventNames ==
    {"onSendCommand", "onSendMsg", "onReceiveMsg", "onConsoleUpdate", "onBinded",
     "onServerStart", "onLogin"}

\* What the text of a rule comes to: "<<" sends to the server, ">>" to all groups; of a
\* command only the first word and the number of words matter here: motd and those with
\* too few arguments reply to the group, a plugin's and an unknown one do nothing.
Actions == {"console", "group", "bind", "reply", "start", "stop", "none"}

Rules ==
    [pattern : Patterns, from : {"group", "console", "Group"}, permission : BOOLEAN,
     action : Actions]

\* The events that an action raises on the GUI thread.
Raises ==
    [console |-> {"onSendCommand"}, stop |-> {"onSendCommand"}, bind |-> {"onBinded"},
     group |-> {"onSendMsg"}, reply |-> {"onSendMsg"},
     start |-> {"onSendMsg", "onServerStart"}, none |-> {}]

ASSUME BoundsAssumption == Groups \in Nat /\ MaxMessages \in Nat
ASSUME ListsAssumption == RuleLists \subseteq Seq(Rules)
ASSUME FilesAssumption == EventFiles \subseteq [EventNames -> Seq(Actions)]

\* Rules for an event raise only events of lower rank: nothing leads back to itself.
\* The program does not check this; who writes event.yml has to see to it.
ASSUME RanksAssumption ==
    /\ Rank \in [EventNames -> Nat]
    /\ \A file \in EventFiles, e \in EventNames :
          \A i \in 1..Len(file[e]) : \A f \in Raises[file[e][i]] : Rank[f] < Rank[e]

VARIABLES
    regular,    \* g_regular
    event,      \* g_event
    frames,     \* handlers of the GUI thread, the innermost first
    queue,      \* signals for the GUI thread
    heard,      \* the messages received, each with the list of rules it met
    pos,        \* the receive thread: the next rule of that list, 0 if it has none
    owed,       \* messages it still sends for the last rule
    starting,   \* it asks for a start of the server after these
    written     \* commands of chat rules handed to the server, each by its cause

reader == <<heard, pos, owed, starting>>
vars == <<regular, event, frames, queue, reader, written>>

\* A command sent by rule i for message m; the others are not told apart.
Causes == (1..MaxMessages) \X Nat
Other == <<0, 0>>

LineFrame(text, i) == [at |-> "line", text |-> text, i |-> i]
EventFrame(e, i) == [at |-> "event", event |-> e, i |-> i]
WriteFrame(cause) == [at |-> "write", cause |-> cause]
SendFrame(left) == [at |-> "send", left |-> left]
StartFrame == [at |-> "start"]

Frames ==
    [at : {"line"}, text : Texts, i : Nat \ {0}]
        \cup [at : {"event"}, event : EventNames, i : Nat \ {0}]
        \cup [at : {"write"}, cause : Causes \cup {Other}]
        \cup [at : {"send"}, left : Nat] \cup [at : {"start"}]

Command(cause) == [signal |-> "command", cause |-> cause]
Event(e) == [signal |-> "event", event |-> e]
Start == [signal |-> "start"]

Signals ==
    [signal : {"command"}, cause : Causes]
        \cup [signal : {"event"}, event : EventNames] \cup [signal : {"start"}]

\* Of a message, what rules look at; admin tells whether its sender is one.
Messages == [text : Texts, admin : BOOLEAN, list : Seq(Rules)]

TypeOK ==
    /\ regular \in Seq(Rules) /\ event \in EventFiles
    /\ frames \in Seq(Frames) /\ queue \in Seq(Signals)
    /\ heard \in Seq(Messages) /\ Len(heard) <= MaxMessages
    /\ pos \in Nat /\ owed \in Nat /\ starting \in BOOLEAN
    /\ written \in Seq(Causes)

Init ==
    /\ regular \in RuleLists /\ event \in EventFiles
    /\ frames = <<>> /\ queue = <<>>
    /\ heard = <<>> /\ pos = 0 /\ owed = 0 /\ starting = FALSE
    /\ written = <<>>

-----------------------------------------------------------------------------
(* Calls on the GUI thread: the frames they put on the stack *)

\* sendCmd tells the listeners first and writes afterwards.
SendCmd(cause) == <<EventFrame("onSendCommand", 1), WriteFrame(cause)>>

\* What an action may do: a binding may be refused, the server may not run.
Calls ==
    [console |-> {SendCmd(Other)}, stop |-> {SendCmd(Other), <<>>},
     group |-> {<<SendFrame(Groups)>>}, reply |-> {<<SendFrame(1)>>},
     bind |-> {<<EventFrame("onBinded", 1)>>, <<>>},
     start |-> {<<SendFrame(1), StartFrame>>}, none |-> {<<>>}]

Idle == frames = <<>>
Top(kind) == frames # <<>> /\ Head(frames).at = kind

\* The handler on top goes on as next, after the calls it makes.
GoesOn(calls, next) == frames' = calls \o next \o Tail(frames)

\* A rule for the server's lines; its permission is read and not looked at.
Hits(rule, text) == rule.from = "console" /\ <<text, rule.pattern>> \in Matches

-----------------------------------------------------------------------------
(* What the receive thread needs to know *)

\* The message it is at, and what rule i of the list does with message m.
Now == Len(heard)
Applies(m, i) ==
    LET rule == heard[m].list[i] IN
    /\ rule.from \in {"group", "Group"} /\ <<heard[m].text, rule.pattern>> \in Matches
    /\ rule.permission => heard[m].admin

Emit(signal) == queue' = Append(queue, signal)

AtRule == pos # 0 /\ owed = 0 /\ ~starting

-----------------------------------------------------------------------------
(* Faulty variants of some steps below, one plausible slip each; nothing uses *)
(* them: put in place of the step they are named after, they break a property. *)

\* Signals are delivered in the middle of a handler, as a nested event loop does.
TakeNested ==
    /\ queue # <<>>
    /\ LET s == Head(queue) IN
          \/ s.signal = "command" /\ frames' = SendCmd(s.cause) \o frames
          \/ s.signal = "event" /\ frames' = <<EventFrame(s.event, 1)>> \o frames
          \/ s.signal = "start" /\ frames' = <<StartFrame>> \o frames
    /\ queue' = Tail(queue)
    /\ UNCHANGED <<regular, event, reader, written>>

\* slotSendCommand refuses while a listener says so.
TakeRefuses ==
    /\ Idle /\ queue # <<>>
    /\ LET s == Head(queue) IN
          \/ s.signal = "command" /\ frames' = <<EventFrame("onSendCommand", 1)>>
          \/ s.signal = "event" /\ frames' = <<EventFrame(s.event, 1)>>
          \/ s.signal = "start" /\ frames' = <<StartFrame>>
    /\ queue' = Tail(queue)
    /\ UNCHANGED <<regular, event, reader, written>>

\* EventCallbacker::callback does not go on to the next rule.
EventRuleAgain ==
    /\ Top("event")
    /\ LET f == Head(frames) IN
          \/ /\ f.i <= Len(event[f.event])
             /\ \E calls \in Calls[event[f.event][f.i]] :
                   GoesOn(calls, <<EventFrame(f.event, f.i)>>)
          \/ /\ f.i > Len(event[f.event])
             /\ GoesOn(<<>>, <<>>)
    /\ UNCHANGED <<regular, event, queue, reader, written>>

\* sendAllGroupMsg counts its groups from zero.
SendOnceMore ==
    /\ Top("send")
    /\ LET f == Head(frames) IN
          \/ /\ f.left >= 0
             /\ \E calls \in {<<EventFrame("onSendMsg", 1)>>, <<>>} :
                   GoesOn(calls, <<SendFrame(f.left - 1)>>)
          \/ f.left < 0 /\ GoesOn(<<>>, <<>>)
    /\ UNCHANGED <<regular, event, queue, reader, written>>

\* selfGroupCatchLine leaves its loop after the first rule that sends a command.
SignalBreaks ==
    /\ AtRule /\ pos <= Len(heard[Now].list) /\ Applies(Now, pos)
    /\ LET action == heard[Now].list[pos].action IN
          \/ action = "console" /\ Emit(Command(<<Now, pos>>))
          \/ action = "stop" /\ Emit(Event("onSendCommand"))
          \/ action = "bind" /\ Emit(Event("onBinded"))
    /\ pos' = Len(heard[Now].list) + 1
    /\ UNCHANGED <<regular, event, frames, heard, owed, starting, written>>

-----------------------------------------------------------------------------
(* The GUI thread *)

\* The event loop delivers a signal: slotSendCommand, slotOtherCallback, startServer.
Take ==
    /\ Idle /\ queue # <<>>
    /\ LET s == Head(queue) IN
          \/ s.signal = "command" /\ frames' = SendCmd(s.cause)
          \/ s.signal = "event" /\ frames' = <<EventFrame(s.event, 1)>>
          \/ s.signal = "start" /\ frames' = <<StartFrame>>
    /\ queue' = Tail(queue)
    /\ UNCHANGED <<regular, event, reader, written>>

\* The server prints a line, the user enters a command, something else happens.
Begin ==
    /\ Idle
    /\ \/ \E text \in Texts : frames' = <<LineFrame(text, 1)>>
       \/ frames' = SendCmd(Other)
       \/ frames' = <<EventFrame("onLogin", 1)>>
    /\ UNCHANGED <<regular, event, queue, reader, written>>

\* An editor changes the rules.
Edit ==
    /\ Idle
    /\ regular' \in RuleLists
    /\ UNCHANGED <<event, frames, queue, reader, written>>

\* formatBDSLog, selfCatchLine
LineRule ==
    /\ Top("line")
    /\ LET f == Head(frames) IN
          \/ /\ f.i <= Len(regular)
             /\ \E calls \in IF Hits(regular[f.i], f.text)
                                THEN Calls[regular[f.i].action] ELSE {<<>>} :
                   GoesOn(calls, <<LineFrame(f.text, f.i + 1)>>)
          \/ /\ f.i > Len(regular)
             /\ GoesOn(<<EventFrame("onConsoleUpdate", 1)>>, <<>>)
    /\ UNCHANGED <<regular, event, queue, reader, written>>

\* slotOtherCallback, EventCallbacker::callback
EventRule ==
    /\ Top("event")
    /\ LET f == Head(frames) IN
          \/ /\ f.i <= Len(event[f.event])
             /\ \E calls \in Calls[event[f.event][f.i]] :
                   GoesOn(calls, <<EventFrame(f.event, f.i + 1)>>)
          \/ /\ f.i > Len(event[f.event])
             /\ GoesOn(<<>>, <<>>)
    /\ UNCHANGED <<regular, event, queue, reader, written>>

\* The rest of sendCmd: the command is handed to the process, which may have ended.
Write ==
    /\ Top("write")
    /\ LET cause == Head(frames).cause IN
          written' = IF cause = Other THEN written ELSE Append(written, cause)
    /\ GoesOn(<<>>, <<>>)
    /\ UNCHANGED <<regular, event, queue, reader>>

\* sendAllGroupMsg, sendGroupMsg: only while logged in, and the listeners first.
Send ==
    /\ Top("send")
    /\ LET f == Head(frames) IN
          \/ /\ f.left > 0
             /\ \E calls \in {<<EventFrame("onSendMsg", 1)>>, <<>>} :
                   GoesOn(calls, <<SendFrame(f.left - 1)>>)
          \/ f.left = 0 /\ GoesOn(<<>>, <<>>)
    /\ UNCHANGED <<regular, event, queue, reader, written>>

\* startServer; the process may not start.
StartServer ==
    /\ Top("start")
    /\ \E calls \in {<<EventFrame("onServerStart", 1)>>, <<>>} : GoesOn(calls, <<>>)
    /\ UNCHANGED <<regular, event, queue, reader, written>>

-----------------------------------------------------------------------------
(* The receive thread *)

\* onText: the listeners are told, and the rules copied.
Hear(text, admin) ==
    /\ pos = 0 /\ Len(heard) < MaxMessages
    /\ heard' = Append(heard, [text |-> text, admin |-> admin, list |-> regular])
    /\ pos' = 1
    /\ Emit(Event("onReceiveMsg"))
    /\ UNCHANGED <<regular, event, frames, owed, starting, written>>

\* A rule that does not apply, or whose command does nothing here.
Skip ==
    /\ AtRule /\ pos <= Len(heard[Now].list)
    /\ \/ ~Applies(Now, pos)
       \/ heard[Now].list[pos].action \in {"none", "bind", "stop"}
    /\ pos' = pos + 1
    /\ UNCHANGED <<regular, event, frames, queue, heard, owed, starting, written>>

\* A command for the server waits for the GUI thread; stop is written at once, and only
\* its event waits, as does that of a binding.
Signal ==
    /\ AtRule /\ pos <= Len(heard[Now].list) /\ Applies(Now, pos)
    /\ LET action == heard[Now].list[pos].action IN
          \/ action = "console" /\ Emit(Command(<<Now, pos>>))
          \/ action = "stop" /\ Emit(Event("onSendCommand"))
          \/ action = "bind" /\ Emit(Event("onBinded"))
    /\ pos' = pos + 1
    /\ UNCHANGED <<regular, event, frames, heard, owed, starting, written>>

\* A message to the groups, or to the one that has asked.
Reply ==
    /\ AtRule /\ pos <= Len(heard[Now].list) /\ Applies(Now, pos)
    /\ LET action == heard[Now].list[pos].action IN
          /\ action \in {"group", "reply", "start"}
          /\ owed' = IF action = "group" THEN Groups ELSE 1
          /\ starting' = (action = "start")
    /\ pos' = pos + 1
    /\ UNCHANGED <<regular, event, frames, queue, heard, written>>

ReplySends ==
    /\ owed > 0
    /\ Emit(Event("onSendMsg")) \/ UNCHANGED queue
    /\ owed' = owed - 1
    /\ UNCHANGED <<regular, event, frames, heard, pos, starting, written>>

AskToStart ==
    /\ starting /\ owed = 0
    /\ Emit(Start)
    /\ starting' = FALSE
    /\ UNCHANGED <<regular, event, frames, heard, pos, owed, written>>

Done ==
    /\ AtRule /\ pos > Len(heard[Now].list)
    /\ pos' = 0
    /\ UNCHANGED <<regular, event, frames, queue, heard, owed, starting, written>>

-----------------------------------------------------------------------------

Handler == LineRule \/ EventRule \/ Write \/ Send \/ StartServer

Reader == Skip \/ Signal \/ Reply \/ ReplySends \/ AskToStart \/ Done

Next ==
    \/ Take \/ Begin \/ Edit \/ Handler \/ Reader
    \/ \E text \in Texts, admin \in BOOLEAN : Hear(text, admin)

\* Both threads are scheduled; the event loop comes to the signals that wait for it,
\* whatever else happens meanwhile.
Fairness == WF_vars(Handler) /\ WF_vars(Reader) /\ SF_vars(Take)

Spec == Init /\ [][Next]_vars
FairSpec == Spec /\ Fairness

-----------------------------------------------------------------------------
(* Properties *)

Before(c, d) == c[1] < d[1] \/ (c[1] = d[1] /\ c[2] < d[2])

\* The commands of chat rules are handed to the server in the order of the messages and, of one
\* message, of the rules; each at most once.
CommandsInOrder ==
    \A a, b \in 1..Len(written) : a < b => Before(written[a], written[b])

\* The commands that chat rules call for: those the message met, for its sender.
Asked(m, i) ==
    /\ m \in 1..Len(heard) /\ i \in 1..Len(heard[m].list)
    /\ heard[m].list[i].action = "console" /\ Applies(m, i)

Passed(m, i) == m < Now \/ (m = Now /\ (pos = 0 \/ i < pos))

Waits(cause) ==
    \/ \E k \in 1..Len(queue) : queue[k] = Command(cause)
    \/ \E k \in 1..Len(frames) : frames[k] = WriteFrame(cause)
Reached(cause) == \E k \in 1..Len(written) : written[k] = cause

\* What a rule has called for was handed to the server or is on its way, whatever is
\* edited, entered or printed meanwhile; and nothing else gets there.
CommandsKept ==
    /\ \A m \in 1..Len(heard) : \A i \in 1..Len(heard[m].list) :
          Asked(m, i) /\ Passed(m, i) => Waits(<<m, i>>) \/ Reached(<<m, i>>)
    /\ \A k \in 1..Len(written) : Asked(written[k][1], written[k][2])

\* Every command a chat rule calls for is handed to the server in the end.
CommandsArrive ==
    []<>(\A m \in 1..Len(heard) : \A i \in 1..Len(heard[m].list) :
            Asked(m, i) => Reached(<<m, i>>))

\* Every cascade of rules ends.
CascadesEnd == []<>Idle

=============================================================================
