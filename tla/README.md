# A verification of CSPBot 2.0

CSPBot 2.0 is a desktop program (C++/Qt, Windows) that runs a Minecraft Bedrock
server as a child process and connects it with QQ groups through a bot framework,
Mirai, which it talks to over a WebSocket.  This directory holds TLA+ models of the
parts of it whose correctness depends on the order of steps, the TLC runs that check
them on small instances, and proofs, checked by TLAPS, that the most important
properties hold for every value of the constants.

Sources are quoted by their path in the repository, such as `src/src/server.cpp`.
Vendored code (yaml-cpp, fmt, json.hpp, magic_enum) is not a subject, except where
the program's behaviour depends on a detail of it.

## 1. The system

### Threads

There is no lock anywhere in the program.  What keeps its parts apart is the Qt
event queue, and only where a signal crosses threads.

| thread | started by | runs |
|---|---|---|
| GUI | `main` | the window, all slots, the server process's signals, the timer, `Server` |
| starter | `g_mirai->start()` in the constructor of `CSPBot` | `Mirai::run`: one attempt to connect |
| receive threads | `WebSocketClient::Connect`, one per connection, detached | `RecvLoop` and in it every callback: `Mirai::onText`, `onError`, `onLost`, and from there the rules for group messages and `CommandAPI::CustomCmd` |
| log reader | `CSPBot::startLogger` | `LoggerReader::run` |

A signal emitted on another thread than its receiver's is queued for the GUI thread;
one emitted on the GUI thread is a function call.  Message boxes and the download of
the user's picture run an event loop inside a handler, so that handlers nest.

### Components

| component | state | operations | what makes it correct | modules |
|---|---|---|---|---|
| WebSocket client (`WebSocketClient.cpp`) | `status`, `wsSocket`, a buffer per receive thread | `Connect`, `Shutdown`, `Close`, send functions, `RecvLoop` and its callbacks | the status agrees with socket and thread; a loss is reported once, after the fact, and only if it is one; every frame is handled, once and in its turn | `WebSocketClient`, `FrameHeader`, `ConnectionPromise` |
| Player bindings (`helper.cpp`, namespace `Bind`) | `g_player`, `data/player.yml` | `bind`, `unbind`, `bindXuid`, reading the file at start | no account and no name is bound twice; the file keeps the list | `PlayerBind`, `BindingTable` |
| Server lifecycle (`server.cpp`, `cspbot20.cpp`) | `g_server`, its flags, the process, buttons, label | start, stop, forced stop, end of the process, closing the window, the chat command `stop` | one process at a time; buttons, flags and callbacks tell the truth; leaving the program leaves no server running | `ServerLifecycle`, `ServerPromise` |
| Mirai session (`ws_client.cpp`) | `logined`, `connected`, counters, user panel, connection time | connect, login, disconnect, loss, error, sending | `logined` only of a connection that answered; panel and time follow it in the end | `MiraiSession` |
| Rule engine and command API (`server.cpp`, `ws_client.cpp`, `command.cpp`) | `g_regular`, `g_command` | matching of lines and messages, substitution of captures, `CustomCmd`, `SplitCommand` | the commands of chat rules arrive, once and in order; what matched is put in whole; no parameter is lost | `RuleEngine`, `RuleText`, `CommandWords` |
| Event rules and listeners (`event.cpp`, `cspbot20.cpp`) | `g_event`, `g_cb_functions` | `EventCallbacker::callback`, `slotOtherCallback` | cascades end; arguments are put in whole | `RuleEngine`, `RuleText` |
| Placeholders (`logger.cpp`) | none | `FmtConsoleRegular`, `FmtGroupRegular` | where nothing can run together, the result does not depend on the order of replacement | `RuleText` |
| Log queue (`logger.h`, `logger.cpp`) | `g_queue` | `push`, `LoggerReader::run` | nothing lost, nothing out of order | not modelled (section 5) |
| Regular editor and tables (`regular_edit.cpp`, `cspbot20.cpp`) | `g_regular`, `data/regular.yml`, the table models | save, delete, refresh | an edit replaces what the editor showed and no other rule; the file keeps the list; the table shows every change | `RegularTable`, `RuleTable`; the tables of players and plugins are not modelled |
| Plugin manager and exported API (`pluginManager.cpp`, `pluginsApi.cpp`) | `g_plugins`, `g_command` | `registerPlugin`, `RegisterCommand`, `Version` | no plugin replaces another's data | not modelled (section 5) |
| Startup and shutdown (`main.cpp`, `cspbot20.cpp`) | the globals | `main`, the constructor, `deletePointer` | nothing is used before it exists or after it is gone | not modelled (section 5) |
| Configuration reader, colouring, system information, window dressing, vendored code | | | | not modelled |

### How they interact

The receive thread of the **WebSocket client** calls the **session**, which sets
`logined`, posts events to the window and hands group messages to the **rule
engine**.  A rule sends to a group (session, client), writes to the console
(**server**, through a queued signal from chat, directly from the console), or runs a
command: `bind` and `unbind` (**bindings**), `start` (queued signal to the window),
`stop` (directly, on the receive thread), or one a **plugin** registered.  The
**server**'s output is read on the GUI thread, goes through the same rule engine and
sets xuids of **bindings**.  Server, session and rules emit **events**, whose rules
lead back into all of this.

### What is hard

*Interleaving*: three kinds of threads on unprotected state.  *Nesting*: handlers
that run an event loop, callbacks that start a server in the middle of a handler.
*Identity*: `RecvLoop` recognises its connection only by a status another connection
can set, `progressFinished` works on the global server and not on the one that ended.
*Failure*: exceptions in a detached thread end the process; files are truncated before
they are written.  The hazards, each at its line and with the properties that would
catch it going wrong, are listed in `PROJECT.json`.

## 2. The modules

Every module states at its head what it models.  A step of a model is one access to
shared state or one blocking call, so that another thread may act between any two.
Each module has a few *faulty variants* of its steps: nothing uses them; put in place
of the step they are named after they break a property, which shows that the property
depends on that step.

### WebSocketClient, FrameHeader, ConnectionPromise

Callers use the API on a single object, receive threads are started by `Connect`, and
each socket has a peer that answers the handshake, sends frames and ends or resets its
stream whenever it likes.  Program counters are labels of the source: `while`,
`select`, `recv`, `parse`, ...; `Shutdown`, `Close` and the send functions are
subroutines with a return label.  A callback is a label the thread stays at while the
user's function runs.  A frame is three parts, so that a read ends inside a header
(error), inside a payload (wait) or between two frames.  Whether `RecvLoop` sees that a
frame is complete (`Whole`) is not assumed: `FrameHeader` says how `Send` writes a length,
in one, two or eight bytes after the mark, and what `TryParseFrame` makes of it, and each
kind of frame has a length of its own (`SizeOf`).  The eight bytes are copied as they lie
there, so that the first, the most significant, becomes the least: a text of 65536 bytes
(kind `Long`) is taken for one that is far longer, and waited for.

* `Settled` is an assumption on the users of the class: `Connect` is called only once
  the last connection is over and its thread gone.  The class relies on it without
  saying so (run `ws_overlap_lost` shows what happens otherwise).
* `StartedLoops`: opening a TCP connection takes longer than a new thread takes to run
  its first statement.
* `HandshakeRecv`: frames that come in the same `recv` as the answer to the handshake
  are whole.  `Connect` looks at none of the up to 4096 bytes it reads there; if that
  cuts a frame, its start is lost and the receive thread takes the rest for headers.
  `FramesInTurn` and `NothingWaits` speak of a stream that begins with a frame.
* Sockets are not reused by the operating system (each is used once).  Callbacks return.

`ConnectionPromise` is what the user of the client relies on: connections made one at a
time, and the loss of one told at most once, only if the peer ended it, and while none
is open.  The client implements it with its receive threads as the connections.

### PlayerBind, BindingTable

`bind` and `unbind` copy the list (`seen`), check the copy, open the file (which truncates
it), change the list at an index found in the copy, and write the file when the stream is
destroyed.  `bindXuid` works on the list itself.  Each is cut at these points.  An output
stream holds what it was given until it is closed, which is true of lists smaller than its
buffer, and puts it over what another stream has written meanwhile (`CloseFile`); that part
of a longer list is written before is left out.  `Restart` ends the program at any point and
reads the file.  `Without` is `Node::remove` of yaml-cpp, which leaves a list that has
become too short alone.

* `Serial`: operations do not overlap.  The program does not see to that; it is what
  holds if players bind, unbind and join one at a time.

`BindingTable` is the table its users imagine: an account or name is entered once, an
unbinding takes away the binding of the account that asked for it (`leaving`) and no
other, and a restart can cost the bindings only if an operation was under way.

### ServerLifecycle, ServerPromise

The GUI thread is a stack of handlers, `frames`: the rest of `createServer` (`run`),
the rest of `progressFinished` after its callback (`finish`), and the three message
boxes.  While a box is on top events are taken but no input; while nothing is on the
stack both are.  The chat thread calls `stop` in two steps (check, act) and sends
signals that wait in `queue`.  A server process may obey a stop, ignore it, or exit on
its own.  `Crash` stands for a null or uninitialised pointer that the code
dereferences.  `RunServer` is one step: from `createServer` through the callback to the end
of `startServer` nothing runs an event loop, and no other thread sees what is set there but
the chat thread, which can meet a process that is not set yet (`ChatStopServer` with
`Crash`).  `TypeOfStop` is set as in the code and no property speaks of it, since nothing
reads it: `progressFinished` overwrites the `force` of a forced stop with `normal` or
`accident`.  `Features` switches on what a configuration adds to the buttons: a chat
rule that starts the server, the shortcut Ctrl+Shift+C whose button is never disabled,
a rule for `onServerStop` that starts again, a missing `runner.bat`, a process that
does not start.

`ServerPromise` is what plugins and event rules rely on: one server at a time,
`onServerStart` and `onServerStop` in turns, the second only when the process is gone.

Assumed: `taskkill` ends the process; the process's id is not reused while it is the
current server's.

### MiraiSession

The session composes three kinds of threads on top of `ConnectionPromise`, whose
variables are its WebSocket client.  The starter makes one attempt to connect.  Each
connection has a receive thread, which reads an answer to the login (`Login`,
`Welcome`), a group message with a rule that answers (`ThreadRule`, `ThreadSends`), an
error, or the end of the connection, and in the last case shuts it down and tells.  The
GUI thread is a stack of handlers as in `ServerLifecycle`: an attempt to connect
(`login`, `made`, `profile`), the two halves of `shutdown` after the test of `logined`
(`disConnect`: `WindowShutdown`; `reset`), a rule that sends
(`send`), and the event loops: the picture of the user (`image`) and the message boxes
(`box` inside an attempt, `notice` for the starter's).  What other threads emit waits in
`queue`; what the GUI thread emits is a call, and part of the step.

A request for the profile or a message fails if the connection is gone, and the exception is
caught; sending on one that its peer is ending may still succeed.

Assumed, because the code does not see to it:

* `MayConnect`: the user clicks connect only after the starter has tried, with no
  connection open and the last receive thread gone.  This is `Settled` of
  `WebSocketClient`, which the window guarantees only in part: it refuses while
  `logined`, that is from the answer to the login on.
* Waiting signals are delivered before the next click (`TakesInput`).
* The starter's signals are connected by the time it emits the first
  (`cspbot20.cpp:255-262`), since opening a connection takes longer than seven `connect`s.

Left out: the counters `sendMsg` and `reciveMsg` with their label, and what rules do
other than send, which belongs to the rule engine.

### RuleEngine

The GUI thread is again a stack of handlers, here of rules: a line of the console on its
way through `g_regular` (`line`), the rules of an event (`event`), the rest of `sendCmd`
after its listeners (`write`), a message to one or all groups (`send`), a start of the
server (`start`).  A signal emitted there is a call: its frames go on top, and `GoesOn`
leaves the caller underneath with what it has still to do.  A handler is cut at each rule
and at each call.  The receive thread copies `g_regular` when a message comes (`heard`),
goes through the copy rule by rule (`pos`), and what it emits waits in `queue`, which the
event loop comes to when the stack is empty.  A command carries its cause, the message and
the rule, so that order and loss can be told.

* `Rank`: the rules for an event raise only events of lower rank, that is, `event.yml`
  has no circle.  The program does not check this; a rule for `onSendCommand` that sends
  a command exhausts the stack.  That cascades end rests on it; order and completeness of
  the commands do not, and are proved without it.
* `runner.bat` is there: without it `startServer` shows a box in the middle of a cascade,
  whose event loop would deliver signals on top of the stack, and the order would not hold.
* A server has been started before, so that `g_server` points to one.  Its process may have
  ended: `sendCmd` writes to it all the same, and the command is gone.  What the properties
  speak of is that a command was handed to the server (`Write`), not that it was obeyed.
* The copy of `g_regular` is one step (`Hear`).  An edit during the walk is a data race on a
  YAML tree; edits between the copy and its last use are in the model.

What the model makes plain: listeners hear of a command before it is written, so that
commands they send reach the server first; `stop` from chat is written at once, on the
receive thread, and overtakes the commands that wait; the permission of a console rule is
read and not looked at.

Abstracted: a command is the kind of action it comes to, a message its text and whether an
administrator sent it; how the text of a command comes about is in `RuleText`, which
stands for the step from a rule to its action here.  Left out: what `motd`
answers, the callbacks of plugins.  `onLogin` stands for the events that nothing here
raises; `unbind` is as `bind`.

### RuleText, CommandWords

`RuleText` follows the text of one rule, or of the rules of one event, through the three
functions that treat it.  A text is a sequence of characters.  `helper::replace` is
`Replace`: it searches the text, puts the value in, and goes on behind what it has put in,
so that it does every occurrence at once (`Scan`) and does not look at the value again; the
replacements that follow do.  `selfGroupCatchLine` and `selfCatchLine` put the captures in
first and the placeholders afterwards, `EventCallbacker::callback` the other way round;
`batchFormatting` takes the placeholders in the order of an `unordered_map`, which is any
(`pending`).  Then the text is sent, or `CustomCmd` hands it to `SplitCommand`, which is
`CommandWords`: words of a stream, quoted stretches put together again, and what an open
quote has swallowed put back word by word.  `RuleText` changes the variables of
`CommandWords` by its actions alone (`Begin`, `SplitStep`, `Return`), so that what is proved
of `CommandWords` holds in it.

`Plain` is the condition under which the result is that of reading the rule once and putting
everything in on the way.  It asks something of both sides.  The values hold no `$` or `{`
that a later replacement looks for.  The rule is `Clean`: no stretch of it that could become
a sign runs into a `$` or `{`.  Without the second the replacements meet what they have made
themselves, however plain the values:

| rule | value | what the code makes of it |
|---|---|---|
| `$$2 ... $3` | the capture `$2` is `3` | `$3`, which the next replacement replaces again |
| `${hour}` in an event | one o'clock | `$1`, which the arguments then replace |
| `{{message}}` | the message is `qqid` | `{qqid}`, which is replaced or not, as the order of the map has it |

The instance has rules and values of each kind for which `Plain` does not hold, and nothing
is claimed of them: a member who writes `{qqnick}` in a message may or may not find it
replaced.

What the model makes plain: `num` is not set back between the rules of an event, so that
the first has its arguments as `$1`, ..., the second as those that follow, and never
as `$1`.

Abstracted: what a placeholder stands for is one value while a rule is at work, and is looked
up anew for the next rule of an event (`NextRule`).  In the instance the name of a placeholder
is one letter.

* `MarkAssumption`: there is a mark for every capture and argument, of one digit, so that no
  mark begins another (`SignsAssumption`); matches with more than nine groups, and the rules
  of an event after its ninth argument, are outside of the model.

### RegularTable, RuleTable

`regular` is `g_regular`, `rows` the table of the main window, `mRegular` what each open
editor was opened with: `Shown` of a row, since the editor knows only "group" and
"console" as origins.  A handler is cut where other handlers can run, at its message box
(`saveBox`, `deleteBox`; only the timer gets through), and at the opening of the file,
which empties it.  A rule's pattern, action and permission are one value, as both
handlers treat them alike.

`RuleTable` is the list that users have in mind: an editor takes away the first rule
equal to the one it has shown (an edited rule then goes last, as `push_back` puts it
there), or tells that it is gone; a start finds the list unless a handler was cut short, in
which case it may find any (`Restart`): the file may have been written in part.
What the model makes plain: a rule whose origin is written "Group" in the file works in
group messages, but its editor looks for "group", misses it, and saving adds a second
rule.

Left out: the receive thread that walks the list during an edit.

## 3. The runs

| run | instance | what it shows |
|---|---|---|
| `ws_one_connection` | 1 socket, 2 callers, `Shutdown` and `Close`, control frames, fairness | types; while the status is Open there is an open socket and a thread on it (`OpenIsServed`); threads end (`LoopEnds`), a loss is noticed (`LossNoticed`) |
| `ws_reconnect` | 2 sockets and receive threads, 1 caller that sends and shuts down, text and close frames | a thread closes its own socket only (`ClosesOwnSocket`), losses are real (`LostMeansGone`), complete frames do not wait (`NothingWaits`) and every frame is handled in its turn (`FramesInTurn`), the promise is kept (`KeepsPromise`) |
| `ws_overlap_lost` | as `ws_reconnect`, without `Settled` | **violated**: the old thread closes the new connection and reports it lost |
| `ws_close_reported` | 1 socket | **violated**: answering a close frame fails and ends the process |
| `ws_long_text` | 1 socket, a text of 65536 bytes | **violated**: the text lies complete in the buffer and is not handed to `onText` |
| `bind_serial` | 2 threads that do everything, 3 accounts and names, 2 xuids, 2 restarts, `Serial` | types; accounts and names are unique (`UniqueBinding`); the file holds the list between operations (`SavedWhenIdle`); the code implements the table (`KeepsTable`) |
| `server_buttons` | 3 servers, 2 queued signals, buttons only | buttons and label say what the server does (`ButtonsTell`), `started` is true of a running server (`StartedTells`), the promise is kept (`KeepsPromise`), and when the window begins to fade no server runs (`LeavesNothingRunning`) |
| `server_everything` | 2 servers, every feature, fairness | types, and the end of each process is handled (`EndsAreHandled`) |
| `mirai_session` | 3 connections, starter, buttons, pictures and boxes, fairness | `logined` ends with its connection (`LoginIsLive`), rules send on a connection that answered (`SendsAreLoggedIn`), time and panel are right once all signals are delivered (`TimeTells`, `PanelShows`); every connection is asked for its profile (`ProfileIsAsked`) and every loss ends the session (`SessionEnds`) |
| `rule_engine` | 2 messages, 1 group, 2 lists of rules, cascades four events deep, fairness | types; commands of chat rules arrive in order (`CommandsInOrder`), none is lost or made up (`CommandsKept`), all are handed to the server in the end (`CommandsArrive`); cascades of a file without a circle end (`CascadesEnd`) |
| `rule_text` | rules of up to 3 pieces (letters, quotes, lone `$` and braces, marks, placeholders), and of up to 6 letters, blanks and quotes; 3 placeholders, 2 rules of an event | types; under `Plain` the text is the rule with everything put in at once (`WrittenOut`); every part of a command is in a word, in order (`NothingLost`); blanks are kept only between quotes (`QuotesTell`) |
| `regular_table` | 2 editors, 2 texts, up to 2 rules, 3 first files, 1 restart, fairness | types; editors implement the list of rules (`KeepsTable`); the table shows it again and again (`RowsFollow`) |

**Bounds.**  Two sockets and two receive threads are enough for everything that one
connection can do to the next, since under `Settled` a third meets only the second. One
frame per socket (`MaxFrames`) already meets every branch of the inner loop, cut anywhere;
`ws_reconnect` has two, so that a frame follows another in the buffer and a read can hold
the end of one and the start of the next.  Its sockets and receive threads are
interchangeable (`AnyOrder`); it has no liveness property.  Two threads and three accounts
give one binding that stays, one that is changed and one that is contested.  Three servers
let an effect of the first skip the second.  `MaxNesting` bounds the handlers under way when
one more server is asked for: with 1 a start is nested in a box and in a callback.
`MaxRestarts`, `MaxServers` and `MaxQueue` are counters the runs reach.  Three connections
let the starter's be lost, the next be disconnected and its picture still load when a third
is made.  Two messages and an edit between them let the commands of one wait while the other
is heard with other rules; the lists have every kind of action, the file of events nests a
start in a login, a binding in the start and a command in the binding.  Two editors and two
rules let one editor change, delete or double the rule of the other; one of the first files
holds a rule twice, one an origin that editors do not write.  Three pieces are two
replacements next to each other with something before or after, or one within braces or
behind a `$`; six letters, blanks and quotes are a quoted stretch with a blank in it and a
quote that is closed or is not.  One of the messages put in holds a mark, a quote and a
blank, one a placeholder, one is the name of a placeholder, and a group of a match may be
empty.

**Deadlock** is checked where the system never stops; `server_*` switch it off because
the user can close the window.

**Fairness.**  `ws_one_connection`: each thread is scheduled, socket calls return once they
can, callbacks return.  `select` returns after 200 ms at the latest, so that its step
is always enabled.  Nothing is asked of the user or the peer.  `server_everything`: the event
loop of the GUI thread runs the handler on top of the stack and takes the signal
`finished`; users answer no box and processes need not end.  `mirai_session`: starter,
event loop and receive threads are scheduled, a picture loads or fails, and nothing is
asked of the user or of Mirai.  A receive thread is strongly fair to the end of its
connection: there is a finite amount to read before it.  `rule_engine`: handlers go
on, the receive thread is scheduled, and the event loop comes to a waiting signal however
many lines are printed meanwhile.  `regular_table`: the event loop
comes to the timer however often other handlers run (strongly fair, as handlers keep it
from that only for a moment), and a handler goes on by itself; nobody need close a box.

## 4. What is proved

The proofs are in `WebSocketClientProofs`, `PlayerBindProofs`, `ServerLifecycleProofs`,
`MiraiSessionProofs`, `RuleEngineProofs`, `CommandWordsProofs`, `RuleTextProofs` and
`RegularTableProofs`.  Each of a state machine begins with type correctness, which holds
without any assumption beyond those on the constants, and goes on with an inductive
invariant; the properties follow from it.

* **WebSocketClient**, under `Settled`: `Invariance`, and from it `LossIsReal`,
  `LossIsToldAfter`, `OwnSocketOnly`.  The properties are not inductive: that a thread
  closes its own socket needs that it is alone, which needs that `Connect` found no other
  thread, and that a read failed with the status still Open means that the peer is gone and
  nobody has closed the socket.  The invariant says where each thread can be, that a caller
  inside `Connect` is alone, which socket the live thread reads and what it knows on its way
  to a report.  `OpenHasThread` needs further that a live thread stays as long as the status
  is Open (`Served`). `FramesAreHandled` (no complete frame waits) holds if no text is
  longer than 65535 bytes: the inner loop leaves only with less than a frame (`Waiting`).
  `Implements`, the refinement of `ConnectionPromise`, needs that every connection, even one
  that is over, has a socket no other has, and that the code of a loss is set only on the
  way to the callback (`Owned`): then a step of the peer concerns one connection, and a loss
  is told once. `FramesInOrder` says what becomes of the bytes: each frame that did not come
  with the handshake's answer is handled once, in its turn, by the handler of its kind.  It
  needs that a buffer starts at the first byte of a frame (what is taken from a socket is
  whole frames and what the buffer holds), which rests on `HandshakeRecv` (section 2): if a
  frame that comes with the answer is cut, the code loses its start.
* **FrameHeader**, for every length, also in `WebSocketClientProofs`: `ShortLengthsRead`,
  what is written of a length of up to 65535 bytes is read as that length, and
  `LongLengthsMisread`, a greater one that 32 bits hold is read as one greater still.  The
  first is what `FramesAreHandled` rests on.
* **PlayerBind**: `BindingsAreUnique` if operations are serial or one thread alone
  binds and unbinds.  The invariant says that the copy a thread has checked still
  agrees with the list in accounts and names, though another thread may have set xuids
  in between.  Under `Serial` also `FileIsSaved` and `Implements`, that every step is a
  step of `BindingTable` or leaves it unchanged.
* **ServerLifecycle**, when only the start button starts a server, whether the start
  succeeds, `runner.bat` is missing or the process does not start (`StartsByButton`):
  `OneServerAtATime`, `StartedIsTrue`, `NothingIsLeft` and `Implements`.  The invariant
  lists the stacks of handlers that can occur and ties the buttons, `started` and the last
  callback to the state of the current process in each of them; a second one (`Labelled`,
  theorem `LabelInvariance`) says what the label rests on.  `ButtonsAreTrue`, that the start
  button is offered whenever there is something to start, needs that no start fails
  (`ButtonsOnly`): `startServer` disables it in any case. What is left after such a failure
  is `ButtonsAreKept`: the button offers no second server, and the label is right.  The
  restriction to the button is needed: with the shortcut, or a chat rule that starts, the
  end of one server clears `started` of the next, and with a rule for `onServerStop` that
  starts again the rest of `progressFinished` puts label and buttons of a stopped server
  over those of the new one.
* **MiraiSession**, for any number of connections: `LoginEnds`, `SendsAnswered`,
  `TimeRuns` and `PanelTells`.  None is inductive.  The argument turns on two facts: a
  connection is asked for the profile once, so that an answer comes only while it is open
  (whoever shuts it down has tested `logined`, or read its end, after the answer), and a
  connection is made only when the event queue is empty and no receive thread is left,
  so that nothing of an earlier one is delivered after it.
* **RuleEngine**, for any rules, events, groups and number of messages: `OrderKept` and
  `NothingLost`, also for an `event.yml` with a circle.  What makes them inductive is that a
  command of a chat rule lies at the very bottom of the stack, so that at most one is
  between queue and server.  Then what is written, lies on the stack, waits, and the rule
  the receive thread is at follow each other, and every command comes from a rule that was
  passed.  That cascades end is liveness, but why they end is proved.  `CascadesAreBounded`:
  if the ranks hold (`RanksAssumption`), for the handlers on the stack and all that they
  call there is a number of steps they cannot exceed (`StepsLeft`), and `CascadesShrink`:
  each step of a handler lowers it, and nothing else touches stack or rules until the stack
  is empty.  The measure gives each rule of an event its share (`Allowances`); that there
  are shares enough is an induction over the ranks of events.
* **CommandWords**, for commands of any length: `NoPartLost` and `QuotesAreKept`.  The
  invariant says that the words so far cover the text up to where the stream is, or up to
  the open quote, and that nothing behind that quote has closed it.
* **RuleText**, for rules and values of any length and any set of placeholders:
  `PutInAtOnce`, what is sent or run is the rule read once with everything put in on the way,
  whatever order `batchFormatting` takes the placeholders in, if the rule is clean and the
  values are plain (`Plain`, section 2).  The invariant (`TextInv`) says that the draft is
  the rule with what was taken so far put in.  It is kept because a sign that is still to be
  taken is found in the draft only where it was in the rule: it cannot begin in a value, which
  holds no opener, cannot begin before one and reach into it, since then the rule would have
  run into an opener, and does not overlap another sign.  So one more replacement is the same
  as one reading with a sign more (by induction over positions in the form of a set of
  numbers, since the provers take no predicate as a parameter).  `CommandLosesNothing` and
  `CommandTellsQuotes` carry what is proved of `CommandWords` over to the commands of rules.
* **RegularTable**, for lists of any length and any editors: `FileIsKept` and
  `Implements`.  The second needs that the loop over the rules finds the first equal
  rule (`IndexFound`, from the well-foundedness of the numbers), that the file is the
  list when no handler runs, and that what a save has missed is still missing when its
  box is closed.

For one binding thread among others that join (`BindingsAreUnique` without `Serial`)
the proof stands alone; `bind_serial` checks the other case.  With neither, uniqueness
is lost: two threads that bind at once (a message in a group and a command of the console)
both find the account free and both enter it.

Only model-checked: liveness (`LoopEnds`, `LossNoticed`, `EndsAreHandled`, `SessionEnds`,
`ProfileIsAsked`, `CommandsArrive`, `CascadesEnd`, `RowsFollow`), which the proof system does
not reach.  Every invariant, action property and refinement that a passing run checks is
also a theorem.

## 5. What is not modelled, and why

Contents of messages, URLs and YAML, the handshake's answer (the code does not look at
it), masking of frames, colours, styles, animations, crash dumps, CPU and memory
figures, and the network beyond a stream that can end or be reset.  Data races are
modelled as interleavings of whole reads and writes of the shared members; torn values
and the corruption of a YAML tree that two threads change at the same time are not.
The callbacks of plugins are arbitrary code; only the calls they can make through the
exported API matter, and of those the bindings and the stop command are in the models.

*Log queue.*  `g_queue` is a `std::queue` that every thread pushes to and `LoggerReader`
empties without a lock.  Two pushes at once, or a push during a pop, are undefined behaviour
on the memory of the container, and any outcome, a crash included, is possible: there is no
promise to check, and the queue of one thread alone keeps its order by definition.  *Startup
and shutdown.*  `main` and the constructor run in one thread before the event loop; only the
starter runs beside them (in `MiraiSession`).  What can go wrong is the use of an object
before the constructor has set its pointer, or by a receive thread after `deletePointer`,
which again is undefined.  *Plugins* are loaded once, before the event loop, and what they
do is arbitrary code in the same process; a command that arrives on a receive thread while
they register theirs reads a map that is being changed.  `Version` is a record of three
numbers. *Tables of players and plugins*: filled from one list in one handler; a bind on a
receive thread during the walk changes a YAML tree that is being read, a data race as above.
*Configuration reader, colouring, system information, window dressing*: no state that
anything else relies on.

About nine tenths of the lines in the repository are vendored headers and libraries
(json.hpp, fmt, yaml-cpp, magic_enum), so that the models stand for a small part of all
lines, and for about a third of the program's own.

Comments and code disagree in details that no state depends on: the placeholder of memory
in per cent is `{ramPercent}` in `logger.cpp:436` and `498`, but `{ranPercent}` in the code
(`454`, `531`); `{xboxid}` of a member without a binding is to stay as it is (`487`), but
the member's name is put in (`518`).

Things the code does that no property here excludes, because it does them: the answer to
`Close` is never read; a header that arrives in two pieces is reported as an error; a forced
stop is afterwards recorded as normal or accidental; a server started while the window fades
is left behind; a question about one server can be answered about another if chat starts one
meanwhile; an unbinding that has found its entry in a list that another thread then makes
shorter takes away somebody else's; without `runner.bat` the buttons stay wrong; `stop` from
chat before the first start dereferences a null pointer; `onError` clears `logined` of a
connection that stays open, so that neither button does what it says; a user whose picture
loads while the session ends is shown as logged in afterwards; the connection time is read
before it is first set.

## 6. Plan

1. Rules composed with the promises of server and bindings: a start or stop from a rule
   against `ServerPromise`, a binding from chat against `BindingTable`.
2. Measures, as for cascades, behind the other liveness properties: the bytes a receive
   thread has still to read (`SessionEnds`), the handlers under way (`EndsAreHandled`).
3. The tables of players and plugins, the counters of messages, the answer of `motd`.
