------------------------ MODULE ServerLifecycleProofs ------------------------
(***************************************************************************)
(* Proofs about ServerLifecycle.  Types hold with every feature; the       *)
(* promise to plugins and users is proved for a server that only the start *)
(* button starts, whether a start succeeds or not (StartsByButton): with   *)
(* other features it fails, for reasons the README gives.  That the button *)
(* comes back needs that no start fails (ButtonsOnly).                     *)
(*                                                                         *)
(* OneServer is not inductive: that a click of start finds no process      *)
(* depends on what every handler that is still on the stack will do to the *)
(* buttons.  The invariant therefore says which stacks there are (Shape)   *)
(* and ties the buttons, started and told to the current process (Current).*)
(***************************************************************************)
EXTENDS ServerLifecycle, SequenceTheorems, TLAPS

ButtonsOnly == Features = {}

\* runner.bat may be missing, and the process may not start.
StartsByButton == Features \subseteq {"noRunner", "startFails"}

LEMMA ButtonsStart == ButtonsOnly => StartsByButton
BY DEF ButtonsOnly, StartsByButton

Asking == {"forceBox", "closeBox"}

\* At most progressFinished inside of one question; a warning can stand alone, even before
\* there is a server.
Shape ==
    /\ Len(frames) <= 2
    /\ Len(frames) = 2 => frames[1] = "finish" /\ frames[2] \in Asking
    /\ force \/ (frames # <<>> /\ ~Top("warnBox")) => g_server # 0
    /\ \A i \in 1..Len(queue) : queue[i] # "start"

CurrentLives == g_server # 0 /\ Lives(g_server)

Current ==
    /\ \A s \in Servers : s # g_server => ~Lives(s) /\ ~started[s]
    /\ \A s \in Servers : s > g_server => proc[s] = "none"
    /\ g_server # 0 => (started[g_server] <=> CurrentLives)
    /\ told <=> CurrentLives
    /\ start \/ Top("warnBox") => ~CurrentLives
    /\ Top("warnBox") => "noRunner" \in Features
    /\ Top("run") => start /\ proc[g_server] = "none"
    /\ Top("finish") => ~start /\ proc[g_server] = "over"

IInv == TypeOK /\ Shape /\ Current

-----------------------------------------------------------------------------
(* The stack of handlers *)

LEMMA PushFacts ==
    ASSUME NEW S, NEW f \in S, NEW stack \in Seq(S)
    PROVE  /\ <<f>> \o stack \in Seq(S)
           /\ Len(<<f>> \o stack) = Len(stack) + 1
           /\ (<<f>> \o stack)[1] = f
           /\ \A i \in 1..Len(stack) : (<<f>> \o stack)[i + 1] = stack[i]
<1>1. <<f>> \in Seq(S) /\ Len(<<f>>) = 1 /\ <<f>>[1] = f
  OBVIOUS
<1>2. /\ <<f>> \o stack \in Seq(S)
      /\ Len(<<f>> \o stack) = Len(<<f>>) + Len(stack)
      /\ \A i \in 1..(Len(<<f>>) + Len(stack)) :
            (<<f>> \o stack)[i] = IF i <= Len(<<f>>) THEN <<f>>[i]
                                                     ELSE stack[i - Len(<<f>>)]
  BY <1>1, ConcatProperties
<1>3. QED
  BY <1>1, <1>2

LEMMA PopFacts ==
    ASSUME NEW S, NEW stack \in Seq(S), stack # <<>>
    PROVE  /\ Tail(stack) \in Seq(S)
           /\ Len(Tail(stack)) = Len(stack) - 1
           /\ \A i \in 1..(Len(stack) - 1) : Tail(stack)[i] = stack[i + 1]
           /\ Head(stack) = stack[1] /\ Len(stack) >= 1
OBVIOUS

LEMMA OneOrTwo ==
    \A n \in Nat : (n >= 1 /\ n <= 2 => n \in {1, 2}) /\ (n + 1 = 2 => n = 1)
OBVIOUS

LEMMA FrameNames ==
    /\ "warnBox" \in Frames /\ "forceBox" \in Frames /\ "closeBox" \in Frames
    /\ "run" \in Frames /\ "finish" \in Frames
BY DEF Frames, Boxes

-----------------------------------------------------------------------------
(* Types *)

LEMMA InitTyped == Init => TypeOK
<1>1. 0 \in 0..MaxServers
  BY BoundsAssumption
<1>2. <<>> \in Seq(Frames) /\ <<>> \in Seq({"start", "send"})
  OBVIOUS
<1>3. QED
  BY <1>1, <1>2 DEF Init, TypeOK

LEMMA BeginStartTyped ==
    ASSUME TypeOK, NEW stack \in Seq(Frames), BeginStart(stack)
    PROVE  g_server' \in 0..MaxServers /\ frames' \in Seq(Frames)
<1>1. "warnBox" \in Frames /\ "run" \in Frames
  BY FrameNames DEF Boxes
<1>2. g_server' \in 0..MaxServers
  BY BoundsAssumption DEF TypeOK, BeginStart
<1>3. frames' \in Seq(Frames)
  BY <1>1, PushFacts DEF BeginStart
<1>4. QED
  BY <1>2, <1>3

LEMMA TypeStep == TypeOK /\ [Next]_vars => TypeOK'
<1> SUFFICES ASSUME TypeOK, [Next]_vars PROVE TypeOK'
  OBVIOUS
<1> USE DEF server, buttons, window
<1>1. ASSUME UNCHANGED <<proc, started, normalStop, TypeOfStop, window, queue, chat, told, program>>,
             BeginStart(frames)
      PROVE  TypeOK'
  BY <1>1, BeginStartTyped DEF TypeOK
<1>2. CASE User
  <2>1. CASE UserStart \/ UserShortcut
    BY <1>1, <2>1 DEF UserStart, UserShortcut
  <2>2. CASE UserStop
    BY <2>2 DEF UserStop, Crash, AskToStop, TypeOK
  <2>3. CASE UserForce
    <3>1. "forceBox" \in Frames /\ frames' = <<"forceBox">>
      BY <2>3, FrameNames DEF UserForce, Boxes
    <3>2. frames' \in Seq(Frames)
      BY <3>1
    <3>3. QED
      BY <2>3, <3>2 DEF UserForce, TypeOK
  <2>4. CASE UserClose
    <3>1. "closeBox" \in Frames /\ frames \in Seq(Frames)
      BY FrameNames DEF Boxes, TypeOK
    <3>2. frames' = <<"closeBox">> \/ frames' = frames
      BY <2>4 DEF UserClose
    <3>3. frames' \in Seq(Frames)
      <4>1. <<"closeBox">> \in Seq(Frames)
        BY <3>1
      <4>2. QED
        BY <3>1, <3>2, <4>1
    <3>4. QED
      BY <2>4, <3>3 DEF UserClose, TypeOK
  <2>5. QED
    BY <1>2, <2>1, <2>2, <2>3, <2>4 DEF User
<1>3. ASSUME frames # <<>>, frames' = Tail(frames) PROVE frames' \in Seq(Frames)
  BY <1>3, PopFacts DEF TypeOK
<1>4. CASE Answer
  <2>1. frames' \in Seq(Frames)
    BY <1>3, <1>4 DEF Answer, WarnClosed, ForceYes, CloseYes, BoxNo, Top
  <2>2. CASE WarnClosed
    BY <2>1, <2>2 DEF WarnClosed, TypeOK
  <2>3. CASE ForceYes
    BY <2>1, <2>3 DEF ForceYes, Kill, TypeOK
  <2>4. CASE CloseYes
    BY <2>1, <2>4 DEF CloseYes, Kill, TypeOK
  <2>5. CASE BoxNo
    BY <2>1, <2>5 DEF BoxNo, TypeOK
  <2>6. QED
    BY <1>4, <2>2, <2>3, <2>4, <2>5 DEF Answer
<1>5. CASE RunServer \/ RunFails \/ Finish
  <2>1. frames' \in Seq(Frames)
    BY <1>3, <1>5 DEF RunServer, RunFails, Finish, Top
  <2>2. QED
    BY <1>5, <2>1 DEF RunServer, RunFails, Finish, ChenableForce, TypeOK
<1>6. CASE ConsoleStop
  BY <1>6 DEF ConsoleStop, AskToStop, TypeOK
<1>7. CASE FadeEnds
  BY <1>7 DEF FadeEnds, TypeOK
<1>8. CASE TakeStart
  <2>1. g_server' \in 0..MaxServers /\ frames' \in Seq(Frames)
    BY <1>8, BeginStartTyped DEF TakeStart, TypeOK
  <2>2. queue' \in Seq({"start", "send"})
    BY <1>8, PopFacts DEF TakeStart, TypeOK
  <2>3. QED
    BY <1>8, <2>1, <2>2 DEF TakeStart, TypeOK
<1>9. CASE TakeSend
  <2>1. queue' \in Seq({"start", "send"})
    <3>1. queue \in Seq({"start", "send"}) /\ queue # <<>>
      BY <1>9 DEF TakeSend, TypeOK
    <3>2. queue' = queue \/ queue' = Tail(queue)
      BY <1>9 DEF TakeSend, Crash
    <3>3. QED
      BY <3>1, <3>2, PopFacts
  <2>2. QED
    BY <1>9, <2>1 DEF TakeSend, Crash, AskToStop, TypeOK
<1>10. ASSUME NEW s \in Servers, Finished(s) PROVE TypeOK'
  <2>1. <<"finish">> \o frames \in Seq(Frames)
    BY FrameNames, PushFacts DEF Boxes, TypeOK
  <2>2. g_server' \in 0..MaxServers /\ frames' \in Seq(Frames)
    BY <1>10, <2>1, BeginStartTyped DEF Finished, TypeOK
  <2>3. QED
    BY <1>10, <2>2 DEF Finished, TypeOK
<1>11. CASE Chat
  <2>1. CASE ChatStop \/ ChatStopServer
    BY <2>1 DEF ChatStop, ChatStopServer, Crash, AskToStop, TypeOK
  <2>2. ASSUME NEW signal \in {"start", "send"}, ChatSignal(signal) PROVE TypeOK'
    BY <2>2, AppendProperties DEF ChatSignal, TypeOK
  <2>3. QED
    BY <1>11, <2>1, <2>2 DEF Chat
<1>12. ASSUME NEW s \in Servers, Exit(s) PROVE TypeOK'
  BY <1>12 DEF Exit, TypeOK
<1>13. CASE UNCHANGED vars
  BY <1>13 DEF vars, TypeOK
<1>14. QED
  BY <1>2, <1>4, <1>5, <1>6, <1>7, <1>8, <1>9, <1>10, <1>11, <1>12, <1>13
     DEF Next, Gui

\* Every variable keeps its type, with any features and however deep handlers nest.
THEOREM TypeCorrect == Spec => []TypeOK
<1>1. QED
  BY InitTyped, TypeStep, PTL DEF Spec

-----------------------------------------------------------------------------
(* The inductive invariant *)

LEMMA InitInvariant == Init => IInv
<1> SUFFICES ASSUME Init PROVE IInv
  OBVIOUS
<1>1. TypeOK
  BY InitTyped
<1>2. Shape
  BY DEF Init, Shape
<1>3. \A s \in Servers : ~Lives(s)
  BY DEF Init, Lives
<1>4. Current
  BY <1>3 DEF Init, Current, CurrentLives, Top
<1>5. QED
  BY <1>1, <1>2, <1>4 DEF IInv

\* What Shape and Current speak about.
watched == <<g_server, proc, started, start, force, frames, told>>

LEMMA Unwatched ==
    ASSUME IInv, UNCHANGED watched,
           \A i \in 1..Len(queue') : queue'[i] # "start"
    PROVE  Shape' /\ Current'
BY DEF IInv, watched, Shape, Current, CurrentLives, Lives, Top

\* The start button finds no process and no handler, and puts createServer there, or
\* the warning.
LEMMA StartStep ==
    ASSUME IInv, StartsByButton, UserStart PROVE Shape' /\ Current'
<1> TypeOK /\ Shape /\ Current
  BY DEF IInv
<1>1. /\ frames = <<>> /\ start
      /\ UNCHANGED <<proc, started, start, force, queue, told>>
  BY DEF UserStart, TakesInput, window, buttons
<1>2. ~CurrentLives
  BY <1>1 DEF Current
<1>3. \A s \in Servers : ~Lives(s) /\ ~started[s]
  BY <1>2 DEF Current, CurrentLives, TypeOK
<1>4. CASE g_server < MaxServers /\ g_server' = g_server + 1 /\ frames' = <<"run">> \o frames
  <2>1. frames' = <<"run">>
    BY <1>1, <1>4
  <2>2. g_server' \in Servers /\ proc[g_server'] = "none"
    BY <1>4, BoundsAssumption DEF Current, Servers, TypeOK
  <2>3. Shape'
    BY <1>1, <2>1, <2>2 DEF Shape, Asking, Servers
  <2>4. \A s \in Servers : ~Lives(s)' /\ ~started'[s]
    BY <1>1, <1>3 DEF Lives
  <2>5. Top("run")' /\ ~Top("finish")' /\ ~Top("warnBox")'
    BY <2>1 DEF Top
  <2>6. ~CurrentLives'
    BY <2>2, <2>4 DEF CurrentLives
  <2>7. ~told
    BY <1>2 DEF Current
  <2>8. \A s \in Servers : s > g_server' => proc'[s] = "none"
    BY <1>1, <1>4 DEF Current, Servers, TypeOK
  <2>9. Current'
    BY <1>1, <2>2, <2>4, <2>5, <2>6, <2>7, <2>8 DEF Current
  <2>10. QED
    BY <2>3, <2>9
<1>5. CASE /\ "noRunner" \in Features
           /\ g_server' = g_server /\ frames' = <<"warnBox">> \o frames
  <2>1. frames' = <<"warnBox">>
    BY <1>1, <1>5
  <2>2. Top("warnBox")' /\ ~Top("run")' /\ ~Top("finish")'
    BY <2>1 DEF Top
  <2>3. Shape'
    BY <1>1, <1>5, <2>1, <2>2 DEF Shape, Asking
  <2>4. ~CurrentLives'
    BY <1>1, <1>2, <1>5 DEF CurrentLives, Lives
  <2>5. Current'
    BY <1>1, <1>2, <1>5, <2>2, <2>4 DEF Current, Lives
  <2>6. QED
    BY <2>3, <2>5
<1>6. QED
  BY <1>4, <1>5 DEF UserStart, BeginStart

\* A handler that ends leaves what was below it.
LEMMA PopShort ==
    ASSUME NEW stack \in Seq(Frames), stack # <<>>, Len(stack) <= 2
    PROVE  /\ Len(Tail(stack)) = Len(stack) - 1
           /\ Len(stack) = 1 => Tail(stack) = <<>>
           /\ Len(stack) = 2 => Tail(stack)[1] = stack[2]
           /\ Head(stack) = stack[1] /\ Len(stack) \in {1, 2}
<1> DEFINE n == Len(stack)
           t == Tail(stack)
           h == Head(stack)
<1>1. /\ n \in Nat /\ Len(t) = n - 1 /\ t \in Seq(Frames)
      /\ \A i \in 1..(n - 1) : t[i] = stack[i + 1]
      /\ h = stack[1] /\ n >= 1 /\ n <= 2
  BY PopFacts
<1>2. Len(t) = 0 => t = <<>>
  BY <1>1, EmptySeq
<1> HIDE DEF n, t, h
<1>3. n \in {1, 2}
  BY <1>1, OneOrTwo
<1>4. n = 1 => t = <<>>
  BY <1>1, <1>2
<1>5. n = 2 => t[1] = stack[2]
  BY <1>1
<1>6. QED
  BY <1>1, <1>3, <1>4, <1>5 DEF n, t, h

LEMMA Popped ==
    ASSUME IInv, frames # <<>>, frames' = Tail(frames)
    PROVE  /\ Len(frames') = Len(frames) - 1
           /\ Len(frames) = 1 => frames' = <<>>
           /\ Len(frames) = 2 => Len(frames') = 1 /\ frames'[1] = frames[2]
           /\ Head(frames) = frames[1] /\ Len(frames) \in {1, 2}
<1>1. frames \in Seq(Frames) /\ Len(frames) <= 2
  BY DEF IInv, TypeOK, Shape
<1>2. QED
  BY <1>1, PopShort

LEMMA RunStep ==
    ASSUME IInv, RunServer PROVE Shape' /\ Current'
<1> TypeOK /\ Shape /\ Current
  BY DEF IInv
<1>1. /\ frames # <<>> /\ Head(frames) = "run" /\ frames' = Tail(frames)
      /\ ~start' /\ told'
      /\ proc' = [proc EXCEPT ![g_server] = "running"]
      /\ started' = [started EXCEPT ![g_server] = TRUE]
      /\ UNCHANGED <<g_server, queue>>
  BY DEF RunServer, Top, ChenableForce
<1>2. frames' = <<>>
  BY <1>1, Popped DEF Shape
<1>3. g_server \in Servers /\ g_server # 0
  BY <1>1, BoundsAssumption DEF Shape, TypeOK, Servers, Top
<1>4. Shape'
  BY <1>1, <1>2, <1>3 DEF Shape
<1>5. CurrentLives'
  BY <1>1, <1>3 DEF CurrentLives, Lives, TypeOK, Servers
<1>6. \A s \in Servers : s # g_server' => ~Lives(s)' /\ ~started'[s]
  BY <1>1, <1>3 DEF Current, Lives, TypeOK
<1>7. \A s \in Servers : s > g_server' => proc'[s] = "none"
  BY <1>1, <1>3 DEF Current, TypeOK, Servers
<1>8. started'[g_server'] /\ ~Top("run")' /\ ~Top("finish")' /\ ~Top("warnBox")'
  BY <1>1, <1>2, <1>3 DEF Top, TypeOK
<1>9. Current'
  BY <1>1, <1>5, <1>6, <1>7, <1>8 DEF Current
<1>10. QED
  BY <1>4, <1>9

\* A start that fails leaves neither button nor process.
LEMMA FailStep ==
    ASSUME IInv, RunFails \/ WarnClosed PROVE Shape' /\ Current'
<1> TypeOK /\ Shape /\ Current
  BY DEF IInv
<1>1. /\ frames # <<>> /\ Head(frames) \in {"run", "warnBox"} /\ frames' = Tail(frames)
      /\ ~start'
      /\ UNCHANGED <<g_server, proc, started, force, told, queue>>
  BY DEF RunFails, WarnClosed, Top, server
<1>2. frames' = <<>> /\ ~Top("finish") /\ ~CurrentLives
  BY <1>1, Popped DEF Shape, Current, Asking, Top
<1>3. ~Top("run")' /\ ~Top("finish")' /\ ~Top("warnBox")'
  BY <1>2 DEF Top
<1>4. Shape'
  BY <1>1, <1>2 DEF Shape
<1>5. ~CurrentLives'
  BY <1>1, <1>2 DEF CurrentLives, Lives
<1>6. Current'
  BY <1>1, <1>2, <1>3, <1>5 DEF Current, Lives
<1>7. QED
  BY <1>4, <1>6

LEMMA AskStep ==
    ASSUME IInv, UserForce \/ UserClose PROVE Shape' /\ Current'
<1> TypeOK /\ Shape /\ Current
  BY DEF IInv
<1>1. /\ frames = <<>>
      /\ UNCHANGED <<g_server, proc, started, start, force, told, queue>>
  BY DEF UserForce, UserClose, TakesInput, server, window, buttons
<1>2. CASE frames' = <<>>
  BY <1>1, <1>2, Unwatched DEF watched, Shape
<1>3. ASSUME NEW kind \in Asking, frames' = <<kind>>, g_server # 0
      PROVE  Shape' /\ Current'
  <2>1. Shape'
    BY <1>1, <1>3 DEF Shape, Asking
  <2>2. ~Top("run")' /\ ~Top("finish")' /\ ~Top("warnBox")'
    BY <1>1, <1>3 DEF Top, Asking
  <2>3. CurrentLives' <=> CurrentLives
    BY <1>1 DEF CurrentLives, Lives
  <2>4. Current'
    BY <1>1, <2>2, <2>3 DEF Current, Lives
  <2>5. QED
    BY <2>1, <2>4
<1>4. CASE UserForce
  <2>1. frames' = <<"forceBox">>
    BY <1>4 DEF UserForce
  <2>2. g_server # 0
    BY <1>4 DEF UserForce, Shape
  <2>3. QED
    BY <1>3, <2>1, <2>2 DEF Asking
<1>5. CASE UserClose
  <2>1. frames' = frames \/ (g_server # 0 /\ frames' = <<"closeBox">>)
    BY <1>5 DEF UserClose
  <2>2. QED
    BY <1>1, <1>2, <1>3, <2>1 DEF Asking
<1>6. QED
  BY <1>4, <1>5

LEMMA AnswerStep ==
    ASSUME IInv, ForceYes \/ CloseYes \/ BoxNo PROVE Shape' /\ Current'
<1> TypeOK /\ Shape /\ Current
  BY DEF IInv
<1>1. /\ frames # <<>> /\ Head(frames) \in Asking /\ frames' = Tail(frames)
      /\ UNCHANGED <<g_server, started, start, force, told, queue>>
      /\ \/ UNCHANGED proc
         \/ proc' = [proc EXCEPT ![g_server] = IF @ = "running" THEN "exited" ELSE @]
  BY DEF ForceYes, CloseYes, BoxNo, Kill, Top, Asking, server, window, buttons
<1>2. frames' = <<>> /\ ~Top("finish") /\ ~Top("warnBox") /\ g_server \in Servers
  BY <1>1, Popped DEF Shape, Asking, Top, TypeOK, Servers
<1>3. Shape'
  <2>1. Len(frames') = 0 /\ g_server' # 0
    <3>1. g_server # 0
      BY <1>2, BoundsAssumption DEF Servers
    <3>2. QED
      BY <1>1, <1>2, <3>1
  <2>2. queue' = queue
    BY <1>1
  <2>3. QED
    BY <1>2, <2>1, <2>2 DEF Shape
<1>4. ~Top("run")' /\ ~Top("finish")' /\ ~Top("warnBox")'
  BY <1>2 DEF Top
<1>5. /\ \A s \in Servers : Lives(s)' <=> Lives(s)
      /\ \A s \in Servers : proc'[s] = "none" <=> proc[s] = "none"
  BY <1>1, <1>2 DEF Lives, TypeOK
<1>6. CurrentLives' <=> CurrentLives
  BY <1>1, <1>2, <1>5 DEF CurrentLives, Lives
<1>7. Current'
  BY <1>1, <1>2, <1>4, <1>5, <1>6 DEF Current
<1>8. QED
  BY <1>3, <1>7

LEMMA ExitStep ==
    ASSUME IInv, NEW s \in Servers, Exit(s) PROVE Shape' /\ Current'
<1> TypeOK /\ Shape /\ Current
  BY DEF IInv
<1>1. /\ proc[s] = "running" /\ proc' = [proc EXCEPT ![s] = "exited"]
      /\ UNCHANGED <<g_server, started, start, force, told, queue, frames>>
  BY DEF Exit, window, buttons
<1>2. s = g_server
  BY <1>1 DEF Current, Lives
<1>3. Shape'
  BY <1>1 DEF Shape, Top
<1>4. /\ \A r \in Servers : Lives(r)' <=> Lives(r)
      /\ \A r \in Servers : r # s => proc'[r] = proc[r]
  BY <1>1 DEF Lives, TypeOK
<1>5. CurrentLives' /\ CurrentLives
  BY <1>1, <1>2, <1>4 DEF CurrentLives, Lives, Servers
<1>6. ~Top("run") /\ ~Top("finish") /\ ~Top("warnBox") /\ ~start
  BY <1>1, <1>2, <1>5 DEF Current
<1>7. ~Top("run")' /\ ~Top("finish")' /\ ~Top("warnBox")'
  BY <1>1, <1>6 DEF Top
<1>8. Current'
  BY <1>1, <1>2, <1>4, <1>5, <1>6, <1>7 DEF Current, Servers
<1>9. QED
  BY <1>3, <1>8

LEMMA FinishedStep ==
    ASSUME IInv, StartsByButton, NEW s \in Servers, Finished(s) PROVE Shape' /\ Current'
<1> TypeOK /\ Shape /\ Current
  BY DEF IInv
<1>1. /\ proc[s] = "exited" /\ proc' = [proc EXCEPT ![s] = "over"]
      /\ started' = [started EXCEPT ![g_server] = FALSE]
      /\ ~told'
      /\ frames' = <<"finish">> \o frames
      /\ UNCHANGED <<g_server, start, force, queue>>
  BY DEF Finished, StartsByButton, window, buttons
<1>2. s = g_server /\ g_server \in Servers /\ CurrentLives
  BY <1>1, BoundsAssumption DEF Current, CurrentLives, Lives, Servers
<1>3. /\ frames \in Seq(Frames) /\ Len(frames) <= 1
      /\ Len(frames) = 1 => frames[1] \in Asking
      /\ ~Top("finish")
  <2>1. frames \in Seq(Frames)
    BY DEF TypeOK
  <2>2. CASE frames = <<>>
    BY <2>2 DEF Top
  <2>3. CASE frames # <<>>
    <3>1. Head(frames) = frames[1] /\ Len(frames) \in {1, 2}
      <4>1. Head(frames) = frames[1] /\ Len(frames) >= 1 /\ Len(frames) \in Nat
        BY <2>1, <2>3, PopFacts
      <4>2. Len(frames) <= 2
        BY DEF Shape
      <4>3. Len(frames) \in {1, 2}
        BY <4>1, <4>2, OneOrTwo
      <4>4. QED
        BY <4>1, <4>3
    <3>2. frames[1] \in Boxes
      BY <2>3, <3>1 DEF Finished, TakesEvents, Top
    <3>3. frames[1] \in Asking
      BY <1>2, <2>3, <3>1, <3>2 DEF Current, Top, Boxes, Asking
    <3>4. QED
      BY <2>1, <3>1, <3>3 DEF Shape, Asking, Top
  <2>4. QED
    BY <2>1, <2>2, <2>3
<1>4. /\ Len(frames') = Len(frames) + 1 /\ frames'[1] = "finish"
      /\ \A i \in 1..Len(frames) : frames'[i + 1] = frames[i]
      /\ frames' \in Seq(Frames)
  BY <1>1, <1>3, FrameNames, PushFacts DEF Boxes
<1>5. Shape'
  <2>2. Len(frames') = 2 => frames'[1] = "finish" /\ frames'[2] \in Asking
    <3>1. SUFFICES ASSUME Len(frames') = 2
                   PROVE  frames'[1] = "finish" /\ frames'[2] \in Asking
      OBVIOUS
    <3>2. Len(frames) = 1
      <4>1. Len(frames) \in Nat
        BY <1>3
      <4>2. Len(frames) + 1 = 2
        BY <1>4, <3>1
      <4>3. QED
        BY <4>1, <4>2, OneOrTwo
    <3>3. frames'[2] = frames[1]
      BY <1>4, <3>2
    <3>4. QED
      BY <1>3, <1>4, <3>2, <3>3
  <2>3. QED
    BY <1>1, <1>2, <1>3, <1>4, <2>2 DEF Shape, Servers
<1>6. Top("finish")' /\ ~Top("run")' /\ ~Top("warnBox")'
  BY <1>3, <1>4, PopFacts DEF Top
<1>7. ~start
  BY <1>2 DEF Current
<1>8. ~CurrentLives' /\ proc'[g_server'] = "over" /\ ~started'[g_server']
  BY <1>1, <1>2 DEF CurrentLives, Lives, TypeOK
<1>9. \A r \in Servers : r # g_server' => ~Lives(r)' /\ ~started'[r]
  BY <1>1, <1>2 DEF Current, Lives, TypeOK
<1>10. \A r \in Servers : r > g_server' => proc'[r] = "none"
  BY <1>1, <1>2 DEF Current, TypeOK, Servers
<1>11. Current'
  BY <1>1, <1>6, <1>7, <1>8, <1>9, <1>10 DEF Current
<1>12. QED
  BY <1>5, <1>11

LEMMA FinishStep ==
    ASSUME IInv, Finish PROVE Shape' /\ Current'
<1> TypeOK /\ Shape /\ Current
  BY DEF IInv
<1>1. /\ frames # <<>> /\ Head(frames) = "finish" /\ frames' = Tail(frames)
      /\ start' /\ ~force'
      /\ UNCHANGED <<g_server, proc, started, told, queue>>
  BY DEF Finish, Top, ChenableForce
<1>2. proc[g_server] = "over" /\ ~CurrentLives
  BY <1>1 DEF Current, Top, CurrentLives, Lives
<1>3. \/ frames' = <<>>
      \/ Len(frames') = 1 /\ frames'[1] = frames[2] /\ frames[2] \in Asking
  BY <1>1, Popped DEF Shape
<1>4. Shape'
  <2>1. g_server # 0
    BY <1>1 DEF Shape, Top
  <2>2. QED
    BY <1>1, <1>3, <2>1, Popped DEF Shape, Asking
<1>5. ~Top("run")' /\ ~Top("finish")' /\ ~Top("warnBox")'
  <2>1. frames' \in Seq(Frames)
    BY <1>1, PopFacts DEF TypeOK
  <2>2. QED
    BY <1>3, <2>1, PopFacts DEF Top, Asking
<1>6. ~CurrentLives'
  BY <1>1, <1>2 DEF CurrentLives, Lives
<1>7. Current'
  BY <1>1, <1>2, <1>5, <1>6 DEF Current, Lives
<1>8. QED
  BY <1>4, <1>7

LEMMA NoStartWaits ==
    ASSUME IInv, queue # <<>>
    PROVE  /\ Head(queue) # "start"
           /\ \A i \in 1..Len(Tail(queue)) : Tail(queue)[i] # "start"
<1>1. queue \in Seq({"start", "send"}) /\ \A i \in 1..Len(queue) : queue[i] # "start"
  BY DEF IInv, TypeOK, Shape
<1> DEFINE n == Len(queue)
           t == Tail(queue)
           h == Head(queue)
<1>2. /\ n \in Nat /\ n >= 1 /\ Len(t) = n - 1 /\ h = queue[1]
      /\ \A i \in 1..(n - 1) : t[i] = queue[i + 1]
      /\ \A i \in 1..n : queue[i] # "start"
  BY <1>1, PopFacts
<1> HIDE DEF n, t, h
<1>3. h # "start" /\ \A i \in 1..Len(t) : t[i] # "start"
  BY <1>2
<1>4. QED
  BY <1>3 DEF t, h

\* The chat thread sends commands, and no wish to start.
LEMMA SignalStep ==
    ASSUME IInv, StartsByButton, NEW signal \in {"start", "send"}, ChatSignal(signal)
    PROVE  \A i \in 1..Len(queue') : queue'[i] # "start"
<1>1. signal = "send" /\ queue' = Append(queue, signal)
  BY DEF ChatSignal, StartsByButton
<1>2. queue \in Seq({"start", "send"}) /\ \A i \in 1..Len(queue) : queue[i] # "start"
  BY DEF IInv, TypeOK, Shape
<1>3. /\ Len(Append(queue, signal)) = Len(queue) + 1
      /\ \A i \in 1..Len(queue) : Append(queue, signal)[i] = queue[i]
      /\ Append(queue, signal)[Len(queue) + 1] = signal
  BY <1>2, AppendProperties
<1> DEFINE n == Len(queue)
           a == Append(queue, signal)
<1>4. /\ n \in Nat /\ Len(a) = n + 1 /\ a[n + 1] # "start"
      /\ \A i \in 1..n : a[i] # "start"
  BY <1>1, <1>2, <1>3
<1> HIDE DEF n, a
<1>5. \A i \in 1..Len(a) : a[i] # "start"
  BY <1>4
<1>6. QED
  BY <1>1, <1>5 DEF a

LEMMA InvariantStep ==
    ASSUME IInv, StartsByButton, [Next]_vars PROVE Shape' /\ Current'
<1> TypeOK /\ Shape
  BY DEF IInv
<1>1. ASSUME UNCHANGED watched, UNCHANGED queue PROVE Shape' /\ Current'
  <2>1. \A i \in 1..Len(queue') : queue'[i] # "start"
    BY <1>1 DEF Shape
  <2>2. QED
    BY <1>1, <2>1, Unwatched
<1> USE DEF server, buttons, window
<1>2. CASE User
  <2>1. CASE UserStart
    BY <2>1, StartStep
  <2>2. CASE UserShortcut
    BY <2>2 DEF UserShortcut, StartsByButton
  <2>3. CASE UserStop
    BY <1>1, <2>3 DEF UserStop, Crash, AskToStop, watched
  <2>4. CASE UserForce \/ UserClose
    BY <2>4, AskStep
  <2>5. QED
    BY <1>2, <2>1, <2>2, <2>3, <2>4 DEF User
<1>3. CASE Answer
  BY <1>3, AnswerStep, FailStep DEF Answer
<1>4. CASE RunServer
  BY <1>4, RunStep
<1>5. CASE RunFails
  BY <1>5, FailStep
<1>6. CASE Finish
  BY <1>6, FinishStep
<1>7. CASE ConsoleStop
  BY <1>1, <1>7 DEF ConsoleStop, AskToStop, watched
<1>8. CASE FadeEnds
  BY <1>1, <1>8 DEF FadeEnds, watched
<1>9. CASE TakeStart
  BY <1>9, NoStartWaits DEF TakeStart
<1>10. CASE TakeSend
  <2>1. \A i \in 1..Len(queue') : queue'[i] # "start"
    <3>1. queue' = queue \/ queue' = Tail(queue)
      BY <1>10 DEF TakeSend, Crash
    <3>2. queue # <<>>
      BY <1>10 DEF TakeSend
    <3>3. CASE queue' = queue
      BY <3>3 DEF Shape
    <3>4. CASE queue' = Tail(queue)
      BY <3>2, <3>4, NoStartWaits
    <3>5. QED
      BY <3>1, <3>3, <3>4
  <2>2. UNCHANGED watched
    BY <1>10 DEF TakeSend, Crash, AskToStop, watched
  <2>3. QED
    BY <2>1, <2>2, Unwatched
<1>11. ASSUME NEW s \in Servers, Finished(s) PROVE Shape' /\ Current'
  BY <1>11, FinishedStep
<1>12. CASE Chat
  <2>1. CASE ChatStop \/ ChatStopServer
    BY <1>1, <2>1 DEF ChatStop, ChatStopServer, Crash, AskToStop, watched
  <2>2. ASSUME NEW signal \in {"start", "send"}, ChatSignal(signal)
        PROVE  Shape' /\ Current'
    <3>1. UNCHANGED watched
      BY <2>2 DEF ChatSignal, watched
    <3>2. QED
      BY <2>2, <3>1, SignalStep, Unwatched
  <2>3. QED
    BY <1>12, <2>1, <2>2 DEF Chat
<1>13. ASSUME NEW s \in Servers, Exit(s) PROVE Shape' /\ Current'
  BY <1>13, ExitStep
<1>14. CASE UNCHANGED vars
  BY <1>1, <1>14 DEF vars, watched
<1>15. QED
  BY <1>2, <1>3, <1>4, <1>5, <1>6, <1>7, <1>8, <1>9, <1>10, <1>11, <1>12, <1>13, <1>14
     DEF Next, Gui

-----------------------------------------------------------------------------
(* The label *)

\* The label follows the process, and the start button too if every start succeeds.
Labelled ==
    /\ ~Top("finish") => (status <=> CurrentLives)
    /\ ButtonsOnly /\ ~Top("finish") => start \/ CurrentLives

LEMMA InitLabelled == Init => Labelled
BY DEF Init, Labelled, CurrentLives

labelled == <<g_server, proc, start, status, frames>>

LEMMA LabelledStep ==
    ASSUME IInv, Labelled, StartsByButton, [Next]_vars PROVE Labelled'
<1> TypeOK /\ Shape /\ Current
  BY DEF IInv
<1>1. ASSUME UNCHANGED labelled PROVE Labelled'
  BY <1>1 DEF labelled, Labelled, Top, CurrentLives, Lives
<1> USE DEF server, buttons, window
<1>2. CASE UserStart
  <2>1. /\ frames = <<>> /\ start
        /\ \/ g_server' = g_server /\ frames' = <<"warnBox">> \o <<>>
           \/ g_server' = g_server + 1 /\ frames' = <<"run">> \o <<>>
        /\ UNCHANGED <<proc, start, status>>
    BY <1>2 DEF UserStart, TakesInput, BeginStart
  <2>2. ~Top("finish") /\ ~Top("finish")'
    BY <2>1 DEF Top
  <2>3. ~CurrentLives /\ ~CurrentLives'
    <3>1. ~CurrentLives
      BY <2>1 DEF Current
    <3>2. \A s \in Servers : ~Lives(s)
      BY <3>1 DEF Current, CurrentLives, Servers
    <3>3. g_server' \in 0..MaxServers
      BY <1>2, BeginStartTyped DEF UserStart, TypeOK
    <3>4. QED
      BY <2>1, <3>1, <3>2, <3>3 DEF CurrentLives, Lives, Servers
  <2>4. QED
    BY <2>1, <2>2, <2>3 DEF Labelled
<1>3. CASE UserForce \/ UserClose
  <2>1. /\ UNCHANGED <<g_server, proc, start, status>> /\ frames = <<>>
        /\ frames' = frames \/ \E kind \in Asking : frames' = <<kind>>
    BY <1>3 DEF UserForce, UserClose, TakesInput, Asking
  <2>2. ~Top("finish") /\ ~Top("finish")'
    BY <2>1 DEF Top, Asking
  <2>3. CurrentLives' <=> CurrentLives
    BY <2>1 DEF CurrentLives, Lives
  <2>4. QED
    BY <2>1, <2>2, <2>3 DEF Labelled
<1>4. CASE ForceYes \/ CloseYes \/ BoxNo
  <2>1. /\ frames # <<>> /\ Head(frames) \in Asking /\ frames' = Tail(frames)
        /\ UNCHANGED <<g_server, start, status>>
        /\ UNCHANGED proc \/ Kill(g_server)
    BY <1>4 DEF ForceYes, CloseYes, BoxNo, Top, Asking
  <2>2. frames' = <<>> /\ ~Top("finish") /\ g_server \in Servers
    BY <2>1, Popped, BoundsAssumption DEF Shape, Asking, Top, TypeOK, Servers
  <2>3. ~Top("finish")'
    BY <2>2 DEF Top
  <2>4. CurrentLives' <=> CurrentLives
    BY <2>1, <2>2 DEF Kill, CurrentLives, Lives, TypeOK
  <2>5. QED
    BY <2>1, <2>2, <2>3, <2>4 DEF Labelled
<1>5. CASE RunServer
  <2>1. /\ frames # <<>> /\ Head(frames) = "run" /\ status'
        /\ proc' = [proc EXCEPT ![g_server] = "running"] /\ UNCHANGED g_server
    BY <1>5 DEF RunServer, Top, ChenableForce
  <2>2. g_server \in Servers /\ g_server # 0
    BY <2>1, BoundsAssumption DEF Shape, Top, TypeOK, Servers
  <2>3. CurrentLives'
    BY <2>1, <2>2 DEF CurrentLives, Lives, TypeOK
  <2>4. QED
    BY <2>1, <2>3 DEF Labelled
<1>6. CASE Finish
  <2>1. /\ proc[g_server] = "over" /\ UNCHANGED <<g_server, proc>> /\ start' /\ ~status'
    BY <1>6 DEF Finish, ChenableForce, Current
  <2>2. ~CurrentLives'
    BY <2>1 DEF CurrentLives, Lives
  <2>3. QED
    BY <2>1, <2>2 DEF Labelled
<1>7. ASSUME NEW s \in Servers, Finished(s) PROVE Labelled'
  <2>1. frames' = <<"finish">> \o frames
    BY <1>7 DEF Finished, StartsByButton
  <2>2. Top("finish")'
    <3>1. frames \in Seq(Frames) /\ "finish" \in Frames
      BY FrameNames DEF TypeOK
    <3>2. frames' \in Seq(Frames) /\ frames' # <<>> /\ frames'[1] = "finish"
      BY <2>1, <3>1, PushFacts
    <3>3. Head(frames') = frames'[1]
      BY <3>2, PopFacts
    <3>4. QED
      BY <3>2, <3>3 DEF Top
  <2>3. QED
    BY <2>2 DEF Labelled
<1>8. ASSUME NEW s \in Servers, Exit(s) PROVE Labelled'
  <2>1. /\ proc[s] = "running" /\ proc' = [proc EXCEPT ![s] = "exited"]
        /\ UNCHANGED <<g_server, start, status, frames>>
    BY <1>8 DEF Exit
  <2>2. Top("finish")' <=> Top("finish")
    BY <2>1 DEF Top
  <2>3. CurrentLives' <=> CurrentLives
    BY <2>1 DEF CurrentLives, Lives, TypeOK
  <2>4. QED
    BY <2>1, <2>2, <2>3 DEF Labelled
<1>9. CASE RunFails \/ WarnClosed
  <2>1. /\ frames # <<>> /\ Head(frames) \in {"run", "warnBox"} /\ frames' = Tail(frames)
        /\ UNCHANGED <<g_server, proc, status>>
    BY <1>9 DEF RunFails, WarnClosed, Top
  <2>2. frames' = <<>> /\ ~Top("finish")
    BY <2>1, Popped DEF Shape, Asking, Top
  <2>3. CurrentLives' <=> CurrentLives
    BY <2>1 DEF CurrentLives, Lives
  <2>4. ~ButtonsOnly
    BY <1>9 DEF RunFails, WarnClosed, ButtonsOnly, Current
  <2>5. QED
    BY <2>1, <2>2, <2>3, <2>4 DEF Labelled
<1>10. ~UserShortcut
  BY DEF UserShortcut, StartsByButton
<1>11. ~TakeStart
  BY NoStartWaits DEF TakeStart
<1>12. CASE UserStop \/ ConsoleStop \/ FadeEnds \/ TakeSend \/ Chat \/ UNCHANGED vars
  BY <1>1, <1>12 DEF UserStop, ConsoleStop, FadeEnds, TakeSend, Chat, ChatStop, ChatStopServer,
                     ChatSignal, Crash, AskToStop, vars, labelled
<1>13. QED
  BY <1>2, <1>3, <1>4, <1>5, <1>6, <1>7, <1>8, <1>9, <1>10, <1>11, <1>12
     DEF Next, User, Answer, Gui

-----------------------------------------------------------------------------
(* Theorems *)

\* Which stacks of handlers there are, and how the buttons, started and the last callback
\* follow the current process in each of them.
THEOREM Invariance == ASSUME StartsByButton PROVE Spec => []IInv
<1>1. IInv /\ [Next]_vars => IInv'
  BY TypeStep, InvariantStep DEF IInv
<1>2. QED
  BY <1>1, InitInvariant, PTL DEF Spec

\* The start button never starts a second server while one runs, whatever chat,
\* console rules and boxes do in the meantime.
THEOREM OneServerAtATime == ASSUME StartsByButton PROVE Spec => []OneServer
<1>1. IInv => OneServer
  BY DEF IInv, Current, OneServer, Lives
<1>2. QED
  BY <1>1, Invariance, PTL

\* The label follows the process.
THEOREM LabelInvariance == ASSUME StartsByButton PROVE Spec => []Labelled
<1>1. IInv /\ Labelled /\ [Next]_vars => Labelled'
  BY LabelledStep
<1>2. QED
  BY <1>1, InitLabelled, Invariance, PTL DEF Spec

LEMMA FinishIsOver == ASSUME IInv, ~Handling("finish") PROVE ~Top("finish")
<1>1. SUFFICES ASSUME Top("finish") PROVE FALSE
  OBVIOUS
<1>2. frames \in Seq(Frames) /\ frames # <<>>
  BY <1>1 DEF IInv, TypeOK, Top
<1>3. Head(frames) = frames[1] /\ 1 \in 1..Len(frames)
  BY <1>2, PopFacts
<1>4. QED
  BY <1>1, <1>3 DEF Top, Handling

LEMMA CurrentIsAll == ASSUME IInv PROVE CurrentLives <=> \E s \in Servers : Lives(s)
BY DEF IInv, TypeOK, Current, CurrentLives, Servers

\* After a start that failed the start button stays disabled, but it never offers a
\* second server, and the label is right all the same.
ButtonsKeep ==
    Alive /\ ~Handling("run") /\ ~Handling("finish") =>
        /\ start => \A s \in Servers : ~Lives(s)
        /\ status <=> \E s \in Servers : Lives(s)

\* A failed start leaves nothing that a second server could be started by.
THEOREM ButtonsAreKept == ASSUME StartsByButton PROVE Spec => []ButtonsKeep
<1>1. ASSUME IInv, Labelled PROVE ButtonsKeep
  <2>1. start => ~CurrentLives
    BY <1>1 DEF IInv, Current
  <2>2. ~Handling("finish") => (status <=> CurrentLives)
    BY <1>1, FinishIsOver DEF Labelled
  <2>3. QED
    BY <1>1, <2>1, <2>2, CurrentIsAll DEF ButtonsKeep
<1>2. QED
  BY <1>1, Invariance, LabelInvariance, PTL

\* slotChenableForce and slotChangeStatus: if every start succeeds, the start button is
\* offered exactly when there is something to start, and the label says so.
THEOREM ButtonsAreTrue == ASSUME ButtonsOnly PROVE Spec => []ButtonsTell
<1>1. ASSUME IInv, Labelled PROVE ButtonsTell
  <2>1. ~Handling("finish") => (start <=> ~CurrentLives) /\ (status <=> CurrentLives)
    BY <1>1, FinishIsOver DEF IInv, Current, Labelled
  <2>2. start \in BOOLEAN /\ status \in BOOLEAN
    BY <1>1 DEF IInv, TypeOK
  <2>3. QED
    BY <1>1, <2>1, <2>2, CurrentIsAll DEF ButtonsTell
<1>2. QED
  BY <1>1, ButtonsStart, Invariance, LabelInvariance, PTL

\* started, which the chat thread and checkClose decide on, is true of the current
\* server exactly while its process lives.
THEOREM StartedIsTrue == ASSUME StartsByButton PROVE Spec => []StartedTells
<1>1. IInv => StartedTells
  BY DEF IInv, TypeOK, Current, CurrentLives, StartedTells, Lives, Servers
<1>2. QED
  BY <1>1, Invariance, PTL

\* checkClose lets the window fade only once no server process runs.
THEOREM NothingIsLeft == ASSUME StartsByButton PROVE Spec => LeavesNothingRunning
<1>1. ASSUME IInv, [Next]_vars, program = "up", program' = "fading", NEW s \in Servers
      PROVE  proc'[s] # "running"
  <2>1. UserClose \/ CloseYes
    BY <1>1 DEF Next, User, UserStart, UserShortcut, UserStop, UserForce, Crash, Answer,
                WarnClosed, ForceYes, BoxNo, Gui, RunServer, RunFails, Finish, ConsoleStop,
                FadeEnds, TakeStart, TakeSend, Finished, Chat, ChatStop, ChatStopServer,
                ChatSignal, Exit, vars
  <2>2. TypeOK /\ Current /\ Shape
    BY <1>1 DEF IInv
  <2>3. s # g_server => proc[s] # "running"
    BY <2>2 DEF Current, Lives
  <2>4. CASE UserClose
    <3>1. ~(g_server # 0 /\ started[g_server]) /\ UNCHANGED proc
      BY <1>1, <2>4 DEF UserClose, server
    <3>2. s = g_server => proc[s] # "running"
      BY <2>2, <3>1 DEF Current, CurrentLives, Lives, Servers
    <3>3. QED
      BY <2>3, <3>1, <3>2
  <2>5. CASE CloseYes
    BY <2>2, <2>3, <2>5 DEF CloseYes, Kill, TypeOK
  <2>6. QED
    BY <2>1, <2>4, <2>5
<1>2. IInv /\ [Next]_vars =>
        [program = "up" /\ program' = "fading" =>
            \A s \in Servers : proc'[s] # "running"]_vars
  BY <1>1
<1>3. QED
  BY <1>2, Invariance, PTL DEF Spec, LeavesNothingRunning

-----------------------------------------------------------------------------
(* Refinement *)

Running == \E s \in Servers : proc[s] = "running"

LEMMA RunningIsCurrent ==
    ASSUME IInv
    PROVE  Running <=> g_server # 0 /\ proc[g_server] = "running"
<1>1. \A s \in Servers : proc[s] = "running" => s = g_server
  BY DEF IInv, Current, Lives
<1>2. g_server # 0 => g_server \in Servers
  BY DEF IInv, TypeOK, Servers
<1>3. 0 \notin Servers
  BY DEF Servers
<1>4. QED
  BY <1>1, <1>2, <1>3 DEF Running

LEMMA SimulateInit == Init => Promise!Init
BY DEF Init, Promise!Init

LEMMA SimulateStep ==
    ASSUME IInv, IInv', StartsByButton, [Next]_vars
    PROVE  Promise!Next \/ UNCHANGED Promise!vars
<1> TypeOK /\ Shape /\ Current
  BY DEF IInv
<1> USE DEF server, buttons, window
<1>1. /\ Running <=> g_server # 0 /\ proc[g_server] = "running"
      /\ Running' <=> g_server' # 0 /\ proc'[g_server'] = "running"
  <2>1. IInv => (Running <=> g_server # 0 /\ proc[g_server] = "running")
    BY RunningIsCurrent
  <2>2. IInv' => (Running' <=> g_server' # 0 /\ proc'[g_server'] = "running")
    <3>1. SUFFICES ASSUME IInv'
                   PROVE  Running' <=> g_server' # 0 /\ proc'[g_server'] = "running"
      OBVIOUS
    <3>2. \A s \in Servers : proc'[s] = "running" => s = g_server'
      BY <3>1 DEF IInv, Current, Lives
    <3>3. (g_server' # 0 => g_server' \in Servers) /\ 0 \notin Servers
      BY <3>1 DEF IInv, TypeOK, Servers
    <3>4. QED
      BY <3>2, <3>3 DEF Running
  <2>3. QED
    BY <2>1, <2>2
<1>2. ASSUME UNCHANGED proc, UNCHANGED told
      PROVE  Promise!Next \/ UNCHANGED Promise!vars
  BY <1>2 DEF Promise!vars
<1>3. ASSUME Running, ~Running', UNCHANGED told
      PROVE  Promise!Next
  BY <1>3 DEF Promise!Next, Promise!Exit, Running
<1>4. CASE RunServer
  <2>1. /\ ~CurrentLives /\ ~told /\ g_server # 0 /\ g_server \in Servers
    <3>1. Top("run") /\ frames # <<>> /\ ~Top("warnBox")
      BY <1>4 DEF RunServer, Top
    <3>2. QED
      BY <3>1 DEF Current, CurrentLives, Lives, Shape, TypeOK, Servers
  <2>2. ~Running
    BY <1>1, <2>1 DEF CurrentLives, Lives
  <2>3. told' /\ Running'
    BY <1>1, <1>4, <2>1 DEF RunServer, TypeOK
  <2>4. QED
    BY <2>1, <2>2, <2>3 DEF Promise!Next, Promise!Start, Running
<1>5. ASSUME NEW s \in Servers, Exit(s) PROVE Promise!Next
  <2>1. /\ proc[s] = "running" /\ proc' = [proc EXCEPT ![s] = "exited"]
        /\ UNCHANGED <<g_server, told>>
    BY <1>5 DEF Exit
  <2>2. s = g_server
    BY <2>1 DEF Current, Lives
  <2>3. Running
    BY <2>1 DEF Running
  <2>4. ~Running'
    BY <1>1, <2>1, <2>2 DEF TypeOK
  <2>5. QED
    BY <1>3, <2>1, <2>3, <2>4
<1>6. ASSUME NEW s \in Servers, Finished(s) PROVE Promise!Next
  <2>1. /\ proc[s] = "exited" /\ proc' = [proc EXCEPT ![s] = "over"]
        /\ ~told' /\ UNCHANGED g_server
    BY <1>6 DEF Finished, StartsByButton
  <2>2. s = g_server /\ g_server # 0
    BY <2>1 DEF Current, Lives, Servers
  <2>3. told
    BY <2>1, <2>2 DEF Current, CurrentLives, Lives
  <2>4. ~Running /\ ~Running'
    BY <1>1, <2>1, <2>2 DEF TypeOK
  <2>5. QED
    BY <2>1, <2>3, <2>4 DEF Promise!Next, Promise!Tell, Running
<1>7. CASE ForceYes \/ CloseYes
  <2>1. /\ proc' = [proc EXCEPT ![g_server] = IF @ = "running" THEN "exited" ELSE @]
        /\ UNCHANGED <<g_server, told>>
    BY <1>7 DEF ForceYes, CloseYes, Kill
  <2>2. CASE Running
    <3>1. ~Running'
      BY <1>1, <2>1, <2>2 DEF TypeOK, Servers
    <3>2. QED
      BY <1>3, <2>1, <2>2, <3>1
  <2>3. CASE ~Running
    <3>1. ~Running'
      BY <1>1, <2>1, <2>3 DEF TypeOK, Servers
    <3>2. QED
      BY <2>1, <2>3, <3>1 DEF Promise!vars, Running
  <2>4. QED
    BY <2>2, <2>3
<1>8. CASE \/ User \/ WarnClosed \/ BoxNo \/ RunFails \/ Finish \/ ConsoleStop \/ FadeEnds
           \/ TakeStart \/ TakeSend
  <2>1. UNCHANGED <<proc, told>>
    BY <1>8 DEF User, UserStart, UserShortcut, UserStop, UserForce, UserClose, Crash,
                AskToStop, WarnClosed, BoxNo, RunFails, Finish, ConsoleStop, FadeEnds,
                TakeStart, TakeSend
  <2>2. QED
    BY <1>2, <2>1
<1>9. CASE Chat
  <2>1. UNCHANGED <<proc, told>>
    BY <1>9 DEF Chat, ChatStop, ChatStopServer, ChatSignal, Crash, AskToStop
  <2>2. QED
    BY <1>2, <2>1
<1>10. CASE UNCHANGED vars
  BY <1>2, <1>10 DEF vars
<1>11. QED
  BY <1>4, <1>5, <1>6, <1>7, <1>8, <1>9, <1>10 DEF Next, Answer, Gui

\* createServer and progressFinished tell onServerStart and onServerStop in turns,
\* and truly.
THEOREM Implements == ASSUME StartsByButton PROVE Spec => KeepsPromise
<1>1. Spec => []IInv
  BY Invariance
<1>2. IInv /\ IInv' /\ [Next]_vars => [Promise!Next]_(Promise!vars)
  BY SimulateStep
<1>3. QED
  BY <1>1, <1>2, SimulateInit, PTL DEF Spec, KeepsPromise, Promise!Spec

=============================================================================
