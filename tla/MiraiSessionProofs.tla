------------------------- MODULE MiraiSessionProofs -------------------------
(***************************************************************************)
(* Proofs about MiraiSession, for every set of connections: types, and     *)
(* that the flag logined, the connection time and the panel tell the truth.*)
(***************************************************************************)
EXTENDS MiraiSession, TLAPS

\* The labels of a receive thread that may still answer for its connection.
Working == {"reading", "welcome", "send", "ending"}
Dead == {"none", "done"}

Idle == \A n \in Connections : thread[n] \in Dead

\* The handlers under way and the signals that wait, as sets.
Stack == {frames[i] : i \in 1..Len(frames)}
Pending == {queue[i] : i \in 1..Len(queue)}

-----------------------------------------------------------------------------
(* The inductive invariant *)

\* Only the innermost handler does something else than run an event loop.
Nested == \A i \in 2..Len(frames) : frames[i] \in Loops

\* Nothing happens before the starter has tried.
Before ==
    starter = "login" =>
        made = {} /\ current = None /\ ~logined /\ frames = <<>> /\ queue = <<>>

\* An attempt of the window finds nothing else at work, and so does its failure.
Attempts ==
    /\ Top("login") \/ "box" \in Stack =>
          current = None /\ Idle /\ ~logined /\ starter = "done"
    /\ Top("made") \/ Top("profile") => starter = "done"
    /\ Top("login") => queue = <<>> /\ "box" \notin Stack
    /\ Top("reset") => current = None

\* One receive thread at a time, and it is that of the open connection.
OneThread ==
    /\ \A n \in Connections : thread[n] = "none" <=> n \notin made
    /\ \A n, m \in Connections :
          thread[n] \notin Dead /\ thread[m] \notin Dead => n = m
    /\ current # None => thread[current] \in Working

\* A connection is asked for the profile once, by whoever has made it.
AskedOnce ==
    /\ \A n \in Connections :
          /\ replies[n] <= requests[n] /\ requests[n] <= 1
          /\ n \notin made => requests[n] = 0
    /\ current # None /\ (starter \in {"made", "profile"} \/ Top("made") \/ Top("profile"))
          => requests[current] = 0

\* Who is logged in was answered; a connection is only shut down after that.
Answered ==
    /\ current # None /\ logined => replies[current] = 1
    /\ \A n \in Connections :
          /\ thread[n] \in Working /\ current # n => replies[n] = 1
          /\ thread[n] = "send" => replies[n] = 1
    /\ (Top("send") \/ Top("disConnect")) /\ current # None => replies[current] = 1

\* LoginIsLive, in terms of Stack.
Logged ==
    logined /\ current = None =>
        "reset" \in Stack \/ \E n \in Connections : thread[n] = "lost"

\* What an earlier connection has left behind is delivered before the next one.
NothingLeft == current # None => "zero" \notin Pending /\ "noUser" \notin Pending

TimeIsSet ==
    current # None =>
        starter = "made" \/ Top("made") \/ "time" \in Pending \/ mGetTime = "time"

UserIsSet ==
    current # None /\ logined =>
        \/ thread[current] = "welcome" \/ "user" \in Pending \/ "image" \in Stack
        \/ panel = "user"

IInv ==
    /\ TypeOK
    /\ Nested /\ Before /\ Attempts /\ OneThread /\ AskedOnce /\ Answered /\ Logged
    /\ NothingLeft /\ TimeIsSet /\ UserIsSet

-----------------------------------------------------------------------------
(* Stacks and queues *)

LEMMA Pushed ==
  ASSUME NEW S, NEW f \in Seq(S), NEW x \in S
  PROVE  /\ <<x>> \o f \in Seq(S)
         /\ <<x>> \o f # <<>> /\ Head(<<x>> \o f) = x
         /\ Len(<<x>> \o f) = Len(f) + 1
         /\ (<<x>> \o f)[1] = x
         /\ \A i \in 1..Len(f) : (<<x>> \o f)[i + 1] = f[i]
  OBVIOUS

LEMMA Popped ==
  ASSUME NEW S, NEW f \in Seq(S), f # <<>>
  PROVE  /\ Tail(f) \in Seq(S)
         /\ Head(f) = f[1] /\ Head(f) \in S
         /\ Len(f) \in Nat /\ Len(f) >= 1
         /\ Len(Tail(f)) = Len(f) - 1
         /\ \A i \in 1..Len(Tail(f)) : Tail(f)[i] = f[i + 1]
  OBVIOUS

\* What a handler called from an event loop does to the stack, ...
LEMMA Pushes ==
  ASSUME frames \in Seq(FrameLabels), Nested, TakesEvents,
         NEW label \in FrameLabels, Push(label)
  PROVE  /\ frames' \in Seq(FrameLabels) /\ Nested'
         /\ frames' # <<>> /\ Head(frames') = label
         /\ Stack' = Stack \cup {label}
<1>1. /\ frames' \in Seq(FrameLabels) /\ frames' # <<>> /\ Head(frames') = label
      /\ Len(frames') = Len(frames) + 1
      /\ frames'[1] = label
      /\ \A i \in 1..Len(frames) : frames'[i + 1] = frames[i]
  BY Pushed DEF Push
<1>2. Len(frames) \in Nat
  OBVIOUS
<1>3. \A i \in 1..Len(frames) : frames[i] \in Loops
  <2>1. frames # <<>> => frames[1] \in Loops
    BY DEF TakesEvents, Top
  <2>. QED  BY <2>1, <1>2 DEF Nested
<1>4. Nested'
  <2>. SUFFICES ASSUME NEW i \in 2..Len(frames')
                PROVE  frames'[i] \in Loops
    BY DEF Nested
  <2>1. i - 1 \in 1..Len(frames) /\ i = (i - 1) + 1
    BY <1>1, <1>2
  <2>. QED  BY <2>1, <1>1, <1>3
<1>5. ASSUME NEW x \in Stack'  PROVE x \in Stack \cup {label}
  <2>1. PICK i \in 1..Len(frames') : x = frames'[i]
    BY <1>5 DEF Stack
  <2>2. CASE i = 1
    BY <2>1, <2>2, <1>1
  <2>3. CASE i # 1
    <3>1. i - 1 \in 1..Len(frames) /\ i = (i - 1) + 1
      BY <2>3, <1>1, <1>2
    <3>2. x = frames[i - 1]
      BY <3>1, <2>1, <1>1
    <3>. QED  BY <3>1, <3>2 DEF Stack
  <2>. QED  BY <2>2, <2>3
<1>6. ASSUME NEW x \in Stack \cup {label}  PROVE x \in Stack'
  <2>1. CASE x = label
    BY <2>1, <1>1, <1>2 DEF Stack
  <2>2. CASE x \in Stack
    <3>1. PICK i \in 1..Len(frames) : x = frames[i]
      BY <2>2 DEF Stack
    <3>2. i + 1 \in 1..Len(frames') /\ x = frames'[i + 1]
      BY <3>1, <1>1, <1>2
    <3>. QED  BY <3>2 DEF Stack
  <2>. QED  BY <2>1, <2>2
<1>. QED  BY <1>1, <1>4, <1>5, <1>6

LEMMA Innermost ==
  ASSUME frames \in Seq(FrameLabels), frames # <<>>
  PROVE  Head(frames) \in Stack
BY Popped DEF Stack

\* ... what its return does, ...
LEMMA Pops ==
  ASSUME frames \in Seq(FrameLabels), Nested, frames # <<>>, Pop
  PROVE  /\ frames' \in Seq(FrameLabels) /\ Nested'
         /\ frames' # <<>> => Head(frames') \in Loops
         /\ Stack' \subseteq Stack /\ Stack \subseteq Stack' \cup {Head(frames)}
         /\ Head(frames) \in Stack
<1>1. /\ frames' \in Seq(FrameLabels) /\ Head(frames) = frames[1]
      /\ Len(frames) \in Nat /\ Len(frames) >= 1 /\ Len(frames') = Len(frames) - 1
      /\ \A i \in 1..Len(frames') : frames'[i] = frames[i + 1]
  BY Popped DEF Pop
<1>2. \A i \in 1..Len(frames') : i + 1 \in 2..Len(frames) /\ frames'[i] \in Loops
  BY <1>1 DEF Nested
<1>3. Nested'
  BY <1>1, <1>2 DEF Nested
<1>4. frames' # <<>> => Head(frames') \in Loops
  <2>. SUFFICES ASSUME frames' # <<>>
                PROVE  Head(frames') \in Loops
    OBVIOUS
  <2>1. Head(frames') = frames'[1] /\ Len(frames') >= 1
    BY <1>1, Popped
  <2>. QED  BY <2>1, <1>1, <1>2
<1>5. Stack' \subseteq Stack
  <2>. SUFFICES ASSUME NEW x \in Stack'
                PROVE  x \in Stack
    OBVIOUS
  <2>1. PICK i \in 1..Len(frames') : x = frames'[i]
    BY DEF Stack
  <2>2. i + 1 \in 1..Len(frames) /\ x = frames[i + 1]
    BY <2>1, <1>1
  <2>. QED  BY <2>2 DEF Stack
<1>6. Stack \subseteq Stack' \cup {Head(frames)}
  <2>. SUFFICES ASSUME NEW x \in Stack, x # Head(frames)
                PROVE  x \in Stack'
    OBVIOUS
  <2>1. PICK i \in 1..Len(frames) : x = frames[i]
    BY DEF Stack
  <2>2. i - 1 \in 1..Len(frames') /\ i = (i - 1) + 1
    BY <2>1, <1>1
  <2>3. x = frames'[i - 1]
    BY <2>1, <2>2, <1>1
  <2>. QED  BY <2>2, <2>3 DEF Stack
<1>7. Head(frames) \in Stack
  BY Innermost
<1>. QED  BY <1>1, <1>3, <1>4, <1>5, <1>6, <1>7

\* ... and a step of its own.
LEMMA Becomes ==
  ASSUME frames \in Seq(FrameLabels), Nested, frames # <<>>,
         NEW label \in FrameLabels, Become(label)
  PROVE  /\ frames' \in Seq(FrameLabels) /\ Nested'
         /\ frames' # <<>> /\ Head(frames') = label
         /\ Stack' \subseteq Stack \cup {label}
         /\ Stack \subseteq Stack' \cup {Head(frames)}
<1>1. /\ Tail(frames) \in Seq(FrameLabels) /\ Head(frames) = frames[1]
      /\ Len(frames) \in Nat /\ Len(frames) >= 1
      /\ Len(Tail(frames)) = Len(frames) - 1
      /\ \A i \in 1..Len(Tail(frames)) : Tail(frames)[i] = frames[i + 1]
  BY Popped
<1>2. /\ frames' \in Seq(FrameLabels) /\ frames' # <<>> /\ Head(frames') = label
      /\ Len(frames') = Len(frames)
      /\ frames'[1] = label
      /\ \A i \in 1..Len(Tail(frames)) : frames'[i + 1] = Tail(frames)[i]
  BY <1>1, Pushed DEF Become
<1>3. ASSUME NEW i \in 2..Len(frames)  PROVE frames'[i] = frames[i]
  <2>1. i - 1 \in 1..Len(Tail(frames)) /\ i = (i - 1) + 1
    BY <1>1
  <2>. QED  BY <2>1, <1>1, <1>2
<1>4. Nested'
  BY <1>2, <1>3 DEF Nested
<1>5. Stack' \subseteq Stack \cup {label}
  <2>. SUFFICES ASSUME NEW x \in Stack', x # label
                PROVE  x \in Stack
    OBVIOUS
  <2>1. PICK i \in 1..Len(frames') : x = frames'[i]
    BY DEF Stack
  <2>2. i \in 2..Len(frames) /\ x = frames[i]
    BY <2>1, <1>1, <1>2, <1>3
  <2>. QED  BY <2>2 DEF Stack
<1>6. Stack \subseteq Stack' \cup {Head(frames)}
  <2>. SUFFICES ASSUME NEW x \in Stack, x # Head(frames)
                PROVE  x \in Stack'
    OBVIOUS
  <2>1. PICK i \in 1..Len(frames) : x = frames[i]
    BY DEF Stack
  <2>2. i \in 2..Len(frames) /\ x = frames'[i]
    BY <2>1, <1>1, <1>3
  <2>. QED  BY <2>2, <1>2 DEF Stack
<1>. QED  BY <1>2, <1>4, <1>5, <1>6

LEMMA Appends ==
  ASSUME queue \in Seq(Signals), NEW signal \in Signals, queue' = Append(queue, signal)
  PROVE  queue' \in Seq(Signals) /\ queue' # <<>> /\ Pending' = Pending \cup {signal}
<1>1. /\ queue' \in Seq(Signals) /\ Len(queue) \in Nat /\ Len(queue') = Len(queue) + 1
      /\ queue'[Len(queue')] = signal
      /\ \A i \in 1..Len(queue) : queue'[i] = queue[i]
  OBVIOUS
<1>2. Pending' \subseteq Pending \cup {signal}
  BY <1>1 DEF Pending
<1>3. Pending \subseteq Pending'
  BY <1>1 DEF Pending
<1>4. signal \in Pending'
  BY <1>1 DEF Pending
<1>. QED  BY <1>1, <1>2, <1>3, <1>4

LEMMA AppendsTwo ==
  ASSUME queue \in Seq(Signals), NEW s1 \in Signals, NEW s2 \in Signals,
         queue' = queue \o <<s1, s2>>
  PROVE  queue' \in Seq(Signals) /\ Pending' = Pending \cup {s1, s2}
<1>1. /\ queue' \in Seq(Signals) /\ Len(queue) \in Nat /\ Len(queue') = Len(queue) + 2
      /\ queue'[Len(queue) + 1] = s1 /\ queue'[Len(queue) + 2] = s2
      /\ \A i \in 1..Len(queue) : queue'[i] = queue[i]
  OBVIOUS
<1>2. Pending' \subseteq Pending \cup {s1, s2}
  BY <1>1 DEF Pending
<1>3. Pending \subseteq Pending'
  BY <1>1 DEF Pending
<1>4. s1 \in Pending' /\ s2 \in Pending'
  BY <1>1 DEF Pending
<1>. QED  BY <1>1, <1>2, <1>3, <1>4

LEMMA Takes ==
  ASSUME queue \in Seq(Signals), queue # <<>>, queue' = Tail(queue)
  PROVE  /\ queue' \in Seq(Signals) /\ Head(queue) \in Signals
         /\ Head(queue) \in Pending /\ Pending' \subseteq Pending
         /\ Pending \subseteq Pending' \cup {Head(queue)}
<1>1. /\ queue' \in Seq(Signals) /\ Head(queue) = queue[1] /\ Head(queue) \in Signals
      /\ Len(queue) \in Nat /\ Len(queue) >= 1 /\ Len(queue') = Len(queue) - 1
      /\ \A i \in 1..Len(queue') : queue'[i] = queue[i + 1]
  BY Popped
<1>2. Pending' \subseteq Pending
  BY <1>1 DEF Pending
<1>3. Pending \subseteq Pending' \cup {Head(queue)}
  <2>. SUFFICES ASSUME NEW i \in 1..Len(queue), i # 1
                PROVE  queue[i] \in Pending'
    BY <1>1 DEF Pending
  <2>1. i - 1 \in 1..Len(queue') /\ i = (i - 1) + 1
    BY <1>1
  <2>2. queue'[i - 1] = queue[i]
    BY <2>1, <1>1
  <2>. QED  BY <2>1, <2>2 DEF Pending
<1>4. Head(queue) \in Pending
  BY <1>1 DEF Pending
<1>. QED  BY <1>1, <1>2, <1>3, <1>4

-----------------------------------------------------------------------------
(* Types and the stack *)

LEMMA Rest ==
  ASSUME frames \in Seq(FrameLabels), Nested, UNCHANGED frames
  PROVE  frames' \in Seq(FrameLabels) /\ Nested' /\ Stack' = Stack
BY DEF Nested, Stack

\* The button disConnect goes on to the rest of shutdown, or returns.
LEMMA ShutsDown ==
  ASSUME TypeOK, Nested, WindowShutdown
  PROVE  /\ UNCHANGED <<made, thread, starter, queue, session, window>>
         /\ \/ /\ UNCHANGED current
               /\ frames' # <<>> => Head(frames') \in Loops
            \/ /\ current' = None /\ "reset" \in Stack'
               /\ frames' # <<>> /\ Head(frames') = "reset"
         /\ Stack' \subseteq Stack \cup {"reset"}
         /\ Stack \subseteq Stack' \cup {"disConnect"}
         /\ Top("disConnect")
<1>. /\ frames \in Seq(FrameLabels) /\ frames # <<>> /\ Head(frames) = "disConnect"
     /\ UNCHANGED <<thread, starter, queue, session, window>>
  BY DEF TypeOK, WindowShutdown, Top
<1>1. CASE Shutdown /\ Become("reset")
  <2>1. /\ frames' # <<>> /\ Head(frames') = "reset" /\ frames' \in Seq(FrameLabels)
        /\ Stack' \subseteq Stack \cup {"reset"}
        /\ Stack \subseteq Stack' \cup {"disConnect"}
    BY <1>1, Becomes DEF FrameLabels
  <2>2. Head(frames') = frames'[1] /\ Len(frames') \in Nat /\ Len(frames') >= 1
    BY <2>1, Popped
  <2>3. "reset" \in Stack'
    BY <2>1, <2>2 DEF Stack
  <2>4. current' = None /\ UNCHANGED made
    BY <1>1 DEF Shutdown, Client!End, client
  <2>. QED  BY <2>1, <2>3, <2>4 DEF WindowShutdown
<1>2. CASE Pop /\ UNCHANGED client
  BY <1>2, Pops DEF WindowShutdown, client
<1>. QED  BY <1>1, <1>2 DEF WindowShutdown

LEMMA Stacked ==
  ASSUME TypeOK, Nested, Next
  PROVE  frames' \in Seq(FrameLabels) /\ Nested'
<1>. frames \in Seq(FrameLabels)
  BY DEF TypeOK
<1>1. CASE \E n \in Connections : StarterConnects(n) \/ PeerEnds(n) \/ Login(n)
             \/ Welcome(n) \/ ThreadRule(n) \/ ThreadSends(n) \/ Error(n)
  BY <1>1, Rest DEF StarterConnects, PeerEnds, Login, Welcome, ThreadRule,
     ThreadSends, Error, threads
<1>2. CASE \E n \in Connections : NoticeEnd(n) \/ ThreadShutdown(n) \/ Lost(n)
             \/ LostTold(n) \/ Leave(n)
  BY <1>2, Rest DEF NoticeEnd, ThreadShutdown, Lost, LostTold, Leave
<1>3. CASE StarterFails \/ StarterMade \/ StarterProfile
  BY <1>3, Rest DEF StarterFails, StarterMade, StarterProfile
<1>4. CASE ClickConnect \/ ClickDisconnect \/ WindowRule
  <2>1. TakesEvents /\ \E label \in {"login", "disConnect", "send"} : Push(label)
    <3>1. CASE ClickConnect \/ ClickDisconnect
      <4>1. frames # <<>> => Head(frames) = "image"
        BY <3>1, Popped DEF ClickConnect, ClickDisconnect, TakesInput
      <4>. QED  BY <3>1, <4>1 DEF ClickConnect, ClickDisconnect, TakesEvents, Top, Loops
    <3>2. CASE WindowRule
      BY <3>2 DEF WindowRule
    <3>. QED  BY <1>4, <3>1, <3>2
  <2>. QED  BY <2>1, Pushes DEF FrameLabels
<1>5. CASE WindowProfile \/ Reset \/ CloseNotice \/ ImageLoaded \/ WindowSends
  BY <1>5, Pops DEF WindowProfile, Reset, CloseNotice, ImageLoaded, WindowSends, Top
<1>6. CASE WindowFails \/ CloseBox \/ WindowMade \/ \E n \in Connections : WindowConnects(n)
  <2>1. frames # <<>> /\ \E label \in {"box", "profile", "made"} : Become(label)
    BY <1>6 DEF WindowFails, CloseBox, WindowMade, WindowConnects, Top
  <2>. QED  BY <2>1, Becomes DEF FrameLabels, Loops
<1>7. CASE TakeSignal
  <2>1. TakesEvents
        /\ (frames' = frames \/ \E label \in {"image", "notice"} : Push(label))
    <3>1. Head(queue) \in Signals
      BY <1>7, Takes DEF TakeSignal, TypeOK
    <3>. QED  BY <1>7, <3>1 DEF TakeSignal, Push, window, Signals
  <2>. QED  BY <2>1, Pushes, Rest DEF FrameLabels, Loops
<1>8. CASE WindowShutdown
  <2>1. frames # <<>> /\ (Pop \/ Become("reset"))
    BY <1>8 DEF WindowShutdown, Top
  <2>. QED  BY <2>1, Pops, Becomes DEF FrameLabels
<1>. QED
  BY <1>1, <1>2, <1>3, <1>4, <1>5, <1>6, <1>7, <1>8
     DEF Next, StarterStep, WindowStep, User, ThreadStep, Mirai

LEMMA Typed ==
  ASSUME TypeOK, Nested, Before, [Next]_vars
  PROVE  TypeOK'
<1>. USE DEF TypeOK
<1>0. CASE UNCHANGED vars
  BY <1>0 DEF vars, client, threads, session, window
<1>1. CASE Next
  <2>1. frames' \in Seq(FrameLabels)
    BY <1>1, Stacked
  <2>2. CASE \E n \in Connections : StarterConnects(n) \/ WindowConnects(n)
    BY <2>1, <2>2 DEF StarterConnects, WindowConnects, Client!Open, Goes, session, window,
       ThreadLabels, StarterLabels
  <2>3. CASE StarterFails
    BY <2>1, <2>3, AppendsTwo DEF StarterFails, client, session, window, StarterLabels, Signals
  <2>4. CASE StarterMade
    BY <2>1, <2>4, Appends DEF StarterMade, client, window, StarterLabels, Signals
  <2>5. CASE StarterProfile \/ WindowProfile
    <3>1. requests' \in [Connections -> Nat]
      <4>1. CASE /\ current # None
                 /\ requests' = [requests EXCEPT ![current] = requests[current] + 1]
        BY <4>1
      <4>. QED
        BY <2>5, <4>1 DEF StarterProfile, WindowProfile, BotProfile
    <3>. QED
      BY <2>1, <2>5, <3>1 DEF StarterProfile, WindowProfile, client, window, StarterLabels
  <2>6. CASE ClickConnect \/ WindowSends \/ WindowRule \/ CloseNotice
    BY <2>1, <2>6
       DEF ClickConnect, WindowSends, WindowRule, CloseNotice, client, session, window
  <2>7. CASE WindowFails \/ CloseBox \/ WindowMade \/ Reset \/ ImageLoaded
    BY <2>1, <2>7 DEF WindowFails, CloseBox, WindowMade, Reset, ImageLoaded, client, session
  <2>8. CASE ClickDisconnect \/ WindowShutdown
    BY <2>1, <2>8
       DEF ClickDisconnect, WindowShutdown, Shutdown, Client!End, client, session, window
  <2>9. CASE TakeSignal
    <3>1. queue' \in Seq(Signals) /\ Head(queue) \in Signals
      BY <2>9, Takes DEF TakeSignal
    <3>2. mGetTime' \in {"unset", "zero", "time"} /\ panel' \in {"nobody", "user"}
      BY <2>9, <3>1 DEF TakeSignal, Signals, window
    <3>. QED  BY <2>1, <2>9, <3>1, <3>2 DEF TakeSignal, client, session
  <2>10. CASE \E n \in Connections : PeerEnds(n)
    BY <2>1, <2>10 DEF PeerEnds, Client!PeerEnds, threads, session, window
  <2>11. CASE \E n \in Connections : Login(n)
    BY <2>1, <2>11 DEF Login, Goes, client, window, ThreadLabels
  <2>12. CASE \E n \in Connections : Welcome(n)
    BY <2>1, <2>12, Appends DEF Welcome, Goes, client, session, window, ThreadLabels, Signals
  <2>13. CASE \E n \in Connections : ThreadRule(n) \/ ThreadSends(n) \/ Leave(n) \/ NoticeEnd(n)
    BY <2>1, <2>13
       DEF ThreadRule, ThreadSends, Leave, NoticeEnd, Goes, client, session, window, ThreadLabels
  <2>14. CASE \E n \in Connections : Error(n)
    BY <2>1, <2>14 DEF Error, client, threads, window
  <2>15. CASE \E n \in Connections : ThreadShutdown(n)
    BY <2>1, <2>15
       DEF ThreadShutdown, Shutdown, Client!End, Goes, client, session, window, ThreadLabels
  <2>16. CASE \E n \in Connections : Lost(n)
    BY <2>1, <2>16 DEF Lost, Client!Tell, Goes, window, ThreadLabels
  <2>17. CASE \E n \in Connections : LostTold(n)
    BY <2>1, <2>17, AppendsTwo
       DEF LostTold, Goes, client, session, window, ThreadLabels, Signals
  <2>. QED
    BY <1>1, <2>2, <2>3, <2>4, <2>5, <2>6, <2>7, <2>8, <2>9, <2>10, <2>11, <2>12, <2>13,
       <2>14, <2>15, <2>16, <2>17
       DEF Next, StarterStep, WindowStep, User, ThreadStep, Mirai
<1>. QED  BY <1>0, <1>1

-----------------------------------------------------------------------------
(* Control *)

LEMMA Settles ==
  ASSUME TypeOK, Before, OneThread, Next
  PROVE  Before'
<1>. SUFFICES ASSUME starter = "login"
              PROVE  starter' # "login"
  <2>1. starter' = "login" => starter = "login"
    BY DEF Next, StarterStep, WindowStep, User, ThreadStep, Mirai, threads,
       StarterConnects, StarterFails, StarterMade, StarterProfile,
       WindowConnects, WindowFails, WindowMade, WindowProfile, Reset, TakeSignal,
       ImageLoaded, WindowSends, ClickConnect, ClickDisconnect, WindowShutdown, CloseBox,
       CloseNotice, WindowRule, Welcome, ThreadSends, NoticeEnd, ThreadShutdown, Lost, LostTold,
       Leave, PeerEnds, Login, ThreadRule, Error
  <2>. QED  BY <2>1 DEF Before
<1>1. /\ made = {} /\ ~logined /\ frames = <<>> /\ queue = <<>>
      /\ \A n \in Connections : thread[n] = "none"
  BY DEF Before, OneThread
<1>2. CASE StarterStep
  BY <1>2 DEF StarterStep, StarterConnects, StarterFails, StarterMade, StarterProfile
<1>3. ~WindowStep
  BY <1>1 DEF WindowStep, WindowConnects, WindowFails, WindowMade, WindowProfile,
     WindowShutdown, Reset, TakeSignal, ImageLoaded, WindowSends, Top
<1>4. ~User
  BY <1>1 DEF User, ClickConnect, MayConnect, ClickDisconnect, CloseBox, CloseNotice,
     WindowRule, Top
<1>5. ASSUME NEW n \in Connections  PROVE ~ThreadStep(n) /\ ~Mirai(n)
  BY <1>1 DEF ThreadStep, Mirai, Welcome, ThreadSends, NoticeEnd, ThreadShutdown, Lost,
     LostTold, Leave, PeerEnds, Client!PeerEnds, Login, ThreadRule, Error
<1>. QED  BY <1>2, <1>3, <1>4, <1>5 DEF Next

LEMMA Attempted ==
  ASSUME TypeOK, Nested, Before, Attempts, Next
  PROVE  Attempts'
<1>0. frames \in Seq(FrameLabels) /\ queue \in Seq(Signals)
  BY DEF TypeOK
<1>1. CASE StarterStep
  <2>1. UNCHANGED frames /\ Stack' = Stack /\ starter # "done"
    BY <1>0, <1>1, Rest
       DEF StarterStep, StarterConnects, StarterFails, StarterMade, StarterProfile
  <2>2. ~Top("login") /\ "box" \notin Stack /\ ~Top("made") /\ ~Top("profile")
    BY <2>1 DEF Attempts
  <2>3. Top("reset") => UNCHANGED current
    BY <1>1 DEF StarterStep, StarterConnects, StarterFails, StarterMade, StarterProfile,
       Before, Top, client
  <2>. QED  BY <2>1, <2>2, <2>3 DEF Attempts, Top
<1>2. CASE \E n \in Connections : ThreadStep(n) \/ Mirai(n)
  <2>1. UNCHANGED <<frames, starter>> /\ Stack' = Stack
    BY <1>0, <1>2, Rest
       DEF ThreadStep, Mirai, Welcome, ThreadSends, NoticeEnd, ThreadShutdown, Lost,
           LostTold, Leave, PeerEnds, Login, ThreadRule, Error, threads
  <2>2. current = None => current' = None
    BY <1>2 DEF ThreadStep, Mirai, Welcome, ThreadSends, NoticeEnd, ThreadShutdown, Lost,
       LostTold, Leave, PeerEnds, Login, ThreadRule, Error, client, Shutdown,
       Client!Tell, Client!PeerEnds
  <2>3. Idle => UNCHANGED <<thread, logined, queue>>
    BY <1>2 DEF ThreadStep, Mirai, Welcome, ThreadSends, NoticeEnd, ThreadShutdown, Lost,
       LostTold, Leave, PeerEnds, Login, ThreadRule, Error, threads, session, Idle, Dead
  <2>. QED  BY <2>1, <2>2, <2>3 DEF Attempts, Top, Idle
<1>3. CASE ClickConnect
  <2>1. /\ frames' # <<>> /\ Head(frames') = "login" /\ Stack' = Stack \cup {"login"}
        /\ UNCHANGED <<current, thread, logined, starter, queue>>
    <3>1. TakesEvents
      <4>1. frames # <<>> => Head(frames) = "image"
        BY <1>0, <1>3, Popped DEF ClickConnect, TakesInput
      <4>. QED  BY <4>1 DEF TakesEvents, Top, Loops
    <3>. QED  BY <1>0, <1>3, <3>1, Pushes DEF ClickConnect, FrameLabels, client, session
  <2>2. "box" \notin Stack
    BY <1>3 DEF ClickConnect, TakesInput, Stack
  <2>3. current = None /\ Idle /\ ~logined /\ starter = "done" /\ queue = <<>>
    BY <1>3 DEF ClickConnect, MayConnect, TakesInput, Idle, Dead
  <2>. QED  BY <2>1, <2>2, <2>3 DEF Attempts, Top, Idle
<1>4. CASE \E n \in Connections : WindowConnects(n)
  <2>1. /\ frames' # <<>> /\ Head(frames') = "made" /\ Stack' \subseteq Stack \cup {"made"}
        /\ UNCHANGED starter
    BY <1>0, <1>4, Becomes DEF WindowConnects, Top, FrameLabels
  <2>2. "box" \notin Stack /\ starter = "done"
    BY <1>4 DEF WindowConnects, Attempts
  <2>. QED  BY <2>1, <2>2 DEF Attempts, Top
<1>5. CASE WindowFails \/ CloseBox \/ WindowMade
  <2>1. /\ frames' # <<>> /\ Head(frames') \in {"box", "profile"}
        /\ Stack' \subseteq Stack \cup {"box", "profile"}
        /\ "box" \in Stack' /\ ~Top("login") => "box" \in Stack
        /\ UNCHANGED <<current, thread, logined, starter>>
    BY <1>0, <1>5, Becomes
       DEF WindowFails, CloseBox, WindowMade, Top, FrameLabels, Loops, client, session
  <2>2. starter = "done"
    BY <1>0, <1>5, Innermost DEF WindowFails, CloseBox, WindowMade, Attempts, Top
  <2>3. "box" \in Stack' => current = None /\ Idle /\ ~logined
    BY <2>1 DEF Attempts
  <2>. QED  BY <2>1, <2>2, <2>3 DEF Attempts, Top, Idle
<1>6. CASE WindowProfile \/ Reset \/ CloseNotice \/ ImageLoaded \/ WindowSends
  <2>1. /\ frames' # <<>> => Head(frames') \in Loops
        /\ Stack' \subseteq Stack
        /\ UNCHANGED <<current, thread, starter>> /\ (logined' => logined)
    BY <1>0, <1>6, Pops
       DEF WindowProfile, Reset, CloseNotice, ImageLoaded, WindowSends, Top, client, session
  <2>. QED  BY <2>1 DEF Attempts, Top, Idle, Loops
<1>7. CASE WindowShutdown
  <2>1. "box" \in Stack' => "box" \in Stack
    BY <1>7, ShutsDown
  <2>2. "box" \in Stack => current = None /\ Idle /\ ~logined /\ starter = "done"
    BY DEF Attempts
  <2>. QED  BY <1>7, <2>1, <2>2, ShutsDown DEF Attempts, Top, Idle, Loops, session
<1>8. CASE WindowRule \/ ClickDisconnect
  <2>1. /\ frames' # <<>> /\ Head(frames') \in {"send", "disConnect"}
        /\ Stack' \subseteq Stack \cup {"send", "disConnect"}
    <3>1. TakesEvents
      <4>1. ClickDisconnect /\ frames # <<>> => Head(frames) = "image"
        BY <1>0, Popped DEF ClickDisconnect, TakesInput
      <4>. QED  BY <1>8, <4>1 DEF WindowRule, ClickDisconnect, TakesEvents, Top, Loops
    <3>. QED  BY <1>0, <1>8, <3>1, Pushes DEF WindowRule, ClickDisconnect, FrameLabels
  <2>2. "box" \notin Stack
    BY <1>8 DEF WindowRule, ClickDisconnect, Attempts
  <2>. QED  BY <2>1, <2>2 DEF Attempts, Top
<1>9. CASE TakeSignal
  <2>1. /\ frames' = frames \/ \E label \in {"image", "notice"} : Push(label)
        /\ TakesEvents /\ UNCHANGED <<current, thread, logined, starter>>
        /\ queue # <<>>
    <3>1. Head(queue) \in Signals
      BY <1>0, <1>9, Takes DEF TakeSignal
    <3>. QED  BY <1>9, <3>1 DEF TakeSignal, Push, window, Signals, client, session
  <2>2. CASE frames' = frames
    BY <1>0, <2>1, <2>2, Rest DEF Attempts, Top, Idle
  <2>3. CASE \E label \in {"image", "notice"} : Push(label)
    <3>1. /\ frames' # <<>> /\ Head(frames') \in {"image", "notice"}
          /\ Stack' \subseteq Stack \cup {"image", "notice"}
      BY <1>0, <2>1, <2>3, Pushes DEF FrameLabels, Loops
    <3>. QED  BY <2>1, <3>1 DEF Attempts, Top, Idle
  <2>. QED  BY <2>1, <2>2, <2>3
<1>. QED
  BY <1>1, <1>2, <1>3, <1>4, <1>5, <1>6, <1>7, <1>8, <1>9 DEF Next, WindowStep, User

LEMMA OneThreadKept ==
  ASSUME TypeOK, Before, Attempts, OneThread, Next
  PROVE  OneThread'
<1>. USE DEF TypeOK, OneThread
<1>1. ASSUME NEW n \in Connections, StarterConnects(n) \/ WindowConnects(n)
      PROVE  OneThread'
  <2>1. /\ n \notin made /\ made' = made \cup {n} /\ current' = n
        /\ thread' = [thread EXCEPT ![n] = "reading"]
    BY <1>1 DEF StarterConnects, WindowConnects, Client!Open, Goes
  <2>2. Idle
    BY <1>1 DEF StarterConnects, WindowConnects, Before, Attempts, Idle, Dead
  <2>. QED  BY <2>1, <2>2 DEF Idle, Working, Dead
<1>2. CASE \/ StarterFails \/ StarterMade \/ StarterProfile
           \/ WindowFails \/ WindowMade \/ WindowProfile \/ Reset \/ TakeSignal
           \/ ImageLoaded \/ WindowSends \/ ClickConnect \/ CloseBox \/ CloseNotice
           \/ WindowRule
  <2>1. UNCHANGED <<current, made, thread>>
    BY <1>2 DEF StarterFails, StarterMade, StarterProfile, WindowFails, WindowMade,
       WindowProfile, Reset, TakeSignal, ImageLoaded, WindowSends, ClickConnect,
       CloseBox, CloseNotice, WindowRule, client
  <2>. QED  BY <2>1
<1>3. CASE ClickDisconnect \/ WindowShutdown
  BY <1>3 DEF ClickDisconnect, WindowShutdown, Shutdown, Client!End, client
<1>4. ASSUME NEW n \in Connections,
             Welcome(n) \/ ThreadSends(n) \/ Login(n) \/ ThreadRule(n) \/ NoticeEnd(n)
      PROVE  OneThread'
  <2>1. /\ UNCHANGED <<current, made>>
        /\ thread[n] \in Working
        /\ \E label \in Working : thread' = [thread EXCEPT ![n] = label]
    BY <1>4 DEF Welcome, ThreadSends, Login, ThreadRule, NoticeEnd, Goes, Working, client
  <2>. QED  BY <2>1 DEF Working, Dead
<1>5. ASSUME NEW n \in Connections, PeerEnds(n) \/ Error(n)
      PROVE  OneThread'
  BY <1>5 DEF PeerEnds, Error, Client!PeerEnds, client, threads
<1>6. ASSUME NEW n \in Connections, ThreadShutdown(n) \/ Lost(n) \/ LostTold(n) \/ Leave(n)
      PROVE  OneThread'
  <2>1. /\ UNCHANGED made /\ thread[n] \notin Dead
        /\ \E label \in {"lost", "clear", "done"} : thread' = [thread EXCEPT ![n] = label]
        /\ current' = None \/ (UNCHANGED current /\ current # n)
    BY <1>6 DEF ThreadShutdown, Shutdown, Client!End, Lost, Client!Tell, LostTold, Leave, Goes,
       Working, Dead, client
  <2>. QED  BY <2>1 DEF Working, Dead
<1>. QED
  BY <1>1, <1>2, <1>3, <1>4, <1>5, <1>6
     DEF Next, StarterStep, WindowStep, User, ThreadStep, Mirai

LEMMA AskedOnceKept ==
  ASSUME TypeOK, Nested, Before, Attempts, OneThread, AskedOnce, Next
  PROVE  AskedOnce'
<1>. USE DEF TypeOK, AskedOnce
<1>0. frames \in Seq(FrameLabels)
  OBVIOUS
<1>1. ASSUME NEW n \in Connections, StarterConnects(n) \/ WindowConnects(n)
      PROVE  AskedOnce'
  <2>1. /\ n \notin made /\ made' = made \cup {n} /\ current' = n
        /\ UNCHANGED <<requests, replies>>
    BY <1>1 DEF StarterConnects, WindowConnects, Client!Open, session
  <2>. QED  BY <2>1
<1>2. CASE StarterFails \/ StarterMade
  <2>1. /\ UNCHANGED <<requests, replies, frames, made, current>>
        /\ StarterMade => starter = "made"
        /\ StarterFails => starter = "login"
    BY <1>2 DEF StarterFails, StarterMade, session, client
  <2>2. starter = "login" => current = None
    BY DEF Before
  <2>. QED  BY <1>2, <2>1, <2>2 DEF Top
<1>3. CASE StarterProfile \/ WindowProfile
  <2>1. /\ starter' = "done"
        /\ ~(frames' # <<>> /\ Head(frames') \in {"made", "profile"})
        /\ current # None => requests[current] = 0
        /\ UNCHANGED <<current, made, replies>>
    <3>1. CASE StarterProfile
      <4>1. ~Top("made") /\ ~Top("profile")
        BY <3>1 DEF StarterProfile, Attempts
      <4>2. starter = "profile" /\ starter' = "done"
        BY <3>1 DEF StarterProfile
      <4>3. UNCHANGED <<frames, current, made, replies>>
        BY <3>1 DEF StarterProfile, client
      <4>. QED  BY <4>1, <4>2, <4>3 DEF Top
    <3>2. CASE WindowProfile
      BY <1>0, <3>2, Pops DEF WindowProfile, Top, Attempts, client, Loops
    <3>. QED  BY <1>3, <3>1, <3>2
  <2>2. CASE requests' = requests
    BY <2>1, <2>2 DEF Top
  <2>3. CASE current # None /\ requests' = [requests EXCEPT ![current] = requests[current] + 1]
    <3>1. current \in Connections /\ current \in made
      BY <2>3 DEF OneThread, Working
    <3>2. replies[current] \in Nat /\ requests'[current] = 1
      BY <2>1, <2>3, <3>1
    <3>. QED  BY <2>1, <2>3, <3>1, <3>2 DEF Top
  <2>. QED
    BY <1>3, <2>2, <2>3 DEF StarterProfile, WindowProfile, BotProfile
<1>4. CASE ClickConnect \/ ClickDisconnect \/ WindowRule
  <2>1. UNCHANGED <<starter, made, requests, replies>>
    BY <1>4 DEF ClickConnect, ClickDisconnect, WindowRule, client, session
  <2>2. UNCHANGED current
    BY <1>4 DEF ClickConnect, ClickDisconnect, WindowRule, client
  <2>3. frames' # <<>> /\ Head(frames') \notin {"made", "profile"}
    <3>1. \E label \in {"login", "disConnect", "send"} : frames' = <<label>> \o frames
      BY <1>4 DEF ClickConnect, ClickDisconnect, WindowRule, Push
    <3>. QED  BY <1>0, <3>1, Pushed DEF FrameLabels
  <2>. QED  BY <2>1, <2>2, <2>3 DEF Top
<1>5. CASE WindowFails \/ CloseBox
  <2>1. UNCHANGED <<starter, made, requests, replies, current>>
    BY <1>5 DEF WindowFails, CloseBox, client, session
  <2>2. current = None
    BY <1>0, <1>5, Innermost DEF WindowFails, CloseBox, Attempts, Top
  <2>. QED  BY <2>1, <2>2
<1>6. CASE WindowMade
  <2>1. UNCHANGED <<starter, made, requests, replies, current>> /\ Top("made")
    BY <1>6 DEF WindowMade, client
  <2>. QED  BY <2>1
<1>7. CASE Reset \/ ImageLoaded \/ WindowSends \/ CloseNotice
  <2>1. UNCHANGED <<starter, made, requests, replies, current>>
    BY <1>7 DEF Reset, ImageLoaded, WindowSends, CloseNotice, client, session
  <2>2. ~(frames' # <<>> /\ Head(frames') \in {"made", "profile"})
    BY <1>0, <1>7, Pops DEF Reset, ImageLoaded, WindowSends, CloseNotice, Top, Loops
  <2>. QED  BY <2>1, <2>2 DEF Top
<1>8. CASE TakeSignal
  <2>1. UNCHANGED <<starter, made, requests, replies, current>>
    BY <1>8 DEF TakeSignal, client, session
  <2>2. \/ UNCHANGED frames
        \/ frames' # <<>> /\ Head(frames') \in {"image", "notice"}
    <3>1. Head(queue) \in Signals
      BY <1>8, Takes DEF TakeSignal
    <3>2. UNCHANGED frames \/ \E label \in {"image", "notice"} : frames' = <<label>> \o frames
      BY <1>8, <3>1 DEF TakeSignal, Push, Signals
    <3>. QED  BY <1>0, <3>2, Pushed DEF FrameLabels, Loops
  <2>. QED  BY <2>1, <2>2 DEF Top
<1>9. ASSUME NEW n \in Connections, ThreadStep(n) \/ PeerEnds(n) \/ ThreadRule(n) \/ Error(n)
      PROVE  AskedOnce'
  <2>1. UNCHANGED <<starter, frames, made, requests, replies>>
    BY <1>9 DEF ThreadStep, Welcome, ThreadSends, NoticeEnd, ThreadShutdown, Lost, LostTold,
       Leave, PeerEnds, ThreadRule, Error, Shutdown, Client!End, Client!Tell,
       Client!PeerEnds, client, threads, session
  <2>2. current' = None \/ UNCHANGED current
    BY <1>9 DEF ThreadStep, Welcome, ThreadSends, NoticeEnd, ThreadShutdown, Lost, LostTold,
       Leave, PeerEnds, ThreadRule, Error, Shutdown, Client!End, Client!Tell,
       Client!PeerEnds, client
  <2>. QED  BY <2>1, <2>2 DEF Top
<1>10. ASSUME NEW n \in Connections, Login(n)
       PROVE  AskedOnce'
  <2>1. /\ UNCHANGED <<starter, frames, made, requests, current>>
        /\ replies[n] < requests[n]
        /\ replies' = [replies EXCEPT ![n] = replies[n] + 1]
    BY <1>10 DEF Login, client
  <2>. QED  BY <2>1 DEF Top
<1>11. CASE WindowShutdown
  BY <1>11, ShutsDown DEF Top, Loops, session
<1>. QED
  BY <1>1, <1>2, <1>3, <1>4, <1>5, <1>6, <1>7, <1>8, <1>9, <1>10, <1>11
     DEF Next, StarterStep, WindowStep, User, Mirai


\* A receive thread is answered while its connection is open: whoever shuts it down
\* has tested logined.
LEMMA AnsweredHere ==
  ASSUME TypeOK, AskedOnce, Answered, NEW n \in Connections, Login(n)
  PROVE  current = n /\ replies' = [replies EXCEPT ![n] = 1]
<1>1. replies[n] = 0 /\ replies' = [replies EXCEPT ![n] = replies[n] + 1]
  BY DEF TypeOK, AskedOnce, Login
<1>2. thread[n] \in Working
  BY DEF Login, Working
<1>. QED  BY <1>1, <1>2 DEF Answered

LEMMA AnsweredKept ==
  ASSUME TypeOK, Nested, Before, Attempts, OneThread, AskedOnce, Answered, Next
  PROVE  Answered'
<1>. USE DEF TypeOK
<1>0. frames \in Seq(FrameLabels)
  OBVIOUS
<1>1. ASSUME NEW n \in Connections, StarterConnects(n) \/ WindowConnects(n)
      PROVE  Answered'
  <2>1. /\ current' = n /\ thread' = [thread EXCEPT ![n] = "reading"]
        /\ UNCHANGED <<logined, replies>>
    BY <1>1 DEF StarterConnects, WindowConnects, Client!Open, Goes, session
  <2>2. ~logined /\ Idle
    BY <1>1 DEF StarterConnects, WindowConnects, Before, Attempts, OneThread, Idle, Dead
  <2>3. ~(frames' # <<>> /\ Head(frames') \in {"send", "disConnect"})
    <3>1. CASE StarterConnects(n)
      BY <3>1 DEF StarterConnects, Before
    <3>2. CASE WindowConnects(n)
      BY <1>0, <3>2, Becomes DEF WindowConnects, Top, FrameLabels
    <3>. QED  BY <1>1, <3>1, <3>2
  <2>. QED  BY <2>1, <2>2, <2>3 DEF Answered, Idle, Working, Dead, Top
<1>2. CASE StarterFails \/ StarterMade \/ StarterProfile
  <2>1. UNCHANGED <<current, thread, frames, logined, replies>>
    BY <1>2 DEF StarterFails, StarterMade, StarterProfile, client, session
  <2>. QED  BY <2>1 DEF Answered, Top
<1>3. CASE ClickConnect \/ CloseBox \/ WindowFails \/ WindowMade
  <2>1. UNCHANGED <<current, thread, logined, replies>>
    BY <1>3 DEF ClickConnect, CloseBox, WindowFails, WindowMade, client, session
  <2>2. frames' # <<>> /\ Head(frames') \notin {"send", "disConnect"}
    <3>1. CASE ClickConnect
      BY <1>0, <3>1, Pushed DEF ClickConnect, Push, FrameLabels
    <3>2. CASE CloseBox \/ WindowFails \/ WindowMade
      BY <1>0, <3>2, Becomes
         DEF CloseBox, WindowFails, WindowMade, Top, FrameLabels, Loops
    <3>. QED  BY <1>3, <3>1, <3>2
  <2>. QED  BY <2>1, <2>2 DEF Answered, Top
<1>4. CASE WindowShutdown
  <2>1. current # None => replies[current] = 1
    BY <1>4 DEF WindowShutdown, Top, Answered
  <2>. QED  BY <1>4, <2>1, ShutsDown DEF Answered, Top, Loops, session
<1>5. CASE WindowProfile \/ Reset \/ ImageLoaded \/ WindowSends \/ CloseNotice
  <2>1. UNCHANGED <<current, thread, replies>> /\ (logined' => logined)
    BY <1>5 DEF WindowProfile, Reset, ImageLoaded, WindowSends, CloseNotice, client, session
  <2>2. ~(frames' # <<>> /\ Head(frames') \in {"send", "disConnect"})
    BY <1>0, <1>5, Pops
       DEF WindowProfile, Reset, ImageLoaded, WindowSends, CloseNotice, Top, Loops
  <2>. QED  BY <2>1, <2>2 DEF Answered, Top
<1>6. CASE TakeSignal
  <2>1. UNCHANGED <<current, thread, logined, replies>>
    BY <1>6 DEF TakeSignal, client, session
  <2>2. \/ UNCHANGED frames
        \/ frames' # <<>> /\ Head(frames') \in {"image", "notice"}
    <3>1. Head(queue) \in Signals
      BY <1>6, Takes DEF TakeSignal
    <3>2. UNCHANGED frames \/ \E label \in {"image", "notice"} : frames' = <<label>> \o frames
      BY <1>6, <3>1 DEF TakeSignal, Push, Signals
    <3>. QED  BY <1>0, <3>2, Pushed DEF FrameLabels, Loops
  <2>. QED  BY <2>1, <2>2 DEF Answered, Top
<1>7. CASE WindowRule \/ ClickDisconnect
  <2>1. UNCHANGED <<current, thread, logined, replies>> /\ logined
    BY <1>7 DEF WindowRule, ClickDisconnect, client, session
  <2>. QED  BY <2>1 DEF Answered
<1>8. ASSUME NEW n \in Connections, Login(n)
      PROVE  Answered'
  <2>1. /\ current = n /\ replies' = [replies EXCEPT ![n] = 1]
        /\ thread' = [thread EXCEPT ![n] = "welcome"] /\ thread[n] = "reading"
        /\ UNCHANGED <<current, frames>>
    BY <1>8, AnsweredHere DEF Login, Goes, client
  <2>. QED  BY <2>1 DEF Answered, Top, Working
<1>9. ASSUME NEW n \in Connections,
             Welcome(n) \/ ThreadSends(n) \/ NoticeEnd(n) \/ PeerEnds(n) \/ Error(n)
      PROVE  Answered'
  <2>1. UNCHANGED <<current, frames, replies>> /\ (logined' => logined)
    BY <1>9 DEF Welcome, ThreadSends, NoticeEnd, PeerEnds, Client!PeerEnds, Error, client,
       session, threads
  <2>2. \A m \in Connections :
           /\ thread'[m] \in Working => thread[m] \in Working
           /\ thread'[m] = "send" => thread[m] = "send"
    BY <1>9 DEF Welcome, ThreadSends, NoticeEnd, PeerEnds, Error, Goes, threads, Working
  <2>. QED  BY <2>1, <2>2 DEF Answered, Top
<1>10. ASSUME NEW n \in Connections, ThreadRule(n)
       PROVE  Answered'
  <2>1. /\ UNCHANGED <<current, frames, replies, logined>> /\ logined
        /\ thread' = [thread EXCEPT ![n] = "send"] /\ thread[n] = "reading"
    BY <1>10 DEF ThreadRule, Goes, client, session
  <2>2. replies[n] = 1
    BY <2>1, NoneAssumption DEF Answered, Working
  <2>. QED  BY <2>1, <2>2 DEF Answered, Top, Working
<1>11. ASSUME NEW n \in Connections, ThreadShutdown(n) \/ Lost(n) \/ LostTold(n) \/ Leave(n)
       PROVE  Answered'
  <2>1. /\ UNCHANGED <<frames, replies>> /\ (logined' => logined)
        /\ thread[n] \notin Dead
        /\ \E label \in {"lost", "clear", "done"} : thread' = [thread EXCEPT ![n] = label]
        /\ current' = None \/ UNCHANGED current
    BY <1>11 DEF ThreadShutdown, Shutdown, Client!End, Lost, Client!Tell, LostTold, Leave, Goes,
       Dead, client, session
  <2>2. \A m \in Connections :
           /\ m # n /\ thread[m] \in Working => current' = current \/ thread[m] \in Dead
           /\ thread'[m] \in Working => m # n /\ thread[m] \in Working
    BY <2>1 DEF OneThread, Working, Dead
  <2>3. \A m \in Connections : thread'[m] \in Working => UNCHANGED current
    BY <2>2 DEF Working, Dead
  <2>4. \A m \in Connections : thread'[m] = "send" => thread[m] = "send"
    BY <2>1
  <2>. QED  BY <2>1, <2>2, <2>3, <2>4 DEF Answered, Top
<1>. QED
  BY <1>1, <1>2, <1>3, <1>4, <1>5, <1>6, <1>7, <1>8, <1>9, <1>10, <1>11
     DEF Next, StarterStep, WindowStep, User, ThreadStep, Mirai

LEMMA LoggedKept ==
  ASSUME TypeOK, Nested, Before, Attempts, OneThread, AskedOnce, Answered, Logged, Next
  PROVE  Logged'
<1>. USE DEF TypeOK
<1>0. frames \in Seq(FrameLabels)
  OBVIOUS
<1>1. ASSUME NEW n \in Connections, StarterConnects(n) \/ WindowConnects(n) \/ Login(n)
      PROVE  Logged'
  <2>1. current' = n
    BY <1>1, AnsweredHere DEF StarterConnects, WindowConnects, Client!Open, Login, client
  <2>. QED  BY <2>1, NoneAssumption DEF Logged
<1>2. CASE StarterFails \/ StarterMade \/ StarterProfile
  <2>1. UNCHANGED <<current, thread, frames, logined>>
    BY <1>2 DEF StarterFails, StarterMade, StarterProfile, client, session
  <2>. QED  BY <2>1 DEF Logged, Stack
<1>3. CASE CloseBox \/ WindowFails \/ WindowMade
  <2>1. UNCHANGED <<current, thread, logined>>
    BY <1>3 DEF CloseBox, WindowFails, WindowMade, client, session
  <2>2. "reset" \in Stack => "reset" \in Stack'
    BY <1>0, <1>3, Becomes DEF CloseBox, WindowFails, WindowMade, Top, FrameLabels, Loops
  <2>. QED  BY <2>1, <2>2 DEF Logged
<1>4. CASE WindowShutdown
  BY <1>4, ShutsDown DEF Logged, session
<1>5. CASE Reset
  BY <1>5 DEF Reset, Logged
<1>6. CASE WindowProfile \/ ImageLoaded \/ WindowSends \/ CloseNotice
  <2>1. UNCHANGED <<current, thread, logined>>
    BY <1>6 DEF WindowProfile, ImageLoaded, WindowSends, CloseNotice, client, session
  <2>2. "reset" \in Stack => "reset" \in Stack'
    BY <1>0, <1>6, Pops DEF WindowProfile, ImageLoaded, WindowSends, CloseNotice, Top
  <2>. QED  BY <2>1, <2>2 DEF Logged
<1>7. CASE ClickConnect
  BY <1>7 DEF ClickConnect, Logged, session
<1>8. CASE TakeSignal \/ WindowRule \/ ClickDisconnect
  <2>1. UNCHANGED <<current, thread, logined>> /\ TakesEvents
    <3>1. ClickDisconnect /\ frames # <<>> => Head(frames) = "image"
      BY <1>0, Popped DEF ClickDisconnect, TakesInput
    <3>. QED
      BY <1>8, <3>1
         DEF TakeSignal, WindowRule, ClickDisconnect, TakesEvents, Top, Loops, client, session
  <2>2. \/ UNCHANGED frames
        \/ \E label \in {"image", "notice", "send", "disConnect"} : Push(label)
    <3>1. CASE TakeSignal
      <4>1. Head(queue) \in Signals
        BY <3>1, Takes DEF TakeSignal
      <4>. QED  BY <3>1, <4>1 DEF TakeSignal, Push, Signals
    <3>. QED  BY <1>8, <3>1 DEF WindowRule, ClickDisconnect
  <2>3. "reset" \in Stack => "reset" \in Stack'
    BY <1>0, <2>1, <2>2, Pushes, Rest DEF FrameLabels, Loops
  <2>. QED  BY <2>1, <2>3 DEF Logged
<1>9. ASSUME NEW n \in Connections,
             \/ Welcome(n) \/ ThreadSends(n) \/ NoticeEnd(n) \/ PeerEnds(n) \/ Error(n)
             \/ ThreadRule(n) \/ LostTold(n) \/ Leave(n)
      PROVE  Logged'
  <2>1. UNCHANGED <<current, frames>> /\ (logined' => logined)
    BY <1>9 DEF Welcome, ThreadSends, NoticeEnd, PeerEnds, Client!PeerEnds, Error, ThreadRule,
       LostTold, Leave, client, session, threads
  <2>2. \A m \in Connections : thread[m] = "lost" => thread'[m] = "lost"
    BY <1>9 DEF Welcome, ThreadSends, NoticeEnd, PeerEnds, Error, ThreadRule, LostTold, Leave,
       Goes, threads
  <2>. QED  BY <2>1, <2>2 DEF Logged, Stack
<1>10. ASSUME NEW n \in Connections, ThreadShutdown(n)
       PROVE  Logged'
  <2>1. thread'[n] = "lost"
    BY <1>10 DEF ThreadShutdown, Goes
  <2>. QED  BY <2>1 DEF Logged
<1>11. ASSUME NEW n \in Connections, Lost(n)
       PROVE  Logged'
  BY <1>11 DEF Lost, Logged
<1>. QED
  BY <1>1, <1>2, <1>3, <1>4, <1>5, <1>6, <1>7, <1>8, <1>9, <1>10, <1>11
     DEF Next, StarterStep, WindowStep, User, ThreadStep, Mirai

-----------------------------------------------------------------------------
(* What the window shows *)

LEMMA NothingLeftKept ==
  ASSUME TypeOK, Nested, Before, Attempts, OneThread, NothingLeft, Next
  PROVE  NothingLeft'
<1>. USE DEF TypeOK
<1>1. ASSUME NEW n \in Connections, StarterConnects(n) \/ WindowConnects(n)
      PROVE  NothingLeft'
  <2>1. queue' = <<>>
    BY <1>1 DEF StarterConnects, WindowConnects, Before, Attempts
  <2>2. Pending' = {}
    BY <2>1 DEF Pending
  <2>. QED  BY <2>2 DEF NothingLeft
<1>2. CASE StarterFails
  BY <1>2 DEF StarterFails, Before, NothingLeft, client
<1>3. CASE StarterMade
  <2>1. Pending' = Pending \cup {"time"} /\ UNCHANGED current
    BY <1>3, Appends DEF StarterMade, Signals, client
  <2>. QED  BY <2>1 DEF NothingLeft
<1>4. CASE \/ StarterProfile \/ WindowFails \/ WindowMade \/ WindowProfile \/ Reset
           \/ ImageLoaded \/ WindowSends \/ ClickConnect \/ CloseBox \/ CloseNotice
           \/ WindowRule
  <2>1. UNCHANGED <<queue, current>>
    BY <1>4 DEF StarterProfile, WindowFails, WindowMade, WindowProfile, Reset, ImageLoaded,
       WindowSends, ClickConnect, CloseBox, CloseNotice, WindowRule, client
  <2>. QED  BY <2>1 DEF NothingLeft, Pending
<1>5. CASE ClickDisconnect \/ WindowShutdown
  BY <1>5, ShutsDown DEF ClickDisconnect, client, NothingLeft, Pending
<1>6. CASE TakeSignal
  <2>1. Pending' \subseteq Pending /\ UNCHANGED current
    BY <1>6, Takes DEF TakeSignal, client
  <2>. QED  BY <2>1 DEF NothingLeft
<1>7. ASSUME NEW n \in Connections, Welcome(n)
      PROVE  NothingLeft'
  <2>1. Pending' = Pending \cup {"user"} /\ UNCHANGED current
    BY <1>7, Appends DEF Welcome, Signals, client
  <2>. QED  BY <2>1 DEF NothingLeft
<1>8. ASSUME NEW n \in Connections, LostTold(n)
      PROVE  NothingLeft'
  <2>1. current = None
    BY <1>8 DEF LostTold, OneThread, Working, Dead
  <2>. QED  BY <1>8, <2>1 DEF LostTold, NothingLeft, client
<1>9. ASSUME NEW n \in Connections,
             ThreadSends(n) \/ NoticeEnd(n) \/ ThreadShutdown(n) \/ Lost(n) \/ Leave(n) \/ Mirai(n)
      PROVE  NothingLeft'
  <2>1. UNCHANGED queue /\ (current' = None \/ UNCHANGED current)
    BY <1>9 DEF ThreadSends, NoticeEnd, ThreadShutdown, Shutdown, Client!End, Lost, Client!Tell,
       Leave, Mirai, PeerEnds, Client!PeerEnds, Login, ThreadRule, Error, client, threads
  <2>. QED  BY <2>1 DEF NothingLeft, Pending
<1>. QED
  BY <1>1, <1>2, <1>3, <1>4, <1>5, <1>6, <1>7, <1>8, <1>9
     DEF Next, StarterStep, WindowStep, User, ThreadStep

LEMMA TimeKept ==
  ASSUME TypeOK, Nested, Before, Attempts, OneThread, NothingLeft, TimeIsSet, Next
  PROVE  TimeIsSet'
<1>. USE DEF TypeOK
<1>0. frames \in Seq(FrameLabels)
  OBVIOUS
<1>1. ASSUME NEW n \in Connections, StarterConnects(n) \/ WindowConnects(n)
      PROVE  TimeIsSet'
  <2>1. starter' = "made" \/ (frames' # <<>> /\ Head(frames') = "made")
    BY <1>0, <1>1, Becomes DEF StarterConnects, WindowConnects, Top, FrameLabels
  <2>. QED  BY <2>1 DEF TimeIsSet, Top
<1>2. CASE StarterFails
  BY <1>2 DEF StarterFails, Before, TimeIsSet, client
<1>3. CASE StarterMade
  <2>1. Pending' = Pending \cup {"time"}
    BY <1>3, Appends DEF StarterMade, Signals
  <2>. QED  BY <2>1 DEF TimeIsSet
<1>4. CASE StarterProfile
  <2>1. UNCHANGED <<current, frames, queue, mGetTime>> /\ starter = "profile"
    BY <1>4 DEF StarterProfile, client, window
  <2>. QED  BY <2>1 DEF TimeIsSet, Top, Pending
<1>5. CASE WindowFails \/ CloseBox \/ Reset
  <2>1. UNCHANGED current
    BY <1>5 DEF WindowFails, CloseBox, Reset, client
  <2>2. current = None
    BY <1>0, <1>5, Innermost DEF WindowFails, CloseBox, Reset, Attempts, Top
  <2>. QED  BY <2>1, <2>2 DEF TimeIsSet
<1>6. CASE WindowMade
  BY <1>6 DEF WindowMade, TimeIsSet
<1>7. CASE WindowProfile \/ ImageLoaded \/ WindowSends \/ CloseNotice
  <2>1. UNCHANGED <<current, starter, queue, mGetTime>>
    BY <1>7 DEF WindowProfile, ImageLoaded, WindowSends, CloseNotice, client, window
  <2>2. ~Top("made")
    BY <1>7 DEF WindowProfile, ImageLoaded, WindowSends, CloseNotice, Top
  <2>. QED  BY <2>1, <2>2 DEF TimeIsSet, Pending
<1>8. CASE ClickConnect \/ WindowRule \/ ClickDisconnect
  <2>1. UNCHANGED <<current, starter, queue, mGetTime>>
    BY <1>8 DEF ClickConnect, WindowRule, ClickDisconnect, client, window
  <2>2. current = None \/ ~Top("made")
    <3>1. ClickDisconnect /\ frames # <<>> => Head(frames) = "image"
      BY <1>0, Popped DEF ClickDisconnect, TakesInput
    <3>. QED
      BY <1>8, <3>1 DEF ClickConnect, MayConnect, WindowRule, TakesEvents, Top, Loops
  <2>. QED  BY <2>1, <2>2 DEF TimeIsSet, Pending
<1>9. CASE WindowShutdown
  BY <1>9, ShutsDown DEF TimeIsSet, Top, Pending, window
<1>10. CASE TakeSignal
  <2>1. /\ Pending \subseteq Pending' \cup {Head(queue)} /\ Head(queue) \in Pending
        /\ Head(queue) \in Signals
        /\ UNCHANGED <<current, starter>>
    BY <1>10, Takes DEF TakeSignal, client
  <2>2. ~Top("made")
    BY <1>10 DEF TakeSignal, TakesEvents, Top, Loops
  <2>3. Head(queue) \in {"time", "zero"} => mGetTime' = Head(queue)
    BY <1>10 DEF TakeSignal
  <2>4. Head(queue) \notin {"time", "zero"} => UNCHANGED mGetTime
    BY <1>10, <2>1 DEF TakeSignal, Signals, window
  <2>. QED  BY <2>1, <2>2, <2>3, <2>4 DEF TimeIsSet, NothingLeft
<1>11. ASSUME NEW n \in Connections, Welcome(n) \/ LostTold(n)
       PROVE  TimeIsSet'
  <2>1. UNCHANGED <<current, starter, frames, mGetTime>> /\ Pending \subseteq Pending'
    BY <1>11, Appends, AppendsTwo DEF Welcome, LostTold, Signals, client, window
  <2>. QED  BY <2>1 DEF TimeIsSet, Top
<1>12. ASSUME NEW n \in Connections,
              ThreadSends(n) \/ NoticeEnd(n) \/ ThreadShutdown(n) \/ Lost(n) \/ Leave(n) \/ Mirai(n)
       PROVE  TimeIsSet'
  <2>1. UNCHANGED <<starter, frames, queue, mGetTime>>
    BY <1>12 DEF ThreadSends, NoticeEnd, ThreadShutdown, Lost, Leave, Mirai, PeerEnds, Login,
       ThreadRule, Error, threads, window
  <2>2. current' = None \/ UNCHANGED current
    BY <1>12 DEF ThreadSends, NoticeEnd, ThreadShutdown, Shutdown, Client!End, Lost, Client!Tell,
       Leave, Mirai, PeerEnds, Client!PeerEnds, Login, ThreadRule, Error, client
  <2>. QED  BY <2>1, <2>2 DEF TimeIsSet, Top, Pending
<1>. QED
  BY <1>1, <1>2, <1>3, <1>4, <1>5, <1>6, <1>7, <1>8, <1>9, <1>10, <1>11, <1>12
     DEF Next, StarterStep, WindowStep, User, ThreadStep

LEMMA UserKept ==
  ASSUME TypeOK, Nested, Before, Attempts, OneThread, AskedOnce, Answered, NothingLeft,
         UserIsSet, Next
  PROVE  UserIsSet'
<1>. USE DEF TypeOK
<1>0. frames \in Seq(FrameLabels)
  OBVIOUS
<1>1. ASSUME NEW n \in Connections, StarterConnects(n) \/ WindowConnects(n)
      PROVE  UserIsSet'
  BY <1>1 DEF StarterConnects, WindowConnects, Before, Attempts, UserIsSet, session
<1>2. CASE StarterFails \/ StarterMade \/ StarterProfile
  <2>1. UNCHANGED <<current, logined, thread, frames, panel>> /\ Pending \subseteq Pending'
    BY <1>2, Appends, AppendsTwo
       DEF StarterFails, StarterMade, StarterProfile, Signals, client, session, window, Pending
  <2>. QED  BY <2>1 DEF UserIsSet, Stack
<1>3. CASE WindowFails \/ CloseBox \/ WindowMade \/ WindowProfile \/ WindowSends \/ CloseNotice
  <2>1. UNCHANGED <<current, logined, thread, queue, panel>>
    BY <1>3 DEF WindowFails, CloseBox, WindowMade, WindowProfile, WindowSends, CloseNotice,
       client, session, window
  <2>2. CASE WindowFails \/ CloseBox \/ WindowMade
    <3>1. "image" \in Stack => "image" \in Stack'
      BY <1>0, <2>2, Becomes DEF WindowFails, CloseBox, WindowMade, Top, FrameLabels, Loops
    <3>. QED  BY <2>1, <3>1 DEF UserIsSet, Pending
  <2>3. CASE WindowProfile \/ WindowSends \/ CloseNotice
    <3>1. "image" \in Stack => "image" \in Stack'
      BY <1>0, <2>3, Pops DEF WindowProfile, WindowSends, CloseNotice, Top
    <3>. QED  BY <2>1, <3>1 DEF UserIsSet, Pending
  <2>. QED  BY <1>3, <2>2, <2>3
<1>4. CASE Reset
  BY <1>4 DEF Reset, UserIsSet
<1>5. CASE ImageLoaded
  BY <1>5 DEF ImageLoaded, UserIsSet
<1>6. CASE ClickConnect
  BY <1>6 DEF ClickConnect, UserIsSet, session
<1>7. CASE WindowShutdown
  BY <1>7, ShutsDown, NoneAssumption DEF UserIsSet, Pending, session, window
<1>8. CASE WindowRule \/ ClickDisconnect
  <2>1. UNCHANGED <<current, logined, thread, queue, panel>>
    BY <1>8 DEF WindowRule, ClickDisconnect, client, session, window
  <2>2. Stack \subseteq Stack'
    <3>1. ClickDisconnect /\ frames # <<>> => Head(frames) = "image"
      BY <1>0, Popped DEF ClickDisconnect, TakesInput
    <3>2. TakesEvents
      BY <1>8, <3>1 DEF WindowRule, ClickDisconnect, TakesEvents, Top, Loops
    <3>. QED  BY <1>0, <1>8, <3>2, Pushes DEF WindowRule, ClickDisconnect, FrameLabels
  <2>. QED  BY <2>1, <2>2 DEF UserIsSet, Pending
<1>9. CASE TakeSignal
  <2>1. /\ Pending \subseteq Pending' \cup {Head(queue)} /\ Head(queue) \in Pending
        /\ Head(queue) \in Signals
        /\ UNCHANGED <<current, logined, thread>>
    BY <1>9, Takes DEF TakeSignal, client, session
  <2>2. CASE Head(queue) = "user"
    <3>1. TakesEvents /\ Push("image")
      BY <1>9, <2>2 DEF TakeSignal
    <3>2. "image" \in Stack'
      BY <1>0, <3>1, Pushes DEF FrameLabels, Loops
    <3>. QED  BY <3>2 DEF UserIsSet
  <2>3. CASE Head(queue) = "noUser"
    BY <2>1, <2>3 DEF UserIsSet, NothingLeft
  <2>4. CASE Head(queue) \in {"time", "zero", "notice"}
    <3>1. TakesEvents /\ UNCHANGED panel /\ (UNCHANGED frames \/ Push("notice"))
      BY <1>9, <2>4 DEF TakeSignal, Push, window
    <3>2. Stack \subseteq Stack'
      BY <1>0, <3>1, Pushes, Rest DEF FrameLabels, Loops
    <3>. QED  BY <2>1, <2>4, <3>1, <3>2 DEF UserIsSet
  <2>. QED  BY <2>1, <2>2, <2>3, <2>4 DEF Signals
<1>10. ASSUME NEW n \in Connections, Login(n)
       PROVE  UserIsSet'
  <2>1. current' = n /\ thread'[n] = "welcome"
    BY <1>10, AnsweredHere DEF Login, Goes, client
  <2>. QED  BY <2>1 DEF UserIsSet
<1>11. ASSUME NEW n \in Connections, Welcome(n)
       PROVE  UserIsSet'
  <2>1. "user" \in Pending'
    BY <1>11, Appends DEF Welcome, Signals
  <2>. QED  BY <2>1 DEF UserIsSet
<1>12. ASSUME NEW n \in Connections,
              \/ ThreadSends(n) \/ NoticeEnd(n) \/ Leave(n) \/ ThreadRule(n)
              \/ PeerEnds(n) \/ Error(n)
       PROVE  UserIsSet'
  <2>1. UNCHANGED <<frames, queue, current, panel>> /\ (logined' => logined)
    BY <1>12 DEF ThreadSends, NoticeEnd, Leave, ThreadRule, PeerEnds, Client!PeerEnds, Error,
       client, threads, session, window
  <2>2. \A m \in Connections : thread[m] = "welcome" => thread'[m] = "welcome"
    BY <1>12 DEF ThreadSends, NoticeEnd, Leave, ThreadRule, PeerEnds, Error, Goes, threads
  <2>. QED  BY <2>1, <2>2 DEF UserIsSet, Stack, Pending
<1>13. ASSUME NEW n \in Connections, ThreadShutdown(n) \/ Lost(n) \/ LostTold(n)
       PROVE  UserIsSet'
  <2>1. current' = None
    BY <1>13 DEF ThreadShutdown, Shutdown, Client!End, Lost, Client!Tell, LostTold, client,
       OneThread, Working, Dead
  <2>. QED  BY <2>1 DEF UserIsSet
<1>. QED
  BY <1>1, <1>2, <1>3, <1>4, <1>5, <1>6, <1>7, <1>8, <1>9, <1>10, <1>11, <1>12, <1>13
     DEF Next, StarterStep, WindowStep, User, ThreadStep, Mirai

-----------------------------------------------------------------------------
(* The theorems *)

LEMMA Starts == Init => IInv
<1>. SUFFICES ASSUME Init
              PROVE  IInv
  OBVIOUS
<1>1. TypeOK
  <2>1. frames \in Seq(FrameLabels) /\ queue \in Seq(Signals)
    BY DEF Init
  <2>2. thread \in [Connections -> ThreadLabels]
    BY DEF Init, ThreadLabels
  <2>3. requests \in [Connections -> Nat] /\ replies \in [Connections -> Nat]
    BY DEF Init
  <2>. QED  BY <2>1, <2>2, <2>3 DEF Init, Client!Init, TypeOK, StarterLabels
<1>2. Stack = {} /\ Pending = {}
  BY DEF Init, Stack, Pending
<1>3. Nested /\ Before /\ Attempts
  BY <1>2 DEF Init, Client!Init, Nested, Before, Attempts, Top
<1>4. OneThread /\ AskedOnce /\ Answered /\ Logged
  BY <1>2 DEF Init, Client!Init, OneThread, AskedOnce, Answered, Logged, Top, Working, Dead
<1>5. NothingLeft /\ TimeIsSet /\ UserIsSet
  BY DEF Init, Client!Init, NothingLeft, TimeIsSet, UserIsSet
<1>. QED  BY <1>1, <1>3, <1>4, <1>5 DEF IInv

LEMMA Steps == IInv /\ [Next]_vars => IInv'
<1>. SUFFICES ASSUME IInv, [Next]_vars
              PROVE  IInv'
  OBVIOUS
<1>1. CASE Next
  <2>1. TypeOK'
    BY <1>1, Typed DEF IInv
  <2>2. Nested'
    BY <1>1, Stacked DEF IInv
  <2>3. Before'
    BY <1>1, Settles DEF IInv
  <2>4. Attempts'
    BY <1>1, Attempted DEF IInv
  <2>5. OneThread'
    BY <1>1, OneThreadKept DEF IInv
  <2>6. AskedOnce'
    BY <1>1, AskedOnceKept DEF IInv
  <2>7. Answered'
    BY <1>1, AnsweredKept DEF IInv
  <2>8. Logged'
    BY <1>1, LoggedKept DEF IInv
  <2>9. NothingLeft' /\ TimeIsSet' /\ UserIsSet'
    BY <1>1, NothingLeftKept, TimeKept, UserKept DEF IInv
  <2>. QED  BY <2>1, <2>2, <2>3, <2>4, <2>5, <2>6, <2>7, <2>8, <2>9 DEF IInv
<1>2. CASE UNCHANGED vars
  BY <1>2 DEF vars, client, threads, session, window, IInv, TypeOK, Nested, Before, Attempts,
     OneThread, AskedOnce, Answered, Logged, NothingLeft, TimeIsSet, UserIsSet, Top, Idle,
     Stack, Pending
<1>. QED  BY <1>1, <1>2

\* The invariant that the theorems below rest on.
THEOREM Invariance == Spec => []IInv
BY Starts, Steps, PTL DEF Spec

\* Every variable keeps its type.
THEOREM TypeCorrect == Spec => []TypeOK
<1>1. IInv => TypeOK
  BY DEF IInv
<1>. QED  BY <1>1, Invariance, PTL

\* Whoever ends a connection, the button disConnect, its receive thread or both,
\* logined does not stay behind (shutdown and onLost in ws_client.cpp).
THEOREM LoginEnds == Spec => []LoginIsLive
<1>1. IInv => LoginIsLive
  BY DEF IInv, TypeOK, Logged, LoginIsLive, InReset, Stack
<1>. QED  BY <1>1, Invariance, PTL

\* A rule that tested logined sends on a connection that has answered the login, or on
\* none, whatever was clicked, lost or connected in between (sendGroupMsg).
THEOREM SendsAnswered == Spec => []SendsAreLoggedIn
<1>1. IInv => SendsAreLoggedIn
  <2>. SUFFICES ASSUME IInv, current # None,
                       Top("send") \/ \E n \in Connections : thread[n] = "send"
                PROVE  replies[current] = 1
    BY DEF SendsAreLoggedIn
  <2>1. current \in Connections /\ thread[current] \notin Dead
    BY DEF IInv, TypeOK, OneThread, Working, Dead
  <2>2. \A n \in Connections : thread[n] = "send" => n = current
    BY <2>1 DEF IInv, OneThread, Dead
  <2>. QED  BY <2>2 DEF IInv, Answered
<1>. QED  BY <1>1, Invariance, PTL

\* The connection time runs for every open connection, whatever an earlier one has
\* posted to the window (Mirai::connect, onLost, slotConnected).
THEOREM TimeRuns == Spec => []TimeTells
<1>1. Quiet => Pending = {} /\ Stack = {} /\ ~Top("made") /\ starter = "done"
  BY DEF Quiet, Pending, Stack, Top
<1>2. IInv => TimeTells
  BY <1>1 DEF IInv, TimeIsSet, TimeTells
<1>. QED  BY <1>2, Invariance, PTL

\* The panel shows the user while he is logged in (onText, onLost, setUserImage).
THEOREM PanelTells == Spec => []PanelShows
<1>1. Quiet => /\ Pending = {} /\ Stack = {}
               /\ \A n \in Connections : thread[n] \notin {"lost", "welcome"}
  BY DEF Quiet, Pending, Stack
<1>2. IInv /\ Quiet /\ logined => current \in Connections
  BY <1>1 DEF IInv, Logged, TypeOK
<1>3. IInv => PanelShows
  BY <1>1, <1>2, NoneAssumption DEF IInv, UserIsSet, PanelShows
<1>. QED  BY <1>3, Invariance, PTL

=============================================================================
