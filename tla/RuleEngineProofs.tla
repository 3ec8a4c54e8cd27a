-------------------------- MODULE RuleEngineProofs --------------------------
(***************************************************************************)
(* Proofs about RuleEngine, for any rules, events, texts and number of     *)
(* messages.                                                               *)
(*                                                                         *)
(* A command of a chat rule lies at the very bottom of the stack of        *)
(* handlers (Bottom), as the event loop takes a signal only when the stack *)
(* is empty.  So at most one such command is between queue and server, and *)
(* what was taken, what lies on the stack, what waits and the rule the     *)
(* receive thread is at follow each other (InOrder).  Commands come from   *)
(* rules it has passed (Sound), so that a new one goes behind them all.    *)
(*                                                                         *)
(* The inductive invariant is Shape (types, the stack, the receive thread)  *)
(* together with Ordered (the order, and that nothing is lost).  It holds  *)
(* for any event.yml, also for one with a circle.                          *)
(*                                                                         *)
(* That cascades are bounded is a measure: fuel, the steps a handler takes *)
(* with all that it calls.  Only here RanksAssumption is used: events that *)
(* raise only events of lower rank have enough of it (AllowanceExists, by  *)
(* induction over ranks), and each step of a handler burns some            *)
(* (HandlerBurns).                                                         *)
(***************************************************************************)
EXTENDS RuleEngine, SequenceTheorems, WellFoundedInduction, TLAPS

ChatWrite(f) == f.at = "write" /\ f.cause # Other

Bottom(stack) ==
    \A k \in 1..Len(stack) :
        stack[k].at = "line" \/ ChatWrite(stack[k]) => k = Len(stack)

\* A command is on the stack, or in the queue.
Carried(c) == \E k \in 1..Len(frames) : frames[k] = WriteFrame(c)
Queued(c) == \E k \in 1..Len(queue) : queue[k] = Command(c)

StackInv == Bottom(frames)

InOrder ==
    /\ CommandsInOrder
    /\ \A a \in 1..Len(written), c \in Causes :
          Carried(c) \/ Queued(c) => Before(written[a], c)
    /\ \A c, d \in Causes : Carried(c) /\ Queued(d) => Before(c, d)
    /\ \A j, k \in 1..Len(queue) : \A c, d \in Causes :
          j < k /\ queue[j] = Command(c) /\ queue[k] = Command(d) => Before(c, d)

\* Commands come from rules the receive thread has passed.
Sound ==
    \A c \in Causes :
        Carried(c) \/ Queued(c) \/ Reached(c) => Asked(c[1], c[2]) /\ Passed(c[1], c[2])

ReaderInv == pos # 0 => heard # <<>>

-----------------------------------------------------------------------------
(* Stacks *)

LEMMA Spliced ==
    ASSUME NEW S, NEW top \in Seq(S), NEW s \in Seq(S), s # <<>>
    PROVE  /\ top \o Tail(s) \in Seq(S)
           /\ Len(top \o Tail(s)) = Len(top) + Len(s) - 1
           /\ \A i \in 1..Len(top) : (top \o Tail(s))[i] = top[i]
           /\ \A k \in 2..Len(s) : (top \o Tail(s))[Len(top) + k - 1] = s[k]
           /\ \A i \in 1..Len(top \o Tail(s)) :
                 \/ i \in 1..Len(top) /\ (top \o Tail(s))[i] = top[i]
                 \/ \E k \in 2..Len(s) : /\ i = Len(top) + k - 1
                                         /\ (top \o Tail(s))[i] = s[k]
<1>1. /\ Tail(s) \in Seq(S) /\ Len(Tail(s)) = Len(s) - 1 /\ Len(s) \in Nat \ {0}
      /\ \A i \in 1..Len(Tail(s)) : Tail(s)[i] = s[i + 1]
  BY HeadTailProperties, EmptySeq, LenProperties
<1> DEFINE t == Tail(s)
           n == top \o t
<1>2. t \in Seq(S) /\ Len(t) = Len(s) - 1 /\ \A i \in 1..Len(t) : t[i] = s[i + 1]
  BY <1>1
<1> HIDE DEF t
<1>3. /\ n \in Seq(S) /\ Len(n) = Len(top) + Len(t) /\ Len(top) \in Nat
      /\ \A i \in 1..(Len(top) + Len(t)) :
            n[i] = IF i <= Len(top) THEN top[i] ELSE t[i - Len(top)]
  BY <1>2, ConcatProperties, LenProperties
<1> HIDE DEF n
<1>4. Len(n) = Len(top) + Len(s) - 1
  BY <1>1, <1>2, <1>3
<1>5. \A i \in 1..Len(top) : n[i] = top[i]
  BY <1>1, <1>2, <1>3
<1>6. \A k \in 2..Len(s) : n[Len(top) + k - 1] = s[k]
  <2>1. TAKE k \in 2..Len(s)
  <2>2. /\ Len(top) + k - 1 \in 1..(Len(top) + Len(t))
        /\ ~(Len(top) + k - 1 <= Len(top))
        /\ Len(top) + k - 1 - Len(top) = k - 1 /\ k - 1 \in 1..Len(t)
    <3>1. Len(s) \in Nat /\ Len(top) \in Nat /\ Len(t) = Len(s) - 1
      BY <1>1, <1>2, <1>3
    <3> DEFINE a == Len(top)
               b == Len(s)
               c == Len(t)
    <3> HIDE DEF a, b, c
    <3>2. k \in 2..b /\ b \in Nat /\ a \in Nat /\ c = b - 1
      BY <3>1 DEF a, b, c
    <3>3. a + k - 1 \in 1..(a + c) /\ ~(a + k - 1 <= a) /\ a + k - 1 - a = k - 1 /\ k - 1 \in 1..c
      BY <3>2
    <3>4. QED
      BY <3>3 DEF a, c
  <2>3. n[Len(top) + k - 1] = t[k - 1]
    <3> DEFINE i == Len(top) + k - 1
    <3>1. i \in 1..(Len(top) + Len(t)) /\ ~(i <= Len(top)) /\ i - Len(top) = k - 1
      BY <2>2
    <3> HIDE DEF i
    <3>2. n[i] = t[i - Len(top)]
      BY <1>3, <3>1
    <3>3. n[i] = t[k - 1]
      BY <3>1, <3>2
    <3>4. QED
      BY <3>3 DEF i
  <2>4. t[k - 1] = s[(k - 1) + 1] /\ (k - 1) + 1 = k
    BY <1>2, <2>2
  <2>5. QED
    BY <2>3, <2>4
<1>7. ASSUME NEW i \in 1..Len(n)
      PROVE  \/ i \in 1..Len(top) /\ n[i] = top[i]
             \/ \E k \in 2..Len(s) : i = Len(top) + k - 1 /\ n[i] = s[k]
  <2>1. CASE i <= Len(top)
    BY <1>3, <1>5, <2>1
  <2>2. CASE ~(i <= Len(top))
    <3> DEFINE k == i - Len(top) + 1
    <3>1. k \in 2..Len(s) /\ i = Len(top) + k - 1
      BY <1>1, <1>3, <1>4, <2>2
    <3> HIDE DEF k
    <3>2. n[i] = s[k]
      BY <1>6, <3>1
    <3>3. QED
      BY <3>1, <3>2
  <2>3. QED
    BY <2>1, <2>2
<1>8. QED
  BY <1>3, <1>4, <1>5, <1>6, <1>7 DEF n, t

\* A handler that is replaced by calls, and goes on or not, leaves the stack in order.
LEMMA StackStep ==
    ASSUME NEW s \in Seq(Frames), s # <<>>, Bottom(s),
           NEW top \in Seq(Frames),
           \A j \in 1..Len(top) :
               top[j].at = "line" \/ ChatWrite(top[j]) => j = Len(top) /\ Len(s) = 1
    PROVE  Bottom(top \o Tail(s))
<1> DEFINE n == top \o Tail(s)
<1>1. /\ Len(n) = Len(top) + Len(s) - 1 /\ Len(top) \in Nat /\ Len(s) \in Nat
      /\ \A i \in 1..Len(n) :
            \/ i \in 1..Len(top) /\ n[i] = top[i]
            \/ \E k \in 2..Len(s) : i = Len(top) + k - 1 /\ n[i] = s[k]
  <2>1. Len(top) \in Nat /\ Len(s) \in Nat
    BY LenProperties
  <2>2. /\ Len(n) = Len(top) + Len(s) - 1
        /\ \A i \in 1..Len(n) :
              \/ i \in 1..Len(top) /\ n[i] = top[i]
              \/ \E k \in 2..Len(s) : i = Len(top) + k - 1 /\ n[i] = s[k]
    BY Spliced
  <2>3. QED
    BY <2>1, <2>2
<1> HIDE DEF n
<1>2. Bottom(n)
  <2>1. SUFFICES ASSUME NEW i \in 1..Len(n), n[i].at = "line" \/ ChatWrite(n[i])
                 PROVE  i = Len(n)
    BY DEF Bottom
  <2>2. CASE i \in 1..Len(top) /\ n[i] = top[i]
    <3>1. top[i].at = "line" \/ ChatWrite(top[i])
      BY <2>1, <2>2
    <3>2. i = Len(top) /\ Len(s) = 1
      BY <2>2, <3>1
    <3>3. QED
      BY <1>1, <3>2
  <2>3. ASSUME NEW k \in 2..Len(s), i = Len(top) + k - 1, n[i] = s[k] PROVE i = Len(n)
    <3>1. k = Len(s)
      BY <2>1, <2>3 DEF Bottom
    <3>2. QED
      BY <1>1, <2>3, <3>1
  <2>4. QED
    BY <1>1, <2>2, <2>3
<1>3. QED
  BY <1>2 DEF n

-----------------------------------------------------------------------------
(* What handlers put on the stack *)

LEMMA FrameFacts ==
    /\ \A text \in Texts, i \in Nat \ {0} :
          LineFrame(text, i) \in Frames /\ LineFrame(text, i).at = "line"
    /\ \A e \in EventNames, i \in Nat \ {0} :
          /\ EventFrame(e, i) \in Frames /\ EventFrame(e, i).at = "event"
          /\ EventFrame(e, i).event = e
    /\ \A c \in Causes \cup {Other} :
          /\ WriteFrame(c) \in Frames /\ WriteFrame(c).at = "write"
          /\ WriteFrame(c).cause = c
    /\ \A left \in Nat : SendFrame(left) \in Frames /\ SendFrame(left).at = "send"
    /\ StartFrame \in Frames /\ StartFrame.at = "start"
BY DEF Frames, LineFrame, EventFrame, WriteFrame, SendFrame, StartFrame

\* The calls of an action: no line, no command of a chat rule.
Harmless(calls) ==
    /\ calls \in Seq(Frames)
    /\ \A j \in 1..Len(calls) : calls[j].at # "line" /\ ~ChatWrite(calls[j])

LEMMA HarmlessNone == Harmless(<<>>)
BY DEF Harmless

LEMMA HarmlessOne ==
    ASSUME NEW f \in Frames, f.at # "line", ~ChatWrite(f)
    PROVE  Harmless(<<f>>)
BY DEF Harmless

LEMMA HarmlessTwo ==
    ASSUME NEW f \in Frames, f.at # "line", ~ChatWrite(f),
           NEW g \in Frames, g.at # "line", ~ChatWrite(g)
    PROVE  Harmless(<<f, g>>)
BY DEF Harmless

LEMMA CallsHarmless ==
    ASSUME NEW a \in Actions, NEW calls \in Calls[a]
    PROVE  Harmless(calls)
<1>1. Harmless(SendCmd(Other))
  BY HarmlessTwo, FrameFacts DEF SendCmd, ChatWrite, EventNames
<1>2. \A left \in Nat : Harmless(<<SendFrame(left)>>)
  BY HarmlessOne, FrameFacts DEF ChatWrite
<1>3. Harmless(<<EventFrame("onBinded", 1)>>)
  BY HarmlessOne, FrameFacts DEF ChatWrite, EventNames
<1>4. Harmless(<<SendFrame(1), StartFrame>>)
  BY HarmlessTwo, FrameFacts DEF ChatWrite
<1>5. \/ calls \in {SendCmd(Other), <<>>, <<EventFrame("onBinded", 1)>>,
                      <<SendFrame(1), StartFrame>>}
      \/ \E left \in Nat : calls = <<SendFrame(left)>>
  BY BoundsAssumption DEF Actions, Calls
<1>6. QED
  BY <1>1, <1>2, <1>3, <1>4, <1>5, HarmlessNone

\* The frames that replace the one on top, as StackStep asks for them.
Fits(top) ==
    /\ top \in Seq(Frames)
    /\ \A j \in 1..Len(top) : ~ChatWrite(top[j])
    /\ \A j \in 1..Len(top) : top[j].at = "line" => j = Len(top) /\ Len(frames) = 1

\* A handler that makes harmless calls and goes on as next.
LEMMA FitsCalls ==
    ASSUME NEW calls, Harmless(calls),
           NEW next \in Frames, ~ChatWrite(next), next.at = "line" => Len(frames) = 1
    PROVE  Fits(calls \o <<next>>)
<1> DEFINE top == calls \o <<next>>
<1>1. /\ top \in Seq(Frames) /\ Len(top) = Len(calls) + 1 /\ Len(calls) \in Nat
      /\ \A j \in 1..Len(calls) : top[j] = calls[j]
      /\ top[Len(calls) + 1] = next
  <2>1. calls \in Seq(Frames)
    BY DEF Harmless
  <2>2. QED
    BY <2>1
<1> HIDE DEF top
<1>2. \A j \in 1..Len(calls) : top[j].at # "line" /\ ~ChatWrite(top[j])
  BY <1>1 DEF Harmless
<1>3. \A j \in 1..Len(top) : j \in 1..Len(calls) \/ j = Len(calls) + 1
  BY <1>1
<1>4. QED
  BY <1>1, <1>2, <1>3 DEF Fits, top

LEMMA FitsNone == Fits(<<>>)
BY DEF Fits

LEMMA FitsOne ==
    ASSUME NEW e \in EventNames
    PROVE  Fits(<<EventFrame(e, 1)>>)
BY FrameFacts DEF Fits, ChatWrite

\* What the frame on top is.
LEMMA HeadUnder ==
    ASSUME TypeOK, StackInv, frames # <<>>
    PROVE  /\ Head(frames) = frames[1] /\ frames[1] \in Frames /\ Len(frames) \in Nat \ {0}
           /\ frames[1].at = "line" \/ ChatWrite(frames[1]) => Len(frames) = 1
<1>1. frames \in Seq(Frames) /\ Len(frames) \in Nat \ {0}
  BY EmptySeq, LenProperties DEF TypeOK
<1>2. Head(frames) = frames[1] /\ frames[1] \in Frames
  BY <1>1
<1>3. 1 \in 1..Len(frames)
  BY <1>1
<1>4. QED
  BY <1>1, <1>2, <1>3 DEF StackInv, Bottom

LEMMA RaisesRanked ==
    ASSUME TypeOK, NEW e \in EventNames, NEW i \in 1..Len(event[e])
    PROVE  /\ event[e][i] \in Actions /\ Raises[event[e][i]] \subseteq EventNames
           /\ \A r \in Raises[event[e][i]] : Rank[r] < Rank[e]
<1>1. event \in EventFiles /\ event[e] \in Seq(Actions)
  BY FilesAssumption DEF TypeOK
<1>2. event[e][i] \in Actions
  BY <1>1
<1>3. Raises[event[e][i]] \subseteq EventNames
  BY <1>2 DEF Actions, Raises, EventNames
<1>4. QED
  BY <1>1, <1>2, <1>3, RanksAssumption

LEMMA LineFits ==
    ASSUME TypeOK, StackInv, LineRule
    PROVE  \E top : Fits(top) /\ frames' = top \o Tail(frames)
<1> DEFINE f == Head(frames)
<1>1. frames # <<>> /\ f.at = "line" /\ frames \in Seq(Frames)
  BY DEF LineRule, Top, TypeOK
<1>2. f \in Frames /\ Len(frames) = 1
  BY <1>1, HeadUnder
<1>3. f.text \in Texts /\ f.i \in Nat \ {0}
  BY <1>1, <1>2 DEF Frames
<1>4. CASE f.i > Len(regular) /\ GoesOn(<<EventFrame("onConsoleUpdate", 1)>>, <<>>)
  <2> DEFINE e == EventFrame("onConsoleUpdate", 1)
  <2>1. Fits(<<e>>)
    BY FitsOne DEF EventNames
  <2> HIDE DEF e
  <2>2. <<e>> \o <<>> = <<e>>
    OBVIOUS
  <2>3. frames' = (<<e>> \o <<>>) \o Tail(frames)
    BY <1>4 DEF GoesOn, e
  <2>4. QED
    BY <2>1, <2>2, <2>3
<1>5. ASSUME f.i <= Len(regular),
             NEW calls \in IF Hits(regular[f.i], f.text)
                              THEN Calls[regular[f.i].action] ELSE {<<>>},
             GoesOn(calls, <<LineFrame(f.text, f.i + 1)>>)
      PROVE  \E top : Fits(top) /\ frames' = top \o Tail(frames)
  <2> DEFINE next == LineFrame(f.text, f.i + 1)
  <2>1. next \in Frames /\ next.at = "line" /\ ~ChatWrite(next)
    BY <1>3, FrameFacts DEF ChatWrite
  <2>2. Harmless(calls)
    <3>1. CASE calls = <<>>
      BY <3>1, HarmlessNone
    <3>2. CASE calls # <<>>
      <4>1. Hits(regular[f.i], f.text) /\ calls \in Calls[regular[f.i].action]
        BY <1>5, <3>2
      <4>2. regular[f.i] \in Rules
        <5>1. regular \in Seq(Rules) /\ f.i \in 1..Len(regular)
          BY <1>3, <1>5 DEF TypeOK
        <5>2. QED
          BY <5>1
      <4>3. QED
        BY <4>1, <4>2, CallsHarmless DEF Rules
    <3>3. QED
      BY <3>1, <3>2
  <2> HIDE DEF next, f
  <2>3. Fits(calls \o <<next>>)
    BY <1>2, <2>1, <2>2, FitsCalls
  <2>4. frames' = (calls \o <<next>>) \o Tail(frames)
    BY <1>5 DEF GoesOn, next
  <2>5. QED
    BY <2>3, <2>4
<1>6. QED
  BY <1>4, <1>5 DEF LineRule

LEMMA EventFits ==
    ASSUME TypeOK, StackInv, EventRule
    PROVE  \E top : Fits(top) /\ frames' = top \o Tail(frames)
<1> DEFINE f == Head(frames)
<1>1. frames # <<>> /\ f.at = "event"
  BY DEF EventRule, Top
<1>2. f \in Frames
  BY <1>1, HeadUnder
<1>3. f.event \in EventNames /\ f.i \in Nat \ {0}
  BY <1>1, <1>2 DEF Frames
<1>4. CASE GoesOn(<<>>, <<>>)
  <2>1. frames' = (<<>> \o <<>>) \o Tail(frames) /\ <<>> \o <<>> = <<>>
    BY <1>4 DEF GoesOn
  <2>2. QED
    BY <2>1, FitsNone
<1>5. ASSUME f.i <= Len(event[f.event]), NEW calls \in Calls[event[f.event][f.i]],
             GoesOn(calls, <<EventFrame(f.event, f.i + 1)>>)
      PROVE  \E top : Fits(top) /\ frames' = top \o Tail(frames)
  <2> DEFINE e == f.event
             next == EventFrame(e, f.i + 1)
  <2>1. event[e][f.i] \in Actions
    <3>1. event[e] \in Seq(Actions)
      BY <1>3, FilesAssumption DEF TypeOK
    <3>2. QED
      BY <1>3, <1>5, <3>1
  <2>2. Harmless(calls)
    BY <1>5, <2>1, CallsHarmless
  <2>3. next \in Frames /\ next.at = "event"
    BY <1>3, FrameFacts
  <2>4. ~ChatWrite(next)
    BY <2>3 DEF ChatWrite
  <2>5. frames' = (calls \o <<next>>) \o Tail(frames)
    BY <1>5 DEF GoesOn
  <2> HIDE DEF next, e, f
  <2>6. Fits(calls \o <<next>>)
    BY <2>2, <2>3, <2>4, FitsCalls
  <2>7. QED
    BY <2>5, <2>6
<1>6. QED
  BY <1>4, <1>5 DEF EventRule

LEMMA SendFits ==
    ASSUME TypeOK, StackInv, Send
    PROVE  \E top : Fits(top) /\ frames' = top \o Tail(frames)
<1> DEFINE f == Head(frames)
<1>1. frames # <<>> /\ f.at = "send"
  BY DEF Send, Top
<1>2. f \in Frames
  BY <1>1, HeadUnder
<1>3. f.left \in Nat
  BY <1>1, <1>2 DEF Frames
<1>4. CASE GoesOn(<<>>, <<>>)
  <2>1. frames' = (<<>> \o <<>>) \o Tail(frames) /\ <<>> \o <<>> = <<>>
    BY <1>4 DEF GoesOn
  <2>2. QED
    BY <2>1, FitsNone
<1>5. ASSUME f.left > 0, NEW calls \in {<<EventFrame("onSendMsg", 1)>>, <<>>},
             GoesOn(calls, <<SendFrame(f.left - 1)>>)
      PROVE  \E top : Fits(top) /\ frames' = top \o Tail(frames)
  <2> DEFINE next == SendFrame(f.left - 1)
  <2>1. Harmless(calls)
    <3>1. Harmless(<<EventFrame("onSendMsg", 1)>>)
      BY HarmlessOne, FrameFacts DEF ChatWrite, EventNames
    <3>2. QED
      BY <1>5, <3>1, HarmlessNone
  <2>2. next \in Frames /\ next.at = "send"
    BY <1>3, <1>5, FrameFacts
  <2>3. ~ChatWrite(next)
    BY <2>2 DEF ChatWrite
  <2>4. frames' = (calls \o <<next>>) \o Tail(frames)
    BY <1>5 DEF GoesOn
  <2> HIDE DEF next, f
  <2>5. Fits(calls \o <<next>>)
    BY <2>1, <2>2, <2>3, FitsCalls
  <2>6. QED
    BY <2>4, <2>5
<1>6. QED
  BY <1>4, <1>5 DEF Send

LEMMA StartFits ==
    ASSUME StartServer
    PROVE  \E top : Fits(top) /\ frames' = top \o Tail(frames)
<1> DEFINE e == EventFrame("onServerStart", 1)
<1>1. Fits(<<e>>)
  BY FitsOne DEF EventNames
<1>2. PICK calls \in {<<e>>, <<>>} : GoesOn(calls, <<>>)
  BY DEF StartServer
<1> HIDE DEF e
<1>3. calls \o <<>> = calls
  BY <1>2
<1>4. frames' = calls \o Tail(frames)
  BY <1>2, <1>3 DEF GoesOn
<1>5. QED
  BY <1>1, <1>2, <1>4, FitsNone

LEMMA WriteFits ==
    ASSUME Write
    PROVE  frames' = <<>> \o Tail(frames) /\ frames # <<>>
<1>1. <<>> \o <<>> = <<>>
  OBVIOUS
<1>2. QED
  BY <1>1 DEF Write, GoesOn, Top

\* Every handler leaves the stack in order, and all but Write what chat rules have sent.
LEMMA HandlerStack ==
    ASSUME TypeOK, StackInv, NEW top, Fits(top), frames # <<>>, frames' = top \o Tail(frames)
    PROVE  /\ frames' \in Seq(Frames) /\ StackInv'
           /\ \A c \in Causes : Carried(c)' => Carried(c)
           /\ ~ChatWrite(Head(frames)) => \A c \in Causes : Carried(c) => Carried(c)'
<1>1. frames \in Seq(Frames) /\ top \in Seq(Frames)
  BY DEF TypeOK, Fits
<1>2. StackInv'
  BY <1>1, StackStep DEF Fits, StackInv
<1>3. /\ frames' \in Seq(Frames)
      /\ Len(frames') = Len(top) + Len(frames) - 1
      /\ \A k \in 2..Len(frames) : frames'[Len(top) + k - 1] = frames[k]
      /\ \A i \in 1..Len(frames') :
            \/ i \in 1..Len(top) /\ frames'[i] = top[i]
            \/ \E k \in 2..Len(frames) : i = Len(top) + k - 1 /\ frames'[i] = frames[k]
      /\ Len(top) \in Nat /\ Len(frames) \in Nat
  BY <1>1, Spliced, LenProperties
<1>4. \A c \in Causes : ChatWrite(WriteFrame(c))
  BY FrameFacts DEF ChatWrite, Causes, Other
<1>5. ASSUME NEW c \in Causes, Carried(c)' PROVE Carried(c)
  <2>1. PICK i \in 1..Len(frames') : frames'[i] = WriteFrame(c)
    BY <1>5 DEF Carried, WriteFrame
  <2>2. ~(i \in 1..Len(top) /\ frames'[i] = top[i])
    BY <1>4, <2>1 DEF Fits
  <2>3. PICK k \in 2..Len(frames) : frames'[i] = frames[k]
    BY <1>3, <2>2
  <2>4. QED
    BY <1>3, <2>1, <2>3 DEF Carried
<1>6. ASSUME ~ChatWrite(Head(frames)), NEW c \in Causes, Carried(c) PROVE Carried(c)'
  <2>1. PICK k \in 1..Len(frames) : frames[k] = WriteFrame(c)
    BY <1>6 DEF Carried
  <2>2. k # 1
    BY <1>1, <1>4, <1>6, <2>1
  <2>3. k \in 2..Len(frames) /\ Len(top) + k - 1 \in 1..Len(frames')
    BY <1>3, <2>1, <2>2
  <2>4. frames'[Len(top) + k - 1] = WriteFrame(c)
    BY <1>3, <2>1, <2>3
  <2>5. QED
    BY <2>3, <2>4 DEF Carried, WriteFrame
<1>7. QED
  BY <1>2, <1>3, <1>5, <1>6


-----------------------------------------------------------------------------
(* Types and the stack *)

Shape == TypeOK /\ StackInv /\ ReaderInv

\* The stacks the event loop starts from.
LEMMA FreshStacks ==
    /\ \A c \in Causes \cup {Other} :
          /\ SendCmd(c) \in Seq(Frames)
          /\ Bottom(SendCmd(c))
    /\ \A f \in Frames :
          <<f>> \in Seq(Frames) /\ Bottom(<<f>>)
<1>1. ASSUME NEW c \in Causes \cup {Other}
      PROVE  /\ SendCmd(c) \in Seq(Frames)
             /\ Bottom(SendCmd(c))
  <2> DEFINE e == EventFrame("onSendCommand", 1)
             w == WriteFrame(c)
  <2>1. e \in Frames /\ e.at = "event"
    BY FrameFacts DEF EventNames
  <2>2. w \in Frames /\ w.at = "write"
    BY FrameFacts
  <2>3. ~ChatWrite(e)
    BY <2>1 DEF ChatWrite
  <2>4. SendCmd(c) = <<e, w>>
    BY DEF SendCmd
  <2> HIDE DEF e, w
  <2>5. <<e, w>> \in Seq(Frames) /\ Bottom(<<e, w>>)
    BY <2>1, <2>2, <2>3 DEF Bottom
  <2>6. QED
    BY <2>4, <2>5
<1>2. ASSUME NEW f \in Frames
      PROVE  <<f>> \in Seq(Frames) /\ Bottom(<<f>>)
  BY DEF Bottom
<1>3. QED
  BY <1>1, <1>2

\* What the first signal in the queue is.
LEMMA FirstSignal ==
    ASSUME TypeOK, queue # <<>>
    PROVE  /\ Head(queue) = queue[1] /\ queue[1] \in Signals
           /\ Tail(queue) \in Seq(Signals) /\ Len(queue) \in Nat \ {0}
           /\ Len(Tail(queue)) = Len(queue) - 1
           /\ \A i \in 1..Len(Tail(queue)) : Tail(queue)[i] = queue[i + 1]
           /\ Head(queue).signal = "command" => Head(queue).cause \in Causes
           /\ Head(queue).signal = "event" => Head(queue).event \in EventNames
<1>1. queue \in Seq(Signals) /\ Len(queue) \in Nat \ {0}
  BY EmptySeq, LenProperties DEF TypeOK
<1>2. Head(queue) = queue[1] /\ queue[1] \in Signals
  BY <1>1
<1>3. /\ Tail(queue) \in Seq(Signals) /\ Len(Tail(queue)) = Len(queue) - 1
      /\ \A i \in 1..Len(Tail(queue)) : Tail(queue)[i] = queue[i + 1]
  BY <1>1, HeadTailProperties
<1>4. QED
  BY <1>1, <1>2, <1>3 DEF Signals

LEMMA TakeShape == ASSUME Shape, Take PROVE Shape'
<1> USE DEF Shape
<1>1. /\ Tail(queue) \in Seq(Signals)
      /\ Head(queue).signal = "command" => Head(queue).cause \in Causes
      /\ Head(queue).signal = "event" => Head(queue).event \in EventNames
  BY FirstSignal DEF Take
<1>2. /\ frames' \in Seq(Frames) /\ Bottom(frames')
  <2>1. CASE Head(queue).signal = "command" /\ frames' = SendCmd(Head(queue).cause)
    BY <1>1, <2>1, FreshStacks
  <2>2. CASE Head(queue).signal = "event" /\ frames' = <<EventFrame(Head(queue).event, 1)>>
    <3>1. EventFrame(Head(queue).event, 1) \in Frames
      BY <1>1, <2>2, FrameFacts
    <3>2. QED
      BY <2>2, <3>1, FreshStacks
  <2>3. CASE frames' = <<StartFrame>>
    BY <2>3, FrameFacts, FreshStacks
  <2>4. QED
    BY <2>1, <2>2, <2>3 DEF Take
<1>3. TypeOK'
  BY <1>1, <1>2 DEF Take, TypeOK, reader
<1>4. QED
  BY <1>2, <1>3 DEF Take, StackInv, ReaderInv, reader

LEMMA BeginShape == ASSUME Shape, Begin PROVE Shape'
<1> USE DEF Shape
<1>1. frames' \in Seq(Frames) /\ Bottom(frames')
  <2>1. ASSUME NEW text \in Texts, frames' = <<LineFrame(text, 1)>>
        PROVE  frames' \in Seq(Frames) /\ Bottom(frames')
    <3>1. LineFrame(text, 1) \in Frames
      BY FrameFacts
    <3>2. QED
      BY <2>1, <3>1, FreshStacks
  <2>2. CASE frames' = SendCmd(Other)
    BY <2>2, FreshStacks
  <2>3. CASE frames' = <<EventFrame("onLogin", 1)>>
    <3>1. EventFrame("onLogin", 1) \in Frames
      BY FrameFacts DEF EventNames
    <3>2. QED
      BY <2>3, <3>1, FreshStacks
  <2>4. QED
    BY <2>1, <2>2, <2>3 DEF Begin
<1>2. TypeOK'
  BY <1>1 DEF Begin, TypeOK, reader
<1>3. QED
  BY <1>1, <1>2 DEF Begin, StackInv, ReaderInv, reader

LEMMA EditShape == ASSUME Shape, Edit PROVE Shape'
<1>1. regular' \in Seq(Rules)
  BY ListsAssumption DEF Edit
<1>2. QED
  BY <1>1 DEF Shape, Edit, TypeOK, StackInv, ReaderInv, reader

\* The handlers: the stack as HandlerStack has it, and Carried with it.
LEMMA HandlerShape ==
    ASSUME Shape, Handler
    PROVE  /\ Shape'
           /\ \A c \in Causes : Carried(c)' => Carried(c)
           /\ ~ChatWrite(Head(frames)) => \A c \in Causes : Carried(c) => Carried(c)'
<1> USE DEF Shape
<1>1. frames # <<>> /\ \E top : Fits(top) /\ frames' = top \o Tail(frames)
  <2>1. CASE LineRule
    BY <2>1, LineFits DEF LineRule, Top
  <2>2. CASE EventRule
    BY <2>2, EventFits DEF EventRule, Top
  <2>3. CASE Write
    BY <2>3, WriteFits, FitsNone
  <2>4. CASE Send
    BY <2>4, SendFits DEF Send, Top
  <2>5. CASE StartServer
    BY <2>5, StartFits DEF StartServer, Top
  <2>6. QED
    BY <2>1, <2>2, <2>3, <2>4, <2>5 DEF Handler
<1>2. /\ frames' \in Seq(Frames) /\ StackInv'
      /\ \A c \in Causes : Carried(c)' => Carried(c)
      /\ ~ChatWrite(Head(frames)) => \A c \in Causes : Carried(c) => Carried(c)'
  BY <1>1, HandlerStack
<1>3. UNCHANGED <<regular, event, queue, reader>>
  BY DEF Handler, LineRule, EventRule, Write, Send, StartServer
<1>4. written' \in Seq(Causes)
  <2>1. CASE UNCHANGED written
    BY <2>1 DEF TypeOK
  <2>2. CASE Write
    <3>1. Head(frames) \in Frames /\ Head(frames).at = "write"
      BY <2>2, HeadUnder DEF Write, Top
    <3>2. Head(frames).cause \in Causes \cup {Other}
      BY <3>1 DEF Frames
    <3>3. QED
      BY <2>2, <3>2 DEF Write, TypeOK
  <2>3. QED
    BY <2>1, <2>2 DEF Handler, LineRule, EventRule, Send, StartServer
<1>5. TypeOK' /\ ReaderInv'
  BY <1>2, <1>3, <1>4 DEF TypeOK, ReaderInv, reader
<1>6. QED
  BY <1>2, <1>5

\* The list and the rule the receive thread is at.
LEMMA AtList ==
    ASSUME Shape, pos # 0
    PROVE  /\ Now \in 1..MaxMessages /\ Now = Len(heard)
           /\ heard[Now].list \in Seq(Rules) /\ Len(heard[Now].list) \in Nat
<1>1. heard \in Seq(Messages) /\ heard # <<>>
  BY DEF Shape, TypeOK, ReaderInv
<1>2. Now \in 1..MaxMessages /\ Now \in 1..Len(heard) /\ Now = Len(heard)
  BY <1>1, EmptySeq, LenProperties, BoundsAssumption DEF Shape, TypeOK, Now
<1>3. heard[Now] \in Messages
  BY <1>1, <1>2
<1>4. QED
  BY <1>2, <1>3, LenProperties DEF Messages

LEMMA EmitTyped ==
    ASSUME TypeOK, NEW s \in Signals, Emit(s)
    PROVE  queue' \in Seq(Signals)
BY DEF TypeOK, Emit

LEMMA SignalsTyped ==
    /\ \A c \in Causes : Command(c) \in Signals /\ Command(c).signal = "command"
    /\ \A e \in EventNames : Event(e) \in Signals /\ Event(e).signal = "event"
    /\ Start \in Signals /\ Start.signal = "start"
BY DEF Command, Event, Start, Signals

LEMMA ReaderShape == ASSUME Shape, Reader PROVE Shape'
<1> USE DEF Shape
<1>1. UNCHANGED <<regular, event, frames, heard, written>>
  BY DEF Reader, Skip, Signal, Reply, ReplySends, AskToStart, Done
<1>2. queue' \in Seq(Signals)
  <2>1. CASE UNCHANGED queue
    BY <2>1 DEF TypeOK
  <2>2. CASE Signal
    <3>1. pos # 0 /\ pos \in Nat
      BY <2>2 DEF Signal, AtRule, TypeOK
    <3>2. <<Now, pos>> \in Causes
      BY <3>1, AtList DEF Causes
    <3>3. \E s \in Signals : Emit(s)
      BY <2>2, <3>2, SignalsTyped DEF Signal, EventNames
    <3>4. QED
      BY <3>3, EmitTyped
  <2>3. CASE ReplySends
    BY <2>1, <2>3, SignalsTyped, EmitTyped DEF ReplySends, EventNames
  <2>4. CASE AskToStart
    BY <2>4, SignalsTyped, EmitTyped DEF AskToStart
  <2>5. QED
    BY <2>1, <2>2, <2>3, <2>4 DEF Reader, Skip, Reply, Done
<1>3. pos' \in Nat /\ owed' \in Nat /\ starting' \in BOOLEAN
  <2>1. pos' \in Nat
    BY DEF TypeOK, Reader, Skip, Signal, Reply, ReplySends, AskToStart, Done
  <2>2. owed' \in Nat
    <3>1. CASE UNCHANGED owed
      BY <3>1 DEF TypeOK
    <3>2. CASE Reply
      BY <3>2, BoundsAssumption DEF Reply
    <3>3. CASE ReplySends
      BY <3>3 DEF ReplySends, TypeOK
    <3>4. QED
      BY <3>1, <3>2, <3>3 DEF Reader, Skip, Signal, AskToStart, Done
  <2>3. starting' \in BOOLEAN
    <3>1. CASE UNCHANGED starting
      BY <3>1 DEF TypeOK
    <3>2. CASE Reply
      BY <3>2 DEF Reply
    <3>3. CASE AskToStart
      BY <3>3 DEF AskToStart
    <3>4. QED
      BY <3>1, <3>2, <3>3 DEF Reader, Skip, Signal, ReplySends, Done
  <2>4. QED
    BY <2>1, <2>2, <2>3
<1>4. pos # 0 \/ pos' = 0
  BY DEF Reader, Skip, Signal, Reply, ReplySends, AskToStart, Done, AtRule
<1>5. TypeOK' /\ StackInv' /\ ReaderInv'
  BY <1>1, <1>2, <1>3, <1>4 DEF TypeOK, StackInv, ReaderInv
<1>6. QED
  BY <1>5

LEMMA HearShape ==
    ASSUME Shape, NEW text \in Texts, NEW admin \in BOOLEAN, Hear(text, admin)
    PROVE  Shape'
<1> USE DEF Shape
<1>1. [text |-> text, admin |-> admin, list |-> regular] \in Messages
  BY DEF Messages, TypeOK
<1>2. /\ heard' \in Seq(Messages) /\ Len(heard') = Len(heard) + 1
      /\ Len(heard) \in Nat /\ heard' # <<>>
  BY <1>1 DEF Hear, TypeOK
<1>3. queue' \in Seq(Signals)
  BY SignalsTyped, EmitTyped DEF Hear, EventNames
<1>4. Len(heard') <= MaxMessages
  BY <1>2, BoundsAssumption DEF Hear
<1>5. TypeOK'
  BY <1>2, <1>3, <1>4 DEF Hear, TypeOK
<1>6. QED
  BY <1>2, <1>5 DEF Hear, StackInv, ReaderInv

-----------------------------------------------------------------------------
(* The order of the commands *)

\* A step that moves no command leaves their order as it is.
LEMMA QuietOrder ==
    ASSUME TypeOK, InOrder, UNCHANGED written,
           \A c \in Causes : Carried(c)' => Carried(c),
           \/ UNCHANGED queue
           \/ \E s \in Signals : s.signal # "command" /\ Emit(s)
    PROVE  /\ InOrder'
           /\ \A c \in Causes : (Queued(c)' <=> Queued(c)) /\ (Reached(c)' <=> Reached(c))
<1>1. /\ Len(queue) \in Nat /\ Len(queue') \in Nat /\ Len(queue') >= Len(queue)
      /\ \A k \in 1..Len(queue) : queue'[k] = queue[k]
      /\ \A k \in 1..Len(queue'), c \in Causes :
            queue'[k] = Command(c) => k \in 1..Len(queue)
  <2>1. queue \in Seq(Signals) /\ Len(queue) \in Nat
    BY LenProperties DEF TypeOK
  <2>2. CASE UNCHANGED queue
    BY <2>1, <2>2
  <2>3. ASSUME NEW s \in Signals, s.signal # "command", Emit(s)
        PROVE  /\ Len(queue') \in Nat /\ Len(queue') >= Len(queue)
               /\ \A k \in 1..Len(queue) : queue'[k] = queue[k]
               /\ \A k \in 1..Len(queue'), c \in Causes :
                     queue'[k] = Command(c) => k \in 1..Len(queue)
    <3>1. /\ Len(queue') = Len(queue) + 1 /\ queue'[Len(queue) + 1] = s
          /\ \A k \in 1..Len(queue) : queue'[k] = queue[k]
      BY <2>1, <2>3 DEF Emit
    <3>2. \A c \in Causes : s # Command(c)
      BY <2>3, SignalsTyped
    <3>3. QED
      BY <2>1, <3>1, <3>2
  <2>4. QED
    BY <2>1, <2>2, <2>3
<1>2. \A c \in Causes : (Queued(c)' <=> Queued(c)) /\ (Reached(c)' <=> Reached(c))
  <2>1. ASSUME NEW c \in Causes, Queued(c)' PROVE Queued(c)
    <3>1. PICK k \in 1..Len(queue') : queue'[k] = Command(c)
      BY <2>1 DEF Queued, Command
    <3>2. QED
      BY <1>1, <3>1 DEF Queued
  <2>2. ASSUME NEW c \in Causes, Queued(c) PROVE Queued(c)'
    <3>1. PICK k \in 1..Len(queue) : queue[k] = Command(c)
      BY <2>2 DEF Queued
    <3>2. k \in 1..Len(queue') /\ queue'[k] = Command(c)
      BY <1>1, <3>1
    <3>3. QED
      BY <3>2 DEF Queued, Command
  <2>3. QED
    BY <2>1, <2>2 DEF Reached
<1>3. CommandsInOrder'
  BY DEF InOrder, CommandsInOrder, Before
<1>4. \A a \in 1..Len(written), c \in Causes :
         Carried(c)' \/ Queued(c)' => Before(written[a], c)
  BY <1>2 DEF InOrder
<1>5. \A c, d \in Causes : Carried(c)' /\ Queued(d)' => Before(c, d)
  BY <1>2 DEF InOrder
<1>6. \A j, k \in 1..Len(queue') : \A c, d \in Causes :
         j < k /\ queue'[j] = Command(c) /\ queue'[k] = Command(d) => Before(c, d)
  BY <1>1 DEF InOrder
<1>7. InOrder'
  BY <1>3, <1>4, <1>5, <1>6 DEF InOrder, Before, Command
<1>8. QED
  BY <1>2, <1>7

\* The event loop takes the first command of the queue, when the stack is empty.
LEMMA TakeOrder ==
    ASSUME TypeOK, InOrder, Take
    PROVE  /\ InOrder'
           /\ \A c \in Causes :
                 (Carried(c) \/ Queued(c)) <=> (Carried(c)' \/ Queued(c)')
           /\ UNCHANGED written
<1> DEFINE q1 == Tail(queue)
           s == Head(queue)
<1>1. /\ s = queue[1] /\ s \in Signals /\ Len(queue) \in Nat \ {0} /\ queue' = q1
      /\ Len(q1) = Len(queue) - 1
      /\ \A i \in 1..Len(q1) : q1[i] = queue[i + 1]
      /\ s.signal = "command" => s.cause \in Causes
      /\ s.signal = "event" => s.event \in EventNames
  BY FirstSignal DEF Take
<1>2. \A c \in Causes : ~Carried(c)
  BY DEF Take, Idle, Carried
<1>3. ASSUME NEW c \in Causes PROVE Carried(c)' <=> s = Command(c)
  <2>1. WriteFrame(c).at = "write"
    BY FrameFacts
  <2>2. CASE s.signal = "command" /\ frames' = SendCmd(s.cause)
    <3>1. frames' = <<EventFrame("onSendCommand", 1), WriteFrame(s.cause)>>
      BY <2>2 DEF SendCmd
    <3>2. EventFrame("onSendCommand", 1) # WriteFrame(c)
      BY FrameFacts, <2>1 DEF EventNames
    <3>3. Carried(c)' <=> WriteFrame(s.cause) = WriteFrame(c)
      BY <3>1, <3>2 DEF Carried, WriteFrame
    <3>4. WriteFrame(s.cause) = WriteFrame(c) <=> s.cause = c
      BY DEF WriteFrame
    <3>5. s.cause = c <=> s = Command(c)
      BY <1>1, <2>2 DEF Command, Signals
    <3>6. QED
      BY <3>3, <3>4, <3>5
  <2>3. CASE s.signal = "event" /\ frames' = <<EventFrame(s.event, 1)>>
    <3>1. EventFrame(s.event, 1).at = "event"
      BY <1>1, <2>3, FrameFacts
    <3>2. ~Carried(c)'
      BY <2>1, <2>3, <3>1 DEF Carried, WriteFrame
    <3>3. s # Command(c)
      BY <2>3 DEF Command
    <3>4. QED
      BY <3>2, <3>3
  <2>4. CASE s.signal = "start" /\ frames' = <<StartFrame>>
    <3>1. ~Carried(c)'
      BY <2>1, <2>4, FrameFacts DEF Carried, WriteFrame
    <3>2. s # Command(c)
      BY <2>4 DEF Command
    <3>3. QED
      BY <3>1, <3>2
  <2>5. QED
    BY <2>2, <2>3, <2>4 DEF Take
<1> HIDE DEF q1, s
<1>4. ASSUME NEW c \in Causes
      PROVE  Queued(c)' <=> \E i \in 1..Len(q1) : queue[i + 1] = Command(c)
  BY <1>1 DEF Queued, Command
<1>5. \A i \in 1..Len(q1) : i + 1 \in 2..Len(queue)
  BY <1>1
<1>6. \A k \in 2..Len(queue) : k - 1 \in 1..Len(q1) /\ (k - 1) + 1 = k
  BY <1>1
<1>7. ASSUME NEW c \in Causes PROVE Queued(c) <=> Carried(c)' \/ Queued(c)'
  <2>1. ASSUME Queued(c) PROVE Carried(c)' \/ Queued(c)'
    <3>1. PICK k \in 1..Len(queue) : queue[k] = Command(c)
      BY <2>1 DEF Queued
    <3>2. CASE k = 1
      BY <1>1, <1>3, <3>1, <3>2
    <3>3. CASE k # 1
      <4>1. k - 1 \in 1..Len(q1) /\ queue[(k - 1) + 1] = Command(c)
        BY <1>1, <1>6, <3>1, <3>3
      <4>2. QED
        BY <1>4, <4>1
    <3>4. QED
      BY <3>2, <3>3
  <2>2. ASSUME Carried(c)' PROVE Queued(c)
    BY <1>1, <1>3, <2>2 DEF Queued
  <2>3. ASSUME Queued(c)' PROVE Queued(c)
    <3>1. PICK i \in 1..Len(q1) : queue[i + 1] = Command(c)
      BY <1>4, <2>3
    <3>2. QED
      BY <1>1, <1>5, <3>1 DEF Queued
  <2>4. QED
    BY <2>1, <2>2, <2>3
<1>8. UNCHANGED written
  BY DEF Take
<1>9. InOrder'
  <2>1. CommandsInOrder'
    BY <1>8 DEF InOrder, CommandsInOrder, Before
  <2>2. \A a \in 1..Len(written), c \in Causes :
           Carried(c)' \/ Queued(c)' => Before(written[a], c)
    BY <1>7 DEF InOrder
  <2>3. ASSUME NEW c \in Causes, NEW d \in Causes, Carried(c)', Queued(d)'
        PROVE  Before(c, d)
    <3>1. PICK i \in 1..Len(q1) : queue[i + 1] = Command(d)
      BY <1>4, <2>3
    <3>2. queue[1] = Command(c) /\ 1 \in 1..Len(queue) /\ i + 1 \in 1..Len(queue) /\ 1 < i + 1
      BY <1>1, <1>3, <1>5, <2>3
    <3>3. QED
      BY <3>1, <3>2 DEF InOrder
  <2>4. ASSUME NEW j \in 1..Len(q1), NEW k \in 1..Len(q1), NEW c \in Causes,
               NEW d \in Causes, j < k, q1[j] = Command(c), q1[k] = Command(d)
        PROVE  Before(c, d)
    <3>1. /\ queue[j + 1] = Command(c) /\ queue[k + 1] = Command(d) /\ j + 1 < k + 1
          /\ j + 1 \in 1..Len(queue) /\ k + 1 \in 1..Len(queue)
      BY <1>1, <1>5, <2>4
    <3>2. QED
      BY <3>1 DEF InOrder
  <2>5. QED
    BY <1>1, <1>8, <2>1, <2>2, <2>3, <2>4 DEF InOrder, Before, Command
<1>10. QED
  BY <1>2, <1>7, <1>8, <1>9

\* The end of sendCmd: what lies on the stack is written, behind all that was.
LEMMA WriteOrder ==
    ASSUME Shape, InOrder, Write, \A c \in Causes : Carried(c)' => Carried(c)
    PROVE  /\ InOrder' /\ UNCHANGED queue
           /\ \A c \in Causes :
                 (Carried(c) \/ Reached(c)) <=> (Carried(c)' \/ Reached(c)')
<1> DEFINE f == Head(frames)
<1>1. /\ f = frames[1] /\ f \in Frames /\ f.at = "write"
      /\ frames # <<>> /\ frames \in Seq(Frames)
      /\ Len(frames) \in Nat \ {0}
      /\ ChatWrite(f) => Len(frames) = 1
  BY HeadUnder DEF Write, Top, Shape, TypeOK
<1>2. f.cause \in Causes \cup {Other} /\ f = WriteFrame(f.cause)
  BY <1>1 DEF Frames, WriteFrame
<1>3. frames' = <<>> \o Tail(frames) /\ UNCHANGED queue
  BY WriteFits DEF Write
<1>4. written \in Seq(Causes) /\ Len(written) \in Nat
  BY LenProperties DEF Shape, TypeOK
<1>5. CASE f.cause = Other
  <2>1. UNCHANGED written
    BY <1>5 DEF Write
  <2>2. InOrder' /\ \A c \in Causes : Reached(c)' <=> Reached(c)
    BY <1>3, <2>1, QuietOrder DEF Shape
  <2>3. ASSUME NEW c \in Causes, Carried(c) PROVE Carried(c)'
    <3>1. ~ChatWrite(Head(frames))
      BY <1>5 DEF ChatWrite
    <3>2. \A d \in Causes : Carried(d) => Carried(d)'
      BY <1>1, <1>3, <3>1, FitsNone, HandlerStack DEF Shape
    <3>3. QED
      BY <2>3, <3>2
  <2>4. QED
    BY <1>3, <2>2, <2>3
<1>6. CASE f.cause # Other
  <2> DEFINE c0 == f.cause
  <2>1. c0 \in Causes /\ ChatWrite(f) /\ written' = Append(written, c0)
    BY <1>1, <1>2, <1>6 DEF ChatWrite, Write
  <2>2. Len(frames) = 1 /\ frames[1] = WriteFrame(c0)
    BY <1>1, <1>2, <2>1
  <2>3. frames' = <<>>
    BY <1>1, <1>3, <2>2
  <2> HIDE DEF f
  <2> HIDE DEF c0
  <2>4. \A c \in Causes : ~Carried(c)' /\ (Carried(c) <=> c = c0)
    <3>1. \A c \in Causes : ~Carried(c)'
      BY <2>3 DEF Carried
    <3>2. \A c \in Causes : Carried(c) <=> WriteFrame(c0) = WriteFrame(c)
      BY <2>2 DEF Carried
    <3>3. \A c \in Causes : WriteFrame(c0) = WriteFrame(c) <=> c = c0
      BY DEF WriteFrame
    <3>4. QED
      BY <3>1, <3>2, <3>3
  <2>5. /\ Len(written') = Len(written) + 1 /\ written'[Len(written) + 1] = c0
        /\ \A a \in 1..Len(written) : written'[a] = written[a]
    BY <1>4, <2>1
  <2>6. Carried(c0)
    BY <2>1, <2>4
  <2>7. \A c \in Causes : (Queued(c)' <=> Queued(c)) /\ (Reached(c)' <=> Reached(c) \/ c = c0)
    <3>1. ASSUME NEW c \in Causes, Reached(c)' PROVE Reached(c) \/ c = c0
      <4>1. PICK k \in 1..Len(written') : written'[k] = c
        BY <3>1 DEF Reached
      <4>2. k \in 1..Len(written) \/ k = Len(written) + 1
        BY <1>4, <2>5
      <4>3. QED
        BY <2>5, <4>1, <4>2 DEF Reached
    <3>2. ASSUME NEW c \in Causes, Reached(c) \/ c = c0 PROVE Reached(c)'
      <4>1. \A k \in 1..Len(written) : k \in 1..Len(written')
        BY <1>4, <2>5
      <4>2. Len(written) + 1 \in 1..Len(written')
        BY <1>4, <2>5
      <4>3. QED
        BY <2>5, <3>2, <4>1, <4>2 DEF Reached
    <3>3. QED
      BY <1>3, <3>1, <3>2 DEF Queued
  <2>8. \A a \in 1..Len(written') : a \in 1..Len(written) \/ a = Len(written) + 1
    BY <1>4, <2>5
  <2>9. ASSUME NEW a \in 1..Len(written'), NEW b \in 1..Len(written'), a < b
        PROVE  Before(written'[a], written'[b])
    <3>1. a \in 1..Len(written)
      BY <1>4, <2>5, <2>9
    <3>2. CASE b \in 1..Len(written)
      BY <2>5, <2>9, <3>1, <3>2 DEF InOrder, CommandsInOrder
    <3>3. CASE b = Len(written) + 1
      <4>1. Before(written[a], c0)
        BY <2>1, <2>6, <3>1 DEF InOrder
      <4>2. QED
        BY <2>5, <3>1, <3>3, <4>1
    <3>4. QED
      BY <2>8, <3>2, <3>3
  <2>10. ASSUME NEW a \in 1..Len(written'), NEW c \in Causes, Queued(c)
         PROVE  Before(written'[a], c)
    <3>1. CASE a \in 1..Len(written)
      BY <2>5, <2>10, <3>1 DEF InOrder
    <3>2. CASE a = Len(written) + 1
      <4>1. Before(c0, c)
        BY <2>1, <2>6, <2>10 DEF InOrder
      <4>2. QED
        BY <2>5, <3>2, <4>1
    <3>3. QED
      BY <2>8, <3>1, <3>2
  <2>11. CommandsInOrder'
    BY <2>9 DEF CommandsInOrder, Before
  <2>12. InOrder'
    BY <1>3, <2>4, <2>7, <2>10, <2>11 DEF InOrder, Before, Command
  <2>13. QED
    BY <1>3, <2>4, <2>7, <2>12
<1>7. QED
  BY <1>5, <1>6

\* A command that is sent goes behind those there are.
LEMMA SignalOrder ==
    ASSUME TypeOK, InOrder, UNCHANGED <<written, frames>>,
           NEW c0 \in Causes, Emit(Command(c0)),
           \A c \in Causes : Carried(c) \/ Queued(c) \/ Reached(c) => Before(c, c0)
    PROVE  /\ InOrder'
           /\ \A c \in Causes : (Carried(c)' <=> Carried(c)) /\ (Reached(c)' <=> Reached(c))
           /\ \A c \in Causes : Queued(c)' <=> Queued(c) \/ c = c0
<1>1. queue \in Seq(Signals) /\ Len(queue) \in Nat /\ written \in Seq(Causes)
  BY LenProperties DEF TypeOK
<1>2. /\ Len(queue') = Len(queue) + 1 /\ queue'[Len(queue) + 1] = Command(c0)
      /\ \A k \in 1..Len(queue) : queue'[k] = queue[k]
  BY <1>1 DEF Emit
<1>3. \A k \in 1..Len(queue') : k \in 1..Len(queue) \/ k = Len(queue) + 1
  BY <1>1, <1>2
<1>4. \A c, d \in Causes : Command(c) = Command(d) => c = d
  BY DEF Command
<1>5. \A c \in Causes : (Carried(c)' <=> Carried(c)) /\ (Reached(c)' <=> Reached(c))
  BY DEF Carried, Reached
<1>6. \A c \in Causes : Queued(c)' <=> Queued(c) \/ c = c0
  <2>1. ASSUME NEW c \in Causes, Queued(c)' PROVE Queued(c) \/ c = c0
    <3>1. PICK k \in 1..Len(queue') : queue'[k] = Command(c)
      BY <2>1 DEF Queued, Command
    <3>2. QED
      BY <1>2, <1>3, <1>4, <3>1 DEF Queued
  <2>2. ASSUME NEW c \in Causes, Queued(c) \/ c = c0 PROVE Queued(c)'
    <3>1. \E k \in 1..Len(queue') : queue'[k] = Command(c)
      <4>1. Len(queue) + 1 \in 1..Len(queue')
        BY <1>1, <1>2
      <4>2. \A k \in 1..Len(queue) : k \in 1..Len(queue')
        BY <1>1, <1>2
      <4>3. QED
        BY <1>2, <2>2, <4>1, <4>2 DEF Queued
    <3>2. QED
      BY <3>1 DEF Queued, Command
  <2>3. QED
    BY <2>1, <2>2
<1>7. CommandsInOrder'
  BY DEF InOrder, CommandsInOrder, Before
<1>8. \A a \in 1..Len(written) : written[a] \in Causes /\ Before(written[a], c0)
  <2>1. TAKE a \in 1..Len(written)
  <2>2. written[a] \in Causes
    BY <1>1
  <2>3. Reached(written[a])
    BY DEF Reached
  <2>4. QED
    BY <2>2, <2>3
<1>9. \A a \in 1..Len(written), c \in Causes :
         Carried(c)' \/ Queued(c)' => Before(written[a], c)
  BY <1>5, <1>6, <1>8 DEF InOrder
<1>10. \A c, d \in Causes : Carried(c)' /\ Queued(d)' => Before(c, d)
  BY <1>5, <1>6 DEF InOrder
<1>11. ASSUME NEW j \in 1..Len(queue'), NEW k \in 1..Len(queue'), NEW c \in Causes,
              NEW d \in Causes, j < k, queue'[j] = Command(c), queue'[k] = Command(d)
       PROVE  Before(c, d)
  <2>1. j \in 1..Len(queue) /\ queue[j] = Command(c)
    BY <1>1, <1>2, <1>3, <1>11
  <2>2. CASE k \in 1..Len(queue)
    BY <1>2, <1>11, <2>1, <2>2 DEF InOrder
  <2>3. CASE k = Len(queue) + 1
    <3>1. d = c0
      BY <1>2, <1>4, <1>11, <2>3
    <3>2. Queued(c)
      BY <2>1 DEF Queued
    <3>3. QED
      BY <3>1, <3>2
  <2>4. QED
    BY <1>3, <2>2, <2>3
<1>12. InOrder'
  BY <1>7, <1>9, <1>10, <1>11 DEF InOrder, Before, Command
<1>13. QED
  BY <1>5, <1>6, <1>12

-----------------------------------------------------------------------------
(* That they come from rules, and none is lost *)

\* The commands on their way or there.
Known(c) == Carried(c) \/ Queued(c) \/ Reached(c)

LEMMA WaitsKnown == \A c : Waits(c) \/ Reached(c) <=> Known(c)
BY DEF Waits, Known, Carried, Queued

LEMMA SoundStays ==
    ASSUME Sound,
           \A c \in Causes : Known(c)' => Known(c) \/ (Asked(c[1], c[2])' /\ Passed(c[1], c[2])'),
           \A c \in Causes : Asked(c[1], c[2]) /\ Passed(c[1], c[2]) =>
              Asked(c[1], c[2])' /\ Passed(c[1], c[2])'
    PROVE  Sound'
<1>1. \A c \in Causes : Known(c)' => Asked(c[1], c[2])' /\ Passed(c[1], c[2])'
  BY DEF Sound, Known
<1>2. QED
  BY <1>1 DEF Sound, Known

LEMMA KeptStays ==
    ASSUME TypeOK', CommandsKept, Sound',
           \A c \in Causes : Known(c) => Known(c)',
           \A m, i \in Nat : Asked(m, i)' /\ Passed(m, i)' =>
              \/ Asked(m, i) /\ Passed(m, i)
              \/ Known(<<m, i>>)'
    PROVE  CommandsKept'
<1>1. /\ heard' \in Seq(Messages) /\ Len(heard') \in Nat /\ Len(heard') <= MaxMessages
      /\ written' \in Seq(Causes)
  BY LenProperties DEF TypeOK
<1>2. ASSUME NEW m \in 1..Len(heard'), NEW i \in 1..Len(heard'[m].list),
             Asked(m, i)', Passed(m, i)'
      PROVE  Waits(<<m, i>>)' \/ Reached(<<m, i>>)'
  <2>1. heard'[m] \in Messages
    BY <1>1
  <2>2. m \in 1..MaxMessages /\ i \in Nat /\ m \in Nat
    BY <1>1, <2>1, LenProperties, BoundsAssumption DEF Messages
  <2>3. <<m, i>> \in Causes
    BY <2>2 DEF Causes
  <2>4. CASE Asked(m, i) /\ Passed(m, i)
    <3>1. Known(<<m, i>>)
      <4>1. m \in 1..Len(heard) /\ i \in 1..Len(heard[m].list)
        BY <2>4 DEF Asked
      <4>2. Waits(<<m, i>>) \/ Reached(<<m, i>>)
        BY <2>4, <4>1 DEF CommandsKept
      <4>3. QED
        BY <4>2, WaitsKnown
    <3>2. Known(<<m, i>>)'
      BY <2>3, <3>1
    <3>3. QED
      BY <3>2 DEF Waits, Known, Carried, Queued, Command, WriteFrame
  <2>5. CASE Known(<<m, i>>)'
    BY <2>5 DEF Waits, Known, Carried, Queued, Command, WriteFrame
  <2>6. QED
    BY <1>2, <2>2, <2>4, <2>5
<1>3. ASSUME NEW k \in 1..Len(written'), NEW c, c = written'[k]
      PROVE  Asked(c[1], c[2])'
  <2>1. c \in Causes
    BY <1>1, <1>3
  <2>2. Reached(c)'
    BY <1>3 DEF Reached
  <2>3. QED
    BY <2>1, <2>2 DEF Sound
<1>4. (\A k \in 1..Len(written) : Asked(written[k][1], written[k][2]))'
  BY <1>3 DEF Asked, Applies
<1>5. (\A m \in 1..Len(heard) : \A i \in 1..Len(heard[m].list) :
          Asked(m, i) /\ Passed(m, i) => Waits(<<m, i>>) \/ Reached(<<m, i>>))'
  BY <1>2
<1>6. QED
  BY <1>4, <1>5 DEF CommandsKept

Ordered == InOrder /\ Sound /\ CommandsKept

\* A step that is not of the receive thread: whatever is known stays known.
LEMMA GuiStep ==
    ASSUME Ordered, TypeOK', InOrder', UNCHANGED <<heard, pos>>,
           \A c \in Causes : Known(c)' <=> Known(c)
    PROVE  Ordered'
<1>1. \A m, i : (Asked(m, i)' <=> Asked(m, i)) /\ (Passed(m, i)' <=> Passed(m, i))
  BY DEF Asked, Passed, Now, Applies
<1>2. Sound'
  BY <1>1, SoundStays DEF Ordered
<1>3. CommandsKept'
  BY <1>1, <1>2, KeptStays DEF Ordered
<1>4. QED
  BY <1>2, <1>3 DEF Ordered

\* The receive thread goes on to the next rule: all it has passed by now was passed before,
\* or is the rule it was at.
LEMMA NextRule ==
    ASSUME Shape, AtRule, UNCHANGED heard, pos' = pos + 1
    PROVE  /\ \A m, i : Asked(m, i)' <=> Asked(m, i)
           /\ \A m, i \in Nat : Passed(m, i) => Passed(m, i)'
           /\ \A m, i \in Nat : Passed(m, i)' => Passed(m, i) \/ (m = Now /\ i = pos)
<1>1. pos \in Nat \ {0} /\ Now \in Nat
  BY AtList DEF AtRule, Shape, TypeOK
<1>2. \A m, i : Asked(m, i)' <=> Asked(m, i)
  BY DEF Asked, Applies
<1>3. Now' = Now
  BY DEF Now
<1>4. QED
  BY <1>1, <1>2, <1>3 DEF Passed

\* A step of the receive thread that passes no rule which calls for a command.
LEMMA QuietReader ==
    ASSUME Ordered, TypeOK, TypeOK', UNCHANGED <<frames, written, heard>>,
           UNCHANGED queue \/ \E s \in Signals : s.signal # "command" /\ Emit(s),
           \A m, i \in Nat : Passed(m, i) => Passed(m, i)',
           \A m, i \in Nat : Asked(m, i) /\ Passed(m, i)' => Passed(m, i)
    PROVE  Ordered'
<1>1. \A c \in Causes : Carried(c)' <=> Carried(c)
  BY DEF Carried
<1>2. /\ InOrder'
      /\ \A c \in Causes : (Queued(c)' <=> Queued(c)) /\ (Reached(c)' <=> Reached(c))
  BY <1>1, QuietOrder DEF Ordered
<1>3. \A m, i : Asked(m, i)' <=> Asked(m, i)
  BY DEF Asked, Applies
<1>4. \A c \in Causes : Known(c)' <=> Known(c)
  BY <1>1, <1>2 DEF Known
<1>5. \A c \in Causes : c[1] \in Nat /\ c[2] \in Nat
  BY BoundsAssumption DEF Causes
<1>6. Sound'
  BY <1>3, <1>4, <1>5, SoundStays DEF Ordered
<1>7. CommandsKept'
  BY <1>3, <1>4, <1>6, KeptStays DEF Ordered
<1>8. QED
  BY <1>2, <1>6, <1>7 DEF Ordered

LEMMA SkipOrdered == ASSUME Shape, Ordered, Shape', Skip PROVE Ordered'
<1>1. ~Asked(Now, pos)
  BY DEF Skip, Asked
<1>2. /\ \A m, i \in Nat : Passed(m, i) => Passed(m, i)'
      /\ \A m, i \in Nat : Passed(m, i)' => Passed(m, i) \/ (m = Now /\ i = pos)
  BY NextRule DEF Skip
<1>3. \A m, i \in Nat : Asked(m, i) /\ Passed(m, i)' => Passed(m, i)
  BY <1>1, <1>2
<1>4. QED
  BY <1>2, <1>3, QuietReader DEF Skip, Shape

LEMMA ReplyOrdered == ASSUME Shape, Ordered, Shape', Reply PROVE Ordered'
<1>1. ~Asked(Now, pos)
  BY DEF Reply, Asked
<1>2. /\ \A m, i \in Nat : Passed(m, i) => Passed(m, i)'
      /\ \A m, i \in Nat : Passed(m, i)' => Passed(m, i) \/ (m = Now /\ i = pos)
  BY NextRule DEF Reply
<1>3. \A m, i \in Nat : Asked(m, i) /\ Passed(m, i)' => Passed(m, i)
  BY <1>1, <1>2
<1>4. QED
  BY <1>2, <1>3, QuietReader DEF Reply, Shape

LEMMA SignalOrdered == ASSUME Shape, Ordered, Shape', Signal PROVE Ordered'
<1>1. pos # 0 /\ pos \in Nat /\ pos <= Len(heard[Now].list)
  BY DEF Signal, AtRule, Shape, TypeOK
<1>2. /\ \A m, i : Asked(m, i)' <=> Asked(m, i)
      /\ \A m, i \in Nat : Passed(m, i) => Passed(m, i)'
      /\ \A m, i \in Nat : Passed(m, i)' => Passed(m, i) \/ (m = Now /\ i = pos)
  BY NextRule DEF Signal
<1>3. CASE heard[Now].list[pos].action # "console"
  <2>1. ~Asked(Now, pos)
    BY <1>3 DEF Asked
  <2>2. \A m, i \in Nat : Asked(m, i) /\ Passed(m, i)' => Passed(m, i)
    BY <1>2, <2>1
  <2>3. \E s \in Signals : s.signal # "command" /\ Emit(s)
    BY <1>3, SignalsTyped DEF Signal, EventNames
  <2>4. QED
    BY <1>2, <2>2, <2>3, QuietReader DEF Signal, Shape
<1>4. CASE heard[Now].list[pos].action = "console"
  <2>1. Now \in 1..MaxMessages /\ Now \in 1..Len(heard) /\ Now \in Nat
    <3>1. Now \in 1..MaxMessages /\ Now = Len(heard)
      BY <1>1, AtList
    <3>2. QED
      BY <3>1, BoundsAssumption
  <2>2. PICK m0 \in Nat, i0 \in Nat : m0 = Now /\ i0 = pos
    BY <1>1, <2>1
  <2>3. PICK c0 \in Causes : c0 = <<m0, i0>>
    BY <1>1, <2>1, <2>2 DEF Causes
  <2>4. Emit(Command(c0))
    BY <1>4, <2>2, <2>3 DEF Signal
  <2>5. Asked(m0, i0)
    <3>1. Len(heard[Now].list) \in Nat
      BY <1>1, AtList
    <3>2. pos \in 1..Len(heard[Now].list)
      BY <1>1, <3>1
    <3>3. QED
      BY <1>4, <2>1, <2>2, <3>2 DEF Signal, Asked
  <2>6. Passed(m0, i0)'
    <3>1. Now' = Now /\ pos' = pos + 1
      BY DEF Signal, Now
    <3>2. QED
      BY <1>1, <2>1, <2>2, <3>1 DEF Passed
  <2>7. \A c \in Causes : c[1] \in Nat /\ c[2] \in Nat
    BY BoundsAssumption DEF Causes
  <2>8. ASSUME NEW c \in Causes, Carried(c) \/ Queued(c) \/ Reached(c) PROVE Before(c, c0)
    <3>1. Passed(c[1], c[2])
      BY <2>8 DEF Ordered, Sound
    <3>2. c[1] < m0 \/ (c[1] = m0 /\ c[2] < i0)
      BY <1>1, <2>2, <3>1 DEF Passed
    <3>3. QED
      BY <2>3, <3>2 DEF Before
  <2>9. /\ InOrder'
        /\ \A c \in Causes : (Carried(c)' <=> Carried(c)) /\ (Reached(c)' <=> Reached(c))
        /\ \A c \in Causes : Queued(c)' <=> Queued(c) \/ c = c0
    BY <2>4, <2>8, SignalOrder DEF Signal, Ordered, Shape
  <2>10. \A c \in Causes : Known(c)' <=> Known(c) \/ c = c0
    BY <2>9 DEF Known
  <2>11. Sound'
    <3>1. Asked(m0, i0)'
      BY <1>2, <2>5
    <3>2. \A c \in Causes : Known(c)' =>
             Known(c) \/ (Asked(c[1], c[2])' /\ Passed(c[1], c[2])')
      BY <2>3, <2>6, <2>10, <3>1
    <3>3. \A c \in Causes : Asked(c[1], c[2]) /\ Passed(c[1], c[2]) =>
             Asked(c[1], c[2])' /\ Passed(c[1], c[2])'
      BY <1>2, <2>7
    <3>4. QED
      BY <3>2, <3>3, SoundStays DEF Ordered
  <2>12. CommandsKept'
    <3>1. \A m, i \in Nat : Asked(m, i)' /\ Passed(m, i)' =>
             (Asked(m, i) /\ Passed(m, i)) \/ <<m, i>> = c0
      BY <1>2, <2>2, <2>3
    <3>2. Known(c0)'
      BY <2>10
    <3>3. ASSUME NEW m \in Nat, NEW i \in Nat, Asked(m, i)', Passed(m, i)'
          PROVE  (Asked(m, i) /\ Passed(m, i)) \/ Known(<<m, i>>)'
      <4>1. CASE <<m, i>> = c0
        BY <3>2, <4>1
      <4>2. QED
        BY <3>1, <3>3, <4>1
    <3>4. QED
      BY <2>10, <2>11, <3>3, KeptStays DEF Ordered, Shape
  <2>13. QED
    BY <2>9, <2>11, <2>12 DEF Ordered
<1>5. QED
  BY <1>3, <1>4

LEMMA DoneOrdered == ASSUME Shape, Ordered, Shape', Done PROVE Ordered'
<1>1. /\ pos \in Nat \ {0} /\ pos > Len(heard[Now].list) /\ pos' = 0 /\ Now' = Now
      /\ UNCHANGED <<frames, written, heard, queue>>
  BY DEF Done, AtRule, Shape, TypeOK, Now
<1>2. Now \in Nat /\ Len(heard[Now].list) \in Nat
  BY <1>1, AtList
<1>3. \A m, i \in Nat : Passed(m, i) => Passed(m, i)'
  BY <1>1, <1>2 DEF Passed
<1>4. \A m, i \in Nat : Asked(m, i) /\ Passed(m, i)' => Passed(m, i)
  BY <1>1, <1>2 DEF Passed, Asked
<1>5. QED
  BY <1>1, <1>3, <1>4, QuietReader DEF Shape

\* Of the message that comes nothing is passed, and it comes when the others are.
LEMMA HearOrdered ==
    ASSUME Shape, Ordered, Shape', NEW text \in Texts, NEW admin \in BOOLEAN, Hear(text, admin)
    PROVE  Ordered'
<1>1. /\ Len(heard) \in Nat /\ Now = Len(heard) /\ Now' = Now + 1
      /\ Len(heard') = Len(heard) + 1
      /\ \A m \in 1..Len(heard) : heard'[m] = heard[m]
      /\ pos = 0 /\ pos' = 1
      /\ UNCHANGED <<frames, written>>
  BY DEF Hear, Shape, TypeOK, Now
<1>2. \E s \in Signals : s.signal # "command" /\ Emit(s)
  BY SignalsTyped DEF Hear, EventNames
<1>3. \A c \in Causes : Carried(c)' <=> Carried(c)
  BY <1>1 DEF Carried
<1>4. /\ InOrder'
      /\ \A c \in Causes : (Queued(c)' <=> Queued(c)) /\ (Reached(c)' <=> Reached(c))
  BY <1>1, <1>2, <1>3, QuietOrder DEF Ordered, Shape
<1>5. \A c \in Causes : Known(c)' <=> Known(c)
  BY <1>3, <1>4 DEF Known
<1>6. \A m, i \in Nat : Asked(m, i) => Asked(m, i)' /\ Passed(m, i)'
  <2>1. ASSUME NEW m \in Nat, NEW i \in Nat, Asked(m, i)
        PROVE  Asked(m, i)' /\ Passed(m, i)'
    <3>1. m \in 1..Len(heard) /\ m \in 1..Len(heard') /\ heard'[m] = heard[m]
      BY <1>1, <2>1 DEF Asked
    <3>2. Asked(m, i)'
      BY <2>1, <3>1 DEF Asked, Applies
    <3>3. QED
      BY <1>1, <3>1, <3>2 DEF Passed
  <2>2. QED
    BY <2>1
<1>7. \A m, i \in Nat : Asked(m, i)' /\ Passed(m, i)' => Asked(m, i) /\ Passed(m, i)
  <2>1. ASSUME NEW m \in Nat, NEW i \in Nat, Asked(m, i)', Passed(m, i)'
        PROVE  Asked(m, i) /\ Passed(m, i)
    <3>1. m \in 1..Len(heard') /\ i \in 1..Len(heard'[m].list)
      BY <2>1 DEF Asked
    <3>2. i >= 1
      <4>1. heard' \in Seq(Messages)
        BY DEF Shape, TypeOK
      <4>2. heard'[m] \in Messages
        BY <3>1, <4>1
      <4>3. Len(heard'[m].list) \in Nat
        BY <4>2, LenProperties DEF Messages
      <4>4. QED
        BY <3>1, <4>3
    <3>3. m \in 1..Len(heard) /\ heard'[m] = heard[m]
      BY <1>1, <2>1, <3>1, <3>2 DEF Passed
    <3>4. Asked(m, i)
      BY <2>1, <3>3 DEF Asked, Applies
    <3>5. QED
      BY <1>1, <3>3, <3>4 DEF Passed
  <2>2. QED
    BY <2>1
<1>8. \A c \in Causes : c[1] \in Nat /\ c[2] \in Nat
  BY BoundsAssumption DEF Causes
<1>9. Sound'
  BY <1>5, <1>6, <1>8, SoundStays DEF Ordered
<1>10. CommandsKept'
  BY <1>5, <1>7, <1>9, KeptStays DEF Ordered, Shape
<1>11. QED
  BY <1>4, <1>9, <1>10 DEF Ordered

LEMMA ReaderOrdered == ASSUME Shape, Ordered, Shape', Reader PROVE Ordered'
<1>1. CASE ReplySends \/ AskToStart
  <2>1. UNCHANGED <<frames, written, heard, pos>>
    BY <1>1 DEF ReplySends, AskToStart
  <2>2. UNCHANGED queue \/ \E s \in Signals : s.signal # "command" /\ Emit(s)
    BY <1>1, SignalsTyped DEF ReplySends, AskToStart, EventNames
  <2>3. \A m, i : Passed(m, i)' <=> Passed(m, i)
    BY <2>1 DEF Passed, Now
  <2>4. QED
    BY <2>1, <2>2, <2>3, QuietReader DEF Shape
<1>2. QED
  BY <1>1, SkipOrdered, SignalOrdered, ReplyOrdered, DoneOrdered DEF Reader

LEMMA TakeOrdered == ASSUME Shape, Ordered, Shape', Take PROVE Ordered'
<1>1. /\ InOrder' /\ UNCHANGED written
      /\ \A c \in Causes : (Carried(c) \/ Queued(c)) <=> (Carried(c)' \/ Queued(c)')
  BY TakeOrder DEF Shape, Ordered
<1>2. \A c \in Causes : Known(c)' <=> Known(c)
  BY <1>1 DEF Known, Reached
<1>3. QED
  BY <1>1, <1>2, GuiStep DEF Take, reader, Shape

\* Nothing of a chat rule is on the stack, before or after.
LEMMA BeginOrdered == ASSUME Shape, Ordered, Shape', Begin PROVE Ordered'
<1>1. \A c \in Causes : ~Carried(c)
  BY DEF Begin, Idle, Carried
<1>2. ASSUME NEW c \in Causes PROVE ~Carried(c)'
  <2>1. /\ WriteFrame(c).at = "write" /\ WriteFrame(c).cause = c /\ c # Other
        /\ WriteFrame(Other).cause = Other
    BY FrameFacts DEF Causes, Other
  <2>2. \A text \in Texts : LineFrame(text, 1) # WriteFrame(c)
    BY <2>1, FrameFacts
  <2>3. /\ EventFrame("onLogin", 1) # WriteFrame(c)
        /\ EventFrame("onSendCommand", 1) # WriteFrame(c)
    BY <2>1, FrameFacts DEF EventNames
  <2>4. WriteFrame(Other) # WriteFrame(c)
    BY <2>1
  <2>5. \A k \in 1..Len(frames') : frames'[k] # WriteFrame(c)
    BY <2>2, <2>3, <2>4 DEF Begin, SendCmd
  <2>6. QED
    BY <2>5 DEF Carried, WriteFrame
<1>3. InOrder' /\ \A c \in Causes : (Queued(c)' <=> Queued(c)) /\ (Reached(c)' <=> Reached(c))
  BY <1>2, QuietOrder DEF Begin, Shape, Ordered
<1>4. \A c \in Causes : Known(c)' <=> Known(c)
  BY <1>1, <1>2, <1>3 DEF Known
<1>5. QED
  BY <1>3, <1>4, GuiStep DEF Begin, reader, Shape

LEMMA HandlerOrdered == ASSUME Shape, Ordered, Shape', Handler PROVE Ordered'
<1>1. /\ \A c \in Causes : Carried(c)' => Carried(c)
      /\ ~ChatWrite(Head(frames)) => \A c \in Causes : Carried(c) => Carried(c)'
  BY HandlerShape
<1>2. CASE Write
  <2>1. /\ InOrder' /\ UNCHANGED queue
        /\ \A c \in Causes : (Carried(c) \/ Reached(c)) <=> (Carried(c)' \/ Reached(c)')
    BY <1>1, <1>2, WriteOrder DEF Ordered
  <2>2. \A c \in Causes : Known(c)' <=> Known(c)
    BY <2>1 DEF Known, Queued
  <2>3. QED
    BY <1>2, <2>1, <2>2, GuiStep DEF Write, reader, Shape
<1>3. CASE LineRule \/ EventRule \/ Send \/ StartServer
  <2>1. ~ChatWrite(Head(frames)) /\ UNCHANGED <<queue, reader, written>>
    BY <1>3 DEF LineRule, EventRule, Send, StartServer, Top, ChatWrite
  <2>2. InOrder' /\ \A c \in Causes : (Queued(c)' <=> Queued(c)) /\ (Reached(c)' <=> Reached(c))
    BY <1>1, <2>1, QuietOrder DEF Shape, Ordered
  <2>3. \A c \in Causes : Known(c)' <=> Known(c)
    BY <1>1, <2>1, <2>2 DEF Known
  <2>4. QED
    BY <2>1, <2>2, <2>3, GuiStep DEF reader, Shape
<1>4. QED
  BY <1>2, <1>3 DEF Handler

LEMMA StutterOrdered ==
    ASSUME Ordered, Shape, UNCHANGED <<frames, queue, reader, written>>, TypeOK'
    PROVE  Ordered'
<1>1. \A c \in Causes : Carried(c)' <=> Carried(c)
  BY DEF Carried
<1>2. InOrder' /\ \A c \in Causes : (Queued(c)' <=> Queued(c)) /\ (Reached(c)' <=> Reached(c))
  BY <1>1, QuietOrder DEF Shape, Ordered
<1>3. \A c \in Causes : Known(c)' <=> Known(c)
  BY <1>1, <1>2 DEF Known
<1>4. QED
  BY <1>2, <1>3, GuiStep DEF reader

-----------------------------------------------------------------------------
(* The theorems *)

LEMMA InitInv == Init => Shape /\ Ordered
<1> SUFFICES ASSUME Init PROVE Shape /\ Ordered
  OBVIOUS
<1>2. Shape
  <2>1. TypeOK
    <3>1. regular \in Seq(Rules) /\ event \in EventFiles
      BY ListsAssumption DEF Init
    <3>2. /\ frames \in Seq(Frames) /\ queue \in Seq(Signals)
          /\ heard \in Seq(Messages) /\ Len(heard) <= MaxMessages
          /\ written \in Seq(Causes)
      BY BoundsAssumption DEF Init
    <3>3. pos \in Nat /\ owed \in Nat /\ starting \in BOOLEAN
      BY DEF Init
    <3>4. QED
      BY <3>1, <3>2, <3>3 DEF TypeOK
  <2>2. QED
    BY <2>1 DEF Init, Shape, StackInv, Bottom, ReaderInv
<1>3. \A c : ~Carried(c) /\ ~Queued(c) /\ ~Reached(c)
  BY DEF Init, Carried, Queued, Reached
<1>4. InOrder
  BY <1>3 DEF Init, InOrder, CommandsInOrder
<1>5. QED
  BY <1>2, <1>3, <1>4 DEF Init, Ordered, Sound, CommandsKept

LEMMA NextInv == Shape /\ Ordered /\ [Next]_vars => Shape' /\ Ordered'
<1>1. SUFFICES ASSUME Shape, Ordered, [Next]_vars PROVE Shape' /\ Ordered'
  OBVIOUS
<1>2. CASE Take
  BY <1>1, <1>2, TakeShape, TakeOrdered
<1>3. CASE Begin
  BY <1>1, <1>3, BeginShape, BeginOrdered
<1>4. CASE Edit
  <2>1. Shape'
    BY <1>1, <1>4, EditShape
  <2>2. QED
    BY <1>1, <1>4, <2>1, StutterOrdered DEF Edit, Shape
<1>5. CASE Handler
  <2>1. Shape'
    BY <1>1, <1>5, HandlerShape
  <2>2. QED
    BY <1>1, <1>5, <2>1, HandlerOrdered
<1>6. CASE Reader
  BY <1>1, <1>6, ReaderShape, ReaderOrdered
<1>7. ASSUME NEW text \in Texts, NEW admin \in BOOLEAN, Hear(text, admin)
      PROVE  Shape' /\ Ordered'
  BY <1>1, <1>7, HearShape, HearOrdered
<1>8. CASE UNCHANGED vars
  <2>1. Shape'
    BY <1>1, <1>8 DEF vars, reader, Shape, TypeOK, StackInv, ReaderInv
  <2>2. QED
    BY <1>1, <1>8, <2>1, StutterOrdered DEF vars, Shape
<1>9. QED
  BY <1>1, <1>2, <1>3, <1>4, <1>5, <1>6, <1>7, <1>8 DEF Next

\* The inductive invariant: what the variables hold, the stack, and the order.
THEOREM Invariance == Spec => [](Shape /\ Ordered)
BY InitInv, NextInv, PTL DEF Spec

\* The variables hold what they are said to hold.
THEOREM TypeCorrect == Spec => []TypeOK
<1>1. Shape /\ Ordered => TypeOK
  BY DEF Shape
<1>2. QED
  BY <1>1, Invariance, PTL

\* The commands of chat rules are handed to the server in the order of messages and rules,
\* for any rules, any event.yml and any number of messages.
THEOREM OrderKept == Spec => []CommandsInOrder
<1>1. Shape /\ Ordered => CommandsInOrder
  BY DEF Ordered, InOrder
<1>2. QED
  BY <1>1, Invariance, PTL

\* No command of a chat rule is lost between the threads, and none is made up.
THEOREM NothingLost == Spec => []CommandsKept
<1>1. Shape /\ Ordered => CommandsKept
  BY DEF Ordered
<1>2. QED
  BY <1>1, Invariance, PTL

-----------------------------------------------------------------------------
(* Every cascade is bounded *)

\* How many steps handlers take at most, when no rule for an event e takes w[e]: fuel.
\* A rule takes the steps of its action, and one in which it is chosen.
Allowances == [EventNames -> Nat]

EventFuel(w, e, i) ==
    IF i <= Len(event[e]) THEN (Len(event[e]) + 1 - i) * w[e] + 1 ELSE 1

Told(w, e) == EventFuel(w, e, 1) + 1

SendFuel(w, left) == left * Told(w, "onSendMsg") + 1

ActionFuel(w, action) ==
    CASE action \in {"console", "stop"} -> Told(w, "onSendCommand")
      [] action = "group" -> SendFuel(w, Groups)
      [] action = "reply" -> SendFuel(w, 1)
      [] action = "bind" -> EventFuel(w, "onBinded", 1)
      [] action = "start" -> SendFuel(w, 1) + Told(w, "onServerStart")
      [] OTHER -> 0

\* More than any action takes.
RuleFuel(w) ==
    Told(w, "onSendCommand") + SendFuel(w, Groups) + SendFuel(w, 1)
        + EventFuel(w, "onBinded", 1) + Told(w, "onServerStart") + 1

LineFuel(w, i) ==
    IF i <= Len(regular)
       THEN (Len(regular) + 1 - i) * RuleFuel(w) + Told(w, "onConsoleUpdate")
       ELSE Told(w, "onConsoleUpdate")

Fuel(w, f) ==
    CASE f.at = "line" -> LineFuel(w, f.i)
      [] f.at = "event" -> EventFuel(w, f.event, f.i)
      [] f.at = "send" -> SendFuel(w, f.left)
      [] f.at = "start" -> Told(w, "onServerStart")
      [] OTHER -> 1

\* The frames of stack have at most n between them: g[k] is what those from k on have.
Fuelled(w, stack, n) ==
    \E g \in [Nat -> Nat] :
        /\ g[1] <= n
        /\ \A k \in 1..Len(stack) : g[k] >= Fuel(w, stack[k]) + g[k + 1]

Suffices(w) ==
    \A e \in EventNames : \A i \in 1..Len(event[e]) : ActionFuel(w, event[e][i]) < w[e]

LEMMA Products == \A a, b \in Nat : a * b \in Nat
OBVIOUS

LEMMA FuelTypes ==
    ASSUME TypeOK, NEW w \in Allowances
    PROVE  /\ \A e \in EventNames : Len(event[e]) \in Nat /\ w[e] \in Nat
           /\ \A e \in EventNames, i \in Nat \ {0} : EventFuel(w, e, i) \in Nat \ {0}
           /\ \A e \in EventNames : Told(w, e) \in Nat \ {0}
           /\ \A left \in Nat : SendFuel(w, left) \in Nat \ {0}
           /\ \A a \in Actions : ActionFuel(w, a) \in Nat /\ ActionFuel(w, a) < RuleFuel(w)
           /\ RuleFuel(w) \in Nat
           /\ \A i \in Nat \ {0} : LineFuel(w, i) \in Nat \ {0}
           /\ \A f \in Frames : Fuel(w, f) \in Nat \ {0}
<1>1. \A e \in EventNames : Len(event[e]) \in Nat /\ w[e] \in Nat
  BY FilesAssumption DEF TypeOK, Allowances
<1>2. ASSUME NEW e \in EventNames, NEW i \in Nat \ {0}
      PROVE  EventFuel(w, e, i) \in Nat \ {0}
  <2>1. CASE i <= Len(event[e])
    <3>1. Len(event[e]) + 1 - i \in Nat
      BY <1>1, <2>1
    <3>2. (Len(event[e]) + 1 - i) * w[e] \in Nat
      BY <1>1, <3>1, Products
    <3>3. QED
      BY <2>1, <3>2 DEF EventFuel
  <2>2. QED
    BY <2>1 DEF EventFuel
<1>3. \A e \in EventNames : Told(w, e) \in Nat \ {0}
  BY <1>2 DEF Told
<1>4. ASSUME NEW left \in Nat PROVE SendFuel(w, left) \in Nat \ {0}
  <2>1. left * Told(w, "onSendMsg") \in Nat
    BY <1>3, Products DEF EventNames
  <2>2. QED
    BY <2>1 DEF SendFuel
<1>5. /\ Told(w, "onSendCommand") \in Nat \ {0} /\ SendFuel(w, Groups) \in Nat \ {0}
      /\ SendFuel(w, 1) \in Nat \ {0} /\ EventFuel(w, "onBinded", 1) \in Nat \ {0}
      /\ Told(w, "onServerStart") \in Nat \ {0} /\ Told(w, "onConsoleUpdate") \in Nat \ {0}
  BY <1>2, <1>3, <1>4, BoundsAssumption DEF EventNames
<1>6. RuleFuel(w) \in Nat
  BY <1>5 DEF RuleFuel
<1>7. \A a \in Actions : ActionFuel(w, a) \in Nat /\ ActionFuel(w, a) < RuleFuel(w)
  BY <1>5 DEF ActionFuel, RuleFuel, Actions
<1>8. ASSUME NEW i \in Nat \ {0} PROVE LineFuel(w, i) \in Nat \ {0}
  <2>1. CASE i <= Len(regular)
    <3>1. Len(regular) + 1 - i \in Nat
      BY <2>1, LenProperties DEF TypeOK
    <3>2. (Len(regular) + 1 - i) * RuleFuel(w) \in Nat
      BY <1>6, <3>1, Products
    <3>3. QED
      BY <1>5, <2>1, <3>2 DEF LineFuel
  <2>2. QED
    BY <1>5, <2>1 DEF LineFuel
<1>9. \A f \in Frames : Fuel(w, f) \in Nat \ {0}
  BY <1>2, <1>4, <1>5, <1>8 DEF Frames, Fuel
<1>10. QED
  BY <1>1, <1>2, <1>3, <1>4, <1>6, <1>7, <1>8, <1>9

\* Only the events an action raises matter to what it takes.
LEMMA ActionFuelLocal ==
    ASSUME NEW w, NEW v, NEW a \in Actions, \A e \in Raises[a] : w[e] = v[e]
    PROVE  ActionFuel(w, a) = ActionFuel(v, a)
<1>1. \A e \in Raises[a] : EventFuel(w, e, 1) = EventFuel(v, e, 1)
  BY DEF EventFuel
<1>2. QED
  BY <1>1 DEF ActionFuel, SendFuel, Told, Raises, Actions

\* Rules for an event raise only those of lower rank: so their allowances can be given in
\* the order of rank.
LEMMA AllowanceExists ==
    ASSUME TypeOK
    PROVE  \E w \in Allowances : Suffices(w)
<1> DEFINE Enough(w, e) == \A i \in 1..Len(event[e]) : ActionFuel(w, event[e][i]) < w[e]
           Upto(n) == \E w \in Allowances : \A e \in EventNames : Rank[e] < n => Enough(w, e)
           Bad == {n \in Nat : ~Upto(n)}
<1>1. \A e \in EventNames : Rank[e] \in Nat
  BY RanksAssumption
<1>2. 0 \notin Bad
  <2>1. [e \in EventNames |-> 0] \in Allowances
    BY DEF Allowances
  <2> HIDE DEF Enough
  <2>2. QED
    BY <1>1, <2>1
<1>3. ASSUME NEW r \in Nat, Upto(r) PROVE Upto(r + 1)
  <2>1. PICK w \in Allowances : \A e \in EventNames : Rank[e] < r => Enough(w, e)
    BY <1>3
  <2> DEFINE v == [e \in EventNames |-> IF Rank[e] < r THEN w[e] ELSE RuleFuel(w)]
  <2>2. RuleFuel(w) \in Nat
    BY FuelTypes
  <2>3. v \in Allowances
    BY <2>2 DEF Allowances
  <2>4. ASSUME NEW e \in EventNames, Rank[e] < r + 1, NEW i \in 1..Len(event[e])
        PROVE  ActionFuel(v, event[e][i]) < v[e]
    <3>1. /\ event[e][i] \in Actions /\ Raises[event[e][i]] \subseteq EventNames
          /\ \A f \in Raises[event[e][i]] : Rank[f] < Rank[e]
      BY RaisesRanked
    <3>2. \A f \in Raises[event[e][i]] : v[f] = w[f]
      BY <1>1, <2>4, <3>1
    <3> HIDE DEF v
    <3>3. ActionFuel(v, event[e][i]) = ActionFuel(w, event[e][i])
      BY <3>1, <3>2, ActionFuelLocal
    <3>4. CASE Rank[e] < r
      BY <2>1, <2>4, <3>3, <3>4 DEF v
    <3>5. CASE ~(Rank[e] < r)
      BY <3>1, <3>3, <3>5, FuelTypes DEF v
    <3>6. QED
      BY <3>4, <3>5
  <2> HIDE DEF v
  <2>5. QED
    BY <2>3, <2>4
<1>4. Bad = {}
  <2>1. SUFFICES ASSUME Bad # {} PROVE FALSE
    OBVIOUS
  <2> DEFINE R == {p \in Nat \X Nat : p[1] < p[2]}
  <2>2. IsWellFoundedOn(R, Nat)
    BY NatLessThanWellFounded DEF OpToRel
  <2>3. \A n, m \in Nat : n < m => <<n, m>> \in R
    OBVIOUS
  <2>4. Bad \subseteq Nat
    OBVIOUS
  <2> HIDE DEF R, Bad
  <2>5. PICK m \in Bad : \A n \in Bad : ~(<<n, m>> \in R)
    BY <2>1, <2>2, <2>4, WFMin
  <2>6. m \in Nat /\ m # 0
    BY <1>2, <2>4
  <2>7. m - 1 \in Nat /\ m - 1 < m /\ (m - 1) + 1 = m
    BY <2>6
  <2>8. m - 1 \notin Bad
    BY <2>3, <2>5, <2>6, <2>7
  <2> HIDE DEF Upto
  <2>9. Upto(m - 1)
    BY <2>7, <2>8 DEF Bad
  <2>10. Upto(m)
    BY <1>3, <2>7, <2>9
  <2>11. QED
    BY <2>5, <2>10 DEF Bad
<1>5. PICK n \in Nat : \A e \in EventNames : Rank[e] < n
  <2>1. PICK r1 \in Nat, r2 \in Nat, r3 \in Nat, r4 \in Nat, r5 \in Nat, r6 \in Nat, r7 \in Nat :
           /\ Rank["onSendCommand"] = r1 /\ Rank["onSendMsg"] = r2 /\ Rank["onReceiveMsg"] = r3
           /\ Rank["onConsoleUpdate"] = r4 /\ Rank["onBinded"] = r5 /\ Rank["onServerStart"] = r6
           /\ Rank["onLogin"] = r7
    BY <1>1 DEF EventNames
  <2>2. r1 + r2 + r3 + r4 + r5 + r6 + r7 + 1 \in Nat
    OBVIOUS
  <2>3. \A e \in EventNames : Rank[e] < r1 + r2 + r3 + r4 + r5 + r6 + r7 + 1
    BY <2>1 DEF EventNames
  <2>4. QED
    BY <2>2, <2>3
<1>6. Upto(n)
  BY <1>4
<1>7. QED
  BY <1>5, <1>6 DEF Suffices

LEMMA FuelNone == ASSUME NEW w, NEW n \in Nat PROVE Fuelled(w, <<>>, n)
<1> DEFINE g == [k \in Nat |-> 0]
<1>1. g \in [Nat -> Nat] /\ g[1] <= n
  OBVIOUS
<1>2. \A k \in 1..Len(<<>>) : FALSE
  OBVIOUS
<1> HIDE DEF g
<1>3. QED
  BY <1>1, <1>2 DEF Fuelled

LEMMA FuelOne ==
    ASSUME NEW w, NEW f, Fuel(w, f) \in Nat
    PROVE  Fuelled(w, <<f>>, Fuel(w, f))
<1> DEFINE g == [k \in Nat |-> IF k = 1 THEN Fuel(w, f) ELSE 0]
<1>1. g \in [Nat -> Nat] /\ g[1] = Fuel(w, f) /\ g[2] = 0
  OBVIOUS
<1>2. Len(<<f>>) = 1 /\ <<f>>[1] = f
  OBVIOUS
<1> HIDE DEF g
<1>3. \A k \in 1..Len(<<f>>) : g[k] >= Fuel(w, <<f>>[k]) + g[k + 1]
  BY <1>1, <1>2
<1>4. QED
  BY <1>1, <1>3 DEF Fuelled

LEMMA FuelTail ==
    ASSUME NEW w, NEW s \in Seq(Frames), s # <<>>, NEW n \in Nat, Fuelled(w, s, n),
           \A f \in Frames : Fuel(w, f) \in Nat
    PROVE  /\ Fuel(w, Head(s)) <= n
           /\ Fuelled(w, Tail(s), n - Fuel(w, Head(s)))
<1>1. /\ Len(s) \in Nat \ {0} /\ Head(s) = s[1] /\ s[1] \in Frames
      /\ Len(Tail(s)) = Len(s) - 1
      /\ \A k \in 1..Len(Tail(s)) : Tail(s)[k] = s[k + 1]
  BY EmptySeq, LenProperties, HeadTailProperties
<1>2. PICK g \in [Nat -> Nat] :
         /\ g[1] <= n
         /\ \A k \in 1..Len(s) : g[k] >= Fuel(w, s[k]) + g[k + 1]
  BY DEF Fuelled
<1>a. \A k \in Nat : g[k] \in Nat
  BY <1>2
<1>3. g[1] >= Fuel(w, s[1]) + g[2] /\ g[1] \in Nat /\ g[2] \in Nat /\ Fuel(w, s[1]) \in Nat
  <2>1. 1 \in 1..Len(s) /\ 1 + 1 = 2
    BY <1>1
  <2>2. g[1] >= Fuel(w, s[1]) + g[1 + 1]
    BY <1>2, <2>1
  <2>3. QED
    BY <1>1, <1>a, <2>1, <2>2
<1> DEFINE h == [k \in Nat |-> g[k + 1]]
<1>b. \A k \in Nat : k + 1 \in Nat
  OBVIOUS
<1>4. h \in [Nat -> Nat] /\ \A k \in Nat : h[k] = g[k + 1]
  BY <1>a, <1>b
<1> HIDE DEF h
<1>5. h[1] <= n - Fuel(w, Head(s))
  BY <1>1, <1>2, <1>3, <1>4
<1>6. ASSUME NEW k \in 1..Len(Tail(s)) PROVE h[k] >= Fuel(w, Tail(s)[k]) + h[k + 1]
  <2>1. k + 1 \in 1..Len(s) /\ k \in Nat /\ k + 1 \in Nat
    BY <1>1
  <2>2. g[k + 1] >= Fuel(w, s[k + 1]) + g[(k + 1) + 1]
    BY <1>2, <2>1
  <2>3. h[k] = g[k + 1] /\ h[k + 1] = g[(k + 1) + 1] /\ Tail(s)[k] = s[k + 1]
    BY <1>1, <1>4, <2>1, Zenon
  <2>4. QED
    BY <2>2, <2>3
<1>7. Fuelled(w, Tail(s), n - Fuel(w, Head(s)))
  BY <1>4, <1>5, <1>6 DEF Fuelled
<1>8. QED
  BY <1>1, <1>2, <1>3, <1>7

LEMMA SumJoin ==
    ASSUME NEW a \in Nat, NEW g \in [Nat -> Nat], NEW h \in [Nat -> Nat]
    PROVE  \E j \in [Nat -> Nat] :
              /\ j[1] <= g[1] + h[1]
              /\ \A k \in 1..a, x \in Nat : g[k] >= x + g[k + 1] => j[k] >= x + j[k + 1]
              /\ \A k \in Nat \ {0} : j[a + k] = h[k]
<1> DEFINE j == [k \in Nat |-> IF k <= a THEN g[k] + h[1] ELSE h[k - a]]
<1>1. \A k \in Nat : g[k] \in Nat
  OBVIOUS
<1>2. \A k \in Nat : h[k] \in Nat
  OBVIOUS
<1>3. ASSUME NEW k \in Nat, k <= a PROVE j[k] = g[k] + h[1] /\ j[k] \in Nat
  BY <1>1, <1>2, <1>3
<1>4. ASSUME NEW k \in Nat \ {0} PROVE j[a + k] = h[k]
  <2>1. a + k \in Nat /\ ~(a + k <= a) /\ (a + k) - a = k
    OBVIOUS
  <2>2. QED
    BY <2>1
<1>5. j \in [Nat -> Nat]
  <2>1. ASSUME NEW k \in Nat, ~(k <= a) PROVE h[k - a] \in Nat
    <3>1. k - a \in Nat
      BY <2>1
    <3>2. QED
      BY <1>2, <3>1
  <2>2. ASSUME NEW k \in Nat PROVE (IF k <= a THEN g[k] + h[1] ELSE h[k - a]) \in Nat
    BY <1>1, <1>2, <2>1
  <2>3. QED
    BY <2>2
<1> HIDE DEF j
<1>6. j[1] <= g[1] + h[1]
  <2>1. CASE a = 0
    <3>1. j[a + 1] = h[1] /\ a + 1 = 1
      BY <1>4, <2>1
    <3>2. QED
      BY <1>1, <1>2, <3>1
  <2>2. CASE a # 0
    <3>1. j[1] = g[1] + h[1]
      BY <1>3, <2>2
    <3>2. QED
      BY <1>1, <1>2, <3>1
  <2>3. QED
    BY <2>1, <2>2
<1>7. ASSUME NEW k \in 1..a, NEW x \in Nat, g[k] >= x + g[k + 1]
      PROVE  j[k] >= x + j[k + 1]
  <2>1. k \in Nat /\ k <= a /\ k + 1 \in Nat
    OBVIOUS
  <2>2. g[k] \in Nat /\ g[k + 1] \in Nat /\ h[1] \in Nat
    BY <1>1, <1>2, <2>1
  <2>3. j[k] = g[k] + h[1]
    BY <1>3, <2>1
  <2>4. CASE k + 1 <= a
    <3>1. j[k + 1] = g[k + 1] + h[1]
      BY <1>3, <2>1, <2>4
    <3>2. QED
      BY <1>7, <2>2, <2>3, <3>1
  <2>5. CASE ~(k + 1 <= a)
    <3>1. k = a
      BY <2>1, <2>5
    <3>2. j[k + 1] = h[1]
      BY <1>4, <3>1
    <3>3. QED
      BY <1>7, <2>2, <2>3, <3>2
  <2>6. QED
    BY <2>4, <2>5
<1>8. QED
  BY <1>4, <1>5, <1>6, <1>7

LEMMA FuelJoin ==
    ASSUME NEW w, NEW s \in Seq(Frames), NEW t \in Seq(Frames), NEW m \in Nat, NEW n \in Nat,
           Fuelled(w, s, m), Fuelled(w, t, n), \A f \in Frames : Fuel(w, f) \in Nat
    PROVE  Fuelled(w, s \o t, m + n)
<1>3. PICK a \in Nat, b \in Nat : a = Len(s) /\ b = Len(t) /\ Len(s \o t) = a + b
  BY ConcatProperties, LenProperties
<1>a. \A k \in 1..b :
         /\ k \in Nat \ {0} /\ k + 1 \in Nat \ {0} /\ a + (k + 1) = (a + k) + 1
         /\ a + k \in 1..(a + b) /\ ~(a + k <= a) /\ (a + k) - a = k
  OBVIOUS
<1>1. PICK g \in [Nat -> Nat] :
         g[1] <= m /\ \A k \in 1..Len(s) : g[k] >= Fuel(w, s[k]) + g[k + 1]
  BY DEF Fuelled
<1>2. PICK h \in [Nat -> Nat] :
         h[1] <= n /\ \A k \in 1..Len(t) : h[k] >= Fuel(w, t[k]) + h[k + 1]
  BY DEF Fuelled
<1>4. PICK j \in [Nat -> Nat] :
         /\ j[1] <= g[1] + h[1]
         /\ \A k \in 1..a, x \in Nat : g[k] >= x + g[k + 1] => j[k] >= x + j[k + 1]
         /\ \A k \in Nat \ {0} : j[a + k] = h[k]
  BY SumJoin
<1>5. j[1] <= m + n
  <2>1. g[1] \in Nat /\ h[1] \in Nat /\ j[1] \in Nat
    OBVIOUS
  <2>2. g[1] <= m /\ h[1] <= n /\ j[1] <= g[1] + h[1]
    BY <1>1, <1>2, <1>4, Zenon
  <2>3. QED
    BY <2>1, <2>2
<1>6. ASSUME NEW k \in 1..a PROVE j[k] >= Fuel(w, (s \o t)[k]) + j[k + 1]
  <2>1. s[k] \in Frames /\ (s \o t)[k] = s[k]
    BY <1>3, ConcatProperties, ElementOfSeq
  <2>2. QED
    BY <1>1, <1>3, <1>4, <2>1, Zenon
<1>7. ASSUME NEW k \in 1..b PROVE j[a + k] >= Fuel(w, (s \o t)[a + k]) + j[(a + k) + 1]
  <2>1. /\ k \in Nat \ {0} /\ k + 1 \in Nat \ {0} /\ a + (k + 1) = (a + k) + 1
        /\ a + k \in 1..(a + b) /\ ~(a + k <= a) /\ (a + k) - a = k
    BY <1>a, Zenon
  <2>2. (s \o t)[a + k] = t[k]
    BY <1>3, <2>1, ConcatProperties
  <2>3. j[a + k] = h[k] /\ j[a + (k + 1)] = h[k + 1]
    BY <1>4, <2>1, Zenon
  <2>4. QED
    BY <1>2, <1>3, <2>1, <2>2, <2>3, Zenon
<1>8. ASSUME NEW k \in 1..(a + b) PROVE j[k] >= Fuel(w, (s \o t)[k]) + j[k + 1]
  <2>1. CASE k <= a
    <3>1. k \in 1..a
      BY <2>1
    <3>2. QED
      BY <1>6, <3>1
  <2>2. CASE ~(k <= a)
    <3>1. k - a \in 1..b /\ a + (k - a) = k
      BY <2>2
    <3>2. QED
      BY <1>7, <3>1, Zenon
  <2>3. QED
    BY <2>1, <2>2
<1>9. QED
  BY <1>3, <1>5, <1>8 DEF Fuelled

LEMMA FuelTwo ==
    ASSUME NEW w, NEW f, NEW g, Fuel(w, f) \in Nat, Fuel(w, g) \in Nat
    PROVE  Fuelled(w, <<f, g>>, Fuel(w, f) + Fuel(w, g))
<1>1. PICK x \in Nat, y \in Nat : x = Fuel(w, f) /\ y = Fuel(w, g)
  OBVIOUS
<1> DEFINE h == [k \in Nat |-> IF k = 1 THEN x + y ELSE IF k = 2 THEN y ELSE 0]
<1>2. h \in [Nat -> Nat] /\ h[1] = x + y /\ h[2] = y /\ h[3] = 0
  OBVIOUS
<1> HIDE DEF h
<1>3. Len(<<f, g>>) = 2 /\ <<f, g>>[1] = f /\ <<f, g>>[2] = g
  OBVIOUS
<1>4. \A k \in 1..Len(<<f, g>>) : h[k] >= Fuel(w, <<f, g>>[k]) + h[k + 1]
  BY <1>1, <1>2, <1>3
<1>5. QED
  BY <1>1, <1>2, <1>4 DEF Fuelled

\* What actions put on the stack takes no more than they may.
LEMMA CallsFuel ==
    ASSUME TypeOK, NEW w \in Allowances, NEW a \in Actions, NEW calls \in Calls[a]
    PROVE  calls \in Seq(Frames) /\ Fuelled(w, calls, ActionFuel(w, a))
<1> DEFINE command == EventFrame("onSendCommand", 1)
           write == WriteFrame(Other)
           bound == EventFrame("onBinded", 1)
<1>1. \A f \in Frames : Fuel(w, f) \in Nat
  BY FuelTypes
<1>2. /\ command \in Frames /\ write \in Frames /\ bound \in Frames /\ StartFrame \in Frames
      /\ \A left \in Nat : SendFrame(left) \in Frames
  BY FrameFacts DEF EventNames
<1>3. /\ Fuel(w, command) = EventFuel(w, "onSendCommand", 1) /\ Fuel(w, write) = 1
      /\ Fuel(w, bound) = EventFuel(w, "onBinded", 1)
      /\ Fuel(w, StartFrame) = Told(w, "onServerStart")
      /\ \A left \in Nat : Fuel(w, SendFrame(left)) = SendFuel(w, left)
  BY DEF Fuel, EventFrame, WriteFrame, StartFrame, SendFrame
<1>4. SendCmd(Other) = <<command, write>>
  BY DEF SendCmd
<1> HIDE DEF command, write, bound
<1>6. ActionFuel(w, a) \in Nat
  BY FuelTypes
<1>7. CASE calls = <<>>
  BY <1>6, <1>7, FuelNone
<1>8. CASE a \in {"console", "stop"} /\ calls = SendCmd(Other)
  <2>1. ActionFuel(w, a) = Fuel(w, command) + Fuel(w, write)
    BY <1>3, <1>8 DEF ActionFuel, Told
  <2>2. QED
    BY <1>1, <1>2, <1>4, <1>8, <2>1, FuelTwo
<1>9. CASE a \in {"group", "reply"}
  <2>1. PICK left \in Nat : calls = <<SendFrame(left)>> /\ ActionFuel(w, a) = SendFuel(w, left)
    BY <1>9, BoundsAssumption DEF Calls, ActionFuel
  <2>2. QED
    BY <1>1, <1>2, <1>3, <2>1, FuelOne
<1>10. CASE a = "bind" /\ calls = <<bound>>
  <2>1. ActionFuel(w, a) = Fuel(w, bound)
    BY <1>3, <1>10 DEF ActionFuel
  <2>2. QED
    BY <1>1, <1>2, <1>10, <2>1, FuelOne
<1>11. CASE a = "start"
  <2>1. /\ calls = <<SendFrame(1), StartFrame>>
        /\ ActionFuel(w, a) = SendFuel(w, 1) + Told(w, "onServerStart")
    BY <1>11 DEF Calls, ActionFuel
  <2>2. SendFrame(1) \in Frames /\ Fuel(w, SendFrame(1)) = SendFuel(w, 1)
    BY <1>2, <1>3
  <2>3. QED
    BY <1>1, <1>2, <1>3, <2>1, <2>2, FuelTwo
<1>12. QED
  BY <1>4, <1>7, <1>8, <1>9, <1>10, <1>11 DEF Calls, Actions, bound

\* A handler that goes on with less than it had.
LEMMA FuelSplice ==
    ASSUME TypeOK, NEW w \in Allowances, frames # <<>>, NEW n \in Nat, Fuelled(w, frames, n),
           NEW top \in Seq(Frames), NEW x \in Nat, Fuelled(w, top, x),
           x < Fuel(w, Head(frames))
    PROVE  \E m \in 0..(n - 1) : Fuelled(w, top \o Tail(frames), m)
<1>1. \A f \in Frames : Fuel(w, f) \in Nat
  BY FuelTypes
<1>2. frames \in Seq(Frames) /\ Head(frames) \in Frames /\ Tail(frames) \in Seq(Frames)
  BY HeadTailProperties DEF TypeOK
<1> DEFINE y == Fuel(w, Head(frames))
<1>3. y \in Nat /\ y <= n /\ Fuelled(w, Tail(frames), n - y)
  BY <1>1, <1>2, FuelTail
<1>4. x < y
  OBVIOUS
<1> HIDE DEF y
<1>5. n - y \in Nat /\ x + (n - y) \in 0..(n - 1)
  BY <1>3, <1>4
<1>6. Fuelled(w, top \o Tail(frames), x + (n - y))
  BY <1>1, <1>2, <1>3, <1>5, FuelJoin
<1>7. QED
  BY <1>5, <1>6

\* Calls, and the handler that goes on after them.
LEMMA FuelCalls ==
    ASSUME TypeOK, NEW w \in Allowances, NEW a \in Actions, NEW calls \in Calls[a] \cup {<<>>},
           NEW next \in Frames
    PROVE  /\ calls \o <<next>> \in Seq(Frames)
           /\ Fuelled(w, calls \o <<next>>, ActionFuel(w, a) + Fuel(w, next))
<1>1. \A f \in Frames : Fuel(w, f) \in Nat
  BY FuelTypes
<1>2. ActionFuel(w, a) \in Nat
  BY FuelTypes
<1>3. calls \in Seq(Frames) /\ Fuelled(w, calls, ActionFuel(w, a))
  <2>1. CASE calls \in Calls[a]
    BY <2>1, CallsFuel
  <2>2. CASE calls = <<>>
    <3>1. Fuelled(w, <<>>, ActionFuel(w, a))
      BY <1>2, FuelNone
    <3>2. QED
      BY <2>2, <3>1
  <2>3. QED
    BY <2>1, <2>2
<1>4. <<next>> \in Seq(Frames) /\ Fuelled(w, <<next>>, Fuel(w, next))
  BY <1>1, FuelOne
<1>5. calls \o <<next>> \in Seq(Frames)
  BY <1>3, <1>4, ConcatProperties
<1>6. Fuelled(w, calls \o <<next>>, ActionFuel(w, a) + Fuel(w, next))
  BY <1>1, <1>2, <1>3, <1>4, FuelJoin
<1>7. QED
  BY <1>5, <1>6

\* top is what a step puts in the place of the handler at the top of the stack.
Burns(w, top) ==
    /\ top \in Seq(Frames) /\ frames' = top \o Tail(frames)
    /\ \E x \in Nat : Fuelled(w, top, x) /\ x < Fuel(w, Head(frames))

\* One rule less is left.
LEMMA OneLess ==
    ASSUME NEW n \in Nat, NEW i \in Nat \ {0}, i <= n, NEW c \in Nat
    PROVE  (n + 1 - i) * c = (n + 1 - (i + 1)) * c + c
<1> DEFINE k == n - i
<1>1. k \in Nat /\ n + 1 - i = k + 1 /\ n + 1 - (i + 1) = k
  OBVIOUS
<1> HIDE DEF k
<1>2. (k + 1) * c = k * c + c
  BY <1>1
<1>3. QED
  BY <1>1, <1>2

LEMMA EventFuelFalls ==
    ASSUME TypeOK, NEW w \in Allowances, NEW e \in EventNames, NEW i \in 1..Len(event[e])
    PROVE  EventFuel(w, e, i) = EventFuel(w, e, i + 1) + w[e]
<1>1. Len(event[e]) \in Nat /\ w[e] \in Nat
  BY FuelTypes
<1> DEFINE n == Len(event[e])
           c == w[e]
<1>2. n \in Nat /\ c \in Nat /\ i \in Nat \ {0} /\ i <= n
  BY <1>1
<1>3. /\ EventFuel(w, e, i) = (n + 1 - i) * c + 1
      /\ EventFuel(w, e, i + 1) = IF i + 1 <= n THEN (n + 1 - (i + 1)) * c + 1 ELSE 1
  BY <1>2 DEF EventFuel
<1> HIDE DEF n, c
<1>4. (n + 1 - i) * c = (n + 1 - (i + 1)) * c + c
  BY <1>2, OneLess
<1>5. (n + 1 - i) * c \in Nat /\ (i + 1 <= n => (n + 1 - (i + 1)) * c \in Nat)
  <2>1. n + 1 - i \in Nat /\ (i + 1 <= n => n + 1 - (i + 1) \in Nat)
    BY <1>2
  <2>2. QED
    BY <1>2, <2>1, Products
<1>6. ~(i + 1 <= n) => (n + 1 - (i + 1)) * c = 0
  <2>1. ~(i + 1 <= n) => n + 1 - (i + 1) = 0
    BY <1>2
  <2>2. 0 * c = 0
    BY <1>2
  <2>3. QED
    BY <2>1, <2>2
<1>7. EventFuel(w, e, i) = EventFuel(w, e, i + 1) + c
  <2>1. CASE i + 1 <= n
    BY <1>2, <1>3, <1>4, <1>5, <2>1
  <2>2. CASE ~(i + 1 <= n)
    BY <1>2, <1>3, <1>4, <1>5, <1>6, <2>2
  <2>3. QED
    BY <2>1, <2>2
<1>8. QED
  BY <1>7 DEF c

LEMMA LineFuelFalls ==
    ASSUME TypeOK, NEW w \in Allowances, NEW i \in 1..Len(regular)
    PROVE  LineFuel(w, i) = LineFuel(w, i + 1) + RuleFuel(w)
<1> DEFINE n == Len(regular)
           c == RuleFuel(w)
           d == Told(w, "onConsoleUpdate")
<1>1. n \in Nat /\ c \in Nat /\ d \in Nat /\ i \in Nat \ {0} /\ i <= n
  <2>1. n \in Nat
    BY LenProperties DEF TypeOK
  <2>2. c \in Nat /\ d \in Nat
    BY FuelTypes DEF EventNames
  <2>3. QED
    BY <2>1, <2>2
<1>2. /\ LineFuel(w, i) = (n + 1 - i) * c + d
      /\ LineFuel(w, i + 1) = IF i + 1 <= n THEN (n + 1 - (i + 1)) * c + d ELSE d
  BY <1>1 DEF LineFuel
<1> HIDE DEF n, c, d
<1>3. (n + 1 - i) * c = (n + 1 - (i + 1)) * c + c
  BY <1>1, OneLess
<1>4. (n + 1 - i) * c \in Nat /\ (i + 1 <= n => (n + 1 - (i + 1)) * c \in Nat)
  <2>1. n + 1 - i \in Nat /\ (i + 1 <= n => n + 1 - (i + 1) \in Nat)
    BY <1>1
  <2>2. QED
    BY <1>1, <2>1, Products
<1>5. ~(i + 1 <= n) => (n + 1 - (i + 1)) * c = 0
  <2>1. ~(i + 1 <= n) => n + 1 - (i + 1) = 0
    BY <1>1
  <2>2. 0 * c = 0
    BY <1>1
  <2>3. QED
    BY <2>1, <2>2
<1>6. LineFuel(w, i) = LineFuel(w, i + 1) + c
  <2>1. CASE i + 1 <= n
    BY <1>1, <1>2, <1>3, <1>4, <2>1
  <2>2. CASE ~(i + 1 <= n)
    BY <1>1, <1>2, <1>3, <1>4, <1>5, <2>2
  <2>3. QED
    BY <2>1, <2>2
<1>7. QED
  BY <1>6 DEF c

\* A handler that returns.
LEMMA BurnsNone ==
    ASSUME TypeOK, frames # <<>>, NEW w \in Allowances, GoesOn(<<>>, <<>>)
    PROVE  Burns(w, <<>>)
<1>1. frames' = <<>> \o Tail(frames)
  <2>1. <<>> \o <<>> = <<>>
    OBVIOUS
  <2>2. QED
    BY <2>1 DEF GoesOn
<1>2. Head(frames) \in Frames
  BY HeadTailProperties DEF TypeOK
<1>3. 0 < Fuel(w, Head(frames))
  BY <1>2, FuelTypes
<1>4. Fuelled(w, <<>>, 0)
  BY FuelNone
<1>5. <<>> \in Seq(Frames)
  OBVIOUS
<1>6. QED
  BY <1>1, <1>3, <1>4, <1>5 DEF Burns

\* A handler that raises an event and goes on with fuel to spare, or returns.
LEMMA BurnsEvent ==
    ASSUME TypeOK, frames # <<>>, NEW w \in Allowances, NEW e \in EventNames,
           frames' = <<EventFrame(e, 1)>> \o Tail(frames), Told(w, e) <= Fuel(w, Head(frames))
    PROVE  Burns(w, <<EventFrame(e, 1)>>)
<1> DEFINE f == EventFrame(e, 1)
<1>1. f \in Frames
  BY FrameFacts
<1>2. Fuel(w, f) = EventFuel(w, e, 1)
  BY DEF EventFrame, Fuel
<1>3. EventFuel(w, e, 1) \in Nat /\ Told(w, e) = EventFuel(w, e, 1) + 1
  BY FuelTypes DEF Told
<1>4. Head(frames) \in Frames
  BY HeadTailProperties DEF TypeOK
<1>5. Fuel(w, Head(frames)) \in Nat
  BY <1>4, FuelTypes
<1> HIDE DEF f
<1>6. Fuelled(w, <<f>>, Fuel(w, f)) /\ <<f>> \in Seq(Frames)
  BY <1>1, <1>2, <1>3, FuelOne
<1>7. Fuel(w, f) < Fuel(w, Head(frames)) /\ Fuel(w, f) \in Nat
  BY <1>2, <1>3, <1>5
<1>8. QED
  BY <1>6, <1>7 DEF Burns, f

LEMMA BurnsCalls ==
    ASSUME TypeOK, frames # <<>>, NEW w \in Allowances, NEW a \in Actions,
           NEW calls \in Calls[a] \cup {<<>>}, NEW next \in Frames, GoesOn(calls, <<next>>),
           ActionFuel(w, a) + Fuel(w, next) < Fuel(w, Head(frames))
    PROVE  Burns(w, calls \o <<next>>)
<1>1. ActionFuel(w, a) \in Nat /\ Fuel(w, next) \in Nat
  BY FuelTypes
<1>2. ActionFuel(w, a) + Fuel(w, next) \in Nat
  BY <1>1
<1>3. QED
  BY <1>2, FuelCalls DEF Burns, GoesOn

LEMMA LineBurns ==
    ASSUME TypeOK, NEW w \in Allowances, LineRule
    PROVE  \E top : Burns(w, top)
<1> DEFINE f == Head(frames)
<1>1. frames # <<>> /\ f.at = "line" /\ frames \in Seq(Frames)
  BY DEF LineRule, Top, TypeOK
<1>2. f \in Frames
  BY <1>1, HeadTailProperties
<1>3. f.text \in Texts /\ f.i \in Nat \ {0}
  BY <1>1, <1>2 DEF Frames
<1>4. Fuel(w, f) = LineFuel(w, f.i)
  BY <1>1 DEF Fuel
<1>5. CASE f.i > Len(regular) /\ GoesOn(<<EventFrame("onConsoleUpdate", 1)>>, <<>>)
  <2> DEFINE e == EventFrame("onConsoleUpdate", 1)
  <2>1. frames' = (<<e>> \o <<>>) \o Tail(frames)
    BY <1>5 DEF GoesOn
  <2> HIDE DEF e
  <2>2. <<e>> \o <<>> = <<e>>
    OBVIOUS
  <2>3. frames' = <<e>> \o Tail(frames)
    BY <2>1, <2>2
  <2>4. Len(regular) \in Nat
    BY LenProperties DEF TypeOK
  <2>5. ~(f.i <= Len(regular))
    BY <1>3, <1>5, <2>4
  <2>6. LineFuel(w, f.i) = Told(w, "onConsoleUpdate") /\ Told(w, "onConsoleUpdate") \in Nat
    BY <2>5, FuelTypes DEF LineFuel, EventNames
  <2>7. Told(w, "onConsoleUpdate") <= Fuel(w, Head(frames))
    BY <1>4, <2>6
  <2>8. "onConsoleUpdate" \in EventNames
    BY DEF EventNames
  <2> HIDE DEF f
  <2>9. QED
    BY <1>1, <2>3, <2>7, <2>8, BurnsEvent DEF e
<1>6. ASSUME f.i <= Len(regular),
             NEW calls \in IF Hits(regular[f.i], f.text)
                              THEN Calls[regular[f.i].action] ELSE {<<>>},
             GoesOn(calls, <<LineFrame(f.text, f.i + 1)>>)
      PROVE  \E top : Burns(w, top)
  <2> DEFINE next == LineFrame(f.text, f.i + 1)
             a == regular[f.i].action
  <2>1. f.i \in 1..Len(regular) /\ f.i + 1 \in Nat \ {0}
    <3>1. Len(regular) \in Nat
      BY LenProperties DEF TypeOK
    <3>2. QED
      BY <1>3, <1>6, <3>1
  <2>2. a \in Actions
    <3>1. regular[f.i] \in Rules
      BY <2>1, ElementOfSeq DEF TypeOK
    <3>2. QED
      BY <3>1 DEF Rules
  <2>3. calls \in Calls[a] \cup {<<>>}
    BY <1>6
  <2>4. next \in Frames
    BY <1>3, <2>1, FrameFacts
  <2>5. Fuel(w, next) = LineFuel(w, f.i + 1)
    BY DEF LineFrame, Fuel
  <2>6. Fuel(w, f) = Fuel(w, next) + RuleFuel(w)
    BY <1>4, <2>1, <2>5, LineFuelFalls
  <2>7. ActionFuel(w, a) + Fuel(w, next) < Fuel(w, f)
    <3>1. ActionFuel(w, a) \in Nat /\ RuleFuel(w) \in Nat /\ ActionFuel(w, a) < RuleFuel(w)
      BY <2>2, FuelTypes
    <3>2. Fuel(w, next) \in Nat
      BY <2>4, FuelTypes
    <3>3. QED
      BY <2>6, <3>1, <3>2
  <2>8. GoesOn(calls, <<next>>)
    BY <1>6
  <2> HIDE DEF next, a
  <2>9. Burns(w, calls \o <<next>>)
    BY <1>1, <2>2, <2>3, <2>4, <2>7, <2>8, BurnsCalls
  <2>10. QED
    BY <2>9
<1>7. QED
  BY <1>5, <1>6 DEF LineRule

LEMMA EventBurns ==
    ASSUME TypeOK, NEW w \in Allowances, Suffices(w), EventRule
    PROVE  \E top : Burns(w, top)
<1> DEFINE f == Head(frames)
<1>1. frames # <<>> /\ f.at = "event" /\ frames \in Seq(Frames)
  BY DEF EventRule, Top, TypeOK
<1>2. f \in Frames
  BY <1>1, HeadTailProperties
<1>3. f.event \in EventNames /\ f.i \in Nat \ {0}
  BY <1>1, <1>2 DEF Frames
<1>4. Fuel(w, f) = EventFuel(w, f.event, f.i)
  BY <1>1 DEF Fuel
<1>5. CASE GoesOn(<<>>, <<>>)
  BY <1>1, <1>5, BurnsNone
<1>6. ASSUME f.i <= Len(event[f.event]), NEW calls \in Calls[event[f.event][f.i]],
             GoesOn(calls, <<EventFrame(f.event, f.i + 1)>>)
      PROVE  \E top : Burns(w, top)
  <2> DEFINE e == f.event
             next == EventFrame(e, f.i + 1)
             a == event[e][f.i]
  <2>1. f.i \in 1..Len(event[e]) /\ f.i + 1 \in Nat \ {0}
    <3>1. Len(event[e]) \in Nat
      BY <1>3, FuelTypes
    <3>2. QED
      BY <1>3, <1>6, <3>1
  <2>2. a \in Actions
    BY <1>3, <2>1, RaisesRanked
  <2>3. next \in Frames
    BY <1>3, <2>1, FrameFacts
  <2>4. Fuel(w, next) = EventFuel(w, e, f.i + 1)
    BY DEF EventFrame, Fuel
  <2>5. Fuel(w, f) = Fuel(w, next) + w[e]
    BY <1>3, <1>4, <2>1, <2>4, EventFuelFalls
  <2>6. ActionFuel(w, a) + Fuel(w, next) < Fuel(w, f)
    <3>1. ActionFuel(w, a) \in Nat /\ w[e] \in Nat /\ ActionFuel(w, a) < w[e]
      BY <1>3, <2>1, <2>2, FuelTypes DEF Suffices
    <3>2. Fuel(w, next) \in Nat
      BY <2>3, FuelTypes
    <3>3. QED
      BY <2>5, <3>1, <3>2
  <2>7. GoesOn(calls, <<next>>) /\ calls \in Calls[a] \cup {<<>>}
    BY <1>6
  <2> HIDE DEF next, a
  <2>8. Burns(w, calls \o <<next>>)
    BY <1>1, <2>2, <2>3, <2>6, <2>7, BurnsCalls
  <2>9. QED
    BY <2>8
<1>7. QED
  BY <1>5, <1>6 DEF EventRule

LEMMA SendBurns ==
    ASSUME TypeOK, NEW w \in Allowances, Send
    PROVE  \E top : Burns(w, top)
<1> DEFINE f == Head(frames)
<1>1. frames # <<>> /\ f.at = "send" /\ frames \in Seq(Frames)
  BY DEF Send, Top, TypeOK
<1>2. f \in Frames
  BY <1>1, HeadTailProperties
<1>3. f.left \in Nat
  BY <1>1, <1>2 DEF Frames
<1>4. Fuel(w, f) = SendFuel(w, f.left)
  BY <1>1 DEF Fuel
<1>5. CASE GoesOn(<<>>, <<>>)
  BY <1>1, <1>5, BurnsNone
<1>6. ASSUME f.left > 0, NEW calls \in {<<EventFrame("onSendMsg", 1)>>, <<>>},
             GoesOn(calls, <<SendFrame(f.left - 1)>>)
      PROVE  \E top : Burns(w, top)
  <2> DEFINE told == EventFrame("onSendMsg", 1)
             next == SendFrame(f.left - 1)
             c == Told(w, "onSendMsg")
  <2>1. f.left - 1 \in Nat /\ next \in Frames /\ told \in Frames
    BY <1>3, <1>6, FrameFacts DEF EventNames
  <2>2. /\ Fuel(w, next) = SendFuel(w, f.left - 1)
        /\ Fuel(w, told) = EventFuel(w, "onSendMsg", 1)
    BY DEF SendFrame, EventFrame, Fuel
  <2>3. /\ c \in Nat /\ EventFuel(w, "onSendMsg", 1) \in Nat
        /\ c = EventFuel(w, "onSendMsg", 1) + 1
    BY FuelTypes DEF EventNames, Told
  <2>4. SendFuel(w, f.left) = SendFuel(w, f.left - 1) + c
    <3>1. f.left * c = (f.left - 1) * c + c
      <4>1. PICK k \in Nat : k = f.left - 1 /\ f.left = k + 1
        BY <1>3, <2>1
      <4> HIDE DEF c
      <4>2. (k + 1) * c = k * c + c
        BY <2>3
      <4>3. QED
        BY <4>1, <4>2
    <3>2. (f.left - 1) * c \in Nat
      BY <2>1, <2>3, Products
    <3>3. SendFuel(w, f.left) = f.left * c + 1 /\ SendFuel(w, f.left - 1) = (f.left - 1) * c + 1
      BY DEF SendFuel
    <3> HIDE DEF c, f
    <3>4. QED
      BY <2>3, <3>1, <3>2, <3>3
  <2>5. /\ Fuel(w, next) \in Nat
        /\ EventFuel(w, "onSendMsg", 1) + Fuel(w, next) < Fuel(w, f)
    <3>1. Fuel(w, next) \in Nat
      BY <2>1, FuelTypes
    <3>2. QED
      BY <1>4, <2>2, <2>3, <2>4, <3>1
  <2>6. frames' = (calls \o <<next>>) \o Tail(frames)
    BY <1>6 DEF GoesOn
  <2> HIDE DEF told, next, c, f
  <2>7. \A g \in Frames : Fuel(w, g) \in Nat
    BY FuelTypes
  <2>8. calls \in Seq(Frames) /\ Fuelled(w, calls, EventFuel(w, "onSendMsg", 1))
    <3>1. CASE calls = <<told>>
      BY <2>1, <2>2, <2>7, <3>1, FuelOne
    <3>2. CASE calls = <<>>
      <4>1. Fuelled(w, <<>>, EventFuel(w, "onSendMsg", 1))
        BY <2>3, FuelNone
      <4>2. QED
        BY <3>2, <4>1
    <3>3. QED
      BY <1>6, <3>1, <3>2 DEF told
  <2>9. <<next>> \in Seq(Frames) /\ Fuelled(w, <<next>>, Fuel(w, next))
    BY <2>1, <2>5, FuelOne
  <2>10. Fuelled(w, calls \o <<next>>, EventFuel(w, "onSendMsg", 1) + Fuel(w, next))
    BY <2>3, <2>5, <2>7, <2>8, <2>9, FuelJoin
  <2>11. calls \o <<next>> \in Seq(Frames)
    BY <2>8, <2>9, ConcatProperties
  <2>12. EventFuel(w, "onSendMsg", 1) + Fuel(w, next) \in Nat
    BY <2>3, <2>5
  <2>13. Burns(w, calls \o <<next>>)
    BY <2>5, <2>6, <2>10, <2>11, <2>12 DEF Burns, f
  <2>14. QED
    BY <2>13
<1>7. QED
  BY <1>5, <1>6 DEF Send

LEMMA HandlerBurns ==
    ASSUME TypeOK, NEW w \in Allowances, Suffices(w), Handler
    PROVE  frames # <<>> /\ \E top : Burns(w, top)
<1>1. CASE LineRule
  BY <1>1, LineBurns DEF LineRule, Top
<1>2. CASE EventRule
  BY <1>2, EventBurns DEF EventRule, Top
<1>3. CASE Write
  BY <1>3, BurnsNone DEF Write, Top
<1>4. CASE Send
  BY <1>4, SendBurns DEF Send, Top
<1>5. CASE StartServer
  <2> DEFINE e == EventFrame("onServerStart", 1)
  <2>1. frames # <<>> /\ Head(frames).at = "start"
    BY <1>5 DEF StartServer, Top
  <2>2. PICK calls \in {<<e>>, <<>>} : GoesOn(calls, <<>>)
    BY <1>5 DEF StartServer
  <2>3. CASE calls = <<>>
    BY <2>1, <2>2, <2>3, BurnsNone
  <2>4. CASE calls = <<e>>
    <3>1. Fuel(w, Head(frames)) = Told(w, "onServerStart") /\ Told(w, "onServerStart") \in Nat
      BY <2>1, FuelTypes DEF Fuel, EventNames
    <3> HIDE DEF e
    <3>2. <<e>> \o <<>> = <<e>>
      OBVIOUS
    <3>3. frames' = <<e>> \o Tail(frames)
      BY <2>2, <2>4, <3>2 DEF GoesOn
    <3>4. Told(w, "onServerStart") <= Fuel(w, Head(frames)) /\ "onServerStart" \in EventNames
      BY <3>1 DEF EventNames
    <3>5. Burns(w, <<e>>)
      BY <2>1, <3>3, <3>4, BurnsEvent DEF e
    <3>6. QED
      BY <2>1, <3>5
  <2>5. QED
    BY <2>1, <2>2, <2>3, <2>4
<1>6. QED
  BY <1>1, <1>2, <1>3, <1>4, <1>5 DEF Handler

\* The rules of event.yml as they are.
Allowance == CHOOSE w \in Allowances : Suffices(w)

\* The handlers on the stack, and all that they set off, take n steps at most.
StepsLeft(n) == Fuelled(Allowance, frames, n)

LEMMA AllowanceIs ==
    ASSUME TypeOK
    PROVE  Allowance \in Allowances /\ Suffices(Allowance)
BY AllowanceExists DEF Allowance

LEMMA StepsKept ==
    ASSUME UNCHANGED <<regular, event>>, NEW n
    PROVE  StepsLeft(n)' <=> Fuelled(Allowance, frames', n)
BY DEF StepsLeft, Allowance, Suffices, Fuelled, Fuel, LineFuel, EventFuel, SendFuel, Told,
       ActionFuel, RuleFuel

\* Each step of a handler leaves fewer to take, and until the event loop has its turn
\* again nothing else touches the stack or the rules.
CascadeShrinks ==
    \A n \in Nat :
        ~Idle /\ StepsLeft(n) =>
            IF Handler THEN \E m \in 0..(n - 1) : StepsLeft(m)' ELSE StepsLeft(n)'

LEMMA StepShrinks ==
    ASSUME TypeOK, [Next]_vars
    PROVE  CascadeShrinks
<1>1. SUFFICES ASSUME NEW n \in Nat, ~Idle, StepsLeft(n)
               PROVE  IF Handler THEN \E m \in 0..(n - 1) : StepsLeft(m)' ELSE StepsLeft(n)'
  BY DEF CascadeShrinks
<1>2. CASE Handler
  <2>1. Allowance \in Allowances /\ Suffices(Allowance)
    BY AllowanceIs
  <2>2. PICK top : Burns(Allowance, top)
    BY <1>2, <2>1, HandlerBurns
  <2>3. \E m \in 0..(n - 1) : Fuelled(Allowance, frames', m)
    BY <1>1, <1>2, <2>1, <2>2, HandlerBurns, FuelSplice DEF Burns, StepsLeft
  <2>4. UNCHANGED <<regular, event>>
    BY <1>2 DEF Handler, LineRule, EventRule, Write, Send, StartServer
  <2>5. QED
    BY <1>2, <2>3, <2>4, StepsKept
<1>3. CASE ~Handler
  <2>1. UNCHANGED <<regular, event, frames>>
    BY <1>1, <1>3 DEF Next, Take, Begin, Edit, Reader, Skip, Signal, Reply, ReplySends,
       AskToStart, Done, Hear, vars
  <2>2. QED
    BY <1>1, <1>3, <2>1, StepsKept DEF StepsLeft
<1>4. QED
  BY <1>2, <1>3

Bounded == \E n \in Nat : StepsLeft(n)

\* A stack as the event loop leaves it: empty, one handler, or sendCmd.
Fresh == \E f, g \in Frames : frames \in {<<>>, <<f>>, <<f, g>>}

LEMMA FreshBounded == TypeOK /\ (Idle \/ Fresh) => Bounded
<1>1. SUFFICES ASSUME TypeOK, Idle \/ Fresh PROVE Bounded
  OBVIOUS
<1>2. \A f \in Frames : Fuel(Allowance, f) \in Nat
  BY <1>1, AllowanceIs, FuelTypes
<1>3. CASE frames = <<>>
  <2>1. StepsLeft(0)
    BY <1>3, FuelNone DEF StepsLeft
  <2>2. QED
    BY <2>1 DEF Bounded
<1>4. CASE \E f \in Frames : frames = <<f>>
  <2>1. PICK f \in Frames : frames = <<f>>
    BY <1>4
  <2>2. StepsLeft(Fuel(Allowance, f)) /\ Fuel(Allowance, f) \in Nat
    BY <1>2, <2>1, FuelOne DEF StepsLeft
  <2>3. QED
    BY <2>2 DEF Bounded
<1>5. CASE \E f, g \in Frames : frames = <<f, g>>
  <2>1. PICK f \in Frames, g \in Frames : frames = <<f, g>>
    BY <1>5
  <2>2. Fuel(Allowance, f) \in Nat /\ Fuel(Allowance, g) \in Nat
    BY <1>2
  <2>3. StepsLeft(Fuel(Allowance, f) + Fuel(Allowance, g))
    BY <2>1, <2>2, FuelTwo DEF StepsLeft
  <2>4. QED
    BY <2>2, <2>3 DEF Bounded
<1>6. QED
  BY <1>1, <1>3, <1>4, <1>5 DEF Idle, Fresh

LEMMA IdleFresh ==
    ASSUME TypeOK, Next, Idle
    PROVE  Fresh' \/ Idle'
<1>1. CASE Take
  <2>1. Head(queue) \in Signals
    BY <1>1, HeadTailProperties DEF TypeOK, Take
  <2>2. CASE Head(queue).signal = "command"
    <3>1. /\ EventFrame("onSendCommand", 1) \in Frames
          /\ WriteFrame(Head(queue).cause) \in Frames
      BY <2>1, <2>2, FrameFacts DEF Signals, EventNames
    <3>2. frames' = <<EventFrame("onSendCommand", 1), WriteFrame(Head(queue).cause)>>
      BY <1>1, <2>2 DEF Take, SendCmd
    <3>3. QED
      BY <3>1, <3>2 DEF Fresh
  <2>3. CASE Head(queue).signal = "event"
    <3>1. EventFrame(Head(queue).event, 1) \in Frames
      BY <2>1, <2>3, FrameFacts DEF Signals
    <3>2. frames' = <<EventFrame(Head(queue).event, 1)>>
      BY <1>1, <2>3 DEF Take
    <3>3. QED
      BY <3>1, <3>2 DEF Fresh
  <2>4. CASE Head(queue).signal = "start"
    <3>1. StartFrame \in Frames /\ frames' = <<StartFrame>>
      BY <1>1, <2>4, FrameFacts DEF Take
    <3>2. QED
      BY <3>1 DEF Fresh
  <2>5. QED
    BY <1>1, <2>2, <2>3, <2>4 DEF Take
<1>2. CASE Begin
  <2>1. /\ \A text \in Texts : LineFrame(text, 1) \in Frames
        /\ \A e \in EventNames : EventFrame(e, 1) \in Frames
        /\ WriteFrame(Other) \in Frames
        /\ "onSendCommand" \in EventNames /\ "onLogin" \in EventNames
    BY FrameFacts DEF EventNames
  <2>2. CASE \E text \in Texts : frames' = <<LineFrame(text, 1)>>
    BY <2>1, <2>2 DEF Fresh
  <2>3. CASE frames' = SendCmd(Other)
    BY <2>1, <2>3 DEF Fresh, SendCmd
  <2>4. CASE frames' = <<EventFrame("onLogin", 1)>>
    BY <2>1, <2>4 DEF Fresh
  <2>5. QED
    BY <1>2, <2>2, <2>3, <2>4 DEF Begin
<1>3. CASE UNCHANGED frames
  BY <1>3 DEF Idle
<1>4. ~Handler
  BY DEF Idle, Handler, LineRule, EventRule, Write, Send, StartServer, Top
<1>5. QED
  BY <1>1, <1>2, <1>3, <1>4 DEF Next, Edit, Reader, Skip, Signal, Reply, ReplySends,
     AskToStart, Done, Hear

\* However many rules event.yml and the editors have, a cascade of rules is bounded: from
\* the moment it starts there is a number of handler steps it cannot exceed.
THEOREM CascadesAreBounded == Spec => []Bounded
<1>1. Init => Idle
  BY DEF Init, Idle
<1>2. ASSUME TypeOK, Bounded, [Next]_vars, ~Idle PROVE Bounded'
  <2>1. PICK n \in Nat : StepsLeft(n)
    BY <1>2 DEF Bounded
  <2>2. IF Handler THEN \E m \in 0..(n - 1) : StepsLeft(m)' ELSE StepsLeft(n)'
    BY <1>2, <2>1, StepShrinks DEF CascadeShrinks
  <2>3. \E m \in Nat : StepsLeft(m)'
    BY <2>1, <2>2
  <2>4. QED
    BY <2>3 DEF Bounded
<1>3. ASSUME TypeOK, [Next]_vars, Idle PROVE Fresh' \/ Idle'
  <2>1. CASE UNCHANGED vars
    BY <1>3, <2>1 DEF vars, Idle
  <2>2. QED
    BY <1>3, <2>1, IdleFresh
<1>4. TypeOK /\ (Idle \/ Fresh) => Bounded
  BY FreshBounded
<1>5. QED
  BY <1>1, <1>2, <1>3, <1>4, TypeCorrect, PTL DEF Spec

\* And each of those steps leaves fewer.
THEOREM CascadesShrink == Spec => [][CascadeShrinks]_vars
BY StepShrinks, TypeCorrect, PTL DEF Spec

=============================================================================
