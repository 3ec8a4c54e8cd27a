------------------------- MODULE CommandWordsProofs -------------------------
(***************************************************************************)
(* SplitCommand loses no part of a command and keeps together what is      *)
(* quoted, for commands of any length.                                     *)
(***************************************************************************)
EXTENDS CommandWords, TLAPS

\* What words cover so far: all before the open quote, or before at.
Covered == IF stage = "split" /\ opened # 0 THEN opened ELSE at

InOrder == \A k, m \in 1..Len(words) : k < m => words[k].to < words[m].from

Bounded ==
    \A k \in 1..Len(words) :
        /\ words[k].from <= words[k].to /\ words[k].to < Covered
        /\ words[k].to <= Len(text)

Cover ==
    \A p \in 1..Len(text) :
        p < Covered /\ text[p] # Blank =>
            \E k \in 1..Len(words) : p \in words[k].from..words[k].to

Opened ==
    opened # 0 =>
        /\ opened <= Len(text) /\ text[opened] = Quote
        /\ stage = "split" => opened < at /\ \A p \in opened..(at - 1) : ~Closes(p)
        /\ stage = "left" => opened <= at
        /\ stage \in {"left", "words"} => \A p \in opened..Len(text) : ~Closes(p)

Told(w) ==
    /\ (\E p \in w.from..w.to : text[p] = Blank) =>
          /\ text[w.from] = Quote /\ Closes(w.to)
          /\ \A p \in w.from..(w.to - 1) : ~Closes(p)
    /\ text[w.from] = Quote /\ ~Closes(w.to) =>
          \A p \in w.from..Len(text) : ~Closes(p)

AllTold == \A k \in 1..Len(words) : Told(words[k])

SplitInv ==
    /\ SplitTypeOK
    /\ stage = "left" => opened # 0
    /\ stage = "words" => AtEnd
    /\ InOrder /\ Bounded /\ Cover /\ Opened /\ AllTold

\* SplitCommand for any command, which is what its callers give it.
AnyNext == SplitStep \/ Return \/ \E paras \in Seq(Tokens) : Begin(paras)

LEMMA NextIsAny == [SplitNext]_splitVars => [AnyNext]_splitVars
BY TokensAssumption DEF SplitNext, AnyNext

-----------------------------------------------------------------------------
(* Types *)

LEMMA SplitTypeInit == SplitInit => SplitTypeOK
BY DEF SplitInit, SplitTypeOK

LEMMA PushTypes ==
    ASSUME words \in Seq(Words), NEW i \in Nat \ {0}, NEW j \in Nat, Push(i, j)
    PROVE  /\ words' \in Seq(Words)
           /\ Len(words') = Len(words) + 1
           /\ words'[Len(words) + 1] = [from |-> i, to |-> j]
           /\ \A k \in 1..Len(words) : words'[k] = words[k]
BY DEF Push, Words

LEMMA SplitTypeNext == SplitTypeOK /\ [AnyNext]_splitVars => SplitTypeOK'
<1> SUFFICES ASSUME SplitTypeOK, [AnyNext]_splitVars PROVE SplitTypeOK'
    OBVIOUS
<1> USE DEF SplitTypeOK
<1>1. ASSUME NEW paras \in Seq(Tokens), Begin(paras) PROVE SplitTypeOK'
    BY <1>1, TokensAssumption DEF Begin
<1>2. CASE ReadWord
  <2>1. PICK i, j \in 1..Len(text) :
            Reads(i, j) /\ (ReadQuoted(i, j) \/ ReadPlain(i, j)) /\ at' = j + 1
      BY <1>2 DEF ReadWord
  <2>t. i \in Nat \ {0} /\ j \in Nat \ {0} /\ UNCHANGED <<stage, text>>
      BY <1>2 DEF ReadWord
  <2>2. CASE words' = words
      BY <2>t, <2>1, <2>2 DEF ReadQuoted, ReadPlain
  <2>3. CASE Push(opened, j) /\ opened # 0 /\ opened' = 0
    <3>1. words' \in Seq(Words)
        BY <2>t, <2>3, PushTypes
    <3> QED
        BY <2>t, <2>1, <2>3, <3>1
  <2>4. CASE Push(i, j) /\ opened' = opened
    <3>1. words' \in Seq(Words)
        BY <2>t, <2>4, PushTypes
    <3> QED
        BY <2>t, <2>1, <2>4, <3>1
  <2> QED
      BY <2>1, <2>2, <2>3, <2>4 DEF ReadQuoted, ReadPlain
<1>3. CASE SplitEnd
    BY <1>3 DEF SplitEnd
<1>4. CASE ReadLeft
  <2>1. PICK i, j \in 1..Len(text) : Push(i, j) /\ at' = j + 1
      BY <1>4 DEF ReadLeft
  <2>2. words' \in Seq(Words)
    <3>1. i \in Nat \ {0} /\ j \in Nat /\ words \in Seq(Words) /\ Push(i, j)
        BY <2>1
    <3> QED
        BY <3>1, PushTypes
  <2> QED
      BY <1>4, <2>1, <2>2 DEF ReadLeft
<1>5. CASE LeftEnd
    BY <1>5 DEF LeftEnd
<1>6. CASE Return
    BY <1>6 DEF Return
<1>7. CASE UNCHANGED splitVars
    BY <1>7 DEF splitVars
<1> QED
    BY <1>1, <1>2, <1>3, <1>4, <1>5, <1>6, <1>7 DEF AnyNext, SplitStep

\* The variables of SplitCommand keep their types, for any commands.
THEOREM SplitTypeCorrect == SplitSpec => []SplitTypeOK
BY SplitTypeInit, SplitTypeNext, NextIsAny, PTL DEF SplitSpec

-----------------------------------------------------------------------------
(* The inductive invariant *)

LEMMA SplitInvInit == SplitInit => SplitInv
BY SplitTypeInit DEF SplitInit, SplitInv, InOrder, Bounded, Cover, Opened, AllTold

\* Another word behind those there are.
LEMMA PushKeeps ==
    ASSUME SplitInv, NEW i \in 1..Len(text), NEW j \in i..Len(text), Push(i, j),
           text' = text, Covered <= i, Covered' = j + 1,
           \A p \in Covered..(i - 1) : p \in 1..Len(text) => text[p] = Blank,
           Told([from |-> i, to |-> j])
    PROVE  (InOrder /\ Bounded /\ Cover /\ AllTold)'
<1> DEFINE new == [from |-> i, to |-> j]
<1>1. /\ words' \in Seq(Words) /\ words \in Seq(Words) /\ Len(words) \in Nat
      /\ Len(words') = Len(words) + 1 /\ words'[Len(words) + 1] = new
      /\ \A k \in 1..Len(words) : words'[k] = words[k] /\ words[k] \in Words
      /\ Len(text) \in Nat /\ Covered \in Nat
  <2>1. words \in Seq(Words) /\ text \in Seq(Tokens) /\ at \in Nat /\ opened \in Nat
      BY DEF SplitInv, SplitTypeOK
  <2>2. Len(text) \in Nat /\ Covered \in Nat /\ i \in Nat \ {0} /\ j \in Nat
      BY <2>1 DEF Covered
  <2>3. /\ words' \in Seq(Words) /\ Len(words') = Len(words) + 1
        /\ words'[Len(words) + 1] = new
        /\ \A k \in 1..Len(words) : words'[k] = words[k]
      BY <2>1, <2>2, PushTypes
  <2>4. Len(words) \in Nat /\ \A k \in 1..Len(words) : words[k] \in Words
      BY <2>1
  <2> QED
      BY <2>1, <2>2, <2>3, <2>4
<1>2. \A k \in 1..Len(words') : k \in 1..Len(words) \/ k = Len(words) + 1
    BY <1>1
<1>3. \A k \in 1..Len(words) : words[k].to < i /\ words[k].from \in Nat /\ words[k].to \in Nat
  <2> TAKE k \in 1..Len(words)
  <2>1. words[k].from \in Nat /\ words[k].to \in Nat
      BY <1>1 DEF Words
  <2>2. words[k].to < Covered
      BY DEF SplitInv, Bounded
  <2> QED
      BY <1>1, <2>1, <2>2
<1>4. InOrder'
    BY <1>1, <1>2, <1>3 DEF SplitInv, InOrder
<1>5. Bounded'
    BY <1>1, <1>2, <1>3 DEF SplitInv, Bounded
<1>6. Cover'
  <2> SUFFICES ASSUME NEW p \in 1..Len(text), p < j + 1, text[p] # Blank
               PROVE  \E k \in 1..Len(words') : p \in words'[k].from..words'[k].to
      BY DEF Cover
  <2>1. CASE p < Covered
      BY <2>1, <1>1 DEF SplitInv, Cover
  <2>2. CASE p \in Covered..(i - 1)
      BY <2>2
  <2>3. CASE p \in i..j
      BY <2>3, <1>1
  <2> QED
      BY <2>1, <2>2, <2>3, <1>1
<1>7. \A w : Told(w)' <=> Told(w)
    BY DEF Told, Closes
<1>8. AllTold'
  <2> SUFFICES ASSUME NEW k \in 1..Len(words') PROVE Told(words'[k])
      BY <1>7 DEF AllTold
  <2> QED
      BY <1>1, <1>2 DEF SplitInv, AllTold
<1> QED
    BY <1>4, <1>5, <1>6, <1>8

LEMMA SplitInvNext == SplitInv /\ [AnyNext]_splitVars => SplitInv'
<1> SUFFICES ASSUME SplitInv, [AnyNext]_splitVars PROVE SplitInv'
    OBVIOUS
<1>0. SplitTypeOK'
    BY SplitTypeNext DEF SplitInv
<1>t. /\ Len(text) \in Nat /\ at \in Nat \ {0} /\ opened \in Nat
      /\ text \in Seq(Tokens) /\ words \in Seq(Words)
    BY DEF SplitInv, SplitTypeOK
<1>1. ASSUME NEW paras \in Seq(Tokens), Begin(paras) PROVE SplitInv'
    BY <1>0, <1>1 DEF Begin, SplitInv, InOrder, Bounded, Cover, Opened, AllTold, Covered
<1>2. CASE ReadWord
  <2>1. PICK i, j \in 1..Len(text) :
            Reads(i, j) /\ (ReadQuoted(i, j) \/ ReadPlain(i, j)) /\ at' = j + 1
      BY <1>2 DEF ReadWord
  <2>2. /\ stage = "split" /\ stage' = "split" /\ text' = text
        /\ at <= i /\ i <= j /\ j \in i..Len(text)
        /\ \A p \in at..(i - 1) : text[p] = Blank
        /\ \A p \in i..j : text[p] # Blank
        /\ j < Len(text) => text[j + 1] = Blank
        /\ \A p \in at..j : Closes(p) => p = j
        /\ Closes(j) <=> text[j] = Quote
        /\ \A p : Closes(p)' <=> Closes(p)
      BY <1>2, <2>1, <1>t, TokensAssumption DEF ReadWord, Reads, Closes
  <2>3. CASE opened # 0 /\ text[j] = Quote
    <3>1. Push(opened, j) /\ opened' = 0
        BY <2>1, <2>3 DEF ReadQuoted, ReadPlain
    <3>2. /\ opened \in 1..Len(text) /\ opened < at /\ text[opened] = Quote
          /\ \A p \in opened..(at - 1) : ~Closes(p)
        BY <2>3, <2>2, <1>t DEF SplitInv, Opened
    <3>3. Told([from |-> opened, to |-> j])
        BY <3>2, <2>2, <2>3, <1>t DEF Told
    <3>4. Covered = opened /\ Covered' = j + 1
        BY <2>1, <2>2, <2>3, <3>1 DEF Covered
    <3>5. (InOrder /\ Bounded /\ Cover /\ AllTold)'
        BY <3>1, <3>2, <3>3, <3>4, <2>2, <1>t, PushKeeps
    <3> QED
        BY <1>0, <2>2, <3>1, <3>5 DEF SplitInv, Opened
  <2>4. CASE (opened # 0 /\ text[j] # Quote) \/ (opened = 0 /\ text[i] = Quote /\ text[j] # Quote)
    <3>1. words' = words /\ opened' = IF opened = 0 THEN i ELSE opened
        BY <2>1, <2>4 DEF ReadQuoted, ReadPlain
    <3>2. Covered <= Covered' /\ Covered' <= at' /\ Covered' = opened'
        BY <3>1, <2>1, <2>2, <1>t DEF SplitInv, Opened, Covered
    <3>3. \A p \in 1..Len(text) : p < Covered' /\ text[p] # Blank => p < Covered
        BY <3>1, <3>2, <2>1, <2>2, <1>t DEF Covered
    <3>4. Opened'
        BY <3>1, <2>1, <2>2, <2>4, <1>t DEF SplitInv, Opened
    <3>5. Bounded'
      <4> SUFFICES ASSUME NEW k \in 1..Len(words)
                   PROVE  /\ words[k].from <= words[k].to /\ words[k].to < Covered'
                          /\ words[k].to <= Len(text)
          BY <3>1, <2>2 DEF Bounded
      <4>1. words[k].to \in Nat
        <5>1. words[k] \in Words
            BY <1>t
        <5> QED
            BY <5>1 DEF Words
      <4>2. Covered \in Nat /\ Covered' \in Nat
          BY <3>1, <3>2, <2>1, <1>t DEF Covered
      <4> QED
          BY <3>2, <4>1, <4>2 DEF SplitInv, Bounded
    <3>6. Cover'
        BY <3>1, <3>3, <2>2 DEF SplitInv, Cover
    <3>7. InOrder' /\ AllTold'
        BY <3>1, <2>2 DEF SplitInv, InOrder, AllTold, Told
    <3> QED
        BY <1>0, <2>2, <3>4, <3>5, <3>6, <3>7 DEF SplitInv
  <2>5. CASE opened = 0 /\ ~(text[i] = Quote /\ text[j] # Quote)
    <3>1. Push(i, j) /\ opened' = opened
        BY <2>1, <2>5 DEF ReadQuoted, ReadPlain
    <3>2. Told([from |-> i, to |-> j])
        BY <2>2, <2>5, <1>t DEF Told
    <3>3. Covered = at /\ Covered' = j + 1
        BY <2>1, <2>2, <2>5, <3>1 DEF Covered
    <3>4. (InOrder /\ Bounded /\ Cover /\ AllTold)'
        BY <3>1, <3>2, <3>3, <2>2, PushKeeps
    <3> QED
        BY <1>0, <2>2, <2>5, <3>1, <3>4 DEF SplitInv, Opened
  <2> QED
      BY <2>3, <2>4, <2>5
<1>3. CASE SplitEnd
  <2>1. stage = "split" /\ AtEnd /\ UNCHANGED <<text, opened, words>>
      BY <1>3 DEF SplitEnd
  <2>2. \A p : Closes(p) => p \in 1..Len(text) /\ text[p] # Blank
      BY TokensAssumption DEF Closes
  <2>3. CASE opened = 0
    <3>1. stage' = "words" /\ at' = at
        BY <1>3, <2>3 DEF SplitEnd
    <3> QED
        BY <1>0, <2>1, <2>3, <3>1
           DEF SplitInv, InOrder, Bounded, Cover, Opened, AllTold, Covered, Told, Closes, AtEnd
  <2>4. CASE opened # 0
    <3>1. stage' = "left" /\ at' = opened
        BY <1>3, <2>4 DEF SplitEnd
    <3>2. \A p \in opened..Len(text) : ~Closes(p)
        BY <2>1, <2>2, <2>4, <1>t DEF SplitInv, Opened, AtEnd
    <3>3. Opened'
        BY <2>1, <2>4, <3>1, <3>2, <1>t DEF SplitInv, Opened, Closes
    <3>4. (InOrder /\ Bounded /\ Cover /\ AllTold)'
        BY <2>1, <2>4, <3>1
           DEF SplitInv, InOrder, Bounded, Cover, AllTold, Covered, Told, Closes
    <3> QED
        BY <1>0, <2>1, <2>4, <3>1, <3>3, <3>4 DEF SplitInv
  <2> QED
      BY <2>3, <2>4
<1>4. CASE ReadLeft
  <2>1. PICK i, j \in 1..Len(text) : Reads(i, j) /\ Push(i, j) /\ at' = j + 1
      BY <1>4 DEF ReadLeft
  <2>2. /\ stage = "left" /\ UNCHANGED <<stage, text, opened>>
        /\ at <= i /\ j \in i..Len(text)
        /\ \A p \in at..(i - 1) : text[p] = Blank
        /\ \A p \in i..j : text[p] # Blank
        /\ opened # 0 /\ opened <= at
        /\ \A p \in opened..Len(text) : ~Closes(p)
      BY <1>4, <2>1, <1>t DEF ReadLeft, Reads, SplitInv, Opened
  <2>3. Told([from |-> i, to |-> j])
      BY <2>2, <1>t DEF Told
  <2>4. Covered = at /\ Covered' = j + 1
      BY <2>1, <2>2 DEF Covered
  <2>5. (InOrder /\ Bounded /\ Cover /\ AllTold)'
      BY <2>1, <2>2, <2>3, <2>4, PushKeeps
  <2>6. Opened'
      BY <2>1, <2>2, <1>t DEF SplitInv, Opened, Closes
  <2> QED
      BY <1>0, <2>2, <2>5, <2>6 DEF SplitInv
<1>5. CASE LeftEnd
    BY <1>0, <1>5 DEF LeftEnd, SplitInv, InOrder, Bounded, Cover, Opened, AllTold, Covered,
                      Told, Closes, AtEnd
<1>6. CASE Return
    BY <1>0, <1>6 DEF Return, SplitInv, InOrder, Bounded, Cover, Opened, AllTold
<1>7. CASE UNCHANGED splitVars
    BY <1>0, <1>7 DEF splitVars, SplitInv, InOrder, Bounded, Cover, Opened, AllTold, Covered,
                      Told, Closes, AtEnd
<1> QED
    BY <1>1, <1>2, <1>3, <1>4, <1>5, <1>6, <1>7 DEF AnyNext, SplitStep

\* The invariant: the words cover what is before the open quote, or before the place
\* where reading goes on, and nothing after an open quote has closed it.
THEOREM SplitInvariance == SplitSpec => []SplitInv
BY SplitInvInit, SplitInvNext, NextIsAny, PTL DEF SplitSpec

-----------------------------------------------------------------------------
(* What follows *)

LEMMA InvLosesNothing == SplitInv => NothingLost
<1> SUFFICES ASSUME SplitInv, stage = "words" PROVE NothingLost
    BY DEF NothingLost
<1>1. \A p \in 1..Len(text) : text[p] # Blank => p < Covered
    BY DEF SplitInv, SplitTypeOK, AtEnd, Covered
<1> QED
    BY <1>1 DEF SplitInv, NothingLost, InOrder, Cover

LEMMA InvTellsQuotes == SplitInv => QuotesTell
BY DEF SplitInv, QuotesTell, AllTold, Told

\* Every character of a command that is no blank is in one of its words, which keep
\* the order of the command.
THEOREM NoPartLost == SplitSpec => []NothingLost
BY InvLosesNothing, SplitInvariance, PTL

\* Only quotes keep words together, and every quote does that something closes.
THEOREM QuotesAreKept == SplitSpec => []QuotesTell
BY InvTellsQuotes, SplitInvariance, PTL

=============================================================================
