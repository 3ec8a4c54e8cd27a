---------------------------- MODULE CommandWords ----------------------------
(***************************************************************************)
(* How CommandAPI::SplitCommand cuts a command into words.  A command is a *)
(* sequence of tokens, a word of the result a stretch of it: SplitCommand  *)
(* keeps what lies there in order, drops the quotes and makes one blank of *)
(* several.                                                                *)
(***************************************************************************)
EXTENDS Naturals, Sequences

CONSTANTS
    Tokens,   \* characters, or pieces of text that nothing here tells apart
    Blank, Quote,
    Texts     \* the commands

ASSUME TokensAssumption ==
    /\ Blank \in Tokens /\ Quote \in Tokens /\ Blank # Quote
    /\ Texts \subseteq Seq(Tokens)

VARIABLES
    stage,    \* "idle", "split", "left" while unclosed words are put back, "words"
    text,     \* paras
    at,       \* the stream: where it goes on reading
    opened,   \* strInQuote: where it begins, 0 if it is empty
    words     \* res

splitVars == <<stage, text, at, opened, words>>

Words == [from : Nat \ {0}, to : Nat]

SplitTypeOK ==
    /\ stage \in {"idle", "split", "left", "words"}
    /\ text \in Seq(Tokens)
    /\ at \in Nat \ {0} /\ opened \in Nat
    /\ words \in Seq(Words)

SplitInit == stage = "idle" /\ text = <<>> /\ at = 1 /\ opened = 0 /\ words = <<>>

\* The stream yields i..j: what it finds behind blanks, up to the next blank.
Reads(i, j) ==
    /\ i \in at..Len(text) /\ j \in i..Len(text)
    /\ \A p \in at..(i - 1) : text[p] = Blank
    /\ \A p \in i..j : text[p] # Blank
    /\ j < Len(text) => text[j + 1] = Blank

AtEnd == \A p \in at..Len(text) : text[p] = Blank

Push(i, j) == words' = Append(words, [from |-> i, to |-> j])

Begin(paras) ==
    /\ stage = "idle"
    /\ stage' = "split" /\ text' = paras
    /\ at' = 1 /\ opened' = 0 /\ words' = <<>>

-----------------------------------------------------------------------------
(* Faulty variants of steps below, which nothing uses *)

\* What was quoted and not closed is forgotten.
SplitEndForgets ==
    /\ stage = "split" /\ AtEnd
    /\ stage' = "words"
    /\ UNCHANGED <<text, at, opened, words>>

\* Within quotes a word that begins with a quote is taken for the end.
ReadQuotedAnyQuote(i, j) ==
    /\ opened # 0
    /\ IF Quote \in {text[i], text[j]} THEN Push(opened, j) /\ opened' = 0
       ELSE UNCHANGED <<opened, words>>

-----------------------------------------------------------------------------
(* The loop over the words of the stream *)

\* Within quotes: up to the word that ends with a quote.
ReadQuoted(i, j) ==
    /\ opened # 0
    /\ IF text[j] = Quote THEN Push(opened, j) /\ opened' = 0
       ELSE UNCHANGED <<opened, words>>

ReadPlain(i, j) ==
    /\ opened = 0
    /\ IF text[i] = Quote /\ text[j] # Quote THEN opened' = i /\ UNCHANGED words
       ELSE Push(i, j) /\ UNCHANGED opened

ReadWord ==
    /\ stage = "split"
    /\ \E i, j \in 1..Len(text) :
          Reads(i, j) /\ (ReadQuoted(i, j) \/ ReadPlain(i, j)) /\ at' = j + 1
    /\ UNCHANGED <<stage, text>>

SplitEnd ==
    /\ stage = "split" /\ AtEnd
    /\ IF opened = 0 THEN stage' = "words" /\ UNCHANGED at
       ELSE stage' = "left" /\ at' = opened
    /\ UNCHANGED <<text, opened, words>>

\* What was not closed is read again, each word for itself.
ReadLeft ==
    /\ stage = "left"
    /\ \E i, j \in 1..Len(text) : Reads(i, j) /\ Push(i, j) /\ at' = j + 1
    /\ UNCHANGED <<stage, text, opened>>

LeftEnd ==
    /\ stage = "left" /\ AtEnd
    /\ stage' = "words"
    /\ UNCHANGED <<text, at, opened, words>>

\* SplitCommand returns, its caller too.
Return ==
    /\ stage \in {"idle", "words"}
    /\ stage' = "idle" /\ text' = <<>> /\ at' = 1 /\ opened' = 0 /\ words' = <<>>

SplitStep == ReadWord \/ SplitEnd \/ ReadLeft \/ LeftEnd

SplitNext == SplitStep \/ Return \/ \E paras \in Texts : Begin(paras)

SplitSpec == SplitInit /\ [][SplitNext]_splitVars

-----------------------------------------------------------------------------
(* What words are *)

\* A quote ends the quoted words here.
Closes(p) ==
    /\ p \in 1..Len(text) /\ text[p] = Quote
    /\ p < Len(text) => text[p + 1] = Blank

\* Whatever is quoted, and wherever quotes are missing, each character of the command is
\* in one word, and the words have the order of the command: no parameter is lost,
\* doubled, or exchanged for another.
NothingLost ==
    stage = "words" =>
        /\ \A k, m \in 1..Len(words) : k < m => words[k].to < words[m].from
        /\ \A p \in 1..Len(text) :
              text[p] # Blank =>
                  \E k \in 1..Len(words) : p \in words[k].from..words[k].to

\* Blanks are kept in a word only between a quote that opens it and the first that
\* closes it; and a quote without effect is one that nothing closes.
QuotesTell ==
    stage = "words" =>
        \A k \in 1..Len(words) :
            LET w == words[k] IN
            /\ (\E p \in w.from..w.to : text[p] = Blank) =>
                  /\ text[w.from] = Quote /\ Closes(w.to)
                  /\ \A p \in w.from..(w.to - 1) : ~Closes(p)
            /\ text[w.from] = Quote /\ ~Closes(w.to) =>
                  \A p \in w.from..Len(text) : ~Closes(p)

=============================================================================
