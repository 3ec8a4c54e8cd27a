------------------------------ MODULE RuleText ------------------------------
(***************************************************************************)
(* What becomes of the text of a rule: the captures of the match, or the   *)
(* arguments of the event, are put in for $0, $1, ..., the values of       *)
(* placeholders for {qqid}, {cpu}, ..., and a command is cut into words.   *)
(*                                                                         *)
(* Three functions do this: Mirai::selfGroupCatchLine for rules of groups  *)
(* ("group"), Server::selfCatchLine for those of the console ("console"),  *)
(* EventCallbacker::callback for those of event.yml ("event").             *)
(***************************************************************************)
EXTENDS CommandWords, SequencesExt

CONSTANTS
    RuleTexts,    \* texts of rules
    LaterRules,   \* texts of the rules that follow the first one of an event
    Mark,         \* $0, $1, ... as they are written: a function on numbers
    Captures,     \* what a match can yield: its text, then the groups
    Arguments,    \* what an event can pass on
    Keys,         \* the placeholders that occur; the others replace nothing
    Spelling,     \* how a placeholder is written
    Values,       \* what they can stand for while a rule is at work
    MaxRules      \* bound: rules of one event

\* As FmtConsoleRegular and FmtGroupRegular name them.
SystemKeys ==
    {"{cpu}", "{ramAll}", "{ramUse}", "{ranPercent}", "{ramCan}", "{time}", "{year}",
     "{month}", "{week}", "{day}", "{hour}", "{min}", "{second}"}
MemberKeys ==
    {"{qqid}", "{qqnick}", "{groupid}", "{groupnick}", "{message}", "{permission}",
     "{xboxid}"}

\* What is replaced in a text.
Signs == {Mark[n] : n \in DOMAIN Mark} \cup {Spelling[k] : k \in Keys}
Openers == {"$", "{"}

Holds(t, c) == \E i \in 1..Len(t) : t[i] = c

\* The sign w is in the text t at i.
StartsAt(w, t, i) ==
    i + Len(w) - 1 <= Len(t) /\ \A k \in 1..Len(w) : t[i + k - 1] = w[k]

\* Signs begin with their opener and hold none further on, and none begins another.
ApartFrom(W) ==
    /\ \A w \in W :
          /\ w \in Seq(Tokens) /\ Len(w) >= 1
          /\ w[1] \in Openers /\ \A k \in 2..Len(w) : w[k] \notin Openers
    /\ \A v, w \in W : StartsAt(v, w, 1) => v = w

ASSUME SignsAssumption ==
    /\ ApartFrom(Signs)
    /\ \A n \in DOMAIN Mark : Mark[n][1] = "$"
    /\ \A k \in Keys : Spelling[k][1] = "{"
    /\ \A k, l \in Keys : Spelling[k] = Spelling[l] => k = l
    /\ \A m, n \in DOMAIN Mark : Mark[m] = Mark[n] => m = n
ASSUME KeysAssumption ==
    /\ Keys \subseteq SystemKeys \cup MemberKeys
    /\ Values \subseteq [Keys -> Seq(Tokens)]
    \* The figures of the system are numbers and dates.
    /\ \A v \in Values : \A k \in Keys \cap SystemKeys : \A c \in Openers : ~Holds(v[k], c)
ASSUME RulesAssumption ==
    /\ RuleTexts \cup LaterRules \subseteq Seq(Tokens)
    /\ Captures \cup Arguments \subseteq Seq(Seq(Tokens))
    /\ MaxRules \in Nat \ {0}
\* A mark for every value, of one digit.
ASSUME MarkAssumption ==
    /\ DOMAIN Mark \subseteq 0..9
    /\ \A c \in Captures : \A i \in 1..Len(c) : i - 1 \in DOMAIN Mark
    /\ \A a \in Arguments : 1..(MaxRules * Len(a)) \subseteq DOMAIN Mark

VARIABLES
    step,      \* "idle", "numbers", "keys", "act", "acted"
    kind,      \* which of the three functions
    rule,      \* the rule as it is in the table
    draft,     \* action, i: its text while replacements are made
    values,    \* capturedTexts, arg_
    value,     \* what the placeholders stand for
    num,       \* the number of the next $
    first,     \* num when the rule began
    pending,   \* the placeholders that batchFormatting has not come to
    nth        \* the rules of this event so far

draftVars == <<step, kind, rule, draft, values, value, num, first, pending, nth>>
vars == <<draftVars, splitVars>>

Kinds == {"group", "console", "event"}

TypeOK ==
    /\ SplitTypeOK
    /\ step \in {"idle", "numbers", "keys", "act", "acted"} /\ kind \in Kinds
    /\ rule \in Seq(Tokens) /\ draft \in Seq(Tokens)
    /\ values \in Seq(Seq(Tokens)) /\ value \in Values
    /\ first \in Nat /\ num \in first..(first + Len(values))
    /\ pending \subseteq Keys /\ nth \in 0..MaxRules

Init ==
    /\ SplitInit
    /\ step = "idle" /\ kind = "group" /\ rule = <<>> /\ draft = <<>> /\ values = <<>>
    /\ value \in Values /\ num = 0 /\ first = 0 /\ pending = {} /\ nth = 0

\* Groups know of the member who wrote, the others of the system only.
KeysOf(k) == IF k = "group" THEN Keys ELSE Keys \cap SystemKeys

\* The text read from left to right: where a sign that f is defined for begins stands what
\* f says, and reading goes on behind the sign.
Scan(t, f) ==
    LET From[i \in 1..(Len(t) + 1)] ==
            IF i > Len(t) THEN <<>>
            ELSE IF \E w \in DOMAIN f : StartsAt(w, t, i)
            THEN LET w == CHOOSE w \in DOMAIN f : StartsAt(w, t, i)
                 IN  f[w] \o From[i + Len(w)]
            ELSE <<t[i]>> \o From[i + 1]
    IN  From[1]

-----------------------------------------------------------------------------
(* Faulty variants of steps below, which nothing uses *)

\* One occurrence is replaced.
ReplaceOnce(t, old, new) == ReplaceFirstSubSeq(new, old, t)

\* The numbers begin with the second value.
NumberSkips ==
    /\ step = "numbers" /\ num - first < Len(values)
    /\ draft' = Scan(draft, [d \in {Mark[num + 1]} |-> values[num - first + 1]])
    /\ num' = num + 2
    /\ UNCHANGED <<step, kind, rule, values, value, first, pending, nth, splitVars>>

-----------------------------------------------------------------------------
(* Replacements *)

\* helper::replace: find goes on behind what was put in, so that this is not read again.
Replace(t, old, new) == Scan(t, [d \in {old} |-> new])

\* A rule applies.  For groups and the console captures come first, for events last.
Start ==
    /\ step = "idle"
    /\ \E k \in Kinds :
          /\ kind' = k
          /\ step' = IF k = "event" THEN "keys" ELSE "numbers"
          /\ values' \in IF k = "event" THEN Arguments ELSE Captures
          /\ num' = IF k = "event" THEN 1 ELSE 0
          /\ pending' = KeysOf(k)
    /\ value' \in Values /\ rule' \in RuleTexts /\ draft' = rule'
    /\ first' = num' /\ nth' = 1
    /\ UNCHANGED splitVars

Number ==
    /\ step = "numbers" /\ num - first < Len(values)
    /\ draft' = Replace(draft, Mark[num], values[num - first + 1])
    /\ num' = num + 1
    /\ UNCHANGED <<step, kind, rule, values, value, first, pending, nth, splitVars>>

NumbersEnd ==
    /\ step = "numbers" /\ num - first = Len(values)
    /\ step' = IF kind = "event" THEN "act" ELSE "keys"
    /\ UNCHANGED <<kind, rule, draft, values, value, num, first, pending, nth, splitVars>>

\* batchFormatting, in the order of an unordered_map.
Key ==
    /\ step = "keys"
    /\ \E k \in pending :
          draft' = Replace(draft, Spelling[k], value[k]) /\ pending' = pending \ {k}
    /\ UNCHANGED <<step, kind, rule, values, value, num, first, nth, splitVars>>

KeysEnd ==
    /\ step = "keys" /\ pending = {}
    /\ step' = IF kind = "event" THEN "numbers" ELSE "act"
    /\ UNCHANGED <<kind, rule, draft, values, value, num, first, pending, nth, splitVars>>

-----------------------------------------------------------------------------
(* What is done with the text *)

\* It goes to the server or to the groups as it is.
Send ==
    /\ step = "act"
    /\ step' = "acted"
    /\ UNCHANGED <<kind, rule, draft, values, value, num, first, pending, nth, splitVars>>

\* CustomCmd
Command ==
    /\ step = "act"
    /\ Begin(draft)
    /\ step' = "acted"
    /\ UNCHANGED <<kind, rule, draft, values, value, num, first, pending, nth>>

Split == SplitStep /\ UNCHANGED draftVars

Returned == step = "acted" /\ stage \in {"idle", "words"}

\* The next rule of the event: its placeholders are looked up anew, num is not set back.
NextRule ==
    /\ Returned /\ kind = "event" /\ nth < MaxRules
    /\ value' \in Values /\ rule' \in LaterRules /\ draft' = rule'
    /\ first' = num /\ nth' = nth + 1
    /\ step' = "keys" /\ pending' = KeysOf(kind)
    /\ Return
    /\ UNCHANGED <<kind, values, num>>

End ==
    /\ Returned
    /\ step' = "idle" /\ nth' = 0
    /\ rule' = <<>> /\ draft' = <<>> /\ values' = <<>> /\ num' = 0 /\ first' = 0
    /\ Return
    /\ UNCHANGED <<kind, value, pending>>

Next ==
    \/ Start \/ Number \/ NumbersEnd \/ Key \/ KeysEnd
    \/ Send \/ Command \/ Split \/ NextRule \/ End

Spec == Init /\ [][Next]_vars

-----------------------------------------------------------------------------
(* Properties; NothingLost and QuotesTell are those of CommandWords *)

\* What the marks and the placeholders of this rule stand for.
Numbered ==
    [w \in {Mark[first + i - 1] : i \in 1..Len(values)} |->
        values[CHOOSE i \in 1..Len(values) : Mark[first + i - 1] = w]]
Named ==
    [w \in {Spelling[k] : k \in KeysOf(kind)} |->
        value[CHOOSE k \in KeysOf(kind) : Spelling[k] = w]]
Together ==
    [w \in DOMAIN Numbered \cup DOMAIN Named |->
        IF w \in DOMAIN Numbered THEN Numbered[w] ELSE Named[w]]

\* Nothing of t that could become a sign runs into a $ or { : not $$2, ${hour}, {{qqid}}.
Clean(t, W) ==
    ~ \E i, j \in 1..Len(t), w \in W :
        /\ i < j /\ j - i < Len(w) /\ t[j] \in Openers
        /\ \A k \in 1..(j - i) : t[i + k - 1] = w[k]

\* What is put in has no opener that a later replacement looks for.
Plain ==
    /\ Clean(rule, DOMAIN Together)
    /\ \A k \in KeysOf(kind) : ~Holds(value[k], "{")
    /\ \A i \in 1..Len(values) :
          ~Holds(values[i], "$") /\ (kind # "event" => ~Holds(values[i], "{"))

\* If the rule is clean and the values are plain, the text that is sent or run is the rule
\* read once, with every mark and every placeholder put in on the way: the replacements
\* make one after another what they would make at once, whatever the order in which the
\* placeholders are taken.  Without Plain the code looks at what it has put in again.
WrittenOut ==
    step \in {"act", "acted"} /\ Plain => draft = Scan(rule, Together)

=============================================================================
