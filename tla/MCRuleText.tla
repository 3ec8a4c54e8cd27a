----------------------------- MODULE MCRuleText -----------------------------
(* An instance of RuleText for TLC.  The name of a placeholder is one letter. *)
EXTENDS RuleText

SomeMarks == [n \in 0..5 |-> <<"$", <<"0", "1", "2", "3", "4", "5">>[n + 1]>>]
SomeKeys == {"{qqid}", "{message}", "{hour}"}
SomeSpelling ==
    [k \in SomeKeys |->
        <<"{", CASE k = "{qqid}" -> "q" [] k = "{message}" -> "m" [] OTHER -> "h", "}">>]
SomeTokens ==
    {"a", "b", " ", "Q", "$", "0", "1", "2", "3", "4", "5", "{", "q", "m", "h", "}"}

UpTo(n, S) == UNION {[1..k -> S] : k \in 0..n}

\* Three pieces in any order, a $ or a brace alone among them: $$0, ${hour}, {{message}}.
Pieces ==
    {<<"a">>, <<"Q">>, <<"$">>, <<"{">>, <<"}">>, SomeMarks[0], SomeMarks[1]} \cup
        {SomeSpelling[k] : k \in SomeKeys}
Pieced == {FlattenSeq(p) : p \in UpTo(3, Pieces)}

\* Short rules with everything, long ones with blanks and quotes only.
SomeRules == Pieced \cup UpTo(6, {"a", " ", "Q"})
Second == {<<>>, SomeMarks[1], SomeMarks[3], SomeSpelling["{hour}"], <<"a">> \o SomeMarks[4]}

\* A message with a mark, a quote and a blank in it; one in which a placeholder is
\* written; one that is the name of one.  One o'clock.
SomeValues ==
    { [k \in SomeKeys |->
          CASE k = "{message}" -> m [] k = "{qqid}" -> <<"a", "b">> [] OTHER -> <<"1">>] :
      m \in {<<"Q", "b", " ", "$", "1">>, <<"{", "q", "}", "a">>, <<"q">>} }

\* A match with a group; one whose group is empty, and which holds placeholders; one
\* which holds a mark; one without a group, which is a figure.
SomeCaptures ==
    {<<<<"a", " ", "b">>, <<"b">>>>, <<SomeSpelling["{message}"] \o SomeSpelling["{qqid}"], <<>>>>,
     <<SomeMarks[1], <<"a">>>>, <<<<"1">>, <<"a">>>>, <<<<"b">>>>}
SomeArguments == {<<>>, <<<<"a">>, SomeSpelling["{hour}"] \o <<"Q">>>>}

=============================================================================
