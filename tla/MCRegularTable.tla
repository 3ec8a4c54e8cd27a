--------------------------- MODULE MCRegularTable ---------------------------
(* An instance of RegularTable for TLC. *)
EXTENDS RegularTable

CONSTANTS a, b, e1, e2

TwoTexts == {a, b}
TwoEditors == {e1, e2}

\* An empty file, one rule twice, and one as somebody may have written it.
SomeFiles ==
    {<<>>,
     <<[text |-> a, from |-> "group"], [text |-> a, from |-> "group"]>>,
     <<[text |-> a, from |-> "Group"], [text |-> b, from |-> "console"]>>}

=============================================================================
