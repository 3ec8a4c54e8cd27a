---------------------------- MODULE MCRuleEngine ----------------------------
(* An instance of RuleEngine for TLC. *)
EXTENDS RuleEngine

CONSTANTS hello, p, q

OneText == {hello}
TwoPatterns == {p, q}
OneMatch == {<<hello, p>>}

Group(pattern, permission, action) ==
    [pattern |-> pattern, from |-> "group", permission |-> permission, action |-> action]
Console(pattern, action) ==
    [pattern |-> pattern, from |-> "console", permission |-> TRUE, action |-> action]

\* Two commands with another action between them, the second for administrators; what
\* is done at once, what only raises an event, a rule of the console.
SomeLists ==
    {<<Group(p, FALSE, "console"), Group(p, FALSE, "start"),
       [Group(p, TRUE, "console") EXCEPT !.from = "Group"]>>,
     <<Group(p, FALSE, "stop"), Group(q, FALSE, "console"), Group(p, FALSE, "bind"),
       Console(p, "group"), Console(q, "stop")>>}

SomeRanks ==
    [onSendMsg |-> 0, onSendCommand |-> 1, onBinded |-> 2, onServerStart |-> 3,
     onReceiveMsg |-> 4, onConsoleUpdate |-> 4, onLogin |-> 4]

\* A file that nests events in events.
OneFile ==
    {[onSendMsg |-> <<>>, onSendCommand |-> <<"group">>, onBinded |-> <<"console">>,
      onServerStart |-> <<"bind">>, onReceiveMsg |-> <<"none">>,
      onConsoleUpdate |-> <<>>, onLogin |-> <<"start">>]}

=============================================================================
