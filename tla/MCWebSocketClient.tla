-------------------------- MODULE MCWebSocketClient --------------------------
(* Instances of WebSocketClient for TLC. *)
EXTENDS WebSocketClient, TLC

CONSTANTS c1, c2, l1, l2, s1, s2

OneCaller == {c1}
TwoCallers == {c1, c2}
OneLoopThread == {l1}
TwoLoopThreads == {l1, l2}
OneSocket == {s1}
TwoSockets == {s1, s2}

ControlAndOther == {"Ping", "Close", "Other"}
\* Connect takes any thread and any socket that was not used before.
AnyOrder == Permutations(TwoLoopThreads) \cup Permutations(TwoSockets)

TextAndClose == {"Text", "Close"}
CloseOnly == {"Close"}
LongText == {"Long"}

ShutdownAndClose == {"shutdown", "close"}
ShutdownAndSend == {"shutdown", "send"}
ShutdownOnly == {"shutdown"}

=============================================================================
