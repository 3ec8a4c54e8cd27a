-------------------------- MODULE ConnectionPromise --------------------------
(***************************************************************************)
(* What the users of the WebSocket client (the callbacks WsClient installs *)
(* in src/src/ws_client.cpp) rely on: connections are made one at a time,  *)
(* and the loss of one is told once, only if its peer ended it, and while  *)
(* no later connection is open.                                            *)
(***************************************************************************)
CONSTANTS Connections, None

VARIABLES
    current,    \* the open connection, or None
    made,       \* connections made so far
    gone,       \* connections the peer has ended
    told        \* connections whose loss the user was told of

vars == <<current, made, gone, told>>

Init ==
    /\ current = None
    /\ made = {} /\ gone = {} /\ told = {}

\* The peer may already be gone when the connection counts as made.
Open(n) ==
    /\ current = None
    /\ n \in Connections \ made
    /\ current' = n
    /\ made' = made \cup {n}
    /\ gone' \in {gone, gone \cup {n}}
    /\ UNCHANGED told

PeerEnds(n) ==
    /\ n \in made \ gone
    /\ gone' = gone \cup {n}
    /\ UNCHANGED <<current, made, told>>

\* The user shuts the connection down, or its loss is noticed.
End ==
    /\ current # None
    /\ current' = None
    /\ UNCHANGED <<made, gone, told>>

Tell(n) ==
    /\ current = None
    /\ n \in gone \ told
    /\ told' = told \cup {n}
    /\ UNCHANGED <<current, made, gone>>

Next == End \/ \E n \in Connections : Open(n) \/ PeerEnds(n) \/ Tell(n)

Spec == Init /\ [][Next]_vars

=============================================================================
