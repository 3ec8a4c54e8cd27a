---------------------------- MODULE BindingTable ----------------------------
(***************************************************************************)
(* What the users of Bind (the commands bind and unbind, the plugin API,   *)
(* the player table) take for granted: a table in which a QQ account and a *)
(* player name occur at most once, changed by one operation at a time, and *)
(* found again by the next start of the program.                           *)
(***************************************************************************)
CONSTANTS QQs, Names, Xuids

VARIABLES
    table,   \* the bindings: records of a qq, a playerName and an xuid
    leaving, \* the accounts whose unbinding has been granted, not yet done
    busy     \* an operation that changes the table has not returned yet

vars == <<table, leaving, busy>>

Init == table = {} /\ leaving = {} /\ busy = FALSE

Bind(q, n) ==
    /\ \A e \in table : e.qq # q /\ e.playerName # n
    /\ \E x \in Xuids :
          table' = table \cup {[qq |-> q, playerName |-> n, xuid |-> x]}
    /\ UNCHANGED <<leaving, busy>>

\* A bound account asks to be unbound; nobody else's binding is taken away.
Grant(q) ==
    /\ \E e \in table : e.qq = q
    /\ leaving' = leaving \cup {q}
    /\ UNCHANGED <<table, busy>>

Unbind(q) ==
    /\ q \in leaving
    /\ \E e \in table : e.qq = q /\ table' = table \ {e}
    /\ leaving' = leaving \ {q}
    /\ UNCHANGED busy

SetXuid(n, x) ==
    /\ \E e \in table :
          /\ e.playerName = n
          /\ table' = (table \ {e}) \cup {[e EXCEPT !.xuid = x]}
    /\ busy' = TRUE
    /\ UNCHANGED leaving

Begin == busy' = TRUE /\ UNCHANGED <<table, leaving>>

Return == leaving = {} /\ busy' = FALSE /\ UNCHANGED <<table, leaving>>

\* The program ends and is started again.  Only an operation that was under way
\* can cost bindings: the file it had opened for writing is empty.
Restart ==
    /\ \/ table' = table
       \/ busy /\ table' = {}
    /\ leaving' = {}
    /\ busy' = FALSE

Next ==
    \/ \E q \in QQs, n \in Names : Bind(q, n)
    \/ \E q \in QQs : Grant(q) \/ Unbind(q)
    \/ \E n \in Names, x \in Xuids : SetXuid(n, x)
    \/ Begin \/ Return \/ Restart

Spec == Init /\ [][Next]_vars

=============================================================================
