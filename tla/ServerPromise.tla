---------------------------- MODULE ServerPromise ----------------------------
(***************************************************************************)
(* What plugins, event rules and chat users rely on: one game server at a  *)
(* time, and onServerStart and onServerStop told in turns, the second only *)
(* once the process is gone and before another one starts.                 *)
(***************************************************************************)
VARIABLES
    running,   \* a server process runs
    told       \* the last callback was onServerStart

vars == <<running, told>>

Init == ~running /\ ~told

Start ==
    /\ ~running /\ ~told
    /\ running' = TRUE /\ told' = TRUE

Exit ==
    /\ running
    /\ running' = FALSE
    /\ UNCHANGED told

Tell ==
    /\ told /\ ~running
    /\ told' = FALSE
    /\ UNCHANGED running

Next == Start \/ Exit \/ Tell

Spec == Init /\ [][Next]_vars

=============================================================================
