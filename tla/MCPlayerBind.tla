---------------------------- MODULE MCPlayerBind ----------------------------
(* An instance of PlayerBind for TLC. *)
EXTENDS PlayerBind

CONSTANTS t1, t2, q1, q2, q3, n1, n2, n3, x1, x2

TwoThreads == {t1, t2}
ThreeQQs == {q1, q2, q3}
ThreeNames == {n1, n2, n3}
TwoXuids == {x1, x2}

=============================================================================
