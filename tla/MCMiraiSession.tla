--------------------------- MODULE MCMiraiSession ---------------------------
(* Instances of MiraiSession for TLC. *)
EXTENDS MiraiSession

CONSTANTS c1, c2, c3

TwoConnections == {c1, c2}
ThreeConnections == {c1, c2, c3}

=============================================================================
