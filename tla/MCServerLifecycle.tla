------------------------- MODULE MCServerLifecycle -------------------------
(* Instances of ServerLifecycle for TLC. *)
EXTENDS ServerLifecycle

OnlyButtons == {}
Everything == AllFeatures

=============================================================================
