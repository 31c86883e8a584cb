---------------------------- MODULE MCGraphCalls ----------------------------
(* Small instances of GraphCalls for TLC. *)
EXTENDS GraphCalls, TLC

=============================================================================
