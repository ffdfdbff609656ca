------------------------------- MODULE MCStop -------------------------------
(* TLC instances of Stop. *)
EXTENDS Stop
CONSTANTS c1, c2
============================================================================
