------------------------------- MODULE MCExec -------------------------------
(* TLC instances of Exec: the cfg files choose sizes and environments. *)
EXTENDS Exec
============================================================================
