------------------------------- MODULE MCPull -------------------------------
(* TLC instance of Pull: the cfg file chooses the sizes, the queue           *)
(* capacities and the faults.                                                *)
EXTENDS Pull
============================================================================
