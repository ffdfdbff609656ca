------------------------------- MODULE MCPush -------------------------------
(* TLC instances of Push: the cfg files choose the sizes, the queue          *)
(* capacities and the faults.                                                *)
EXTENDS Push
============================================================================
