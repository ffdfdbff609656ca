------------------------------ MODULE MCQueues ------------------------------
(* TLC instances of Queues: the cfg files choose capacities and faults.      *)
EXTENDS Queues
============================================================================
