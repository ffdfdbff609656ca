------------------------------ MODULE MCRelay ------------------------------
(* Small instances of Relay for TLC. *)
EXTENDS Relay, TLC

CONSTANTS a1, a2, c1, c2, x, y, q1, q2

(* one connection per name *)
TwoAgents == a1 :> x @@ a2 :> y
OneAgent == a1 :> x
(* an agent that reconnects, or two agents with one name *)
OneName == a1 :> x @@ a2 :> x

CtrlSymmetry == Permutations(CConns) \cup Permutations(ReqIds)
============================================================================
