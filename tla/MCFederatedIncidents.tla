------------------------ MODULE MCFederatedIncidents ------------------------
(* FederatedIncidents for TLC: two nodes and one incident; in the liveness *)
(* instance one node's clock is ahead.                                     *)
EXTENDS FederatedIncidents, TLC

CONSTANT Ahead   \* nodes whose clock is one tick ahead

MCSkew == [n \in Nodes |-> IF n \in Ahead THEN 1 ELSE 0]
MCSymmetry == Permutations(Nodes)
=============================================================================
