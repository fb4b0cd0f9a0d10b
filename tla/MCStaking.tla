----------------------------- MODULE MCStaking -----------------------------
(* Two nodes for TLC, one with more to stake than the other. *)
EXTENDS Staking

CONSTANTS n1, n2

Uneven == [n \in Nodes |-> IF n = n1 THEN 9 ELSE 4]
=============================================================================
