-------------------------- MODULE MCComputeMarket --------------------------
(* Small markets for TLC: a publisher, workers and third parties. *)
EXTENDS ComputeMarket, TLC

CONSTANTS c, w1, w2, w3, v1, v2, none, t1, t2, h1, h2, h3

Novices   == [p \in People |-> 50]
Veterans  == [p \in People |-> IF p = w1 THEN 140 ELSE 50]
Demoted   == [p \in People |-> IF p = w1 THEN 30 ELSE 50]
AllStaked == [p \in People |-> IF p = c THEN 0 ELSE 150]
Backed    == [p \in People |-> IF p = c THEN 400 ELSE 0]
Poor      == [p \in People |-> IF p = c THEN 200 ELSE 0]
Symmetric == Permutations({w1, w2}) \cup Permutations(TaskIds) \cup Permutations(Hashes)
=============================================================================
