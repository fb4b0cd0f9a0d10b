------------------------------ MODULE MCBridge ------------------------------
(* Small bridges for TLC: quorums of two, one or two assets. *)
EXTENDS Bridge, TLC

CONSTANTS n1, n2, n3, u1, u2, k1, k2, nUSDT, NOVA

OneUsd   == [a \in Assets |-> 1]
NovaIsDearer == [a \in Assets |-> IF a = NOVA THEN 2 ELSE 1]
UnitFee  == [a \in Assets |-> 1]
TwoUnitFee == [a \in Assets |-> 2]
Symmetric == Permutations(Nodes) \cup Permutations(Keys)
=============================================================================
