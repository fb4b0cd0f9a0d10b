----------------------------- MODULE MCNodeSync -----------------------------
(* Two or three nodes for TLC; t1 and t2 may compete for one payer's funds. *)
EXTENDS NodeSync, TLC

CONSTANTS n1, n2, n3, t1, t2, p1, p2

OwnPayers == [t \in Txs |-> IF t = t1 THEN p1 ELSE p2]
OnePayer  == [t \in Txs |-> p1]
UnitCost  == [t \in Txs |-> 1]
=============================================================================
