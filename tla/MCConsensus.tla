--------------------------- MODULE MCConsensus ---------------------------
(* Small networks for TLC. *)
EXTENDS Consensus, TLC

CONSTANTS t1, t2, t3, t4, t5

\* transactions that move no stake
NoStake == [t \in Txs |-> [addr |-> 1, delta |-> 0]]
\* t1 adds stake to validator 2, the others move none
T1Stakes == [t \in Txs |-> [addr |-> 2, delta |-> IF t = t1 THEN 100 ELSE 0]]

TxSymmetry == Permutations(Txs)

Stakes2 == <<300, 100>>
Stakes3 == <<300, 200, 100>>
OneStaked == <<300, 0>>
=============================================================================
