------------------------- MODULE MCStorageIncentive -------------------------
(* Two or three storage nodes for TLC; only n1 can stake. *)
EXTENDS StorageIncentive

CONSTANTS n1, n2, n3, f1, f2, none

OneGb     == [c \in Cids |-> 1]
OneStaker == [n \in Nodes |-> IF n = n1 THEN 10 ELSE 0]
=============================================================================
