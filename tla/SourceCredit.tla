---------------------------- MODULE SourceCredit ----------------------------
(***************************************************************************)
(* What the bridge promises about deposits, without nodes, signatures,     *)
(* delays or cancellations: a source-chain transaction is credited on Nova *)
(* at most once, under one receipt, for good (core/bridge.py: "the same    *)
(* source-chain transaction is booked only once").                         *)
(***************************************************************************)
CONSTANTS Keys, Receipts
VARIABLE credited    \* pairs of a source transaction and its receipt

Init == credited = {}

Credit(k, r) ==
    /\ \A c \in credited : c[1] # k /\ c[2] # r
    /\ credited' = credited \cup {<<k, r>>}

Next == \E k \in Keys, r \in Receipts : Credit(k, r)

Spec == Init /\ [][Next]_credited
=============================================================================
