---------------------------- MODULE MCGovernance ----------------------------
(* Small electorates for TLC. *)
EXTENDS Governance, TLC

CONSTANTS a, b, c, none

Equal    == [p \in People |-> 2]
Nothing  == [p \in People |-> 0]
OneRich  == [p \in People |-> IF p = a THEN 4 ELSE 2]
=============================================================================
