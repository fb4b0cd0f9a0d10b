----------------------------- MODULE MCSocialFi -----------------------------
(* One creator, two users of whom one is an AI identity, a jury of three. *)
EXTENDS SocialFi
MCWealth == [p \in People |-> CASE p \in Users -> 20 [] p = Creator -> 330 [] OTHER -> 0]
=============================================================================
