--------------------------- MODULE MCArbitration ---------------------------
(* One case before three arbitrators, of whom two are drawn and one is left *)
(* for the appeal; the first may apply instead of serving.                    *)
EXTENDS Arbitration

CONSTANTS a1, a2, a3, bea, sam, meg, t1

NovaOf == [x \in Addr \ {Eco} |-> CASE x = a1 -> 60000 [] x \in {a2, a3} -> 0 [] x = bea -> 16000 [] x = sam -> 10300 [] OTHER -> 20100]
WithOrWithout == {{a1, a2, a3}, {a2, a3}}
=============================================================================
