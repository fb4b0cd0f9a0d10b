------------------------------- MODULE Ledger -------------------------------
(***************************************************************************)
(* The one ledger that the exchange, the oracle, the reserve, the growth   *)
(* fund of the AI service and the subscriptions work on: the balances of   *)
(* NovaNode, users and pools alike, and the calendar day.  A transaction   *)
(* is validated and applied in one step; gas is left out, so the amount    *)
(* has to be there and nothing else.                                       *)
(***************************************************************************)
EXTENDS Integers, FiniteSets, Functions, SequencesExt

CONSTANTS
    Users,
    Wealth, Genesis,    \* what the users and the pools begin with
    Parts,              \* bound: a behaviour plays one part of the economy
    MaxOps, MaxDay      \* bounds, by part: transactions, days

Eco      == "0x_ecosystem_fund"
Reserve  == "0x_reserve"
ValPool  == "0x_validator_pool"
Dead     == "0x_dead"
AiFund   == "0x_ai_growth_fund"
Compute  == "0x_compute_pool"
Pools    == {Eco, Reserve, ValPool, Dead, AiFund, Compute}
Nobody   == "nobody"

ASSUME LedgerAssumption ==
    /\ IsFiniteSet(Users) /\ Users # {} /\ Users \cap Pools = {} /\ Nobody \notin Users
    /\ Wealth \in [Users -> Nat] /\ Genesis \in [Pools -> Nat]
    /\ MaxOps \in [Parts -> Nat] /\ MaxDay \in [Parts -> Nat]

VARIABLES bal, day, ops, part

LedgerInit ==
    /\ bal = [a \in Users \cup Pools |-> IF a \in Users THEN Wealth[a] ELSE Genesis[a]]
    /\ day = 0 /\ ops = 0 /\ part \in Parts

Lesser(a, b)  == IF a < b THEN a ELSE b
Greater(a, b) == IF a > b THEN a ELSE b
Gap(a, b)     == Greater(a, b) - Lesser(a, b)
Total(f)      == FoldFunction(LAMBDA x, y : x + y, 0, f)

\* NOVA paid in (negative: paid out) by several accounts at once
Booked(b, change) == [a \in DOMAIN b |-> IF a \in DOMAIN change THEN b[a] + change[a] ELSE b[a]]
Give(b, a, n)     == [b EXCEPT ![a] = @ + n]
Move(b, a, c, n)  == Give(Give(b, a, -n), c, n)

\* u sends a transaction over n NOVA that concerns the part p
Tx(p, u, n) ==
    /\ part = p /\ ops < MaxOps[part] /\ ops' = ops + 1
    /\ bal[u] >= n
    /\ UNCHANGED <<day, part>>
=============================================================================
