--------------------------- MODULE StorageMarket ---------------------------
(***************************************************************************)
(* The storage market (core/storage_network.py): files whose owner pins    *)
(* them, for which the ecosystem fund sets a reward aside; providers that  *)
(* claim a file and reveal one link of their chain a day; and orders,      *)
(* whose amount lies in escrow, is shared among the providers that prove,  *)
(* and goes back to its owner when the order has run out.                  *)
(*                                                                         *)
(* The chain of hashes is perfect: a provider has exactly one next link.   *)
(* All files have one size, so the reward is a number per day.  What ends  *)
(* on a day ends with that day.                                            *)
(***************************************************************************)
EXTENDS Ledger

CONSTANTS
    Files,
    PinDays, DayReward,     \* for how long files are pinned; pin_reward of a day
    ProofReward,            \* STORAGE_PROOF_REWARD
    MaxCommit,              \* MAX_PIN_COMMIT_PER_ADDR
    MaxHolders,             \* MAX_REPLICAS
    ChainLen,               \* DEFAULT_CHAIN_LEN
    OrderDays, OrderSums, Replicas,
    FirstProviders,         \* providers that are registered to begin with
    Owners, MaxOrders       \* bounds: who pins and orders, orders

ASSUME StorageMarketAssumption ==
    /\ IsFiniteSet(Files) /\ PinDays \subseteq Nat \ {0} /\ OrderDays \subseteq Nat \ {0}
    /\ {DayReward, ProofReward, MaxCommit, MaxHolders, ChainLen, MaxOrders} \subseteq Nat \ {0}
    /\ Replicas \subseteq 1 .. MaxHolders /\ FirstProviders \subseteq Users /\ Owners \subseteq Users
    /\ \A s \in OrderSums, r \in Replicas : s \in Nat \ {0} /\ s % r = 0

VARIABLES
    provider,   \* storage_providers
    pin,        \* storage_claims: who pinned a file, until when, its reward pool, its holders
    seal,       \* storage_seals: links revealed, the day of the latest
    order       \* storage_orders

marketVars == <<provider, pin, seal, order>>

NoPin == [owner |-> Nobody, since |-> 0, till |-> 0, pool |-> 0, holders |-> {}]

MarketInit ==
    /\ provider = FirstProviders /\ pin = [f \in Files |-> NoPin]
    /\ seal = [u \in Users |-> [f \in Files |-> [revealed |-> 0, last |-> -1]]]
    /\ order = <<>>

MarketTx(u, n) == Tx("market", u, n)
Pinned(f) == pin[f].owner # Nobody
Alive(f)  == Pinned(f) /\ day <= pin[f].till

MarketRegister(u) ==
    /\ MarketTx(u, 0) /\ u \notin provider
    /\ provider' = provider \cup {u}
    /\ UNCHANGED <<bal, pin, seal, order>>

\* once for ever: a file whose pin has run out stays in the list
Committed(u) == Total([f \in {g \in Files : pin[g].owner = u} |-> pin[f].pool])
MarketPin(u, f, days) ==
    LET reward == days * DayReward IN
    /\ MarketTx(u, 0) /\ ~Pinned(f)
    /\ Committed(u) + reward <= MaxCommit /\ bal[Eco] >= reward
    /\ bal' = Give(bal, Eco, -reward)
    /\ pin' = [pin EXCEPT ![f] = [owner |-> u, since |-> day, till |-> day + days,
                                  pool |-> reward, holders |-> {}]]
    /\ UNCHANGED <<provider, seal, order>>

MarketClaim(u, f) ==
    /\ MarketTx(u, 0) /\ u \in provider /\ Alive(f)
    /\ u # pin[f].owner /\ u \notin pin[f].holders
    /\ Cardinality(pin[f].holders) < MaxHolders
    /\ pin' = [pin EXCEPT ![f].holders = @ \cup {u}]
    /\ UNCHANGED <<bal, provider, seal, order>>

\* Mutant: the day of the latest proof is not asked for.
BugProofDue(u, f) == seal[u][f].revealed < ChainLen
ProofDue(u, f)    == seal[u][f].revealed < ChainLen /\ seal[u][f].last # day

Ran(o) == o.st = "active" /\ day > o.till
Back(o) == Greater(0, o.sum - o.spent)
Share(o) == o.sum \div o.replicas
Expire(o) == [o EXCEPT !.st = "expired"]
Refunds(b, which) ==
    Booked(b, [a \in Users |-> Total([i \in {j \in which : order[j].owner = a} |-> Back(order[i])])])

\* the day's reward, as far as the pool goes; a share of every order for the file that still
\* runs and has not paid u, however many it has paid; the orders for it that ran out end
MarketProve(u, f) ==
    LET reward == Lesser(pin[f].pool, ProofReward)
        mine == {i \in DOMAIN order : order[i].file = f}
        over == {i \in mine : Ran(order[i])}
        pays == {i \in mine \ over : order[i].st = "active" /\ u \notin order[i].paid}
    IN
    /\ MarketTx(u, 0) /\ Alive(f) /\ u \in pin[f].holders /\ ProofDue(u, f)
    /\ seal' = [seal EXCEPT ![u][f] = [revealed |-> @.revealed + 1, last |-> day]]
    /\ pin' = [pin EXCEPT ![f].pool = @ - reward]
    /\ order' = [i \in DOMAIN order |->
                    CASE i \in over -> Expire(order[i])
                      [] i \in pays -> [order[i] EXCEPT !.paid = @ \cup {u}, !.spent = @ + Share(order[i])]
                      [] OTHER -> order[i]]
    /\ bal' = Give(Refunds(bal, over), u, reward + Total([i \in pays |-> Share(order[i])]))
    /\ UNCHANGED provider

\* an order may be for longer than the pin
MarketOrder(u, f, replicas, days, sum) ==
    /\ MarketTx(u, sum) /\ Len(order) < MaxOrders /\ Alive(f)
    /\ bal' = Give(bal, u, -sum)
    /\ order' = Append(order, [owner |-> u, file |-> f, replicas |-> replicas, sum |-> sum,
                               since |-> day, till |-> day + days, paid |-> {}, spent |-> 0, st |-> "active"])
    /\ UNCHANGED <<provider, pin, seal>>

\* the part of the daily maintenance: settle_expired
MarketOver == {i \in DOMAIN order : Ran(order[i])}
MarketMaintained(b) == Refunds(b, MarketOver)
MarketMaintain ==
    /\ order' = [i \in DOMAIN order |-> IF i \in MarketOver THEN Expire(order[i]) ELSE order[i]]
    /\ UNCHANGED <<provider, pin, seal>>

MarketNext ==
    \/ \E u \in Users : MarketRegister(u) \/ \E f \in Files : MarketClaim(u, f) \/ MarketProve(u, f)
    \/ \E u \in Owners, f \in Files : \/ \E d \in PinDays : MarketPin(u, f, d)
                                      \/ \E r \in Replicas, d \in OrderDays, s \in OrderSums :
                                             MarketOrder(u, f, r, d, s)

-----------------------------------------------------------------------------
(* Properties *)

MarketType ==
    /\ provider \subseteq Users
    /\ \A f \in Files : pin[f].pool \in Nat /\ pin[f].holders \subseteq provider \ {pin[f].owner}
    /\ \A i \in DOMAIN order : order[i].paid \subseteq pin[order[i].file].holders
                              /\ order[i].st \in {"active", "expired"}

\* A provider has revealed at most one link for each day of the pin, and whoever an order has
\* paid has proved while it ran.
ProofsArePaced ==
    /\ \A u \in Users, f \in Files :
          seal[u][f].revealed > 0 => seal[u][f].revealed <= seal[u][f].last - pin[f].since + 1
    /\ \A i \in DOMAIN order : \A u \in order[i].paid : seal[u][order[i].file].last >= order[i].since

\* the money that lies in the market
MarketNova ==
    Total([f \in Files |-> pin[f].pool])
        + Total([i \in {j \in DOMAIN order : order[j].st = "active"} |-> Back(order[i])])
\* what the proof pays beyond the escrow of its orders
Overpaid == Total([i \in DOMAIN order |-> Greater(0, order[i].spent - order[i].sum)])

\* Not so in the code (section 4 of the README):
\* "providers share the escrow, what is not paid out goes back": an order pays no more than
\* its owner has put in.
EscrowCovers == Overpaid = 0
\* An order that is paid for can be served as long as it runs.
OrdersStayOpen == \A i \in DOMAIN order : order[i].st = "active" /\ ~Ran(order[i]) => Alive(order[i].file)
=============================================================================
