------------------------------- MODULE Bridge -------------------------------
(***************************************************************************)
(* The cross-chain bridge (core/bridge.py): bridge nodes with a stake, the *)
(* multi-signature life of deposits (source chain to wrapped asset) and    *)
(* withdrawals (wrapped asset or NOVA to another chain), tiered delays,    *)
(* the daily cap and the fee pool.  A signed operation is validated and    *)
(* applied in one step (NovaNode.broadcast_tx), so each action is          *)
(* *_validate followed by *_apply.                                         *)
(*                                                                         *)
(* Time.  Every waiting time is a countdown that Tick lowers; a UTC day    *)
(* may end at any tick.  Gas moves between native balances and is left     *)
(* out.  Amounts are whole units; Price and MinFee give an asset's USD     *)
(* price and FEE_MIN_USD in its units.  bridge._slash has no caller, so no *)
(* node is ever "slashed".                                                 *)
(***************************************************************************)
EXTENDS Integers, FiniteSets, Functions

CONSTANTS
    Nodes, Users,      \* addresses that may run a bridge node; other users
    Keys,              \* "<chain>:<source_tx>" of source-chain deposits
    Assets, Nova,      \* SUPPORTED symbols; Nova is the native one
    Price, MinFee, FeeDivisor,
    Amounts,           \* amounts asked for
    NodeStake, MaxNodes, RequiredSigs, NodeMinAge, Unbond,
    DailyLimit, Tier1, Tier2, ReviewLimit,
    Delay1, Delay2, ReviewDelay,
    NovaGenesis,       \* native balance every address starts with
    MaxDeposits, MaxWithdrawals, MaxExits   \* bounds on records and exits

Addrs == Nodes \cup Users
DepIds == 1..MaxDeposits
WdIds  == 1..MaxWithdrawals

ASSUME BridgeAssumption ==
    /\ IsFiniteSet(Nodes) /\ IsFiniteSet(Users) /\ Nova \in Assets
    /\ Price \in [Assets -> Nat \ {0}] /\ MinFee \in [Assets -> Nat]
    /\ FeeDivisor \in Nat \ {0} /\ RequiredSigs \in Nat \ {0}
    /\ Amounts \subseteq Nat \ {0}
    /\ NodeStake \in Nat \ {0} /\ NodeMinAge \in Nat /\ Unbond \in Nat
    /\ DailyLimit \in Nat /\ Tier1 \in Nat /\ Tier2 \in Nat /\ ReviewLimit \in Nat
    /\ Delay1 \in Nat /\ Delay2 \in Nat /\ ReviewDelay \in Nat
    /\ NovaGenesis \in Nat
    /\ MaxNodes \in Nat /\ MaxDeposits \in Nat /\ MaxWithdrawals \in Nat /\ MaxExits \in Nat

VARIABLES
    node,              \* bridge_nodes: status, stake, seasoning and exit countdowns
    dep, wd,           \* bridge_deposits and bridge_withdrawals, by number
    depSeq, wdSeq,
    wrapped, supply,   \* bridge_assets: balances and supply
    listed,            \* symbols present in bridge_assets
    nova,              \* native balances
    feePool, validatorPool,
    used,              \* bridge_daily_usage of today, in USD
    addrUsed,          \* bridge_addr_daily of today
    flush              \* "done" when a flush event carries today's date, else "due"

requests == <<dep, wd, depSeq, wdSeq>>
assets   == <<wrapped, supply, listed>>
fees     == <<feePool, validatorPool, flush>>
usage    == <<used, addrUsed>>
vars     == <<node, requests, assets, nova, fees, usage>>

Init ==
    /\ node = [n \in Nodes |-> [status |-> "none", stake |-> 0, age |-> 0, wait |-> 0]]
    /\ depSeq = 0 /\ dep = [i \in 1..0 |-> {}]
    /\ wdSeq = 0 /\ wd = [i \in 1..0 |-> {}]
    /\ wrapped = [a \in Assets |-> [u \in Addrs |-> 0]]
    /\ supply = [a \in Assets |-> 0]
    /\ listed = {}
    /\ nova = [u \in Addrs |-> NovaGenesis]
    /\ feePool = 0 /\ validatorPool = 0 /\ flush = "due"
    /\ used = 0 /\ addrUsed = [u \in Addrs |-> 0]

-----------------------------------------------------------------------------
MaxOf(a, b) == IF a > b THEN a ELSE b
Less(a)     == IF a > 0 THEN a - 1 ELSE 0

\* an active node that asked to leave ("leaving") keeps its rights
IsNode(n)   == node[n].status \in {"active", "leaving"}
Usd(a, amt) == amt * Price[a]
Fee(a, amt) == MaxOf(amt \div FeeDivisor, MinFee[a])

CheckLimit(usd) == used + usd <= 3 * DailyLimit
DelayFor(usd)   == IF usd < Tier1 THEN 0 ELSE IF usd < Tier2 THEN Delay1 ELSE Delay2
InReview(u, usd) == addrUsed[u] + usd >= ReviewLimit

\* a request's signatures are complete; a large one has also served its delay
BugOneShort(sigs) == Cardinality(sigs) >= RequiredSigs - 1
SigsOk(sigs) == Cardinality(sigs) >= RequiredSigs

Finalizable(r) == /\ r.status \in {"held", "ready"}
                  /\ SigsOk(r.sigs)
                  /\ r.delay > 0 => r.hold = 0

\* a node may add its signature to the open request r
BugSignsAtOnce(n, r) ==
    /\ IsNode(n) /\ r.status \in {"pending", "held", "ready"}
    /\ Cardinality(r.sigs) < RequiredSigs /\ n \notin r.sigs
MaySign(n, r) ==
    /\ IsNode(n) /\ r.status \in {"pending", "held", "ready"}
    /\ Cardinality(r.sigs) < RequiredSigs
    /\ n \notin r.sigs /\ node[n].age = 0

Signed(r, n) ==
    LET s == r.sigs \cup {n}
    IN  [r EXCEPT !.sigs = s,
                  !.status = IF SigsOk(s) THEN (IF r.delay > 0 THEN "held" ELSE "ready")
                             ELSE @]

\* the record numbered |f|+1
Extend(f, n, r) == [i \in 1..n + 1 |-> IF i = n + 1 THEN r ELSE f[i]]

-----------------------------------------------------------------------------
(* nova:bridge:node:* *)
RegisterNode(n) ==
    /\ node[n].status = "none" /\ nova[n] >= NodeStake
    /\ Cardinality({m \in Nodes : node[m].status # "none"}) < MaxNodes
    /\ node' = [node EXCEPT ![n] = [status |-> "active", stake |-> NodeStake,
                                    age |-> NodeMinAge, wait |-> 0]]
    /\ nova' = [nova EXCEPT ![n] = @ - NodeStake]
    /\ UNCHANGED <<requests, assets, fees, usage>>

ExitNode(n) ==
    /\ node[n].status = "active"
    /\ Cardinality({m \in Nodes : node[m].status \in {"leaving", "exited"}}) < MaxExits
    /\ node' = [node EXCEPT ![n] = [@ EXCEPT !.status = "leaving", !.wait = Unbond]]
    /\ UNCHANGED <<requests, assets, nova, fees, usage>>

BugStakeKept(n) ==
    /\ node[n].status = "leaving" /\ node[n].wait = 0 /\ node[n].stake > 0
    /\ nova' = [nova EXCEPT ![n] = @ + node[n].stake]
    /\ node' = [node EXCEPT ![n] = [@ EXCEPT !.status = "exited"]]
    /\ UNCHANGED <<requests, assets, fees, usage>>
ClaimExit(n) ==
    /\ node[n].status = "leaving" /\ node[n].wait = 0 /\ node[n].stake > 0
    /\ nova' = [nova EXCEPT ![n] = @ + node[n].stake]
    /\ node' = [node EXCEPT ![n] = [@ EXCEPT !.status = "exited", !.stake = 0]]
    /\ UNCHANGED <<requests, assets, fees, usage>>

(* nova:bridge:asset:register *)
RegisterAsset(n, a) ==
    /\ IsNode(n) /\ a \notin listed
    /\ listed' = listed \cup {a}
    /\ UNCHANGED <<node, requests, wrapped, supply, nova, fees, usage>>

-----------------------------------------------------------------------------
(* nova:bridge:deposit: a node reports a deposit and is its first signer. *)
BugKeyNotLookedUp(k) == TRUE
KeyIsFree(k) == \A i \in DOMAIN dep : dep[i].key = k => dep[i].status = "cancelled"

Deposit(n, k, a, u, amt) ==
    LET usd    == Usd(a, amt)
        review == InReview(u, usd)
        delay  == MaxOf(DelayFor(usd), IF review THEN ReviewDelay ELSE 0)
    IN  /\ IsNode(n) /\ KeyIsFree(k) /\ CheckLimit(usd) /\ depSeq < MaxDeposits
        /\ dep' = Extend(dep, depSeq,
                    [key |-> k, user |-> u, asset |-> a, amount |-> amt,
                     fee |-> Fee(a, amt), usd |-> usd, review |-> review,
                     delay |-> delay, hold |-> delay,
                     status |-> "pending", sigs |-> {n}])
        /\ depSeq' = depSeq + 1
        /\ UNCHANGED <<node, wd, wdSeq, assets, nova, fees, usage>>

(* nova:bridge:deposit:sign, by a node whose observation of the source
   transaction agrees with the record. *)
SignDeposit(n, i) ==
    /\ MaySign(n, dep[i])
    /\ dep' = [dep EXCEPT ![i] = Signed(@, n)]
    /\ UNCHANGED <<node, wd, depSeq, wdSeq, assets, nova, fees, usage>>

(* nova:bridge:deposit:claim: anyone has a complete deposit minted. *)
ClaimDeposit(i) ==
    LET net == dep[i].amount - dep[i].fee
    IN  /\ Finalizable(dep[i])
        /\ wrapped' = [wrapped EXCEPT ![dep[i].asset][dep[i].user] = @ + net]
        /\ supply' = [supply EXCEPT ![dep[i].asset] = @ + net]
        /\ listed' = listed \cup {dep[i].asset}
        /\ feePool' = feePool + dep[i].fee
        /\ used' = used + dep[i].usd
        /\ addrUsed' = [addrUsed EXCEPT ![dep[i].user] = @ + dep[i].usd]
        /\ dep' = [dep EXCEPT ![i] = [@ EXCEPT !.status = "minted"]]
        /\ UNCHANGED <<node, wd, depSeq, wdSeq, nova, validatorPool, flush>>

(* nova:bridge:deposit:cancel, by the user, any time before the minting. *)
CancelDeposit(i) ==
    /\ dep[i].status \notin {"minted", "cancelled"}
    /\ dep' = [dep EXCEPT ![i] = [@ EXCEPT !.status = "cancelled"]]
    /\ UNCHANGED <<node, wd, depSeq, wdSeq, assets, nova, fees, usage>>

-----------------------------------------------------------------------------
(* nova:bridge:withdraw: NOVA leaves the sender's balance with the
   transaction, a wrapped asset is burned. *)
Withdraw(u, a, amt) ==
    LET usd   == Usd(a, amt)
        delay == DelayFor(usd)
    IN  /\ CheckLimit(usd) /\ wdSeq < MaxWithdrawals
        /\ \/ /\ a = Nova /\ nova[u] >= amt
              /\ nova' = [nova EXCEPT ![u] = @ - amt]
              /\ UNCHANGED <<wrapped, supply>>
           \/ /\ a # Nova /\ a \in listed /\ wrapped[a][u] >= amt
              /\ wrapped' = [wrapped EXCEPT ![a][u] = @ - amt]
              /\ supply' = [supply EXCEPT ![a] = @ - amt]
              /\ UNCHANGED nova
        /\ wd' = Extend(wd, wdSeq,
                    [user |-> u, asset |-> a, amount |-> amt, fee |-> Fee(a, amt),
                     usd |-> usd, delay |-> delay, hold |-> delay,
                     status |-> "pending", sigs |-> {}])
        /\ wdSeq' = wdSeq + 1
        /\ UNCHANGED <<node, dep, depSeq, listed, fees, usage>>

BugSignOnlyReady(n, i) ==
    /\ MaySign(n, wd[i])
    /\ wd' = [wd EXCEPT ![i].sigs = @ \cup {n}]
    /\ UNCHANGED <<node, dep, depSeq, wdSeq, assets, nova, fees, usage>>
SignWithdrawal(n, i) ==
    /\ MaySign(n, wd[i])
    /\ wd' = [wd EXCEPT ![i] = Signed(@, n)]
    /\ UNCHANGED <<node, dep, depSeq, wdSeq, assets, nova, fees, usage>>

ConfirmWithdrawal(n, i) ==
    /\ IsNode(n) /\ Finalizable(wd[i])
    /\ wd' = [wd EXCEPT ![i] = [@ EXCEPT !.status = "released"]]
    /\ feePool' = feePool + wd[i].fee
    /\ used' = used + wd[i].usd
    /\ UNCHANGED <<node, dep, depSeq, wdSeq, assets, nova, addrUsed, validatorPool, flush>>

-----------------------------------------------------------------------------
(* nova:bridge:pool:flush, at most once a day, by a node. *)
FlushPool(n) ==
    /\ IsNode(n) /\ flush = "due" /\ feePool > 0
    /\ validatorPool' = validatorPool + feePool /\ feePool' = 0 /\ flush' = "done"
    /\ UNCHANGED <<node, requests, assets, nova, usage>>

(* maintain(): the same without leaving an event, so it does not count. *)
Maintain ==
    /\ flush = "due" /\ feePool > 0
    /\ validatorPool' = validatorPool + feePool /\ feePool' = 0
    /\ UNCHANGED <<node, requests, assets, nova, flush, usage>>

Older(r)  == [r EXCEPT !.age = Less(@), !.wait = Less(@)]
Nearer(r) == [r EXCEPT !.hold = Less(@)]
SameOrNextDay ==
    \/ UNCHANGED <<usage, flush>>
    \/ used' = 0 /\ addrUsed' = [u \in Addrs |-> 0] /\ flush' = "due"

Tick ==
    /\ node' = [n \in Nodes |-> Older(node[n])]
    /\ dep' = [i \in DOMAIN dep |-> Nearer(dep[i])]
    /\ wd' = [i \in DOMAIN wd |-> Nearer(wd[i])]
    /\ SameOrNextDay
    /\ UNCHANGED <<depSeq, wdSeq, assets, nova, feePool, validatorPool>>

Next ==
    \/ \E n \in Nodes : \/ RegisterNode(n) \/ ExitNode(n) \/ ClaimExit(n) \/ FlushPool(n)
                        \/ \E a \in Assets : RegisterAsset(n, a)
                        \/ \E i \in DOMAIN dep : SignDeposit(n, i)
                        \/ \E i \in DOMAIN wd : SignWithdrawal(n, i) \/ ConfirmWithdrawal(n, i)
                        \/ \E k \in Keys, a \in Assets, u \in Users, amt \in Amounts :
                              Deposit(n, k, a, u, amt)
    \/ \E i \in DOMAIN dep : ClaimDeposit(i) \/ CancelDeposit(i)
    \/ \E u \in Users, a \in Assets, amt \in Amounts : Withdraw(u, a, amt)
    \/ Maintain
    \/ Tick

Spec == Init /\ [][Next]_vars

(* Registered nodes do sign and confirm, and time passes. *)
FairSpec ==
    /\ Spec
    /\ WF_vars(Tick)
    /\ \A n \in Nodes, i \in WdIds :
          /\ WF_vars(i \in DOMAIN wd /\ SignWithdrawal(n, i))
          /\ WF_vars(i \in DOMAIN wd /\ ConfirmWithdrawal(n, i))

-----------------------------------------------------------------------------
Statuses == {"pending", "held", "ready"}

NodeRecords == [status : {"none", "active", "leaving", "exited"},
                stake : Nat, age : Nat, wait : Nat]
Deposits == [key : Keys, user : Users, asset : Assets, amount : Nat, fee : Nat, usd : Nat,
             review : BOOLEAN, delay : Nat, hold : Nat,
             status : Statuses \cup {"minted", "cancelled"}, sigs : SUBSET Nodes]
Withdrawals == [user : Users, asset : Assets, amount : Nat, fee : Nat, usd : Nat,
                delay : Nat, hold : Nat,
                status : Statuses \cup {"released"}, sigs : SUBSET Nodes]

TypeOK ==
    /\ node \in [Nodes -> NodeRecords]
    /\ depSeq \in 0..MaxDeposits /\ dep \in [1..depSeq -> Deposits]
    /\ wdSeq \in 0..MaxWithdrawals /\ wd \in [1..wdSeq -> Withdrawals]
    /\ wrapped \in [Assets -> [Addrs -> Int]] /\ supply \in [Assets -> Int]
    /\ listed \subseteq Assets
    /\ nova \in [Addrs -> Nat]
    /\ feePool \in Nat /\ validatorPool \in Nat /\ flush \in {"due", "done"}
    /\ used \in Nat /\ addrUsed \in [Addrs -> Nat]

(* 3/5 multi-signature: whatever happens to the nodes in the meantime, a
   request that became claimable or was carried out holds the signatures of
   RequiredSigs different nodes. *)
Quorum ==
    /\ \A i \in DOMAIN dep : dep[i].status \in {"held", "ready", "minted"} =>
                               Cardinality(dep[i].sigs) >= RequiredSigs
    /\ \A i \in DOMAIN wd : wd[i].status \in {"held", "ready", "released"} =>
                               Cardinality(wd[i].sigs) >= RequiredSigs

(* What was carried out has waited out its delay, and a small request never
   had any. *)
DelayServed ==
    /\ \A i \in DOMAIN dep : dep[i].status = "minted" \/ dep[i].delay = 0 => dep[i].hold = 0
    /\ \A i \in DOMAIN wd : wd[i].status = "released" \/ wd[i].delay = 0 => wd[i].hold = 0

\* nodes past NODE_MIN_AGE, whether they still belong to the bridge or not
Seasoned == {n \in Nodes : node[n].status # "none" /\ node[n].age = 0}

(* However nodes come, wait and go: the signatures of a withdrawal, and those
   of a deposit but for its reporter's own, are of nodes past their first
   days. *)
SeasonedSigners ==
    /\ \A i \in DOMAIN dep : \E r \in dep[i].sigs : dep[i].sigs \ {r} \subseteq Seasoned
    /\ \A i \in DOMAIN wd : wd[i].sigs \subseteq Seasoned

(* A request is only carried out with its quorum, of nodes that may sign, and
   after its delay. *)
SettledIsEarned == Quorum /\ DelayServed /\ SeasonedSigners

(* A source transaction is booked once: all its deposits but one are
   cancelled, however deposits, signatures and cancellations interleave. *)
OneDepositPerSource ==
    \A i, j \in DOMAIN dep :
        /\ i # j /\ dep[i].key = dep[j].key
        => dep[i].status = "cancelled" \/ dep[j].status = "cancelled"

(* A minted or cancelled deposit and a released withdrawal stay as they are,
   and no request loses a signature. *)
SettledIsFinal ==
    [][/\ \A i \in DOMAIN dep :
             /\ dep[i].status \in {"minted", "cancelled"} => dep'[i].status = dep[i].status
             /\ dep[i].sigs \subseteq dep'[i].sigs
       /\ \A i \in DOMAIN wd :
             /\ wd[i].status = "released" => wd'[i].status = "released"
             /\ wd[i].sigs \subseteq wd'[i].sigs]_vars

SumOf(f) == SumFunction(f)
Minted(a) == SumOf([i \in {j \in DOMAIN dep : dep[j].status = "minted" /\ dep[j].asset = a}
                      |-> dep[i].amount - dep[i].fee])
Burned(a) == SumOf([i \in {j \in DOMAIN wd : wd[j].asset = a} |-> wd[i].amount])

(* Wrapped assets are exactly what was minted and not burned, and the supply
   figure is the sum of the balances. *)
WrappedIsBacked ==
    \A a \in Assets :
        /\ supply[a] = SumOf(wrapped[a])
        /\ supply[a] = Minted(a) - IF a = Nova THEN 0 ELSE Burned(a)

(* No native coin is lost or made by registering, leaving and withdrawing:
   balances, node stakes and NOVA that left for other chains add up. *)
NovaAddsUp ==
    SumOf(nova) + SumOf([n \in Nodes |-> node[n].stake]) + Burned(Nova)
      = NovaGenesis * Cardinality(Addrs)

(* Every fee of a finished request is in the fee pool or has been passed on
   to the validators, once. *)
FeesAddUp ==
    feePool + validatorPool =
      SumOf([i \in {j \in DOMAIN dep : dep[j].status = "minted"} |-> dep[i].fee])
    + SumOf([i \in {j \in DOMAIN wd : wd[j].status = "released"} |-> wd[i].fee])

(* Wrapped assets, native coins and fees are each accounted for, through
   every order of requests, cancellations, exits and fee flushes. *)
MoneyAddsUp == WrappedIsBacked /\ NovaAddsUp /\ FeesAddUp

(* The deposits the bridge has honoured, as the abstract ledger of credits:
   the whole protocol of reports, signatures, delays and cancellations
   implements "a source transaction is credited at most once, for good". *)
CreditedDeposits ==
    {<<dep[i].key, i>> : i \in {j \in DOMAIN dep : dep[j].status = "minted"}}
Credit == INSTANCE SourceCredit WITH credited <- CreditedDeposits, Receipts <- DepIds
CreditOnce == Credit!Spec

(* A withdrawal is released in the end, unless too many nodes leave. *)
WithdrawalSettles ==
    \A i \in WdIds :
        (i \in DOMAIN wd /\ Cardinality({n \in Nodes : IsNode(n)}) >= RequiredSigs)
          ~> (\/ i \in DOMAIN wd /\ wd[i].status = "released"
              \/ Cardinality({n \in Nodes : IsNode(n)}) < RequiredSigs)

-----------------------------------------------------------------------------
(* Claims of the documentation that the code does not keep (see README).   *)

(* bridge.py:98, "only the hard ceiling of three times the limit is kept,
   against a runaway total". *)
HardCeiling == used <= 3 * DailyLimit

(* bridge.py:114, an address whose deposits of one day, this one included,
   reach the review limit goes through review. *)
ReviewedAtLimit ==
    [][\A u \in Users :
         /\ addrUsed'[u] > addrUsed[u] /\ addrUsed'[u] >= ReviewLimit
         => \E i \in DOMAIN dep : /\ dep[i].status # "minted" /\ dep'[i].status = "minted"
                                  /\ dep[i].user = u /\ dep[i].review]_vars

(* README.md:70, the NOVA supply is locked, nothing is ever issued on top. *)
NovaNeverIssued ==
    SumOf(nova) + SumOf([n \in Nodes |-> node[n].stake]) + validatorPool
      <= NovaGenesis * Cardinality(Addrs)

(* bridge.py:6, a deposit mints the wrapped asset for the user less a fee of
   0.1%, at least 1 USDT: the user is credited, never charged. *)
DepositCredits == \A a \in Assets, u \in Addrs : wrapped[a][u] >= 0
=============================================================================
