------------------------------ MODULE Staking ------------------------------
(***************************************************************************)
(* Transfers with the block reward, and the stakes (core/economy.py and    *)
(* NovaNode._apply_stake_op): staking within the limits and the overheat   *)
(* tiers, layers with the weight of the tier they came in under, partial   *)
(* unstaking with its ceiling and waiting time, and the pause of a network *)
(* with too few nodes (core/reserve.py).  Penalties of the consensus and   *)
(* of the storage settlement, quota upgrades, storage exits and the price  *)
(* freeze concern the same stakes; their own modules say when, here they   *)
(* may happen at any time.                                                 *)
(*                                                                         *)
(* Time is in days; the pause, an hour, ends inside a day.  A transaction  *)
(* is validated and applied in one step.  Gas is left out.  Weights are in *)
(* tenths, shares of a reward are rounded down, and what rounding and      *)
(* penalties destroy is counted in burned.                                 *)
(***************************************************************************)
EXTENDS Integers, FiniteSets, SequencesExt

CONSTANTS
    Nodes,
    StakeAmounts, UnstakeAmounts, UpgradeAmounts, TransferAmounts,
    Wealth, PoolGenesis, FundGenesis,
    Supply,                 \* TOTAL_SUPPLY less the locked balances
    MinStake, RecruitStake, MaxStake, MaxTotalStake,
    MinActive, Critical,    \* active nodes below which recruiting, pausing begins
    Reward, Unbond, FreezeDays,
    MaxTransfers, MaxStakings,  \* bounds: transfers, stake transactions
    MaxIncidents            \* bound: penalties, upgrades, storage exits, freezes

ASSUME StakingAssumption ==
    /\ IsFiniteSet(Nodes)
    /\ StakeAmounts \subseteq Nat \ {0} /\ UnstakeAmounts \subseteq Nat \ {0}
    /\ UpgradeAmounts \subseteq Nat \ {0} /\ TransferAmounts \subseteq Nat \ {0}
    /\ Wealth \in [Nodes -> Nat] /\ PoolGenesis \in Nat /\ FundGenesis \in Nat
    /\ Supply \in Nat /\ MinStake \in Nat \ {0} /\ RecruitStake \in Nat \ {0}
    /\ MaxStake \in Nat /\ MaxTotalStake \in Nat /\ MinActive \in Nat /\ Critical \in Nat
    /\ Reward \in Nat \ {0} /\ Unbond \in Nat /\ FreezeDays \in Nat
    /\ MaxTransfers \in Nat /\ MaxStakings \in Nat /\ MaxIncidents \in Nat

VARIABLES
    balance, pool, fund,
    stake, layers,
    unbonding, wait,    \* what waits to be claimed, and for how many days
    pause,              \* "yes" while rebuild_until is in the future
    frozen,             \* days until stake_freeze_until
    voluntary, slashed, upgraded,     \* history: see GradualExit, OldStakeKept
    burned, doubled,                  \* history: see NovaAddsUp
    transfers, stakings, incidents

rewards == <<pool, fund>>
bonded  == <<stake, layers, unbonding, wait>>
exits   == <<voluntary, slashed>>
history == <<exits, upgraded, burned, doubled>>
bounds  == <<transfers, stakings, incidents>>
vars    == <<balance, rewards, bonded, pause, frozen, history, bounds>>

Init ==
    /\ balance = Wealth /\ pool = PoolGenesis /\ fund = FundGenesis
    /\ stake = [n \in Nodes |-> 0] /\ layers = [n \in Nodes |-> <<>>]
    /\ unbonding = [n \in Nodes |-> 0] /\ wait = [n \in Nodes |-> 0]
    /\ pause = "no" /\ frozen = 0
    /\ voluntary = [n \in Nodes |-> 0] /\ slashed = [n \in Nodes |-> 0] /\ upgraded = {}
    /\ burned = 0 /\ doubled = 0 /\ transfers = 0 /\ stakings = 0 /\ incidents = 0

-----------------------------------------------------------------------------
Smaller(a, b) == IF a < b THEN a ELSE b
Larger(a, b)  == IF a > b THEN a ELSE b

Stakers     == {n \in Nodes : stake[n] > 0}
ActiveNodes == Cardinality({n \in Nodes : stake[n] >= MinStake})
Recruiting  == Stakers # {} /\ ActiveNodes < MinActive
Minimum     == IF Recruiting THEN RecruitStake ELSE MinStake

\* total stake against what circulates, and the weight a new layer gets, in tenths
AtLeast(total, pct) == total * 100 >= (Supply - total) * pct
TierWeight(total) ==
    IF AtLeast(total, 80) THEN 0 ELSE IF AtLeast(total, 70) THEN 5
    ELSE IF AtLeast(total, 50) THEN 8 ELSE 10
TotalStake == SumFunction(stake)

Layered(ls) == SumFunction([i \in DOMAIN ls |-> ls[i].amt * ls[i].weight])
Effective(n) ==
    IF layers[n] = <<>> THEN 10 * Smaller(stake[n], MaxStake)
    ELSE Smaller(Layered(layers[n]), 10 * Smaller(stake[n], MaxStake))
TotalEffective == SumFunction([n \in Nodes |-> Effective(n)])

BugPaidByRawStake(n, reward) == (reward * Effective(n)) \div (10 * TotalStake)
Share(n, reward) == (reward * Effective(n)) \div TotalEffective
Shares(reward) ==
    [n \in Nodes |-> IF TotalEffective = 0 THEN 0 ELSE Share(n, reward)]

\* first in, first out: the layers that amt covers go, and the next one gives the rest
Before(ls, i) == SumFunctionOnSet([j \in DOMAIN ls |-> ls[j].amt], 1 .. i - 1)
Covered(ls, amt) ==
    CHOOSE k \in 0 .. Len(ls) :
        Before(ls, k + 1) <= amt /\ (k < Len(ls) => amt < Before(ls, k + 2))
BugPartLayerDropped(ls, amt) ==
    LET k == Covered(ls, amt)
    IN  IF k = Len(ls) THEN <<>>
        ELSE SubSeq(ls, IF Before(ls, k + 1) < amt THEN k + 2 ELSE k + 1, Len(ls))
Reduced(ls, amt) ==
    LET k == Covered(ls, amt)
    IN  [i \in 1 .. Len(ls) - k |->
            [ls[k + i] EXCEPT !.amt = IF i = 1 THEN Before(ls, k + 2) - amt ELSE @]]

Open     == pause = "no"
Incident == incidents < MaxIncidents /\ incidents' = incidents + 1

WithinLimits(n, amt) ==
    /\ balance[n] >= amt
    /\ stake[n] + amt <= MaxStake /\ TotalStake + amt <= MaxTotalStake

-----------------------------------------------------------------------------
(* nova:stake.  The layer's weight is that of the tier with the new stake. *)
Stake(n, amt) ==
    /\ Open /\ ~AtLeast(TotalStake, 80)
    /\ Minimum <= amt /\ WithinLimits(n, amt)
    /\ balance' = [balance EXCEPT ![n] = @ - amt] /\ stake' = [stake EXCEPT ![n] = @ + amt]
    /\ layers' = [layers EXCEPT ![n] = Append(@, [amt |-> amt, weight |-> TierWeight(TotalStake + amt)])]
    /\ stakings < MaxStakings /\ stakings' = stakings + 1
    /\ UNCHANGED <<rewards, unbonding, wait, pause, frozen, history, transfers, incidents>>

(* nova:unstake.  As for every transaction the sender's balance has to cover
   its amount, although only the stake pays it. *)
BugPendingForgotten(n, amt) ==
    /\ Open /\ frozen = 0 /\ balance[n] >= amt
    /\ amt <= stake[n] /\ 4 * amt <= stake[n]
MayUnstake(n, amt) ==
    /\ Open /\ frozen = 0 /\ balance[n] >= amt
    /\ amt <= stake[n] /\ 4 * (unbonding[n] + amt) <= stake[n]

BugUnstakeReplaces(n, amt) ==
    /\ stake' = [stake EXCEPT ![n] = @ - amt]
    /\ unbonding' = [unbonding EXCEPT ![n] = amt]
Moved(n, amt) ==
    /\ stake' = [stake EXCEPT ![n] = @ - amt]
    /\ unbonding' = [unbonding EXCEPT ![n] = @ + amt]

Unstake(n, amt) ==
    /\ MayUnstake(n, amt) /\ Moved(n, amt)
    /\ layers' = [layers EXCEPT ![n] = Reduced(@, amt)]
    /\ wait' = [wait EXCEPT ![n] = Unbond]
    /\ voluntary' = [voluntary EXCEPT ![n] = @ + amt] /\ slashed' = [slashed EXCEPT ![n] = 0]
    /\ UNCHANGED <<balance, rewards, pause, frozen, upgraded, burned, doubled, bounds>>

Claim(n) ==
    /\ Open /\ unbonding[n] > 0 /\ wait[n] = 0
    /\ balance' = [balance EXCEPT ![n] = @ + unbonding[n]]
    /\ unbonding' = [unbonding EXCEPT ![n] = 0]
    /\ voluntary' = [voluntary EXCEPT ![n] = 0]
    /\ UNCHANGED <<rewards, stake, layers, wait, pause, frozen, slashed, upgraded, burned, doubled, bounds>>

(* A plain transfer: the receiver's balance is read before the sender's is
   written; then the stakers get the block reward, as far as the pool goes. *)
Drawn(asked) == Smaller(pool, asked)
Paid(n, m, amt) == [[balance EXCEPT ![n] = @ - amt] EXCEPT ![m] = balance[m] + amt]

Transfer(n, m, amt) ==
    LET asked  == IF Recruiting THEN 2 * Reward ELSE Reward
        reward == Drawn(asked)
        shares == Shares(reward)
    IN  /\ Open /\ transfers < MaxTransfers /\ balance[n] >= amt
        /\ pool' = pool - reward
        /\ balance' = [k \in Nodes |-> Paid(n, m, amt)[k] + shares[k]]
        /\ doubled' = IF n = m THEN doubled + amt ELSE doubled
        /\ burned' = burned + reward - SumFunction(shares)
        /\ transfers' = transfers + 1
        /\ UNCHANGED <<fund, bonded, pause, frozen, exits, upgraded,
                       stakings, incidents>>

-----------------------------------------------------------------------------
(* What other components do to the stakes. *)

(* Consensus._slash: a share of the stake, at least one NOVA, is destroyed. *)
Penalise(n, pct) ==
    LET amount == Smaller(stake[n], Larger(1, (stake[n] * pct) \div 100))
    IN  /\ n \in Stakers /\ Incident
        /\ stake' = [stake EXCEPT ![n] = @ - amount]
        /\ slashed' = [slashed EXCEPT ![n] = @ + amount]
        /\ burned' = burned + amount
        /\ UNCHANGED <<balance, rewards, layers, unbonding, wait, pause, frozen,
                       voluntary, upgraded, doubled, transfers, stakings>>

(* StorageIncentive._slash *)
StorageSlash(n) ==
    LET amount == stake[n] \div 10
    IN  /\ n \in Stakers /\ Incident
        /\ stake' = [stake EXCEPT ![n] = @ - amount]
        /\ slashed' = [slashed EXCEPT ![n] = @ + amount]
        /\ fund' = fund + amount
        /\ UNCHANGED <<balance, pool, layers, unbonding, wait, pause,
                       frozen, voluntary, upgraded, burned, doubled, transfers, stakings>>

(* StorageIncentive.upgrade_quota: more stake without a layer *)
UpgradeQuota(n, amt) ==
    /\ Open /\ WithinLimits(n, amt) /\ Incident
    /\ balance' = [balance EXCEPT ![n] = @ - amt] /\ stake' = [stake EXCEPT ![n] = @ + amt]
    /\ upgraded' = upgraded \cup {n}
    /\ UNCHANGED <<rewards, layers, unbonding, wait, pause, frozen, exits, burned,
                   doubled, transfers, stakings>>

(* StorageIncentive.finalize_exits: all of the stake, whatever is frozen; the
   layers stay. *)
StorageExit(n) ==
    /\ n \in Stakers /\ Incident /\ Moved(n, stake[n])
    /\ wait' = [wait EXCEPT ![n] = Unbond]
    /\ voluntary' = [voluntary EXCEPT ![n] = 0]
    /\ UNCHANGED <<balance, rewards, layers, pause, frozen, slashed, upgraded, burned,
                   doubled, transfers, stakings>>

-----------------------------------------------------------------------------
(* ReserveEngine.node_guard, every five minutes; an hour of pause is over. *)
NodeGuard ==
    /\ pause' = IF ActiveNodes < Critical THEN "yes" ELSE "no"
    /\ UNCHANGED <<balance, rewards, bonded, frozen, history, bounds>>
PauseEnds ==
    /\ pause = "yes" /\ pause' = "no"
    /\ UNCHANGED <<balance, rewards, bonded, frozen, history, bounds>>

(* _update_stake_freeze: the price has fallen to half its mean, or is back. *)
Freeze ==
    /\ frozen = 0 /\ frozen' = FreezeDays /\ Incident
    /\ UNCHANGED <<balance, rewards, bonded, pause, history, transfers, stakings>>
Thaw ==
    /\ frozen > 0 /\ frozen' = 0
    /\ UNCHANGED <<balance, rewards, bonded, pause, history, bounds>>

NextDay ==
    /\ wait' = [n \in Nodes |-> Larger(0, wait[n] - 1)]
    /\ frozen' = Larger(0, frozen - 1)
    /\ UNCHANGED <<balance, rewards, stake, layers, unbonding, pause, history, bounds>>

-----------------------------------------------------------------------------
NodeStep == \E n \in Nodes :
    \/ \E amt \in StakeAmounts : Stake(n, amt)
    \/ \E amt \in UnstakeAmounts : Unstake(n, amt)
    \/ Claim(n)
    \/ \E m \in Nodes, amt \in TransferAmounts : Transfer(n, m, amt)
OtherStep == \E n \in Nodes :
    \/ \E pct \in {1, 5} : Penalise(n, pct)
    \/ StorageSlash(n) \/ StorageExit(n)
    \/ \E amt \in UpgradeAmounts : UpgradeQuota(n, amt)
ReserveStep == NodeGuard \/ PauseEnds \/ Freeze \/ Thaw

Next == NodeStep \/ OtherStep \/ ReserveStep \/ NextDay
Spec == Init /\ [][Next]_vars

(* The loops run, time passes, and every node asks to stake again and again. *)
FairSpec ==
    /\ Spec /\ WF_vars(NodeGuard) /\ WF_vars(PauseEnds) /\ WF_vars(NextDay)
    /\ \A n \in Nodes, amt \in StakeAmounts : WF_vars(Stake(n, amt))

-----------------------------------------------------------------------------
(* Properties *)

\* The variables keep their types; no balance, stake or pool goes below zero.
TypeOK ==
    /\ balance \in [Nodes -> Nat] /\ pool \in Nat /\ fund \in Nat
    /\ stake \in [Nodes -> Nat]
    /\ layers \in [Nodes -> Seq([amt : Nat, weight : {0, 5, 8, 10}])]
    /\ unbonding \in [Nodes -> Nat] /\ wait \in [Nodes -> Nat]
    /\ pause \in {"yes", "no"} /\ frozen \in Nat /\ upgraded \in SUBSET Nodes
    /\ voluntary \in [Nodes -> Nat] /\ slashed \in [Nodes -> Nat]
    /\ burned \in Nat /\ doubled \in Nat /\ transfers \in Nat /\ stakings \in Nat /\ incidents \in Nat

\* Staking, waiting, exits and rewards only move NOVA; penalties and the
\* reward of a network without stakes destroy some, and a transfer to oneself creates its
\* amount (nova_node.py 1063, 1179, 1190).
NovaAddsUp ==
    SumFunction(balance) + pool + fund + TotalStake + SumFunction(unbonding) + burned
      = SumFunction(Wealth) + PoolGenesis + FundGenesis + doubled

\* No account, stake or pool is overdrawn, and together they are what there was.
BooksBalance == TypeOK /\ NovaAddsUp

\* Unstaking is gradual: whatever the order of stakes, penalties and partial exits, what an
\* address has unstaked since its last claim or storage exit (voluntary) is at most a third
\* of what it has left and was fined since (slashed), so a quarter of what it had
\* (nova_node.py 157).
GradualExit == \A n \in Nodes : 3 * voluntary[n] <= stake[n] + slashed[n]

\* An old stake is never discounted afterwards: what an address weighs in elections and
\* rewards never falls by more than the stake that leaves it, in whatever tier it stakes
\* again; quota upgrades are excepted, see UpgradedStakeKept (economy.py 252).
OldStakeKept ==
    [][\A n \in Nodes \ upgraded : Effective(n)' >= Effective(n) - 10 * Larger(0, stake[n] - stake'[n])]_vars

\* A reward that leaves the pool arrives, but for one unit of rounding a node, at the
\* stakers if any stake has weight, also when layers are discounted (economy.py 300).
RewardArrives ==
    [][pool' < pool /\ TotalEffective > 0 =>
         SumFunction(balance') + Cardinality(Nodes) > SumFunction(balance) + (pool - pool')]_vars

-----------------------------------------------------------------------------
(* What the documents say and the code does not do *)

\* README.md 70: the supply is locked, nothing is ever issued.
NeverIssued == doubled = 0

\* README.md 127: what cools down is at most a quarter of the present stake.
CoolingWithinQuarter == \A n \in Nodes : 4 * unbonding[n] <= stake[n]

\* README.md 236: an old stake is never discounted afterwards.
UpgradedStakeKept ==
    [][\A n \in Nodes : Effective(n)' >= Effective(n) - 10 * Larger(0, stake[n] - stake'[n])]_vars

\* README.md 235: new stakes weigh 0.8 or 0.5, or are refused.
AcceptedStakeWeighs == \A n \in Nodes : \A i \in DOMAIN layers[n] : layers[n][i].weight > 0

\* README.md 235: who has a stake may leave at any time.
MayLeaveAnyTime == \A n \in Nodes, amt \in UnstakeAmounts :
    Open /\ frozen = 0 /\ 4 * (amt + unbonding[n]) <= stake[n] => ENABLED Unstake(n, amt)

\* README.md 270: a frozen stake stays.
FrozenStakeStays ==
    [][\A n \in Nodes : frozen > 0 => unbonding'[n] <= unbonding[n]]_vars

\* README.md 276: the pause ends and the network recovers by itself.
RebuildRecovers == (pause = "yes") ~> (ActiveNodes >= Critical)
=============================================================================
