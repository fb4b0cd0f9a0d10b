---------------------------- MODULE EarlyRewards ----------------------------
(***************************************************************************)
(* The rewards of the first months (core/economy.py, the registration of   *)
(* miners in NovaNode._apply_stake_op, rpc_checkin, rpc_unlock and the     *)
(* daily maintenance): locked airdrops, their release by the month, and    *)
(* one payment to those that took part long enough.                        *)
(*                                                                         *)
(* Every node counts by itself: a stake is a transaction that all nodes    *)
(* execute, but a check-in, an unlocking and the maintenance happen on     *)
(* one, and the maintenance counts the time since its process last did it. *)
(* Hence one record per node.  Time is in days, months have MonthLen.      *)
(***************************************************************************)
EXTENDS Ledger

CONSTANTS
    EarlyNodes, EarlyFund,
    Airdrop, ScaleGrant,        \* AIRDROP_AMOUNT, SCALE_REWARD
    MinerReward, LightReward,   \* EARLY_MINER_REWARD, EARLY_LIGHT_REWARD
    MaxMiners, MaxLight,        \* 81, 8100
    LockFor, MonthLen,          \* LOCK_DURATION, 30 days
    ReleaseDay,                 \* RELEASE_TIME
    QualifyDays,                \* 270
    EarlyUsers, Visitors        \* bounds: who stakes, who checks in

ASSUME EarlyRewardsAssumption ==
    /\ IsFiniteSet(EarlyNodes) /\ EarlyFund \in Nat
    /\ EarlyUsers \subseteq Users /\ Visitors \subseteq Users
    /\ {Airdrop, ScaleGrant} \subseteq {10 * k : k \in 1 .. 1000}
    /\ {MinerReward, LightReward, MaxMiners, MaxLight, LockFor, MonthLen, ReleaseDay, QualifyDays} \subseteq Nat \ {0}

VARIABLE early
earlyVars == <<early>>

NoLock == [amount |-> 0, since |-> 0, unlocked |-> 0]
EarlyInit ==
    early = [n \in EarlyNodes |->
        [fund |-> EarlyFund, got |-> [u \in Users |-> 0],   \* the ecosystem fund, what users were paid from it
         miners |-> {}, joined |-> [u \in Users |-> 0], up |-> [u \in Users |-> 0],
         visits |-> [u \in Users |-> {}],                   \* light_checkin_dates
         dropped |-> {}, lock |-> [u \in Users |-> NoLock],
         paid |-> {}, last |-> -1]]

EarlyTx(u) == Tx("early", u, 0)
\* what a node does by itself
AtNode(n, w) ==
    /\ part = "early" /\ early' = [early EXCEPT ![n] = w] /\ w # early[n]
    /\ UNCHANGED <<bal, day, ops, part>>

Light(w)      == {u \in Users : w.visits[u] # {}}
Qualified(w)  == {u \in w.miners : w.up[u] >= QualifyDays}
Faithful(w)   == {u \in Users : Cardinality(w.visits[u]) >= QualifyDays}
Locked(w, u, n) == [w EXCEPT !.fund = @ - n, !.lock[u] = [amount |-> n, since |-> day, unlocked |-> 0]]

\* once per address, while there is room and money
Dropped(w, u, room) ==
    IF u \in w.dropped \/ ~room \/ w.fund < Airdrop THEN w
    ELSE [Locked(w, u, Airdrop) EXCEPT !.dropped = @ \cup {u}]

\* the first stake registers a miner, for whom there is room before it is counted and a drop
\* only after; under a disaster load a second grant replaces the lock
Registered(w, u, load) ==
    LET new == [w EXCEPT !.miners = @ \cup {u}, !.joined[u] = day]
        one == Dropped(new, u, Cardinality(new.miners) < MaxMiners)
    IN  IF u \in w.miners \/ Cardinality(w.miners) >= MaxMiners THEN w
        ELSE IF load = "disaster" /\ one.fund >= ScaleGrant THEN Locked(one, u, ScaleGrant) ELSE one
EarlyStake(u, load) ==
    /\ EarlyTx(u)
    /\ early' = [n \in EarlyNodes |-> Registered(early[n], u, load)]
    /\ UNCHANGED bal

\* a light node checks in with one node, once a day
CheckedIn(w, u) ==
    LET seen == [w EXCEPT !.visits[u] = @ \cup {day}]
    IN  Dropped(seen, u, Cardinality(Light(seen)) < MaxLight)
EarlyCheckIn(n, u) == day \notin early[n].visits[u] /\ AtNode(n, CheckedIn(early[n], u))

\* Mutant: the first months are paid without a waiting time.
BugMonths(lock) == (day - lock.since) \div MonthLen
\* full months since the end of the waiting time, a tenth for each
Months(lock) == IF day - lock.since < LockFor THEN 0 ELSE (day - lock.since - LockFor) \div MonthLen
Unlocked(w, u) ==
    LET due == (w.lock[u].amount * Lesser(Months(w.lock[u]), 10)) \div 10 - w.lock[u].unlocked
    IN  IF due <= 0 THEN w ELSE [w EXCEPT !.lock[u].unlocked = @ + due, !.got[u] = @ + due]
EarlyUnlock(n, u) == AtNode(n, Unlocked(early[n], u))

\* the maintenance of one node: uptime of all miners, then payments in any order (sets) as
\* long as the fund lasts
Paid1(w, u, n) == IF w.fund < n \/ u \in w.paid THEN w
                  ELSE [w EXCEPT !.fund = @ - n, !.got[u] = @ + n, !.paid = @ \cup {u}]
PaidAll(w, us, n) == FoldLeft(LAMBDA x, u : Paid1(x, u, n), w, us)
Counted(w) ==
    LET delta == IF w.last = -1 THEN 0 ELSE Lesser(day - w.last, 1)
    IN  [w EXCEPT !.up = [u \in Users |-> @[u] + IF u \in w.miners THEN delta ELSE 0], !.last = day]
EarlyMaintain(n) ==
    LET w == Counted(early[n]) IN
    /\ early[n].last # day
    /\ IF day < ReleaseDay THEN AtNode(n, w)
       ELSE \E ms \in SetToSeqs(Qualified(w)), ls \in SetToSeqs(Faithful(w)) :
                AtNode(n, PaidAll(PaidAll(w, ms, MinerReward), ls, LightReward))

\* a restart keeps everything but the time of the last maintenance
EarlyRestart(n) ==
    /\ part = "early" /\ ops < MaxOps[part] /\ early[n].last # -1
    /\ early' = [early EXCEPT ![n].last = -1] /\ ops' = ops + 1
    /\ UNCHANGED <<bal, day, part>>

EarlyNext ==
    \/ \E u \in EarlyUsers, load \in {"usual", "disaster"} : EarlyStake(u, load)
    \/ \E n \in EarlyNodes : \/ EarlyMaintain(n) \/ EarlyRestart(n)
                             \/ \E u \in Users : EarlyUnlock(n, u)
                             \/ \E u \in Visitors : EarlyCheckIn(n, u)

-----------------------------------------------------------------------------
(* Properties *)

EarlyType ==
    \A n \in EarlyNodes : early[n].fund \in Nat /\ early[n].paid \subseteq Users
        /\ \A u \in Users : early[n].got[u] \in Nat /\ early[n].lock[u].unlocked \in 0 .. early[n].lock[u].amount

\* Nothing is unlocked before the waiting time and a month are over, a tenth per month from
\* then on, and no miner is credited with more than the days since the one it joined.
EarlyIsEarned ==
    \A n \in EarlyNodes, u \in Users :
        LET lock == early[n].lock[u] IN
        /\ lock.unlocked > 0 =>
               /\ day >= lock.since + LockFor + MonthLen
               /\ 10 * lock.unlocked <= lock.amount * ((day - lock.since - LockFor) \div MonthLen)
        /\ early[n].up[u] <= day - early[n].joined[u] + 1

\* On every node the fund pays for what is locked and what is paid out; only what was left
\* in a lock that a later grant replaces is lost, whichever grant comes later.
Rest(lock) == lock.amount - lock.unlocked
EarlyNova(w) == w.fund + Total(w.got) + Total([u \in Users |-> Rest(w.lock[u])])
GrantsAreFunded ==
    \A n \in EarlyNodes :
        LET w == early[n]
            v == early'[n]
            lost == EarlyNova(w) - EarlyNova(v)
        IN  \/ lost = 0
            \/ \E u \in Users :
                  /\ v.lock[u] # w.lock[u] /\ v.lock[u].unlocked = 0
                  /\ lost = Rest(w.lock[u]) + IF u \in v.dropped \ w.dropped /\ v.lock[u].amount = ScaleGrant
                                              THEN Airdrop ELSE 0

\* Not so in the code (section 4 of the README):
\* "with the transaction, deterministically on all nodes": nodes agree about the miners.
MinersAreAlike ==
    \A n, k \in EarlyNodes, u \in Users :
        /\ early[n].lock[u] = early[k].lock[u]
        /\ early[n].last = day /\ early[k].last = day => (u \in early[n].paid <=> u \in early[k].paid)
\* "the first 81 miners, the first 8100 users": all that were let in got the drop.
FirstAreDropped == \A n \in EarlyNodes : early[n].fund >= Airdrop => early[n].miners \subseteq early[n].dropped
\* A grant does not take another away.
GrantsAddUp == [][\A n \in EarlyNodes : EarlyNova(early'[n]) = EarlyNova(early[n])]_earlyVars
=============================================================================
