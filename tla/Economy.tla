------------------------------ MODULE Economy -------------------------------
(***************************************************************************)
(* The exchange, the oracle, the safety net, the AI service, subscription, *)
(* the storage market, the EVM and its bridge, early rewards, identities   *)
(* and the cool-down on one ledger, with the daily maintenance that runs   *)
(* in all of them (NovaNode._run_daily_maintenance).  The published price  *)
(* reaches the safety net through it.  A behaviour plays one part, and the *)
(* maintenance goes on in the others.                                      *)
(***************************************************************************)
EXTENDS Dex, SafetyNet, AiService, Subscription,
        StorageMarket, EvmBridge, EvmCalls, EarlyRewards, Did, AntiFomo

earlierVars == <<dexVars, oracleVars, netVars, aiVars, subVars>>
laterVars == <<marketVars, evmVars, callVars, earlyVars, didVars, fomoVars>>
vars == <<bal, day, ops, part, dexVars, oracleVars, netVars, aiVars, subVars, laterVars>>

\* the pool of the exchange differs only where the exchange is played
Init ==
    /\ LedgerInit /\ DexInit /\ OracleInit /\ NetInit /\ AiInit /\ SubInit
    /\ MarketInit /\ EvmInit /\ CallsInit /\ EarlyInit /\ DidInit /\ FomoInit
    /\ part = "dex" \/ pool.pair = CHOOSE p \in Pairs : TRUE

\* the next calendar day: what is counted by the day begins anew; a calm that has begun lasts
NextDay ==
    /\ evmTx = Idle /\ day < MaxDay[part] /\ day' = day + 1
    /\ earned' = [u \in Users |-> 0] /\ alone' = Nothing
    /\ calm' \in (IF part = "reserve" THEN {calm, "yes"} ELSE {calm})
    /\ UNCHANGED <<bal, ops, part, dexVars, orc, src, feed, rnd, ver, hist, buys, frozenTill, funds,
                   paidOn, got, sold, service, muso, work, triggers, guards, pend, spentBy, outgo, subVars, laterVars>>

\* on this ledger; in the part of the early rewards each node does its own
Maintain ==
    /\ part # "early" /\ evmTx = Idle
    /\ AiMaintain /\ OracleMaintain /\ SubMaintain /\ MarketMaintain /\ DidMaintain
    /\ NetMaintain(MarketMaintained(bal))
    /\ <<bal, ver, netVars, muso, pend, spentBy, sub, order, app>>'
         # <<bal, ver, netVars, muso, pend, spentBy, sub, order, app>>
    /\ UNCHANGED <<day, ops, part, dexVars, orc, src, feed, rnd, earned, evmVars, callVars, earlyVars, fomoVars>>

\* what the oracle publishes in a day, five minutes and 10 % at a time
MarketMoves(p) ==
    /\ part = "reserve" /\ ops < MaxOps[part] /\ ops' = ops + 1
    /\ feed.price # p /\ feed' = [price |-> p, fresh |-> "no"]
    /\ UNCHANGED <<bal, day, part, dexVars, orc, src, rnd, ver, earned, netVars, aiVars, subVars, laterVars>>

Next ==
    \/ DexNext /\ UNCHANGED <<oracleVars, netVars, aiVars, subVars, laterVars>>
    \/ OracleNext /\ UNCHANGED <<dexVars, netVars, aiVars, subVars, laterVars>>
    \/ NetNext /\ UNCHANGED <<dexVars, oracleVars, aiVars, subVars, laterVars>>
    \/ AiNext /\ UNCHANGED <<dexVars, oracleVars, netVars, subVars, laterVars>>
    \/ SubNext /\ UNCHANGED <<dexVars, oracleVars, netVars, aiVars, laterVars>>
    \/ MarketNext /\ UNCHANGED <<earlierVars, evmVars, callVars, earlyVars, didVars, fomoVars>>
    \/ EvmNext /\ UNCHANGED <<earlierVars, marketVars, callVars, earlyVars, didVars, fomoVars>>
    \/ CallsNext /\ UNCHANGED <<earlierVars, marketVars, evmVars, earlyVars, didVars, fomoVars>>
    \/ EarlyNext /\ UNCHANGED <<earlierVars, marketVars, evmVars, callVars, didVars, fomoVars>>
    \/ DidNext /\ UNCHANGED <<earlierVars, marketVars, evmVars, callVars, earlyVars, fomoVars>>
    \/ FomoNext /\ UNCHANGED <<earlierVars, marketVars, evmVars, callVars, earlyVars, didVars>>
    \/ NextDay \/ Maintain
    \/ \E p \in Prices : MarketMoves(p)

Spec == Init /\ [][Next]_vars

-----------------------------------------------------------------------------
(* Properties *)

\* The type of the state, component by component.
TypeOK ==
    /\ \A u \in Users : bal[u] \in Nat
    /\ DexType /\ OracleType /\ NetType /\ AiType /\ SubType
    /\ MarketType /\ EvmType /\ CallsType /\ EarlyType /\ DidType /\ FomoType
    /\ day \in 0 .. MaxDay[part] /\ ops \in 0 .. MaxOps[part] /\ part \in Parts

\* What is paid out by the day, the week and the month keeps to its limits, however often
\* the maintenance runs and whoever sends the renewals.
LimitsHold == TypeOK /\ PayoutsArePaced /\ TwoGuardians /\ MonthsAreServed

\* What is paid for proofs, locked for early users, wrapped, certified or counted against a
\* buyer is what was served, waited for, brought in, voted and bought; and what the EVM refused
\* is as if it had not been tried.
ClaimsAreEarned ==
    /\ ProofsArePaced /\ EarlyIsEarned /\ AssetsAreKept /\ BadgesAreVoted /\ LargeBuyersCool
    /\ RefusedIsPutBack

\* No step makes or loses NOVA, wherever it lies: but for the pool that is filled again from
\* nothing, the reserve of a small pool that an addition overwrites, less than one NOVA
\* per worker when a share is divided, what an order pays beyond its escrow, a lock that a later
\* grant replaces, and what a contract sends that has too little or a new one begins with.
Worth ==
    Total(bal) + DexNova + OracleNova + NetNova + MarketNova + Total(evmBal)
        + Total(world.bal) - world.made
Filled == Total([a \in {Reserve, Eco, ValPool} |-> Seeded(bal)[a] - bal[a]])
NovaAddsUp ==
    [][/\ GrantsAreFunded
       /\ \/ Worth' = Worth + Filled \/ Worth' = Worth
          \/ Worth' - Overpaid' = Worth - Overpaid
          \/ pool.total <= MinLiquidity /\ tok' # tok /\ Worth' + pool.r0 = Worth
          \/ work'.sales # work.sales /\ Worth' \in Worth - Cardinality(Workers) .. Worth]_vars
=============================================================================
