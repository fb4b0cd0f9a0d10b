# NovaChain in TLA+

This directory models NovaChain, a Python blockchain node: its proof-of-stake consensus and
state sync, the cross-chain bridge, the markets for compute and storage, staking, governance,
the community court, the games of the creator economy, the exchange, the oracle, the safety
net, the AI service, subscriptions, the EVM with its bridge, early rewards, identities and the
cool-down for large buyers. The models are checked with TLC on small instances. The main safety
properties of consensus, state sync, bridge, staking, governance, compute market, creator games
and storage incentive are proved for every instance with TLAPS.

Contents: [1 the system](#1-the-system) · [2 the modules](#2-the-modules) ·
[3 what each run checks](#3-what-each-run-checks) ·
[4 what the documents say and the code does not do](#4-what-the-documents-say-and-the-code-does-not-do) ·
[5 the proofs](#5-the-proofs) · [6 what is left out](#6-what-is-left-out) · [7 the plan](#7-the-plan)

To repeat a check: `tlc -workers 2 -config <run>.cfg <MC module>.tla`; to repeat a proof:
`tlapm <module>.tla`.

## 1 The system

One process is one node (`nova_node.py`, class `NovaNode`). It keeps the whole ledger in one
in-memory `Store`, a *DAG* of executed transactions, a chain of blocks that only *name*
transactions, and a state file. Everything runs in one asyncio event loop: an operation is
validated and applied without an `await` in between, so operations on one node are atomic;
concurrency is between nodes, between a node's periodic loops, and between the messages that
cross the network. A signed transaction `nova:<area>:<operation>` is executed by every node
where and when it arrives by gossip (`broadcast_tx` and `process_message`, nova_node.py:1235); blocks are produced
afterwards and do not execute anything. Two nodes therefore agree on state only as far as the
order of arrival does not matter.

### Components

| Component (source) | State it keeps | Operations | What is hard, what makes it correct |
|---|---|---|---|
| PoS consensus (`core/consensus.py`, `blockchain.py`) | chain, stakes, jailed, missed, epoch snapshot | elect, produce, verify, adopt, count misses, slash, snapshot, save, reload | lost and reordered blocks, fallback after a timeout, a restart that forgets a signed block. No transaction sealed twice, penalties only for what happened, no stall |
| Node, gossip, persistence (`nova_node.py`, `network/p2p.py`, `network/security.py`, `core/storage.py`) | Store, `processed_txids`, DAG, chain, peers, state file | submit, gossip, checkpoint, hello / state_request / state_snapshot, autosave, stop, start | crash between execution, sealing and saving; repeated gossip; partial reload. A transaction runs once; file, guard and chain are of one moment |
| Bridge (`core/bridge.py`) | bridge nodes, deposits, withdrawals, wrapped balances, fee pool, daily usage | register, exit, deposit, sign, claim, cancel, withdraw, confirm, flush, maintain | nodes join and leave while requests collect signatures; the same deposit reported twice. Quorum, delay, at most one credit per source, backing |
| Compute market (`core/compute.py`) | tasks with bids, results, disputes and audits; stakes; reputation | register, publish, bid, accept, award, submit, arbitrate, dispute, vote, audit, stake, unstake, claim, maintain | several ways to end a task; stake moved while work runs. Bounty paid or refunded once, never stuck |
| Governance (`core/governance.py`, payouts and freezes of `core/reserve.py`) | proposals, votes, delegations, frozen targets, parameters | propose, endorse, cancel, vote, delegate, confirm, execute, accept a payout, tick | validated before `tick`, applied after it; votes moved after voting. Effects only after all stages, funds conserved |
| Storage incentive (`core/storage_incentive.py`) | nodes with quotas and assigned files, files with replicas, proofs, settled days | stake, register, claim, prove, settle, heartbeat, scan, notice, exit, protect, reassign, re-upload | proofs, settlement and monitor in any order around midnight. A day paid once and only if proven, files known to be lost are reported |
| Ledger, staking, block reward (`core/economy.py`, `nova_node.py`, node guard of `reserve.py`) | balances, stakes, layers, unbonding, pools | transfer, stake, unstake, claim, distribute, penalise, pause | the same stake is cut and moved by four components. Supply constant, exit gradual, old stakes keep their weight |
| Storage market (`core/storage_network.py`) | providers, pins with a reward, commitments, orders with escrow | register, pin, claim, prove, order, settle, expire | several providers and replicas against one escrow; a pin that runs out under a paid order |
| Reserve and safety net (`core/reserve.py`) | funds, price history, log of buy-backs, freeze, payments made | maintain (seed, record the price, buy back, freeze, compensate, subsidise, refill), sell the NFT, pay out | the upkeep runs again after every restart, on funds that run out; the limits are computed from a log |
| DEX (`core/dex.py`) | pools, shares, stakes in the farm, pause | create, add, remove, swap, stake, unstake, claim | rounding, pools without shares, partial payment of rewards; a share keeps its worth |
| Oracle (`core/oracle.py`) | nodes, sources, feed, random numbers, verifications | register, exit, publish, report, request, fulfil, submit, verify | stale reports judged against a moved aggregate; sources whose node has left |
| Arbitration (`core/arbitration.py`) | arbitrators, candidates, cases with two benches, charges, stakes that wait | apply, elect, renew, exit, file, decline, vote, appeal, charge, maintain | declines, timeouts, retirements and charges change a bench while it votes; money of deposits, panels and stakes |
| SocialFi (`core/socialfi.py`) | fan tokens, revenue shares, markets, boxes, curations, bonds, fractions, texts with a jury, AI identities | one operation per game and step | pools and escrows against what they owe; disputes that end |
| Subscription (`core/subscription.py`) | tiers, subscriptions | create, update, subscribe, renew, cancel, expire | anybody may send a renewal, at any time and again |
| DID and reputation (`core/did.py`) | bindings, applications with votes, badges, a score that is kept | bind, unbind, apply, vote, update, expire | votes, expiry and the score that is computed only now and then |
| AI service and fund (`core/ai_service.py`) | services, musician, works, triggers, fund with guardians and requests | register, configure, buy, trigger, spend, approve, maintain | limits per guardian and day, requests that wait while the fund empties |
| Early rewards (`core/economy.py`, `nova_node.py`) | per node: locks, uptime, check-ins, payments | stake, check in, unlock, release | each node counts by itself and from its last restart |
| Anti-FOMO (`core/fomo.py`) | per node: purchases, cool-downs | hear a purchase | purchases arrive in any order |
| EVM and Ethereum RPC (`core/evm.py`, `core/evm_rpc.py`) | contracts, storage, balances | call, deploy, read; frames that write, send, call, create, end or fail | what stays of a frame that fails, of a transaction that cannot pay its gas, of a read |
| EVM bridge, bindings (`core/evm_bridge.py`, `nova_node.py`) | holders, wrapped records, bindings | bind, migrate, convert, revert, pay, burn | two sides and a fee, put back when a step fails |
| Load queue (`nova_node.py`) | waiting transactions | enqueue, drain | age limit against waiting time |
| Contract VM, compiler (`core/vm.py`, `nexlang_compiler.py`) | contract storage | deploy, call | pure computation |
| Cryptography (`core/crypto.py`) | keys | sign, verify, hash | assumed perfect |
| RPC, request guard (`network/rpc.py`, `security.py`) | request counters, nonces | requests | input and output |
| Chat (`core/chat.py`) | ciphertexts | send, fetch | outside the ledger |
| Agent (`agent/`) | plans | plan, submit | a client of the node |
| Explorer (`explorer/`) | index database | index, query | read-only |
| Scripts, pages | – | – | no state of the system |

### How they interact

* `broadcast_tx` → `validate_tx` (signature, age, replay guard, freeze, pause, fee, balance, then
  the component's validation) → `apply_tx` → the component's `apply_op`, in one step.
  All components share the one `Store`: `balances` (the ecosystem fund is one of them), `stakes`, `unbonding`.
* **Stakes** are the meeting point: `economy` makes them, `consensus` elects by them and
  slashes them, `storage_incentive` slashes, upgrades and releases them, `governance` counts
  them as votes, `reserve` freezes them. `Staking` models a stake under all of these at once.
* **Loops**: block production, autosave, P2P discovery, and the economy loop that runs every
  component's daily maintenance (nova_node.py:1325) and the five-minute storage monitor.
* **Messages**: `new_tx`, `new_block`, `hello`, `state_request`, `state_snapshot`, line-framed
  JSON over TCP; gossip repeats and loses messages, nothing asks for a missing block.
* **Persistence**: one file, written every autosave and on a clean stop, read back in the order
  store, replay guard, chain.

* **Prices**: what the oracle publishes reaches the safety net once a day; the buy-back, the freeze and
  its end follow from it.
* **Daily maintenance** (`_run_daily_maintenance`, nova_node.py:1338) calls one component after the other inside
  one `try`: an exception in one skips those after it for that day.

The hard behaviours, line by line, are the `hazards` of `PROJECT.json`; each names the property
that watches it or says why none does yet.

## 2 The modules

| Module | Models | Uses |
|---|---|---|
| `Consensus` | the PoS engine of a network of validators, each with its own chain and stake ledger | |
| `Bridge` | the cross-chain bridge on one ledger | `SourceCredit` as its abstract specification |
| `SourceCredit` | what the bridge promises about deposits: a source transaction is credited once, for good | |
| `NodeSync` | two or more nodes in checkpoint mode with gossip, catch-up, files and crashes | |
| `ComputeMarket` | tasks, stakes and money of the compute market | |
| `Governance` | proposals and what they move in the funds and the freeze list | |
| `StorageIncentive` | storage nodes, files, proofs, settlement, exits | |
| `Staking` | transfers and stakes under everything that touches them | |
| `Arbitration` | the court: arbitrators, cases, two benches, charges | |
| `SocialFi` | eight games of the creator economy and AI identities, on one ledger | |
| `Ledger` | balances of users and pools, the day, the transaction as the next group of modules sees it | |
| `Dex`, `Oracle`, `AiService`, `Subscription`, `StorageMarket`, `EvmBridge`, `EvmCalls`, `EarlyRewards`, `Did`, `AntiFomo` | one component each | `Ledger` |
| `SafetyNet` | what the reserve does by itself | `Oracle` (the price it records) |
| `Economy` | all of these on one ledger, with the daily maintenance of all in one step | the twelve modules above |
| `Sums` | facts about sums over finite sets, with proofs | |
| `BridgeProofs`, `StakingProofs`, `GovernanceProofs`, `ConsensusProofs`, `ComputeProofs`, `SocialFiProofs`, `StorageProofs` | theorems and proofs (those about `NodeSync` are the last part of `ConsensusProofs`) | the module they are about, `Sums` |
| `MC…` | values of the constants for TLC | the module they instantiate |

All models share these abstractions. Signatures and hashes are perfect. Gas is left out where it
only moves coins between native balances and is not part of a property. A waiting time is a
countdown that a time action (`Tick`, `Hour`, `NextDay`) lowers, or, in `Consensus`, the number of
blocks that are older than the timeout: the code only asks whether a deadline has passed. An
operation is its validation and its application in one action, because the code runs both in one
step of the event loop. Names, texts, logs and query functions are left out.

### Consensus

A node's `mem[n]` is the engine with the part of the store it uses: `chain` (`self.chain`), `dag`,
`stakes` (`store.stakes`), `jailed`, `missed`, `epoch` (`_epoch_stakes`). A block is an index into
`made`, all blocks ever signed; that index stands for its hash. The draw of an election is a number
chosen with the previous block, since `sha3(prev_hash + height)` cannot be predicted. `expired`
says which blocks are older than `proposer_timeout`.

| Action | Code |
|---|---|
| `ReceiveTx` | a transaction arrives and is executed (nova_node.py `process_message`) |
| `AwaitTurn`, `ProduceBlock` | `consensus.py` production loop: election, fallback, epoch snapshot, append without the checks of `adopt_block` |
| `DeliverBlock` | `adopt_block` with `verify_block`, counting of misses, the slash for inactivity, detection of double signing and its penalty on every delivery |
| `Elapse` | a block gets older than the timeout |
| `Autosave`, `Crash`, `Restart` | the state file, a stop without saving, reload |

### Bridge and SourceCredit

`node`, `dep`, `wd` are `bridge_nodes`, `bridge_deposits`, `bridge_withdrawals`; `wrapped`, `supply`,
`listed` are `bridge_assets`; `used` and `addrUsed` are today's entries of the two usage tables;
`flush` says whether the fee pool was passed on today. One action per operation: `RegisterNode`,
`ExitNode`, `ClaimExit`, `RegisterAsset`, `Deposit`, `SignDeposit`, `ClaimDeposit`, `CancelDeposit`,
`Withdraw`, `SignWithdrawal`, `ConfirmWithdrawal`, `FlushPool`, and the daily `Maintain`; `Tick` is
time. `CreditOnce` maps `credited` of `SourceCredit` to the pairs of a source transaction and the
number of its minted deposit: reports, signatures, delays, reviews and cancellations implement a
ledger with the one action `Credit`.

### NodeSync

`st[n]` and `disk[n]` are the node's memory and its file: how often the ledger holds each transaction
(`times`), `dag`, `processed_txids` (`seen`), whether `bridge_daily_usage` has an entry (`usage`), and
the chain. `Submit` and `DeliverTx` are `broadcast_tx` and `new_tx`; `Produce` and `DeliverBlock` are
the checkpoint mode of the engine; `ReadLine` handles one line of a connection made at start with its
reply (`hello`, `state_request`, `state_snapshot`); `Autosave`, `Stop` and `Start` are the file. Blocks
and transactions that were sent may arrive anywhere, any number of times. `Restored` models the order
in which `apply_snapshot` takes a file over and where it stops when `from_dict` raises.

### ComputeMarket

`task[t]` is an entry of `compute_tasks` with its bids, results, votes and audit. `Register`, `Publish`,
`Bid`, `Accept`, `Award`, `Submit`, `SubmitLate`, `Arbitrate`, `Dispute`, `Vote`, `AuditPass`, `AuditFail`,
`Stake`, `Unstake`, `Claim` are the operations; `Maintain` is the whole daily run in its order (expiry,
disputes, selection of audits, incentive epoch). A node's five counters enter every decision through
one weighted sum, `rep`. Declared hardware is the set `Capable`.

### Governance

`prop[i]` is a proposal with its endorsements and votes, `delegate` the table of delegations, `frozen`
the hours a freeze still lasts, `payout` the entries of the payout fund. Every operation runs `tick` over
all proposals first and its own effect then (`Ticked`), on a state that was validated before `tick`:
that order is kept. `Maintain` is `tick` alone, `Restart` loses the economy parameters, which are class
attributes, `Hour` is time.

### StorageIncentive

`node`, `file`, `order` are `inc_nodes`, `inc_files` and the order of registration, in which settlement and
scans walk. The state that a handler works on is one record (`Now`, `Become`), and each function of the code
(`settle_epoch`, `finalize_exits`, `scan_offline`, `protect_hot`, `reassign_endangered`, …) is an operator from
such records to such records, so that the daily `Maintenance` and the five-minute `Monitor` are the
compositions the code runs. Days are relative to today; a proof may be for tomorrow, today or yesterday.

### Staking

`stake`, `layers`, `unbonding`, `wait` are `stakes`, `stake_layers`, `unbonding` and its deadline; `pause` and
`frozen` are `rebuild_until` and `stake_freeze_until`. `Transfer` includes the block reward and its
distribution by weight. `Penalise`, `StorageSlash`, `StorageExit`, `UpgradeQuota`, `Freeze` may happen at any
time: the modules above say when the code does them. Weights are in tenths. `voluntary`, `slashed`, `upgraded`,
`burned` and `doubled` are history for the properties.

### Arbitration

`arb`, `cand`, `pend`, `susp`, `mal` are the arbitrators, the candidates, the stakes that wait for their release, those
under observation with their accusers, and the lost complaints of a buyer; `pool[c]` holds the deposits of a case; `cases[c]` is an entry of
`arb_cases` with a `first` and a `second` bench, whose slots hold a member and a vote. `Next` has three parts: what
arbitrators do (apply, vote on applications, renew, exit, decline, charge), what parties and benches do (file, vote,
appeal), and `Maintain`, which draws, replaces the late, decides, pays, retires and releases, in the order of the code.
The draw of the VRF is any order of the arbitrators. Shares of money are rounded down.

### SocialFi

One record per game: fan tokens with proposals, revenue shares, a prediction market, a blind box, a curation, a
creator's bond, fractions of an NFT, a text with its deposit and jury, and the budget of an AI identity, each with one
action per operation of `SocialFi.apply_op` and the part of `maintain` that concerns it. All games use one
ledger; a behaviour plays one of them (`Games`).

### Ledger and Economy

`bal` holds users and pools, `day` the calendar day, `ops` counts transactions up to the bound, `part` names the component
that a behaviour plays; the daily maintenance (`Maintain`) runs in all of them. `Tx(p, u, n)` is what every transaction
asks for. `NextDay` starts the counts of a day anew. `MarketMoves` is a day of the oracle as the safety net sees it: the
feed follows the market 10 % and five minutes at a time, so that within a day it gets anywhere.

| Module | State | Actions |
|---|---|---|
| `Dex` | `pool`, `tok`, `lp`, `farm` (with its rate), `dexPaused` | `DexPair`, `DexAdd`, `DexRemove`, `DexSwap0`, `DexSwap1`, `FarmStake`, `FarmUnstake`, `FarmClaim`; `DexPause`, `DexRate` (governance) |
| `Oracle` | `orc` (nodes), `src` (sources), `feed`, `rnd`, `ver`, `earned` | `OracleRegister`, `OracleExit`, `OracleClaim`, `PriceUpdate`, `FiveMinutes`, `OracleReport`, `VrfRequest`, `VrfFulfill`, `AiSubmit`, `AiVerify` |
| `SafetyNet` | `hist`, `buys` (log), `frozenTill`, `funds`, `paidOn`, `got`, `sold`, `calm` | `NetMaintain` (all of `ReserveEngine.maintain`), `NetRestart`, `SailMint`, `PoolIsSpent` |
| `AiService` | `service`, `muso`, `work`, `triggers`, `guards`, `pend`, `spentBy` | `SvcRegister`, `SvcConfig`, `MusoConfig`, `MusoTakeDue`, `WorkCreate`, `WorkBuy`, `Trigger`, `FundGuard`, `FundSpendSmall`, `FundSpendLarge`, `FundApprove`, `AiMaintain` |
| `Subscription` | `tier`, `sub`, `counter`, `badge` | `SubCreate`, `SubUpdate`, `SubSubscribe`, `SubRenew`, `SubCancel`, `SubMaintain` |
| `StorageMarket` | `provider`, `pin`, `seal` (the chain of proofs), `order` | `MarketRegister`, `MarketPin`, `MarketClaim`, `MarketProve`, `MarketOrder`, `MarketMaintain` |
| `EvmBridge` | `hold`, `wrap`, `account`, `bound`, `evmBal` | `EvmBind`, `EvmMigrate`, `EvmConvert`, `EvmRevert`; `EvmPay`, `EvmBurn` (transactions of an EVM address) |
| `EvmCalls` | `world` (contracts, storage, balances), `evmTx` with its copies, `frames` | `CallBegins`, `Deploy`, `ReadBegins`; in a frame `Write`, `Call`, `Send`, `Create`, `Return`, `Destruct`, `Fail`; `Settle` (gas, or all is put back), `Answer` (a read) |
| `EarlyRewards` | `early[n]`: one node's locks, drops, uptime, check-ins, payments and fund | `EarlyStake` (all nodes), `EarlyCheckIn`, `EarlyUnlock`, `EarlyMaintain`, `EarlyRestart` (one node) |
| `Did` | `binding`, `app`, `certified`, `score` | `DidBind`, `DidUnbind`, `DidUpdate`, `DidAsked`, `DidApply`, `DidVote`, `DidPay`, `DidMaintain` |
| `AntiFomo` | `book[n]`, `coolTill[n]`, `heard[n]` | `FomoHear` |

In `EvmCalls` bytecode is arbitrary: a frame may do anything in any order and fail at any moment. That a node
executes one transaction at a time is kept; frames are steps only so that every order of what they do is met.

## 3 What each run checks

Each run has its `.cfg`. A property's comment in the module says what it means for the code and names
the lines.

| Run | Instance | Properties | What it shows |
|---|---|---|---|
| `consensus_crash` | 2 validators, 2 transactions (one adds stake), epoch of 2 blocks, 4 blocks, 1 timeout, 1 crash | `ChainsAreSound` (`TypeOK`, `SealedOnce`), `EquivocatorsArePenalised` | a restart from an old file makes an honest validator sign a height twice; chains stay hash chains that seal a transaction once, the penalty for double signing only hits double signers and lasts past the next boundary |
| `consensus_live` | 2 validators, two possible draws, a penalty at 2 misses, 3 timeouts, no crash, fair | `PendingIsSealed`, `Agreement`, `MissesAreWitnessed` | what a node holds is sealed in its chain, by the fallback where needed; before the first timeout chains do not differ; every counted miss has a late block behind it |
| `bridge` | 2 nodes that must both sign, 1 source transaction, NOVA and a wrapped asset at half its price, 2 deposits, 1 withdrawal, 1 exit, fair | `SettledIsEarned` (`Quorum`, `DelayServed`, `SeasonedSigners`), `OneDepositPerSource`, `MoneyAddsUp` (`WrappedIsBacked`, `NovaAddsUp`, `FeesAddUp`), `CreditOnce`, `WithdrawalSettles` | report, cancel and report again, leave and come back while signatures are collected: one credit per source, all conditions kept, every amount on exactly one side, and a withdrawal is released when enough nodes keep signing |
| `sync_restart` | 2 nodes, 2 transactions, 2 blocks, 1 crash, fair | `NothingTwice` (`TypeOK`, `ExecutedOnce`, `SealedOnce`), `ExecutedIsSealed` | a crash between execution, sealing and saving loses the tail of all three together, never one of them |
| `sync_replay` | a plain transfer and a claim of a bridge deposit, 1 crash | `NeverTwice` **violated** | the file of a node that has executed the claim is taken over in part, and the transfer is executed again: see section 4 |
| `compute` | 1 task of any of 3 kinds, publisher, 2 workers, an arbiter who is also the juror; one worker moves its stake, fair | `NovaAddsUp`, `PaymentsAreSound` (`TypeOK`, `PaidOrRefunded`, `PaidIsConfirmed`), `BountyLeavesEscrow` | money, escrow and confirmation through every end a task can have; maintenance and time get every bounty out of escrow |
| `gov_one` | 2 holders who are also the bridge nodes, 1 proposal of any of the 6 types, fair | `ProposalsAreSound` (`TypeOK`, `EffectsAreEarned`, `PowerIsShared`), `NovaAddsUp`, `IsResolved` | no stage is skipped whichever operation runs `tick`; votes are never more than coins at one moment; every proposal is decided |
| `storage_days` | 2 nodes, 1 of them staked, 1 file and its re-upload, a fund of one fee, 1 incident | `RecordsAreSound` (`TypeOK`, `ReplicasAreHeld`), `MoneyIsEarned` (`NovaAddsUp`, `RewardIsEarned`), `LeaversTakeNothing`, `RedIsTold` | a silence, a bad, late or early proof, a notice, an access, an upgrade or an upkeep request anywhere among proofs, settlement, monitor and midnights |
| `staking` | 2 nodes, amounts that cross the tiers at 60, 70 and 80 percent, 3 stake transactions, 1 transfer, 1 incident | `BooksBalance` (`TypeOK`, `NovaAddsUp`), `GradualExit`, `OldStakeKept`, `RewardArrives` | money, weights, rewards and the gradual exit while a penalty, an upgrade, a storage exit, a freeze or a pause hits the stakes |
| `arbitration` | 3 arbitrators, benches of 2 and 1, 1 case, 2 further operations of one arbitrator, 3 days | `BenchesAreSound` (`TypeOK`, `NobodyJudgesTwice`), `NovaAddsUp`, `VerdictsStand`, `TwoAccusers` | a case through panel, verdict, appeal and claw-back while an arbitrator applies, renews, declines, leaves or is charged: votes and verdicts stand, nobody judges twice, a stake is lost to two accusers only, and money appears in the named places only |
| `socialfi` | 8 games, 8 operations, 4 days, 2 users, a jury of 3 | `BooksBalance` (`TypeOK`, `NovaAddsUp`), `NothingCountsTwice` (`PoolCoversClaims`, `PollWithinSupply`), `RedeemingHurtsNobody`, `EscrowHoldsDeposits`, `SilenceEnds` | pools and escrows against what they owe, a token votes once, a share is claimed once, disputes that too few vote on end |
| `economy` | 3 users; a behaviour plays one of 13 parts; operations and days of each part as in `MCEconomy` | `LimitsHold` (`TypeOK`, `PayoutsArePaced`, `TwoGuardians`, `MonthsAreServed`), `ClaimsAreEarned` (`ProofsArePaced`, `EarlyIsEarned`, `AssetsAreKept`, `BadgesAreVoted`, `LargeBuyersCool`, `RefusedIsPutBack`), `NovaAddsUp`, `SharesKeepTheirWorth`, `TwoNodesAgree` | limits by the day, week and month, and what is paid for, hold however often the maintenance runs; a share of a pool keeps its worth; two nodes stand behind a price; what the EVM refuses is put back; money appears and is lost in the named places only |

A property that is a conjunction of parts is given with them; each part has its comment in the module.

### Bounds, and why they are enough

`MaxBlocks` (blocks ever made), `MaxTimeouts`, `MaxCrashes`, `MaxDeposits`, `MaxWithdrawals`, `MaxExits`,
`MaxProposals`, `MaxTransfers`, `MaxStakings`, `MaxIncidents`, `Uploads` (files registered), in the compute
market the sets `Publishers`, `Stakers` and `Kinds`, in `Arbitration` `MaxCases`, `LastFiling`, `Accusers`, `Restless`, in
`EvmCalls` `MaxDepth` and `MaxSteps`, and in the modules of the economy `MaxOps` (transactions) and `MaxDay` are the bounds;
each stands in the guard of the action it limits, and no action is bounded otherwise.

* Consensus: 4 blocks with an epoch of 2 give a snapshot at genesis, one in the middle and one with a
  penalty between them. One crash and one timeout give forks, double signing and the fallback; a second of either
  repeats the same situation on another node.
* Bridge: two nodes with a quorum of two is the smallest case in which one leaving node
  matters; the counterexamples of the mutants need two nodes and two deposits of a key.
  The delays of 1 and 2 keep "before" and "after" apart. The proofs cover all larger instances.
* NodeSync: losing and repeating one message between two nodes covers every pair, since a node treats all
  peers alike; two transactions let one be saved and one not.
* Compute market: tasks meet only through balances, stakes and reputation, so one task with a worker that
  moves its stake shows the money; one arbiter and one juror are the hardest case for the independence of
  judgements, as they may be the same person.
* Governance: proposals meet only in the funds and in the freeze that names governance's own `execute`;
  the properties are per proposal or sums. Two holders are enough for a cycle of delegations.
* Storage: two nodes with `MinHealthy` 2 make a file healthy, endangered and red; every incident meets every
  other event before and after midnight.
* Staking: the tiers are reached by three stakes of a supply of 20; penalties of 1 and 5 percent and of the
  storage settlement differ only in the amount.

* Arbitration: with three arbitrators, benches of two and one, a decline, a timeout or a retirement leaves one to
  replace; one case that is filed on the first day passes both benches within three days.
* SocialFi: eight operations play every game through with its second claim, vote or redemption; four days let a term, a
  release and a jury's time run out.
* Economy: parts meet only in the pools and in the maintenance, so a behaviour plays one of them. Each part has the
  operations its longest game needs: eight for an order with its pin, claims by two providers and three proofs, five for two
  conversions with the bindings before them, four for a price that two nodes make and a third disputes. Three days let
  a month of a subscription and a release of a lock pass. The price falls and stays low for four days, so that the fourth
  buy-back of a week meets the weekly limit of 3 % after three times 1 %. One call of a contract has up to three steps
  in two frames, which is what it takes to write below a frame that fails.
* The three sources of the feed are interchangeable, which is the symmetry that `economy` uses.

Deadlock is checked in every run of the models in which something can always happen (time or gossip); the runs
of `Consensus`, `Bridge`, `NodeSync`, `Arbitration`, `SocialFi` and `Economy` reach their bounds of operations or days and
may stop there, so they switch the check off.

### Fairness

| Specification | Assumed | Why the code justifies it |
|---|---|---|
| `Consensus!FairSpec` | `ProduceBlock`, `Elapse` weakly fair; `ReceiveTx`, `DeliverBlock` weakly fair | the production loop runs every few seconds as long as the process lives, time passes. Gossip gives no guarantee, so delivery of what is under way is an assumption on the network; `DeliverBlock` may still deliver in any order, too early or too late, and such blocks are dropped for good |
| `Bridge!FairSpec` | `Tick`, `SignWithdrawal`, `ConfirmWithdrawal` of every node | operators of bridge nodes sign what they see; `WithdrawalSettles` only claims anything when enough nodes stay |
| `NodeSync!FairSpec` | `Produce`, `Autosave`, `Start`, reading of connections | three loops of a node and an operator who restarts it; gossip has no fairness |
| `ComputeMarket!FairSpec` | `Tick`; for each task, the change of the task that `Maintain` makes | time and the hourly loop. No participant has to do anything |
| `Governance!FairSpec` | `Hour`, `Maintain` | time and the hourly loop |
| `SocialFi!Spec` | the day and the maintenance | time and the hourly loop; needed for `SilenceEnds` only |
| `Staking!FairSpec` | guard, end of pause, time, and every node asking to stake again and again | only used to show that recovery fails even then (section 4) |

## 4 What the documents say and the code does not do

Where a document, a comment or a test states something that the model shows to be otherwise, the statement is
a property of its own, and TLC finds a behaviour that violates it. `sync_replay` is one of the
runs above. For the others the first column gives the instance: a configuration of its own where the file
`<name>.cfg` exists, otherwise the run of section 3 whose constants show it once the property takes the place
of the run's own (marked *in*), with the constants to change, if any. In `economy`, `Parts` can be cut down to the
part that the property is about.

| Instance | Property | Stated in | What happens |
|---|---|---|---|
| `sync_replay` | `NeverTwice` | README.md:106 | with bridge usage in the file, `from_dict` raises (storage.py:523) after the balances are taken over; the replay guard and the chain stay empty, and a redelivered transfer is executed again; the claim itself is not, since its deposit came back as minted (storage.py:519, bridge.py:391) |
| *in* `sync_restart` | `SealedIsExecuted` | README.md:124 | a block names a transaction that the node itself has refused or never seen; nothing executes it |
| *in* `sync_restart` | `LateNodeCatchesUp` | README.md:112 | the `state_request` is written without a newline (nova_node.py:1260), the reader waits for the end of the line, no snapshot is sent |
| *in* `consensus_crash` | `PenaltiesFollowTheChain` | README.md:131 | the producer does not count the miss that everyone who adopts its block counts |
| *in* `consensus_crash`, with `Txs` {t1, t2, t3}, `StakeBy <- NoStake`, `MissThreshold` 1, `MaxBlocks` 3, `MaxTimeouts` 2, `MaxCrashes` 0 | `InactiveSitsOut` | README.md:134 | a penalty at an epoch boundary ends just before the next snapshot |
| *in* `consensus_crash`, with `StakeBy <- NoStake`, `GenesisStake <- OneStaked`, `MaxBlocks` 3, `MaxTimeouts` 2, `MaxCrashes` 0 | `FillInNeedsStake` | README.md:122 | after the timeout a node without stake produces |
| *in* `consensus_crash`, with `Txs` {t1, t2, t3}, `StakeBy <- NoStake`, `EpochLen` 3, `MaxBlocks` 3, `MaxTimeouts` 3, `MaxCrashes` 0 | `TimelyBlockClearsMisses` | consensus.py:135 | the producer's own block does not clear its count on the producer |
| *in* `consensus_live`, with `Draws` {0}, `MissThreshold` 3, `MaxCrashes` 1 | `PendingIsSealed` | consensus.py:20 | the fallback needs a previous block (consensus.py:106): when the validator elected for height 0 is down nothing is sealed |
| `bridge_ceiling` | `HardCeiling` | bridge.py:98 | usage is tested at the request and counted at the claim; requests in between pass the ceiling |
| *in* `bridge` | `ReviewedAtLimit` | bridge.py:114 | the same for the review of an address |
| *in* `bridge` | `NovaNeverIssued` | README.md:70 | the fee on a wrapped asset is paid to the validators in NOVA |
| `bridge_dust` | `DepositCredits` | bridge.py:6 | an amount below the minimum fee is credited as a negative number |
| *in* `compute` | `RefundedOnce` | COMPUTE_NETWORK.md:67 | a task that expires inside its own acceptance is refunded, accepted with the view from before, and refunded again (nova_node.py:827) |
| *in* `compute` | `StakeBehindWork` | COMPUTE_NETWORK.md:108 | the stake is withdrawn while the work runs |
| `compute_arbiter` | `ArbiterIsThirdParty` | COMPUTE_NETWORK.md:90 | an executing node arbitrates |
| `compute_cheat` | `CheatZeroes` | COMPUTE_NETWORK.md:109 | counters above the cap absorb the penalty |
| *in* `compute`, with `Spec`, `People` {c, w1, w2}, `Supers` {w1, w2}, `Bounties` {100}, `InitRep <- Demoted`, `Stakers` {} | `DemotedTakeLightWork` | COMPUTE_NETWORK.md:126 | a node below 40 points gets a task by bid |
| *in* `gov_one`, with `Spec`, `BridgeNodes` {a}, both geneses 0, `Confirmations`, `Discussion` and `Freeze` 1, `Types` {"upgrade"} | `OneCoinOneVote` | governance.py:7, :59 | vote, delegate, and the delegate votes with the same coins |
| *in* `gov_one` | `TallyStands` | governance.py:9 | a vote validated before the end is counted after it (governance.py:209) |
| *in* `gov_one` | `FreezeAtOnce` | README.md:281 | a freeze needs somebody to execute it |
| *in* `gov_one`, with `Spec`, `BridgeNodes` {a}, `Wealth <- OneRich`, `Staked <- Equal`, `FundGenesis` 0, `Confirmations`, `Discussion` and `Freeze` 1, `Types` {"payout"} | `PayoutByTwoThirds` | README.md:280 | a payout passes by simple majority |
| *in* `gov_one`, with `Spec`, `People` and `BridgeNodes` {a}, `FundGenesis` 0, `PayoutGenesis` 1, `Types` {payout}, `Amounts` {5}, and 1 for `Confirmations`, `Discussion`, `Freeze` | `PayoutInFull` | README.md:280 | a payout larger than the fund is cut and done (reserve.py:292) |
| *in* `gov_one` | `ParameterStays` | NOVA_ECOSYSTEM_MODULES.md:42 | the parameter is a class attribute and not in the file (governance.py:418) |
| *in* `storage_days` | `ProvenNotBlamed` | STORAGE_INCENTIVE.md §3 | only the latest day is remembered: who proves today before yesterday is settled fails for yesterday (storage_incentive.py:376) |
| *in* `storage_days`, with 1 for `MaxReplicas`, `MinHealthy`, `HotReplicas` | `PaidForTaking` | STORAGE_INCENTIVE.md §6 | the fee is paid before the claim, which may refuse (:505) |
| *in* `storage_days` | `MigratedFirst` | STORAGE_INCENTIVE.md §6 | a leaver is released though nobody could take its files (:577) |
| *in* `storage_days`, with `StakeAmounts` {5}, `Capacities` {} | `QuotaFollowsStake` | STORAGE_INCENTIVE.md §1 | a penalty or a second stake leaves the quota as it is (:528) |
| *in* `storage_days` | `ReuploadKeepsReplicas` | storage_incentive.py:174 | the holders of the old content are listed for the new one without holding it |
| *in* `staking` | `NeverIssued` | README.md:70 | a transfer to oneself adds its amount (nova_node.py:1182) |
| *in* `staking` | `CoolingWithinQuarter` | README.md:127 | what waits stays when a penalty cuts the stake |
| *in* `staking` | `UpgradedStakeKept` | README.md:236 | a stake made by upgrades has no layer and loses its weight with the next stake |
| *in* `staking` | `AcceptedStakeWeighs` | README.md:235 | the tier is read after the stake is added: the one that reaches 80 % is accepted with weight 0 |
| *in* `staking` | `MayLeaveAnyTime` | README.md:235 | an unstake must be covered by the free balance (nova_node.py:213) |
| *in* `staking`, with 2 for `FreezeDays`, `MaxIncidents` | `FrozenStakeStays` | README.md:270 | a storage exit releases the stake during a freeze (storage_incentive.py:594) |
| *in* `staking`, with `FairSpec`, `Critical` 2 | `RebuildRecovers` | README.md:276 | the pause refuses the stakes that would end it (reserve.py:216) |
| *in* `arbitration` | `OverturnKeepsNova` | arbitration.py:21, :32 | an overturning verdict returns the whole second deposit, of which the panel was paid (arbitration.py:1076) |
| *in* `arbitration` | `ActiveIsStaked` | arbitration.py:16 | a renewal that is settled after the term has ended seats the arbitrator again, whose stake has gone to wait for its release |
| *in* `arbitration` | `StakeIsReturned` | arbitration.py:20 | a second release overwrites the one that waits (arbitration.py:264) |
| *in* `arbitration` | `SecondIsHeard` | arbitration.py:25 | a second bench that finds nobody in its week is closed by the maintenance without a vote, which overturns the first verdict for the seller |
| *in* `socialfi` | `DepositPaidOnce` | socialfi.py:60, :1200 | nothing sets the mark that stops the release: the deposit is released during the dispute and paid again |
| *in* `socialfi` | `DisputeEnds` | socialfi.py:60, :1239 | a tie enlarges the jury; only one below its quorum runs out of time |
| *in* `socialfi` | `FractionsAddUp` | README.md:180, socialfi.py:1062 | a sale lowers what the owner holds and not its entry among the fractions |
| *in* `socialfi` | `BudgetCountsAll` | README.md:204 | what is paid by an operation whose amount is 0 (the reserve of a blind box) does not count |
| *in* `socialfi` | `MarketIsPaidOut` | README.md:174 | when nobody has bet on the outcome the bets stay in the market |
| *in* `economy` | `StakedSharesCount` | dex.py:11 | shares that are staked in the farm are burned: the pool counts fewer than there are |
| *in* `economy` | `NothingIsOverwritten` | dex.py:375 | an addition to a pool with few shares replaces its reserves |
| *in* `economy` | `RewardsStayPending` | dex.py:273 | a claim clears what is pending before it learns what the fund can pay (dex.py:546) |
| *in* `economy` | `SourcesAreStaked` | oracle.py:13-14 | a source stays active when its node has left with its stake |
| *in* `economy` | `NewPriceIsAccepted` | oracle.py:9-12 | after a jump of the market every report is refused (oracle.py:478) |
| *in* `economy` | `CrashBuysMore` | README.md:263, reserve.py:5 | the 1 % of a day hides the shares of 2 % and 5 % |
| *in* `economy` | `CompensatedInFreeze` | README.md:269 | compensation is paid as long as its pool has something, also when the freeze has ended |
| *in* `economy` | `ThawedByARise` | README.md:268 | the high prices leave the average, and the freeze ends without a rise |
| *in* `economy` | `SubsidyIsPaidOut` | README.md:273 | a node that finds less than a whole subsidy gets nothing and the rest of the fund stays |
| *in* `economy` | `FilledOnce` | reserve.py:33 | a pool is filled again whenever it is empty, at every start and every day |
| *in* `economy` | `FundNotOverdrawn` | ai_service.py:319 | an approval pays without looking at the fund again |
| *in* `economy` | `TodayIsToday` | ai_service.py:61, :453 | the count of a day is reset by the maintenance of the next, and stays until it runs |
| *in* `economy` | `SubscribersCounted` | subscription.py:173 | a creator that sends `create` again sets the counter to 0 while its subscribers stay |
| *in* `economy` | `EndedMayReturn` | subscription.py:193 | who has cancelled can neither subscribe nor renew |
| *in* `economy` | `EscrowCovers` | storage_network.py:12-13 | every provider that proves gets its share, however many there are |
| *in* `economy` | `OrdersStayOpen` | storage_network.py:12 | the pin runs out before the order: nobody may prove any more |
| *in* `economy` | `ConverterIsOwner` | README.md:319 | a second holder's conversion is added to the record of the first |
| *in* `economy` | `GivenBackOnce` | README.md:320 | a burn whose gas is not there: the holders are not put back with the record |
| *in* `economy` | `FailedLeavesNothing` | EVM_COMPAT_AUDIT.md:21 | a frame that fails leaves what its own calls have written and sent |
| *in* `economy` | `ReadLeavesNothing` | EVM_COMPAT_AUDIT.md:38 | a contract created during a read stays (evm_rpc.py:188) |
| *in* `economy`, with `EarlyNodes` {n1, n2} | `MinersAreAlike` | nova_node.py:1075 | check-ins, releases and uptime are each node's own |
| *in* `economy` | `FirstAreDropped` | README.md:84 | the 81st is registered before the registry is counted and gets no drop (economy.py:312, nova_node.py:1076) |
| *in* `economy` | `GrantsAddUp` | README.md:84-85, :255 | a later grant replaces a lock |
| *in* `economy` | `HalfCertifies` | NOVA_ECOSYSTEM_MODULES.md:49 | half of the votes is not enough (did.py:308) |
| *in* `economy` | `DecidedMayApply` | did.py:257 | a decided application still stands in the way of the next |
| *in* `economy` | `NodesCoolAlike` | fomo.py:14-15 | the same purchases in another order cool or do not cool |

Also: README.md:126 gives 30 % as the limit of the total stake, the code and README.md:237 85 %. bridge.py:378 asks for a minimum age of a node that takes
part in a multi-signature; the node that reports a deposit is its first signer without that test (bridge.py:430), so
`SeasonedSigners` is about all other signatures. fomo.py:19 and :39 count `nova:ai:work:buy` among the purchases; it is
refused in a cool-down, but `apply_tx` has dealt with AI operations (nova_node.py:1141) before it records a purchase
(:1147), so no amount of it leads to a cool-down.

## 5 The proofs

`tlapm` checks every leaf. Nothing is assumed but the named assumption of the module (types of the constants, positive
lengths where the code has them, finitely many nodes, people and tasks), and two hypotheses that are written out in the
theorems that need them and explained below. The theorems hold for every number of nodes, people, requests, blocks and
crashes, and for all amounts, delays and windows.

| Theorem | Module | Statement |
|---|---|---|
| `ChainsAreSoundHold`, `MissesAreWitnessedHolds` | `ConsensusProofs` | the invariants `ChainsAreSound`, `MissesAreWitnessed` |
| `EquivocatorsArePenalisedHolds` | `ConsensusProofs` | the action property |
| `AgreementHolds` | `ConsensusProofs` | `OneLedger` implies `Spec => []Agreement` |
| `SealedOnceHolds` | `ConsensusProofs` | `Sync!Spec => []Sync!SealedOnce`, of `NodeSync` |
| `NothingTwiceHolds` | `ConsensusProofs` | `BridgeTxs = {}` implies `Sync!Spec => []Sync!NothingTwice`, of `NodeSync` |
| `TypeCorrect`, `Invariance` | `BridgeProofs` | `Spec => []TypeOK`, `Spec => []IInv` |
| `SettledIsEarnedHolds`, `OneDepositHolds` | `BridgeProofs` | the invariants `SettledIsEarned`, `OneDepositPerSource` |
| `SettledIsFinalHolds` | `BridgeProofs` | the action property: what is minted, cancelled or released stays so and loses no signature |
| `CreditOnceHolds` | `BridgeProofs` | `Spec => Credit!Spec`: the bridge implements `SourceCredit` |
| `MoneyAddsUpHolds` | `BridgeProofs` | `Spec => []MoneyAddsUp` |
| `GradualExitHolds`, `BooksBalanceHolds` | `StakingProofs` | the invariants `GradualExit`, `BooksBalance` |
| `RewardArrivesHolds`, `OldStakeKeptHolds` | `StakingProofs` | the action properties `RewardArrives`, `OldStakeKept` |
| `ProposalsAreSoundHold`, `NovaAddsUpHolds` | `GovernanceProofs` | the invariants `ProposalsAreSound`, `NovaAddsUp` |
| `PaymentsAreSoundHold`, `NovaAddsUpHolds` | `ComputeProofs` | the invariants `PaymentsAreSound`, `NovaAddsUp` |
| `BooksBalanceHolds`, `NothingCountsTwiceHolds` | `SocialFiProofs` | the invariants `BooksBalance`, `NothingCountsTwice` |
| `RedeemingHurtsNobodyHolds`, `EscrowHoldsDepositsHold` | `SocialFiProofs` | the action properties `RedeemingHurtsNobody`, `EscrowHoldsDeposits` |
| `RecordsAreSoundHolds`, `MoneyIsEarnedHolds` | `StorageProofs` | the invariants `RecordsAreSound`, `MoneyIsEarned` |
| `LeaversTakeNothingHolds`, `RedIsToldHolds` | `StorageProofs` | the action properties `LeaversTakeNothing`, `RedIsTold` |

**Consensus.** `ConsInv` says of every chain, in memory and on disk, that it is a hash chain (heights count up, each block
names the one below) and seals nothing twice, and of every block ever signed that it ends such a chain (`Rooted`). A
node compares only `prev_hash` with its tip when it adopts a block; since the tip determines a whole hash chain
(`TipDetermines`, by a smallest place where two chains differ), its chain is the one the block was made on, and the
block's transactions are new to it. A miss is counted in the step that appends a late block of somebody else, so the
counts are covered by the blocks on the chain also after a restart from an old file (`Witnessed`). For
`EquivocatorsArePenalised` the arithmetic of epochs is needed: the next boundary is less than a jail term away.
`Agreement` is proved under `OneLedger`, which is what its comment and the run `consensus_live` say: no transaction moves stake (the
ledger is executed in the order of arrival, so nodes that had different stakes could elect differently), and
somebody has stake at genesis (else everybody may propose). `CalmInv` then gives one block per height: there is one
elected proposer, since the intervals of the draw are disjoint (`ElectedHasWeight`, from the facts about sums), and
it holds every block it made, so it will not make another at that height.

**NodeSync.** `SyncInv` speaks of all copies of a state: in memory, on disk and in a snapshot on the wire. In each, ledger
and replay guard agree, because they are only ever taken over together. An entry of bridge usage makes `from_dict` raise half way
(section 4), and then they do not: `NothingTwiceHolds` therefore has the hypothesis `BridgeTxs = {}` of the run `sync_restart`, and `sync_replay`
shows what happens without it. That no chain seals a transaction twice needs no hypothesis. `ConsensusProofs` reaches the
module as the instance `Sync`; an instance does not carry the assumption on its constants along, so it is written out
(`Sync!NodeSyncAssumption`) in the theorems.

**Bridge.** `TypeOK` is inductive as it stands; what needs an argument is that a fee is a natural number, that a
balance that was tested stays one, and that a sequence of requests extended by one is again one. For
safety, every action is first shown to do to each old request one of five things (`DepositMove`: nothing, one unit
of time, a signature by a seasoned node, settlement when everything is served, cancellation) and to add at most
one request in its first state (`ExtendFacts`). The invariant `IInv` adds to `TypeOK` that each request by itself
is consistent (`RequestsOK`: signatures and remaining delay fit its status), `OneDepositPerSource` and `SeasonedSigners`,
which is kept because no step takes a node out of `Seasoned` (`NextSeasoned`). Quorum and
delay are then a case analysis over five moves, independent of the fourteen actions; a deposit is only
appended when every older one for its source is cancelled, and a cancelled one never comes back, which gives
`OneDepositPerSource` and, with it, that a step of the bridge either adds one pair to the credited ones, whose
source and receipt are both new, or none: the refinement. For the money, a sum over the minted deposits is written as a sum
over all of them in which the others count zero (`Tally`), so a step changes it by what its one request changes (`DepositPut`).

**Staking.** `GradualExit` bounds what an address has unstaked since its last claim by a third of what it has left or
was fined. It is not inductive: the code tests the ceiling against everything that waits to be claimed
(nova_node.py:157), so one needs that the voluntary part is among what waits (`Pending`). Stakes only help, a fine
moves the same amount from the one summand to the other, a claim or a storage exit starts the count anew, and
an unstake is exactly the tested inequality. `BooksBalance` is inductive with the types of the accounts, which include that
the pool is never overdrawn (`DrawnFits`); `RewardArrives` needs that every share is a quotient and loses less than one unit.
For `OldStakeKept` the layered weight and the amount in the layers are one kind of sum with two weightings; consuming `amt` first in,
first out takes at most `c * amt` from such a sum with weights up to `c` (`ReducedWorth`). An address that never upgraded its storage has all
its stake in layers or lost stake besides (`Backed`).

**Governance.** A step moves a proposal by one of six moves; its age plus what is left of its phase is at least the length of
the phases so far (`ProposalOK`), hence an executed one is old enough. `Behind` is a recursive function; its values are the members of a growing
sequence of sets (`Reaches`), and since each address delegates once, two voters who have not delegated have nobody in common behind them
(`BehindOK`): their powers are sums over disjoint sets. `NovaAddsUp` is a total over balances and what is owed.

**ComputeMarket.** The danger is a task that is refunded and then paid: the code refunds an overdue task when somebody accepts it, and lets
it be taken up again. `RefundOK` shows why no payment follows: such a task stays overdue, and an
overdue task takes no result. `UnsettledOK` (nobody is paid before the settlement, no two results agree) shows that the results which agree in `Submit` are
exactly two, or the arbiter's. Conservation holds up to rounding: splitting a bounty by weight between two loses at most one unit (`TwoQuotients`), and a task
is settled once. The daily maintenance pays many accounts for many tasks in one step; what the accounts get is summed over
accounts of sums over tasks, what the tasks give the other way round (`SumSwap`).

**SocialFi.** Every game has its own reason, and all share the accounts. `PoolCoversClaims` is not inductive: a claim is a share of all
that ever came in less what was paid, rounded down, and cut to the pool. `RevSound` adds that the pool and what was paid are all
that came in, and that nobody was paid more than their exact part; then every open claim is the quotient of the claim less what was paid, and quotients with
one divisor add up to at most the stock (`PartsWithin`, also the reason why a settled market pays no more than its stakes). `PollWithinSupply` needs that
holdings only grow. For `RedeemingHurtsNobody` the payout is at most the pool's share of the claim in either case of `BondPayout`, and what
is owed to two holders together is at least the sum of what is owed to each (`OwedInParts`). For `EscrowHoldsDeposits` the invariant has to say
that a text which is gone has no deposit left (`TextSound`). That the escrow is the only account that may be overdrawn, by
the verdict that pays a released deposit again, is in `Solvent`. Each action has a lemma with the conclusion `Good` (the
invariant is kept and both action properties hold), put together by `Assembled` from what the action changes and one equation: what the
accounts lose the games gain. The assumption on the constants says that the fund and the escrow are nobody's address.

**StorageIncentive.** A maintenance is one step of the model and a chain of loops in the code: over all nodes to settle, over those who leave
and the files of each, over silent nodes, hot files, endangered files and, for each of these, the candidates who are paid and claim. So the
argument is about the states in between. `Sound` says of such a state that its keys have one record each, that whoever is listed for a
file has it assigned (a re-uploaded one excepted), and that an id without a file lists nobody, without which registering an
id again could bring an old list back. `Keeps(s, r)` says what no part of a maintenance does to the state: change the
total of the money, make a proof, give a leaver or a stranger a file. Both are shown for one round of each loop, a payment and a claim at the
bottom, and carried through the loop: a loop is a `FoldLeft`, and a relation between the rounds done and the state reached that holds
before the first and is kept by each holds after the last (`FoldsReach`; by the smallest set of rounds where it would fail, as in `Sums`). A node that
leaves gives up its files one by one, and none of the later ones is handed back to it, because it is `Out`. For `MoneyIsEarned` the
settlement walks a list without repetitions and so rewards each node once, and the invariant `IInv` adds that before a settlement nobody has
the day's reward and that the last accepted proof of a node is for a day it proved. For `RedIsTold`: after `scan_offline` whoever
leaves is offline (`ScanOK`), hence a red file has nobody up and is endangered (here the assumption `MinHealthy` > 0 is needed, 2 in the
code), hence it was looked at; and what is served after it takes nobody's file away or offline (`Grows`, `ToldStays`). TLC checks
`IInv` on the instance of `storage_days`, too.

**Sums.** The invariants about money add with the folds of the community modules, which are defined by recursion over the set. The
induction theorems of the library take an operator as a parameter and cannot be used with the provers at hand, so `Sums`
argues by minimal counterexample instead: the strict inclusion of the subsets of a finite set is well-founded
(`FS_StrictSubsetOrderingWellFounded`), so a set of subsets has a minimal member (`MinimalSubset`), and a set of numbers a smallest one
(`SmallestNat`). With the set of the counterexamples for that set, the step of the induction is an ordinary proof. The same argument serves for chains, layers, delegations and the loops of a maintenance.

Theorems that no run states: `TypeCorrect`, the three `Invariance`, `SettledIsFinalHolds` and `SealedOnceHolds` (a part of `NothingTwice`).
The others state, for every instance, what a run checks on one.

Only model-checked: everything with fairness (`WithdrawalSettles`, `PendingIsSealed`, `ExecutedIsSealed`, `BountyLeavesEscrow`, `IsResolved`,
`SilenceEnds`) and what needs `ENABLED`, which are out of the prover's reach; and the properties of
`Arbitration` (`BenchesAreSound`, `NovaAddsUp`, `VerdictsStand`, `TwoAccusers`) and `Economy` (`LimitsHold`, `ClaimsAreEarned`, `NovaAddsUp`, `SharesKeepTheirWorth`, `TwoNodesAgree`).

## 6 What is left out

* Components that compute without state of the system (the contract VM, the compiler, cryptography), that
  only read (explorer, agent, pages, scripts), or that are stores of their own (chat).
* The load queue: a list in memory from which a node sends its own delayed transactions. That a wait of five minutes
  is as long as the age a transaction may have (nova_node.py:208, :1009-1058, :2612-2616) is a race of clocks that a
  model in days does not show.
* Of the EVM: arithmetic, memory, logs, gas by operation, encodings and the example contracts. Bytecode is arbitrary
  instead, which includes every contract. Transactions of the EVM run on the node whose RPC gets them and are not
  gossiped; the models follow that one node. The value of a call of a contract is tested and not moved, as in the code.
* Of the reputation: the parts of quality, community, assets and penalties. The score decides nothing in the code.
* Referral and deployment rewards, loyalty badges, the faucet, the larger registry in a recovery.
* Inside modelled components: `bridge._slash`, `reserve.rebuild_cost` have no caller; statistics, events (except the
  notice of a lost file) and queries; rate limits and formats of requests; posts, likes and follows of SocialFi.
* Gas of native transactions, where no property is about it.
* Real amounts. Balances are floating-point in the code; the models use integers and round where
  the code divides. What floating-point error adds is not covered.
* Real time between nodes: clocks agree.
* Every part of the economy moving at once: `Economy` exercises the parts one after another on one ledger. What they share
  is the pools, which the maintenance and `PoolIsSpent` move under each of them.

Some choices a reader of `Economy` should know. The commemorative NFT (`SailMint`) is an RPC of one node and no
transaction (nova_node.py:1580). `PoolIsSpent` stands for whatever empties the ecosystem fund between two days and pays one
user. The nodes of the oracle in `FirstNodes` are registered to begin with. A calm of the network, once begun, lasts.
A conversion of a share that its sender does not hold passes the validation and fails in the application, where it is
rolled back, so that the transaction counts as done and does nothing.

## 7 The plan

Done: `Consensus` and `NodeSync` (what all nodes must agree on, what survives a restart); `Bridge` with `SourceCredit` and its
proofs; `ComputeMarket`, `Governance`, `StorageIncentive`, `Staking`; `Arbitration`, `SocialFi`; the
economy: `Dex`, `Oracle`, `SafetyNet`, `AiService`, `Subscription`, `StorageMarket`, `EvmBridge`, `EvmCalls`, `EarlyRewards`,
`Did`, `AntiFomo` on one `Ledger`; the proofs about `Consensus`, `NodeSync`, `Bridge`, `ComputeMarket`, `Governance`, `Staking`, `SocialFi` and `StorageIncentive`.

Left to model: the load queue; referral and deployment rewards; the safety net with `Staking`'s pause and freeze on one ledger;
the cool-down in front of the purchases of SocialFi.

Abstract specifications worth stating: `Escrow` (paid or refunded, once) for compute, storage orders and the texts of
SocialFi; a single ledger of executed transactions for `NodeSync`; a proposal's life for `Governance`.

Theorems worth proving next: of `Arbitration`, `BenchesAreSound` (an inductive invariant that ties the benches to the case's stage), `VerdictsStand`
and `NovaAddsUp`; of `Economy`, the parts with
few variables (`MonthsAreServed`, `TwoGuardians`, `BadgesAreVoted`), and `RefusedIsPutBack` (a frame never changes `left`, and what `Settle` puts
back is what `left` was when the call began).
