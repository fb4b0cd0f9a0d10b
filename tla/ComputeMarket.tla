--------------------------- MODULE ComputeMarket ---------------------------
(***************************************************************************)
(* The compute market (core/compute.py): publishers put a bounty into      *)
(* escrow, workers stake and take the task (first come, or by bid), agree  *)
(* on a result or go to an arbiter, and settled tasks may be disputed by   *)
(* their publisher or audited.  nova_node validates an operation and       *)
(* applies it in one step, so each action is validate_* followed by the    *)
(* branch of _apply_compute_op.                                            *)
(*                                                                         *)
(* Time.  Deadlines are countdowns that Tick lowers; 0 is "past".  Gas is  *)
(* left out.  A result hash is a member of Hashes.  A node's counters      *)
(* completed, correct, wrong, complaints and cheated enter every decision  *)
(* through their weighted sum, rep.                                        *)
(***************************************************************************)
EXTENDS Integers, FiniteSets, Functions

CONSTANTS
    People,            \* addresses
    None,              \* no address
    Supers,            \* validators, miners and storage nodes: qualified as they are
    Capable,           \* addresses whose declared spec meets the tasks' needs
    Publishers, Stakers, Kinds,   \* bounds: who publishes, who moves stake, which tasks
    TaskIds, LightTasks,   \* LightTasks are published as data_clean
    Hashes,
    Bounties, StakeAmounts,
    InitRep,           \* weighted sum of each address's counters
    InitStake, Wealth, \* initial stake and balance of each address
    MinNodes, DisputeQuorum,
    MinStake, MaxStake,
    Expires, Window, Unbond,   \* lengths of the countdowns
    FundGenesis, AuditReward

Pool == "VALIDATOR_POOL"
Fund == "ECOSYSTEM_FUND"
Accounts == People \cup {Pool, Fund}

AllKinds == {"legacy", "grab", "bid"}   \* a task without task_type, and the two modes

ASSUME ComputeAssumption ==
    /\ IsFiniteSet(People) /\ IsFiniteSet(TaskIds) /\ None \notin People /\ {Pool, Fund} \cap People = {}
    /\ Supers \subseteq People /\ Capable \subseteq People
    /\ Publishers \subseteq People /\ Stakers \subseteq People /\ Kinds \subseteq AllKinds
    /\ LightTasks \subseteq TaskIds
    /\ Bounties \subseteq Nat \ {0} /\ StakeAmounts \subseteq Nat \ {0}
    /\ InitRep \in [People -> Int] /\ InitStake \in [People -> Nat]
    /\ Wealth \in [People -> Nat]
    /\ MinNodes \in Nat \ {0, 1} /\ DisputeQuorum \in Nat \ {0}
    /\ MinStake \in Nat /\ MaxStake \in Nat
    /\ Expires \in Nat \ {0} /\ Window \in Nat \ {0} /\ Unbond \in Nat \ {0}
    /\ FundGenesis \in Nat /\ AuditReward \in Nat

VARIABLES
    task,      \* compute_tasks, with bids, dispute and audit of each
    balance, stake, unbonding, rep,
    known      \* "registered" in compute_nodes, "seen" in compute_stats only, or "new"

money == <<balance, stake, unbonding>>
vars  == <<task, money, rep, known>>

Live     == {"open", "bidding", "assigned", "submitted", "arbitrating"}
Statuses == {"none", "completed", "expired", "failed", "disputed"} \cup Live

NoTask == [kind |-> "legacy", creator |-> None, bounty |-> 0, status |-> "none",
           accepted |-> {}, assigned |-> {}, bids |-> {},
           results |-> [w \in {} |-> {}], arbiter |-> None, verdict |-> None,
           shares |-> [w \in {} |-> 0], clawed |-> [w \in {} |-> 0], votes |-> [v \in {} |-> ""],
           left |-> 0, window |-> 0, audit |-> "none", auditor |-> None,
           refunds |-> 0]      \* refunds: how often the bounty went back (history)

Init ==
    /\ task = [t \in TaskIds |-> NoTask]
    /\ balance = [a \in Accounts |-> IF a = Pool THEN 0 ELSE IF a = Fund THEN FundGenesis
                                     ELSE Wealth[a]]
    /\ stake = InitStake
    /\ unbonding = [p \in People |-> [amount |-> 0, left |-> 0]]
    /\ rep = InitRep
    /\ known = [p \in People |-> IF InitStake[p] > 0 THEN "seen" ELSE "new"]

-----------------------------------------------------------------------------
Total(f)    == SumFunction(f)
\* f with one more entry
Put(f, x, v) == [y \in DOMAIN f \cup {x} |-> IF y = x THEN v ELSE f[y]]
Credit(b, a, amt) == [b EXCEPT ![a] = @ + amt]
\* every account of f's domain receives its entry of f
CreditAll(b, f) == [a \in Accounts |-> b[a] + (IF a \in DOMAIN f THEN f[a] ELSE 0)]

Score(p) == LET r == rep[p] IN IF r < 0 THEN 0 ELSE IF r > 100 THEN 100 ELSE r
\* bonus and stake factor in percent
Tier(p) == LET s == Score(p) IN
    IF s >= 80 THEN [bonus |-> 15, factor |-> 100, maxBudget |-> 10000]
    ELSE IF s >= 60 THEN [bonus |-> 10, factor |-> 80, maxBudget |-> 2000]
    ELSE IF s >= 40 THEN [bonus |-> 5, factor |-> 60, maxBudget |-> 500]
    ELSE [bonus |-> 0, factor |-> 30, maxBudget |-> 50]

Qualified(p)  == p \in Supers \/ known[p] = "registered"
Paid(r)       == DOMAIN r.shares
BugOnlyOpenExpires(r) == r.left = 0 /\ r.status = "open"
Overdue(r)    == r.left = 0 /\ r.status \in (IF r.kind = "legacy" THEN {"open"} ELSE Live)
Refunded(r, s) == [r EXCEPT !.status = s, !.refunds = @ + 1]

\* the record and the balances after expire(t)
Expire(r)           == IF Overdue(r) THEN Refunded(r, "expired") ELSE r
AfterExpire(r, b)   == IF Overdue(r) THEN Credit(b, r.creator, r.bounty) ELSE b

\* a settled task: shares of what the fee leaves, weighted by the tier's bonus
Shares(r, ws) ==
    LET pool == r.bounty - r.bounty \div 100
        weight == [w \in ws |-> 100 + Tier(w).bonus]
    IN  [w \in ws |-> (pool * weight[w]) \div Total(weight)]
Settled(r, ws) == [r EXCEPT !.status = "completed", !.shares = Shares(r, ws),
                            !.window = Window]
AfterSettle(r, ws, b) == CreditAll(Credit(b, Pool, r.bounty \div 100), Shares(r, ws))

Half(r, ws) == [w \in ws |-> r.bounty \div 2]

-----------------------------------------------------------------------------
Register(p) ==
    /\ p \in Capable
    /\ known' = [known EXCEPT ![p] = "registered"]
    /\ UNCHANGED <<task, money, rep>>

Publish(p, t, kind, bounty) ==
    /\ task[t].status = "none" /\ balance[p] >= bounty
    /\ task' = [task EXCEPT ![t] = [NoTask EXCEPT !.kind = kind, !.creator = p, !.bounty = bounty,
                                                  !.status = "open", !.left = Expires]]
    /\ balance' = Credit(balance, p, -bounty)
    /\ UNCHANGED <<stake, unbonding, rep, known>>

MayAccept(t, p) ==
    LET r == task[t] need == (r.bounty * Tier(p).factor) \div 100 IN
    /\ r.status = "open" /\ p # r.creator /\ p \notin r.accepted
    /\ \/ r.kind = "legacy" /\ Cardinality(r.accepted) < 8
       \/ /\ r.kind # "legacy" /\ Qualified(p) /\ p \in Capable
          /\ Score(p) >= 40 \/ t \in LightTasks
          /\ r.bounty <= Tier(p).maxBudget
          /\ stake[p] >= MinStake /\ stake[p] >= need
          /\ r.kind = "grab" => Cardinality(r.assigned) < MinNodes

\* an overdue task is expired first and then accepted all the same
Accept(p, t) ==
    /\ MayAccept(t, p)
    /\ LET r == Expire(task[t])
           taken == [r EXCEPT !.accepted = @ \cup {p}]
           working == r.assigned \cup {p}
       IN  task' = [task EXCEPT ![t] =
               CASE r.kind = "legacy" -> taken
                 [] r.kind = "bid"    -> [taken EXCEPT !.status = "bidding"]
                 [] r.kind = "grab"   -> [taken EXCEPT !.assigned = working,
                        !.status = IF Cardinality(working) >= MinNodes THEN "assigned" ELSE @]]
    /\ balance' = AfterExpire(task[t], balance)
    /\ UNCHANGED <<stake, unbonding, rep, known>>

\* the price only raises the stake a bid needs: the lowest one is the least demanding
Bid(p, t) ==
    LET r == task[t] IN
    /\ r.kind = "bid" /\ r.status \in {"open", "bidding"}
    /\ p # r.creator /\ p \notin r.bids
    /\ Qualified(p) /\ p \in Capable /\ stake[p] >= MinStake
    /\ task' = [task EXCEPT ![t].bids = @ \cup {p}]
    /\ UNCHANGED <<money, rep, known>>

\* workers is a list of 2 to 8 bidders in which one may be repeated
Award(t, workers) ==
    LET r == task[t] IN
    /\ r.kind = "bid" /\ r.status \in {"open", "bidding"}
    /\ workers \subseteq r.bids /\ workers # {} /\ Cardinality(workers) <= 8
    /\ task' = [task EXCEPT ![t] = [r EXCEPT !.assigned = workers, !.accepted = workers,
                                             !.status = "assigned"]]
    /\ UNCHANGED <<money, rep, known>>

-----------------------------------------------------------------------------
(* nova:compute:submit *)
MaySubmit(r, w) ==
    /\ w \notin DOMAIN r.results
    /\ \/ r.kind = "legacy" /\ r.status = "open" /\ w \in r.accepted
       \/ /\ r.kind # "legacy" /\ w \in r.assigned
          /\ r.status \in {"assigned", "submitted", "arbitrating"}

\* an overdue task only expires; otherwise the result is recorded and compared
SubmitLate(w, t) ==
    /\ MaySubmit(task[t], w) /\ Overdue(task[t])
    /\ task' = [task EXCEPT ![t] = Expire(@)]
    /\ balance' = AfterExpire(task[t], balance)
    /\ UNCHANGED <<stake, unbonding, rep, known>>

InTime(r) == ~Overdue(r)

BugAnyHashAgrees(r, w, h) == {w} \cup DOMAIN r.results
Agreeing(r, w, h) == {w} \cup {v \in DOMAIN r.results : r.results[v] = h}

Submit(w, t, h) ==
    LET r     == task[t]
        done  == [r EXCEPT !.results = Put(@, w, h)]
        agree == Agreeing(r, w, h)
    IN
    /\ MaySubmit(r, w) /\ InTime(r)
    /\ IF Cardinality(agree) = 1
       THEN /\ task' = [task EXCEPT ![t] = [done EXCEPT !.status =
                   IF r.kind = "legacy" THEN @
                   ELSE IF DOMAIN r.results # {} THEN "arbitrating" ELSE "submitted"]]
            /\ UNCHANGED <<balance, rep>>
       ELSE IF r.kind = "legacy"
       THEN /\ task' = [task EXCEPT ![t] = [done EXCEPT !.status = "completed",
                                                        !.shares = Half(r, agree)]]
            /\ balance' = CreditAll(balance, Half(r, agree))
            /\ UNCHANGED rep
       ELSE /\ task' = [task EXCEPT ![t] = Settled(done, agree)]
            /\ balance' = AfterSettle(done, agree, balance)
            /\ rep' = [p \in People |-> rep[p] + (IF p \in agree THEN 3 ELSE 0)]
    /\ UNCHANGED <<stake, unbonding, known>>

\* _slash_cheat of everyone in ws: the stakes that are there go to the fund
Slashed(ws) == [p \in People |-> IF p \in ws THEN 0 ELSE stake[p]]
Forfeit(ws) == SumFunctionOnSet(stake, ws)

Arbitrate(a, t, h) ==
    LET r       == task[t]
        correct == {w \in DOMAIN r.results : r.results[w] = h}
        wrong   == DOMAIN r.results \ correct
        judged  == [r EXCEPT !.arbiter = a, !.verdict = h]
    IN
    /\ r.kind # "legacy" /\ r.status = "arbitrating"
    /\ Qualified(a) /\ a \notin DOMAIN r.results /\ a # r.creator
    /\ IF correct = {}
       THEN /\ task' = [task EXCEPT ![t] = Refunded(judged, "failed")]
            /\ stake' = Slashed(wrong)
            /\ balance' = Credit(Credit(balance, Fund, Forfeit(wrong)), r.creator, r.bounty)
            /\ rep' = [p \in People |-> rep[p] - (IF p \in wrong THEN 110 ELSE 0)]
       ELSE /\ task' = [task EXCEPT ![t] = Settled(judged, correct)]
            /\ balance' = AfterSettle(judged, correct, balance)
            /\ rep' = [p \in People |-> rep[p] + (IF p \in correct THEN 8
                                                  ELSE IF p \in wrong THEN -20 ELSE 0)]
            /\ UNCHANGED stake
    /\ UNCHANGED <<unbonding, known>>

-----------------------------------------------------------------------------
(* disputes: what the payees still have is taken back and frozen *)
Dispute(t) ==
    LET r == task[t]
        claw == [w \in Paid(r) |-> IF balance[w] < r.shares[w] THEN balance[w] ELSE r.shares[w]]
    IN
    /\ r.kind # "legacy" /\ r.status = "completed" /\ r.window > 0
    /\ task' = [task EXCEPT ![t] = [r EXCEPT !.status = "disputed", !.clawed = claw,
                                             !.votes = [v \in {} |-> ""]]]
    /\ balance' = CreditAll(balance, [w \in Paid(r) |-> -claw[w]])
    /\ UNCHANGED <<stake, unbonding, rep, known>>

MayVote(r, v) == v \notin DOMAIN r.votes /\ v # r.creator /\ v \notin Paid(r)
Vote(v, t, choice) ==
    LET r == task[t] IN
    /\ r.status = "disputed" /\ MayVote(r, v) /\ Qualified(v)
    /\ task' = [task EXCEPT ![t].votes = Put(@, v, choice)]
    /\ UNCHANGED <<money, rep, known>>

Ballots(r, choice) == Cardinality({v \in DOMAIN r.votes : r.votes[v] = choice})

(* nova:compute:audit *)
AuditPass(t) ==
    LET r == task[t] paid == IF balance[Fund] >= AuditReward THEN AuditReward ELSE 0 IN
    /\ r.audit = "pending"
    /\ task' = [task EXCEPT ![t].audit = "passed"]
    /\ balance' = Credit(Credit(balance, Fund, -paid), r.auditor, paid)
    /\ rep' = [rep EXCEPT ![r.auditor] = @ + 5]
    /\ UNCHANGED <<stake, unbonding, known>>

\* twice the stake, as far as stake and balance of the payee reach
AuditFail(t) ==
    LET r == task[t]
        own     == [w \in Paid(r) |-> stake[w] + (IF balance[w] > 0 THEN balance[w] ELSE 0)]
        penalty == [w \in Paid(r) |-> IF 2 * stake[w] < own[w] THEN 2 * stake[w] ELSE own[w]]
    IN
    /\ r.audit = "pending"
    /\ task' = [task EXCEPT ![t].audit = "failed"]
    /\ stake' = Slashed(Paid(r))
    /\ balance' = Credit(CreditAll(balance, [w \in Paid(r) |-> stake[w] - penalty[w]]),
                         Fund, Total(penalty))
    /\ rep' = [p \in People |-> rep[p] - (IF p \in Paid(r) THEN 100 ELSE 0)]
    /\ UNCHANGED <<unbonding, known>>

-----------------------------------------------------------------------------
Stake(p, amt) ==
    /\ amt >= MinStake /\ stake[p] + amt <= MaxStake /\ balance[p] >= amt
    /\ balance' = Credit(balance, p, -amt)
    /\ stake' = [stake EXCEPT ![p] = @ + amt]
    /\ known' = [known EXCEPT ![p] = IF @ = "new" THEN "seen" ELSE @]
    /\ UNCHANGED <<task, unbonding, rep>>

BugUnstakeOverwrites(p, amt) == [amount |-> amt, left |-> Unbond]
Unbonding(p, amt) == [amount |-> unbonding[p].amount + amt, left |-> Unbond]
Unstake(p, amt) ==
    /\ amt <= stake[p]
    /\ stake' = [stake EXCEPT ![p] = @ - amt]
    /\ unbonding' = [unbonding EXCEPT ![p] = Unbonding(p, amt)]
    /\ UNCHANGED <<task, balance, rep, known>>

Claim(p) ==
    /\ unbonding[p].amount > 0 /\ unbonding[p].left = 0
    /\ balance' = Credit(balance, p, unbonding[p].amount)
    /\ unbonding' = [unbonding EXCEPT ![p] = [amount |-> 0, left |-> 0]]
    /\ UNCHANGED <<task, stake, rep, known>>

-----------------------------------------------------------------------------
(* maintain: expiry, disputes with a quorum, random audits, incentive epoch *)
Decided(r)  == r.status = "disputed" /\ Cardinality(DOMAIN r.votes) >= DisputeQuorum
Upheld(r)   == Decided(r) /\ Ballots(r, "uphold") > Ballots(r, "dismiss")

\* what the resolution of a dispute pays out of the frozen amount
Unfrozen(r) == IF Upheld(r) THEN [p \in {r.creator} |-> Total(r.clawed)] ELSE r.clawed

Resolved(r) == IF ~Decided(r) THEN Expire(r)
               ELSE [r EXCEPT !.status = IF Upheld(r) THEN "failed" ELSE "completed",
                              !.clawed = [w \in {} |-> 0]]

Auditable(r) == r.kind # "legacy" /\ r.status = "completed" /\ r.audit = "none"
\* registered nodes that are not parties; for want of one, nodes with statistics
Auditors(r)  ==
    LET among(k) == {p \in People \ (Paid(r) \cup {r.creator}) : known[p] \in k}
    IN  IF among({"registered"}) # {} THEN among({"registered"}) ELSE among({"seen"})

\* 60% of the pool by stake; the storage nodes' 40% stays when there are none
Incentive(s, pool) == [p \in People |-> IF Total(s) = 0 THEN 0
                                        ELSE (((pool * 6) \div 10) * s[p]) \div Total(s)]

PaidBack(a) ==
    LET due(t) == LET r == task[t] IN
            (IF Overdue(r) /\ r.creator = a THEN r.bounty ELSE 0)
          + (IF Decided(r) /\ a \in DOMAIN Unfrozen(r) THEN Unfrozen(r)[a] ELSE 0)
    IN  Total([t \in TaskIds |-> due(t)])

\* picked: the tasks the daily roll selects, with the auditor of each
Maintain(picked, auditorOf) ==
    LET after   == [t \in TaskIds |-> Resolved(task[t])]
        upheld  == {t \in TaskIds : Upheld(task[t])}
        cheats  == UNION {Paid(task[t]) : t \in upheld}
        paid    == [a \in Accounts |-> balance[a] + PaidBack(a)]
        reward  == Incentive(Slashed(cheats), balance[Pool])
    IN
    /\ \A t \in picked : Auditable(after[t]) /\ auditorOf[t] \in Auditors(after[t])
    /\ task' = [t \in TaskIds |-> IF t \in picked
                    THEN [after[t] EXCEPT !.audit = "pending", !.auditor = auditorOf[t]]
                    ELSE after[t]]
    /\ stake' = Slashed(cheats)
    /\ balance' = Credit(Credit(CreditAll(paid, reward), Pool, -Total(reward)),
                         Fund, Forfeit(cheats))
    /\ rep' = [p \in People |-> rep[p] - 110 * Cardinality({t \in upheld : p \in Paid(task[t])})]
    /\ UNCHANGED <<unbonding, known>>

Less(n) == IF n > 0 THEN n - 1 ELSE 0
Tick ==
    /\ task' = [t \in TaskIds |-> [task[t] EXCEPT !.left = Less(@), !.window = Less(@)]]
    /\ unbonding' = [p \in People |-> [unbonding[p] EXCEPT !.left = Less(@)]]
    /\ UNCHANGED <<balance, stake, rep, known>>

PublisherStep == \E p \in Publishers, t \in TaskIds :
    \/ \E kind \in Kinds, b \in Bounties : Publish(p, t, kind, b)
    \/ p = task[t].creator /\ (Dispute(t) \/ \E ws \in SUBSET People : Award(t, ws))
WorkerStep == \E p \in People, t \in TaskIds :
    \/ Accept(p, t) \/ Bid(p, t) \/ SubmitLate(p, t)
    \/ \E h \in Hashes : Submit(p, t, h) \/ Arbitrate(p, t, h)
    \/ \E choice \in {"uphold", "dismiss"} : Vote(p, t, choice)
    \/ task[t].auditor = p /\ (AuditPass(t) \/ AuditFail(t))
NodeStep ==
    \/ \E p \in People : Register(p) \/ Claim(p)
    \/ \E p \in Stakers, amt \in StakeAmounts : Stake(p, amt) \/ Unstake(p, amt)
MaintainStep == \E picked \in SUBSET TaskIds :
    \E auditorOf \in [picked -> People] : Maintain(picked, auditorOf)

Next == PublisherStep \/ WorkerStep \/ NodeStep \/ Tick \/ MaintainStep
Spec == Init /\ [][Next]_vars

\* time passes, and the daily maintenance comes when it has something to expire or to resolve
FairSpec ==
    Spec /\ WF_vars(Tick) /\ WF_task(task' = [t \in TaskIds |-> Resolved(task[t])])

-----------------------------------------------------------------------------
(* Properties *)

\* The variables keep their types; counters of shares and votes name people.
TypeOK ==
    /\ balance \in [Accounts -> Int] /\ stake \in [People -> Nat] /\ rep \in [People -> Int]
    /\ unbonding \in [People -> [amount : Nat, left : 0..Unbond]]
    /\ known \in [People -> {"new", "seen", "registered"}]
    /\ \A t \in TaskIds : LET r == task[t] IN
        /\ r.status \in Statuses /\ r.bounty \in Nat
        /\ r.left \in 0..Expires /\ r.window \in 0..Window
        /\ r.assigned \subseteq People /\ r.accepted \subseteq People \ {r.creator}
        /\ DOMAIN r.results \subseteq r.accepted /\ Paid(r) \subseteq DOMAIN r.results
        /\ DOMAIN r.votes \cap Paid(r) = {}
        /\ r.audit \in {"none", "pending", "passed", "failed"}

Held(r)   == IF r.status \in Live /\ r.refunds = 0 THEN r.bounty ELSE 0
Frozen(r) == IF r.status = "disputed" THEN Total(r.clawed) ELSE 0
Unowed(r) == IF r.refunds > 1 THEN (r.refunds - 1) * r.bounty ELSE 0

\* No operation creates or loses NOVA: balances, stakes, unbonding stakes, bounties in
\* escrow and frozen shares add up to what there was, but for bounties that were
\* refunded a second time (see RefundedOnce) and the rounding of a settlement's shares.
\* Fees, shares, slashes, claw-backs and their return, audits and the incentive epoch
\* all have to match (compute.py 480-862).
Settlements == Cardinality({t \in TaskIds : Paid(task[t]) # {}})
NovaAddsUp ==
    FundGenesis + Total(Wealth) + Total(InitStake)
      - (Total(balance) + Total(stake) + Total([p \in People |-> unbonding[p].amount])
         + Total([t \in TaskIds |-> Held(task[t]) + Frozen(task[t]) - Unowed(task[t])]))
      \in 0..Settlements

\* A bounty goes to the workers or back to the publisher, never both, whatever the order
\* of acceptance, expiry, submission, arbitration and maintenance (compute.py 480, 593).
PaidOrRefunded == \A t \in TaskIds : Paid(task[t]) # {} => task[t].refunds = 0

\* Nobody is paid for a result of its own word alone: the payees of a task all gave one
\* hash, and there are two of them or the arbiter gave it too (compute.py 449, 562).
PaidIsConfirmed == \A t \in TaskIds : LET r == task[t] IN
    Paid(r) # {} =>
        /\ \A v, w \in Paid(r) : r.results[v] = r.results[w]
        /\ Cardinality(Paid(r)) >= 2 \/ \A w \in Paid(r) : r.verdict = r.results[w]

\* What is paid is paid instead of a refund and for a confirmed result.
PaymentsAreSound == TypeOK /\ PaidOrRefunded /\ PaidIsConfirmed

\* Every bounty leaves escrow: it is paid or refunded, by the deadline at the latest.
BountyLeavesEscrow == \A t \in TaskIds : [](task[t].status \in Live => <>(task[t].status \notin Live))

-----------------------------------------------------------------------------
(* What the documents say and the code does not do *)

\* The bounty of an unfinished task is refunded once (docs/COMPUTE_NETWORK.md 67).
RefundedOnce == \A t \in TaskIds : task[t].refunds <= 1

\* The arbiter is neither the publisher nor an executing node (COMPUTE_NETWORK.md 90).
ArbiterIsThirdParty == \A t \in TaskIds : task[t].arbiter \notin task[t].assigned

\* Cheating sets the reputation to zero (COMPUTE_NETWORK.md 109, compute.py 24).
CheatZeroes == [][\A p \in People : rep'[p] <= rep[p] - 100 => Score(p)' = 0]_vars

\* Below 40 points a node only gets data_clean tasks (COMPUTE_NETWORK.md 126).
DemotedTakeLightWork ==
    [][\A t \in TaskIds \ LightTasks : \A p \in task'[t].assigned \ task[t].assigned :
        task[t].kind # "legacy" => Score(p) >= 40]_vars

\* A node works on a task with stake that a verdict can take (COMPUTE_NETWORK.md 108).
StakeBehindWork == \A t \in TaskIds :
    task[t].status \in {"assigned", "submitted", "arbitrating"} =>
        \A w \in task[t].assigned : stake[w] >= MinStake

=============================================================================
