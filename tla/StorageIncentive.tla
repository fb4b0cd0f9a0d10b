-------------------------- MODULE StorageIncentive --------------------------
(***************************************************************************)
(* The storage incentive (core/storage_incentive.py): stakers become       *)
(* storage nodes, claim files, prove every day that they hold them, are    *)
(* rewarded or slashed at the settlement of the day before, and hand their *)
(* files on before they leave; the monitor looks for silent nodes and pays *)
(* others to take endangered files over.                                   *)
(*                                                                         *)
(* Time.  Days are relative: age -1 is tomorrow, 0 today, 1 yesterday, 2   *)
(* anything older or never.  A proof names its day: the model takes        *)
(* tomorrow, today and yesterday.  Gas and the event log are left out;     *)
(* notified stands for the file_red event.  Hot and endangered files are   *)
(* served in one fixed order.  A content id that a node claims again after *)
(* its file was re-uploaded is listed once in assigned.                    *)
(***************************************************************************)
EXTENDS Integers, FiniteSets, SequencesExt

CONSTANTS
    Nodes, Cids, None,
    Size,                   \* Size[cid]: GB of the file
    BaseQuota, GbPerStake,  \* quota of every node; GB that one staked NOVA adds
    StakeAmounts, Capacities,   \* what is staked; what is declared to the storage market
    Wealth,             \* balance of each node at the start
    FundGenesis,
    SlashAfter, SlashPct, RewardPerGb, ReassignFee, HotFee,
    ChallengeFiles, MaxReplicas, MinHealthy, HotReplicas, ExitDays,
    MaxStake, MaxTotalStake,
    Uploads,       \* bound: content ids that are registered afresh
    MaxIncidents   \* bound on silences, bad and late proofs, notices, accesses, re-uploads,
                   \* quota upgrades and requests for upkeep, all together

ASSUME StorageAssumption ==
    /\ IsFiniteSet(Nodes) /\ IsFiniteSet(Cids) /\ None \notin Cids
    /\ Size \in [Cids -> Nat \ {0}] /\ BaseQuota \in Nat /\ GbPerStake \in Nat
    /\ StakeAmounts \subseteq Nat \ {0} /\ Capacities \subseteq Nat \ {0}
    /\ Wealth \in [Nodes -> Nat] /\ FundGenesis \in Nat
    /\ SlashAfter \in Nat \ {0} /\ SlashPct \in 0..100
    /\ RewardPerGb \in Nat /\ ReassignFee \in Nat /\ HotFee \in Nat
    /\ ChallengeFiles \in Nat \ {0} /\ MaxReplicas \in Nat /\ MinHealthy \in Nat \ {0}
    /\ HotReplicas \in Nat /\ ExitDays \in Nat
    /\ MaxStake \in Nat /\ MaxTotalStake \in Nat
    /\ Uploads \subseteq Cids /\ MaxIncidents \in Nat

VARIABLES
    order,      \* the keys of inc_nodes, in order of registration
    node,       \* the record of each node, Absent when not registered
    file,       \* inc_files by content id
    balance, stake, unbonding, fund,
    settled,    \* "yes" once yesterday is in inc_settled_epochs
    triggered,  \* inc_maintain_keys of today
    hot,        \* hot[d]: files accessed d days ago
    proven, rewards,   \* history: days of accepted proofs, rewards for yesterday
    incidents

money   == <<balance, stake, unbonding, fund>>
today   == <<settled, triggered>>
history == <<proven, rewards>>
vars    == <<order, node, file, money, today, hot, history, incidents>>

Absent == [quota |-> 0, assigned |-> {}, gb |-> 0, beat |-> "fresh", online |-> "no",
           fails |-> 0, proofAge |-> 2, failAge |-> 2, proofGb |-> 0,
           leaving |-> "no", wait |-> 0]
NoFile == [status |-> "none", replicas |-> {}, prev |-> None, notified |-> "no"]

Init ==
    /\ order = <<>> /\ node = [n \in Nodes |-> Absent] /\ file = [c \in Cids |-> NoFile]
    /\ balance = Wealth /\ stake = [n \in Nodes |-> 0]
    /\ unbonding = [n \in Nodes |-> 0] /\ fund = FundGenesis
    /\ settled = "no" /\ triggered = {} /\ hot = [d \in 0..2 |-> {}]
    /\ proven = [n \in Nodes |-> {}] /\ rewards = [n \in Nodes |-> 0]
    /\ incidents = 0

-----------------------------------------------------------------------------
(* The state that the chained steps of a maintenance pass on.              *)
Now == [order |-> order, node |-> node, file |-> file, balance |-> balance,
        stake |-> stake, unbonding |-> unbonding, fund |-> fund,
        rewards |-> rewards]
Become(s) ==
    /\ order' = s.order /\ node' = s.node /\ file' = s.file
    /\ balance' = s.balance /\ stake' = s.stake /\ unbonding' = s.unbonding
    /\ fund' = s.fund /\ rewards' = s.rewards

Smaller(a, b) == IF a < b THEN a ELSE b
Larger(a, b)  == IF a > b THEN a ELSE b
Registered(s) == ToSet(s.order)
Stored(s)     == {c \in Cids : s.file[c].status = "stored"}

Quota(s, n) == s.node[n].quota + s.stake[n] * GbPerStake
BugLeaversAccept(s, n, c) == n \in Registered(s) /\ s.node[n].gb + Size[c] <= Quota(s, n)
CanAssign(s, n, c) ==
    /\ n \in Registered(s) /\ s.node[n].leaving = "no"
    /\ s.node[n].gb + Size[c] <= Quota(s, n)

Up(s, n) == n \in Registered(s) /\ s.node[n].online = "yes"
IsRed(s, c) == \A n \in s.file[c].replicas : ~Up(s, n) \/ s.node[n].leaving = "yes"

Notify(s, c) == [s EXCEPT !.file[c].notified = IF IsRed(s, c) THEN "yes" ELSE "no"]

Claimable(s, n, c) ==
    /\ n \notin s.file[c].replicas /\ Cardinality(s.file[c].replicas) < MaxReplicas
    /\ CanAssign(s, n, c)
Claimed(s, n, c) ==
    IF ~Claimable(s, n, c) THEN s
    ELSE Notify([s EXCEPT !.file[c].replicas = @ \cup {n},
                          !.node[n].assigned = @ \cup {c},
                          !.node[n].gb = @ + Size[c]], c)

(* Up to k nodes that are up are paid to hold file c, as far as the fund
   reaches; each is paid before claim is called, whatever claim says. *)
Candidates(s, c) ==
    {n \in Registered(s) : Up(s, n) /\ n \notin s.file[c].replicas /\ CanAssign(s, n, c)}
\* the first k members of S on the list seq
FirstOf(S, k, seq) ==
    {seq[i] : i \in {j \in DOMAIN seq :
        seq[j] \in S /\ Cardinality({l \in 1..j : seq[l] \in S}) <= k}}
PaidClaim(s, n, c, fee) ==
    IF s.fund < fee THEN s
    ELSE Claimed([s EXCEPT !.fund = @ - fee, !.balance[n] = @ + fee], n, c)
Replenished(s, c, goal, fee) ==
    LET k     == goal - Cardinality({n \in s.file[c].replicas : Up(s, n)})
        cands == FirstOf(Candidates(s, c), k, s.order)
    IN  FoldLeft(LAMBDA r, n : IF n \in cands THEN PaidClaim(r, n, c, fee) ELSE r, s, s.order)

ForEach(op(_, _), s, S) == FoldLeft(op, s, SetToSeq(S))

-----------------------------------------------------------------------------
(* settle_epoch(yesterday) *)
Slashed(s, n) ==
    LET amount == (s.stake[n] * SlashPct) \div 100
    IN  [s EXCEPT !.stake[n] = @ - amount, !.fund = @ + amount, !.node[n].fails = 0]

ProvedYesterday(r) == r.proofAge = 1

Rewarded(s, n) ==
    LET reward == s.node[n].proofGb * RewardPerGb
        done   == [s EXCEPT !.node[n].fails = 0, !.node[n].failAge = 2]
    IN  IF reward = 0 \/ s.fund < reward THEN done
        ELSE [done EXCEPT !.fund = @ - reward, !.balance[n] = @ + reward, !.rewards[n] = @ + 1]

Blamed(s, n, d) ==
    IF s.node[n].failAge = d THEN s
    ELSE [s EXCEPT !.node[n].fails = Smaller(@ + 1, SlashAfter)]

SettledNode(s, n) ==
    LET blame == [Blamed(s, n, 1) EXCEPT !.node[n].failAge = 1]
    IN  CASE s.node[n].leaving = "yes" \/ s.node[n].gb = 0 -> s
          [] s.node[n].leaving = "no" /\ s.node[n].gb > 0 /\ ProvedYesterday(s.node[n]) ->
                Rewarded(s, n)
          [] OTHER -> IF blame.node[n].fails >= SlashAfter THEN Slashed(blame, n) ELSE blame

BugSettlesAgain(s) == FoldLeft(SettledNode, s, s.order)
SettleEpoch(s) == IF settled = "yes" THEN s ELSE FoldLeft(SettledNode, s, s.order)

(* finalize_exits *)
BugReplicaStays(s, n, c) == Replenished(s, c, MinHealthy, ReassignFee)
HandedOn(s, n, c) ==
    Replenished([s EXCEPT !.file[c].replicas = @ \ {n}], c, MinHealthy, ReassignFee)

MayLeave(r) == r.leaving = "yes" /\ r.wait = 0

Deleted(s, n) ==
    [s EXCEPT !.unbonding[n] = @ + s.stake[n], !.stake[n] = 0, !.node[n] = Absent,
              !.order = RemoveFirst(@, n)]
Finalized(s, n) ==
    IF ~MayLeave(s.node[n]) THEN s
    ELSE Deleted(ForEach(LAMBDA r, c : Notify(HandedOn(r, n, c), c), s,
                         s.node[n].assigned \cap Stored(s)), n)
FinalizeExits(s) == FoldLeft(Finalized, s, s.order)

(* scan_offline: the files are looked at only if a node has just gone silent *)
Silent(s) == {n \in Registered(s) : s.node[n].leaving = "no" /\ s.node[n].beat = "stale"}
ScanOffline(s) ==
    LET gone == {n \in Silent(s) : s.node[n].online = "yes"}
        off  == [s EXCEPT !.node = [n \in Nodes |->
                    IF n \in Silent(s) \/ s.node[n].leaving = "yes"
                    THEN [s.node[n] EXCEPT !.online = "no"] ELSE s.node[n]]]
    IN  IF gone = {} THEN off ELSE ForEach(Notify, off, Stored(s))

(* protect_hot_files and reassign_endangered *)
ProtectHot(s, cids) ==
    ForEach(LAMBDA r, c : Replenished(r, c, HotReplicas, HotFee), s, cids \cap Stored(s))

Endangered(s) == {c \in Stored(s) : Cardinality({n \in s.file[c].replicas : Up(s, n)}) < MinHealthy}
BugSilentReassign(s) ==
    ForEach(LAMBDA r, c : Replenished(r, c, MinHealthy, ReassignFee), s, Endangered(s))
ReassignEndangered(s) ==
    ForEach(LAMBDA r, c : Replenished(Notify(r, c), c, MinHealthy, ReassignFee), s, Endangered(s))

-----------------------------------------------------------------------------
Incident == incidents < MaxIncidents /\ incidents' = incidents + 1

(* auto_register, reached by nova:stake and nova:storage:register *)
AutoRegister(n, quota) ==
    IF n \in ToSet(order) THEN UNCHANGED <<order, node>>
    ELSE /\ order' = Append(order, n)
         /\ node' = [node EXCEPT ![n] = [Absent EXCEPT !.quota = quota, !.online = "yes"]]

WithinLimits(n, amt) ==
    /\ balance[n] >= amt
    /\ stake[n] + amt <= MaxStake /\ SumFunction(stake) + amt <= MaxTotalStake

Stake(n, amt) ==
    /\ WithinLimits(n, amt)
    /\ balance' = [balance EXCEPT ![n] = @ - amt] /\ stake' = [stake EXCEPT ![n] = @ + amt]
    /\ AutoRegister(n, BaseQuota)
    /\ UNCHANGED <<file, unbonding, fund, today, hot, history, incidents>>

RegisterProvider(n, capacity) ==
    /\ n \notin ToSet(order) /\ AutoRegister(n, Larger(BaseQuota, capacity))
    /\ UNCHANGED <<file, money, today, hot, history, incidents>>

(* upgrade_quota adds to the quota what node_quota already counts for the stake *)
UpgradeQuota(n, amt) ==
    /\ n \in ToSet(order) /\ WithinLimits(n, amt)
    /\ balance' = [balance EXCEPT ![n] = @ - amt] /\ stake' = [stake EXCEPT ![n] = @ + amt]
    /\ node' = [node EXCEPT ![n].quota = @ + amt * GbPerStake]
    /\ Incident
    /\ UNCHANGED <<order, file, unbonding, fund, today, hot, history>>

FileRegister(c) ==
    /\ file[c].status = "none"
    /\ file' = [file EXCEPT ![c] = [NoFile EXCEPT !.status = "stored"]]
    /\ UNCHANGED <<order, node, money, today, hot, history, incidents>>

(* The record moves to the new content id with its replicas. *)
FileReupload(old, new) ==
    /\ file[old].status = "stored" /\ file[new].status = "none"
    /\ file' = [file EXCEPT ![new] = [file[old] EXCEPT !.prev = old, !.notified = "no"],
                            ![old] = NoFile]
    /\ Incident
    /\ UNCHANGED <<order, node, money, today, hot, history>>

Claim(n, c) ==
    /\ file[c].status = "stored" /\ Claimable(Now, n, c)
    /\ Become(Claimed(Now, n, c))
    /\ UNCHANGED <<today, hot, proven, incidents>>

(* verify_proof for today, late for yesterday or ahead for tomorrow; match says
   whether the node's fragments fit.  The challenge names files the node has listed. *)
Prove(n, d, match) ==
    LET size == Smaller(ChallengeFiles, Cardinality(node[n].assigned)) IN
    /\ n \in ToSet(order) /\ node[n].assigned # {} /\ node[n].proofAge # d
    /\ \E chosen \in {S \in SUBSET node[n].assigned : Cardinality(S) = size} :
         IF match /\ chosen \subseteq Stored(Now)
         THEN /\ node' = [node EXCEPT ![n] = [@ EXCEPT !.proofAge = d, !.beat = "fresh",
                              !.online = "yes", !.failAge = 2, !.proofGb = node[n].gb]]
              /\ proven' = [proven EXCEPT ![n] = @ \cup {d}]
         ELSE /\ node' = [node EXCEPT ![n] = [Blamed(Now, n, d).node[n] EXCEPT !.failAge = d]]
              /\ UNCHANGED proven
    /\ IF match /\ d = 0 THEN UNCHANGED incidents ELSE Incident
    /\ UNCHANGED <<order, file, money, today, hot, rewards>>

Heartbeat(n) ==
    /\ n \in ToSet(order)
    /\ node' = [node EXCEPT ![n].beat = "fresh", ![n].online = "yes"]
    /\ UNCHANGED <<order, file, money, today, hot, history, incidents>>

ExitNotice(n) ==
    /\ n \in ToSet(order) /\ node[n].leaving = "no"
    /\ node' = [node EXCEPT ![n].leaving = "yes", ![n].wait = ExitDays, ![n].online = "no"]
    /\ Incident
    /\ UNCHANGED <<order, file, money, today, hot, history>>

RecordAccess(c) ==
    /\ file[c].status = "stored"
    /\ hot' = [hot EXCEPT ![0] = @ \cup {c}]
    /\ Incident
    /\ UNCHANGED <<order, node, file, money, today, history>>

(* settle, protect and reassign asked for by a node, once a day each *)
Upkeep(n, op) ==
    /\ n \in ToSet(order) /\ <<n, op>> \notin triggered
    /\ triggered' = triggered \cup {<<n, op>>}
    /\ \/ op = "settle" /\ Become(SettleEpoch(Now)) /\ settled' = "yes"
       \/ op = "protect" /\ Become(ProtectHot(Now, hot[1])) /\ UNCHANGED settled
       \/ op = "reassign" /\ Become(ReassignEndangered(Now)) /\ UNCHANGED settled
    /\ Incident
    /\ UNCHANGED <<hot, proven>>

(* _run_daily_maintenance: once a day, and again after a restart *)
Maintenance ==
    /\ settled' = "yes"
    /\ Become(ReassignEndangered(ProtectHot(ScanOffline(FinalizeExits(SettleEpoch(Now))), hot[2])))
    /\ UNCHANGED <<triggered, hot, proven, incidents>>

(* _storage_monitor_loop, every five minutes *)
Monitor ==
    /\ Become(ReassignEndangered(ScanOffline(Now)))
    /\ UNCHANGED <<today, hot, proven, incidents>>

-----------------------------------------------------------------------------
(* Half an hour without a heartbeat of n; a UTC day ends. *)
FallSilent(n) ==
    /\ n \in ToSet(order) /\ node[n].beat = "fresh"
    /\ node' = [node EXCEPT ![n].beat = "stale"]
    /\ Incident
    /\ UNCHANGED <<order, file, money, today, hot, history>>

Older(age) == Smaller(age + 1, 2)
NextDay ==
    /\ node' = [n \in Nodes |-> [node[n] EXCEPT !.proofAge = Older(@), !.failAge = Older(@),
                   !.proofGb = IF node[n].proofAge <= 0 THEN @ ELSE 0,
                   !.wait = Larger(0, @ - 1)]]
    /\ settled' = "no" /\ triggered' = {}
    /\ hot' = [d \in 0..2 |-> IF d = 0 THEN {} ELSE hot[d - 1]]
    /\ proven' = [n \in Nodes |-> {d + 1 : d \in proven[n] \ {1}}]
    /\ rewards' = [n \in Nodes |-> 0]
    /\ UNCHANGED <<order, file, money, incidents>>

NodeStep == \E n \in Nodes :
    \/ \E amt \in StakeAmounts : Stake(n, amt) \/ UpgradeQuota(n, amt)
    \/ \E g \in Capacities : RegisterProvider(n, g)
    \/ \E c \in Cids : Claim(n, c)
    \/ \E d \in -1..1, match \in BOOLEAN : Prove(n, d, match)
    \/ Heartbeat(n) \/ ExitNotice(n) \/ FallSilent(n)
UpkeepStep == \E n \in Nodes, op \in {"settle", "protect", "reassign"} : Upkeep(n, op)
FileStep ==
    \/ \E c \in Uploads : FileRegister(c)
    \/ \E c, new \in Cids : FileReupload(c, new)
    \/ \E c \in Cids : RecordAccess(c)

Next == NodeStep \/ FileStep \/ UpkeepStep \/ Maintenance \/ Monitor \/ NextDay
Spec == Init /\ [][Next]_vars

-----------------------------------------------------------------------------
(* Properties *)

\* The variables keep their types, and the keys of inc_nodes have records.
TypeOK ==
    /\ order \in Seq(Nodes) /\ Cardinality(ToSet(order)) = Len(order)
    /\ \A n \in Nodes : n \notin ToSet(order) => node[n] = Absent
    /\ node \in [Nodes -> [quota : Nat, assigned : SUBSET Cids, gb : Nat,
          beat : {"fresh", "stale"}, online : {"yes", "no"}, fails : 0..SlashAfter,
          proofAge : -1..2, failAge : -1..2, proofGb : Nat, leaving : {"yes", "no"},
          wait : 0..ExitDays]]
    /\ file \in [Cids -> [status : {"none", "stored"}, replicas : SUBSET Nodes,
          prev : Cids \cup {None}, notified : {"yes", "no"}]]
    /\ balance \in [Nodes -> Nat] /\ stake \in [Nodes -> Nat] /\ unbonding \in [Nodes -> Nat]
    /\ fund \in Nat

\* Rewards, takeover fees, slashes and released stakes only move NOVA between the nodes
\* and the ecosystem fund (storage_incentive.py 380, 404, 451, 501, 590).
NovaAddsUp ==
    SumFunction(balance) + SumFunction(stake) + SumFunction(unbonding) + fund
      = SumFunction(Wealth) + FundGenesis

\* Whoever is listed as holding a file is a registered node that has it among its assigned
\* files, so that it is challenged for it, through claims, takeovers and exits in any
\* order; a re-uploaded file is excepted, see ReuploadKeepsReplicas (225, 568).
ReplicasAreHeld ==
    \A c \in Cids : file[c].prev = None =>
        \A n \in file[c].replicas : n \in ToSet(order) /\ c \in node[n].assigned

\* The records are typed, and a replica is nobody's promise but its holder's.
RecordsAreSound == TypeOK /\ ReplicasAreHeld

\* A day is rewarded once, to a node with an accepted proof for that very day, whatever
\* the order of proofs, upkeep requests and maintenance around midnight (356).
RewardIsEarned == \A n \in Nodes : rewards[n] <= 1 /\ (rewards[n] = 1 => 1 \in proven[n])

\* NOVA only moves, and as a reward only to those who have earned it.
MoneyIsEarned == NovaAddsUp /\ RewardIsEarned

\* A node that has given notice takes no more files, though heartbeats and proofs bring it
\* back online (138, 558).
LeaversTakeNothing ==
    [][\A n \in Nodes : node[n].leaving = "yes" => node'[n].assigned \subseteq node[n].assigned]_vars

\* Whenever the monitor has been round, every owner whose file has no node online has been
\* told, also when the last node gave notice instead of falling silent (209, 325, 484).
RedIsTold ==
    [][Monitor => \A c \in Cids :
         file'[c].status = "stored" /\ IsRed(Now, c)' => file'[c].notified = "yes"]_vars

-----------------------------------------------------------------------------
(* What the documents say and the code does not do *)

\* docs/STORAGE_INCENTIVE.md 3: settlement pays the nodes with a proof of the day and
\* counts a failure for those without.
ProvenNotBlamed ==
    [][\A n \in Nodes : settled' # settled /\ node'[n].failAge = 1 /\ node[n].failAge # 1
         => 1 \notin proven[n]]_vars

\* docs/STORAGE_INCENTIVE.md 6: the fund pays healthy nodes to take an endangered file over.
PaidForTaking ==
    [][\A n \in Nodes : balance'[n] > balance[n] /\ rewards' = rewards =>
        \E c \in Cids : n \in file'[c].replicas \ file[c].replicas]_vars

\* docs/STORAGE_INCENTIVE.md 6: the files of a leaver are migrated, then its stake is
\* released.
MigratedFirst ==
    [][\A n \in Nodes : n \in ToSet(order) /\ n \notin ToSet(order') =>
        \A c \in node[n].assigned : n \in file[c].replicas => file'[c].replicas # {}]_vars

\* docs/STORAGE_INCENTIVE.md 1: quota is the base quota plus 0.1 GB per staked NOVA.
QuotaFollowsStake ==
    Capacities = {} => \A n \in ToSet(order) : Quota(Now, n) = BaseQuota + stake[n] * GbPerStake

\* storage_incentive.py 174: a re-upload keeps the nodes that hold the file.
ReuploadKeepsReplicas ==
    \A c \in Cids : \A n \in file[c].replicas : n \in ToSet(order) /\ c \in node[n].assigned
=============================================================================
