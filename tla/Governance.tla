----------------------------- MODULE Governance -----------------------------
(***************************************************************************)
(* On-chain governance (core/governance.py) with the payouts and freezes   *)
(* it triggers in the reserve engine (core/reserve.py 279-325): proposals, *)
(* endorsements, delegated voting power, votes, the time lock, bridge      *)
(* nodes' confirmation of fund spending, execution.  An operation is       *)
(* validated on the state as it is; apply_op then first runs tick(), which *)
(* moves every proposal whose time has come, and only then the operation.  *)
(*                                                                         *)
(* Time.  Deadlines are countdowns that Hour lowers; gas is left out.  A   *)
(* state file written before a restart is complete (NodeSync models what   *)
(* one may miss); economy parameters are class attributes and not in it.   *)
(***************************************************************************)
EXTENDS Integers, FiniteSets, Functions

CONSTANTS
    People, None, BridgeNodes,
    Wealth, Staked,        \* initial balance; staked and locked amounts
    FundGenesis, PayoutGenesis,
    MinPower, MinEndorsements, Confirmations,
    Discussion, Voting, FreezeVoting, TimeLock, Freeze,   \* lengths
    Types,                 \* proposal types that are made
    Targets,               \* what a freeze names: operations or contracts
    Amounts,               \* spending, losses and transfers
    MaxProposals           \* bound on proposals

Kinds == {"param", "fund", "upgrade", "arb", "freeze", "payout"}
Ids   == 1..MaxProposals

ASSUME GovernanceAssumption ==
    /\ IsFiniteSet(People) /\ None \notin People /\ BridgeNodes \subseteq People
    /\ Wealth \in [People -> Nat] /\ Staked \in [People -> Nat]
    /\ FundGenesis \in Nat /\ PayoutGenesis \in Nat
    /\ MinPower \in Nat /\ MinEndorsements \in Nat /\ Confirmations \in Nat
    /\ Discussion \in Nat /\ Voting \in Nat /\ FreezeVoting \in Nat
    /\ TimeLock \in Nat /\ Freeze \in Nat
    /\ Types \subseteq Kinds /\ Amounts \subseteq Nat \ {0} /\ MaxProposals \in Nat

VARIABLES
    prop,          \* gov_proposals by number, with endorsements; status "none": not made
    delegate,      \* gov_delegations
    balance,
    fund,          \* ECOSYSTEM_FUND
    payoutFund, payout,   \* reserve.payout_fund and payouts by proposal
    frozen,        \* hours freeze_targets still last
    economy        \* the proposal whose parameter value is in force, 0 for the default

money == <<balance, fund, payoutFund, payout>>
vars  == <<prop, delegate, money, frozen, economy>>

NoProposal == [type |-> "arb", proposer |-> None, status |-> "none", left |-> 0, ok |-> "no",
               endorsers |-> {}, for |-> 0, against |-> 0, voters |-> {}, multisig |-> {},
               who |-> None, amount |-> 0, target |-> None,
               age |-> 0]      \* hours since it was made (history)
Final    == {"rejected", "cancelled", "executed"}
Statuses == {"none", "discussion", "voting", "passed"} \cup Final

Init ==
    /\ prop = [i \in Ids |-> NoProposal]
    /\ delegate = [p \in People |-> None]
    /\ balance = Wealth /\ fund = FundGenesis
    /\ payoutFund = PayoutGenesis
    /\ payout = [i \in Ids |-> [status |-> "none", victim |-> None, amount |-> 0]]
    /\ frozen = [t \in Targets |-> 0]
    /\ economy = 0

-----------------------------------------------------------------------------
(* voting power *)
Behind(p) ==   \* p and everyone whose chain of delegations ends up at p
    LET reach[n \in 0..Cardinality(People)] ==
            IF n = 0 THEN {p}
            ELSE reach[n-1] \cup {q \in People : delegate[q] \in reach[n-1]}
    IN  reach[Cardinality(People)]
Own(p) == balance[p] + Staked[p]

Power(p) == IF delegate[p] # None THEN 0
            ELSE SumFunctionOnSet([q \in People |-> Own(q)], Behind(p))

Circulating == LET s == SumFunction(balance) IN IF s = 0 THEN 1 ELSE s

-----------------------------------------------------------------------------
(* tick: what happens to proposal r when its countdown has ended *)
Supported(r) == r.ok = "yes" \/ Cardinality(r.endorsers) >= MinEndorsements
VoteLength(r) == IF r.type = "freeze" THEN FreezeVoting ELSE Voting
Wins(r) ==
    /\ 10 * (r.for + r.against) >= Circulating
    /\ IF r.type = "upgrade" THEN 3 * r.for >= 2 * (r.for + r.against)
                             ELSE r.for > r.against
BugNoTimeLock(r) == 0
LockLength(r) == IF r.type = "freeze" THEN 0 ELSE TimeLock

BugWaitsForSupport(r) == r.left = 0 /\ (r.status = "discussion" => Supported(r))
Ended(r) == r.left = 0

Moved(r) ==
    CASE r.status = "discussion" /\ Ended(r) ->
            IF Supported(r) THEN [r EXCEPT !.status = "voting", !.left = VoteLength(r)]
                            ELSE [r EXCEPT !.status = "rejected"]
      [] r.status = "voting" /\ Ended(r) ->
            IF Wins(r) THEN [r EXCEPT !.status = "passed", !.left = LockLength(r)]
                       ELSE [r EXCEPT !.status = "rejected"]
      [] OTHER -> r
Ticked == [i \in Ids |-> Moved(prop[i])]

Open(op) == op \in Targets => frozen[op] = 0     \* _frozen_tx

-----------------------------------------------------------------------------
(* proposals *)
\* who receives how much, or what is frozen
Subject(type, who, amt, target) ==
    CASE type \in {"fund", "payout"} -> who \in People /\ amt \in Amounts /\ target = None
      [] type = "freeze"             -> who = None /\ amt = 0 /\ target \in Targets
      [] OTHER                       -> who = None /\ amt = 0 /\ target = None

Propose(p, i, type, who, amt, target) ==
    /\ Open("nova:gov:propose") /\ Subject(type, who, amt, target)
    /\ prop[i].status = "none" /\ (i > 1 => prop[i-1].status # "none")
    /\ prop' = [Ticked EXCEPT ![i] =
           [NoProposal EXCEPT !.type = type, !.proposer = p, !.status = "discussion",
                !.left = Discussion, !.ok = IF Power(p) >= MinPower THEN "yes" ELSE "no",
                !.who = who, !.amount = amt, !.target = target]]
    /\ UNCHANGED <<delegate, money, frozen, economy>>

Endorse(p, i) ==
    /\ Open("nova:gov:endorse")
    /\ prop[i].status = "discussion" /\ p # prop[i].proposer /\ p \notin prop[i].endorsers
    /\ prop' = [Ticked EXCEPT ![i].endorsers = @ \cup {p}]
    /\ UNCHANGED <<delegate, money, frozen, economy>>

MayCancel(i) == prop[i].status = "discussion"
Cancel(i) ==
    /\ Open("nova:gov:cancel") /\ MayCancel(i)
    /\ prop' = [Ticked EXCEPT ![i].status = "cancelled"]
    /\ UNCHANGED <<delegate, money, frozen, economy>>

\* a vote validated before the end counts even if the tick has just resolved the proposal
Vote(p, i, support) ==
    /\ Open("nova:gov:vote")
    /\ prop[i].status = "voting" /\ p \notin prop[i].voters
    /\ prop' = IF Power(p) <= 0 THEN Ticked
               ELSE [Ticked EXCEPT ![i].voters = @ \cup {p},
                        ![i].for = IF support THEN @ + Power(p) ELSE @,
                        ![i].against = IF support THEN @ ELSE @ + Power(p)]
    /\ UNCHANGED <<delegate, money, frozen, economy>>

Delegate(p, q) ==
    /\ Open("nova:gov:delegate") /\ p # q
    /\ delegate' = [delegate EXCEPT ![p] = q]
    /\ prop' = Ticked
    /\ UNCHANGED <<money, frozen, economy>>

Confirm(n, i) ==
    /\ Open("nova:gov:confirm") /\ n \in BridgeNodes
    /\ prop[i].type = "fund" /\ prop[i].status = "passed" /\ n \notin prop[i].multisig
    /\ prop' = [Ticked EXCEPT ![i].multisig = @ \cup {n}]
    /\ UNCHANGED <<delegate, money, frozen, economy>>

-----------------------------------------------------------------------------
(* execution *)
Due(r) == /\ r.status = "passed" /\ r.left = 0
          /\ r.type = "fund" => Cardinality(r.multisig) >= Confirmations

Smaller(a, b) == IF a < b THEN a ELSE b
Spend(r) ==
    LET pay == Smaller(r.amount, fund) IN
    /\ fund' = fund - pay /\ balance' = [balance EXCEPT ![r.who] = @ + pay]
    /\ UNCHANGED <<payoutFund, payout>>

\* 80% of the loss, or what the payout fund still has; nothing when it is empty
Compensate(i, r) ==
    LET amt == Smaller((8 * r.amount) \div 10, payoutFund) IN
    /\ payoutFund' = payoutFund - amt
    /\ payout' = IF amt = 0 THEN payout
                 ELSE [payout EXCEPT ![i] = [status |-> "pending", victim |-> r.who, amount |-> amt]]
    /\ UNCHANGED <<balance, fund>>

Execute(i) ==
    LET r == prop[i] IN
    /\ Open("nova:gov:execute") /\ Due(r)
    /\ prop' = [Ticked EXCEPT ![i].status = "executed"]
    /\ CASE r.type = "fund"   -> Spend(r)
         [] r.type = "payout" -> Compensate(i, r)
         [] OTHER             -> UNCHANGED money
    /\ frozen' = IF r.type = "freeze" THEN [frozen EXCEPT ![r.target] = Freeze] ELSE frozen
    /\ economy' = IF r.type = "param" THEN i ELSE economy
    /\ UNCHANGED delegate

BugStaysPending(po) == po
Signed(po) == [po EXCEPT !.status = "confirmed"]
AcceptPayout(i) ==
    /\ Open("nova:payout:accept") /\ payout[i].status = "pending"
    /\ payout' = [payout EXCEPT ![i] = Signed(@)]
    /\ balance' = [balance EXCEPT ![payout[i].victim] = @ + payout[i].amount]
    /\ prop' = Ticked
    /\ UNCHANGED <<delegate, fund, payoutFund, frozen, economy>>

-----------------------------------------------------------------------------
(* the rest of the node *)
Maintain == prop' = Ticked /\ UNCHANGED <<delegate, money, frozen, economy>>

Transfer(p, q, amt) ==
    /\ p # q /\ balance[p] >= amt
    /\ balance' = [balance EXCEPT ![p] = @ - amt, ![q] = @ + amt]
    /\ UNCHANGED <<prop, delegate, fund, payoutFund, payout, frozen, economy>>

Restart == economy' = 0 /\ UNCHANGED <<prop, delegate, money, frozen>>

Less(n) == IF n > 0 THEN n - 1 ELSE 0
Lifetime == Discussion + Voting + TimeLock     \* age is not counted beyond it
Hour ==
    /\ prop' = [i \in Ids |-> [prop[i] EXCEPT !.left = Less(@),
                   !.age = IF prop[i].status # "none" THEN Smaller(@ + 1, Lifetime) ELSE @]]
    /\ frozen' = [t \in Targets |-> Less(frozen[t])]
    /\ UNCHANGED <<delegate, money, economy>>

ProposalStep == \E p \in People, i \in Ids :
    \/ \E type \in Types, who \in People \cup {None},
          amt \in Amounts \cup {0}, t \in Targets \cup {None} : Propose(p, i, type, who, amt, t)
    \/ Endorse(p, i)
    \/ p = prop[i].proposer /\ Cancel(i)
VoteStep == \E p \in People :
    \/ \E i \in Ids, support \in BOOLEAN : Vote(p, i, support)
    \/ \E q \in People : Delegate(p, q)
ExecuteStep == \E i \in Ids : AcceptPayout(i) \/ Execute(i) \/ \E n \in People : Confirm(n, i)
TransferStep == \E p, q \in People, amt \in Amounts : Transfer(p, q, amt)

Next == ProposalStep \/ VoteStep \/ ExecuteStep \/ TransferStep \/ Maintain \/ Restart \/ Hour
Spec == Init /\ [][Next]_vars
FairSpec == Spec /\ WF_vars(Hour) /\ WF_vars(Maintain)

-----------------------------------------------------------------------------
(* Properties *)

\* The variables keep their types.
TypeOK ==
    /\ prop \in [Ids -> [type : Kinds, proposer : People \cup {None}, status : Statuses,
                         left : Nat, ok : {"yes", "no"}, endorsers : SUBSET People, for : Nat,
                         against : Nat, voters : SUBSET People, multisig : SUBSET People,
                         who : People \cup {None}, amount : Nat, target : Targets \cup {None},
                         age : Nat]]
    /\ delegate \in [People -> People \cup {None}]
    /\ balance \in [People -> Nat] /\ fund \in Nat /\ payoutFund \in Nat
    /\ payout \in [Ids -> [status : {"none", "pending", "confirmed"},
                           victim : People \cup {None}, amount : Nat]]
    /\ frozen \in [Targets -> Nat] /\ economy \in 0..MaxProposals

\* Nothing takes effect before its time: an executed proposal has been discussed, voted on
\* and locked for the full lengths, and fund spending has its confirmations, whatever the
\* order in which operations and maintenance run tick (governance.py 90, 126, 378).
EffectsAreEarned == \A i \in Ids : LET r == prop[i] IN
    r.status = "executed" =>
        /\ r.age >= IF r.type = "freeze" THEN Smaller(Discussion + FreezeVoting, Lifetime)
                    ELSE Lifetime
        /\ r.type = "fund" => Cardinality(r.multisig) >= Confirmations

\* At any moment no coin has more than one vote: the powers of all addresses together are
\* at most what they own, through chains and cycles of delegations (governance.py 58).
PowerIsShared ==
    SumFunction([p \in People |-> Power(p)]) <= SumFunction([p \in People |-> Own(p)])

\* What a proposal does it has earned, and no coin decides on it twice at a time.
ProposalsAreSound == TypeOK /\ EffectsAreEarned /\ PowerIsShared

\* Spending, payouts and their confirmation move NOVA and neither create nor lose it
\* (governance.py 435, reserve.py 289).
NovaAddsUp ==
    SumFunction(balance) + fund + payoutFund
        + SumFunction([i \in Ids |-> IF payout[i].status = "pending" THEN payout[i].amount ELSE 0])
      = SumFunction(Wealth) + FundGenesis + PayoutGenesis

\* A proposal does not stay in discussion or voting for ever (governance.py 90, 462).
IsResolved == \A i \in Ids :
    prop[i].status \in {"discussion", "voting"} ~> prop[i].status \in {"passed"} \cup Final

-----------------------------------------------------------------------------
(* What the documents say and the code does not do *)

\* One NOVA, one vote (governance.py 7, 59): a proposal cannot collect more votes than
\* there are coins.
OneCoinOneVote == \A i \in Ids :
    prop[i].for + prop[i].against <= SumFunction([p \in People |-> Own(p)])

\* What has passed has more votes for it than against it (governance.py 9).
TallyStands == \A i \in Ids : LET r == prop[i] IN
    r.status \in {"passed", "executed"} => r.for > r.against

Passes(i, type) == /\ prop[i].type = type /\ prop[i].status = "voting"
                   /\ prop'[i].status = "passed"

\* A freeze is in force as soon as it has passed (README.md 281).
FreezeAtOnce ==
    [][\A i \in Ids : Passes(i, "freeze") => frozen'[prop[i].target] > 0]_vars

\* A payout proposal needs two thirds of the votes (README.md 280).
PayoutByTwoThirds ==
    [][\A i \in Ids : Passes(i, "payout") =>
        3 * prop[i].for >= 2 * (prop[i].for + prop[i].against)]_vars

\* An executed payout owes its victim 80% of the loss (README.md 280).
PayoutInFull == \A i \in Ids :
    prop[i].type = "payout" /\ prop[i].status = "executed" =>
        payout[i].amount = (8 * prop[i].amount) \div 10

\* An executed parameter stays in force (docs/NOVA_ECOSYSTEM_MODULES.md 42).
ParameterStays ==
    (\E i \in Ids : prop[i].type = "param" /\ prop[i].status = "executed") => economy # 0
=============================================================================
