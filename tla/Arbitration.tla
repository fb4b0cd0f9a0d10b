---------------------------- MODULE Arbitration ----------------------------
(***************************************************************************)
(* The community court (core/arbitration.py): arbitrators with a stake and *)
(* a term, elected by the community; complaints with a deposit, for which  *)
(* the seller's bond is frozen; a first panel, an appeal to a second one   *)
(* that may overturn it and claw the first payment back; charges against   *)
(* arbitrators; and the daily maintenance that draws, replaces, decides,   *)
(* retires and releases.                                                   *)
(*                                                                         *)
(* Time is in days and every period of seven days is one constant.  Money  *)
(* is in cents, shares are rounded down to one.  Where the code draws by   *)
(* its VRF the model takes any order of the arbitrators.  Notifications,   *)
(* public events and statistics are left out, so is gas.                   *)
(***************************************************************************)
EXTENDS Integers, FiniteSets, SequencesExt, FiniteSetsExt

CONSTANTS
    Arbs, Servings,         \* who may ever be an arbitrator, who may be the ones at the start
    Eligibles,              \* addresses 30 days old with a chain reputation of 70
    Parties, Buyers,        \* who trades, who of them complains
    Members,                \* who votes and charges
    Ties,                   \* pairs that transferred or referred lately: _conflicted
    Trades,
    Wealth, EcoGenesis,
    StartRep, StartEnd,     \* reputation and end of term of those that serve
    Week, VoteWindow, Month, Term,
    PanelSize, SecondSize,
    StreakLen, SuspectRepeat, AgreeMin, MalLimit, MalLockCount,
    ConfirmMin,
    Accusers, Restless,     \* bounds: who charges; arbitrators that do more than sit and vote,
                            \* and that may be charged
    MaxCases, LastFiling,   \* bounds: cases, the last day a complaint is filed
    MaxOps, MaxDay          \* bounds: transactions outside the course of a case, days

None == "none"
Eco  == "eco"               \* the ecosystem fund
Addr == Arbs \cup Parties \cup Members \cup {Eco}
Slots == 1..(IF PanelSize > SecondSize THEN PanelSize ELSE SecondSize)
CaseIds == 1..MaxCases

ASSUME ArbitrationAssumption ==
    /\ IsFiniteSet(Addr) /\ Servings \subseteq SUBSET Arbs /\ Eligibles \subseteq Arbs
    /\ Ties \subseteq Arbs \X Parties
    /\ Buyers \subseteq Parties /\ Accusers \subseteq Members \cup Parties /\ Restless \subseteq Arbs
    /\ Wealth \in [Addr \ {Eco} -> Nat] /\ EcoGenesis \in Nat
    /\ StartRep \in 1..100 /\ StartEnd \in Nat \ {0}
    /\ {Week, Month, Term, PanelSize, SecondSize, StreakLen, ConfirmMin,
        AgreeMin, MalLimit, MalLockCount, LastFiling, MaxDay} \subseteq Nat \ {0}
    /\ {VoteWindow, SuspectRepeat, MaxCases, MaxOps} \subseteq Nat

Stake == 50000
ComplaintDeposit == 1000
MaliciousDeposit == 5000
SecondDeposit == 5000
ChargeDeposit == 200
ChargePower == 10000
VoteReward == 200
StreakReward == 1000
TimeoutPenalty == 100
OverturnPenalty == 1000
RepInit == 50
RepSuspend == 30

VARIABLES
    bal, arb, cand,         \* balances, arb_arbitrators, arb_candidates
    pend, pool,             \* arb_stake_pending, the deposits of arb_pools
    susp, mal, banned,      \* arb_suspicious, arb_malicious, arb_banned
    cases,
    now, ops

world == [bal |-> bal, arb |-> arb, cand |-> cand, pend |-> pend, pool |-> pool,
          susp |-> susp, mal |-> mal, banned |-> banned, cases |-> cases]
vars  == <<bal, arb, cand, pend, pool, susp, mal, banned, cases, now, ops>>

\* The handlers below map a world to a world; this is where one takes effect.
Becomes(w) ==
    /\ bal' = w.bal /\ arb' = w.arb /\ cand' = w.cand /\ pend' = w.pend
    /\ pool' = w.pool /\ susp' = w.susp /\ mal' = w.mal
    /\ banned' = w.banned /\ cases' = w.cases

Smaller(a, b) == IF a < b THEN a ELSE b
Larger(a, b)  == IF a > b THEN a ELSE b
\* a handler for each element of a set, one after the other
ForEach(S, w, Do(_, _)) == FoldLeft(Do, w, SetToSeq(S))

NoArb  == [st |-> None, stake |-> 0, rep |-> 0, end |-> 0, notice |-> 0, ready |-> 0,
           observe |-> 0, streak |-> 0, voted |-> "no"]
Seat(stake, rep, end) == [NoArb EXCEPT !.st = "active", !.stake = stake, !.rep = rep, !.end = end]
NoCand == [st |-> None, kind |-> "first", at |-> 0, yes |-> 0, no |-> 0, voted |-> {}, stake |-> 0]
NoPend == [amt |-> 0, at |-> 0]
Clear  == [on |-> "no", confirmed |-> "no", chargers |-> {}]
NoMeta == [slot |-> 0, deadline |-> 0, voted |-> "no", side |-> "", replaced |-> "no"]
NoBench == [panel |-> [s \in Slots |-> None], meta |-> [a \in Arbs |-> NoMeta],
            votes |-> [s \in Slots |-> ""]]
NoCase == [st |-> None, buyer |-> None, seller |-> None, trade |-> None, bond |-> 0,
           filed |-> 0, drawn |-> 0, decided |-> 0, result |-> "", got |-> 0,
           first |-> NoBench, second |-> NoBench, appellant |-> None, filed2 |-> 0,
           result2 |-> "", excluded |-> {}]

Init ==
    /\ bal = [a \in Addr |-> IF a = Eco THEN EcoGenesis ELSE Wealth[a]]
    /\ \E serving \in Servings :
         arb = [a \in Arbs |-> IF a \in serving THEN Seat(Stake, StartRep, StartEnd) ELSE NoArb]
    /\ cand = [a \in Arbs |-> NoCand] /\ pend = [a \in Arbs |-> NoPend]
    /\ pool = [c \in CaseIds |-> 0]
    /\ susp = [a \in Arbs |-> Clear]
    /\ mal = [p \in Parties |-> [loss |-> 0, lock |-> 0]] /\ banned = {}
    /\ cases = [c \in CaseIds |-> NoCase] /\ now = 1 /\ ops = 0

-----------------------------------------------------------------------------
\* money, reputation and exclusion

Credit(w, a, n) == [w EXCEPT !.bal[a] = @ + n]
Exists(w, a)    == w.arb[a].st # None
Ban(w, a)       == [w EXCEPT !.banned = @ \cup {a}, !.arb[a].st = "banned"]

\* 60 % from the fund and the rest from the case's deposits, as far as they go
PayReward(w, a, n, c) ==
    LET eco == Smaller((n * 60) \div 100, w.bal[Eco])
        dep == Smaller(n - eco, w.pool[c])
    IN  Credit([w EXCEPT !.bal[Eco] = @ - eco, !.pool[c] = @ - dep], a, eco + dep)

SlashStake(w, a, n) ==
    LET cut  == Smaller(n, w.arb[a].stake)
        less == Credit([w EXCEPT !.arb[a].stake = @ - cut], Eco, cut)
    IN  IF ~Exists(w, a) THEN w ELSE IF less.arb[a].stake = 0 THEN Ban(less, a) ELSE less

RepDelta(w, a, d) ==
    LET rep == Larger(0, Smaller(100, w.arb[a].rep + d))
        set == [w EXCEPT !.arb[a].rep = rep]
    IN  IF ~Exists(w, a) THEN w
        ELSE IF rep = 0 THEN Ban(set, a)
        ELSE IF rep < RepSuspend /\ w.arb[a].st \in {"active", "observing"}
             THEN [set EXCEPT !.arb[a].st = "suspended"] ELSE set

\* what was pending before is overwritten
PendingRelease(w, a, n) == [w EXCEPT !.pend[a] = [amt |-> n, at |-> now + Week]]

Retire(w, a) ==
    [PendingRelease(w, a, w.arb[a].stake) EXCEPT !.arb[a].st = "retired", !.arb[a].stake = 0]

-----------------------------------------------------------------------------
\* the draw

Sitting(b) == {b.panel[s] : s \in Slots} \ {None}
Cast(b, a)  == b.votes[b.meta[a].slot] # ""
Slotted(b) == {a \in Arbs : b.meta[a].slot # 0 /\ b.meta[a].replaced = "no"}
AllVoted(b) == Slotted(b) # {} /\ \A a \in Slotted(b) : Cast(b, a)

Conflicted(a, k) == a \in {k.buyer, k.seller} \/ {<<a, k.buyer>>, <<a, k.seller>>} \cap Ties # {}

EligiblePool(w, c, leaving) ==
    LET k == w.cases[c] IN
    {a \in Arbs :
        /\ w.arb[a].st = "active" /\ a \notin w.banned
        /\ w.arb[a].observe <= now /\ w.arb[a].rep >= RepSuspend
        /\ a \notin Sitting(k.first) \cup Sitting(k.second) \cup k.excluded \cup leaving
        /\ ~Conflicted(a, k)}

\* the same group sat together in the last 30 days
ComboSeen(w, group) ==
    \E c \in CaseIds :
        \/ Sitting(w.cases[c].first) = group /\ w.cases[c].drawn >= now - Month
        \/ Sitting(w.cases[c].second) = group

\* A draw in VRF order: the first ones, unless that group has sat and another has not.
\* Numbers are anonymous: who of the group gets which one is not modelled.
DrawPanel(w, c, size, order) ==
    LET eligible == EligiblePool(w, c, {})
        inorder(S) == SelectSeq(order, LAMBDA a : a \in S)
        selected == ToSet(SubSeq(inorder(eligible), 1, size))
        fresh == {g \in kSubset(size, eligible) : ~ComboSeen(w, g)}
    IN  IF Cardinality(eligible) < size THEN <<>>
        ELSE SetToSeq(IF ComboSeen(w, selected) /\ fresh # {}
                      THEN CHOOSE g \in fresh : TRUE ELSE selected)

Appointed(slot) == [NoMeta EXCEPT !.slot = slot, !.deadline = now + VoteWindow]
AssignPanel(chosen) ==
    [NoBench EXCEPT
        !.panel = [s \in Slots |-> IF s \in 1..Len(chosen) THEN chosen[s] ELSE None],
        !.meta  = [a \in Arbs |-> IF \E s \in 1..Len(chosen) : chosen[s] = a
                                  THEN Appointed(CHOOSE s \in 1..Len(chosen) : chosen[s] = a)
                                  ELSE NoMeta]]

AutoDraw(w, c, order) ==
    LET chosen == DrawPanel(w, c, PanelSize, order) IN
    IF w.cases[c].st # "pending_draw" \/ chosen = <<>> THEN w
    ELSE [w EXCEPT !.cases[c].first = AssignPanel(chosen), !.cases[c].drawn = now,
                   !.cases[c].st = "voting"]

AutoDrawSecond(w, c, order) ==
    LET chosen == DrawPanel(w, c, SecondSize, order) IN
    IF w.cases[c].st # "second_pending" \/ chosen = <<>> THEN w
    ELSE [w EXCEPT !.cases[c].second = AssignPanel(chosen), !.cases[c].st = "second_voting"]

Bench(k) == IF k.st = "second_voting" THEN "second" ELSE "first"

\* a has left its seat: the next eligible arbitrator takes it, or nobody does
Replace(w, c, a, slot, order) ==
    LET b == Bench(w.cases[c])
        able == SelectSeq(order, LAMBDA r : r \in EligiblePool(w, c, {a}))
    IN  IF able = <<>> THEN w
        ELSE [w EXCEPT !.cases[c][b].panel[slot] = Head(able),
                       !.cases[c][b].meta[Head(able)] = Appointed(slot)]

-----------------------------------------------------------------------------
\* verdicts

Votes(b, side) == Cardinality({s \in Slots : b.votes[s] = side})
Tally(b) == IF Votes(b, "buyer") > Votes(b, "seller") THEN "buyer" ELSE "seller"

\* those of the panel that voted, and whether with the majority
Rewarded(w, c, b, winner) ==
    LET bench == w.cases[c][b]
        voters == {a \in Sitting(bench) \cap Slotted(bench) : bench.meta[a].voted = "yes"}
        Judge(v, a) ==
            LET more == RepDelta([v EXCEPT !.arb[a].streak = @ + 1], a, 1) IN
            IF bench.meta[a].side # winner THEN [v EXCEPT !.arb[a].streak = 0]
            ELSE IF more.arb[a].streak < StreakLen THEN more
            ELSE PayReward([more EXCEPT !.arb[a].streak = 0], a, StreakReward, c)
    IN  ForEach(voters, w, Judge)

\* The loser's money: a seller that wins gets 40 % of the deposit, the fund the rest.
Shared(w, seller, n) == Credit(Credit(w, seller, (n * 40) \div 100), Eco, n - (n * 40) \div 100)

Payout(w, c, winner) ==
    LET k == w.cases[c]
        dep == w.pool[c]
        emptied == [w EXCEPT !.pool[c] = 0]
    IN  IF winner = "buyer"
        THEN [Credit(emptied, k.buyer, k.bond + dep) EXCEPT !.cases[c].got = k.bond + dep]
        ELSE [Shared(Credit(emptied, k.seller, k.bond), k.seller, dep)
                EXCEPT !.cases[c].got = k.bond + (dep * 40) \div 100]

ExecuteCase(w, c) ==
    LET winner == Tally(w.cases[c].first)
        decided == [w EXCEPT !.cases[c].result = winner, !.cases[c].decided = now,
                             !.cases[c].st = "decided"]
    IN  Payout(Rewarded(decided, c, "first", winner), c, winner)

\* Takes the first payment back, from the fund what its receiver no longer has, and
\* pays by the second verdict.  If the receiver has nothing the payment is made again.
RevertAndRepay(w, c, winner) ==
    LET k == w.cases[c]
        holder == IF k.result = "buyer" THEN k.buyer ELSE k.seller
        taken == Smaller(k.got, w.bal[holder])
        cover == Smaller(k.got - taken, w.bal[Eco])
        back == [w EXCEPT !.bal = [@ EXCEPT ![holder] = @ - taken, ![Eco] = @ - cover],
                          !.pool[c] = 0]
        rest == Larger(0, taken + cover - k.bond)
    IN  IF taken = 0 THEN Payout(w, c, winner)
        ELSE IF winner = "buyer" THEN Credit(back, k.buyer, k.bond + rest + w.pool[c])
        ELSE Shared(Shared(Credit(back, k.seller, k.bond), k.seller, rest), k.seller, w.pool[c])

\* The first panel loses 10 NOVA and 5 points each.
Overturned(w, c, winner) ==
    LET Punish(v, a) == [RepDelta(SlashStake(v, a, OverturnPenalty), a, -5)
                            EXCEPT !.arb[a].streak = 0]
    IN  RevertAndRepay(ForEach(Sitting(w.cases[c].first), w, Punish), c, winner)

FinalizeSecondPool(w, c) == Credit([w EXCEPT !.pool[c] = 0], Eco, w.pool[c])

\* Mutant: the second verdict is not recorded.
ExecuteSecond(w, c) ==
    LET k == w.cases[c]
        winner == Tally(k.second)
        seen == [w EXCEPT !.cases[c].result2 = winner,
                   !.arb = [a \in Arbs |-> IF k.second.meta[a].voted = "yes" /\ a \in Sitting(k.second)
                                           THEN [@[a] EXCEPT !.voted = "yes"] ELSE @[a]]]
        judged == Rewarded(seen, c, "second", winner)
        refunded == Credit([judged EXCEPT !.pool[c] = Larger(0, @ - SecondDeposit)],
                           k.appellant, SecondDeposit)
        half == Smaller(SecondDeposit, judged.pool[c]) \div 2
        kept == Credit([judged EXCEPT !.pool[c] = @ - half], Eco, half)
        final == IF winner # k.result THEN Overturned(refunded, c, winner)
                 ELSE FinalizeSecondPool(kept, c)
    IN  [final EXCEPT !.cases[c].st = "settled"]

-----------------------------------------------------------------------------
\* transactions of arbitrators and of the community

Pays(a, n) == bal[a] >= n
Paid(a, n) == [world EXCEPT !.bal[a] = @ - n]
Transact   == UNCHANGED <<now, ops>>
Bounded    == now' = now /\ ops < MaxOps /\ ops' = ops + 1

Apply(a) ==
    /\ Bounded
    /\ Pays(a, Stake) /\ ~Exists(world, a) /\ cand[a].st # "voting"
    /\ a \notin banned /\ a \in Eligibles
    /\ Becomes([Paid(a, Stake) EXCEPT !.cand[a] =
                  [NoCand EXCEPT !.st = "voting", !.at = now, !.stake = Stake]])

CandidateVote(v, a, side) ==
    /\ Bounded
    /\ cand[a].st = "voting" /\ v # a /\ v \notin cand[a].voted
    /\ now - cand[a].at <= Week /\ bal[v] >= 100
    /\ cand' = [cand EXCEPT ![a][side] = @ + bal[v] \div 100, ![a].voted = @ \cup {v}]
    /\ UNCHANGED <<bal, arb, pend, pool, susp, mal, banned, cases>>

Due(k) == k.st = "voting" /\ now - k.at > Week
SettleCandidate(w, a) ==
    LET k == w.cand[a]
        passed == 2 * k.yes > 3 * k.no /\ k.yes + k.no > 100
        closed == [w EXCEPT !.cand[a].st = IF passed THEN "passed" ELSE "failed",
                            !.cand[a].stake = 0]
    IN  IF passed /\ k.kind = "renew"
        THEN [closed EXCEPT !.arb[a].end = @ + Term, !.arb[a].st = "active"]
        ELSE IF passed THEN [closed EXCEPT !.arb[a] = Seat(k.stake, 70, now + Term)]
        ELSE IF k.kind = "renew" THEN Retire(closed, a)
        ELSE PendingRelease(closed, a, k.stake)

CandidateSettle(a) ==
    Transact /\ Due(cand[a]) /\ Becomes(SettleCandidate(world, a))

Renew(a) ==
    /\ Bounded
    /\ arb[a].st = "active" /\ cand[a].st # "voting" /\ arb[a].end - now \in 1..Week
    /\ cand' = [cand EXCEPT ![a] = [NoCand EXCEPT !.st = "voting", !.kind = "renew", !.at = now]]
    /\ arb' = [arb EXCEPT ![a].st = "renewing"]
    /\ UNCHANGED <<bal, pend, pool, susp, mal, banned, cases>>

Reactivate(a) ==
    /\ Bounded
    /\ Pays(a, Stake) /\ arb[a].st = "suspended" /\ a \notin banned
    /\ Becomes([Paid(a, Stake) EXCEPT
                  !.arb[a] = [@ EXCEPT !.stake = @ + Stake, !.rep = RepInit, !.st = "active",
                                       !.observe = 0, !.end = now + Term]])

Open(k) == k.st \in {"pending_draw", "voting", "second_pending", "second_voting"}
Exit(a) ==
    /\ Bounded
    /\ arb[a].st \in {"active", "renewing"} /\ arb[a].notice = 0
    /\ \A c \in CaseIds :
         Open(cases[c]) => a \notin Sitting(cases[c].first) \cup Sitting(cases[c].second)
    /\ arb' = [arb EXCEPT ![a].st = "leaving", ![a].notice = now, ![a].ready = now + Week]
    /\ UNCHANGED <<bal, cand, pend, pool, susp, mal, banned, cases>>

Released(w, a) == Credit([w EXCEPT !.pend[a] = NoPend], a, w.pend[a].amt)
ClaimStake(a) ==
    Transact /\ pend[a] # NoPend /\ now >= pend[a].at /\ Becomes(Released(world, a))

-----------------------------------------------------------------------------
\* transactions of a case

DepositFor(b) == IF mal[b].loss >= MalLimit THEN MaliciousDeposit ELSE ComplaintDeposit
\* Mutant: the seller's bond is not taken.
BugComplain(b, s, t) ==
    \E c \in CaseIds :
        LET dep == DepositFor(b) IN
        /\ Transact
        /\ c = Cardinality({d \in CaseIds : cases[d].st # None}) + 1
        /\ now <= LastFiling /\ b # s /\ Pays(b, dep) /\ mal[b].lock <= now
        /\ \A d \in CaseIds : ~(cases[d].buyer = b /\ cases[d].trade = t /\ Open(cases[d]))
        /\ bal[s] >= 2 * dep
        /\ Becomes([Paid(b, dep) EXCEPT
             !.pool[c] = dep,
             !.cases[c] = [NoCase EXCEPT !.st = "pending_draw", !.buyer = b, !.seller = s,
                                         !.trade = t, !.bond = 2 * dep, !.filed = now]])

Complain(b, s, t) ==
    \E c \in CaseIds :
        LET dep == DepositFor(b) IN
        /\ Transact
        /\ c = Cardinality({d \in CaseIds : cases[d].st # None}) + 1
        /\ now <= LastFiling /\ b # s /\ Pays(b, dep) /\ mal[b].lock <= now
        /\ \A d \in CaseIds : ~(cases[d].buyer = b /\ cases[d].trade = t /\ Open(cases[d]))
        /\ bal[s] >= 2 * dep
        /\ Becomes([Paid(b, dep) EXCEPT
             !.bal[s] = @ - 2 * dep, !.pool[c] = dep,
             !.cases[c] = [NoCase EXCEPT !.st = "pending_draw", !.buyer = b, !.seller = s,
                                         !.trade = t, !.bond = 2 * dep, !.filed = now]])

DrawCase(c, order) ==
    Transact /\ cases[c].st = "pending_draw" /\ Becomes(AutoDraw(world, c, order))

\* Mutant: a vote may be cast again.
BugVote(a, c, side) ==
    LET b == Bench(cases[c])
        slot == cases[c][b].meta[a].slot
        voted == [world EXCEPT !.cases[c][b].votes[slot] = side,
                    !.cases[c][b].meta[a] = [@ EXCEPT !.voted = "yes", !.side = side],
                    !.arb[a].voted = IF b = "first" THEN "yes" ELSE @]
        paid == PayReward(voted, a, VoteReward, c)
    IN  /\ Transact
        /\ cases[c].st \in {"voting", "second_voting"}
        /\ a \in Slotted(cases[c][b]) /\ cases[c][b].panel[slot] = a
        /\ now <= cases[c][b].meta[a].deadline
        /\ Becomes(IF ~AllVoted(paid.cases[c][b]) THEN paid
                   ELSE IF b = "second" THEN ExecuteSecond(paid, c) ELSE ExecuteCase(paid, c))

\* the last vote decides
Vote(a, c, side) ==
    LET b == Bench(cases[c])
        slot == cases[c][b].meta[a].slot
        voted == [world EXCEPT !.cases[c][b].votes[slot] = side,
                    !.cases[c][b].meta[a] = [@ EXCEPT !.voted = "yes", !.side = side],
                    !.arb[a].voted = IF b = "first" THEN "yes" ELSE @]
        paid == PayReward(voted, a, VoteReward, c)
    IN  /\ Transact
        /\ cases[c].st \in {"voting", "second_voting"}
        /\ a \in Slotted(cases[c][b]) /\ cases[c][b].panel[slot] = a
        /\ ~Cast(cases[c][b], a) /\ now <= cases[c][b].meta[a].deadline
        /\ Becomes(IF ~AllVoted(paid.cases[c][b]) THEN paid
                   ELSE IF b = "second" THEN ExecuteSecond(paid, c) ELSE ExecuteCase(paid, c))

\* Mutant: whoever declines is not excluded from the case.
BugDecline(a, c, order) ==
    LET b == Bench(cases[c])
        slot == cases[c][b].meta[a].slot
        gone == [world EXCEPT !.cases[c][b].meta[a].replaced = "yes",
                              !.cases[c][b].panel[slot] = None]
    IN  /\ Bounded
        /\ cases[c].st \in {"voting", "second_voting"} /\ a \in Slotted(cases[c][b])
        /\ Becomes(Replace(RepDelta(gone, a, 1), c, a, slot, order))

\* Whoever declares a conflict keeps the point and never sits on this case again.
Decline(a, c, order) ==
    LET b == Bench(cases[c])
        slot == cases[c][b].meta[a].slot
        gone == [world EXCEPT !.cases[c][b].meta[a].replaced = "yes",
                              !.cases[c][b].panel[slot] = None, !.cases[c].excluded = @ \cup {a}]
    IN  /\ Bounded
        /\ cases[c].st \in {"voting", "second_voting"} /\ a \in Slotted(cases[c][b])
        /\ Becomes(Replace(RepDelta(gone, a, 1), c, a, slot, order))

Second(p, c, order) ==
    /\ Transact
    /\ cases[c].st = "decided" /\ cases[c].appellant = None
    /\ p \in {cases[c].buyer, cases[c].seller} /\ now - cases[c].decided <= Week
    /\ Pays(p, SecondDeposit)
    /\ Becomes(AutoDrawSecond([Paid(p, SecondDeposit) EXCEPT
                  !.pool[c] = @ + SecondDeposit, !.cases[c].appellant = p,
                  !.cases[c].filed2 = now, !.cases[c].st = "second_pending"], c, order))

-----------------------------------------------------------------------------
\* charges against arbitrators

\* A bribed arbitrator loses its stake to the fund, one that colluded pays its victim half.
ChargeSlash(w, a, target, kind, c) ==
    LET k == w.cases[c]
        stake == w.arb[target].stake
        side == IF target \in Sitting(k.first) THEN k.first.meta[target].side ELSE ""
        victim == IF side = "buyer" \/ (side = "" /\ w.arb[target].voted = "yes")
                  THEN k.seller ELSE k.buyer
        half == IF kind = "collude" THEN stake \div 2 ELSE 0
        fined == [w EXCEPT !.arb[target] = [@ EXCEPT !.stake = 0, !.rep = 0],
                           !.susp[target] = Clear]
    IN  Credit(Credit(Credit(Ban(fined, target), IF half = 0 THEN Eco ELSE victim, half),
                      Eco, stake - half), a, ChargeDeposit)

Slashable(w, kind, c) ==
    \/ kind = "bribe"
    \/ w.cases[c].result2 # "" /\ w.cases[c].result2 # w.cases[c].result

\* Mutant: one accuser who charges twice confirms the suspicion.
BugCharge(a, target, kind, c) ==
    LET from == Paid(a, ChargeDeposit)
        s == susp[target]
        sure == IF s.confirmed = "yes" \/ s.on = "yes"
                THEN "yes" ELSE "no"
        watched == RepDelta([from EXCEPT !.arb[target].st = "observing",
                                         !.arb[target].observe = now + Week], target, -5)
        marked == [watched EXCEPT !.susp[target] =
                     [on |-> "yes", confirmed |-> sure, chargers |-> s.chargers \cup {a}]]
    IN  /\ Bounded
        /\ Pays(a, ChargeDeposit) /\ a # target /\ Exists(world, target) /\ bal[a] >= ChargePower
        /\ kind = "collude" => target \in Sitting(cases[c].first)
        /\ Becomes(IF s.confirmed = "yes" /\ Slashable(world, kind, c)
                   THEN ChargeSlash(from, a, target, kind, c)
                   ELSE IF sure = "yes" /\ Slashable(world, kind, c)
                   THEN ChargeSlash(marked, a, target, kind, c) ELSE marked)

\* A charge puts its target under observation for a week; the second accuser confirms
\* the suspicion, and only then is there anything to lose.
Charge(a, target, kind, c) ==
    LET from == Paid(a, ChargeDeposit)
        s == susp[target]
        sure == IF s.confirmed = "yes" \/ Cardinality(s.chargers \cup {a}) >= ConfirmMin
                THEN "yes" ELSE "no"
        watched == RepDelta([from EXCEPT !.arb[target].st = "observing",
                                         !.arb[target].observe = now + Week], target, -5)
        marked == [watched EXCEPT !.susp[target] =
                     [on |-> "yes", confirmed |-> sure, chargers |-> s.chargers \cup {a}]]
    IN  /\ Bounded
        /\ Pays(a, ChargeDeposit) /\ a # target /\ Exists(world, target) /\ bal[a] >= ChargePower
        /\ kind = "collude" => target \in Sitting(cases[c].first)
        /\ Becomes(IF s.confirmed = "yes" /\ Slashable(world, kind, c)
                   THEN ChargeSlash(from, a, target, kind, c)
                   ELSE IF sure = "yes" /\ Slashable(world, kind, c)
                   THEN ChargeSlash(marked, a, target, kind, c) ELSE marked)

-----------------------------------------------------------------------------
\* the daily maintenance, in the order of the code

\* Who did not vote in time loses 1 NOVA and 2 points and is replaced.
TimeoutArbitrator(w, c, a, order) ==
    LET b == Bench(w.cases[c])
        slot == w.cases[c][b].meta[a].slot
        gone == [w EXCEPT !.cases[c][b].meta[a] = NoMeta, !.cases[c][b].panel[slot] = None]
    IN  Replace(RepDelta(SlashStake(gone, a, TimeoutPenalty), a, -2), c, a, slot, order)

\* After seven days a case is decided by the votes there are.
Overdue(k) == now - (IF k.st = "second_voting" THEN k.filed2 ELSE k.drawn) > Week
KeepTime(w, c, order) ==
    LET k == w.cases[c]
        b == k[Bench(k)]
        late == {a \in Slotted(b) : ~Cast(b, a) /\ now > b.meta[a].deadline}
        timed == ForEach(late, w, LAMBDA v, a : TimeoutArbitrator(v, c, a, order))
    IN  IF k.st \notin {"voting", "second_voting"} THEN w
        ELSE IF ~Overdue(k) THEN timed
        ELSE IF k.st = "second_voting" THEN ExecuteSecond(timed, c) ELSE ExecuteCase(timed, c)

\* sat together too often, or agreed too often
SameGroup(w, a) ==
    \E c \in CaseIds :
        LET group == Sitting(w.cases[c].first) IN
        /\ a \in group /\ Cardinality(group) >= 2
        /\ Cardinality({d \in CaseIds : w.cases[d].drawn >= now - Month
                                        /\ Sitting(w.cases[d].first) = group}) > SuspectRepeat
SameVotes(w, a) ==
    \E r \in Arbs \ {a} :
        LET Both(d) == {a, r} \subseteq {x \in Arbs : w.cases[d].first.meta[x].voted = "yes"}
            joint == {d \in CaseIds : w.cases[d].st = "settled" /\ Both(d)}
            same == {d \in joint : w.cases[d].first.meta[a].side = w.cases[d].first.meta[r].side}
        IN  Cardinality(joint) >= AgreeMin /\ Cardinality(same) * 100 > Cardinality(joint) * 90

MarkSuspicious(w, a) ==
    IF w.susp[a].on = "yes" \/ w.arb[a].st \notin {"active", "renewing"} THEN w
    ELSE [w EXCEPT !.arb[a].st = "observing", !.arb[a].observe = now + Week,
                   !.susp[a] = [Clear EXCEPT !.on = "yes"]]
DetectCollusion(w) == ForEach({a \in Arbs : SameGroup(w, a) \/ SameVotes(w, a)}, w, MarkSuspicious)

\* settled cases a buyer lost within 30 days raise its deposit, and then shut it out
DetectMalicious(w) ==
    LET Lost(b) == {c \in CaseIds : /\ w.cases[c].st = "settled" /\ w.cases[c].buyer = b
                                    /\ w.cases[c].decided >= now - Month
                                    /\ w.cases[c].result2 = "seller"}
        Note(m, n) == IF n = 0 THEN m ELSE
            [loss |-> n, lock |-> IF n >= MalLimit /\ n >= MalLockCount THEN now + Month ELSE m.lock]
    IN  [w EXCEPT !.mal = [b \in Parties |-> Note(@[b], Cardinality(Lost(b)))]]

\* leaving and ended terms free the stake, an observation ends
EndTerm(w, a) ==
    LET k == w.arb[a] IN
    IF (k.st = "leaving" /\ k.ready <= now) \/ (k.st \in {"active", "renewing"} /\ k.end <= now)
    THEN Retire(w, a)
    ELSE IF k.st = "observing" /\ k.observe <= now
    THEN [w EXCEPT !.arb[a].st = IF k.rep >= RepSuspend THEN "active" ELSE "suspended",
                   !.arb[a].observe = 0, !.susp[a] = Clear]
    ELSE w

Maintained(order) ==
    LET settled == ForEach({a \in Arbs : Due(cand[a])}, world, SettleCandidate)
        drawn   == ForEach(CaseIds, settled, LAMBDA w, c : AutoDraw(w, c, order))
        second  == ForEach(CaseIds, drawn, LAMBDA w, c : AutoDrawSecond(w, c, order))
        kept    == ForEach(CaseIds, second, LAMBDA w, c : KeepTime(w, c, order))
        watched == DetectMalicious(DetectCollusion(kept))
        ended   == ForEach(Arbs, watched, EndTerm)
    IN  ForEach({a \in Arbs : ended.pend[a] # NoPend /\ now >= ended.pend[a].at}, ended, Released)

Orders == SetToSeqs(Arbs)
\* the order matters only where somebody may be drawn
Maintain ==
    /\ \E order \in IF \E c \in CaseIds : Open(cases[c]) THEN Orders ELSE {SetToSeq(Arbs)} :
          Becomes(Maintained(order))
    /\ UNCHANGED <<now, ops>>

Day == now < MaxDay /\ now' = now + 1 /\ UNCHANGED <<bal, arb, cand, pend, pool, susp, mal, banned, cases, ops>>

OfArbitrators ==
    \E a \in Restless :
        \/ Apply(a) \/ CandidateSettle(a) \/ Renew(a) \/ Reactivate(a) \/ Exit(a) \/ ClaimStake(a)
        \/ \E v \in Members, side \in {"yes", "no"} : CandidateVote(v, a, side)
OfCases ==
    \/ \E b \in Buyers, s \in Parties, t \in Trades : Complain(b, s, t)
    \/ \E c \in CaseIds : \E order \in Orders :
          DrawCase(c, order) \/ (\E p \in Parties : Second(p, c, order))
                             \/ (\E a \in Restless : Decline(a, c, order))
    \/ \E c \in CaseIds, a \in Arbs, side \in {"buyer", "seller"} : Vote(a, c, side)
    \/ \E c \in CaseIds, a \in Accusers, t \in Restless, kind \in {"bribe", "collude"} :
          Charge(a, t, kind, c)
Next == OfArbitrators \/ OfCases \/ Maintain \/ Day

Spec == Init /\ [][Next]_vars

-----------------------------------------------------------------------------
(* Every variable keeps its shape. *)
TypeOK ==
    /\ bal \in [Addr -> Nat] /\ pool \in [CaseIds -> Nat] /\ banned \subseteq Arbs
    /\ \A a \in Arbs :
         /\ arb[a].st \in {None, "active", "renewing", "leaving", "retired", "suspended",
                           "observing", "banned"}
         /\ {arb[a].stake, arb[a].end, pend[a].amt, cand[a].stake} \subseteq Nat
         /\ arb[a].rep \in 0..100 /\ (a \in banned => Exists(world, a))
         /\ susp[a].chargers \subseteq Members \cup Parties
    /\ \A c \in CaseIds :
         /\ cases[c].st \in {None, "pending_draw", "voting", "decided", "second_pending",
                             "second_voting", "settled"}
         /\ (cases[c].result = "") = (cases[c].st \in {None, "pending_draw", "voting"})
         /\ (cases[c].result2 # "") = (cases[c].st = "settled")
    /\ now \in 1..MaxDay /\ ops \in 0..MaxOps

Bond(k) == IF k.result = "" THEN k.bond ELSE 0
Total ==
    MapThenSumSet(LAMBDA a : bal[a], Addr)
    + MapThenSumSet(LAMBDA a : arb[a].stake + cand[a].stake + pend[a].amt, Arbs)
    + MapThenSumSet(LAMBDA c : pool[c] + Bond(cases[c]), CaseIds)

Overturning(c) == cases[c].result2 = "" /\ cases'[c].result2 \notin {"", cases[c].result}
Overwritten ==
    MapThenSumSet(LAMBDA a : pend[a].amt,
                  {a \in Arbs : pend'[a] \notin {pend[a], NoPend}})
Dismissed ==
    IF \E a \in Addr : bal' = [bal EXCEPT ![a] = @ - ChargeDeposit] THEN ChargeDeposit ELSE 0

(* Deposits, bonds, rewards, fines and stakes only move: a step destroys the  *)
(* deposit of a charge that is not upheld, which nobody is credited with, and *)
(* a stake waiting for release that another release overwrites, and nothing   *)
(* else.  (An overturned verdict may pay what it could not take back.)        *)
NovaAddsUp ==
    [][(\A c \in CaseIds : ~Overturning(c)) => Total' = Total - Dismissed - Overwritten]_vars

(* Whoever voted in the first panel never votes in the second one of the same *)
(* case, no arbitrator holds two seats of a bench, and nobody sits in a case  *)
(* of its own or of somebody it deals with: also after declines, timeouts and *)
(* replacements.                                                              *)
VotersOf(b) == {a \in Arbs : b.meta[a].voted = "yes"}
NobodyJudgesTwice ==
    \A c \in CaseIds :
        LET k == cases[c] IN
        /\ VotersOf(k.first) \cap VotersOf(k.second) = {}
        /\ \A b \in {k.first, k.second} :
             /\ \A s, t \in Slots : b.panel[s] = b.panel[t] /\ b.panel[s] # None => s = t
             /\ \A a \in VotersOf(b) \cup Sitting(b) :
                  a \notin {k.buyer, k.seller} /\ {<<a, k.buyer>>, <<a, k.seller>>} \cap Ties = {}

(* The cases are typed and their benches impartial. *)
BenchesAreSound == TypeOK /\ NobodyJudgesTwice

(* A vote once cast and a verdict once given are never changed, whoever leaves *)
(* the bench afterwards, and a settled case is never opened again.             *)
VerdictsStand ==
    [][\A c \in CaseIds :
         /\ cases[c].result # "" => cases'[c].result = cases[c].result
         /\ cases[c].st = "settled" => cases'[c] = cases[c]
         /\ \A s \in Slots :
              /\ cases[c].first.votes[s] # "" => cases'[c].first.votes[s] = cases[c].first.votes[s]
              /\ cases[c].second.votes[s] # "" => cases'[c].second.votes[s] = cases[c].second.votes[s]]_vars

(* An arbitrator that does not retire loses its stake only to a charge, and only *)
(* when two different accusers have brought one.                                 *)
TwoAccusers ==
    [][\A a \in Arbs : 2 * arb'[a].stake < arb[a].stake /\ pend'[a] = pend[a]
         => \E x \in Accusers, kind \in {"bribe", "collude"}, c \in CaseIds :
                Charge(x, a, kind, c) /\ Cardinality(susp[a].chargers \cup {x}) >= ConfirmMin]_vars

(* The following do not hold. *)
(* An overturned verdict moves money and makes none. *)
OverturnKeepsNova == [][(\E c \in CaseIds : Overturning(c)) => Total' = Total]_vars
(* Who can be drawn has something to lose. *)
ActiveIsStaked == \A a \in Arbs : arb[a].st = "active" => arb[a].stake > 0
(* A stake that waits for its release is paid. *)
StakeIsReturned == [][Overwritten = 0]_vars
(* A second panel sits before it decides. *)
SecondIsHeard ==
    [][\A c \in CaseIds : cases[c].st = "second_pending" => cases'[c].st # "settled"]_vars
=============================================================================
