----------------------------- MODULE AiService ------------------------------
(***************************************************************************)
(* The AI service (core/ai_service.py): the services of a user, the        *)
(* musician that is due once a day, works and the split of their price,    *)
(* paid triggers, and the growth fund that its guardians spend.            *)
(*                                                                         *)
(* The artists have an AI identity (SocialFi); a work may name the compute *)
(* task whose workers share in its price (ComputeMarket).  Prices are such *)
(* that the shares are whole; the rest of a division by weights is         *)
(* dropped, as the code's rounding may.                                    *)
(***************************************************************************)
EXTENDS Ledger

CONSTANTS
    Artists, Workers,       \* AI identities; the workers of the one paid task
    Weight,                 \* [Workers -> 1 + rep_bonus, in per cent]
    WorkPrices, TriggerFee, SpendAmounts,
    Payee,                  \* bound: whom the fund pays
    SpendLimit, Approvals, PendingTerm    \* FUND_SINGLE_SPEND_LIMIT, .._APPROVALS_REQUIRED, .._PENDING_EXPIRE

ASSUME AiServiceAssumption ==
    /\ Artists \subseteq Users /\ Payee \in Users /\ Workers \subseteq Users /\ Weight \in [Workers -> Nat \ {0}]
    /\ WorkPrices \subseteq {10 * n : n \in 1 .. 50} /\ SpendAmounts \subseteq Nat \ {0}
    /\ {TriggerFee, SpendLimit, Approvals, PendingTerm} \subseteq Nat \ {0}

VARIABLES
    service,    \* ai_services of one owner
    muso,       \* ai_muso
    work,       \* ai_works: one
    triggers,   \* ai_triggers that wait, and those that led to a work
    guards,     \* ai_fund_guardians
    pend,       \* ai_fund_pending, in order; what was handled is "done"
    spentBy,    \* ai_fund_spend_day
    alone,      \* history: what a guardian took out alone today
    outgo       \* history: who stood behind the last expense, and its amount

aiVars == <<service, muso, work, triggers, guards, pend, spentBy, alone, outgo>>

NoWork == [artist |-> Nobody, price |-> 0, task |-> "no", sales |-> 0]
Nothing == [u \in Users |-> 0]

AiInit ==
    /\ service = [owner |-> Nobody, st |-> "none"] /\ work = NoWork
    /\ muso = [enabled |-> "no", due |-> "no", last |-> -1, today |-> 0]
    /\ triggers = [waiting |-> 0, done |-> 0]
    /\ guards = {} /\ pend = <<>> /\ spentBy = [day |-> 0, by |-> Nothing]
    /\ alone = Nothing /\ outgo = [amt |-> 0, by |-> {}]

AiTx(u, n) == Tx("ai", u, n)
AiFree(u)  == Tx("ai", u, 0)
FundTx(u, n) == Tx("fund", u, n)

-----------------------------------------------------------------------------
\* services and the musician

SvcRegister(u) ==
    /\ AiFree(u) /\ service.owner = Nobody /\ service' = [owner |-> u, st |-> "active"]
    /\ UNCHANGED <<bal, muso, work, triggers, guards, pend, spentBy, alone, outgo>>

SvcConfig(u, st) ==
    /\ AiFree(u) /\ service.owner = u /\ service' = [service EXCEPT !.st = st]
    /\ UNCHANGED <<bal, muso, work, triggers, guards, pend, spentBy, alone, outgo>>

MusoConfig(u, on) ==
    /\ AiFree(u) /\ u \in Artists /\ muso' = [muso EXCEPT !.enabled = on]
    /\ UNCHANGED <<bal, service, work, triggers, guards, pend, spentBy, alone, outgo>>

\* the circle that makes the works takes note that one is due
MusoTakeDue ==
    /\ part = "ai" /\ muso.enabled = "yes" /\ muso.due = "yes"
    /\ muso' = [muso EXCEPT !.due = "no", !.last = day]
    /\ UNCHANGED <<bal, day, ops, part, service, work, triggers, guards, pend, spentBy, alone, outgo>>

-----------------------------------------------------------------------------
\* works

\* a work may name a trigger, also one that has led to a work before
WorkCreate(u, price, task, trigger) ==
    LET first == {t \in {triggers} : t.waiting > 0}
        again == {t \in {triggers} : t.done > 0}
        named == {[waiting |-> t.waiting - 1, done |-> t.done + 1] : t \in first} \cup again
    IN
    /\ AiFree(u) /\ u \in Artists /\ work = NoWork
    /\ work' = [artist |-> u, price |-> price, task |-> task, sales |-> 0]
    /\ triggers' \in IF trigger = "yes" THEN named ELSE {triggers}
    /\ muso' = [muso EXCEPT !.today = @ + 1, !.last = day]
    /\ UNCHANGED <<bal, service, guards, pend, spentBy, alone, outgo>>

\* 70 % to the artist, 20 % to the workers by weight or to the compute pool, 10 % to the fund
WorkerShare(n, u) == (((n * 2) \div 10) * Weight[u]) \div Total(Weight)
Split(n) ==
    LET b == Give(Give(bal, work.artist, (n * 7) \div 10), AiFund, n \div 10)
    IN  IF work.task = "yes" /\ Workers # {} THEN Booked(b, [u \in Workers |-> WorkerShare(n, u)])
        ELSE Give(b, Compute, (n * 2) \div 10)

WorkBuy(u) ==
    /\ AiTx(u, work.price) /\ work # NoWork /\ u # work.artist
    /\ bal' = Give(Split(work.price), u, -work.price)
    /\ work' = [work EXCEPT !.sales = @ + 1]
    /\ UNCHANGED <<service, muso, triggers, guards, pend, spentBy, alone, outgo>>

Trigger(u) ==
    /\ AiTx(u, TriggerFee)
    /\ bal' = Move(bal, u, AiFund, TriggerFee)
    /\ triggers' = [triggers EXCEPT !.waiting = @ + 1]
    /\ UNCHANGED <<service, muso, work, guards, pend, spentBy, alone, outgo>>

-----------------------------------------------------------------------------
\* the growth fund

FundGuard(u, v) ==
    /\ FundTx(u, 0) /\ (u \in guards \/ u \in Artists) /\ v \notin guards
    /\ guards' = guards \cup {v}
    /\ UNCHANGED <<bal, service, muso, work, triggers, pend, spentBy, alone, outgo>>

SpentToday(u) == IF spentBy.day = day THEN spentBy.by[u] ELSE 0
Expense(by, amt) == [amt |-> amt, by |-> by]

\* the amount comes from the fund, but the sender has to own it as well
MaySpendFund(u, n) == FundTx(u, n) /\ u \in guards /\ bal[AiFund] >= n

\* up to the limit a guardian pays alone, the limit holding for the day
FundSpendSmall(u, n) ==
    /\ MaySpendFund(u, n) /\ n <= SpendLimit /\ SpentToday(u) + n <= SpendLimit
    /\ bal' = Move(bal, AiFund, Payee, n)
    /\ spentBy' = [day |-> day, by |-> [x \in Users |-> SpentToday(x) + (IF x = u THEN n ELSE 0)]]
    /\ alone' = Give(alone, u, n) /\ outgo' = Expense({u}, n)
    /\ UNCHANGED <<service, muso, work, triggers, guards, pend>>

\* beyond it the payment waits for other guardians
FundSpendLarge(u, n) ==
    /\ MaySpendFund(u, n) /\ n > SpendLimit
    /\ pend' = Append(pend, [st |-> "open", amt |-> n, to |-> Payee, yes |-> {u}, at |-> day])
    /\ UNCHANGED <<bal, service, muso, work, triggers, guards, spentBy, alone, outgo>>

\* the approval that is enough pays, whatever the fund has by now
FundApprove(u, i) ==
    LET p == pend[i]
        yes == p.yes \cup {u}
    IN  /\ FundTx(u, 0) /\ p.st = "open" /\ u \in guards /\ u \notin p.yes /\ day - p.at <= PendingTerm
        /\ IF Cardinality(yes) < Approvals
           THEN pend' = [pend EXCEPT ![i].yes = yes] /\ UNCHANGED <<bal, outgo>>
           ELSE /\ pend' = [pend EXCEPT ![i].yes = yes, ![i].st = "done"]
                /\ bal' = Move(bal, AiFund, p.to, p.amt) /\ outgo' = Expense(yes, p.amt)
        /\ UNCHANGED <<service, muso, work, triggers, guards, spentBy, alone>>

BugForgotten == [day |-> day, by |-> Nothing]

\* the part of the daily maintenance
Forgotten == IF spentBy.day = day THEN spentBy ELSE [day |-> day, by |-> Nothing]
AiMaintain ==
    /\ muso' = [muso EXCEPT !.today = IF muso.last = day THEN @ ELSE 0,
                            !.due = IF muso.enabled = "yes" /\ muso.last # day THEN "yes" ELSE @]
    /\ spentBy' = Forgotten
    /\ pend' = [i \in DOMAIN pend |-> IF pend[i].st = "open" /\ day - pend[i].at > PendingTerm
                                      THEN [pend[i] EXCEPT !.st = "done"] ELSE pend[i]]
    /\ UNCHANGED <<service, work, triggers, guards, alone, outgo>>

AiNext ==
    \/ MusoTakeDue
    \/ \E u \in Users :
        \/ SvcRegister(u) \/ WorkBuy(u) \/ Trigger(u)
        \/ \E st \in {"active", "paused"} : SvcConfig(u, st)
        \/ \E on \in {"yes", "no"} : MusoConfig(u, on)
        \/ \E p \in WorkPrices, task, trigger \in {"yes", "no"} : WorkCreate(u, p, task, trigger)
        \/ \E i \in DOMAIN pend : FundApprove(u, i)
        \/ \E v \in Users : FundGuard(u, v)
        \/ \E n \in SpendAmounts : FundSpendSmall(u, n) \/ FundSpendLarge(u, n)

-----------------------------------------------------------------------------
(* Properties *)

AiType ==
    /\ muso.today \in Nat /\ muso.last \in -1 .. day /\ triggers.waiting \in Nat
    /\ guards \subseteq Users
    /\ \A i \in DOMAIN pend : pend[i].yes \subseteq guards /\ pend[i].to \in Users
    /\ \A u \in Users : SpentToday(u) \in 0 .. SpendLimit

\* No guardian takes more than the limit out of the fund in a day alone, however the
\* maintenance falls into the day; behind every larger expense stand as many guardians as
\* are required.
TwoGuardians ==
    /\ \A u \in Users : alone[u] <= SpendLimit
    /\ outgo.amt > SpendLimit => Cardinality(outgo.by \cap guards) >= Approvals

\* Not so in the code (section 4 of the README):
\* "the fund has not enough": no expense is more than the fund has.
FundNotOverdrawn == bal[AiFund] >= 0
\* The count of today's works counts today's.
TodayIsToday == muso.today > 0 => muso.last = day
=============================================================================
