---------------------------- MODULE Subscription ----------------------------
(***************************************************************************)
(* Subscriptions (core/subscription.py): tiers that a creator sets,        *)
(* subscribing by the month or for life, the renewal that anybody may      *)
(* send once a month is over, cancelling and expiry.  There is one creator *)
(* with one tier at a time; of the price 90 % go to the creator, 10 % to   *)
(* the ecosystem fund.                                                     *)
(***************************************************************************)
EXTENDS Ledger

CONSTANTS
    SubCreator, Tiers,      \* the creator; prices and periods of a tier
    MonthDays

ASSUME SubscriptionAssumption ==
    /\ SubCreator \in Users /\ MonthDays \in Nat \ {0}
    /\ Tiers \subseteq [price : {10 * n : n \in 1 .. 1000}, period : {"monthly", "lifetime"}]

VARIABLES
    tier,       \* sub_creators[creator].tiers
    counter,    \* sub_creators[creator].subscribers
    sub,        \* sub_subscriptions
    badge       \* soulbound badges of the creator

subVars == <<tier, counter, sub, badge>>

NoTier == [price |-> 0, period |-> "none"]
NoSub  == [st |-> "none", price |-> 0, period |-> "none", auto |-> "no", start |-> 0, till |-> 0, renewals |-> 0]

SubInit ==
    /\ tier = NoTier /\ counter = 0 /\ sub = [u \in Users |-> NoSub] /\ badge = {}

SubTx(u, n) == Tx("sub", u, n)
BugShareOut(b, n) == Give(Give(b, SubCreator, n), Eco, n - (n * 9) \div 10)

ShareOut(b, n) == Give(Give(b, SubCreator, (n * 9) \div 10), Eco, n - (n * 9) \div 10)

\* the creator sets a tier; the first call for it, and every other one, also resets the counter
SubCreate(t) ==
    /\ SubTx(SubCreator, 0)
    /\ tier' = t /\ counter' = 0
    /\ UNCHANGED <<bal, sub, badge>>

SubUpdate(t) ==
    /\ SubTx(SubCreator, 0)
    /\ tier' = t
    /\ UNCHANGED <<bal, counter, sub, badge>>

\* once: an ended subscription is in the way of another
SubSubscribe(u, auto) ==
    /\ SubTx(u, tier.price)
    /\ tier # NoTier /\ u # SubCreator /\ sub[u].st = "none"
    /\ bal' = ShareOut(Give(bal, u, -tier.price), tier.price)
    /\ sub' = [sub EXCEPT ![u] = [st |-> "active", price |-> tier.price, period |-> tier.period,
                                  auto |-> auto, start |-> day, renewals |-> 0,
                                  till |-> IF tier.period = "monthly" THEN day + MonthDays ELSE 0]]
    /\ counter' = counter + 1 /\ badge' = badge \cup {u}
    /\ UNCHANGED tier

MayRenew(u) ==
    sub[u].st = "active" /\ sub[u].period = "monthly" /\ sub[u].auto = "yes" /\ day >= sub[u].till
\* k renews for u, who pays the price of the day of subscribing, or is cancelled
SubRenew(k, u) ==
    /\ SubTx(k, 0) /\ MayRenew(u)
    /\ IF bal[u] < sub[u].price
       THEN /\ sub' = [sub EXCEPT ![u].st = "cancelled"] /\ counter' = Greater(0, counter - 1)
            /\ UNCHANGED bal
       ELSE /\ bal' = ShareOut(Give(bal, u, -sub[u].price), sub[u].price)
            /\ sub' = [sub EXCEPT ![u].till = day + MonthDays, ![u].renewals = @ + 1]
            /\ UNCHANGED counter
    /\ UNCHANGED <<tier, badge>>

SubCancel(u) ==
    /\ SubTx(u, 0) /\ sub[u].st = "active" /\ sub[u].period # "lifetime"
    /\ sub' = [sub EXCEPT ![u].auto = "no"]
    /\ UNCHANGED <<bal, tier, counter, badge>>

\* the part of the daily maintenance
Ended == {u \in Users : sub[u].st = "active" /\ sub[u].period = "monthly" /\ sub[u].till < day /\ sub[u].auto = "no"}
SubMaintain ==
    /\ sub' = [u \in Users |-> IF u \in Ended THEN [sub[u] EXCEPT !.st = "expired"] ELSE sub[u]]
    /\ counter' = Greater(0, counter - Cardinality(Ended))
    /\ UNCHANGED <<tier, badge>>

SubNext ==
    \/ \E t \in Tiers : SubCreate(t) \/ SubUpdate(t)
    \/ \E u \in Users : \/ SubCancel(u) \/ \E k \in Users : SubRenew(k, u)
                        \/ \E auto \in {"yes", "no"} : SubSubscribe(u, auto)

-----------------------------------------------------------------------------
(* Properties *)

SubType ==
    /\ tier \in Tiers \cup {NoTier} /\ counter \in Nat
    /\ \A u \in Users : /\ sub[u].st \in {"none", "active", "cancelled", "expired"}
                        /\ sub[u].st # "none" <=> u \in badge
                        /\ sub[u].renewals \in Nat /\ sub[u].till \in Nat

\* For every price a subscriber has paid there is a month of its own: no month is charged
\* twice, whoever sends the renewals.
MonthsAreServed ==
    \A u \in Users : sub[u].period = "monthly" =>
        sub[u].till >= sub[u].start + MonthDays * (sub[u].renewals + 1)

\* Not so in the code (section 4 of the README):
\* The counter is the number of active subscriptions.
SubscribersCounted == counter = Cardinality({u \in Users : sub[u].st = "active"})
\* "there is a subscription: renew it": who has had one may go on.
EndedMayReturn == \A u \in Users : sub[u].st \in {"cancelled", "expired"} => MayRenew(u)
=============================================================================
