----------------------------- MODULE SafetyNet ------------------------------
(***************************************************************************)
(* The reserve and what it pays for by itself (core/reserve.py): the       *)
(* funds made at every start and every day, the daily price and its        *)
(* average, the buy-back, the stake freeze, the compensation of            *)
(* validators, the subsidy of the seed nodes, the refill of the pools and  *)
(* the commemorative NFT.  Payouts and freezes by governance are in        *)
(* Governance, the pause of a network with few nodes is in Staking.        *)
(*                                                                         *)
(* The daily maintenance runs at any time of the day, also more than once: *)
(* a restart forgets that it has run.  Shares are rounded down.            *)
(***************************************************************************)
EXTENDS Oracle

CONSTANTS
    Validators, SeedNodes,  \* in the order in which they are paid
    Spendings,              \* what rewards and grants may take out of a pool
    Window, Week, Month,    \* days of prices, of the weekly limit, of a subsidy
    FreezeFor,              \* STAKE_FREEZE_DAYS
    EcoLine, ValLine, ReserveLine,        \* the safety lines
    Compensation, Subsidy, SailPrice, SailTotal

ASSUME SafetyNetAssumption ==
    /\ Validators \in Seq(Users) /\ SeedNodes \in Seq(Users) /\ Spendings \subseteq Nat \ {0}
    /\ {Window, Week, Month, Compensation, Subsidy, SailPrice} \subseteq Nat \ {0}

VARIABLES
    hist,       \* price_history: day -> price
    buys,       \* buyback_log, with what the reserve had before
    frozenTill, \* stake_freeze_until, 0 when none
    funds,      \* headwind_pool, seed_fund, payout_fund
    paidOn,     \* headwind_comp_paid, seed_subsidy_paid
    got,        \* history: days of compensation and months of subsidy a node has got
    sold,       \* sail_sold
    calm        \* in_headwind: fewer transactions than the line yesterday

netVars == <<hist, buys, frozenTill, funds, paidOn, got, sold, calm>>

NetInit ==
    /\ hist = <<>> /\ buys = {} /\ frozenTill = 0 /\ sold = 0 /\ calm = "no"
    /\ funds = [headwind |-> 0, seed |-> 0, payout |-> 0]
    /\ paidOn = [day |-> [u \in Users |-> -1], month |-> [u \in Users |-> -1]]
    /\ got = [days |-> [u \in Users |-> 0], months |-> [u \in Users |-> 0]]

-----------------------------------------------------------------------------
\* the daily maintenance, on a world w of balances and of the variables above

\* seed_funds: also what has run empty is filled again
Seeded(b) == [a \in DOMAIN b |-> IF a \in {Reserve, Eco, ValPool} /\ b[a] <= 0 THEN Genesis[a] ELSE b[a]]

\* a share of the reserve makes a fund that is empty
Founded(w, fund, pct) ==
    IF w.funds[fund] > 0 THEN w
    ELSE LET n == (w.bal[Reserve] * pct) \div 100
         IN  [w EXCEPT !.bal = Give(@, Reserve, -n), !.funds[fund] = n]

PriceRecorded(w) ==
    IF feed.price = 0 THEN w
    ELSE [w EXCEPT !.hist = [d \in {e \in DOMAIN @ \cup {day} : e > day - Window} |->
                                IF d = day THEN feed.price ELSE @[d]]]

\* the price is at most (at least) pct per cent of the average; never without two days
Known(w)        == Cardinality(DOMAIN w.hist) >= 2 /\ feed.price # 0
AtMost(w, pct)  == feed.price * Cardinality(DOMAIN w.hist) * 100 <= Total(w.hist) * pct
Above(w, pct)   == feed.price * Cardinality(DOMAIN w.hist) * 100 > Total(w.hist) * pct

Amounts(S) == FoldSet(LAMBDA b, n : n + b.amt, 0, S)
BuyShare(w) == IF AtMost(w, 30) THEN 5 ELSE IF AtMost(w, 50) THEN 2 ELSE IF AtMost(w, 70) THEN 1 ELSE 0
BugSpent(w, days) == Amounts({b \in w.buys : b.day = day})
Spent(w, days) == Amounts({b \in w.buys : b.day > day - days})
BoughtBack(w) ==
    LET r == w.bal[Reserve]
        n == Lesser((r * BuyShare(w)) \div 100,
                    Lesser(r \div 100 - Spent(w, 1), (r * 3) \div 100 - Spent(w, Week)))
    IN  IF ~Known(w) \/ n <= 0 THEN w
        ELSE [w EXCEPT !.bal = Move(@, Reserve, Dead, n),
                       !.buys = @ \cup {[day |-> day, amt |-> n, held |-> r, share |-> BuyShare(w)]}]

\* thawed when the price is back at 80 %; frozen at 50 %, with 5 % of the fund set aside
FreezeUpdated(w) ==
    LET n == (w.bal[Eco] * 5) \div 100
    IN  IF ~Known(w) THEN w
        ELSE IF w.frozenTill > day
             THEN IF Above(w, 80) THEN [w EXCEPT !.frozenTill = 0] ELSE w
        ELSE IF ~AtMost(w, 50) THEN w
        ELSE IF w.funds.headwind > 0 THEN [w EXCEPT !.frozenTill = day + FreezeFor]
        ELSE [w EXCEPT !.frozenTill = day + FreezeFor, !.bal = Give(@, Eco, -n), !.funds.headwind = n]

\* each node once in a period, n at most
Paid(w, u, fund, n, kind, period, count) ==
    IF w.paidOn[kind][u] = period \/ n <= 0 THEN w
    ELSE [w EXCEPT !.bal = Give(@, u, n), !.funds[fund] = @ - n, !.paidOn[kind][u] = period,
                   !.got[count][u] = @ + 1]
Compensated(w) ==
    FoldLeft(LAMBDA x, u : Paid(x, u, "headwind", Lesser(Compensation, x.funds.headwind),
                                "day", day, "days"), w, Validators)
\* what this run has paid is taken off the fund twice
Subsidised(w) ==
    IF calm = "no" THEN w
    ELSE FoldLeft(LAMBDA x, u : Paid(x, u, "seed", Lesser(Subsidy, 2 * x.funds.seed - w.funds.seed),
                                     "month", day \div Month, "months"), w, SeedNodes)

\* a pool below its line gets a share of a reserve above its own
Refilled(w, a, line, pct) ==
    LET n == (w.bal[Reserve] * pct) \div 100
    IN  IF w.bal[Reserve] < ReserveLine \/ w.bal[a] >= line THEN w
        ELSE [w EXCEPT !.bal = Move(@, Reserve, a, n)]

NetWorld == [bal |-> bal, hist |-> hist, buys |-> buys, frozenTill |-> frozenTill, funds |-> funds,
             paidOn |-> paidOn, got |-> got]
Maintained(w) ==
    LET a == Founded(Founded([w EXCEPT !.bal = Seeded(@)], "seed", 3), "payout", 2)
        b == FreezeUpdated(BoughtBack(PriceRecorded(a)))
        c == Subsidised(Compensated(b))
    IN  Refilled(Refilled(c, Eco, EcoLine, 20), ValPool, ValLine, 30)

NetMaintain(b) ==
    LET w == Maintained([NetWorld EXCEPT !.bal = b])
    IN  /\ bal' = w.bal /\ hist' = w.hist /\ buys' = w.buys /\ frozenTill' = w.frozenTill
        /\ funds' = w.funds /\ paidOn' = w.paidOn /\ got' = w.got
        /\ UNCHANGED <<sold, calm>>

-----------------------------------------------------------------------------
\* the node starts again and fills its funds
NetRestart ==
    /\ part = "reserve" /\ bal' = Seeded(bal) /\ bal' # bal
    /\ UNCHANGED <<day, ops, part, netVars>>

SailMint(u) ==
    /\ Tx("reserve", u, SailPrice)
    /\ bal[Eco] < EcoLine /\ bal[ValPool] < ValLine /\ sold < SailTotal
    /\ bal' = Move(bal, u, Eco, SailPrice) /\ sold' = sold + 1
    /\ UNCHANGED <<hist, buys, frozenTill, funds, paidOn, got, calm>>

\* rewards and grants of the other components; who gets them does not matter here
PoolIsSpent(a, n) ==
    /\ part = "reserve" /\ ops < MaxOps[part] /\ ops' = ops + 1
    /\ a \in {Eco, ValPool} /\ bal[a] >= n /\ bal' = Move(bal, a, CHOOSE u \in Users : TRUE, n)
    /\ UNCHANGED <<day, part, netVars>>

NetNext ==
    \/ NetRestart
    \/ \E u \in Users : SailMint(u)
    \/ \E n \in Spendings, a \in {Eco, ValPool} : PoolIsSpent(a, n)

-----------------------------------------------------------------------------
(* Properties *)

NetType ==
    /\ \A a \in {Eco, Reserve, ValPool, Dead} : bal[a] \in Nat
    /\ funds \in [{"headwind", "seed", "payout"} -> Nat]
    /\ \A b \in buys : b.amt \in Nat \ {0}
    /\ frozenTill \in 0 .. day + FreezeFor /\ sold \in 0 .. SailTotal

NetNova == funds.headwind + funds.seed + funds.payout

\* In any week no more is bought back than 3 % of what the reserve had before it, on any
\* day no more than 1 %, however often the maintenance runs; a node is compensated once a
\* day and subsidised once a month.
BuyBacksAreCapped ==
    \A b \in buys : /\ 100 * Amounts({c \in buys : c.day \in b.day .. b.day + Week - 1 /\ c.held <= b.held})
                        <= 3 * b.held
                    /\ 100 * Amounts({c \in buys : c.day = b.day}) <= b.held
PayoutsArePaced ==
    /\ BuyBacksAreCapped
    /\ \A u \in Users : got.days[u] <= day + 1 /\ got.months[u] <= day \div Month + 1

\* Not so in the code (section 4 of the README):
\* "below the average by 50 %: the buy-back doubles".
CrashBuysMore == \A b \in buys : b.share > 1 => 100 * b.amt > b.held
\* "during the freeze": compensation is paid while stakes are frozen.
CompensatedInFreeze == [][got'.days # got.days => frozenTill' > day]_netVars
\* The stakes thaw early only after the price has risen.
ThawedByARise ==
    [][frozenTill > day /\ frozenTill' = 0
       => \E d \in DOMAIN hist : hist[d] < feed.price]_netVars
\* The subsidy goes on while there is something in its fund.
SubsidyIsPaidOut ==
    [][got'.months # got.months
       => \/ funds'.seed = 0
          \/ \A i \in DOMAIN SeedNodes : paidOn'.month[SeedNodes[i]] = day \div Month]_netVars
\* "made when empty at genesis": a fund is filled from nothing at most once.
FilledOnce == [][\A a \in {Eco, Reserve, ValPool} : bal[a] = 0 => bal'[a] < Genesis[a]]_bal
=============================================================================
