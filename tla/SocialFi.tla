------------------------------ MODULE SocialFi ------------------------------
(***************************************************************************)
(* The creator economy (core/socialfi.py): fan tokens with proposals,      *)
(* revenue shares, prediction markets, blind boxes, curations, creator     *)
(* bonds, fractions of an NFT, texts with a deposit and a jury, and AI     *)
(* identities with a daily budget.  There is one object of each kind, all  *)
(* on one ledger; posts, likes, follows and awards move no money and are   *)
(* left out, and so is gas.                                                *)
(*                                                                         *)
(* Time is in days.  What tx.amount says is what validate_op compares it   *)
(* with.  A deposit of 10 NOVA is 160 units, so that the discount for      *)
(* reputation is a whole number; shares are rounded down.                  *)
(***************************************************************************)
EXTENDS Integers, FiniteSets, Functions

CONSTANTS
    Creator, Users, Jury,   \* who offers, who buys, the text validators
    Bot, Owner,             \* an AI identity among the users, and its owner
    Wealth,
    Supply, FanPrice, Stakes, BondAmounts, FundAmounts, Royalties,
    BoxPrice, Reserves, Prizes, CuratePrice, FractionPrice, TextPrice, Budgets,
    Rate, Term, Release, JuryTimeout, Quorum, JuryMax,
    Games,                  \* bound: a behaviour plays one of these
    MaxOps, MaxDay          \* bounds: transactions, days

Nobody == "nobody"
Eco    == "eco"
Escrow == "0x_text_escrow"
People == Users \cup Jury \cup {Creator, Owner}
Addr   == People \cup {Eco, Escrow}
Options == {"yes", "no"}

ASSUME SocialFiAssumption ==
    /\ IsFiniteSet(Users) /\ IsFiniteSet(Jury) /\ Creator \notin Users /\ Bot \in Users
    /\ Eco \notin People /\ Escrow \notin People
    /\ Wealth \in [People -> Nat]
    /\ \A S \in {Stakes, BondAmounts, FundAmounts, Royalties, Budgets} : S \subseteq Nat \ {0}
    /\ Reserves \subseteq Nat /\ Prizes \subseteq Nat
    /\ {Supply, FanPrice, BoxPrice, CuratePrice, FractionPrice, TextPrice, Rate, Term, Release,
        JuryTimeout, Quorum, JuryMax} \subseteq Nat \ {0}
    /\ MaxOps \in Nat /\ MaxDay \in Nat \ {0}

VARIABLES
    bal,
    fan, rev, mkt, box, cur, bond, frac, text,   \* one object of each kind
    ai, rep,                \* ai_creators with ai_daily_spend, text_reputation
    now, ops, game

objects == <<fan, rev, mkt, box, cur, bond, frac, text>>
vars    == <<bal, objects, ai, rep, now, ops, game>>

None(S)  == [x \in S |-> 0]
NoPoll   == [st |-> "none", count |-> None(Options), closes |-> 0, voted |-> {}]
NoTrial  == [st |-> "none", by |-> Nobody, votes |-> [j \in Jury |-> ""], started |-> 0,
             escalated |-> "no"]
NoText   == [st |-> "none", deposit |-> 0, released |-> "yes", buyers |-> {}, at |-> 0, trial |-> NoTrial]

Init ==
    /\ bal = [a \in Addr |-> IF a \in People THEN Wealth[a] ELSE 0]
    /\ fan  = [st |-> "none", sold |-> 0, holders |-> None(Users), poll |-> [u \in Users |-> NoPoll]]
    /\ rev  = [st |-> "none", investors |-> None(Users), paid |-> None(Users), pool |-> 0,
               pooled |-> 0, late |-> "no"]
    /\ mkt  = [st |-> "none", closes |-> 0, bets |-> [o \in Options |-> None(Users)],
               outcome |-> "", paid |-> 0]
    /\ box  = [st |-> "none", creator |-> Nobody, reserve |-> 0]
    /\ cur  = [st |-> "none", owners |-> {}]
    /\ bond = [st |-> "none", sold |-> None(Users), pool |-> 0, matures |-> 0]
    /\ frac = [st |-> "none", hold |-> 0, fractions |-> None(Users \cup {Creator})]
    /\ text = NoText
    /\ ai   = [st |-> "none", budget |-> 0, spent |-> 0]
    /\ rep  = None(People)
    /\ now = 1 /\ ops = 0 /\ game \in Games

-----------------------------------------------------------------------------
Smaller(a, b) == IF a < b THEN a ELSE b
Larger(a, b)  == IF a > b THEN a ELSE b
Sum(f)        == SumFunction(f)
Move(b, from, to, n) == [[b EXCEPT ![from] = @ - n] EXCEPT ![to] = @ + n]
Give(b, to, n)       == [b EXCEPT ![to] = @ + n]

\* validate_tx: the balance covers the amount, and an AI identity its budget of the day
MaySpend(u, n) ==
    bal[u] >= n /\ (u = Bot /\ ai.st # "none" => ai.st = "active" /\ ai.spent + n <= ai.budget)
Recorded(u, n) == IF u = Bot /\ ai.st # "none" THEN [ai EXCEPT !.spent = @ + n] ELSE ai

\* a transaction of u over the amount n in the game g
Tx(g, u, n) ==
    /\ game = g /\ ops < MaxOps /\ MaySpend(u, n)
    /\ ops' = ops + 1 /\ ai' = Recorded(u, n) /\ UNCHANGED <<now, game>>

\* 90 % to the author, the rest to the ecosystem fund
Sold(b, buyer, author, price) ==
    LET share == (price * 90) \div 100
    IN  Move(Move(b, buyer, author, share), buyer, Eco, price - share)

-----------------------------------------------------------------------------
\* fan tokens: the price grows with what is sold

FanPriceAt(qty) == (FanPrice * qty * (Supply + fan.sold)) \div Supply

FanIssue ==
    /\ Tx("fan", Creator, 0) /\ fan.st = "none" /\ fan' = [fan EXCEPT !.st = "issued"]
    /\ UNCHANGED <<bal, rev, mkt, box, cur, bond, frac, text, rep>>
\* mutant: the supply is not a limit
FanBuy(u, qty) ==
    /\ Tx("fan", u, FanPriceAt(qty)) /\ fan.st = "issued" /\ fan.sold + qty <= Supply
    /\ bal' = Move(bal, u, Creator, FanPriceAt(qty))
    /\ fan' = [fan EXCEPT !.sold = @ + qty, !.holders[u] = @ + qty]
    /\ UNCHANGED <<rev, mkt, box, cur, bond, frac, text, rep>>

\* The identifier is made of the proposer, the title and the period: the same proposal
\* made again begins again.
FanPropose(u) ==
    /\ Tx("fan", u, 0) /\ fan.holders[u] >= 1
    /\ fan' = [fan EXCEPT !.poll[u] = [NoPoll EXCEPT !.st = "open", !.closes = now + 1]]
    /\ UNCHANGED <<bal, rev, mkt, box, cur, bond, frac, text, rep>>
\* mutant: who has voted votes again
FanVote(u, p, option) ==
    /\ Tx("fan", u, 0) /\ fan.holders[u] >= 1
    /\ fan.poll[p].st = "open" /\ u \notin fan.poll[p].voted /\ now < fan.poll[p].closes
    /\ fan' = [fan EXCEPT !.poll[p].count[option] = @ + fan.holders[u], !.poll[p].voted = @ \cup {u}]
    /\ UNCHANGED <<bal, rev, mkt, box, cur, bond, frac, text, rep>>

-----------------------------------------------------------------------------
\* revenue shares

\* mutant: a share of what is in the pool, however much was claimed before
BugPendingClaim(u) ==
    LET total == Sum(rev.investors)
    IN  IF rev.pool = 0 \/ total = 0 THEN 0 ELSE (rev.investors[u] * rev.pool) \div total

PendingClaim(u) ==
    LET total == Sum(rev.investors)
        due == (rev.investors[u] * rev.pooled) \div total - rev.paid[u]
    IN  IF rev.pool = 0 \/ total = 0 THEN 0 ELSE Larger(0, Smaller(due, rev.pool))

RevCreate ==
    /\ Tx("rev", Creator, 0) /\ rev.st = "none" /\ rev' = [rev EXCEPT !.st = "open"]
    /\ UNCHANGED <<bal, fan, mkt, box, cur, bond, frac, text, rep>>

\* late is history: somebody came in after a royalty
RevInvest(u, n) ==
    /\ Tx("rev", u, n) /\ rev.st = "open"
    /\ bal' = Move(bal, u, Creator, n)
    /\ rev' = [rev EXCEPT !.investors[u] = @ + n, !.late = IF rev.pooled > 0 THEN "yes" ELSE @]
    /\ UNCHANGED <<fan, mkt, box, cur, bond, frac, text, rep>>

RevRoyalty(n) ==
    /\ Tx("rev", Creator, n) /\ rev.st = "open"
    /\ bal' = [bal EXCEPT ![Creator] = @ - n]
    /\ rev' = [rev EXCEPT !.pool = @ + n, !.pooled = @ + n]
    /\ UNCHANGED <<fan, mkt, box, cur, bond, frac, text, rep>>

RevClaim(u) ==
    /\ Tx("rev", u, 0) /\ rev.investors[u] > 0 /\ PendingClaim(u) > 0
    /\ bal' = Give(bal, u, PendingClaim(u))
    /\ rev' = [rev EXCEPT !.pool = @ - PendingClaim(u), !.paid[u] = @ + PendingClaim(u)]
    /\ UNCHANGED <<fan, mkt, box, cur, bond, frac, text, rep>>

-----------------------------------------------------------------------------
\* prediction markets; the creator is the oracle

Pool(o) == Sum(mkt.bets[o])
Total   == Pool("yes") + Pool("no")

MarketCreate ==
    /\ Tx("mkt", Creator, 0) /\ mkt.st = "none"
    /\ mkt' = [mkt EXCEPT !.st = "open", !.closes = now + 1]
    /\ UNCHANGED <<bal, fan, rev, box, cur, bond, frac, text, rep>>

MarketBet(u, option, n) ==
    /\ Tx("mkt", u, n) /\ mkt.st = "open" /\ now < mkt.closes
    /\ bal' = [bal EXCEPT ![u] = @ - n] /\ mkt' = [mkt EXCEPT !.bets[option][u] = @ + n]
    /\ UNCHANGED <<fan, rev, box, cur, bond, frac, text, rep>>

\* 2 % go to the fund and the rest to the winners; without a winner nothing is paid
MarketSettle(outcome) ==
    LET fee == (Total * 2) \div 100
        prize(u) == (mkt.bets[outcome][u] * (Total - fee)) \div Pool(outcome)
        prizes == [u \in Users |-> prize(u)]
    IN  /\ Tx("mkt", Creator, 0) /\ mkt.st = "open" /\ now >= mkt.closes
        /\ mkt' = [mkt EXCEPT !.st = "settled", !.outcome = outcome,
                              !.paid = IF Pool(outcome) = 0 THEN 0 ELSE fee + Sum(prizes)]
        /\ bal' = IF Pool(outcome) = 0 THEN bal
                  ELSE [a \in Addr |-> bal[a] + (IF a = Eco THEN fee ELSE 0)
                                              + (IF a \in Users THEN prizes[a] ELSE 0)]
        /\ UNCHANGED <<fan, rev, box, cur, bond, frac, text, rep>>

-----------------------------------------------------------------------------
\* blind boxes: the seed is revealed before the first opening; the draw may give any tier

\* The reserve is not part of tx.amount, which is 0.
BoxCreate(u, reserve) ==
    /\ Tx("box", u, 0) /\ box.st = "none" /\ bal[u] >= reserve
    /\ bal' = [bal EXCEPT ![u] = @ - reserve]
    /\ box' = [box EXCEPT !.st = "listed", !.creator = u, !.reserve = reserve]
    /\ UNCHANGED <<fan, rev, mkt, cur, bond, frac, text, rep>>

BoxReveal ==
    /\ box.st = "listed" /\ Tx("box", box.creator, 0) /\ box' = [box EXCEPT !.st = "revealed"]
    /\ UNCHANGED <<bal, fan, rev, mkt, cur, bond, frac, text, rep>>

\* mutant: the prize is paid in full
BugBoxOpen(u, prize) ==
    /\ Tx("box", u, BoxPrice) /\ box.st = "revealed" /\ u # box.creator
    /\ bal' = Give(Move(bal, u, box.creator, BoxPrice), u, prize)
    /\ box' = [box EXCEPT !.reserve = Larger(0, @ - prize)]
    /\ UNCHANGED <<fan, rev, mkt, cur, bond, frac, text, rep>>

\* the prize is cut to what is left of the reserve
BoxOpen(u, prize) ==
    LET paid == Smaller(prize, box.reserve) IN
    /\ Tx("box", u, BoxPrice) /\ box.st = "revealed" /\ u # box.creator
    /\ bal' = Give(Move(bal, u, box.creator, BoxPrice), u, paid)
    /\ box' = [box EXCEPT !.reserve = @ - paid]
    /\ UNCHANGED <<fan, rev, mkt, cur, bond, frac, text, rep>>

-----------------------------------------------------------------------------
\* curations and fractions

CurateCreate ==
    /\ Tx("cur", Creator, 0) /\ cur.st = "none"
    /\ cur' = [cur EXCEPT !.st = "open", !.owners = {Creator}]
    /\ UNCHANGED <<bal, fan, rev, mkt, box, bond, frac, text, rep>>

CurateBuy(u) ==
    /\ Tx("cur", u, CuratePrice) /\ cur.st = "open" /\ u \notin cur.owners
    /\ bal' = Sold(bal, u, Creator, CuratePrice) /\ cur' = [cur EXCEPT !.owners = @ \cup {u}]
    /\ UNCHANGED <<fan, rev, mkt, box, bond, frac, text, rep>>

FractionSplit ==
    /\ Tx("frac", Creator, 0) /\ frac.st = "none"
    /\ frac' = [st |-> "split", hold |-> Supply, fractions |-> [frac.fractions EXCEPT ![Creator] = Supply]]
    /\ UNCHANGED <<bal, fan, rev, mkt, box, cur, bond, text, rep>>

\* what the owner still holds falls, its entry among the fractions does not
FractionBuy(u, qty) ==
    /\ Tx("frac", u, qty * FractionPrice) /\ frac.st = "split" /\ qty <= frac.hold
    /\ bal' = Move(bal, u, Creator, qty * FractionPrice)
    /\ frac' = [frac EXCEPT !.hold = @ - qty, !.fractions[u] = @ + qty]
    /\ UNCHANGED <<fan, rev, mkt, box, cur, bond, text, rep>>

-----------------------------------------------------------------------------
\* creator bonds: the creator keeps what is paid and funds a pool for the redemption

OwedTo(n) == (n * (100 + Rate)) \div 100
BondOwed  == OwedTo(Sum(bond.sold))

BondIssue ==
    /\ Tx("bond", Creator, 0) /\ bond.st = "none"
    /\ bond' = [bond EXCEPT !.st = "issued", !.matures = now + Term]
    /\ UNCHANGED <<bal, fan, rev, mkt, box, cur, frac, text, rep>>

BondBuy(u, n) ==
    /\ Tx("bond", u, n) /\ bond.st = "issued" /\ now < bond.matures
    /\ bal' = Move(bal, u, Creator, n) /\ bond' = [bond EXCEPT !.sold[u] = @ + n]
    /\ UNCHANGED <<fan, rev, mkt, box, cur, frac, text, rep>>

BondFund(n) ==
    /\ Tx("bond", Creator, n) /\ bond.st = "issued"
    /\ bal' = [bal EXCEPT ![Creator] = @ - n] /\ bond' = [bond EXCEPT !.pool = @ + n]
    /\ UNCHANGED <<fan, rev, mkt, box, cur, frac, text, rep>>

\* mutant: first come, first served
BugBondPayout(u) == Smaller(OwedTo(bond.sold[u]), bond.pool)

\* A pool that does not cover what is owed pays everybody the same share of it.
BondPayout(u) ==
    IF bond.pool >= BondOwed THEN OwedTo(bond.sold[u])
    ELSE (OwedTo(bond.sold[u]) * bond.pool) \div BondOwed

BondRedeem(u) ==
    LET paid == BondPayout(u)
        sold == IF paid > 0 THEN [bond.sold EXCEPT ![u] = 0] ELSE bond.sold
        done == (\A v \in Users : sold[v] = 0) \/ bond.pool = paid
    IN  /\ Tx("bond", u, 0) /\ bond.st = "issued" /\ now >= bond.matures
        /\ bond.sold[u] > 0 /\ bond.pool > 0
        /\ bal' = Give(bal, u, paid)
        /\ bond' = [bond EXCEPT !.sold = sold, !.pool = @ - paid,
                                !.st = IF done THEN "settled" ELSE @]
        /\ UNCHANGED <<fan, rev, mkt, box, cur, frac, text, rep>>

-----------------------------------------------------------------------------
\* sealed texts: a deposit in the common escrow answers for what the buyers get

Bump(r, u, n)     == [r EXCEPT ![u] = Smaller(100, Larger(0, @ + n))]
DepositRequired   == 160 - Smaller(80, rep[Creator])
MayBuyText(u)     == text.st = "listed" /\ u \notin text.buyers
MayRelease        == text.st \in {"unlisted", "destroyed"} /\ text.released = "no" /\ now >= text.at
MayComplain(u)    == text.st \in {"listed", "unlisted"} /\ u \in text.buyers
InDispute(t)      == t.trial.st = "open"
Votes(t, side)    == Cardinality({j \in Jury : t.trial.votes[j] = side})
Voted(t)          == Cardinality({j \in Jury : t.trial.votes[j] # ""})
MayVote(j)        == InDispute(text) /\ text.trial.votes[j] = "" /\ Voted(text) < JuryMax

TextCreate ==
    /\ text.st \in {"none", "destroyed"} /\ Tx("text", Creator, DepositRequired)
    /\ bal' = Move(bal, Creator, Escrow, DepositRequired)
    /\ text' = [NoText EXCEPT !.st = "listed", !.deposit = DepositRequired, !.released = "no"]
    /\ UNCHANGED <<fan, rev, mkt, box, cur, bond, frac, rep>>

TextBuy(u) ==
    /\ MayBuyText(u) /\ Tx("text", u, TextPrice)
    /\ bal' = Sold(bal, u, Creator, TextPrice)
    /\ text' = [text EXCEPT !.buyers = @ \cup {u}]
    /\ rep' = Bump(Bump(rep, Creator, 2), u, 1)
    /\ UNCHANGED <<fan, rev, mkt, box, cur, bond, frac>>

\* The code asks for a mark "disputed" that is set nowhere: a dispute stops nothing.
TextUnlist ==
    /\ text.st = "listed" /\ Tx("text", Creator, 0)
    /\ text' = [text EXCEPT !.st = "unlisted", !.at = now + Release]
    /\ UNCHANGED <<bal, fan, rev, mkt, box, cur, bond, frac, rep>>
\* mutant: the deposit is returned whether or not it was before
BugTextDestroy ==
    /\ text.st \in {"listed", "unlisted"} /\ Tx("text", Creator, 0)
    /\ bal' = Move(bal, Escrow, Creator, text.deposit)
    /\ text' = [text EXCEPT !.st = "destroyed", !.at = now, !.released = "yes"]
    /\ UNCHANGED <<fan, rev, mkt, box, cur, bond, frac, rep>>

TextDestroy ==
    /\ text.st \in {"listed", "unlisted"} /\ Tx("text", Creator, 0)
    /\ bal' = IF text.released = "yes" THEN bal ELSE Move(bal, Escrow, Creator, text.deposit)
    /\ text' = [text EXCEPT !.st = "destroyed", !.at = now, !.released = "yes"]
    /\ UNCHANGED <<fan, rev, mkt, box, cur, bond, frac, rep>>

ReleaseDeposit ==
    /\ MayRelease /\ Tx("text", Creator, 0)
    /\ bal' = Move(bal, Escrow, Creator, text.deposit)
    /\ text' = [text EXCEPT !.released = "yes"]
    /\ UNCHANGED <<fan, rev, mkt, box, cur, bond, frac, rep>>

\* a new complaint replaces the one before, votes and all
TextComplain(u) ==
    /\ MayComplain(u) /\ Tx("text", u, 0)
    /\ text' = [text EXCEPT !.trial = [NoTrial EXCEPT !.st = "open", !.by = u, !.started = now]]
    /\ UNCHANGED <<bal, fan, rev, mkt, box, cur, bond, frac, rep>>

\* Half of the deposit compensates the buyer and half is forfeited, or the author has it
\* back; the escrow pays whether or not the deposit is still there.
TextExecute(w, winner) ==
    LET t == w.text
        half == t.deposit \div 2
        side == {j \in Jury : t.trial.votes[j] = winner}
        won == [a \in People |-> IF a \in side THEN Smaller(100, w.rep[a] + 3) ELSE w.rep[a]]
    IN  [text |-> [t EXCEPT !.trial.st = winner, !.released = "yes"],
         bal |-> IF winner = "buyer"
                 THEN Move(Move(w.bal, Escrow, t.trial.by, half), Escrow, Eco, t.deposit - half)
                 ELSE Move(w.bal, Escrow, Creator, t.deposit),
         rep |-> IF winner = "buyer" THEN Bump(Bump(won, Creator, -20), t.trial.by, 5) ELSE won]

\* mutant: time alone decides nothing
BugTextSettle(w) ==
    LET t == w.text
        n == Voted(t)
        b == Votes(t, "buyer")
        s == Votes(t, "seller")
        winner == IF b > s THEN "buyer" ELSE "seller"
    IN  IF ~InDispute(t) \/ n < Quorum THEN w
        ELSE IF t.trial.escalated = "no"
             THEN IF Larger(b, s) * 3 >= 2 * n THEN TextExecute(w, winner)
                  ELSE [w EXCEPT !.text.trial.escalated = "yes"]
        ELSE IF n >= JuryMax THEN TextExecute(w, winner) ELSE w

\* two thirds decide, a tie goes to the larger jury, silence is for the seller
TextSettle(w) ==
    LET t == w.text
        n == Voted(t)
        b == Votes(t, "buyer")
        s == Votes(t, "seller")
        winner == IF b > s THEN "buyer" ELSE "seller"
    IN  IF ~InDispute(t) THEN w
        ELSE IF n < Quorum
             THEN IF now - t.trial.started > JuryTimeout THEN TextExecute(w, "seller") ELSE w
        ELSE IF t.trial.escalated = "no"
             THEN IF Larger(b, s) * 3 >= 2 * n THEN TextExecute(w, winner)
                  ELSE [w EXCEPT !.text.trial.escalated = "yes"]
        ELSE IF n >= JuryMax THEN TextExecute(w, winner) ELSE w

TextBecomes(w) == text' = w.text /\ bal' = w.bal /\ rep' = w.rep

TextVote(j, side) ==
    /\ MayVote(j) /\ Tx("text", j, 0)
    /\ TextBecomes(TextSettle([text |-> [text EXCEPT !.trial.votes[j] = side], bal |-> bal, rep |-> rep]))
    /\ UNCHANGED <<fan, rev, mkt, box, cur, bond, frac>>

-----------------------------------------------------------------------------
\* AI identities

AiRegister(budget) ==
    /\ ai.st = "none" /\ game = "box" /\ ops < MaxOps
    /\ ai' = [ai EXCEPT !.st = "active", !.budget = budget] /\ ops' = ops + 1
    /\ UNCHANGED <<bal, objects, rep, now, game>>

AiConfig(change) ==
    /\ ai.st # "none" /\ game = "box" /\ ops < MaxOps
    /\ ai' = change /\ ai' # ai /\ ops' = ops + 1
    /\ UNCHANGED <<bal, objects, rep, now, game>>

AiChanges == {[ai EXCEPT !.st = "paused"], [ai EXCEPT !.st = "active"]}
             \cup {[ai EXCEPT !.budget = b] : b \in Budgets}

-----------------------------------------------------------------------------
\* a day passes; the budget window is a calendar day
Day ==
    /\ now < MaxDay /\ now' = now + 1 /\ ai' = [ai EXCEPT !.spent = 0]
    /\ UNCHANGED <<bal, objects, rep, ops, game>>

\* the daily maintenance settles what is overdue
Maintain ==
    /\ InDispute(text)
    /\ TextBecomes(TextSettle([text |-> text, bal |-> bal, rep |-> rep]))
    /\ UNCHANGED <<fan, rev, mkt, box, cur, bond, frac, ai, now, ops, game>>

Next ==
    \/ FanIssue \/ RevCreate \/ MarketCreate \/ BoxReveal \/ CurateCreate \/ FractionSplit \/ BondIssue
    \/ TextCreate \/ TextUnlist \/ TextDestroy \/ ReleaseDeposit \/ Day \/ Maintain
    \/ \E u \in Users : \/ FanPropose(u) \/ RevClaim(u) \/ CurateBuy(u) \/ BondRedeem(u)
                        \/ TextBuy(u) \/ TextComplain(u)
                        \/ \E q \in 1 .. Supply : FanBuy(u, q) \/ FractionBuy(u, q)
                        \/ \E p \in Users, o \in Options : FanVote(u, p, o)
                        \/ \E n \in Stakes : RevInvest(u, n)
                        \/ \E o \in Options, n \in Stakes : MarketBet(u, o, n)
                        \/ \E n \in BondAmounts : BondBuy(u, n)
                        \/ \E n \in Prizes : BoxOpen(u, n)
    \/ \E n \in Royalties : RevRoyalty(n)
    \/ \E n \in FundAmounts : BondFund(n)
    \/ \E o \in Options : MarketSettle(o)
    \/ \E u \in Users \cup {Creator}, r \in Reserves : BoxCreate(u, r)
    \/ \E j \in Jury, side \in {"buyer", "seller", "abstain"} : TextVote(j, side)
    \/ \E b \in Budgets : AiRegister(b)
    \/ \E change \in AiChanges : AiConfig(change)

Spec == Init /\ [][Next]_vars /\ WF_vars(Day) /\ WF_vars(Maintain)

-----------------------------------------------------------------------------
(* Properties *)

\* The type of the state: stocks are never negative, the spending of an identity is counted,
\* a trial has votes only of the jury.
TypeOK ==
    /\ \A p \in People : bal[p] \in Nat /\ rep[p] \in 0 .. 100
    /\ bal[Eco] \in Nat /\ bal[Escrow] \in Int
    /\ fan.sold \in 0 .. Supply /\ fan.sold = Sum(fan.holders)
    /\ rev.pool \in 0 .. rev.pooled /\ rev.paid \in [Users -> Nat]
    /\ mkt.paid \in 0 .. Total /\ box.reserve \in Nat /\ bond.pool \in Nat
    /\ frac.hold \in 0 .. Supply /\ frac.fractions \in [Users \cup {Creator} -> 0 .. Supply]
    /\ text.deposit \in Nat /\ text.buyers \subseteq Users
    /\ text.trial.votes \in [Jury -> {"", "buyer", "seller", "abstain"}]
    /\ ai.st \in {"none", "active", "paused"} /\ ai.spent \in Nat
    /\ now \in 1 .. MaxDay /\ ops \in 0 .. MaxOps /\ game \in Games

\* Prizes, claims, prices and deposits only move NOVA: what the games hold and what
\* everybody owns is always what there was.
NovaAddsUp ==
    Sum(bal) + rev.pool + (Total - mkt.paid) + box.reserve + bond.pool = Sum(Wealth)

\* No stock is overdrawn, and together they are what there was.
BooksBalance == TypeOK /\ NovaAddsUp

\* While nobody invested after a royalty, the pool covers every claim at once: no claim
\* depends on who comes first.  (With a late investor it does: RoyaltyForAll.)
RoyaltyForAll   == Sum([u \in Users |-> LET total == Sum(rev.investors) IN
                        IF total = 0 THEN 0
                        ELSE Larger(0, (rev.investors[u] * rev.pooled) \div total - rev.paid[u])])
                   <= rev.pool
PoolCoversClaims == rev.late = "no" => RoyaltyForAll

\* Who redeems a bond leaves to the others at least the share of their claim that the pool
\* had before.
RedeemingHurtsNobody ==
    [][bond'.sold # bond.sold /\ bond'.pool < bond.pool
       => bond'.pool * BondOwed >= bond.pool * BondOwed']_vars

\* Nobody votes twice on a proposal and nobody's tokens count twice.
PollWithinSupply ==
    \A p \in Users : Sum(fan.poll[p].count) <= Sum([u \in Users |->
        IF u \in fan.poll[p].voted THEN fan.holders[u] ELSE 0])

\* No token is voted and no share claimed a second time.
NothingCountsTwice == PoolCoversClaims /\ PollWithinSupply

\* The escrow moves by what becomes or ceases to be a deposit.  The exception is the verdict
\* on a text whose deposit is gone, which the code pays again (DepositPaidOnce).
Held == IF text.released = "no" THEN text.deposit ELSE 0
EscrowHoldsDeposits ==
    [][\/ text.released = "yes" /\ InDispute(text) /\ ~InDispute(text') /\ text'.trial # NoTrial
       \/ bal'[Escrow] - bal[Escrow] = Held' - Held]_vars

\* A dispute that too few vote on ends with the maintenance after its time.
Watched == text.trial.started + JuryTimeout < MaxDay
SilenceEnds == (InDispute(text) /\ Watched) ~> (~InDispute(text) \/ ~Watched \/ Voted(text) >= Quorum)

\* Not so in the code (section 4 of the README):
\* "from the deposit pool": a deposit is paid once.
DepositPaidOnce == bal[Escrow] = Held
\* "no result in time counts for the seller": a dispute ends.
DisputeEnds == (InDispute(text) /\ Watched) ~> (~InDispute(text) \/ ~Watched)
\* The fractions are what was split.
FractionsAddUp == frac.st = "split" => Sum(frac.fractions) = Supply
\* All spending of an AI identity counts against its budget of the day.
BudgetCountsAll == [][ai.st # "none" => bal[Bot] - bal'[Bot] <= ai'.spent - ai.spent]_vars
\* A settled market keeps nothing but the rest of a division.
MarketIsPaidOut == mkt.st = "settled" => Total - mkt.paid <= Cardinality(Users)
=============================================================================
