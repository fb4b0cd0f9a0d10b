-------------------------------- MODULE Dex ---------------------------------
(***************************************************************************)
(* The exchange (core/dex.py): a constant-product pool of NOVA and a       *)
(* wrapped token, liquidity shares, the farm that shares are staked in,    *)
(* the pause and the rate that governance sets.  The pools know nothing of *)
(* each other: a behaviour has one of them, the two made at genesis or one *)
(* that a user creates.                                                    *)
(*                                                                         *)
(* NOVA and shares are whole; a token has Unit[pair] parts.  What a user   *)
(* gets and what is burned is rounded down.  The farm counts a day as its  *)
(* 86 400 seconds, which is what its formula multiplies the daily rate by. *)
(***************************************************************************)
EXTENDS Ledger

CONSTANTS
    Unit,                   \* [pair -> parts of a token]
    FirstReserves,          \* [pair -> <<NOVA, token>>], <<0, 0>> when not made at genesis
    Tokens,                 \* [pair -> parts of the token a user has]
    Amounts0, Amounts1,     \* [pair -> amounts tried, of NOVA and of the token]
    Rates,                  \* yearly rates of the farm, in per cent
    MinLiquidity            \* MINIMUM_LIQUIDITY

Pairs  == DOMAIN Unit
Holder == "0x_dex"

VARIABLES
    pool,       \* dex_pairs[pair]: reserves, shares, what was bought back
    tok,        \* bridge_assets[token1].balances
    lp,         \* dex_lp
    farm,       \* dex_farm[pair]
    dexPaused

dexVars == <<pool, tok, lp, farm, dexPaused>>

\* the largest s with s * s <= n
Sqrt(n) == CHOOSE s \in 0 .. 20000 : s * s <= n /\ (s + 1) * (s + 1) > n
FirstShares(pair, a0, a1) == Sqrt((a0 * a1) \div Unit[pair]) - MinLiquidity

NoStake == [shares |-> 0, debt |-> 0, pending |-> 0]

\* bootstrap() makes two pairs out of the presale; nobody owns their shares
DexInit ==
    \E pair \in Pairs :
        LET r == FirstReserves[pair]
            made == r # <<0, 0>>
        IN  /\ pool = [pair |-> pair, made |-> IF made THEN "yes" ELSE "no", r0 |-> r[1], r1 |-> r[2],
                       total |-> IF made THEN FirstShares(pair, r[1], r[2]) ELSE 0,
                       burned0 |-> 0, burned1 |-> 0]
            /\ tok = [a \in Users \cup {Holder} |-> IF a = Holder THEN r[2] ELSE Tokens[pair]]
            /\ lp = [u \in Users |-> 0]
            /\ farm = [rate |-> 35, staked |-> 0, acc |-> 0, last |-> 0,
                       users |-> [u \in Users |-> NoStake]]
            /\ dexPaused = "no"

Trading == pool.made = "yes" /\ dexPaused = "no"
DexTx(u, n) == Tx("dex", u, n)

DexPair(u) ==
    /\ pool.made = "no" /\ dexPaused = "no" /\ DexTx(u, 0)
    /\ pool' = [pool EXCEPT !.made = "yes"]
    /\ UNCHANGED <<bal, tok, lp, farm, dexPaused>>

-----------------------------------------------------------------------------
\* liquidity

\* the two amounts are within 5 % of the ratio of the pool, once it has shares
InRatio(a0, a1) ==
    pool.total > 0 =>
        LET x == a0 * pool.r1
            y == a1 * pool.r0
        IN  Greater(x, y) > 0 /\ Gap(x, y) <= Greater(x, y) \div 20

BugAddShares(a0, a1) ==
    IF pool.total <= MinLiquidity THEN FirstShares(pool.pair, a0, a1)
    ELSE Greater((a0 * pool.total) \div pool.r0, (a1 * pool.total) \div pool.r1)

\* few shares: the amounts replace the reserves
AddShares(a0, a1) ==
    IF pool.total <= MinLiquidity THEN FirstShares(pool.pair, a0, a1)
    ELSE Lesser((a0 * pool.total) \div pool.r0, (a1 * pool.total) \div pool.r1)
Added(a0, a1) ==
    [pool EXCEPT !.r0 = IF pool.total <= MinLiquidity THEN a0 ELSE @ + a0,
                 !.r1 = IF pool.total <= MinLiquidity THEN a1 ELSE @ + a1,
                 !.total = @ + AddShares(a0, a1)]

DexAdd(u, a0, a1) ==
    /\ Trading /\ DexTx(u, a0)
    /\ tok[u] >= a1 /\ InRatio(a0, a1)
    /\ bal' = Give(bal, u, -a0)
    /\ tok' = Move(tok, u, Holder, a1)
    /\ pool' = Added(a0, a1)
    /\ lp' = Give(lp, u, AddShares(a0, a1))
    /\ UNCHANGED <<farm, dexPaused>>

DexRemove(u, shares) ==
    LET out0 == (shares * pool.r0) \div pool.total
        out1 == (shares * pool.r1) \div pool.total
    IN  /\ Trading /\ DexTx(u, 0)
        /\ lp[u] >= shares /\ pool.total > MinLiquidity
        /\ pool' = [pool EXCEPT !.r0 = @ - out0, !.r1 = @ - out1, !.total = Greater(0, @ - shares)]
        /\ lp' = Give(lp, u, -shares)
        /\ bal' = Give(bal, u, out0)
        /\ tok' = Move(tok, Holder, u, out1)
        /\ UNCHANGED <<farm, dexPaused>>

-----------------------------------------------------------------------------
\* swaps: 0.3 % of what comes in is the fee, 0.05 % leaves the pool

AmountOut(in, rin, rout) ==
    LET net == (in * 9970) \div 10000 IN (rout * net) \div (rin + net)
BuyBack(in) == (in * 5) \div 10000

\* NOVA for the token; what is burned of the NOVA is only counted
DexSwap0(u, in) ==
    LET out == AmountOut(in, pool.r0, pool.r1)
    IN  /\ Trading /\ pool.r0 > 0 /\ pool.r1 > 0 /\ DexTx(u, in)
        /\ pool' = [pool EXCEPT !.r0 = @ + in - BuyBack(in), !.r1 = @ - out,
                                !.burned0 = @ + BuyBack(in)]
        /\ bal' = Give(bal, u, -in)
        /\ tok' = Move(tok, Holder, u, out)
        /\ UNCHANGED <<lp, farm, dexPaused>>
\* the token for NOVA; what is burned of the token stays with the pool's account
DexSwap1(u, in) ==
    LET out == AmountOut(in, pool.r1, pool.r0)
    IN  /\ Trading /\ pool.r0 > 0 /\ pool.r1 > 0 /\ DexTx(u, 0)
        /\ tok[u] >= in
        /\ pool' = [pool EXCEPT !.r1 = @ + in - BuyBack(in), !.r0 = @ - out,
                                !.burned1 = @ + BuyBack(in)]
        /\ bal' = Give(bal, u, out)
        /\ tok' = Move(tok, u, Holder, in)
        /\ UNCHANGED <<lp, farm, dexPaused>>

-----------------------------------------------------------------------------
\* the farm: staked shares are burned, and minted again when they leave

\* the sum per share grows by the daily rate for every second, of a day at most
Grown == LET dt == Lesser(day - farm.last, 1)
         IN  [farm EXCEPT !.last = day,
                          !.acc = IF farm.staked > 0 THEN @ + (dt * 864 * farm.rate) \div 365 ELSE @]
Earned(f, u) == f.users[u].shares * (f.acc - f.users[u].debt)

FarmStake(u, shares) ==
    LET f == Grown
        s == f.users[u].shares + shares
    IN  /\ Trading /\ DexTx(u, 0) /\ lp[u] >= shares
        /\ farm' = [f EXCEPT !.staked = @ + shares,
                             !.users[u] = [shares |-> s, debt |-> f.acc * s,
                                           pending |-> @.pending + Earned(f, u)]]
        /\ lp' = Give(lp, u, -shares)
        /\ pool' = [pool EXCEPT !.total = Greater(0, @ - shares)]
        /\ UNCHANGED <<bal, tok, dexPaused>>

\* who leaves altogether is forgotten, pending rewards included
FarmUnstake(u, shares) ==
    LET f == Grown
        s == f.users[u].shares - shares
    IN  /\ Trading /\ DexTx(u, 0) /\ f.users[u].shares >= shares
        /\ farm' = [f EXCEPT !.staked = Greater(0, @ - shares),
                             !.users[u] = IF s = 0 THEN NoStake
                                          ELSE [shares |-> s, debt |-> f.acc * s,
                                                pending |-> @.pending + Earned(f, u)]]
        /\ lp' = Give(lp, u, shares)
        /\ pool' = [pool EXCEPT !.total = @ + shares]
        /\ UNCHANGED <<bal, tok, dexPaused>>

FarmClaim(u) ==
    LET f == Grown
        due == f.users[u].pending + Earned(f, u)
        paid == Greater(0, Lesser(due, bal[Eco]))
    IN  /\ Trading /\ DexTx(u, 0)
        /\ farm' = [f EXCEPT !.users[u].pending = 0,
                             !.users[u].debt = f.acc * f.users[u].shares]
        /\ bal' = Move(bal, Eco, u, paid)
        /\ UNCHANGED <<pool, tok, lp, dexPaused>>

-----------------------------------------------------------------------------
\* what governance decides
DexPause(p) ==
    /\ part = "dex" /\ ops < MaxOps[part] /\ ops' = ops + 1
    /\ dexPaused # p /\ dexPaused' = p
    /\ UNCHANGED <<bal, day, part, pool, tok, lp, farm>>

DexRate(rate) ==
    /\ part = "dex" /\ ops < MaxOps[part] /\ ops' = ops + 1
    /\ pool.made = "yes" /\ rate \in 20 .. 50 /\ farm.rate # rate
    /\ farm' = [farm EXCEPT !.rate = rate]
    /\ UNCHANGED <<bal, day, part, pool, tok, lp, dexPaused>>

InRatioOf(a0) == IF pool.r0 > 0 THEN {(a0 * pool.r1) \div pool.r0} ELSE {}

DexNext ==
    \/ \E u \in Users :
        \/ DexPair(u) \/ FarmClaim(u)
        \/ \E a0 \in Amounts0[pool.pair] :
              DexSwap0(u, a0) \/ \E a1 \in Amounts1[pool.pair] \cup InRatioOf(a0) : DexAdd(u, a0, a1)
        \/ \E a1 \in Amounts1[pool.pair] : DexSwap1(u, a1)
        \/ \E shares \in {lp[u], lp[u] \div 2} : shares > 0 /\ (DexRemove(u, shares) \/ FarmStake(u, shares))
        \/ \E shares \in {farm.users[u].shares, farm.users[u].shares \div 2} : shares > 0 /\ FarmUnstake(u, shares)
    \/ \E p \in {"yes", "no"} : DexPause(p)
    \/ \E rate \in Rates : DexRate(rate)

-----------------------------------------------------------------------------
(* Properties *)

\* The pool has the tokens that its reserve promises, the farm the shares of its users.
DexType ==
    /\ tok[Holder] >= pool.r1
    /\ tok \in [Users \cup {Holder} -> Nat] /\ lp \in [Users -> Int]
    /\ pool.r0 \in Nat /\ pool.r1 \in Nat /\ pool.total \in Int
    /\ farm.staked = Total([u \in Users |-> farm.users[u].shares])
    /\ farm.acc \in Nat /\ farm.last \in 0 .. day

\* NOVA in the hands of the exchange, what it says is burned included
DexNova == pool.r0 + pool.burned0

\* No trade and nobody's coming or going makes a share worth less: a swap does not lower
\* the product of the reserves, an addition or a removal neither reserve per share.
SharesKeepTheirWorth ==
    [][\/ pool'.r0 = pool.r0 \/ pool.total <= MinLiquidity
       \/ pool'.total = pool.total /\ pool'.r0 * pool'.r1 >= pool.r0 * pool.r1
       \/ /\ pool'.r0 * pool.total >= pool.r0 * pool'.total
          /\ pool'.r1 * pool.total >= pool.r1 * pool'.total]_dexVars

\* Not so in the code (section 4 of the README):
\* Staked shares still count: the shares are those of the users, staked or not, and the
\* ones nobody owns.
StakedSharesCount == [][farm'.staked # farm.staked => pool'.total = pool.total]_dexVars
\* The reserve grows by the tokens that come in.
NothingIsOverwritten == [][tok'[Holder] > tok[Holder] => pool'.r1 > pool.r1]_dexVars
\* "what the fund cannot pay stays pending": a claim takes no more than it pays.
RewardOf(u) == farm.users[u].pending + Earned(Grown, u)
RewardsStayPending ==
    [][\A u \in Users : bal'[Eco] < bal[Eco] /\ farm' # farm
         => RewardOf(u)' >= RewardOf(u) - (bal[Eco] - bal'[Eco])]_<<dexVars, bal>>
=============================================================================
