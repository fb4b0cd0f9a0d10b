------------------------------- MODULE Oracle -------------------------------
(***************************************************************************)
(* The oracle (core/oracle.py): nodes with a stake, one price feed with    *)
(* its sources, the median that is published, reports and penalties,       *)
(* random numbers and the verification of AI results.                      *)
(*                                                                         *)
(* Of the feeds NOVA/USD is modelled; USDT/USD, by which NOVA/USDT is      *)
(* derived, stands at one.  Prices are even whole numbers, so that the     *)
(* mean of two is one too.  The proof of a random number is perfect: a     *)
(* node makes the one its key belongs to.  The feed is fresh for the five  *)
(* minutes in which no other price is published.                           *)
(***************************************************************************)
EXTENDS Ledger

CONSTANTS
    Sources, Prices,        \* PRICE_SOURCES, the prices tried
    Contents,               \* AI results
    OracleStake, MaxOracles, Cooling,     \* ORACLE_STAKE, ORACLE_MAX_NODES, ORACLE_UNBOND
    VerifyReward, VerifyCap, VerifyTerm,  \* AI_VERIFY_REWARD, .._DAILY_CAP, .._TTL
    FirstNodes,             \* nodes that are registered to begin with
    MaxRequests             \* bound: requests for a random number

VARIABLES
    orc,        \* oracle_nodes
    src,        \* oracle_price_sources, the active ones
    feed,       \* oracle_feeds
    rnd,        \* oracle_requests, in order
    ver,        \* oracle_ai_verifications
    earned      \* __reward_day: rewards of today

oracleVars == <<orc, src, feed, rnd, ver, earned>>

NoNode   == [st |-> "none", stake |-> 0, exit |-> -1]
NewNode  == [st |-> "active", stake |-> OracleStake, exit |-> -1]
NoSource == [node |-> Nobody, price |-> 0]

OracleInit ==
    /\ orc = [u \in Users |-> IF u \in FirstNodes THEN NewNode ELSE NoNode]
    /\ src = [s \in Sources |-> NoSource]
    /\ feed = [price |-> 0, fresh |-> "no"]
    /\ rnd = <<>> /\ ver = [c \in Contents |-> [st |-> "none", at |-> 0]]
    /\ earned = [u \in Users |-> 0]

OracleTx(u, n) == Tx("price", u, n)
AnswerTx(u)    == Tx("answer", u, 0)
Serves(u) == orc[u].st = "active"

-----------------------------------------------------------------------------
\* nodes

OracleRegister(u) ==
    /\ OracleTx(u, OracleStake)
    /\ orc[u].st = "none" /\ Cardinality({v \in Users : orc[v].st # "none"}) < MaxOracles
    /\ orc' = [orc EXCEPT ![u] = NewNode]
    /\ bal' = Give(bal, u, -OracleStake)
    /\ UNCHANGED <<src, feed, rnd, ver, earned>>

\* from here on only the stake waits: the node goes on as before
OracleExit(u) ==
    /\ OracleTx(u, 0) /\ Serves(u) /\ orc[u].exit = -1
    /\ orc' = [orc EXCEPT ![u].exit = day + Cooling]
    /\ UNCHANGED <<bal, src, feed, rnd, ver, earned>>

OracleClaim(u) ==
    /\ OracleTx(u, 0) /\ Serves(u) /\ orc[u].exit # -1 /\ day >= orc[u].exit /\ orc[u].stake > 0
    /\ bal' = Give(bal, u, orc[u].stake)
    /\ orc' = [orc EXCEPT ![u].st = "exited", ![u].stake = 0]
    /\ UNCHANGED <<src, feed, rnd, ver, earned>>

-----------------------------------------------------------------------------
\* prices

Live(f) == {s \in Sources : f[s].node # Nobody}
Median(S, f) ==
    LET v == SortSeq(SetToSeq({<<f[s].price, s>> : s \in S}), LAMBDA x, y : x[1] < y[1])
        n == Len(v)
    IN  IF n % 2 = 1 THEN v[n \div 2 + 1][1] ELSE (v[n \div 2][1] + v[n \div 2 + 1][1]) \div 2

\* the median of the sources that are within 5 % of the median of all; 0 when the sources
\* or their nodes are fewer than two
Aggregate(f) ==
    LET all == Live(f)
        m == Median(all, f)
        near == {s \in all : 20 * Gap(f[s].price, m) <= m}
    IN  IF Cardinality(all) < 2 \/ Cardinality({f[s].node : s \in all}) < 2 THEN 0
        ELSE IF Cardinality(near) < 2 THEN 0 ELSE Median(near, f)

BugMayUpdate(u, s, price) ==
    /\ Serves(u) /\ src[s].node \in {Nobody, u}
    /\ feed.price # 0 => 10 * Gap(price, feed.price) <= feed.price

\* a source belongs to who reported first, and a node has one source
MayUpdate(u, s, price) ==
    /\ Serves(u) /\ src[s].node \in {Nobody, u}
    /\ \A t \in Sources \ {s} : src[t].node # u
    /\ feed.price # 0 => 10 * Gap(price, feed.price) <= feed.price
PriceUpdate(u, s, price) ==
    LET f == [src EXCEPT ![s] = [node |-> u, price |-> price]]
    IN  /\ OracleTx(u, 0) /\ MayUpdate(u, s, price)
        /\ src' = f
        /\ feed' = IF Aggregate(f) # 0 /\ feed.fresh = "no"
                   THEN [price |-> Aggregate(f), fresh |-> "yes"] ELSE feed
        /\ UNCHANGED <<bal, orc, rnd, ver, earned>>

\* reported by another node, a source 25 % away costs its node the stake
OracleReport(u, target, s) ==
    /\ OracleTx(u, 0) /\ Serves(u) /\ Serves(target) /\ target # u
    /\ src[s].node = target /\ feed.price # 0 /\ 4 * Gap(src[s].price, feed.price) > feed.price
    /\ src' = [src EXCEPT ![s] = NoSource]
    /\ orc' = [orc EXCEPT ![target].st = "slashed", ![target].stake = 0]
    /\ bal' = Give(bal, Eco, orc[target].stake)
    /\ UNCHANGED <<feed, rnd, ver, earned>>

FiveMinutes ==
    /\ part = "price" /\ feed.fresh = "yes" /\ feed' = [feed EXCEPT !.fresh = "no"]
    /\ UNCHANGED <<bal, day, ops, part, orc, src, rnd, ver, earned>>

-----------------------------------------------------------------------------
\* random numbers: any node may answer, once

VrfRequest(u) ==
    /\ AnswerTx(u) /\ Len(rnd) < MaxRequests
    /\ Cardinality({i \in DOMAIN rnd : rnd[i].by = u /\ rnd[i].node = Nobody}) < 3
    /\ rnd' = Append(rnd, [by |-> u, node |-> Nobody])
    /\ UNCHANGED <<bal, orc, src, feed, ver, earned>>

VrfFulfill(u, i) ==
    /\ AnswerTx(u) /\ Serves(u) /\ rnd[i].node = Nobody
    /\ rnd' = [rnd EXCEPT ![i].node = u]
    /\ UNCHANGED <<bal, orc, src, feed, ver, earned>>

-----------------------------------------------------------------------------
\* AI results: one node decides; the fund pays for a yes while it can, up to a daily sum

AiSubmit(u, c) ==
    /\ AnswerTx(u) /\ ver[c].st \in {"none", "rejected"}
    /\ ver' = [ver EXCEPT ![c] = [st |-> "pending", at |-> 0]]
    /\ UNCHANGED <<bal, orc, src, feed, rnd, earned>>

VerifyPay(u) == IF earned[u] + VerifyReward > VerifyCap \/ bal[Eco] < VerifyReward THEN 0
                ELSE VerifyReward

AiVerify(u, c, verdict) ==
    LET paid == IF verdict = "verified" THEN VerifyPay(u) ELSE 0
    IN  /\ AnswerTx(u) /\ Serves(u) /\ ver[c].st \in {"pending", "rejected"}
        /\ ver' = [ver EXCEPT ![c] = [st |-> verdict, at |-> day]]
        /\ bal' = Move(bal, Eco, u, paid)
        /\ earned' = Give(earned, u, paid)
        /\ UNCHANGED <<orc, src, feed, rnd>>

\* the part of the daily maintenance
OracleMaintain ==
    ver' = [c \in Contents |-> IF ver[c].st = "verified" /\ day - ver[c].at > VerifyTerm
                               THEN [ver[c] EXCEPT !.st = "expired"] ELSE ver[c]]

OracleNext ==
    \/ FiveMinutes
    \/ \E u \in Users :
        \/ OracleRegister(u) \/ OracleExit(u) \/ OracleClaim(u) \/ VrfRequest(u)
        \/ \E i \in DOMAIN rnd : VrfFulfill(u, i)
        \/ \E s \in Sources, price \in Prices : PriceUpdate(u, s, price)
        \/ \E s \in Sources, v \in Users : OracleReport(u, v, s)
        \/ \E c \in Contents : AiSubmit(u, c) \/ \E v \in {"verified", "rejected"} : AiVerify(u, c, v)

-----------------------------------------------------------------------------
(* Properties *)

OracleType ==
    /\ \A u \in Users : /\ orc[u].st \in {"none", "active", "slashed", "exited"}
                        /\ orc[u].stake \in Nat /\ (orc[u].stake > 0 <=> Serves(u))
                        /\ earned[u] \in 0 .. VerifyCap
    /\ \A s \in Sources : src[s].node \in Users \cup {Nobody}
    /\ feed.price \in Nat /\ \A i \in DOMAIN rnd : rnd[i].node \in Users \cup {Nobody}

OracleNova == Total([u \in Users |-> orc[u].stake])

\* A price is published only between two reports of two different nodes.
TwoNodesAgree ==
    [][part = "price" /\ feed'.price # feed.price
       => \E s, t \in Sources : /\ Nobody \notin {src'[s].node, src'[t].node}
                                /\ src'[s].node # src'[t].node
                                /\ src'[s].price <= feed'.price /\ feed'.price <= src'[t].price
                                /\ 9 * src'[t].price <= 10 * src'[s].price]_oracleVars

\* Not so in the code (section 4 of the README):
\* Behind every source that counts stands a stake.
SourcesAreStaked == \A s \in Sources : src[s].node # Nobody => Serves(src[s].node)
\* The feed can follow the market: a node may report what it sees.
NewPriceIsAccepted ==
    \A u \in Users, s \in Sources, p \in Prices : Serves(u) /\ src[s].node = u => MayUpdate(u, s, p)
=============================================================================
