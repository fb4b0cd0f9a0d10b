------------------------------ MODULE AntiFomo ------------------------------
(***************************************************************************)
(* The cool-down for large buyers (core/fomo.py) as every node keeps it    *)
(* for itself: purchases carry the time at which their sender signed them, *)
(* gossip brings them in any order, and a node refuses or records each     *)
(* when it arrives.  What a purchase buys belongs to SocialFi; time is in  *)
(* hours of the transactions, no clock of a node takes part.  Purchases of *)
(* AI works, which BUY_OPS lists, are refused in a cool-down but never     *)
(* recorded: apply_tx has dealt with them before it records (nova_node.py, *)
(* 1141 and 1147).  They change nothing here and are left out.             *)
(***************************************************************************)
EXTENDS Ledger, FiniteSetsExt

CONSTANTS
    FomoNodes,
    Buys,                       \* the purchases that are signed: who, when, how much
    ShortWindow, LongWindow,    \* WINDOW_24H, WINDOW_7D
    ShortLimit, LongLimit,      \* BUY_24H_LIMIT, BUY_7D_LIMIT
    CoolFor                     \* COOLDOWN

ASSUME AntiFomoAssumption ==
    /\ IsFiniteSet(FomoNodes) /\ IsFiniteSet(Buys)
    /\ \A b \in Buys : b.who \in Users /\ b.ts \in Nat /\ b.amount \in Nat \ {0}
    /\ {ShortWindow, LongWindow, ShortLimit, LongLimit, CoolFor} \subseteq Nat \ {0}

VARIABLES
    heard,      \* processed_txids: the purchases that have reached a node
    book,       \* fomo_buys
    coolTill    \* fomo_cooldown

fomoVars == <<heard, book, coolTill>>

FomoInit ==
    /\ heard = [n \in FomoNodes |-> {}]
    /\ book = [n \in FomoNodes |-> [u \in Users |-> {}]]
    /\ coolTill = [n \in FomoNodes |-> [u \in Users |-> 0]]

Newest(B) == Max({b.ts : b \in B})
\* the sum of the purchases in the window that ends at t, both ends included
Bought(B, t, window) == MapThenSumSet(LAMBDA b : b.amount, {b \in B : t - window <= b.ts /\ b.ts <= t})
Excessive(B, t) == Bought(B, t, ShortWindow) > ShortLimit \/ Bought(B, t, LongWindow) > LongLimit

\* Mutant: the purchase at hand is taken for the newest one.
BugReference(B, b) == b.ts
\* the moment up to which the windows run, once b is in B
Reference(B, b) == Newest(B)

\* the purchase reaches n, which refuses it in a cool-down and else forgets what is older
\* than the long window
FomoHear(n, b) ==
    /\ part = "fomo" /\ b \notin heard[n]
    /\ heard' = [heard EXCEPT ![n] = @ \cup {b}]
    /\ UNCHANGED <<bal, day, ops, part>>
    /\ IF b.ts < coolTill[n][b.who]
       THEN UNCHANGED <<book, coolTill>>
       ELSE LET all  == book[n][b.who] \cup {b}
                now  == Reference(all, b)
                kept == {x \in all : x.ts >= now - LongWindow} IN
            /\ book' = [book EXCEPT ![n][b.who] = kept]
            /\ coolTill' = IF coolTill[n][b.who] <= now /\ Excessive(kept, now)
                           THEN [coolTill EXCEPT ![n][b.who] = now + CoolFor]
                           ELSE coolTill

FomoNext == \E n \in FomoNodes, b \in Buys : FomoHear(n, b)

-----------------------------------------------------------------------------
(* Properties *)

FomoType ==
    \A n \in FomoNodes : heard[n] \subseteq Buys
        /\ \A u \in Users : coolTill[n][u] \in Nat /\ book[n][u] \subseteq heard[n]

\* In whatever order they come: who has bought too much up to the newest purchase is in a
\* cool-down that lasts beyond it, and nothing older than a week is held against anybody.
LargeBuyersCool ==
    \A n \in FomoNodes, u \in Users : book[n][u] # {} =>
        /\ Excessive(book[n][u], Newest(book[n][u])) => coolTill[n][u] > Newest(book[n][u])
        /\ \A b \in book[n][u] : b.ts + LongWindow >= Newest(book[n][u])

\* Not so in the code (section 4 of the README):
\* "the same on every node": nodes that have heard the same purchases agree.
NodesCoolAlike ==
    \A n, k \in FomoNodes : heard[n] = heard[k] => coolTill[n] = coolTill[k] /\ book[n] = book[k]
=============================================================================
