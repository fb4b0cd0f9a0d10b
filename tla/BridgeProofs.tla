---------------------------- MODULE BridgeProofs ----------------------------
(***************************************************************************)
(* The bridge's theorems, for any set of nodes, users and source           *)
(* transactions, any amounts, prices, delays and quorum size.              *)
(*                                                                         *)
(* 1. Type correctness: one step of NextType per action, after lemmas on   *)
(*    what adds to a record or a balance.                                  *)
(* 2. The safety invariants.  Every step is first reduced to what it does  *)
(*    to one request (DepositMove, WithdrawalMove); the invariants are     *)
(*    then a case analysis of those moves.  Quorum, DelayServed,           *)
(*    SeasonedSigners and OneDepositPerSource are inductive relative to    *)
(*    TypeOK; for the third, Seasoned never loses a node.                  *)
(* 3. MoneyAddsUp.  Each of its sums over a part of the requests is a      *)
(*    Tally: the sum, over all requests, of what a request counts          *)
(*    (Credited, DepositFee, Out, WithdrawalFee).  Signing, cancelling and *)
(*    waiting change nothing that counts; a report counts nothing yet; a   *)
(*    minting, a withdrawal or a release changes what one request counts   *)
(*    and, by as much, the balances.                                       *)
(***************************************************************************)
EXTENDS Bridge, Sums

-----------------------------------------------------------------------------
(* 1. Types.                                                               *)

(* Prices and fees of the amounts the bridge accepts are natural numbers. *)
LEMMA UsdIsNat ==
    ASSUME NEW a \in Assets, NEW amt \in Amounts PROVE Usd(a, amt) \in Nat
<1> DEFINE p == Price[a]
<1>1. p \in Nat /\ amt \in Nat  BY BridgeAssumption
<1>2. amt * p \in Nat  BY <1>1
<1> QED  BY <1>2 DEF Usd

(* The fee of an amount is a natural number. *)
LEMMA FeeIsNat ==
    ASSUME NEW a \in Assets, NEW amt \in Amounts PROVE Fee(a, amt) \in Nat
<1>1. amt \in Nat /\ FeeDivisor \in Nat /\ FeeDivisor > 0 /\ MinFee[a] \in Nat
      BY BridgeAssumption
<1>2. amt \div FeeDivisor \in Nat  BY <1>1
<1> QED  BY <1>1, <1>2 DEF Fee, MaxOf

(* Balances after a payment. *)
LEMMA CreditType ==
    ASSUME NEW S, NEW f \in [S -> Nat], NEW x \in S, NEW d \in Nat
    PROVE  [f EXCEPT ![x] = @ + d] \in [S -> Nat]
OBVIOUS

(* An account that holds enough can be debited. *)
LEMMA DebitType ==
    ASSUME NEW S, NEW f \in [S -> Nat], NEW x \in S, NEW d \in Nat, f[x] >= d
    PROVE  [f EXCEPT ![x] = @ - d] \in [S -> Nat]
OBVIOUS

(* Minting and burning keep the balances of wrapped assets integers. *)
LEMMA WrappedType ==
    ASSUME NEW f \in [Assets -> [Addrs -> Int]], NEW g \in [Assets -> Int],
           NEW a \in Assets, NEW u \in Addrs, NEW d \in Int
    PROVE  /\ [f EXCEPT ![a][u] = @ + d] \in [Assets -> [Addrs -> Int]]
           /\ [f EXCEPT ![a][u] = @ - d] \in [Assets -> [Addrs -> Int]]
           /\ [g EXCEPT ![a] = @ + d] \in [Assets -> Int]
           /\ [g EXCEPT ![a] = @ - d] \in [Assets -> Int]
OBVIOUS

(* A new request is typed and extends the records, the others unchanged. *)
LEMMA ExtendType ==
    ASSUME NEW S, NEW n \in Nat, NEW f \in [1..n -> S], NEW r \in S
    PROVE  Extend(f, n, r) \in [1..n + 1 -> S]
BY DEF Extend

(* Adding a signature keeps a record's type. *)
LEMMA SignedDepositType ==
    ASSUME NEW r \in Deposits, NEW n \in Nodes PROVE Signed(r, n) \in Deposits
BY DEF Signed, Deposits, Statuses

(* A signed withdrawal is a withdrawal. *)
LEMMA SignedWithdrawalType ==
    ASSUME NEW r \in Withdrawals, NEW n \in Nodes PROVE Signed(r, n) \in Withdrawals
BY DEF Signed, Withdrawals, Statuses

(* The passing of time keeps a record's type. *)
LEMMA LessIsNat == ASSUME NEW x \in Nat PROVE Less(x) \in Nat
BY DEF Less

(* A node record that grows older is a node record. *)
LEMMA OlderType == ASSUME NEW r \in NodeRecords PROVE Older(r) \in NodeRecords
BY LessIsNat DEF Older, NodeRecords

(* A request whose delay runs down is a request. *)
LEMMA NearerType ==
    /\ \A r \in Deposits : Nearer(r) \in Deposits
    /\ \A r \in Withdrawals : Nearer(r) \in Withdrawals
BY LessIsNat DEF Nearer, Deposits, Withdrawals

\* a report adds a pending record for a free key
NewDeposit ==
    \E r \in Deposits : /\ dep' = Extend(dep, depSeq, r) /\ depSeq' = depSeq + 1
                        /\ r.status = "pending" /\ r.hold = r.delay
                        /\ KeyIsFree(r.key) /\ \E n \in Nodes : r.sigs = {n}
NewWithdrawal ==
    \E r \in Withdrawals : /\ wd' = Extend(wd, wdSeq, r) /\ wdSeq' = wdSeq + 1
                           /\ r.status = "pending" /\ r.hold = r.delay /\ r.sigs = {}

(* What a report adds. *)
LEMMA ReportAdds ==
    ASSUME TypeOK, NEW n \in Nodes, NEW k \in Keys, NEW a \in Assets, NEW u \in Users,
           NEW amt \in Amounts, Deposit(n, k, a, u, amt)
    PROVE  NewDeposit
<1> DEFINE usd    == Usd(a, amt)
           review == InReview(u, usd)
           delay  == MaxOf(DelayFor(usd), IF review THEN ReviewDelay ELSE 0)
           r == [key |-> k, user |-> u, asset |-> a, amount |-> amt,
                 fee |-> Fee(a, amt), usd |-> usd, review |-> review,
                 delay |-> delay, hold |-> delay,
                 status |-> "pending", sigs |-> {n}]
<1>1. usd \in Nat /\ Fee(a, amt) \in Nat  BY UsdIsNat, FeeIsNat
<1>2. delay \in Nat  BY <1>1, BridgeAssumption DEF MaxOf, DelayFor
<1>3. review \in BOOLEAN  BY DEF InReview
<1>4. amt \in Nat  BY BridgeAssumption
<1> HIDE DEF usd, review, delay
<1>5. r \in Deposits  BY <1>1, <1>2, <1>3, <1>4 DEF Deposits, Statuses
<1>6. r.status = "pending" /\ r.hold = r.delay /\ r.key = k /\ r.sigs = {n}  OBVIOUS
<1> HIDE DEF r
<1>7. dep' = Extend(dep, depSeq, r) /\ depSeq' = depSeq + 1 /\ KeyIsFree(k)
      BY DEF Deposit, usd, review, delay, r
<1> QED  BY <1>5, <1>6, <1>7 DEF NewDeposit

(* A withdrawal request adds one record, and nothing else to the records. *)
LEMMA RequestAdds ==
    ASSUME TypeOK, NEW u \in Users, NEW a \in Assets, NEW amt \in Amounts,
           Withdraw(u, a, amt)
    PROVE  NewWithdrawal
<1> DEFINE usd   == Usd(a, amt)
           delay == DelayFor(usd)
           r == [user |-> u, asset |-> a, amount |-> amt, fee |-> Fee(a, amt),
                 usd |-> usd, delay |-> delay, hold |-> delay,
                 status |-> "pending", sigs |-> {}]
<1>1. usd \in Nat /\ Fee(a, amt) \in Nat  BY UsdIsNat, FeeIsNat
<1>2. delay \in Nat  BY <1>1, BridgeAssumption DEF DelayFor
<1>3. amt \in Nat  BY BridgeAssumption
<1> HIDE DEF usd, delay
<1>4. r \in Withdrawals  BY <1>1, <1>2, <1>3 DEF Withdrawals, Statuses
<1>5. r.status = "pending" /\ r.hold = r.delay /\ r.sigs = {}  OBVIOUS
<1> HIDE DEF r
<1>6. wd' = Extend(wd, wdSeq, r) /\ wdSeq' = wdSeq + 1  BY DEF Withdraw, usd, delay, r
<1> QED  BY <1>4, <1>5, <1>6 DEF NewWithdrawal

(* The types hold before the first deposit. *)
LEMMA InitType == Init => TypeOK
BY BridgeAssumption DEF Init, TypeOK, NodeRecords, Deposits, Withdrawals

(* Every action keeps them: one step per action. *)
LEMMA NextType == TypeOK /\ [Next]_vars => TypeOK'
<1> SUFFICES ASSUME TypeOK, [Next]_vars PROVE TypeOK'  OBVIOUS
<1> USE BridgeAssumption
<1>1. ASSUME NEW n \in Nodes, RegisterNode(n) PROVE TypeOK'
      <2>1. node' \in [Nodes -> NodeRecords]  BY <1>1 DEF TypeOK, RegisterNode, NodeRecords
      <2>2. nova' \in [Addrs -> Nat]  BY <1>1 DEF TypeOK, RegisterNode, Addrs
      <2> QED  BY <1>1, <2>1, <2>2 DEF TypeOK, RegisterNode, requests, assets, fees, usage
<1>2. ASSUME NEW n \in Nodes, ExitNode(n) PROVE TypeOK'
      BY ZenonT(30), <1>2 DEF TypeOK, ExitNode, requests, assets, fees, usage, NodeRecords
<1>3. ASSUME NEW n \in Nodes, ClaimExit(n) PROVE TypeOK'
      <2>1. node[n] \in NodeRecords  BY DEF TypeOK
      <2>2. node' \in [Nodes -> NodeRecords]  BY <1>3, <2>1 DEF TypeOK, ClaimExit, NodeRecords
      <2>3. nova' \in [Addrs -> Nat]
            <3>1. n \in Addrs /\ node[n].stake \in Nat  BY <2>1 DEF NodeRecords, Addrs
            <3>2. nova' = [nova EXCEPT ![n] = @ + node[n].stake]  BY <1>3 DEF ClaimExit
            <3>3. nova \in [Addrs -> Nat]  BY DEF TypeOK
            <3> QED  BY <3>1, <3>2, <3>3, CreditType
      <2> QED  BY <1>3, <2>2, <2>3 DEF TypeOK, ClaimExit, requests, assets, fees, usage
<1>4. ASSUME NEW n \in Nodes, FlushPool(n) PROVE TypeOK'
      BY <1>4 DEF TypeOK, FlushPool, requests, assets, usage
<1>5. ASSUME NEW n \in Nodes, NEW a \in Assets, RegisterAsset(n, a) PROVE TypeOK'
      BY <1>5 DEF TypeOK, RegisterAsset, requests, fees, usage
<1>6. ASSUME NEW n \in Nodes, NEW i \in DOMAIN dep, SignDeposit(n, i) PROVE TypeOK'
      <2>1. dep[i] \in Deposits  BY <1>6 DEF TypeOK
      <2>2. dep' \in [1..depSeq -> Deposits]
            BY <1>6, <2>1, SignedDepositType DEF TypeOK, SignDeposit
      <2> QED  BY <1>6, <2>2 DEF TypeOK, SignDeposit, assets, fees, usage
<1>7. ASSUME NEW n \in Nodes, NEW i \in DOMAIN wd, SignWithdrawal(n, i) PROVE TypeOK'
      <2>1. wd[i] \in Withdrawals  BY <1>7 DEF TypeOK
      <2>2. wd' \in [1..wdSeq -> Withdrawals]
            BY <1>7, <2>1, SignedWithdrawalType DEF TypeOK, SignWithdrawal
      <2> QED  BY <1>7, <2>2 DEF TypeOK, SignWithdrawal, assets, fees, usage
<1>8. ASSUME NEW n \in Nodes, NEW i \in DOMAIN wd, ConfirmWithdrawal(n, i) PROVE TypeOK'
      <2>1. wd[i] \in Withdrawals  BY <1>8 DEF TypeOK
      <2>2. wd' \in [1..wdSeq -> Withdrawals]
            BY <1>8, <2>1 DEF TypeOK, ConfirmWithdrawal, Withdrawals
      <2>3. used' \in Nat /\ feePool' \in Nat
            <3>1. wd[i].usd \in Nat /\ wd[i].fee \in Nat  BY <2>1 DEF Withdrawals
            <3>2. used' = used + wd[i].usd /\ feePool' = feePool + wd[i].fee
                  BY <1>8 DEF ConfirmWithdrawal
            <3>3. used \in Nat /\ feePool \in Nat  BY DEF TypeOK
            <3> QED  BY <3>1, <3>2, <3>3
      <2> QED  BY <1>8, <2>2, <2>3 DEF TypeOK, ConfirmWithdrawal, assets
<1>9. ASSUME NEW n \in Nodes, NEW k \in Keys, NEW a \in Assets, NEW u \in Users,
             NEW amt \in Amounts, Deposit(n, k, a, u, amt)
      PROVE TypeOK'
      <2>1. NewDeposit  BY <1>9, ReportAdds
      <2>2. depSeq \in Nat /\ dep \in [1..depSeq -> Deposits]  BY DEF TypeOK
      <2>3. dep' \in [1..depSeq' -> Deposits] /\ depSeq' = depSeq + 1
            <3> PICK r \in Deposits : dep' = Extend(dep, depSeq, r) /\ depSeq' = depSeq + 1
                BY <2>1 DEF NewDeposit
            <3> QED  BY <2>2, ExtendType
      <2>4. depSeq < MaxDeposits /\ UNCHANGED <<node, wd, wdSeq, assets, nova, fees, usage>>
            BY <1>9 DEF Deposit
      <2> QED  BY <2>2, <2>3, <2>4 DEF TypeOK, assets, fees, usage
<1>10. ASSUME NEW i \in DOMAIN dep, ClaimDeposit(i) PROVE TypeOK'
      <2>1. dep[i] \in Deposits  BY <1>10 DEF TypeOK
      <2>2. dep' \in [1..depSeq -> Deposits]
            BY <1>10, <2>1 DEF TypeOK, ClaimDeposit, Deposits
      <2>3. /\ dep[i].asset \in Assets /\ dep[i].user \in Addrs /\ dep[i].usd \in Nat
            /\ dep[i].fee \in Nat /\ dep[i].amount - dep[i].fee \in Int
            BY <2>1 DEF Deposits, Addrs
      <2> DEFINE a == dep[i].asset
                 u == dep[i].user
                 net == dep[i].amount - dep[i].fee
      <2>4. /\ wrapped' = [wrapped EXCEPT ![a][u] = @ + net]
            /\ supply' = [supply EXCEPT ![a] = @ + net]
            /\ feePool' = feePool + dep[i].fee /\ used' = used + dep[i].usd
            /\ addrUsed' = [addrUsed EXCEPT ![u] = @ + dep[i].usd]
            BY <1>10 DEF ClaimDeposit
      <2> HIDE DEF a, u, net
      <2>5. wrapped' \in [Assets -> [Addrs -> Int]] /\ supply' \in [Assets -> Int]
            <3>1. a \in Assets /\ u \in Addrs /\ net \in Int  BY <2>3 DEF a, u, net
            <3>2. wrapped \in [Assets -> [Addrs -> Int]] /\ supply \in [Assets -> Int]
                  BY DEF TypeOK
            <3> QED  BY <2>4, <3>1, <3>2, WrappedType
      <2>6. used' \in Nat /\ addrUsed' \in [Addrs -> Nat] /\ feePool' \in Nat
            <3>1. u \in Addrs /\ dep[i].usd \in Nat /\ dep[i].fee \in Nat  BY <2>3 DEF u
            <3>2. used \in Nat /\ addrUsed \in [Addrs -> Nat] /\ feePool \in Nat
                  BY DEF TypeOK
            <3> QED  BY <2>4, <3>1, <3>2, CreditType
      <2> QED  BY <1>10, <2>2, <2>3, <2>5, <2>6 DEF TypeOK, ClaimDeposit
<1>11. ASSUME NEW i \in DOMAIN dep, CancelDeposit(i) PROVE TypeOK'
      <2>1. dep[i] \in Deposits  BY <1>11 DEF TypeOK
      <2>2. dep' \in [1..depSeq -> Deposits]
            BY <1>11, <2>1 DEF TypeOK, CancelDeposit, Deposits
      <2> QED  BY <1>11, <2>2 DEF TypeOK, CancelDeposit, assets, fees, usage
<1>12. ASSUME NEW u \in Users, NEW a \in Assets, NEW amt \in Amounts, Withdraw(u, a, amt)
       PROVE TypeOK'
      <2>1. NewWithdrawal  BY <1>12, RequestAdds
      <2>2. wdSeq \in Nat /\ wd \in [1..wdSeq -> Withdrawals]  BY DEF TypeOK
      <2>3. wd' \in [1..wdSeq' -> Withdrawals] /\ wdSeq' = wdSeq + 1
            <3> PICK r \in Withdrawals : wd' = Extend(wd, wdSeq, r) /\ wdSeq' = wdSeq + 1
                BY <2>1 DEF NewWithdrawal
            <3> QED  BY <2>2, ExtendType
      <2>4. amt \in Nat /\ u \in Addrs  BY DEF Addrs
      <2>5. nova' \in [Addrs -> Nat]
            <3>1. \/ UNCHANGED nova
                  \/ nova[u] >= amt /\ nova' = [nova EXCEPT ![u] = @ - amt]
                  BY <1>12 DEF Withdraw
            <3>2. nova \in [Addrs -> Nat]  BY DEF TypeOK
            <3> QED  BY <2>4, <3>1, <3>2, DebitType
      <2>6. wrapped' \in [Assets -> [Addrs -> Int]] /\ supply' \in [Assets -> Int]
            <3>1. \/ UNCHANGED <<wrapped, supply>>
                  \/ /\ wrapped' = [wrapped EXCEPT ![a][u] = @ - amt]
                     /\ supply' = [supply EXCEPT ![a] = @ - amt]
                  BY <1>12 DEF Withdraw
            <3>2. wrapped \in [Assets -> [Addrs -> Int]] /\ supply \in [Assets -> Int]
                  BY DEF TypeOK
            <3>3. amt \in Int  BY <2>4
            <3> QED  BY <2>4, <3>1, <3>2, <3>3, WrappedType
      <2>7. wdSeq < MaxWithdrawals /\ UNCHANGED <<node, dep, depSeq, listed, fees, usage>>
            BY <1>12 DEF Withdraw
      <2> QED  BY SMTT(30), <2>2, <2>3, <2>5, <2>6, <2>7 DEF TypeOK, fees, usage
<1>13. ASSUME Maintain PROVE TypeOK'
      BY <1>13 DEF TypeOK, Maintain, requests, assets, usage
<1>14. ASSUME Tick PROVE TypeOK'
      <2>1. node' \in [Nodes -> NodeRecords]  BY <1>14, OlderType DEF TypeOK, Tick
      <2>2. dep' \in [1..depSeq -> Deposits]  BY <1>14, NearerType DEF TypeOK, Tick
      <2>3. wd' \in [1..wdSeq -> Withdrawals]  BY <1>14, NearerType DEF TypeOK, Tick
      <2>4. used' \in Nat /\ addrUsed' \in [Addrs -> Nat] /\ flush' \in {"due", "done"}
            BY <1>14 DEF TypeOK, Tick, SameOrNextDay, usage
      <2> QED  BY <1>14, <2>1, <2>2, <2>3, <2>4 DEF TypeOK, Tick, assets
<1>15. ASSUME UNCHANGED vars PROVE TypeOK'
      BY <1>15 DEF TypeOK, vars, requests, assets, fees, usage
<1> QED  BY <1>1, <1>2, <1>3, <1>4, <1>5, <1>6, <1>7, <1>8, <1>9, <1>10, <1>11, <1>12,
            <1>13, <1>14, <1>15 DEF Next

(* Every value of the bridge's state has its type; in particular no native
   balance goes below zero. *)
THEOREM TypeCorrect == Spec => []TypeOK
<1> QED  BY InitType, NextType, PTL DEF Spec

-----------------------------------------------------------------------------
(* 2. Safety invariants.                                                   *)

Closed == {"minted", "cancelled"}

DepositMove(r, s) ==
    \/ s = r
    \/ s = Nearer(r)
    \/ \E n \in Nodes : MaySign(n, r) /\ s = Signed(r, n)
    \/ Finalizable(r) /\ s = [r EXCEPT !.status = "minted"]
    \/ r.status \notin Closed /\ s = [r EXCEPT !.status = "cancelled"]

WithdrawalMove(r, s) ==
    \/ s = r
    \/ s = Nearer(r)
    \/ \E n \in Nodes : MaySign(n, r) /\ s = Signed(r, n)
    \/ Finalizable(r) /\ s = [r EXCEPT !.status = "released"]

OldDeposits ==
    /\ depSeq' = depSeq
    /\ \A i \in 1..depSeq : DepositMove(dep[i], dep'[i])
OldWithdrawals ==
    /\ wdSeq' = wdSeq
    /\ \A i \in 1..wdSeq : WithdrawalMove(wd[i], wd'[i])

-----------------------------------------------------------------------------
(* The requests are numbered 1, 2, ... and each is a record of its type. *)
LEMMA Shape ==
    ASSUME TypeOK
    PROVE  /\ depSeq \in Nat /\ DOMAIN dep = 1..depSeq
           /\ \A i \in 1..depSeq : dep[i] \in Deposits
           /\ wdSeq \in Nat /\ DOMAIN wd = 1..wdSeq
           /\ \A i \in 1..wdSeq : wd[i] \in Withdrawals
BY BridgeAssumption DEF TypeOK

(* Every step adds one deposit or moves those there are. *)
LEMMA DepositStep ==
    ASSUME TypeOK, [Next]_vars
    PROVE  NewDeposit \/ OldDeposits
<1> USE Shape DEF OldDeposits, DepositMove
<1>1. ASSUME UNCHANGED <<dep, depSeq>> PROVE OldDeposits  BY <1>1
<1>2. ASSUME NEW n \in Nodes, NEW i \in DOMAIN dep, SignDeposit(n, i) PROVE OldDeposits
      BY <1>2 DEF SignDeposit
<1>3. ASSUME NEW i \in DOMAIN dep, ClaimDeposit(i) PROVE OldDeposits
      <2>1. /\ dep' = [dep EXCEPT ![i] = [@ EXCEPT !.status = "minted"]]
            /\ Finalizable(dep[i]) /\ depSeq' = depSeq
            BY <1>3 DEF ClaimDeposit
      <2> QED  BY <2>1
<1>4. ASSUME NEW i \in DOMAIN dep, CancelDeposit(i) PROVE OldDeposits
      BY <1>4 DEF CancelDeposit, Closed
<1>5. ASSUME Tick PROVE OldDeposits  BY <1>5 DEF Tick
<1> QED  BY <1>1, <1>2, <1>3, <1>4, <1>5, ReportAdds
         DEF Next, vars, requests, RegisterNode, ExitNode, ClaimExit, FlushPool,
             RegisterAsset, SignWithdrawal, ConfirmWithdrawal, Withdraw, Maintain

(* No step changes the withdrawals but by one of the moves, or by one more
   record. *)
LEMMA WithdrawalStep ==
    ASSUME TypeOK, [Next]_vars
    PROVE  NewWithdrawal \/ OldWithdrawals
<1> USE Shape DEF OldWithdrawals, WithdrawalMove
<1>1. ASSUME UNCHANGED <<wd, wdSeq>> PROVE OldWithdrawals  BY <1>1
<1>2. ASSUME NEW n \in Nodes, NEW i \in DOMAIN wd, SignWithdrawal(n, i)
      PROVE OldWithdrawals
      BY <1>2 DEF SignWithdrawal
<1>3. ASSUME NEW n \in Nodes, NEW i \in DOMAIN wd, ConfirmWithdrawal(n, i)
      PROVE OldWithdrawals
      <2>1. /\ wd' = [wd EXCEPT ![i] = [@ EXCEPT !.status = "released"]]
            /\ Finalizable(wd[i]) /\ wdSeq' = wdSeq
            BY <1>3 DEF ConfirmWithdrawal
      <2> QED  BY <2>1
<1>4. ASSUME Tick PROVE OldWithdrawals  BY <1>4 DEF Tick
<1>5. ASSUME NEW n \in Nodes, NEW k \in Keys, NEW a \in Assets, NEW u \in Users,
             NEW amt \in Amounts, Deposit(n, k, a, u, amt)
      PROVE  UNCHANGED <<wd, wdSeq>>
      BY <1>5 DEF Deposit
<1>6. ASSUME NEW i \in DOMAIN dep, ClaimDeposit(i) PROVE UNCHANGED <<wd, wdSeq>>
      BY <1>6 DEF ClaimDeposit
<1> QED  BY <1>1, <1>2, <1>3, <1>4, <1>5, <1>6, RequestAdds
         DEF Next, vars, requests, RegisterNode, ExitNode, ClaimExit, FlushPool,
             RegisterAsset, SignDeposit, CancelDeposit, Maintain

-----------------------------------------------------------------------------
(* What a single move can do to a record.  A record that became claimable
   has its signatures, so it takes no more: Signed never sees it. *)
RecordOK(r) ==
    /\ r.status \in {"held", "ready", "minted", "released"} => SigsOk(r.sigs)
    /\ r.status \in {"minted", "released"} \/ r.delay = 0 => r.hold = 0

(* A signature by a node that may sign keeps the record in order, and never
   reopens it. *)
LEMMA SignedOK ==
    ASSUME NEW r \in Deposits \cup Withdrawals, NEW n \in Nodes, MaySign(n, r), RecordOK(r)
    PROVE  /\ RecordOK(Signed(r, n))
           /\ r.status = "pending" /\ Signed(r, n).status \in Statuses
           /\ Signed(r, n).sigs = r.sigs \cup {n}
           /\ r \in Deposits => Signed(r, n).key = r.key
<1> DEFINE s == r.sigs \cup {n}
           st == IF SigsOk(s) THEN (IF r.delay > 0 THEN "held" ELSE "ready") ELSE r.status
<1>1. Signed(r, n) = [r EXCEPT !.sigs = s, !.status = st]  BY DEF Signed
<1>2. ~SigsOk(r.sigs)
      <2>1. IsFiniteSet(r.sigs)
            BY FS_Subset, BridgeAssumption DEF Deposits, Withdrawals
      <2>2. Cardinality(r.sigs) \in Nat /\ RequiredSigs \in Nat
            BY <2>1, FS_CardinalityType, BridgeAssumption
      <2>3. Cardinality(r.sigs) < RequiredSigs  BY DEF MaySign
      <2> QED  BY <2>2, <2>3 DEF SigsOk
<1>3. r.status = "pending"  BY <1>2 DEF MaySign, RecordOK
<1>4. /\ Signed(r, n).sigs = s /\ Signed(r, n).status = st
      /\ Signed(r, n).delay = r.delay /\ Signed(r, n).hold = r.hold
      /\ r \in Deposits => Signed(r, n).key = r.key
      BY <1>1 DEF Deposits, Withdrawals
<1>5. st \in Statuses /\ (st # "pending" => SigsOk(s))  BY <1>3 DEF Statuses
<1> QED  BY <1>3, <1>4, <1>5 DEF RecordOK, Statuses

(* The passage of time keeps it in order. *)
LEMMA NearerOK ==
    ASSUME NEW r \in Deposits \cup Withdrawals, RecordOK(r)
    PROVE  /\ RecordOK(Nearer(r))
           /\ Nearer(r).status = r.status /\ Nearer(r).sigs = r.sigs
           /\ r \in Deposits => Nearer(r).key = r.key
<1>1. /\ Nearer(r).status = r.status /\ Nearer(r).sigs = r.sigs
      /\ Nearer(r).delay = r.delay /\ Nearer(r).hold = Less(r.hold)
      /\ r \in Deposits => Nearer(r).key = r.key
      BY DEF Nearer, Deposits, Withdrawals
<1>2. r.hold = 0 => Less(r.hold) = 0  BY DEF Less
<1> QED  BY <1>1, <1>2 DEF RecordOK

(* What each move does to a deposit: its key stays, signatures only come in,
   a closed one stays as it is. *)
LEMMA DepositMoveOK ==
    ASSUME NEW r \in Deposits, NEW s, DepositMove(r, s), RecordOK(r)
    PROVE  /\ RecordOK(s)
           /\ s.key = r.key /\ r.sigs \subseteq s.sigs
           /\ r.status \in Closed => s.status = r.status
<1>1. CASE s = r  BY <1>1
<1>2. CASE s = Nearer(r)  BY <1>2, NearerOK
<1>3. ASSUME NEW n \in Nodes, MaySign(n, r), s = Signed(r, n)
      PROVE /\ RecordOK(s) /\ s.key = r.key
            /\ r.sigs \subseteq s.sigs /\ r.status \notin Closed
      BY <1>3, SignedOK DEF Closed
<1>4. CASE Finalizable(r) /\ s = [r EXCEPT !.status = "minted"]
      BY <1>4 DEF Finalizable, Deposits, Closed, RecordOK
<1>5. CASE r.status \notin Closed /\ s = [r EXCEPT !.status = "cancelled"]
      BY <1>5 DEF Deposits, Closed, RecordOK
<1> QED  BY <1>1, <1>2, <1>3, <1>4, <1>5 DEF DepositMove

(* The same of a withdrawal; one that was released stays released. *)
LEMMA WithdrawalMoveOK ==
    ASSUME NEW r \in Withdrawals, NEW s, WithdrawalMove(r, s), RecordOK(r)
    PROVE  /\ RecordOK(s) /\ r.sigs \subseteq s.sigs
           /\ r.status = "released" => s.status = r.status
<1>1. CASE s = r  BY <1>1
<1>2. CASE s = Nearer(r)  BY <1>2, NearerOK
<1>3. ASSUME NEW n \in Nodes, MaySign(n, r), s = Signed(r, n)
      PROVE RecordOK(s) /\ r.sigs \subseteq s.sigs /\ r.status # "released"
      BY <1>3, SignedOK
<1>4. CASE Finalizable(r) /\ s = [r EXCEPT !.status = "released"]
      BY <1>4 DEF Finalizable, Withdrawals, RecordOK
<1> QED  BY <1>1, <1>2, <1>3, <1>4 DEF WithdrawalMove

-----------------------------------------------------------------------------
RequestsOK ==
    /\ \A i \in 1..depSeq : RecordOK(dep[i])
    /\ \A i \in 1..wdSeq : RecordOK(wd[i])

IInv == TypeOK /\ RequestsOK /\ OneDepositPerSource /\ SeasonedSigners

(* What one more record changes. *)
LEMMA ExtendFacts ==
    ASSUME NEW f, NEW n \in Nat, NEW r
    PROVE  /\ DOMAIN Extend(f, n, r) = 1..n + 1
           /\ \A i \in 1..n : Extend(f, n, r)[i] = f[i]
           /\ Extend(f, n, r)[n + 1] = r
BY DEF Extend

(* There are no requests at the start. *)
LEMMA InitInv == Init => IInv
<1> SUFFICES ASSUME Init PROVE RequestsOK /\ OneDepositPerSource /\ SeasonedSigners
    BY InitType DEF IInv
<1>1. depSeq = 0 /\ wdSeq = 0 /\ DOMAIN dep = 1..0 /\ DOMAIN wd = 1..0  BY DEF Init
<1> QED  BY <1>1 DEF RequestsOK, OneDepositPerSource, SeasonedSigners

(* The requests stay in order, since every step is a move of one of them or a
   new one. *)
LEMMA NextRequests == IInv /\ [Next]_vars => RequestsOK'
<1> SUFFICES ASSUME IInv, [Next]_vars PROVE RequestsOK'  OBVIOUS
<1> USE DEF IInv, RequestsOK
<1>1. \A i \in 1..depSeq' : RecordOK(dep'[i])
      <2>1. CASE NewDeposit
            <3> PICK r \in Deposits : /\ dep' = Extend(dep, depSeq, r)
                                      /\ depSeq' = depSeq + 1
                                      /\ r.status = "pending" /\ r.hold = r.delay
                BY <2>1 DEF NewDeposit
            <3>1. RecordOK(r)  BY DEF RecordOK
            <3> QED  BY <3>1, Shape, ExtendFacts
      <2>2. CASE OldDeposits  BY <2>2, Shape, DepositMoveOK DEF OldDeposits
      <2> QED  BY <2>1, <2>2, DepositStep
<1>2. \A i \in 1..wdSeq' : RecordOK(wd'[i])
      <2>1. CASE NewWithdrawal
            <3> PICK r \in Withdrawals : /\ wd' = Extend(wd, wdSeq, r)
                                         /\ wdSeq' = wdSeq + 1
                                         /\ r.status = "pending" /\ r.hold = r.delay
                BY <2>1 DEF NewWithdrawal
            <3>1. RecordOK(r)  BY DEF RecordOK
            <3> QED  BY <3>1, Shape, ExtendFacts
      <2>2. CASE OldWithdrawals  BY <2>2, Shape, WithdrawalMoveOK DEF OldWithdrawals
      <2> QED  BY <2>1, <2>2, WithdrawalStep
<1> QED  BY <1>1, <1>2

(* A source transaction gets a second deposit only after the first was
   cancelled. *)
LEMMA NextOneDeposit == IInv /\ [Next]_vars => OneDepositPerSource'
<1> SUFFICES ASSUME IInv, [Next]_vars,
                    NEW i \in DOMAIN dep', NEW j \in DOMAIN dep',
                    i # j, dep'[i].key = dep'[j].key
             PROVE  dep'[i].status = "cancelled" \/ dep'[j].status = "cancelled"
    BY DEF OneDepositPerSource
<1> USE DEF IInv, RequestsOK, OneDepositPerSource
<1>1. TypeOK'  BY NextType
<1>2. DOMAIN dep = 1..depSeq /\ DOMAIN dep' = 1..depSeq' /\ depSeq \in Nat
      BY <1>1, Shape DEF TypeOK
<1>3. CASE NewDeposit
      <2> PICK r \in Deposits : /\ dep' = Extend(dep, depSeq, r) /\ depSeq' = depSeq + 1
                                /\ KeyIsFree(r.key)
          BY <1>3 DEF NewDeposit
      <2>1. /\ \A k \in 1..depSeq : dep'[k] = dep[k]
            /\ dep'[depSeq + 1] = r
            BY <1>2, ExtendFacts
      <2>2. \A k \in 1..depSeq : dep[k].key = r.key => dep[k].status = "cancelled"
            BY <1>2 DEF KeyIsFree
      <2>3. CASE i \in 1..depSeq /\ j \in 1..depSeq  BY <1>2, <2>1, <2>3
      <2>4. CASE i = depSeq + 1 /\ j \in 1..depSeq  BY <2>1, <2>2, <2>4
      <2>5. CASE j = depSeq + 1 /\ i \in 1..depSeq  BY <2>1, <2>2, <2>5
      <2> QED  BY <1>2, <2>3, <2>4, <2>5
<1>4. CASE OldDeposits
      <2>1. \A k \in 1..depSeq : /\ dep'[k].key = dep[k].key
                                 /\ dep[k].status = "cancelled" => dep'[k].status = "cancelled"
            BY <1>4, Shape, DepositMoveOK DEF OldDeposits, Closed
      <2>2. i \in 1..depSeq /\ j \in 1..depSeq  BY <1>2, <1>4 DEF OldDeposits
      <2> QED  BY <1>2, <2>1, <2>2
<1> QED  BY <1>3, <1>4, DepositStep

(* A node past its first days stays so: it registers once, and leaving keeps
   its age. *)
LEMMA NextSeasoned == TypeOK /\ [Next]_vars => Seasoned \subseteq Seasoned'
<1> SUFFICES ASSUME TypeOK, [Next]_vars PROVE Seasoned \subseteq Seasoned'  OBVIOUS
<1> USE DEF Seasoned
<1>1. ASSUME UNCHANGED node PROVE Seasoned \subseteq Seasoned'  BY <1>1
<1>2. \A n \in Nodes : node[n] \in NodeRecords  BY DEF TypeOK
<1>3. ASSUME NEW n \in Nodes, RegisterNode(n) PROVE Seasoned \subseteq Seasoned'
      BY <1>3 DEF RegisterNode, TypeOK
<1>4. ASSUME NEW n \in Nodes, ExitNode(n) PROVE Seasoned \subseteq Seasoned'
      BY <1>2, <1>4 DEF ExitNode, TypeOK, NodeRecords
<1>5. ASSUME NEW n \in Nodes, ClaimExit(n) PROVE Seasoned \subseteq Seasoned'
      BY <1>2, <1>5 DEF ClaimExit, TypeOK, NodeRecords
<1>6. ASSUME Tick PROVE Seasoned \subseteq Seasoned'
      <2>1. \A r \in NodeRecords : /\ Older(r).status = r.status
                                   /\ r.age = 0 => Older(r).age = 0
            BY DEF Older, NodeRecords, Less
      <2> QED  BY <1>2, <1>6, <2>1 DEF Tick
<1>7. \/ UNCHANGED node \/ Tick
      \/ \E n \in Nodes : RegisterNode(n) \/ ExitNode(n) \/ ClaimExit(n)
      BY ZenonT(30) DEF Next, vars, requests, FlushPool, RegisterAsset, Deposit, SignDeposit, ClaimDeposit,
             CancelDeposit, Withdraw, SignWithdrawal, ConfirmWithdrawal, Maintain
<1> HIDE DEF Seasoned
<1> QED  BY <1>1, <1>3, <1>4, <1>5, <1>6, <1>7

(* A move of a request adds at most the signature of a seasoned node. *)
LEMMA MoveSigs ==
    ASSUME TypeOK, NEW s
    PROVE  /\ \A r \in Deposits : DepositMove(r, s) =>
                  r.sigs \subseteq s.sigs /\ s.sigs \ r.sigs \subseteq Seasoned
           /\ \A r \in Withdrawals : WithdrawalMove(r, s) => s.sigs \ r.sigs \subseteq Seasoned
<1>1. ASSUME NEW r \in Deposits \cup Withdrawals
      PROVE  /\ Nearer(r).sigs = r.sigs
             /\ \A n \in Nodes : Signed(r, n).sigs = r.sigs \cup {n}
      BY DEF Nearer, Signed, Deposits, Withdrawals
<1>2. \A r \in Deposits \cup Withdrawals, n \in Nodes : MaySign(n, r) => n \in Seasoned
      BY DEF MaySign, IsNode, Seasoned
<1>3. ASSUME NEW r \in Deposits, DepositMove(r, s)
      PROVE  r.sigs \subseteq s.sigs /\ s.sigs \ r.sigs \subseteq Seasoned
      BY <1>1, <1>2, <1>3 DEF DepositMove, Deposits
<1>4. ASSUME NEW r \in Withdrawals, WithdrawalMove(r, s)
      PROVE  s.sigs \ r.sigs \subseteq Seasoned
      BY <1>1, <1>2, <1>4 DEF WithdrawalMove, Withdrawals
<1> QED  BY <1>3, <1>4

(* Who signs what another node has reported is past its first days, and a
   report starts with one signature. *)
LEMMA NextSeasonedSigners == IInv /\ [Next]_vars => SeasonedSigners'
<1> SUFFICES ASSUME IInv, [Next]_vars PROVE SeasonedSigners'  OBVIOUS
<1> USE Shape DEF IInv
<1>1. Seasoned \subseteq Seasoned'  BY NextSeasoned
<1>2. TypeOK'  BY NextType
<1>3. DOMAIN dep' = 1..depSeq' /\ DOMAIN wd' = 1..wdSeq'  BY <1>2 DEF TypeOK
<1>4. ASSUME NEW i \in 1..depSeq'
      PROVE  \E r \in dep'[i].sigs : dep'[i].sigs \ {r} \subseteq Seasoned'
      <2>1. CASE NewDeposit
            <3> PICK d \in Deposits, n \in Nodes :
                    dep' = Extend(dep, depSeq, d) /\ depSeq' = depSeq + 1 /\ d.sigs = {n}
                BY <2>1 DEF NewDeposit
            <3>1. CASE i = depSeq + 1
                  <4>1. dep'[i].sigs = {n}  BY <3>1, ExtendFacts
                  <4> QED  BY <4>1
            <3>2. CASE i \in 1..depSeq
                  <4>1. dep'[i] = dep[i]  BY <3>2, ExtendFacts
                  <4> QED  BY <1>1, <3>2, <4>1 DEF SeasonedSigners
            <3> QED  BY <3>1, <3>2
      <2>2. CASE OldDeposits
            <3>1. i \in 1..depSeq /\ DepositMove(dep[i], dep'[i])  BY <2>2 DEF OldDeposits
            <3>2. /\ dep[i].sigs \subseteq dep'[i].sigs
                  /\ dep'[i].sigs \ dep[i].sigs \subseteq Seasoned
                  BY <3>1, MoveSigs
            <3>3. PICK r \in dep[i].sigs : dep[i].sigs \ {r} \subseteq Seasoned
                  BY <3>1 DEF SeasonedSigners
            <3> QED  BY <1>1, <3>2, <3>3
      <2> QED  BY <2>1, <2>2, DepositStep
<1>5. ASSUME NEW i \in 1..wdSeq' PROVE wd'[i].sigs \subseteq Seasoned'
      <2>1. CASE NewWithdrawal
            <3> PICK w \in Withdrawals :
                    wd' = Extend(wd, wdSeq, w) /\ wdSeq' = wdSeq + 1 /\ w.sigs = {}
                BY <2>1 DEF NewWithdrawal
            <3>1. CASE i = wdSeq + 1
                  <4>1. wd'[i].sigs = {}  BY <3>1, ExtendFacts
                  <4> QED  BY <4>1
            <3>2. CASE i \in 1..wdSeq
                  <4>1. wd'[i] = wd[i]  BY <3>2, ExtendFacts
                  <4> QED  BY <1>1, <3>2, <4>1 DEF SeasonedSigners
            <3> QED  BY <3>1, <3>2
      <2>2. CASE OldWithdrawals
            <3>1. i \in 1..wdSeq /\ WithdrawalMove(wd[i], wd'[i])  BY <2>2 DEF OldWithdrawals
            <3>2. wd'[i].sigs \ wd[i].sigs \subseteq Seasoned  BY <3>1, MoveSigs
            <3> QED  BY <1>1, <3>1, <3>2 DEF SeasonedSigners
      <2> QED  BY <2>1, <2>2, WithdrawalStep
<1> QED  BY <1>3, <1>4, <1>5 DEF SeasonedSigners

(* The inductive invariant. *)
THEOREM Invariance == Spec => []IInv
<1>1. IInv /\ [Next]_vars => IInv'
      BY NextType, NextRequests, NextOneDeposit, NextSeasonedSigners DEF IInv
<1> QED  BY InitInv, <1>1, PTL DEF Spec

(* Whatever joins, leaves or gets cancelled in between, a claimable or
   finished request has RequiredSigs signatures of different nodes, all but a
   deposit's reporter past their first days, and no large request is carried
   out before its delay is over. *)
THEOREM SettledIsEarnedHolds == Spec => []SettledIsEarned
<1>1. IInv => Quorum
      BY Shape DEF IInv, RequestsOK, RecordOK, Quorum, SigsOk
<1>2. IInv => DelayServed
      BY Shape DEF IInv, RequestsOK, RecordOK, DelayServed
<1>3. IInv => SettledIsEarned  BY <1>1, <1>2 DEF SettledIsEarned, IInv
<1> QED  BY Invariance, <1>3, PTL

(* No source transaction has two deposits that are not cancelled. *)
THEOREM OneDepositHolds == Spec => []OneDepositPerSource
<1>1. IInv => OneDepositPerSource  BY DEF IInv
<1> QED  BY Invariance, <1>1, PTL

(* Settled requests stay as they are and signatures are never lost. *)
THEOREM SettledIsFinalHolds == Spec => SettledIsFinal
<1>1. ASSUME IInv, [Next]_vars
      PROVE  /\ \A i \in DOMAIN dep :
                   /\ dep[i].status \in {"minted", "cancelled"} => dep'[i].status = dep[i].status
                   /\ dep[i].sigs \subseteq dep'[i].sigs
             /\ \A i \in DOMAIN wd :
                   /\ wd[i].status = "released" => wd'[i].status = "released"
                   /\ wd[i].sigs \subseteq wd'[i].sigs
      <2> USE <1>1, Shape DEF IInv, RequestsOK
      <2>1. ASSUME NEW i \in DOMAIN dep
            PROVE  /\ dep[i].status \in {"minted", "cancelled"} => dep'[i].status = dep[i].status
                   /\ dep[i].sigs \subseteq dep'[i].sigs
            <3>1. CASE NewDeposit  BY <3>1, ExtendFacts DEF NewDeposit
            <3>2. CASE OldDeposits  BY <3>2, DepositMoveOK DEF OldDeposits, Closed
            <3> QED  BY <3>1, <3>2, DepositStep
      <2>2. ASSUME NEW i \in DOMAIN wd
            PROVE  /\ wd[i].status = "released" => wd'[i].status = "released"
                   /\ wd[i].sigs \subseteq wd'[i].sigs
            <3>1. CASE NewWithdrawal  BY <3>1, ExtendFacts DEF NewWithdrawal
            <3>2. CASE OldWithdrawals  BY <3>2, WithdrawalMoveOK DEF OldWithdrawals
            <3> QED  BY <3>1, <3>2, WithdrawalStep
      <2> QED  BY <2>1, <2>2
<1> QED  BY Invariance, <1>1, PTL DEF Spec, SettledIsFinal

(* The bridge implements the ledger of credits: a step that mints deposit i
   credits its key, which no minted deposit has yet; all others stutter. *)
THEOREM CreditOnceHolds == Spec => CreditOnce
<1>1. Init => Credit!Init
      <2> SUFFICES ASSUME Init PROVE CreditedDeposits = {}  BY DEF Credit!Init
      <2>1. DOMAIN dep = 1..0  BY DEF Init
      <2> QED  BY <2>1 DEF CreditedDeposits
<1>2. ASSUME IInv, IInv', [Next]_vars
      PROVE  Credit!Next \/ UNCHANGED CreditedDeposits
      <2> USE <1>2, Shape DEF IInv
      <2>1. CASE NewDeposit
            <3> PICK r \in Deposits : /\ dep' = Extend(dep, depSeq, r)
                                      /\ depSeq' = depSeq + 1 /\ r.status = "pending"
                BY <2>1 DEF NewDeposit
            <3>1. /\ DOMAIN dep' = 1..depSeq + 1
                  /\ \A i \in 1..depSeq : dep'[i] = dep[i]
                  /\ dep'[depSeq + 1].status = "pending"
                  BY ExtendFacts
            <3>2. {j \in DOMAIN dep' : dep'[j].status = "minted"}
                    = {j \in DOMAIN dep : dep[j].status = "minted"}
                  BY <3>1
            <3> QED  BY <3>1, <3>2 DEF CreditedDeposits
      <2>2. CASE UNCHANGED dep  BY <2>2 DEF CreditedDeposits
      <2>3. ASSUME NEW i \in DOMAIN dep, ClaimDeposit(i) PROVE Credit!Next
            <3> DEFINE k == dep[i].key
            <3>1. dep' = [dep EXCEPT ![i] = [@ EXCEPT !.status = "minted"]] /\ Finalizable(dep[i])
                  BY <2>3 DEF ClaimDeposit
            <3>2. k \in Keys /\ i \in DepIds
                  BY BridgeAssumption DEF TypeOK, Deposits, DepIds
            <3>3. dep[i].status \notin {"minted", "cancelled"}  BY <3>1 DEF Finalizable
            <3>4. CreditedDeposits' = CreditedDeposits \cup {<<k, i>>}
                  <4>1. {j \in DOMAIN dep' : dep'[j].status = "minted"}
                          = {j \in DOMAIN dep : dep[j].status = "minted"} \cup {i}
                        BY <3>1 DEF Deposits
                  <4>2. \A j \in DOMAIN dep : dep'[j].key = dep[j].key
                        BY <3>1 DEF Deposits
                  <4> QED  BY <4>1, <4>2 DEF CreditedDeposits
            <3>5. \A c \in CreditedDeposits : c[1] # k /\ c[2] # i
                  BY <3>3 DEF CreditedDeposits, OneDepositPerSource
            <3>6. Credit!Credit(k, i)  BY <3>4, <3>5 DEF Credit!Credit
            <3> QED  BY <3>2, <3>6 DEF Credit!Next
      <2>4. ASSUME dep' \in [DOMAIN dep -> Deposits],
                   \A i \in DOMAIN dep : /\ dep'[i].key = dep[i].key
                                         /\ dep'[i].status = "minted" <=> dep[i].status = "minted"
            PROVE  UNCHANGED CreditedDeposits
            BY <2>4 DEF CreditedDeposits
      <2>5. ASSUME NEW n \in Nodes, NEW i \in DOMAIN dep, SignDeposit(n, i)
            PROVE  UNCHANGED CreditedDeposits
            <3>1. dep' = [dep EXCEPT ![i] = Signed(@, n)] /\ MaySign(n, dep[i])
                  BY <2>5 DEF SignDeposit
            <3>2. RecordOK(dep[i])  BY DEF RequestsOK
            <3>3. /\ Signed(dep[i], n) \in Deposits
                  /\ dep[i].status # "minted" /\ Signed(dep[i], n).status # "minted"
                  /\ Signed(dep[i], n).key = dep[i].key
                  BY <3>1, <3>2, SignedOK, SignedDepositType DEF Statuses
            <3> QED  BY <2>4, <3>1, <3>3
      <2>6. ASSUME NEW i \in DOMAIN dep, CancelDeposit(i) PROVE UNCHANGED CreditedDeposits
            <3> DEFINE s == [dep[i] EXCEPT !.status = "cancelled"]
            <3>1. dep' = [dep EXCEPT ![i] = s] /\ dep[i].status # "minted"
                  BY <2>6 DEF CancelDeposit
            <3>2. s \in Deposits /\ s.key = dep[i].key /\ s.status = "cancelled"
                  BY DEF Deposits
            <3> HIDE DEF s
            <3> QED  BY <2>4, <3>1, <3>2
      <2>7. ASSUME Tick PROVE UNCHANGED CreditedDeposits
            <3>1. dep' = [i \in DOMAIN dep |-> Nearer(dep[i])]  BY <2>7 DEF Tick
            <3>2. \A r \in Deposits : /\ Nearer(r) \in Deposits
                                      /\ Nearer(r).key = r.key /\ Nearer(r).status = r.status
                  BY NearerType DEF Nearer, Deposits
            <3> QED  BY <2>4, <3>1, <3>2
      <2> QED  BY ZenonT(30), <2>1, <2>2, <2>3, <2>5, <2>6, <2>7, ReportAdds
               DEF Next, vars, requests, RegisterNode, ExitNode, ClaimExit, FlushPool,
                   RegisterAsset, SignWithdrawal, ConfirmWithdrawal, Withdraw, Maintain
<1> QED  BY Invariance, <1>1, <1>2, PTL DEF Spec, CreditOnce, Credit!Spec

-----------------------------------------------------------------------------
(* 3. Money.                                                               *)

Tally(f, val) == SumFunction([i \in DOMAIN f |-> val[f[i]]])

Credited(a) ==
    [r \in Deposits |-> IF r.status = "minted" /\ r.asset = a THEN r.amount - r.fee ELSE 0]
DepositFee    == [r \in Deposits |-> IF r.status = "minted" THEN r.fee ELSE 0]
Out(a)        == [r \in Withdrawals |-> IF r.asset = a THEN r.amount ELSE 0]
WithdrawalFee == [r \in Withdrawals |-> IF r.status = "released" THEN r.fee ELSE 0]

(* What a request counts for is an integer. *)
LEMMA ValueTypes ==
    /\ \A a \in Assets : Credited(a) \in [Deposits -> Int] /\ Out(a) \in [Withdrawals -> Int]
    /\ DepositFee \in [Deposits -> Int] /\ WithdrawalFee \in [Withdrawals -> Int]
BY DEF Credited, Out, DepositFee, WithdrawalFee, Deposits, Withdrawals

-----------------------------------------------------------------------------
(* A sum over the requests is an integer. *)
LEMMA TallyType ==
    ASSUME NEW S, NEW val \in [S -> Int], NEW D, IsFiniteSet(D), NEW f \in [D -> S]
    PROVE  Tally(f, val) \in Int
<1> DEFINE h == [i \in D |-> val[f[i]]]
<1>1. h \in [D -> Int] /\ IsFiniteSet(D)  OBVIOUS
<1>2. Tally(f, val) = SumFunction(h)  BY DEF Tally
<1> HIDE DEF h
<1> QED  BY <1>1, <1>2, TotalInt

(* The tally depends on what the requests count ... *)
LEMMA TallySame ==
    ASSUME NEW S, NEW val \in [S -> Int], NEW D, IsFiniteSet(D), NEW f \in [D -> S], NEW g \in [D -> S],
           \A i \in D : val[g[i]] = val[f[i]]
    PROVE  Tally(g, val) = Tally(f, val)
<1>1. [i \in DOMAIN g |-> val[g[i]]] = [i \in DOMAIN f |-> val[f[i]]]  OBVIOUS
<1> QED  BY <1>1 DEF Tally

(* ... changes with one of them ... *)
LEMMA TallyPut ==
    ASSUME NEW D, IsFiniteSet(D), NEW f, NEW g, NEW val, DOMAIN f = D, DOMAIN g = D,
           \A i \in D : val[f[i]] \in Int,
           NEW e \in D, val[g[e]] \in Int, \A z \in D \ {e} : g[z] = f[z]
    PROVE  Tally(g, val) = Tally(f, val) - val[f[e]] + val[g[e]]
<1> DEFINE h == [i \in D |-> val[f[i]]]
           k == [i \in D |-> val[g[i]]]
           y == val[g[e]]
<1>1. h \in [D -> Int] /\ y \in Int /\ h[e] = val[f[e]]  OBVIOUS
<1>2. k = [h EXCEPT ![e] = y]  OBVIOUS
<1>3. Tally(f, val) = SumFunction(h) /\ Tally(g, val) = SumFunction(k)
      BY DEF Tally
<1> HIDE DEF h, k, y
<1>4. \A u \in [D -> Int], v \in Int, z \in D :  SumFunction([u EXCEPT ![z] = v]) = SumFunction(u) - u[z] + v  BY ZenonT(30), TotalPut
<1>5. SumFunction([h EXCEPT ![e] = y]) = SumFunction(h) - h[e] + y  BY <1>1, <1>4
<1>6. Tally(g, val) = Tally(f, val) - h[e] + y  BY <1>2, <1>3, <1>5
<1> QED  BY <1>1, <1>6 DEF y

(* Changing one deposit changes a sum over the deposits by the difference. *)
LEMMA DepositPut ==
    ASSUME NEW D, IsFiniteSet(D), NEW d \in [D -> Deposits], NEW i \in D, NEW s \in Deposits,
           NEW val \in [Deposits -> Int]
    PROVE  Tally([d EXCEPT ![i] = s], val) = Tally(d, val) - val[d[i]] + val[s]
<1> DEFINE g == [d EXCEPT ![i] = s]
<1>1. g[i] = s /\ DOMAIN g = D /\ DOMAIN d = D /\ \A z \in D \ {i} : g[z] = d[z] OBVIOUS
<1>2. (\A z \in D : val[d[z]] \in Int) /\ val[g[i]] \in Int  OBVIOUS
<1> HIDE DEF g
<1>3. Tally(g, val) = Tally(d, val) - val[d[i]] + val[g[i]] BY <1>1, <1>2, TallyPut
<1> QED BY <1>1, <1>3 DEF g

(* The same of one withdrawal. *)
LEMMA WithdrawalPut ==
    ASSUME NEW D, IsFiniteSet(D), NEW d \in [D -> Withdrawals], NEW i \in D, NEW s \in Withdrawals,
           NEW val \in [Withdrawals -> Int]
    PROVE  Tally([d EXCEPT ![i] = s], val) = Tally(d, val) - val[d[i]] + val[s]
<1> DEFINE g == [d EXCEPT ![i] = s]
<1>1. g[i] = s /\ DOMAIN g = D /\ DOMAIN d = D /\ \A z \in D \ {i} : g[z] = d[z] OBVIOUS
<1>2. (\A z \in D : val[d[z]] \in Int) /\ val[g[i]] \in Int  OBVIOUS
<1> HIDE DEF g
<1>3. Tally(g, val) = Tally(d, val) - val[d[i]] + val[g[i]] BY <1>1, <1>2, TallyPut
<1> QED BY <1>1, <1>3 DEF g

(* ... and grows with a new one. *)
LEMMA TallyExtended ==
    ASSUME NEW S, NEW val \in [S -> Int], NEW n \in Nat, NEW f \in [1..n -> S], NEW r \in S
    PROVE  Tally(Extend(f, n, r), val) = Tally(f, val) + val[r]
<1> DEFINE h == [i \in 1..n |-> val[f[i]]]
           g == Extend(f, n, r)
           k == [i \in 1..n + 1 |-> val[g[i]]]
<1>1. g \in [1..n + 1 -> S] /\ g[n + 1] = r /\ \A i \in 1..n : g[i] = f[i]
      BY DEF Extend
<1>2. h \in [1..n -> Int]  OBVIOUS
<1>3. Tally(f, val) = SumFunction(h)  BY DEF Tally
<1> HIDE DEF g
<1>4. k \in [1..n + 1 -> Int] /\ k[n + 1] = val[r] /\ \A i \in 1..n : k[i] = h[i]
      <2>1. n + 1 \in 1..n + 1 /\ 1..n \subseteq 1..n + 1  OBVIOUS
      <2> QED  BY <1>1, <2>1
<1>5. Tally(g, val) = SumFunction(k)  BY <1>1 DEF Tally
<1> HIDE DEF h, k
<1>6. SumFunction(k) = SumFunction(h) + k[n + 1]  BY <1>2, <1>4, TotalExtended
<1> QED  BY <1>3, <1>4, <1>5, <1>6 DEF g

(* A sum over the requests that count is a tally. *)
LEMMA PartIsTally ==
    ASSUME NEW S, NEW val \in [S -> Int], NEW D, IsFiniteSet(D), NEW f \in [D -> S],
           NEW T \in SUBSET D, NEW h \in [T -> Int],
           \A i \in T : h[i] = val[f[i]], \A i \in D \ T : val[f[i]] = 0
    PROVE  SumFunction(h) = Tally(f, val)
<1> DEFINE g == [i \in D |-> val[f[i]]]
<1>1. g \in [D -> Int] /\ IsFiniteSet(D)  OBVIOUS
<1>2. (\A i \in T : g[i] = h[i]) /\ \A i \in D \ T : g[i] = 0  OBVIOUS
<1>3. Tally(f, val) = SumFunction(g)  BY DEF Tally
<1>4. \A i \in T : h[i] \in Int /\ g[i] = h[i]  BY <1>2
<1>5. \A i \in D \ T : g[i] = 0  BY <1>2
<1>6. DOMAIN h = T /\ DOMAIN g = D  OBVIOUS
<1> HIDE DEF g
<1>7. SumFunctionOnSet(h, T) = SumFunctionOnSet(g, D)  BY <1>4, <1>5, SumOfPart
<1> QED  BY <1>3, <1>6, <1>7, TotalIs

-----------------------------------------------------------------------------
(* The sums of MoneyAddsUp as tallies, of any lists of requests. *)
MintedIn(d, a) ==
    SumOf([i \in {j \in DOMAIN d : d[j].status = "minted" /\ d[j].asset = a} |-> d[i].amount - d[i].fee])
BurnedIn(w, a) == SumOf([i \in {j \in DOMAIN w : w[j].asset = a} |-> w[i].amount])
FeesOfDeposits(d) == SumOf([i \in {j \in DOMAIN d : d[j].status = "minted"} |-> d[i].fee])
FeesOfWithdrawals(w) == SumOf([i \in {j \in DOMAIN w : w[j].status = "released"} |-> w[i].fee])

(* What was minted, and the fees kept of it, are such sums over all deposits:
   one not minted counts zero. *)
LEMMA DepositTallies ==
    ASSUME NEW D, IsFiniteSet(D), NEW d \in [D -> Deposits]
    PROVE  /\ \A a \in Assets : MintedIn(d, a) = Tally(d, Credited(a))
           /\ FeesOfDeposits(d) = Tally(d, DepositFee)
<1>1. \A i \in D : d[i] \in Deposits /\ d[i].fee \in Int /\ d[i].amount - d[i].fee \in Int
      BY DEF Deposits
<1>2. ASSUME NEW a \in Assets PROVE MintedIn(d, a) = Tally(d, Credited(a))
      <2> DEFINE T == {j \in D : d[j].status = "minted" /\ d[j].asset = a}
                 h == [i \in T |-> d[i].amount - d[i].fee]
      <2>1. T \in SUBSET D  OBVIOUS
      <2>2. h \in [T -> Int]  BY <1>1
      <2>3. /\ \A i \in T : h[i] = Credited(a)[d[i]]
           /\ \A i \in D \ T : Credited(a)[d[i]] = 0
            BY <1>1 DEF Credited
      <2>4. MintedIn(d, a) = SumFunction(h)  BY DEF MintedIn, SumOf
      <2> DEFINE val == Credited(a)
      <2>5. val \in [Deposits -> Int]  BY ValueTypes
      <2>6. \A i \in T : h[i] = val[d[i]]  BY <2>3
      <2>7. \A i \in D \ T : val[d[i]] = 0  BY <2>3
      <2> HIDE DEF T, h, val
      <2>8. SumFunction(h) = Tally(d, val)  BY <2>1, <2>2, <2>5, <2>6, <2>7, PartIsTally
      <2> QED  BY <2>4, <2>8 DEF val
<1>3. FeesOfDeposits(d) = Tally(d, DepositFee)
      <2> DEFINE T == {j \in D : d[j].status = "minted"}
                 h == [i \in T |-> d[i].fee]
      <2>1. T \in SUBSET D  OBVIOUS
      <2>2. h \in [T -> Int]  BY <1>1
      <2>3. (\A i \in T : h[i] = DepositFee[d[i]]) /\ \A i \in D \ T : DepositFee[d[i]] = 0
            BY <1>1 DEF DepositFee
      <2>4. FeesOfDeposits(d) = SumFunction(h)  BY DEF FeesOfDeposits, SumOf
      <2> DEFINE val == DepositFee
      <2>5. val \in [Deposits -> Int]  BY ValueTypes
      <2>6. \A i \in T : h[i] = val[d[i]]  BY <2>3
      <2>7. \A i \in D \ T : val[d[i]] = 0  BY <2>3
      <2> HIDE DEF T, h, val
      <2>8. SumFunction(h) = Tally(d, val)  BY <2>1, <2>2, <2>5, <2>6, <2>7, PartIsTally
      <2> QED  BY <2>4, <2>8 DEF val
<1> QED  BY <1>2, <1>3

(* So are what was burned and its fees. *)
LEMMA WithdrawalTallies ==
    ASSUME NEW D, IsFiniteSet(D), NEW w \in [D -> Withdrawals]
    PROVE  /\ \A a \in Assets : BurnedIn(w, a) = Tally(w, Out(a))
           /\ FeesOfWithdrawals(w) = Tally(w, WithdrawalFee)
<1>1. \A i \in D : w[i] \in Withdrawals /\ w[i].fee \in Int /\ w[i].amount \in Int
      BY DEF Withdrawals
<1>2. ASSUME NEW a \in Assets PROVE BurnedIn(w, a) = Tally(w, Out(a))
      <2> DEFINE T == {j \in D : w[j].asset = a}
                 h == [i \in T |-> w[i].amount]
      <2>1. T \in SUBSET D  OBVIOUS
      <2>2. h \in [T -> Int]  BY <1>1
      <2>3. (\A i \in T : h[i] = Out(a)[w[i]]) /\ \A i \in D \ T : Out(a)[w[i]] = 0
            BY <1>1 DEF Out
      <2>4. BurnedIn(w, a) = SumFunction(h)  BY DEF BurnedIn, SumOf
      <2> DEFINE val == Out(a)
      <2>5. val \in [Withdrawals -> Int]  BY ValueTypes
      <2>6. \A i \in T : h[i] = val[w[i]]  BY <2>3
      <2>7. \A i \in D \ T : val[w[i]] = 0  BY <2>3
      <2> HIDE DEF T, h, val
      <2>8. SumFunction(h) = Tally(w, val)  BY <2>1, <2>2, <2>5, <2>6, <2>7, PartIsTally
      <2> QED  BY <2>4, <2>8 DEF val
<1>3. FeesOfWithdrawals(w) = Tally(w, WithdrawalFee)
      <2> DEFINE T == {j \in D : w[j].status = "released"}
                 h == [i \in T |-> w[i].fee]
      <2>1. T \in SUBSET D  OBVIOUS
      <2>2. h \in [T -> Int]  BY <1>1
      <2>3. (\A i \in T : h[i] = WithdrawalFee[w[i]]) /\ \A i \in D \ T : WithdrawalFee[w[i]] = 0
            BY <1>1 DEF WithdrawalFee
      <2>4. FeesOfWithdrawals(w) = SumFunction(h)  BY DEF FeesOfWithdrawals, SumOf
      <2> DEFINE val == WithdrawalFee
      <2>5. val \in [Withdrawals -> Int]  BY ValueTypes
      <2>6. \A i \in T : h[i] = val[w[i]]  BY <2>3
      <2>7. \A i \in D \ T : val[w[i]] = 0  BY <2>3
      <2> HIDE DEF T, h, val
      <2>8. SumFunction(h) = Tally(w, val)  BY <2>1, <2>2, <2>5, <2>6, <2>7, PartIsTally
      <2> QED  BY <2>4, <2>8 DEF val
<1> QED  BY <1>2, <1>3

-----------------------------------------------------------------------------
(* The books in tallies, and a node that is not registered has no stake. *)
Stakes == [n \in Nodes |-> node[n].stake]
Idle   == \A n \in Nodes : node[n].status = "none" => node[n].stake = 0

WrappedBooks ==
    \A a \in Assets :
        /\ supply[a] = SumFunction(wrapped[a])
        /\ supply[a] = Tally(dep, Credited(a)) - IF a = Nova THEN 0 ELSE Tally(wd, Out(a))
NovaBooks ==
    SumFunction(nova) + SumFunction(Stakes) + Tally(wd, Out(Nova)) = NovaGenesis * Cardinality(Addrs)
FeeBooks ==
    feePool + validatorPool = Tally(dep, DepositFee) + Tally(wd, WithdrawalFee)
Books == TypeOK /\ Idle /\ WrappedBooks /\ NovaBooks /\ FeeBooks

(* The sums are over finite sets. *)
LEMMA Finite ==
    ASSUME TypeOK
    PROVE  /\ IsFiniteSet(1..depSeq) /\ IsFiniteSet(1..wdSeq) /\ IsFiniteSet(Addrs) /\ IsFiniteSet(Nodes)
           /\ dep \in [1..depSeq -> Deposits] /\ wd \in [1..wdSeq -> Withdrawals]
<1>1. depSeq \in Int /\ wdSeq \in Int /\ 1 \in Int  BY BridgeAssumption DEF TypeOK
<1>2. IsFiniteSet(1..depSeq) /\ IsFiniteSet(1..wdSeq)  BY <1>1, FS_Interval
<1>3. IsFiniteSet(Addrs) /\ IsFiniteSet(Nodes)  BY BridgeAssumption, FS_Union DEF Addrs
<1> QED  BY <1>2, <1>3 DEF TypeOK

(* The equations between those sums are what MoneyAddsUp says of the parts. *)
LEMMA BooksAddUp == Books => MoneyAddsUp
<1> SUFFICES ASSUME Books PROVE MoneyAddsUp  OBVIOUS
<1> DEFINE D == 1..depSeq
           W == 1..wdSeq
<1>1. IsFiniteSet(D) /\ dep \in [D -> Deposits] /\ IsFiniteSet(W) /\ wd \in [W -> Withdrawals]
      BY Finite DEF Books
<1> HIDE DEF D, W
<1>2. /\ \A a \in Assets : MintedIn(dep, a) = Tally(dep, Credited(a))
      /\ FeesOfDeposits(dep) = Tally(dep, DepositFee)
      BY <1>1, DepositTallies
<1>3. /\ \A a \in Assets : BurnedIn(wd, a) = Tally(wd, Out(a))
      /\ FeesOfWithdrawals(wd) = Tally(wd, WithdrawalFee)
      BY <1>1, WithdrawalTallies
<1>4. /\ \A a : Minted(a) = MintedIn(dep, a) /\ Burned(a) = BurnedIn(wd, a)
      BY DEF Minted, MintedIn, Burned, BurnedIn
<1>5. WrappedIsBacked  BY <1>2, <1>3, <1>4 DEF Books, WrappedBooks, WrappedIsBacked, SumOf
<1>6. NovaAddsUp
      <2>1. Nova \in Assets  BY BridgeAssumption
      <2>2. Burned(Nova) = Tally(wd, Out(Nova))  BY <1>3, <1>4, <2>1
      <2>3. SumOf([n \in Nodes |-> node[n].stake]) = SumFunction(Stakes)  BY DEF SumOf, Stakes
      <2>4. SumOf(nova) = SumFunction(nova)  BY DEF SumOf
      <2> QED  BY <2>2, <2>3, <2>4 DEF Books, NovaBooks, NovaAddsUp
<1>7. FeesAddUp
      <2>1. /\ SumOf([i \in {j \in DOMAIN dep : dep[j].status = "minted"} |-> dep[i].fee])
                 = Tally(dep, DepositFee)
            /\ SumOf([i \in {j \in DOMAIN wd : wd[j].status = "released"} |-> wd[i].fee])
                 = Tally(wd, WithdrawalFee)
            BY <1>2, <1>3 DEF FeesOfDeposits, FeesOfWithdrawals
      <2> QED  BY <2>1 DEF Books, FeeBooks, FeesAddUp
<1> QED  BY <1>5, <1>6, <1>7 DEF MoneyAddsUp

(* Every term of the equations is an integer. *)
LEMMA BookTypes ==
    ASSUME TypeOK
    PROVE  /\ nova \in [Addrs -> Int] /\ Stakes \in [Nodes -> Int]
           /\ SumFunction(nova) \in Int /\ SumFunction(Stakes) \in Int
           /\ \A a \in Assets : /\ Tally(dep, Credited(a)) \in Int /\ Tally(wd, Out(a)) \in Int
                                /\ wrapped[a] \in [Addrs -> Int] /\ SumFunction(wrapped[a]) \in Int
                                /\ supply[a] \in Int
           /\ Tally(dep, DepositFee) \in Int /\ Tally(wd, WithdrawalFee) \in Int
           /\ feePool \in Nat /\ validatorPool \in Nat
           /\ NovaGenesis * Cardinality(Addrs) \in Int
<1> DEFINE D == 1..depSeq
           W == 1..wdSeq
<1>1. /\ IsFiniteSet(D) /\ dep \in [D -> Deposits] /\ IsFiniteSet(W) /\ wd \in [W -> Withdrawals]
      /\ IsFiniteSet(Addrs) /\ IsFiniteSet(Nodes)
      BY Finite
<1> HIDE DEF D, W
<1>2. /\ \A a \in Assets : Tally(dep, Credited(a)) \in Int /\ Tally(wd, Out(a)) \in Int
      /\ Tally(dep, DepositFee) \in Int /\ Tally(wd, WithdrawalFee) \in Int
      BY <1>1, TallyType, ValueTypes
<1>3. nova \in [Addrs -> Int] /\ Stakes \in [Nodes -> Int]
      BY DEF TypeOK, Stakes, NodeRecords
<1>4. \A a \in Assets : wrapped[a] \in [Addrs -> Int] /\ supply[a] \in Int  BY DEF TypeOK
<1>5. NovaGenesis * Cardinality(Addrs) \in Int
      <2>1. Cardinality(Addrs) \in Nat /\ NovaGenesis \in Nat  BY <1>1, FS_CardinalityType, BridgeAssumption
      <2> QED  BY <2>1
<1>6. \A a \in Assets : SumFunction(wrapped[a]) \in Int  BY <1>1, <1>4, TotalInt
<1>7. SumFunction(nova) \in Int /\ SumFunction(Stakes) \in Int  BY <1>1, <1>3, TotalInt
<1> QED  BY <1>2, <1>3, <1>4, <1>5, <1>6, <1>7 DEF TypeOK

(* Requests that count what they counted. *)
DepositsCountSame ==
    /\ \A a \in Assets : Tally(dep', Credited(a)) = Tally(dep, Credited(a))
    /\ Tally(dep', DepositFee) = Tally(dep, DepositFee)
WithdrawalsCountSame ==
    /\ \A a \in Assets : Tally(wd', Out(a)) = Tally(wd, Out(a))
    /\ Tally(wd', WithdrawalFee) = Tally(wd, WithdrawalFee)

QuietMove(r, s) ==
    \/ s = r \/ s = Nearer(r)
    \/ \E n \in Nodes : MaySign(n, r) /\ s = Signed(r, n)

(* Signatures, delays, freezes and cancellations do not change what a deposit
   counts for. *)
LEMMA QuietDeposit ==
    ASSUME NEW r \in Deposits, NEW s \in Deposits,
           QuietMove(r, s) \/ (r.status \notin Closed /\ s = [r EXCEPT !.status = "cancelled"])
    PROVE  /\ \A a \in Assets : Credited(a)[s] = Credited(a)[r]
           /\ DepositFee[s] = DepositFee[r]
<1>1. /\ s.asset = r.asset /\ s.amount = r.amount /\ s.fee = r.fee
      /\ s.status = "minted" <=> r.status = "minted"
      <2>1. CASE s = r  BY <2>1
      <2>2. CASE s = Nearer(r)  BY <2>2 DEF Nearer, Deposits
      <2>3. ASSUME NEW n \in Nodes, MaySign(n, r), s = Signed(r, n)
            PROVE  /\ s.asset = r.asset /\ s.amount = r.amount /\ s.fee = r.fee
                   /\ s.status = "minted" <=> r.status = "minted"
            <3> DEFINE st == IF SigsOk(r.sigs \cup {n})
                             THEN (IF r.delay > 0 THEN "held" ELSE "ready") ELSE r.status
            <3>1. s = [r EXCEPT !.sigs = r.sigs \cup {n}, !.status = st]  BY <2>3 DEF Signed
            <3>2. st # "minted" /\ r.status # "minted"  BY <2>3 DEF MaySign
            <3> HIDE DEF st
            <3> QED  BY <3>1, <3>2 DEF Deposits
      <2>4. CASE r.status \notin Closed /\ s = [r EXCEPT !.status = "cancelled"]
            BY <2>4 DEF Closed, Deposits
      <2> QED  BY <2>1, <2>2, <2>3, <2>4 DEF QuietMove
<1> QED  BY <1>1 DEF Credited, DepositFee

(* The same of a withdrawal. *)
LEMMA QuietWithdrawal ==
    ASSUME NEW r \in Withdrawals, NEW s \in Withdrawals, QuietMove(r, s)
    PROVE  /\ \A a \in Assets : Out(a)[s] = Out(a)[r]
           /\ WithdrawalFee[s] = WithdrawalFee[r]
<1>1. /\ s.asset = r.asset /\ s.amount = r.amount /\ s.fee = r.fee
      /\ s.status = "released" <=> r.status = "released"
      <2>1. CASE s = r  BY <2>1
      <2>2. CASE s = Nearer(r)  BY <2>2 DEF Nearer, Withdrawals
      <2>3. ASSUME NEW n \in Nodes, MaySign(n, r), s = Signed(r, n)
            PROVE  /\ s.asset = r.asset /\ s.amount = r.amount /\ s.fee = r.fee
                   /\ s.status = "released" <=> r.status = "released"
            <3> DEFINE st == IF SigsOk(r.sigs \cup {n})
                             THEN (IF r.delay > 0 THEN "held" ELSE "ready") ELSE r.status
            <3>1. s = [r EXCEPT !.sigs = r.sigs \cup {n}, !.status = st]  BY <2>3 DEF Signed
            <3>2. st # "released" /\ r.status # "released"  BY <2>3 DEF MaySign
            <3> HIDE DEF st
            <3> QED  BY <3>1, <3>2 DEF Withdrawals
      <2> QED  BY <2>1, <2>2, <2>3 DEF QuietMove
<1> QED  BY <1>1 DEF Out, WithdrawalFee

(* So a step that only makes such moves leaves the sums alone. *)
LEMMA QuietDeposits ==
    ASSUME TypeOK, TypeOK', depSeq' = depSeq,
           \A i \in 1..depSeq :
              \/ QuietMove(dep[i], dep'[i])
              \/ dep[i].status \notin Closed /\ dep'[i] = [dep[i] EXCEPT !.status = "cancelled"]
    PROVE  DepositsCountSame
<1> DEFINE D == 1..depSeq
           d == dep'
<1>1. /\ IsFiniteSet(D) /\ dep \in [D -> Deposits] /\ d \in [D -> Deposits]
      BY Finite DEF TypeOK
<1>2. ASSUME NEW i \in D
      PROVE  /\ \A a \in Assets : Credited(a)[d[i]] = Credited(a)[dep[i]]
             /\ DepositFee[d[i]] = DepositFee[dep[i]]
      <2>1. dep[i] \in Deposits /\ dep'[i] \in Deposits  BY <1>1
      <2> QED  BY <2>1, QuietDeposit
<1> HIDE DEF D, d
<1>3. ASSUME NEW a \in Assets PROVE Tally(d, Credited(a)) = Tally(dep, Credited(a))
      <2> DEFINE val == Credited(a)
      <2>1. val \in [Deposits -> Int] /\ \A i \in D : val[d[i]] = val[dep[i]]  BY <1>2, ValueTypes
      <2> HIDE DEF val
      <2>2. Tally(d, val) = Tally(dep, val)  BY <1>1, <2>1, TallySame
      <2> QED  BY <2>2 DEF val
<1>4. Tally(d, DepositFee) = Tally(dep, DepositFee)
      <2>1. DepositFee \in [Deposits -> Int] /\ \A i \in D : DepositFee[d[i]] = DepositFee[dep[i]]
            BY <1>2, ValueTypes
      <2> QED  BY <1>1, <2>1, TallySame
<1> QED  BY <1>3, <1>4 DEF DepositsCountSame, d

(* The same of the withdrawals. *)
LEMMA QuietWithdrawals ==
    ASSUME TypeOK, TypeOK', wdSeq' = wdSeq, \A i \in 1..wdSeq : QuietMove(wd[i], wd'[i])
    PROVE  WithdrawalsCountSame
<1> DEFINE D == 1..wdSeq
           w == wd'
<1>1. /\ IsFiniteSet(D) /\ wd \in [D -> Withdrawals] /\ w \in [D -> Withdrawals]
      BY Finite DEF TypeOK
<1>2. ASSUME NEW i \in D
      PROVE  /\ \A a \in Assets : Out(a)[w[i]] = Out(a)[wd[i]]
             /\ WithdrawalFee[w[i]] = WithdrawalFee[wd[i]]
      <2>1. wd[i] \in Withdrawals /\ wd'[i] \in Withdrawals  BY <1>1
      <2> QED  BY <2>1, QuietWithdrawal
<1> HIDE DEF D, w
<1>3. ASSUME NEW a \in Assets PROVE Tally(w, Out(a)) = Tally(wd, Out(a))
      <2> DEFINE val == Out(a)
      <2>1. val \in [Withdrawals -> Int] /\ \A i \in D : val[w[i]] = val[wd[i]]  BY <1>2, ValueTypes
      <2> HIDE DEF val
      <2>2. Tally(w, val) = Tally(wd, val)  BY <1>1, <2>1, TallySame
      <2> QED  BY <2>2 DEF val
<1>4. Tally(w, WithdrawalFee) = Tally(wd, WithdrawalFee)
      <2>1. WithdrawalFee \in [Withdrawals -> Int] /\ \A i \in D : WithdrawalFee[w[i]] = WithdrawalFee[wd[i]]
            BY <1>2, ValueTypes
      <2> QED  BY <1>1, <2>1, TallySame
<1> QED  BY <1>3, <1>4 DEF WithdrawalsCountSame, w

(* Nothing of the money moves. *)
LEMMA NothingMoves ==
    ASSUME Books, TypeOK', DepositsCountSame, WithdrawalsCountSame,
           UNCHANGED <<wrapped, supply, nova>>, Stakes' = Stakes, Idle',
           feePool' + validatorPool' = feePool + validatorPool
    PROVE  Books'
<1>1. WrappedBooks'
      BY DEF Books, WrappedBooks, DepositsCountSame, WithdrawalsCountSame
<1>2. NovaBooks'
      BY BridgeAssumption DEF Books, NovaBooks, WithdrawalsCountSame
<1>3. FeeBooks'  BY DEF Books, FeeBooks, DepositsCountSame, WithdrawalsCountSame
<1> QED  BY <1>1, <1>2, <1>3 DEF Books

-----------------------------------------------------------------------------
(* A node's stake moves between its account and its record. *)
LEMMA StakeMoves ==
    ASSUME Books, TypeOK', NEW n \in Nodes, NEW v \in Int,
           nova' = [nova EXCEPT ![n] = @ + v], Stakes' = [Stakes EXCEPT ![n] = @ - v], Idle',
           UNCHANGED <<requests, assets, fees>>
    PROVE  Books'
<1>1. /\ nova \in [Addrs -> Int] /\ Stakes \in [Nodes -> Int] /\ n \in Addrs
      /\ SumFunction(nova) \in Int /\ SumFunction(Stakes) \in Int
      /\ Tally(wd, Out(Nova)) \in Int
      BY BookTypes, BridgeAssumption DEF Books, Addrs
<1>2. IsFiniteSet(Addrs) /\ IsFiniteSet(Nodes)  BY Finite DEF Books
<1> DEFINE x == nova[n] + v
           y == Stakes[n] - v
<1>3. x \in Int /\ y \in Int /\ nova[n] \in Int /\ Stakes[n] \in Int  BY <1>1
<1>4. nova' = [nova EXCEPT ![n] = x] /\ Stakes' = [Stakes EXCEPT ![n] = y]  OBVIOUS
<1> HIDE DEF x, y
<1>5. SumFunction([nova EXCEPT ![n] = x]) = SumFunction(nova) - nova[n] + x
      BY ZenonT(30), <1>1, <1>2, <1>3, TotalPut
<1>6. SumFunction([Stakes EXCEPT ![n] = y]) = SumFunction(Stakes) - Stakes[n] + y
      BY <1>1, <1>2, <1>3, TotalPut
<1>7. SumFunction(nova') = SumFunction(nova) + v /\ SumFunction(Stakes') = SumFunction(Stakes) - v
      BY <1>1, <1>3, <1>4, <1>5, <1>6 DEF x, y
<1>8. NovaBooks'
      <2>1. SumFunction(nova) + SumFunction(Stakes) + Tally(wd, Out(Nova)) = NovaGenesis * Cardinality(Addrs)
            BY DEF Books, NovaBooks
      <2>2. SumFunction(nova') + SumFunction(Stakes') + Tally(wd, Out(Nova))
              = SumFunction(nova) + SumFunction(Stakes) + Tally(wd, Out(Nova))
            BY <1>1, <1>7
      <2> QED  BY <2>1, <2>2 DEF NovaBooks, requests
<1>9. WrappedBooks' /\ FeeBooks'
      BY DEF Books, WrappedBooks, FeeBooks, requests, assets, fees
<1> QED  BY <1>8, <1>9 DEF Books

(* Registration locks the stake. *)
LEMMA RegisterBooks ==
    ASSUME Books, TypeOK', NEW n \in Nodes, RegisterNode(n)
    PROVE  Books'
<1> DEFINE v == 0 - NodeStake
           r == [status |-> "active", stake |-> NodeStake, age |-> NodeMinAge, wait |-> 0]
<1>1. node \in [Nodes -> NodeRecords] /\ nova \in [Addrs -> Int] /\ n \in Addrs
      BY BookTypes DEF Books, TypeOK, Addrs
<1>2. NodeStake \in Int /\ v \in Int  BY BridgeAssumption
<1>3. /\ node' = [node EXCEPT ![n] = r] /\ nova' = [nova EXCEPT ![n] = @ - NodeStake]
      /\ node[n].status = "none" /\ UNCHANGED <<requests, assets, fees>>
      BY DEF RegisterNode
<1>4. node[n].stake = 0  BY <1>3 DEF Books, Idle
<1>5. nova' = [nova EXCEPT ![n] = @ + v]
      <2>1. nova[n] - NodeStake = nova[n] + v /\ nova[n] \in Int  BY <1>2, <1>1
      <2> HIDE DEF v
      <2> QED  BY <1>3, <2>1
<1>6. Stakes' = [Stakes EXCEPT ![n] = @ - v]
      <2>1. Stakes[n] - v = NodeStake  BY <1>2, <1>4 DEF Stakes
      <2>2. \A m \in Nodes : node'[m].stake = IF m = n THEN NodeStake ELSE node[m].stake
            BY <1>1, <1>3
      <2> HIDE DEF v
      <2> QED  BY <2>1, <2>2 DEF Stakes
<1>7. Idle'  BY <1>1, <1>3 DEF Books, Idle
<1> HIDE DEF v
<1> QED  BY <1>2, <1>1, <1>3, <1>5, <1>6, <1>7, StakeMoves

(* A claimed exit gives it back. *)
LEMMA ClaimExitBooks ==
    ASSUME Books, TypeOK', NEW n \in Nodes, ClaimExit(n)
    PROVE  Books'
<1> DEFINE v == node[n].stake
<1>1. node \in [Nodes -> NodeRecords] /\ v \in Int
      BY SMTT(30) DEF Books, TypeOK, NodeRecords
<1>2. /\ node' = [node EXCEPT ![n] = [@ EXCEPT !.status = "exited", !.stake = 0]]
      /\ nova' = [nova EXCEPT ![n] = @ + v] /\ UNCHANGED <<requests, assets, fees>>
      BY DEF ClaimExit
<1>3. \A m \in Nodes : /\ node'[m].stake = IF m = n THEN 0 ELSE node[m].stake
                       /\ node'[m].status = IF m = n THEN "exited" ELSE node[m].status
      BY <1>1, <1>2 DEF NodeRecords
<1>4. Stakes' = [Stakes EXCEPT ![n] = @ - v]
      <2>1. Stakes[n] - v = 0  BY <1>1 DEF Stakes
      <2> HIDE DEF v
      <2> QED  BY <2>1, <1>3 DEF Stakes
<1>5. Idle'  BY <1>3 DEF Books, Idle
<1> HIDE DEF v
<1> QED  BY <1>1, <1>2, <1>4, <1>5, StakeMoves

(* A report counts nothing yet, and neither pays nor takes. *)
LEMMA ReportBooks ==
    ASSUME Books, TypeOK', NewDeposit, UNCHANGED <<node, wd, wdSeq, assets, nova, fees>>
    PROVE  Books'
<1> PICK r \in Deposits : dep' = Extend(dep, depSeq, r) /\ r.status = "pending"
    BY DEF NewDeposit
<1>1. depSeq \in Nat /\ dep \in [1..depSeq -> Deposits]  BY BridgeAssumption DEF Books, TypeOK
<1>2. ASSUME NEW val \in [Deposits -> Int], val[r] = 0
      PROVE  Tally(dep', val) = Tally(dep, val)
      <2>1. Tally(Extend(dep, depSeq, r), val) = Tally(dep, val) + val[r]  BY <1>1, TallyExtended
      <2>2. Tally(dep, val) \in Int
            <3> DEFINE D == 1..depSeq
            <3>1. IsFiniteSet(D) /\ dep \in [D -> Deposits]  BY Finite DEF Books
            <3> HIDE DEF D
            <3> QED  BY <3>1, TallyType
      <2> QED  BY <1>2, <2>1, <2>2
<1>3. (\A a \in Assets : Credited(a)[r] = 0) /\ DepositFee[r] = 0
      BY DEF Credited, DepositFee
<1>4. DepositsCountSame  BY <1>2, <1>3, ValueTypes DEF DepositsCountSame
<1>5. WithdrawalsCountSame  BY DEF WithdrawalsCountSame
<1>6. Stakes' = Stakes /\ Idle'  BY DEF Stakes, Idle, Books
<1> QED  BY <1>4, <1>5, <1>6, NothingMoves DEF assets, fees

(* A minting counts the deposit, credits the user by as much and moves the
   fee to the pool. *)
LEMMA MintBooks ==
    ASSUME Books, TypeOK', NEW i \in DOMAIN dep, ClaimDeposit(i)
    PROVE  Books'
<1> DEFINE D == 1..depSeq
           r == dep[i]
           a == r.asset
           u == r.user
           net == r.amount - r.fee
           s == [r EXCEPT !.status = "minted"]
<1>1. /\ IsFiniteSet(D) /\ dep \in [D -> Deposits] /\ i \in D
      /\ IsFiniteSet(Addrs) /\ IsFiniteSet(Nodes)
      BY Finite DEF Books, TypeOK
<1>2. /\ r.status # "minted"
      /\ wrapped' = [wrapped EXCEPT ![a][u] = @ + net] /\ supply' = [supply EXCEPT ![a] = @ + net]
      /\ feePool' = feePool + r.fee /\ dep' = [dep EXCEPT ![i] = s]
      /\ UNCHANGED <<node, wd, nova, validatorPool>>
      BY DEF ClaimDeposit, Finalizable
<1>3. r \in Deposits  BY <1>1
<1>4. /\ a \in Assets /\ u \in Addrs /\ r.amount \in Nat /\ r.fee \in Nat /\ net \in Int /\ s \in Deposits
      BY <1>3 DEF Deposits, Addrs
<1>5. /\ \A b \in Assets : /\ Credited(b)[r] = 0
                           /\ Credited(b)[s] = IF b = a THEN net ELSE 0
      /\ DepositFee[r] = 0 /\ DepositFee[s] = r.fee
      BY <1>2, <1>3, <1>4 DEF Credited, DepositFee, Deposits
<1>6. ASSUME NEW val \in [Deposits -> Int], val[r] = 0
      PROVE  Tally(dep', val) = Tally(dep, val) + val[s]
      <2> HIDE DEF D, s, a, u, net
      <2>1. Tally([dep EXCEPT ![i] = s], val) = Tally(dep, val) - val[dep[i]] + val[s]
            BY <1>1, <1>4, DepositPut
      <2>2. Tally(dep, val) \in Int  BY <1>1, TallyType
      <2>3. val[s] \in Int  BY <1>4
      <2> QED  BY <1>2, <1>6, <2>1, <2>2, <2>3
<1>7. /\ \A b \in Assets : Tally(dep', Credited(b)) = Tally(dep, Credited(b)) + Credited(b)[s]
      /\ Tally(dep', DepositFee) = Tally(dep, DepositFee) + r.fee
      <2> HIDE DEF r, s
      <2>1. \A b \in Assets : Credited(b) \in [Deposits -> Int] /\ Credited(b)[r] = 0
            BY <1>5, ValueTypes
      <2>2. DepositFee \in [Deposits -> Int] /\ DepositFee[r] = 0 BY <1>5, ValueTypes
      <2> QED  BY <1>5, <1>6, <2>1, <2>2
<1> HIDE DEF D, r, a, u, net, s
<1>8. WrappedBooks'
      <2> SUFFICES ASSUME NEW b \in Assets
                   PROVE  /\ supply'[b] = SumFunction(wrapped'[b])
                          /\ supply'[b] = Tally(dep', Credited(b)) - IF b = Nova THEN 0 ELSE Tally(wd', Out(b))
          BY DEF WrappedBooks
      <2>1. /\ supply[b] = SumFunction(wrapped[b]) /\ supply[b] \in Int
            /\ supply[b] = Tally(dep, Credited(b)) - IF b = Nova THEN 0 ELSE Tally(wd, Out(b))
            /\ Tally(dep, Credited(b)) \in Int /\ Tally(wd, Out(b)) \in Int
            BY BookTypes DEF Books, WrappedBooks
      <2> DEFINE out == IF b = Nova THEN 0 ELSE Tally(wd, Out(b))
      <2>2. out \in Int /\ out = IF b = Nova THEN 0 ELSE Tally(wd', Out(b))
            BY <1>2, <2>1
      <2>3. supply[b] = Tally(dep, Credited(b)) - out  BY <2>1
      <2> HIDE DEF out
      <2>4. SUFFICES supply'[b] = SumFunction(wrapped'[b]) /\ supply'[b] = Tally(dep', Credited(b)) - out
            BY <2>2
      <2>5. CASE b # a
            <3>1. supply'[b] = supply[b] /\ wrapped'[b] = wrapped[b]
                  BY <1>2, <2>5 DEF Books, TypeOK
            <3>2. Tally(dep', Credited(b)) = Tally(dep, Credited(b)) + 0  BY <1>5, <1>7, <2>5
            <3>3. supply'[b] = SumFunction(wrapped'[b])  BY <2>1, <3>1
            <3>4. Tally(dep', Credited(b)) = Tally(dep, Credited(b))  BY <2>1, <3>2
            <3> QED  BY <2>3, <3>1, <3>3, <3>4
      <2>6. CASE b = a
            <3>1. wrapped[a] \in [Addrs -> Int]  BY <1>4 DEF Books, TypeOK
            <3> DEFINE bal == wrapped[a]
                       v == bal[u] + net
            <3>2. v \in Int /\ bal[u] \in Int  BY <1>4, <3>1
            <3>3. supply'[a] = supply[a] + net /\ wrapped'[a] = [bal EXCEPT ![u] = v]
                  BY <1>2, <1>4 DEF Books, TypeOK
            <3> HIDE DEF v, bal
            <3>4. SumFunction([bal EXCEPT ![u] = v]) = SumFunction(bal) - bal[u] + v
                  BY <1>1, <1>4, <3>1, <3>2, TotalPut DEF bal
            <3>5. SumFunction(wrapped'[a]) = SumFunction(wrapped[a]) + net
                  <4>1. SumFunction(wrapped'[a]) = SumFunction(bal) - bal[u] + v  BY <3>3, <3>4
                  <4>2. v = bal[u] + net  BY DEF v
                  <4>3. SumFunction(bal) \in Int  BY <1>1, <3>1, TotalInt DEF bal
                  <4>4. SumFunction(wrapped'[a]) = SumFunction(bal) + net
                        BY <1>4, <3>2, <4>1, <4>2, <4>3
                  <4> QED  BY <4>4 DEF bal
            <3>6. Tally(dep', Credited(b)) = Tally(dep, Credited(b)) + net  BY <1>5, <1>7, <2>6
            <3>7. supply'[b] = supply[b] + net /\ SumFunction(wrapped'[b]) = SumFunction(wrapped[b]) + net
                  BY <2>6, <3>3, <3>5
            <3>8. supply'[b] = SumFunction(wrapped'[b])  BY <2>1, <3>7
            <3>9. supply'[b] = Tally(dep', Credited(b)) - out  BY <1>4, <2>1, <2>2, <2>3, <3>6, <3>7
            <3> QED  BY <3>8, <3>9
      <2> QED  BY <2>5, <2>6
<1>9. NovaBooks'
      BY <1>2 DEF Books, NovaBooks, Stakes
<1>10. FeeBooks'
      <2>1. /\ feePool + validatorPool = Tally(dep, DepositFee) + Tally(wd, WithdrawalFee)
            /\ Tally(dep, DepositFee) \in Int /\ Tally(wd, WithdrawalFee) \in Int
            /\ feePool \in Int /\ validatorPool \in Int
            BY BookTypes DEF Books, FeeBooks
      <2>2. /\ feePool' = feePool + r.fee /\ validatorPool' = validatorPool
            /\ Tally(wd', WithdrawalFee) = Tally(wd, WithdrawalFee)
            BY <1>2
      <2> QED  BY <1>4, <1>7, <2>1, <2>2 DEF FeeBooks
<1>11. Idle'  BY <1>2 DEF Books, Idle
<1> QED  BY <1>8, <1>9, <1>10, <1>11 DEF Books

(* A withdrawal takes from the sender what its record says went out. *)
LEMMA WithdrawBooks ==
    ASSUME Books, TypeOK', NEW u \in Users, NEW a \in Assets, NEW amt \in Amounts, Withdraw(u, a, amt)
    PROVE  Books'
<1> PICK r \in Withdrawals : wd' = Extend(wd, wdSeq, r) /\ r.status = "pending"
    BY RequestAdds DEF Books, NewWithdrawal
<1>1. /\ wdSeq \in Nat /\ wd \in [1..wdSeq -> Withdrawals] /\ u \in Addrs /\ amt \in Int
      BY BridgeAssumption DEF Books, TypeOK, Addrs
<1>2. r.asset = a /\ r.amount = amt
      <2>1. wd'[wdSeq + 1] = r  BY <1>1, ExtendFacts
      <2> DEFINE q == [user |-> u, asset |-> a, amount |-> amt, fee |-> Fee(a, amt),
                       usd |-> Usd(a, amt), delay |-> DelayFor(Usd(a, amt)),
                       hold |-> DelayFor(Usd(a, amt)), status |-> "pending", sigs |-> {}]
      <2>2. wd' = Extend(wd, wdSeq, q)  BY DEF Withdraw
      <2>3. q.asset = a /\ q.amount = amt  OBVIOUS
      <2> HIDE DEF q
      <2>4. Extend(wd, wdSeq, q)[wdSeq + 1] = q  BY <1>1, ExtendFacts
      <2>5. wd'[wdSeq + 1] = q  BY <2>2, <2>4
      <2> QED  BY <2>1, <2>3, <2>5
<1>3. UNCHANGED <<node, dep, feePool, validatorPool>>  BY DEF Withdraw, fees
<1>4. IsFiniteSet(Addrs)  BY Finite DEF Books
<1>5. ASSUME NEW val \in [Withdrawals -> Int]
      PROVE  Tally(wd', val) = Tally(wd, val) + val[r]
      <2>1. Tally(Extend(wd, wdSeq, r), val) = Tally(wd, val) + val[r]  BY <1>1, TallyExtended
      <2> QED  BY <2>1
<1>6. /\ \A b \in Assets : Tally(wd', Out(b)) = Tally(wd, Out(b)) + IF b = a THEN amt ELSE 0
      /\ Tally(wd', WithdrawalFee) = Tally(wd, WithdrawalFee) + 0
      <2>1. WithdrawalFee[r] = 0  BY DEF WithdrawalFee
      <2>2. \A b \in Assets : Out(b)[r] = IF b = a THEN amt ELSE 0  BY <1>2 DEF Out
      <2>3. /\ \A b \in Assets : Tally(wd', Out(b)) = Tally(wd, Out(b)) + Out(b)[r]
            /\ Tally(wd', WithdrawalFee) = Tally(wd, WithdrawalFee) + WithdrawalFee[r]
            BY <1>5, ValueTypes
      <2> QED  BY <2>1, <2>2, <2>3
<1>7. /\ \A b \in Assets : Tally(dep, Credited(b)) \in Int /\ Tally(wd, Out(b)) \in Int /\ supply[b] \in Int
      /\ Tally(wd, WithdrawalFee) \in Int /\ Tally(dep, DepositFee) \in Int /\ Nova \in Assets
      /\ SumFunction(nova) \in Int /\ SumFunction(Stakes) \in Int
      BY BookTypes, BridgeAssumption DEF Books
<1>8. FeeBooks'  BY <1>3, <1>6, <1>7 DEF Books, FeeBooks
<1>9. Idle' /\ Stakes' = Stakes  BY <1>3 DEF Books, Idle, Stakes
<1>10. CASE a = Nova /\ nova' = [nova EXCEPT ![u] = @ - amt] /\ UNCHANGED <<wrapped, supply>>
      <2> DEFINE v == nova[u] - amt
      <2>1. v \in Int /\ nova \in [Addrs -> Int] /\ nova[u] \in Int  BY <1>1, BookTypes DEF Books
      <2>2. nova' = [nova EXCEPT ![u] = v]  BY <1>10
      <2> HIDE DEF v
      <2>3. SumFunction([nova EXCEPT ![u] = v]) = SumFunction(nova) - nova[u] + v
            BY <1>1, <1>4, <2>1, TotalPut
      <2>4. SumFunction(nova') = SumFunction(nova) - amt  BY <1>1, <1>7, <2>1, <2>2, <2>3 DEF v
      <2>5. Tally(wd', Out(Nova)) = Tally(wd, Out(Nova)) + amt  BY <1>6, <1>10
      <2>6. SumFunction(nova) + SumFunction(Stakes) + Tally(wd, Out(Nova)) = NovaGenesis * Cardinality(Addrs)
            BY DEF Books, NovaBooks
      <2>7. SumFunction(nova') + SumFunction(Stakes) + Tally(wd', Out(Nova))
              = SumFunction(nova) + SumFunction(Stakes) + Tally(wd, Out(Nova))
            BY <1>1, <1>7, <2>4, <2>5
      <2>8. NovaBooks'  BY <1>9, <2>6, <2>7 DEF NovaBooks
      <2>9. \A b \in Assets : b # Nova => Tally(wd', Out(b)) = Tally(wd, Out(b))
            BY <1>6, <1>7, <1>10
      <2>10. WrappedBooks'  BY <1>3, <1>10, <2>9 DEF Books, WrappedBooks
      <2> QED  BY <1>8, <1>9, <2>8, <2>10 DEF Books
<1>11. CASE /\ a # Nova /\ wrapped' = [wrapped EXCEPT ![a][u] = @ - amt]
            /\ supply' = [supply EXCEPT ![a] = @ - amt] /\ UNCHANGED nova
      <2>1. Tally(wd', Out(Nova)) = Tally(wd, Out(Nova))  BY <1>6, <1>7, <1>11
      <2>2. NovaBooks'  BY <1>9, <1>11, <2>1 DEF Books, NovaBooks
      <2>3. WrappedBooks'
            <3> SUFFICES ASSUME NEW b \in Assets
                         PROVE  /\ supply'[b] = SumFunction(wrapped'[b])
                                /\ supply'[b] = Tally(dep', Credited(b)) - IF b = Nova THEN 0 ELSE Tally(wd', Out(b))
                BY DEF WrappedBooks
            <3>1. /\ supply[b] = SumFunction(wrapped[b])
                  /\ supply[b] = Tally(dep, Credited(b)) - IF b = Nova THEN 0 ELSE Tally(wd, Out(b))
                  BY DEF Books, WrappedBooks
            <3>2. CASE b # a
                  <4>1. supply'[b] = supply[b] /\ wrapped'[b] = wrapped[b]
                        BY <1>11, <3>2 DEF Books, TypeOK
                  <4>2. Tally(wd', Out(b)) = Tally(wd, Out(b))  BY <1>6, <1>7, <3>2
                  <4> QED  BY <1>3, <3>1, <4>1, <4>2
            <3>3. CASE b = a
                  <4> DEFINE bal == wrapped[a]
                             v == bal[u] - amt
                  <4>1. bal \in [Addrs -> Int] /\ wrapped[a] = bal  BY DEF Books, TypeOK
                  <4>2. v \in Int /\ bal[u] \in Int  BY <1>1, <4>1
                  <4>3. supply'[a] = supply[a] - amt /\ wrapped'[a] = [bal EXCEPT ![u] = v]
                        BY <1>1, <1>11 DEF Books, TypeOK
                  <4> HIDE DEF v, bal
                  <4>4. SumFunction([bal EXCEPT ![u] = v]) = SumFunction(bal) - bal[u] + v
                        BY <1>1, <1>4, <4>1, <4>2, TotalPut
                  <4>5. SumFunction(wrapped'[a]) = SumFunction(wrapped[a]) - amt
                        <5>1. SumFunction(wrapped'[a]) = SumFunction(bal) - bal[u] + v  BY <4>3, <4>4
                        <5>2. v = bal[u] - amt  BY DEF v
                        <5>3. SumFunction(bal) \in Int  BY <1>4, <4>1, TotalInt
                        <5>4. SumFunction(wrapped'[a]) = SumFunction(bal) - amt
                              BY <1>1, <4>2, <5>1, <5>2, <5>3
                        <5> QED  BY <5>4 DEF bal
                  <4>6. Tally(wd', Out(a)) = Tally(wd, Out(a)) + amt  BY <1>6
                  <4>7. supply[a] = SumFunction(wrapped[a]) /\ supply[a] = Tally(dep, Credited(a)) - Tally(wd, Out(a))
                        BY <1>11, <3>1, <3>3
                  <4>8. supply'[a] = SumFunction(wrapped'[a])  BY <4>3, <4>5, <4>7
                  <4>9. supply'[a] = Tally(dep', Credited(a)) - Tally(wd', Out(a))
                        BY <1>1, <1>3, <1>7, <4>3, <4>6, <4>7
                  <4> QED  BY <1>11, <3>3, <4>8, <4>9
            <3> QED  BY <3>2, <3>3
      <2> QED  BY <1>8, <1>9, <2>2, <2>3 DEF Books
<1> QED  BY <1>10, <1>11 DEF Withdraw

(* A release moves the request's fee to the pool. *)
LEMMA ConfirmBooks ==
    ASSUME Books, TypeOK', NEW n \in Nodes, NEW i \in DOMAIN wd, ConfirmWithdrawal(n, i)
    PROVE  Books'
<1> DEFINE D == 1..wdSeq
           r == wd[i]
           s == [r EXCEPT !.status = "released"]
<1>1. IsFiniteSet(D) /\ wd \in [D -> Withdrawals] /\ i \in D
      BY Finite DEF Books, TypeOK
<1>2. /\ r.status # "released" /\ feePool' = feePool + r.fee /\ wd' = [wd EXCEPT ![i] = s]
      /\ UNCHANGED <<node, dep, wrapped, supply, nova, validatorPool>>
      BY DEF ConfirmWithdrawal, Finalizable, assets
<1>3. r \in Withdrawals /\ s \in Withdrawals /\ r.fee \in Nat  BY <1>1 DEF Withdrawals
<1>4. /\ \A b \in Assets : Out(b)[s] = Out(b)[r]
      /\ WithdrawalFee[r] = 0 /\ WithdrawalFee[s] = r.fee
      BY <1>2, <1>3 DEF Out, WithdrawalFee, Withdrawals
<1>5. ASSUME NEW val \in [Withdrawals -> Int]
      PROVE  Tally(wd', val) = Tally(wd, val) - val[r] + val[s] /\ Tally(wd, val) \in Int
      <2> HIDE DEF D, s
      <2>1. Tally([wd EXCEPT ![i] = s], val) = Tally(wd, val) - val[wd[i]] + val[s]
            BY <1>1, <1>3, WithdrawalPut
      <2>2. Tally(wd, val) \in Int  BY <1>1, TallyType
      <2> QED  BY <1>2, <2>1, <2>2
<1> HIDE DEF D, r, s
<1>6. ASSUME NEW b \in Assets PROVE Tally(wd', Out(b)) = Tally(wd, Out(b))
      <2> DEFINE val == Out(b)
      <2>1. val \in [Withdrawals -> Int] /\ val[s] = val[r]  BY <1>4, ValueTypes
      <2>2. val[r] \in Int  BY <2>1, <1>3
      <2> HIDE DEF val
      <2>3. Tally(wd', val) = Tally(wd, val) - val[r] + val[s] /\ Tally(wd, val) \in Int  BY <2>1, <1>5
      <2>4. Tally(wd', val) = Tally(wd, val)  BY <2>1, <2>2, <2>3
      <2> QED  BY <2>4 DEF val
<1>7. Tally(wd', WithdrawalFee) = Tally(wd, WithdrawalFee) + r.fee
      <2>1. Tally(wd', WithdrawalFee) = Tally(wd, WithdrawalFee) - WithdrawalFee[r] + WithdrawalFee[s]
            BY <1>5, ValueTypes
      <2>2. Tally(wd, WithdrawalFee) \in Int  BY <1>5, ValueTypes
      <2> QED  BY <1>3, <1>4, <2>1, <2>2
<1>8. WrappedBooks'
      BY <1>2, <1>6 DEF Books, WrappedBooks
<1>9. NovaBooks'
      BY <1>2, <1>6, BridgeAssumption DEF Books, NovaBooks, Stakes
<1>10. FeeBooks'
      <2>1. /\ feePool + validatorPool = Tally(dep, DepositFee) + Tally(wd, WithdrawalFee)
            /\ Tally(dep, DepositFee) \in Int /\ Tally(wd, WithdrawalFee) \in Int
            /\ feePool \in Int /\ validatorPool \in Int
            BY BookTypes DEF Books, FeeBooks
      <2>2. /\ feePool' = feePool + r.fee /\ validatorPool' = validatorPool
            /\ Tally(dep', DepositFee) = Tally(dep, DepositFee)
            BY <1>2
      <2> QED  BY <1>3, <1>7, <2>1, <2>2 DEF FeeBooks
<1>11. Idle'  BY <1>2 DEF Books, Idle
<1> QED  BY <1>8, <1>9, <1>10, <1>11 DEF Books

(* Signing, cancelling, leaving, listing, flushing and waiting move nothing. *)
LEMMA QuietBooks ==
    ASSUME Books, TypeOK', UNCHANGED <<wrapped, supply, nova, depSeq, wdSeq>>,
           \A n \in Nodes : /\ node'[n].stake = node[n].stake
                            /\ node'[n].status = "none" => node[n].status = "none",
           \A i \in 1..depSeq :
              \/ QuietMove(dep[i], dep'[i])
              \/ dep[i].status \notin Closed /\ dep'[i] = [dep[i] EXCEPT !.status = "cancelled"],
           \A i \in 1..wdSeq : QuietMove(wd[i], wd'[i]),
           feePool' + validatorPool' = feePool + validatorPool
    PROVE  Books'
<1>1. DepositsCountSame  BY QuietDeposits DEF Books
<1>2. WithdrawalsCountSame  BY QuietWithdrawals DEF Books
<1>3. Stakes' = Stakes  BY DEF Stakes
<1>4. Idle'  BY DEF Books, Idle
<1> QED  BY <1>1, <1>2, <1>3, <1>4, NothingMoves

(* The books add up when nothing has been minted. *)
LEMMA InitBooks == Init => Books
<1> SUFFICES ASSUME Init PROVE Books  OBVIOUS
<1>1. TypeOK  BY InitType
<1>2. IsFiniteSet(Addrs) /\ IsFiniteSet(Nodes)  BY <1>1, Finite
<1>3. /\ DOMAIN dep = 1..0 /\ DOMAIN wd = 1..0 /\ feePool = 0 /\ validatorPool = 0
      /\ node = [n \in Nodes |-> [status |-> "none", stake |-> 0, age |-> 0, wait |-> 0]]
      /\ nova = [u \in Addrs |-> NovaGenesis]
      /\ \A a \in Assets : supply[a] = 0 /\ wrapped[a] = [u \in Addrs |-> 0]
      BY DEF Init
<1>4. ASSUME NEW f, DOMAIN f = 1..0, NEW val PROVE Tally(f, val) = 0
      <2> DEFINE h == [i \in DOMAIN f |-> val[f[i]]]
      <2>1. DOMAIN h = {}  BY <1>4
      <2>2. Tally(f, val) = SumFunction(h)  BY DEF Tally
      <2> HIDE DEF h
      <2>3. SumFunction(h) = SumFunctionOnSet(h, {})  BY <2>1, TotalIs
      <2> QED  BY <2>2, <2>3, SumEmpty
<1>5. /\ \A a \in Assets : Tally(dep, Credited(a)) = 0 /\ Tally(wd, Out(a)) = 0
      /\ Tally(dep, DepositFee) = 0 /\ Tally(wd, WithdrawalFee) = 0
      BY <1>3, <1>4
<1>6. WrappedBooks
      <2>1. SumFunction([u \in Addrs |-> 0]) = 0  BY <1>2, TotalZero
      <2> QED  BY <1>3, <1>5, <2>1 DEF WrappedBooks
<1>7. SumFunction(Stakes) = 0
      <2>1. Stakes = [n \in Nodes |-> 0]  BY <1>3 DEF Stakes
      <2> QED  BY <1>2, <2>1, TotalZero
<1>8. SumFunction(nova) = NovaGenesis * Cardinality(Addrs)
      <2>1. NovaGenesis \in Int  BY BridgeAssumption
      <2>2. DOMAIN nova = Addrs /\ \A u \in Addrs : nova[u] = NovaGenesis  BY <1>3
      <2>3. SumFunction(nova) = SumFunctionOnSet(nova, Addrs)  BY <2>2, TotalIs
      <2> QED  BY <1>2, <2>1, <2>2, <2>3, SumConstant
<1>9. NovaBooks
      <2>1. SumFunction(nova) \in Int /\ Nova \in Assets  BY <1>1, BookTypes, BridgeAssumption
      <2> QED  BY <1>5, <1>7, <1>8, <2>1 DEF NovaBooks
<1>10. FeeBooks  BY <1>3, <1>5 DEF FeeBooks
<1>11. Idle  BY <1>3 DEF Idle
<1> QED  BY <1>1, <1>6, <1>9, <1>10, <1>11 DEF Books

(* Books is inductive: one step per action. *)
LEMMA NextBooks == Books /\ [Next]_vars => Books'
<1> SUFFICES ASSUME Books, [Next]_vars PROVE Books'  OBVIOUS
<1>1. TypeOK /\ TypeOK'  BY NextType DEF Books
<1> USE DEF QuietMove
<1>2. ASSUME NEW n \in Nodes, RegisterNode(n) PROVE Books'  BY <1>1, <1>2, RegisterBooks
<1>3. ASSUME NEW n \in Nodes, ExitNode(n) PROVE Books'
      <2>1. \A m \in Nodes : /\ node'[m].stake = node[m].stake
                             /\ node'[m].status = "none" => node[m].status = "none"
            BY <1>1, <1>3 DEF ExitNode, TypeOK, NodeRecords
      <2>2. UNCHANGED <<requests, assets, nova, fees>>  BY <1>3 DEF ExitNode
      <2> QED  BY <1>1, <2>1, <2>2, QuietBooks DEF requests, assets, fees
<1>4. ASSUME NEW n \in Nodes, ClaimExit(n) PROVE Books'  BY <1>1, <1>4, ClaimExitBooks
<1>5. ASSUME NEW n \in Nodes, FlushPool(n) PROVE Books'
      <2>1. feePool' + validatorPool' = feePool + validatorPool
            BY <1>1, <1>5 DEF FlushPool, TypeOK
      <2>2. UNCHANGED <<node, requests, assets, nova>>  BY <1>5 DEF FlushPool
      <2> QED  BY <1>1, <2>1, <2>2, QuietBooks DEF requests, assets
<1>6. ASSUME NEW n \in Nodes, NEW a \in Assets, RegisterAsset(n, a) PROVE Books'
      <2>1. UNCHANGED <<node, requests, wrapped, supply, nova, fees>>  BY <1>6 DEF RegisterAsset
      <2> QED  BY <1>1, <2>1, QuietBooks DEF requests, fees
<1>7. ASSUME NEW n \in Nodes, NEW i \in DOMAIN dep, SignDeposit(n, i) PROVE Books'
      <2>1. \A j \in 1..depSeq : QuietMove(dep[j], dep'[j])
            BY <1>1, <1>7 DEF SignDeposit, TypeOK
      <2>2. UNCHANGED <<node, wd, depSeq, wdSeq, assets, nova, fees>>  BY <1>7 DEF SignDeposit
      <2> QED  BY <1>1, <2>1, <2>2, QuietBooks DEF assets, fees
<1>8. ASSUME NEW n \in Nodes, NEW i \in DOMAIN wd, SignWithdrawal(n, i) PROVE Books'
      <2>1. \A j \in 1..wdSeq : QuietMove(wd[j], wd'[j])
            BY <1>1, <1>8 DEF SignWithdrawal, TypeOK
      <2>2. UNCHANGED <<node, dep, depSeq, wdSeq, assets, nova, fees>>  BY <1>8 DEF SignWithdrawal
      <2> QED  BY <1>1, <2>1, <2>2, QuietBooks DEF assets, fees
<1>9. ASSUME NEW n \in Nodes, NEW i \in DOMAIN wd, ConfirmWithdrawal(n, i) PROVE Books'
      BY <1>1, <1>9, ConfirmBooks
<1>10. ASSUME NEW n \in Nodes, NEW k \in Keys, NEW a \in Assets, NEW u \in Users,
              NEW amt \in Amounts, Deposit(n, k, a, u, amt)
       PROVE  Books'
      <2>1. NewDeposit  BY <1>1, <1>10, ReportAdds
      <2>2. UNCHANGED <<node, wd, wdSeq, assets, nova, fees>>  BY <1>10 DEF Deposit
      <2> QED  BY <1>1, <2>1, <2>2, ReportBooks
<1>11. ASSUME NEW i \in DOMAIN dep, ClaimDeposit(i) PROVE Books'  BY <1>1, <1>11, MintBooks
<1>12. ASSUME NEW i \in DOMAIN dep, CancelDeposit(i) PROVE Books'
      <2>1. \A j \in 1..depSeq :
               \/ QuietMove(dep[j], dep'[j])
               \/ dep[j].status \notin Closed /\ dep'[j] = [dep[j] EXCEPT !.status = "cancelled"]
            BY <1>1, <1>12 DEF CancelDeposit, TypeOK, Closed
      <2>2. UNCHANGED <<node, wd, depSeq, wdSeq, assets, nova, fees>>  BY <1>12 DEF CancelDeposit
      <2> QED  BY <1>1, <2>1, <2>2, QuietBooks DEF assets, fees
<1>13. ASSUME NEW u \in Users, NEW a \in Assets, NEW amt \in Amounts, Withdraw(u, a, amt)
       PROVE  Books'
       BY <1>1, <1>13, WithdrawBooks
<1>14. ASSUME Maintain PROVE Books'
      <2>1. feePool' + validatorPool' = feePool + validatorPool
            BY <1>1, <1>14 DEF Maintain, TypeOK
      <2>2. UNCHANGED <<node, requests, assets, nova>>  BY <1>14 DEF Maintain
      <2> QED  BY <1>1, <2>1, <2>2, QuietBooks DEF requests, assets
<1>15. ASSUME Tick PROVE Books'
      <2>1. \A m \in Nodes : node'[m].stake = node[m].stake /\ node'[m].status = node[m].status
            BY ZenonT(30), <1>1, <1>15 DEF Tick, Older, TypeOK, NodeRecords
      <2>2. /\ \A j \in 1..depSeq : QuietMove(dep[j], dep'[j])
            /\ \A j \in 1..wdSeq : QuietMove(wd[j], wd'[j])
            BY <1>1, <1>15 DEF Tick, TypeOK
      <2>3. UNCHANGED <<depSeq, wdSeq, assets, nova, feePool, validatorPool>>  BY <1>15 DEF Tick
      <2> QED  BY <1>1, <2>1, <2>2, <2>3, QuietBooks DEF assets
<1>16. ASSUME UNCHANGED vars PROVE Books'
      <2>1. UNCHANGED <<node, requests, assets, nova, fees>>  BY <1>16 DEF vars
      <2> QED  BY <1>1, <2>1, QuietBooks DEF requests, assets, fees
<1> QED  BY <1>2, <1>3, <1>4, <1>5, <1>6, <1>7, <1>8, <1>9, <1>10, <1>11, <1>12, <1>13,
            <1>14, <1>15, <1>16 DEF Next

(* Wrapped assets are what was minted and not burned, native balances, node
   stakes and withdrawn NOVA make up the genesis, and every fee of a settled
   request is in one of the two pools, however the requests interleave. *)
THEOREM MoneyAddsUpHolds == Spec => []MoneyAddsUp
<1>1. Spec => []Books  BY InitBooks, NextBooks, PTL DEF Spec
<1> QED  BY <1>1, BooksAddUp, PTL
=============================================================================
