--------------------------- MODULE StakingProofs ---------------------------
(*****************************************************************************)
(* Four properties of module Staking, for every set of nodes, every genesis  *)
(* and all amounts and periods.  1. GradualExit is not inductive: the        *)
(* ceiling is tested against all that waits to be claimed, so what was       *)
(* unstaked since the last claim must be a part of that (Pending).  2.       *)
(* BooksBalance is inductive once every account has its type (Books).  3.    *)
(* RewardArrives follows from the books: a share is rounded down by less     *)
(* than one unit.  4. OldStakeKept needs that a node that never upgraded has *)
(* all its stake in layers (Backed); what _apply_stake_op consumes of the    *)
(* layers is compared with what it leaves as two weighted sums               *)
(* (ReducedWorth).                                                           *)
(*****************************************************************************)
EXTENDS Staking, Sums

Bonds ==
    /\ stake \in [Nodes -> Nat] /\ unbonding \in [Nodes -> Nat]
    /\ voluntary \in [Nodes -> Nat] /\ slashed \in [Nodes -> Nat]
Pending == \A n \in Nodes : voluntary[n] <= unbonding[n]
IInv == Bonds /\ Pending /\ GradualExit

(* What a step leaves alone or changes of node n's bonds. *)
Same == UNCHANGED <<stake, unbonding, voluntary, slashed>>
StakeGrows(n, amt) ==
    /\ stake' = [stake EXCEPT ![n] = @ + amt]
    /\ UNCHANGED <<unbonding, voluntary, slashed>>
Fined(n, amount) ==
    /\ amount \in Nat /\ amount <= stake[n]
    /\ stake' = [stake EXCEPT ![n] = @ - amount]
    /\ slashed' = [slashed EXCEPT ![n] = @ + amount]
    /\ UNCHANGED <<unbonding, voluntary>>

(* What the ceiling depends on is left alone. *)
LEMMA SameKeeps == ASSUME IInv, Same PROVE IInv'
BY DEF IInv, Same, Bonds, Pending, GradualExit

(* More stake only raises what may wait to be claimed. *)
LEMMA StakeKeeps ==
    ASSUME IInv, NEW n \in Nodes, NEW amt \in Nat, StakeGrows(n, amt)
    PROVE  IInv'
BY DEF IInv, StakeGrows, Bonds, Pending, GradualExit

(* A fine comes out of the stake and is accounted in slashed, so the ceiling
   stays where it was. *)
LEMMA FineKeeps ==
    ASSUME IInv, NEW n \in Nodes, NEW amount, Fined(n, amount)
    PROVE  IInv'
BY DEF IInv, Fined, Bonds, Pending, GradualExit

(* The ceiling holds before amt leaves: 4 (pending + amt) <= stake. *)
LEMMA UnstakeKeeps ==
    ASSUME IInv, NEW n \in Nodes, NEW amt \in UnstakeAmounts, Unstake(n, amt)
    PROVE  IInv'
<1>1. amt \in Nat  BY StakingAssumption
<1>2. /\ 4 * (unbonding[n] + amt) <= stake[n] /\ amt <= stake[n]
      /\ stake' = [stake EXCEPT ![n] = @ - amt]
      /\ unbonding' = [unbonding EXCEPT ![n] = @ + amt]
      /\ voluntary' = [voluntary EXCEPT ![n] = @ + amt]
      /\ slashed' = [slashed EXCEPT ![n] = 0]
      BY DEF Unstake, MayUnstake, Moved
<1>3. Bonds'  BY <1>1, <1>2 DEF IInv, Bonds
<1>4. Pending'  BY <1>1, <1>2 DEF IInv, Bonds, Pending
<1>5. GradualExit'  BY <1>1, <1>2 DEF IInv, Bonds, Pending, GradualExit
<1> QED  BY <1>3, <1>4, <1>5 DEF IInv

(* A claim empties what waits and opens a new period. *)
LEMMA ClaimKeeps ==
    ASSUME IInv, NEW n \in Nodes, Claim(n)
    PROVE  IInv'
<1>1. /\ unbonding' = [unbonding EXCEPT ![n] = 0] /\ voluntary' = [voluntary EXCEPT ![n] = 0]
      /\ UNCHANGED <<stake, slashed>>
      BY DEF Claim
<1> QED  BY <1>1 DEF IInv, Bonds, Pending, GradualExit

(* A storage exit is counted as mandatory, not as a voluntary unstake. *)
LEMMA ExitKeeps ==
    ASSUME IInv, NEW n \in Nodes, StorageExit(n)
    PROVE  IInv'
<1>1. /\ stake' = [stake EXCEPT ![n] = @ - stake[n]]
      /\ unbonding' = [unbonding EXCEPT ![n] = @ + stake[n]]
      /\ voluntary' = [voluntary EXCEPT ![n] = 0] /\ slashed' = slashed
      BY DEF StorageExit, Moved
<1> QED  BY <1>1 DEF IInv, Bonds, Pending, GradualExit

(* Consensus penalties are such a fine. *)
LEMMA PenaltyFines ==
    ASSUME IInv, NEW n \in Nodes, NEW pct \in {1, 5}, Penalise(n, pct)
    PROVE  \E amount : Fined(n, amount)
<1> DEFINE amount == Smaller(stake[n], Larger(1, (stake[n] * pct) \div 100))
<1>1. stake[n] \in Nat  BY DEF IInv, Bonds
<1>2. amount \in Nat /\ amount <= stake[n]  BY <1>1 DEF Smaller, Larger
<1>3. /\ stake' = [stake EXCEPT ![n] = @ - amount]
      /\ slashed' = [slashed EXCEPT ![n] = @ + amount]
      /\ UNCHANGED <<unbonding, voluntary>>
      BY DEF Penalise
<1> HIDE DEF amount
<1> QED  BY <1>2, <1>3 DEF Fined

(* So is a slashed storage node. *)
LEMMA SlashFines ==
    ASSUME IInv, NEW n \in Nodes, StorageSlash(n)
    PROVE  \E amount : Fined(n, amount)
<1> DEFINE amount == stake[n] \div 10
<1>1. stake[n] \in Nat  BY DEF IInv, Bonds
<1>2. amount \in Nat /\ amount <= stake[n]  BY <1>1
<1>3. /\ stake' = [stake EXCEPT ![n] = @ - amount]
      /\ slashed' = [slashed EXCEPT ![n] = @ + amount]
      /\ UNCHANGED <<unbonding, voluntary>>
      BY DEF StorageSlash
<1> HIDE DEF amount
<1> QED  BY <1>2, <1>3 DEF Fined

(* Nobody has unstaked anything at the start. *)
LEMMA Initially == Init => IInv
BY StakingAssumption DEF Init, IInv, Bonds, Pending, GradualExit

(* IInv is inductive: one step per action of the module. *)
LEMMA Inductive == IInv /\ [Next]_vars => IInv'
<1> SUFFICES ASSUME IInv, [Next]_vars PROVE IInv'  OBVIOUS
<1>1. CASE NodeStep
      <2>1. PICK n \in Nodes :
                \/ \E amt \in StakeAmounts : Stake(n, amt)
                \/ \E amt \in UnstakeAmounts : Unstake(n, amt)
                \/ Claim(n)
                \/ \E m \in Nodes, amt \in TransferAmounts : Transfer(n, m, amt)
            BY <1>1 DEF NodeStep
      <2>2. ASSUME NEW amt \in StakeAmounts, Stake(n, amt) PROVE IInv'
            <3>1. amt \in Nat  BY StakingAssumption
            <3>2. StakeGrows(n, amt)  BY <2>2 DEF Stake, StakeGrows, history, exits
            <3> QED  BY <3>1, <3>2, StakeKeeps
      <2>3. ASSUME NEW m \in Nodes, NEW amt \in TransferAmounts, Transfer(n, m, amt) PROVE IInv'
            <3>1. Same  BY <2>3 DEF Transfer, Same, bonded, exits
            <3> QED  BY <3>1, SameKeeps
      <2> QED  BY <2>1, <2>2, <2>3, UnstakeKeeps, ClaimKeeps
<1>2. CASE OtherStep
      <2>1. PICK n \in Nodes :
                \/ \E pct \in {1, 5} : Penalise(n, pct)
                \/ StorageSlash(n) \/ StorageExit(n)
                \/ \E amt \in UpgradeAmounts : UpgradeQuota(n, amt)
            BY <1>2 DEF OtherStep
      <2>2. ASSUME NEW amt \in UpgradeAmounts, UpgradeQuota(n, amt) PROVE IInv'
            <3>1. amt \in Nat  BY StakingAssumption
            <3>2. StakeGrows(n, amt)  BY <2>2 DEF UpgradeQuota, StakeGrows, exits
            <3> QED  BY <3>1, <3>2, StakeKeeps
      <2> QED  BY <2>1, <2>2, ExitKeeps, PenaltyFines, SlashFines, FineKeeps
<1>3. CASE ReserveStep
      <2>1. Same  BY <1>3 DEF ReserveStep, NodeGuard, PauseEnds, Freeze, Thaw, Same, bonded, history, exits
      <2> QED  BY <2>1, SameKeeps
<1>4. CASE NextDay
      <2>1. Same  BY <1>4 DEF NextDay, Same, history, exits
      <2> QED  BY <2>1, SameKeeps
<1>5. CASE UNCHANGED vars
      <2>1. Same  BY <1>5 DEF vars, Same, bonded, history, exits
      <2> QED  BY <2>1, SameKeeps
<1> QED  BY <1>1, <1>2, <1>3, <1>4, <1>5 DEF Next

\* Whatever stakes, penalties, exits, freezes and pauses there are, and in whatever order,
\* unstaking stays gradual (nova_node.py 157): GradualExit is an invariant of Staking.
THEOREM GradualExitHolds == Spec => []GradualExit
<1>1. IInv => GradualExit  BY DEF IInv
<1> QED  BY Initially, Inductive, <1>1, PTL DEF Spec

-----------------------------------------------------------------------------
(* Types.  A layer list stays a sequence of layers; the shares of a reward *)
(* are natural numbers.                                                    *)
Layers == [amt : Nat, weight : {0, 5, 8, 10}]

(* The layers before the i-th, one layer at a time. *)
LEMMA BeforeStep ==
    ASSUME NEW ls \in Seq(Layers)
    PROVE  /\ Before(ls, 1) = 0
           /\ \A i \in 1 .. Len(ls) : Before(ls, i + 1) = Before(ls, i) + ls[i].amt
           /\ \A i \in 1 .. Len(ls) + 1 : Before(ls, i) \in Nat
<1> DEFINE a == [j \in DOMAIN ls |-> ls[j].amt]
<1>1. \A j \in 1 .. Len(ls) : a[j] \in Nat /\ a[j] = ls[j].amt
      <2>1. DOMAIN ls = 1 .. Len(ls) /\ \A j \in 1 .. Len(ls) : ls[j] \in Layers  OBVIOUS
      <2>2. \A j \in 1 .. Len(ls) : ls[j].amt \in Nat  BY <2>1 DEF Layers
      <2> QED  BY <2>1, <2>2
<1> HIDE DEF a
<1>2. ASSUME NEW i \in 1 .. Len(ls) + 1
      PROVE  IsFiniteSet(1 .. i - 1) /\ \A j \in 1 .. i - 1 : a[j] \in Nat
      <2>1. 1 .. i - 1 \subseteq 1 .. Len(ls) /\ i - 1 \in Int  OBVIOUS
      <2>2. IsFiniteSet(1 .. i - 1)  BY <2>1, FS_Interval
      <2> QED  BY <1>1, <2>1, <2>2
<1>3. Before(ls, 1) = 0
      <2>1. 1 .. 1 - 1 = {}  OBVIOUS
      <2> QED  BY <2>1, SumEmpty DEF Before
<1>4. ASSUME NEW i \in 1 .. Len(ls)
      PROVE  Before(ls, i + 1) = Before(ls, i) + ls[i].amt
      <2>1. (i + 1) - 1 = i /\ (1 .. i) \ {i} = 1 .. i - 1 /\ i \in 1 .. i  OBVIOUS
      <2>2. a[i] = ls[i].amt  BY <1>1
      <2>3. IsFiniteSet(1 .. i) /\ \A j \in 1 .. i : a[j] \in Int
            <3>1. 1 .. i \subseteq 1 .. Len(ls)  OBVIOUS
            <3>2. IsFiniteSet(1 .. i)  BY FS_Interval
            <3> QED  BY <1>1, <3>1, <3>2
      <2>4. SumFunctionOnSet(a, 1 .. i) = a[i] + SumFunctionOnSet(a, 1 .. i - 1)
            BY <2>1, <2>3, SumRemove
      <2>5. SumFunctionOnSet(a, 1 .. i - 1) \in Nat  BY <1>2, SumIsNat
      <2>6. a[i] \in Nat  BY <1>1
      <2> QED  BY <2>1, <2>2, <2>4, <2>5, <2>6 DEF Before, a
<1>5. ASSUME NEW i \in 1 .. Len(ls) + 1 PROVE Before(ls, i) \in Nat
      <2>1. SumFunctionOnSet(a, 1 .. i - 1) \in Nat  BY <1>2, SumIsNat
      <2> QED  BY <2>1 DEF Before, a
<1> QED  BY <1>3, <1>4, <1>5

(* Some number of layers is just covered: the first that is not is the     *)
(* smallest counterexample, and if there is none then all are.             *)
LEMMA CoveredLayers ==
    ASSUME NEW ls \in Seq(Layers), NEW amt \in Nat
    PROVE  LET k == Covered(ls, amt)
           IN  /\ k \in 0 .. Len(ls) /\ Before(ls, k + 1) <= amt
               /\ k < Len(ls) => amt < Before(ls, k + 2)
<1> DEFINE P(k) == Before(ls, k + 1) <= amt /\ (k < Len(ls) => amt < Before(ls, k + 2))
           C == {k \in 0 .. Len(ls) : amt < Before(ls, k + 1)}
<1>1. \A k \in 0 .. Len(ls) : Before(ls, k + 1) \in Nat  BY BeforeStep
<1>2. \E k \in 0 .. Len(ls) : P(k)
      <2>1. CASE C = {}
            <3>1. Len(ls) \in 0 .. Len(ls)  OBVIOUS
            <3>2. Before(ls, Len(ls) + 1) <= amt  BY <1>1, <2>1
            <3> QED  BY <3>1, <3>2
      <2>2. CASE C # {}
            <3>1. PICK k \in C : \A j \in C : k <= j
                  <4>1. C \subseteq Nat  OBVIOUS
                  <4> HIDE DEF C
                  <4> QED  BY <2>2, <4>1, SmallestNat
            <3>2. k # 0  BY BeforeStep
            <3>3. k - 1 \in 0 .. Len(ls) /\ k - 1 \notin C  BY SMTT(30), <3>1, <3>2
            <3>4. Before(ls, (k - 1) + 1) <= amt
                  <4>1. Before(ls, (k - 1) + 1) \in Nat  BY <3>3, <1>1
                  <4>2. ~ (amt < Before(ls, (k - 1) + 1))  BY <3>3
                  <4> QED  BY <4>1, <4>2
            <3>5. amt < Before(ls, (k - 1) + 2)
                  <4>1. (k - 1) + 2 = k + 1  OBVIOUS
                  <4> QED  BY <4>1
            <3>6. P(k - 1)  BY <3>4, <3>5
            <3> QED  BY <3>3, <3>6
      <2> QED  BY <2>1, <2>2
<1>3. Covered(ls, amt) = CHOOSE k \in 0 .. Len(ls) : P(k)  BY DEF Covered
<1> HIDE DEF P
<1>4. Covered(ls, amt) \in 0 .. Len(ls) /\ P(Covered(ls, amt))  BY <1>2, <1>3
<1> QED  BY <1>4 DEF P

(* What _apply_stake_op leaves of the layers of a stake is again a list of
   layers. *)
LEMMA ReducedType ==
    ASSUME NEW ls \in Seq(Layers), NEW amt \in Nat
    PROVE  Reduced(ls, amt) \in Seq(Layers)
<1> DEFINE k == Covered(ls, amt)
           d == Before(ls, k + 2) - amt
<1>1. /\ k \in 0 .. Len(ls)
      /\ k < Len(ls) => amt < Before(ls, k + 2)
      BY CoveredLayers
<1>2. k < Len(ls) => d \in Nat
      <2>1. k < Len(ls) => k + 2 \in 1 .. Len(ls) + 1  BY <1>1
      <2>2. k < Len(ls) => Before(ls, k + 2) \in Nat  BY <2>1, BeforeStep
      <2> QED  BY <1>1, <2>2
<1>3. ASSUME NEW i \in 1 .. Len(ls) - k
      PROVE  [ls[k + i] EXCEPT !.amt = IF i = 1 THEN d ELSE @] \in Layers
      <2>1. k + i \in 1 .. Len(ls)  BY <1>1
      <2>2. ls[k + i] \in Layers  BY <2>1
      <2>3. d \in Nat  BY <1>1, <1>2
      <2> HIDE DEF d, k
      <2> QED  BY <2>2, <2>3 DEF Layers
<1>4. Len(ls) - k \in Nat  BY <1>1
<1>5. Reduced(ls, amt) = [i \in 1 .. Len(ls) - k |-> [ls[k + i] EXCEPT !.amt = IF i = 1 THEN d ELSE @]]
      BY DEF Reduced
<1> HIDE DEF d, k
<1>6. Reduced(ls, amt) \in [1 .. Len(ls) - k -> Layers]  BY <1>3, <1>5
<1> QED  BY <1>4, <1>6

(* An effective stake is a natural number. *)
LEMMA EffectiveIsNat ==
    ASSUME TypeOK, NEW n \in Nodes
    PROVE  Effective(n) \in Nat
<1>1. Smaller(stake[n], MaxStake) \in Nat  BY StakingAssumption DEF TypeOK, Smaller
<1>2. Layered(layers[n]) \in Nat
      <2> DEFINE ls == layers[n]
                 v == [i \in DOMAIN ls |-> ls[i].amt * ls[i].weight]
      <2>1. ls \in Seq(Layers)  BY DEF TypeOK, Layers
      <2>2. IsFiniteSet(1 .. Len(ls))  BY <2>1, FS_Interval
      <2>3. v \in [1 .. Len(ls) -> Nat]
            <3>1. \A i \in 1 .. Len(ls) : ls[i].amt \in Nat /\ ls[i].weight \in Nat
                  <4>1. \A i \in 1 .. Len(ls) : ls[i] \in Layers  BY <2>1
                  <4> HIDE DEF ls
                  <4> QED  BY <4>1 DEF Layers
            <3>2. \A x, y \in Nat : x * y \in Nat  OBVIOUS
            <3>3. \A i \in 1 .. Len(ls) : ls[i].amt * ls[i].weight \in Nat  BY <3>1, <3>2
            <3>4. DOMAIN ls = 1 .. Len(ls)  BY <2>1
            <3> HIDE DEF ls
            <3> QED  BY <3>3, <3>4
      <2> HIDE DEF v
      <2>4. SumFunction(v) \in Nat  BY <2>2, <2>3, TotalInt
      <2> QED  BY <2>4 DEF Layered, v
<1> QED  BY <1>1, <1>2 DEF Effective, Smaller

(* So is everybody's share of a reward. *)
LEMMA SharesType ==
    ASSUME TypeOK, NEW reward \in Nat
    PROVE  Shares(reward) \in [Nodes -> Nat] /\ TotalEffective \in Nat
<1> DEFINE e == [n \in Nodes |-> Effective(n)]
<1>1. e \in [Nodes -> Nat]  BY EffectiveIsNat
<1>2. TotalEffective \in Nat
      <2> HIDE DEF e
      <2>1. SumFunction(e) \in Nat  BY <1>1, TotalInt, StakingAssumption
      <2> QED  BY <2>1 DEF TotalEffective, e
<1>3. ASSUME NEW n \in Nodes, TotalEffective # 0 PROVE Share(n, reward) \in Nat
      <2>1. Effective(n) \in Nat  BY EffectiveIsNat
      <2>2. reward * Effective(n) \in Nat  BY <2>1
      <2> QED  BY <1>2, <1>3, <2>2 DEF Share
<1> QED  BY <1>2, <1>3 DEF Shares

(* The shares are the reward but for less than one unit a node. *)
LEMMA SharesSum ==
    ASSUME TypeOK, NEW reward \in Nat
    PROVE  LET all == SumFunction(Shares(reward))
           IN  /\ all \in Nat /\ all <= reward
               /\ TotalEffective > 0 => reward < all + Cardinality(Nodes)
<1> DEFINE e == [n \in Nodes |-> Effective(n)]
           s == Shares(reward)
           T == TotalEffective
           N == Cardinality(Nodes)
           re == [n \in Nodes |-> reward * e[n]]
           ts == [n \in Nodes |-> T * s[n]]
           t1 == [n \in Nodes |-> T * s[n] + T]
           re1 == [n \in Nodes |-> reward * e[n] + 1]
           one == [n \in Nodes |-> 1]
           tt == [n \in Nodes |-> T]
<1>1. /\ s \in [Nodes -> Nat] /\ T \in Nat /\ SumFunction(s) \in Nat
      /\ e \in [Nodes -> Nat] /\ T = SumFunction(e) /\ N \in Nat
      <2>1. e \in [Nodes -> Nat]  BY EffectiveIsNat
      <2>2. s \in [Nodes -> Nat] /\ T \in Nat  BY SharesType
      <2> HIDE DEF s
      <2> QED  BY <2>1, <2>2, TotalInt, FS_CardinalityType, StakingAssumption DEF TotalEffective
<1>2. CASE T = 0
      <2>1. s = [n \in Nodes |-> 0]  BY <1>2 DEF Shares
      <2> HIDE DEF s
      <2>2. SumFunction(s) = 0  BY <2>1, TotalZero, StakingAssumption
      <2> QED  BY <1>2, <2>2 DEF s
<1>3. CASE T > 0
      <2>1. ASSUME NEW n \in Nodes
            PROVE  /\ re[n] \in Nat /\ ts[n] \in Nat /\ t1[n] \in Nat /\ re1[n] \in Nat
                   /\ ts[n] <= re[n] /\ re1[n] <= t1[n]
            <3> DEFINE x == reward * e[n]
            <3>1. s[n] = x \div T  BY <1>3 DEF Shares, Share
            <3>2. x \in Nat  BY <1>1
            <3>3. \A i \in Nat : \A d \in Nat \ {0} :
                     /\ d * (i \div d) <= i /\ i < d * (i \div d) + d
                  OBVIOUS
            <3> HIDE DEF s, e, T, x
            <3>4. T * s[n] <= x /\ x < T * s[n] + T
                  <4>1. T \in Nat \ {0}  BY <1>1, <1>3
                  <4>2. T * (x \div T) <= x /\ x < T * (x \div T) + T  BY <3>2, <3>3, <4>1
                  <4> QED  BY <3>1, <4>2
            <3>5. T * s[n] \in Nat /\ T \in Nat  BY <1>1
            <3> QED  BY <3>2, <3>4, <3>5 DEF x
      <2> HIDE DEF s, e, T
      <2>2. /\ re \in [Nodes -> Int] /\ ts \in [Nodes -> Int] /\ t1 \in [Nodes -> Int]
            /\ re1 \in [Nodes -> Int] /\ one \in [Nodes -> Int] /\ tt \in [Nodes -> Int]
            BY <1>1, <2>1
      <2>3. /\ \A n \in Nodes : re1[n] = re[n] + one[n] /\ t1[n] = ts[n] + tt[n]
            /\ \A n \in Nodes : re[n] = reward * e[n] /\ ts[n] = T * s[n] /\ one[n] = 1 /\ tt[n] = T
            OBVIOUS
      <2> HIDE DEF re, ts, t1, re1, one, tt
      <2>4. IsFiniteSet(Nodes)  BY StakingAssumption
      <2>5. SumFunction(re) = reward * SumFunction(e)  BY <1>1, <2>2, <2>3, <2>4, SumTimes, TotalIs
      <2>6. SumFunction(ts) = T * SumFunction(s)  BY <1>1, <2>2, <2>3, <2>4, SumTimes, TotalIs
      <2>7. SumFunction(one) = N /\ SumFunction(tt) = T * N
            <3>1. SumFunction(one) = 1 * N  BY <2>2, <2>3, <2>4, SumConstant, TotalIs
            <3>2. SumFunction(tt) = T * N  BY <1>1, <2>2, <2>3, <2>4, SumConstant, TotalIs
            <3> QED  BY <1>1, <3>1, <3>2
      <2>8. SumFunction(ts) <= SumFunction(re)  BY <2>1, <2>2, <2>4, SumGrows, TotalIs
      <2>9. SumFunction(re1) <= SumFunction(t1)  BY <2>1, <2>2, <2>4, SumGrows, TotalIs
      <2>10. /\ SumFunction(re1) = SumFunction(re) + SumFunction(one)
             /\ SumFunction(t1) = SumFunction(ts) + SumFunction(tt)
             BY <2>2, <2>3, <2>4, TotalPlus
      <2>11. SumFunction(s) <= reward
             <3>1. T * SumFunction(s) <= reward * T  BY <1>1, <2>5, <2>6, <2>8
             <3>2. \A x, y \in Nat : \A d \in Nat \ {0} : d * x <= y * d => x <= y  OBVIOUS
             <3> QED  BY <1>1, <1>3, <3>1, <3>2
      <2>12. reward < SumFunction(s) + N
             <3>1. reward * T + N <= T * SumFunction(s) + T * N
                   BY <1>1, <2>5, <2>6, <2>7, <2>9, <2>10
             <3>2. N > 0
                   <4>1. CASE Nodes = {}
                         <5>1. SumFunction(e) = 0  BY <1>1, <4>1, SumEmpty, TotalIs
                         <5> QED  BY <1>1, <1>3, <5>1
                   <4>2. CASE Nodes # {}  BY <1>1, <2>4, <4>2, FS_EmptySet
                   <4> QED  BY <4>1, <4>2
             <3>3. \A x, y, z \in Nat : \A d \in Nat \ {0} :
                       z > 0 /\ x * d + z <= d * y + d * z => x < y + z
                   OBVIOUS
             <3> QED  BY <1>1, <1>3, <3>1, <3>2, <3>3
      <2> QED  BY <1>1, <2>11, <2>12 DEF s, T
<1> QED  BY <1>1, <1>2, <1>3

(* Every action keeps the types and the sum of the money.  A payment moves *)
(* one account; TotalPut says what that does to the sum.                   *)
Books == TypeOK /\ NovaAddsUp

(* Every account of the ledger holds an amount, and so does every sum of
   them. *)
LEMMA Accounts ==
    ASSUME TypeOK
    PROVE  /\ IsFiniteSet(Nodes) /\ balance \in [Nodes -> Int]
           /\ stake \in [Nodes -> Int] /\ unbonding \in [Nodes -> Int]
           /\ SumFunction(balance) \in Int /\ SumFunction(stake) \in Int
           /\ SumFunction(unbonding) \in Int
           /\ pool \in Int /\ fund \in Int /\ burned \in Int /\ doubled \in Int
           /\ SumFunction(Wealth) \in Int /\ PoolGenesis \in Int /\ FundGenesis \in Int
<1>1. /\ balance \in [Nodes -> Int] /\ stake \in [Nodes -> Int] /\ unbonding \in [Nodes -> Int]
      /\ pool \in Int /\ fund \in Int /\ burned \in Int /\ doubled \in Int
      BY DEF TypeOK
<1>2. /\ IsFiniteSet(Nodes) /\ Wealth \in [Nodes -> Int]
      /\ PoolGenesis \in Int /\ FundGenesis \in Int
      BY StakingAssumption
<1> QED  BY <1>1, <1>2, TotalInt

(* Changing one account changes the total by the difference. *)
LEMMA AccountPut ==
    ASSUME TypeOK, NEW n \in Nodes, NEW v \in Int
    PROVE  /\ SumFunction([balance EXCEPT ![n] = v]) = SumFunction(balance) - balance[n] + v
           /\ SumFunction([stake EXCEPT ![n] = v]) = SumFunction(stake) - stake[n] + v
           /\ SumFunction([unbonding EXCEPT ![n] = v]) = SumFunction(unbonding) - unbonding[n] + v
<1>1. /\ IsFiniteSet(Nodes) /\ balance \in [Nodes -> Int]
      /\ stake \in [Nodes -> Int] /\ unbonding \in [Nodes -> Int]
      BY Accounts
<1>2. SumFunction([balance EXCEPT ![n] = v]) = SumFunction(balance) - balance[n] + v  BY <1>1, TotalPut
<1>3. SumFunction([stake EXCEPT ![n] = v]) = SumFunction(stake) - stake[n] + v  BY <1>1, TotalPut
<1>4. SumFunction([unbonding EXCEPT ![n] = v]) = SumFunction(unbonding) - unbonding[n] + v  BY <1>1, TotalPut
<1> QED  BY <1>2, <1>3, <1>4

(* A stake moves NOVA from the balance to the stake. *)
LEMMA StakeBooks ==
    ASSUME Books, NEW n \in Nodes, NEW amt \in StakeAmounts, Stake(n, amt)
    PROVE  Books'
<1>1. amt \in Nat /\ balance[n] - amt \in Nat  BY SMTT(30), StakingAssumption DEF Stake, WithinLimits, Books, TypeOK
<1>2. /\ balance' = [balance EXCEPT ![n] = balance[n] - amt]
      /\ stake' = [stake EXCEPT ![n] = stake[n] + amt]
      /\ UNCHANGED <<rewards, unbonding, wait, pause, frozen, history, transfers, incidents>>
      /\ stakings' = stakings + 1
      /\ layers' = [layers EXCEPT ![n] = Append(@, [amt |-> amt, weight |-> TierWeight(TotalStake + amt)])]
      BY DEF Stake
<1>3. TypeOK'
      <2>1. [amt |-> amt, weight |-> TierWeight(TotalStake + amt)] \in Layers
            BY <1>1 DEF Layers, TierWeight
      <2>2. layers' \in [Nodes -> Seq(Layers)]
            <3>1. layers \in [Nodes -> Seq(Layers)]  BY DEF Books, TypeOK, Layers
            <3> HIDE DEF Layers
            <3>2. Append(layers[n], [amt |-> amt, weight |-> TierWeight(TotalStake + amt)]) \in Seq(Layers)
                  BY <2>1, <3>1
            <3> QED  BY <1>2, <3>1, <3>2
      <2> QED  BY SMTT(30), <1>1, <1>2, <2>2 DEF Books, TypeOK, Layers, rewards, history, exits
<1>4. /\ SumFunction(balance') = SumFunction(balance) - balance[n] + (balance[n] - amt)
      /\ SumFunction(stake') = SumFunction(stake) - stake[n] + (stake[n] + amt)
      <2>1. balance[n] - amt \in Int /\ stake[n] + amt \in Int  BY <1>1 DEF Books, TypeOK
      <2> QED  BY <1>2, <2>1, Accounts, AccountPut DEF Books
<1>5. NovaAddsUp'
      <2>1. stake[n] \in Int /\ balance[n] \in Int  BY Accounts DEF Books
      <2>2. UNCHANGED <<pool, fund, unbonding, burned, doubled>>  BY <1>2 DEF rewards, history
      <2> QED  BY <1>1, <1>4, <2>1, <2>2, Accounts DEF Books, NovaAddsUp, TotalStake
<1> QED  BY <1>3, <1>5 DEF Books

(* An unstake moves it from the stake to what waits. *)
LEMMA UnstakeBooks ==
    ASSUME Books, NEW n \in Nodes, NEW amt \in UnstakeAmounts, Unstake(n, amt)
    PROVE  Books'
<1>1. amt \in Nat /\ stake[n] - amt \in Nat
      BY SMTT(30), StakingAssumption DEF Unstake, MayUnstake, Books, TypeOK
<1>2. /\ stake' = [stake EXCEPT ![n] = stake[n] - amt]
      /\ unbonding' = [unbonding EXCEPT ![n] = unbonding[n] + amt]
      /\ layers' = [layers EXCEPT ![n] = Reduced(layers[n], amt)]
      /\ wait' = [wait EXCEPT ![n] = Unbond]
      /\ voluntary' = [voluntary EXCEPT ![n] = voluntary[n] + amt] /\ slashed' = [slashed EXCEPT ![n] = 0]
      /\ UNCHANGED <<balance, rewards, pause, frozen, upgraded, burned, doubled, bounds>>
      BY DEF Unstake, Moved
<1>3. TypeOK'
      <2>1. layers' \in [Nodes -> Seq(Layers)]
            <3>1. layers \in [Nodes -> Seq(Layers)]  BY DEF Books, TypeOK, Layers
            <3> HIDE DEF Layers
            <3>2. Reduced(layers[n], amt) \in Seq(Layers)  BY <1>1, <3>1, ReducedType
            <3> QED  BY <1>2, <3>1, <3>2
      <2>2. stake' \in [Nodes -> Nat] /\ unbonding' \in [Nodes -> Nat]
            BY <1>1, <1>2 DEF Books, TypeOK
      <2>3. voluntary' \in [Nodes -> Nat]  BY <1>1, <1>2 DEF Books, TypeOK
      <2>4. slashed' \in [Nodes -> Nat]  BY <1>2 DEF Books, TypeOK
      <2>5. wait' \in [Nodes -> Nat]  BY <1>2, StakingAssumption DEF Books, TypeOK
      <2> QED  BY <1>2, <2>1, <2>2, <2>3, <2>4, <2>5 DEF Books, TypeOK, Layers, rewards, bounds
<1>4. /\ SumFunction(stake') = SumFunction(stake) - stake[n] + (stake[n] - amt)
      /\ SumFunction(unbonding') = SumFunction(unbonding) - unbonding[n] + (unbonding[n] + amt)
      <2>1. stake[n] - amt \in Int /\ unbonding[n] + amt \in Int  BY <1>1 DEF Books, TypeOK
      <2> QED  BY <1>2, <2>1, Accounts, AccountPut DEF Books
<1>5. NovaAddsUp'
      <2>1. stake[n] \in Int /\ unbonding[n] \in Int  BY Accounts DEF Books
      <2>2. UNCHANGED <<pool, fund, balance, burned, doubled>>  BY <1>2 DEF rewards
      <2> QED  BY <1>1, <1>4, <2>1, <2>2, Accounts DEF Books, NovaAddsUp, TotalStake
<1> QED  BY <1>3, <1>5 DEF Books

(* A claim moves what waits to the balance. *)
LEMMA ClaimBooks ==
    ASSUME Books, NEW n \in Nodes, Claim(n)
    PROVE  Books'
<1>1. /\ balance' = [balance EXCEPT ![n] = balance[n] + unbonding[n]]
      /\ unbonding' = [unbonding EXCEPT ![n] = 0] /\ voluntary' = [voluntary EXCEPT ![n] = 0]
      /\ UNCHANGED <<rewards, stake, layers, wait, pause, frozen, slashed, upgraded, burned, doubled, bounds>>
      BY DEF Claim
<1>2. TypeOK'  BY <1>1 DEF Books, TypeOK, rewards, bounds
<1>3. /\ SumFunction(balance') = SumFunction(balance) - balance[n] + (balance[n] + unbonding[n])
      /\ SumFunction(unbonding') = SumFunction(unbonding) - unbonding[n] + 0
      <2>1. balance[n] + unbonding[n] \in Int /\ 0 \in Int  BY Accounts DEF Books
      <2> QED  BY <1>1, <2>1, Accounts, AccountPut DEF Books
<1>4. NovaAddsUp'
      <2>1. balance[n] \in Int /\ unbonding[n] \in Int  BY Accounts DEF Books
      <2>2. UNCHANGED <<pool, fund, stake, burned, doubled>>  BY <1>1 DEF rewards
      <2> QED  BY <1>3, <2>1, <2>2, Accounts DEF Books, NovaAddsUp, TotalStake
<1> QED  BY <1>2, <1>4 DEF Books

(* A transfer to another account moves amt, one to oneself creates it. *)
LEMMA PaidSum ==
    ASSUME TypeOK, NEW n \in Nodes, NEW m \in Nodes, NEW amt \in Nat, amt <= balance[n]
    PROVE  /\ Paid(n, m, amt) \in [Nodes -> Nat]
           /\ SumFunction(Paid(n, m, amt))
                = SumFunction(balance) + (IF n = m THEN amt ELSE 0)
<1> DEFINE b == [balance EXCEPT ![n] = balance[n] - amt]
           c == [b EXCEPT ![m] = balance[m] + amt]
<1>1. /\ balance[n] \in Nat /\ balance[m] \in Nat /\ balance[n] - amt \in Nat
      /\ balance[m] + amt \in Nat /\ b[m] = IF n = m THEN balance[n] - amt ELSE balance[m]
      BY SMTT(30) DEF TypeOK
<1>2. b \in [Nodes -> Nat] /\ c \in [Nodes -> Nat]  BY <1>1 DEF TypeOK
<1>3. Paid(n, m, amt) = c  BY DEF Paid
<1>4. b \in [Nodes -> Int] /\ balance[n] - amt \in Int /\ balance[m] + amt \in Int
      BY <1>1, <1>2
<1>5. b = [balance EXCEPT ![n] = balance[n] - amt] /\ c = [b EXCEPT ![m] = balance[m] + amt]
      OBVIOUS
<1> HIDE DEF b, c
<1>6. SumFunction(b) = SumFunction(balance) - balance[n] + (balance[n] - amt)
      <2> DEFINE v == balance[n] - amt
      <2>1. v \in Int /\ b = [balance EXCEPT ![n] = v]  BY <1>4, <1>5
      <2> HIDE DEF v
      <2>2. SumFunction(b) = SumFunction(balance) - balance[n] + v  BY <2>1, AccountPut
      <2> QED  BY <2>2 DEF v
<1>7. SumFunction(c) = SumFunction(b) - b[m] + (balance[m] + amt)
      BY <1>4, <1>5, StakingAssumption, TotalPut
<1>8. SumFunction(balance) \in Int  BY Accounts
<1> QED  BY <1>1, <1>2, <1>3, <1>6, <1>7, <1>8

(* A block never draws more from the pool than it holds. *)
LEMMA DrawnFits ==
    ASSUME TypeOK, NEW asked \in Nat
    PROVE  Drawn(asked) \in Nat /\ pool - Drawn(asked) \in Nat
BY DEF Drawn, Smaller, TypeOK

(* What a transfer does to the balances and to the pool.                    *)
LEMMA TransferPays ==
    ASSUME TypeOK, NEW n \in Nodes, NEW m \in Nodes, NEW amt \in TransferAmounts, Transfer(n, m, amt)
    PROVE  \E reward, all, extra \in Nat :
               /\ pool - reward \in Nat /\ pool' = pool - reward
               /\ all <= reward
               /\ TotalEffective > 0 => reward < all + Cardinality(Nodes)
               /\ balance' \in [Nodes -> Nat]
               /\ SumFunction(balance') = SumFunction(balance) + extra + all
               /\ doubled' = doubled + extra /\ burned' = burned + reward - all
<1> DEFINE asked == IF Recruiting THEN 2 * Reward ELSE Reward
           reward == Drawn(asked)
           shares == Shares(reward)
           paid == Paid(n, m, amt)
           all == SumFunction(shares)
           extra == IF n = m THEN amt ELSE 0
<1>1. /\ pool' = pool - reward
      /\ balance' = [k \in Nodes |-> paid[k] + shares[k]]
      /\ doubled' = IF n = m THEN doubled + amt ELSE doubled
      /\ burned' = burned + reward - all
      /\ balance[n] >= amt
      BY DEF Transfer
<1>2. amt \in Nat /\ balance[n] \in Nat /\ asked \in Nat  BY StakingAssumption DEF TypeOK
<1>3. extra \in Nat /\ doubled' = doubled + extra  BY <1>1, <1>2 DEF TypeOK
<1> HIDE DEF asked
<1>4. reward \in Nat /\ pool - reward \in Nat  BY <1>2, DrawnFits
<1> HIDE DEF reward
<1>5. /\ shares \in [Nodes -> Nat] /\ all \in Nat /\ all <= reward
      /\ TotalEffective > 0 => reward < all + Cardinality(Nodes)
      BY <1>4, SharesType, SharesSum
<1>6. /\ paid \in [Nodes -> Nat]
      /\ SumFunction(paid) = SumFunction(balance) + extra
      BY <1>1, <1>2, PaidSum
<1> HIDE DEF shares, paid, extra
<1>7. balance' \in [Nodes -> Nat]  BY <1>1, <1>5, <1>6
<1>8. SumFunction(balance') = SumFunction(paid) + all
      <2>1. shares \in [Nodes -> Int] /\ paid \in [Nodes -> Int]  BY <1>5, <1>6
      <2>2. balance' \in [Nodes -> Int] /\ \A k \in Nodes : balance'[k] = paid[k] + shares[k]
            BY <1>1, <2>1
      <2> QED  BY <2>1, <2>2, TotalPlus, StakingAssumption
<1> HIDE DEF all
<1>9. SumFunction(balance') = SumFunction(balance) + extra + all  BY <1>6, <1>8
<1> QED  BY <1>1, <1>3, <1>4, <1>5, <1>7, <1>9

(* A transfer moves it between two balances, or doubles it when it goes to
   its sender; what its block draws from the pool is shared out, and the part
   lost to rounding is counted as burned. *)
LEMMA TransferBooks ==
    ASSUME Books, NEW n \in Nodes, NEW m \in Nodes, NEW amt \in TransferAmounts, Transfer(n, m, amt)
    PROVE  Books'
<1>1. PICK reward, all, extra \in Nat :
          /\ pool - reward \in Nat /\ pool' = pool - reward /\ all <= reward
          /\ balance' \in [Nodes -> Nat]
          /\ SumFunction(balance') = SumFunction(balance) + extra + all
          /\ doubled' = doubled + extra /\ burned' = burned + reward - all
      BY TransferPays DEF Books
<1>2. /\ UNCHANGED <<fund, bonded, pause, frozen, exits, upgraded, stakings, incidents>>
      /\ transfers' = transfers + 1
      BY DEF Transfer
<1>3. TypeOK'
      <2>1. pool' \in Nat /\ doubled' \in Nat /\ burned' \in Nat /\ transfers' \in Nat
            BY <1>1, <1>2 DEF Books, TypeOK
      <2> QED  BY <1>1, <1>2, <2>1 DEF Books, TypeOK, bonded, exits
<1>4. NovaAddsUp'
      <2>1. UNCHANGED <<fund, stake, unbonding>>  BY <1>2 DEF bonded
      <2>2. /\ SumFunction(balance) + pool + fund + SumFunction(stake) + SumFunction(unbonding) + burned
                  = SumFunction(Wealth) + PoolGenesis + FundGenesis + doubled
            /\ SumFunction(balance') = SumFunction(balance) + extra + all
            /\ pool' = pool - reward /\ burned' = burned + reward - all /\ doubled' = doubled + extra
            BY <1>1 DEF Books, NovaAddsUp, TotalStake
      <2>3. SumFunction(balance') + pool' + fund + SumFunction(stake) + SumFunction(unbonding) + burned'
              = SumFunction(Wealth) + PoolGenesis + FundGenesis + doubled'
            BY <2>2, Accounts DEF Books
      <2> QED  BY <2>1, <2>3 DEF NovaAddsUp, TotalStake
<1> QED  BY <1>3, <1>4 DEF Books

(* A part of the stake is destroyed or goes to the fund. *)
LEMMA StakeFined ==
    ASSUME TypeOK, NEW n \in Nodes, NEW amount \in Nat, amount <= stake[n],
           stake' = [stake EXCEPT ![n] = stake[n] - amount],
           slashed' = [slashed EXCEPT ![n] = slashed[n] + amount]
    PROVE  /\ stake' \in [Nodes -> Nat] /\ slashed' \in [Nodes -> Nat]
           /\ SumFunction(stake') = SumFunction(stake) - amount
<1>1. stake' \in [Nodes -> Nat] /\ slashed' \in [Nodes -> Nat]  BY DEF TypeOK
<1>2. stake[n] \in Int /\ stake[n] - amount \in Int  BY DEF TypeOK
<1>3. SumFunction(stake') = SumFunction(stake) - stake[n] + (stake[n] - amount)
      BY ZenonT(30), <1>2, Accounts, TotalPut
<1> QED  BY <1>1, <1>2, <1>3, Accounts

(* A consensus penalty burns what it takes from the stake. *)
LEMMA PenaliseBooks ==
    ASSUME Books, NEW n \in Nodes, NEW pct \in {1, 5}, Penalise(n, pct)
    PROVE  Books'
<1> DEFINE amount == Smaller(stake[n], Larger(1, (stake[n] * pct) \div 100))
<1>1. stake[n] \in Nat  BY DEF Books, TypeOK
<1>2. amount \in Nat /\ amount <= stake[n]  BY <1>1 DEF Smaller, Larger
<1>3. /\ stake' = [stake EXCEPT ![n] = stake[n] - amount]
      /\ slashed' = [slashed EXCEPT ![n] = slashed[n] + amount]
      /\ burned' = burned + amount /\ incidents' = incidents + 1
      /\ UNCHANGED <<balance, rewards, layers, unbonding, wait, pause, frozen,
                     voluntary, upgraded, doubled, transfers, stakings>>
      BY DEF Penalise, Incident
<1> HIDE DEF amount
<1>4. /\ stake' \in [Nodes -> Nat] /\ slashed' \in [Nodes -> Nat]
      /\ SumFunction(stake') = SumFunction(stake) - amount
      BY <1>2, <1>3, StakeFined DEF Books
<1>5. TypeOK'  BY SMTT(30), <1>2, <1>3, <1>4 DEF Books, TypeOK, rewards
<1>6. NovaAddsUp'
      <2>1. UNCHANGED <<balance, pool, fund, unbonding, doubled>>  BY <1>3 DEF rewards
      <2> QED  BY <1>2, <1>3, <1>4, <2>1, Accounts DEF Books, NovaAddsUp, TotalStake
<1> QED  BY <1>5, <1>6 DEF Books

(* A storage slash pays it to the fund. *)
LEMMA StorageSlashBooks ==
    ASSUME Books, NEW n \in Nodes, StorageSlash(n)
    PROVE  Books'
<1> DEFINE amount == stake[n] \div 10
<1>1. stake[n] \in Nat  BY DEF Books, TypeOK
<1>2. amount \in Nat /\ amount <= stake[n]  BY <1>1
<1>3. /\ stake' = [stake EXCEPT ![n] = stake[n] - amount]
      /\ slashed' = [slashed EXCEPT ![n] = slashed[n] + amount]
      /\ fund' = fund + amount /\ incidents' = incidents + 1
      /\ UNCHANGED <<balance, pool, layers, unbonding, wait, pause,
                     frozen, voluntary, upgraded, burned, doubled, transfers, stakings>>
      BY DEF StorageSlash, Incident
<1> HIDE DEF amount
<1>4. /\ stake' \in [Nodes -> Nat] /\ slashed' \in [Nodes -> Nat]
      /\ SumFunction(stake') = SumFunction(stake) - amount
      BY <1>2, <1>3, StakeFined DEF Books
<1>5. TypeOK'  BY SMTT(30), <1>2, <1>3, <1>4 DEF Books, TypeOK
<1>6. NovaAddsUp'
      BY <1>2, <1>3, <1>4, Accounts DEF Books, NovaAddsUp, TotalStake
<1> QED  BY <1>5, <1>6 DEF Books

(* A quota upgrade moves it from the balance to the stake, outside the
   layers. *)
LEMMA UpgradeBooks ==
    ASSUME Books, NEW n \in Nodes, NEW amt \in UpgradeAmounts, UpgradeQuota(n, amt)
    PROVE  Books'
<1>1. amt \in Nat /\ balance[n] - amt \in Nat
      BY StakingAssumption DEF UpgradeQuota, WithinLimits, Books, TypeOK
<1>2. /\ balance' = [balance EXCEPT ![n] = balance[n] - amt]
      /\ stake' = [stake EXCEPT ![n] = stake[n] + amt]
      /\ upgraded' = upgraded \cup {n} /\ incidents' = incidents + 1
      /\ UNCHANGED <<rewards, layers, unbonding, wait, pause, frozen, exits, burned,
                     doubled, transfers, stakings>>
      BY DEF UpgradeQuota, Incident
<1>3. TypeOK'  BY SMTT(30), <1>1, <1>2 DEF Books, TypeOK, rewards, exits
<1>4. /\ SumFunction(balance') = SumFunction(balance) - balance[n] + (balance[n] - amt)
      /\ SumFunction(stake') = SumFunction(stake) - stake[n] + (stake[n] + amt)
      <2>1. balance[n] - amt \in Int /\ stake[n] + amt \in Int  BY <1>1 DEF Books, TypeOK
      <2> QED  BY <1>2, <2>1, Accounts, AccountPut DEF Books
<1>5. NovaAddsUp'
      <2>1. stake[n] \in Int /\ balance[n] \in Int  BY Accounts DEF Books
      <2>2. UNCHANGED <<pool, fund, unbonding, burned, doubled>>  BY <1>2 DEF rewards
      <2> QED  BY <1>1, <1>4, <2>1, <2>2, Accounts DEF Books, NovaAddsUp, TotalStake
<1> QED  BY <1>3, <1>5 DEF Books

(* A storage exit moves the stake to what waits. *)
LEMMA ExitBooks ==
    ASSUME Books, NEW n \in Nodes, StorageExit(n)
    PROVE  Books'
<1>1. /\ stake' = [stake EXCEPT ![n] = stake[n] - stake[n]]
      /\ unbonding' = [unbonding EXCEPT ![n] = unbonding[n] + stake[n]]
      /\ voluntary' = [voluntary EXCEPT ![n] = 0] /\ incidents' = incidents + 1
      /\ wait' = [wait EXCEPT ![n] = Unbond]
      /\ UNCHANGED <<balance, rewards, layers, pause, frozen, slashed, upgraded, burned,
                     doubled, transfers, stakings>>
      BY DEF StorageExit, Moved, Incident
<1>2. stake' = [stake EXCEPT ![n] = 0]
      <2>1. stake[n] - stake[n] = 0  BY DEF Books, TypeOK
      <2> QED  BY <1>1, <2>1
<1>3. TypeOK'  BY SMTT(30), <1>1, <1>2, StakingAssumption DEF Books, TypeOK, rewards
<1>4. /\ SumFunction(stake') = SumFunction(stake) - stake[n] + 0
      /\ SumFunction(unbonding') = SumFunction(unbonding) - unbonding[n] + (unbonding[n] + stake[n])
      <2>1. 0 \in Int /\ unbonding[n] + stake[n] \in Int  BY Accounts DEF Books
      <2> QED  BY ZenonT(30), <1>1, <1>2, <2>1, AccountPut DEF Books
<1>5. NovaAddsUp'
      <2>1. stake[n] \in Int /\ unbonding[n] \in Int  BY Accounts DEF Books
      <2>2. UNCHANGED <<pool, fund, balance, burned, doubled>>  BY <1>1 DEF rewards
      <2> QED  BY <1>4, <2>1, <2>2, Accounts DEF Books, NovaAddsUp, TotalStake
<1> QED  BY <1>3, <1>5 DEF Books

(* At genesis the accounts hold what was given out. *)
LEMMA FirstBooks == Init => Books
<1> SUFFICES ASSUME Init PROVE Books  OBVIOUS
<1>1. TypeOK
      <2>1. layers \in [Nodes -> Seq([amt : Nat, weight : {0, 5, 8, 10}])]  BY DEF Init
      <2> QED  BY <2>1, StakingAssumption DEF Init, TypeOK
<1>2. SumFunction(stake) = 0 /\ SumFunction(unbonding) = 0
      <2>1. stake = [n \in Nodes |-> 0] /\ unbonding = [n \in Nodes |-> 0]  BY DEF Init
      <2> QED  BY <2>1, TotalZero, StakingAssumption
<1>3. /\ balance = Wealth /\ pool = PoolGenesis /\ fund = FundGenesis /\ burned = 0 /\ doubled = 0
      BY DEF Init
<1> QED  BY <1>1, <1>2, <1>3, Accounts DEF Books, NovaAddsUp, TotalStake

(* Books is inductive: one lemma per action above. *)
LEMMA BooksInductive == Books /\ [Next]_vars => Books'
<1> SUFFICES ASSUME Books, [Next]_vars PROVE Books'  OBVIOUS
<1>1. CASE NodeStep  BY <1>1, StakeBooks, UnstakeBooks, ClaimBooks, TransferBooks DEF NodeStep
<1>2. CASE OtherStep
      BY <1>2, PenaliseBooks, StorageSlashBooks, UpgradeBooks, ExitBooks DEF OtherStep
<1>3. CASE ReserveStep
      <2>1. UNCHANGED <<balance, rewards, bonded, history, transfers, stakings>>
            BY <1>3 DEF ReserveStep, NodeGuard, PauseEnds, Freeze, Thaw, bounds
      <2>2. pause' \in {"yes", "no"} /\ frozen' \in Nat /\ incidents' \in Nat
            BY <1>3, StakingAssumption
            DEF ReserveStep, NodeGuard, PauseEnds, Freeze, Thaw, Incident, bounds, Books, TypeOK
      <2> QED  BY <2>1, <2>2 DEF Books, TypeOK, NovaAddsUp, TotalStake, rewards, bonded, history, exits
<1>4. CASE NextDay
      <2>1. UNCHANGED <<balance, rewards, stake, layers, unbonding, pause, history, bounds>>
            BY <1>4 DEF NextDay
      <2>2. wait' \in [Nodes -> Nat] /\ frozen' \in Nat
            BY <1>4 DEF NextDay, Larger, Books, TypeOK
      <2> QED  BY <2>1, <2>2 DEF Books, TypeOK, NovaAddsUp, TotalStake, rewards, history, exits, bounds
<1>5. CASE UNCHANGED vars
      BY <1>5 DEF vars, Books, TypeOK, NovaAddsUp, TotalStake, rewards, bonded, history, exits, bounds
<1> QED  BY <1>1, <1>2, <1>3, <1>4, <1>5 DEF Next

\* Whatever is staked, unstaked, claimed, transferred, fined or upgraded, no account, stake or
\* pool is overdrawn, and together with what is waiting to be claimed and what was burned
\* they are what there was, plus what transfers to oneself created: BooksBalance is an
\* invariant of Staking.
THEOREM BooksBalanceHolds == Spec => []BooksBalance
<1>1. Books => BooksBalance  BY DEF Books, BooksBalance
<1> QED  BY FirstBooks, BooksInductive, <1>1, PTL DEF Spec

(* Only a transfer takes from the pool.                                     *)
LEMMA OnlyTransfersDraw ==
    ASSUME TypeOK, [Next]_vars, pool' < pool
    PROVE  \E n, m \in Nodes, amt \in TransferAmounts : Transfer(n, m, amt)
<1>1. pool \in Nat /\ pool' # pool  BY DEF TypeOK
<1>2. ~ UNCHANGED rewards /\ ~ UNCHANGED pool /\ ~ UNCHANGED vars  BY <1>1 DEF rewards, vars
<1>3. ~ OtherStep  BY <1>2 DEF OtherStep, Penalise, StorageSlash, StorageExit, UpgradeQuota
<1>4. ~ ReserveStep  BY <1>2 DEF ReserveStep, NodeGuard, PauseEnds, Freeze, Thaw
<1>5. ~ NextDay  BY <1>2 DEF NextDay
<1>6. NodeStep  BY <1>2, <1>3, <1>4, <1>5 DEF Next
<1> QED  BY <1>2, <1>6 DEF NodeStep, Stake, Unstake, Claim

(* Rounding loses less than one unit per node of what a reward draws from the
   pool. *)
LEMMA DrawArrives ==
    ASSUME TypeOK, [Next]_vars, pool' < pool, TotalEffective > 0
    PROVE  SumFunction(balance') + Cardinality(Nodes) > SumFunction(balance) + (pool - pool')
<1>1. PICK n, m \in Nodes, amt \in TransferAmounts : Transfer(n, m, amt)  BY OnlyTransfersDraw
<1>2. PICK reward, all, extra \in Nat :
          /\ pool' = pool - reward /\ reward < all + Cardinality(Nodes)
          /\ SumFunction(balance') = SumFunction(balance) + extra + all
      BY <1>1, TransferPays
<1>3. Cardinality(Nodes) \in Nat  BY StakingAssumption, FS_CardinalityType
<1> QED  BY <1>2, <1>3, Accounts

\* Whenever the pool pays a reward and some stake has weight, the stakers get all of it but
\* for less than one unit a node, whatever the layers, penalties and exits left of their
\* weights (economy.py 300).
THEOREM RewardArrivesHolds == Spec => RewardArrives
<1>1. Books /\ [Next]_vars
        => [pool' < pool /\ TotalEffective > 0 =>
              SumFunction(balance') + Cardinality(Nodes) > SumFunction(balance) + (pool - pool')]_vars
      BY DrawArrives DEF Books
<1> QED  BY FirstBooks, BooksInductive, <1>1, PTL DEF Spec, RewardArrives

-----------------------------------------------------------------------------
(* OldStakeKept.  Reduced takes no more from a weighted sum of the layers  *)
(* than the largest weight c times the amount.                             *)
Worth(ls, u) == SumFunctionOnSet([i \in DOMAIN ls |-> ls[i].amt * u[i]], 1 .. Len(ls))

(* The shape of a list of layers. *)
LEMMA LayerAmounts ==
    ASSUME NEW ls \in Seq(Layers)
    PROVE  /\ DOMAIN ls = 1 .. Len(ls) /\ Len(ls) \in Nat
           /\ \A i \in 1 .. Len(ls) : ls[i].amt \in Nat /\ ls[i].weight \in 0 .. 10
<1>1. DOMAIN ls = 1 .. Len(ls) /\ Len(ls) \in Nat /\ \A i \in 1 .. Len(ls) : ls[i] \in Layers
      OBVIOUS
<1>2. \A i \in 1 .. Len(ls) : ls[i].amt \in Nat /\ ls[i].weight \in {0, 5, 8, 10}
      BY <1>1 DEF Layers
<1> QED  BY <1>1, <1>2

(* No sum of the first k layers is more than c times their amounts.         *)
LEMMA WorthBelow ==
    ASSUME NEW ls \in Seq(Layers), NEW c \in Nat, NEW u \in [1 .. Len(ls) -> 0 .. c],
           NEW k \in 0 .. Len(ls)
    PROVE  LET f == [i \in DOMAIN ls |-> ls[i].amt * u[i]]
           IN  SumFunctionOnSet(f, 1 .. k) <= c * Before(ls, k + 1)
<1> DEFINE f == [i \in DOMAIN ls |-> ls[i].amt * u[i]]
           a == [i \in DOMAIN ls |-> ls[i].amt]
           ca == [i \in DOMAIN ls |-> c * a[i]]
<1>1. IsFiniteSet(1 .. k) /\ 1 .. k \subseteq 1 .. Len(ls) /\ (k + 1) - 1 = k
      BY FS_Interval
<1>2. ASSUME NEW i \in 1 .. k
      PROVE  f[i] \in Int /\ a[i] \in Int /\ ca[i] = c * a[i] /\ ca[i] \in Int /\ f[i] <= ca[i]
      <2>1. i \in 1 .. Len(ls) /\ DOMAIN ls = 1 .. Len(ls) /\ ls[i].amt \in Nat
            BY <1>1, LayerAmounts
      <2>2. u[i] \in Nat /\ u[i] <= c  BY <2>1
      <2>3. \A x, y, z \in Nat : y <= z => x * y \in Nat /\ z * x \in Nat /\ x * y <= z * x  OBVIOUS
      <2>4. ls[i].amt * u[i] <= c * ls[i].amt /\ ls[i].amt * u[i] \in Nat /\ c * ls[i].amt \in Nat
            BY <2>1, <2>2, <2>3
      <2> QED  BY <2>1, <2>4
<1> HIDE DEF f, a, ca
<1>3. SumFunctionOnSet(f, 1 .. k) <= SumFunctionOnSet(ca, 1 .. k)  BY <1>1, <1>2, SumGrows
<1>4. SumFunctionOnSet(ca, 1 .. k) = c * SumFunctionOnSet(a, 1 .. k)
      <2>1. c \in Int /\ \A i \in 1 .. k : a[i] \in Int /\ ca[i] = c * a[i]  BY <1>2
      <2> QED  BY <1>1, <2>1, SumTimes
<1>5. Before(ls, k + 1) = SumFunctionOnSet(a, 1 .. k)  BY <1>1 DEF Before, a
<1> QED  BY <1>3, <1>4, <1>5 DEF f

(* Consuming amt from the front of the layers takes at most c per unit from a
   sum with weights up to c: the layers covered are worth at most that, and
   the one cut keeps its weight. *)
LEMMA ReducedWorth ==
    ASSUME NEW ls \in Seq(Layers), NEW amt \in Nat, NEW c \in Nat,
           NEW u \in [1 .. Len(ls) -> 0 .. c]
    PROVE  LET k == Covered(ls, amt)
           IN  Worth(ls, u) - c * amt <= Worth(Reduced(ls, amt), [i \in 1 .. Len(ls) - k |-> u[k + i]])
<1> DEFINE k == Covered(ls, amt)
           rs == Reduced(ls, amt)
           f == [i \in DOMAIN ls |-> ls[i].amt * u[i]]
           v == [i \in 1 .. Len(ls) - k |-> u[k + i]]
           g == [i \in DOMAIN rs |-> rs[i].amt * v[i]]
           F(S) == SumFunctionOnSet(f, S)
           G(S) == SumFunctionOnSet(g, S)
           L == Len(ls)
<1>1. /\ k \in 0 .. L /\ Before(ls, k + 1) <= amt
      /\ k < L => amt < Before(ls, k + 2)
      BY CoveredLayers
<1>2. /\ L \in Nat /\ DOMAIN ls = 1 .. L
      /\ \A i \in 1 .. L : ls[i].amt \in Nat /\ ls[i].amt * u[i] \in Nat
      <2>1. \A i \in 1 .. L : ls[i].amt \in Nat /\ u[i] \in Nat  BY LayerAmounts
      <2>2. \A x, y \in Nat : x * y \in Nat  OBVIOUS
      <2> QED  BY <2>1, <2>2, LayerAmounts
<1>3. \A i \in 1 .. L : f[i] = ls[i].amt * u[i] /\ f[i] \in Int  BY <1>2
<1>4. rs \in Seq(Layers) /\ Len(rs) = L - k /\ DOMAIN rs = 1 .. L - k /\ v \in [1 .. L - k -> 0 .. c]
      <2>1. rs \in Seq(Layers)  BY ReducedType
      <2>2. DOMAIN rs = 1 .. L - k  BY DEF Reduced
      <2>3. L - k \in Nat  BY <1>1, <1>2
      <2>4. Len(rs) = L - k
            <3> HIDE DEF rs, k, L
            <3> QED  BY <2>1, <2>2, <2>3
      <2>5. \A i \in 1 .. L - k : k + i \in 1 .. L  BY <1>1, <1>2
      <2> QED  BY <2>1, <2>2, <2>4, <2>5
<1>5. \A i \in 1 .. L - k : /\ g[i] = rs[i].amt * v[i] /\ g[i] \in Int /\ v[i] = u[k + i]
                            /\ i # 1 => rs[i].amt = ls[k + i].amt
                            /\ i = 1 => rs[i].amt = Before(ls, k + 2) - amt
      <2>1. ASSUME NEW i \in 1 .. L - k
            PROVE  /\ i # 1 => rs[i].amt = ls[k + i].amt
                   /\ i = 1 => rs[i].amt = Before(ls, k + 2) - amt
            <3>1. k + i \in 1 .. L  BY <1>1, <1>2
            <3>2. ls[k + i] \in Layers
                  <4> HIDE DEF k
                  <4> QED  BY <3>1
            <3>3. rs[i] = [ls[k + i] EXCEPT !.amt = IF i = 1 THEN Before(ls, k + 2) - amt ELSE @]
                  BY DEF Reduced
            <3> DEFINE new == IF i = 1 THEN Before(ls, k + 2) - amt ELSE ls[k + i].amt
            <3>4. rs[i] = [ls[k + i] EXCEPT !.amt = new]  BY <3>3
            <3> HIDE DEF new, rs, k
            <3>5. rs[i].amt = new  BY <3>2, <3>4 DEF Layers
            <3> QED  BY <3>5 DEF new
      <2>2. ASSUME NEW i \in 1 .. L - k PROVE rs[i].amt * v[i] \in Int
            <3>1. rs[i].amt \in Nat  BY <1>4, LayerAmounts
            <3>2. v[i] \in Nat
                  <4> HIDE DEF v
                  <4> QED  BY <1>4
            <3>3. \A x, y \in Nat : x * y \in Int  OBVIOUS
            <3> HIDE DEF rs, v
            <3> QED  BY <3>1, <3>2, <3>3
      <2> QED  BY <1>4, <2>1, <2>2
<1> HIDE DEF f, g, k, rs, v, L
<1>6. \A p, q \in Int : IsFiniteSet(p .. q)  BY FS_Interval
<1>7. k \in Int /\ L \in Int /\ 0 <= k /\ k <= L /\ 1 \in Int  BY <1>1, <1>2
<1>8. ASSUME NEW p \in Int, NEW q \in Int, p .. q \subseteq 1 .. L PROVE F(p .. q) \in Int
       <2>1. IsFiniteSet(p .. q)  BY <1>6
       <2> QED  BY <1>3, <1>8, <2>1, SumIsInt
<1>9. ASSUME NEW p \in Int, NEW q \in Int, p .. q \subseteq 1 .. L - k PROVE G(p .. q) \in Int
       <2>1. IsFiniteSet(p .. q)  BY <1>6
       <2> QED  BY <1>5, <1>9, <2>1, SumIsInt
<1>10. F(1 .. k) <= c * Before(ls, k + 1)  BY <1>1, WorthBelow DEF f, L
<1>11. Worth(ls, u) = F(1 .. L) /\ Worth(rs, v) = G(1 .. L - k)
      BY <1>4 DEF Worth, f, g, L
<1>12. Before(ls, k + 1) \in Nat
      <2>1. k + 1 \in 1 .. Len(ls) + 1  BY <1>1 DEF L
      <2> QED  BY <2>1, BeforeStep
<1>13. CASE k = L
      <2>1. F(1 .. L) <= c * amt
            <3>1. \A x, y \in Nat : x <= y => c * x <= c * y  OBVIOUS
            <3>2. c * Before(ls, k + 1) <= c * amt  BY <1>1, <1>12, <3>1
            <3>3. F(1 .. L) \in Int  BY <1>7, <1>8
            <3>4. c * Before(ls, k + 1) \in Int /\ c * amt \in Int  BY <1>12
            <3> QED  BY <1>10, <1>13, <3>2, <3>3, <3>4
      <2>2. G(1 .. L - k) = 0
            <3>1. 1 .. L - k = {}  BY <1>2, <1>13
            <3> QED  BY <3>1, SumEmpty
      <2>3. F(1 .. L) \in Int /\ c * amt \in Int  BY <1>7, <1>8
      <2> QED  BY <1>11, <2>1, <2>2, <2>3 DEF k, rs, v
<1>14. CASE k # L
      <2> DEFINE b == Before(ls, k + 1)
                 x == ls[k + 1].amt
                 w == u[k + 1]
      <2>1. /\ k \in Nat /\ k < L /\ k + 1 \in 1 .. L /\ 1 \in 1 .. L - k
            /\ x \in Nat /\ w \in Nat /\ w <= c
            <3>1. k \in Nat /\ k < L /\ k + 1 \in 1 .. L /\ 1 \in 1 .. L - k  BY <1>14, <1>7
            <3>2. u[k + 1] \in 0 .. c  BY <3>1 DEF L
            <3> QED  BY <1>2, <3>1, <3>2
      <2>2. Before(ls, k + 2) = b + x
            <3>1. (k + 1) + 1 = k + 2  BY <2>1
            <3>2. Before(ls, (k + 1) + 1) = b + x  BY <2>1, BeforeStep DEF L
            <3> QED  BY <3>1, <3>2
      <2>3. F(1 .. L) = F(1 .. k) + x * w + F(k + 2 .. L)
            <3>1. /\ 1 .. L = (1 .. k) \cup (k + 1 .. L) /\ (1 .. k) \cap (k + 1 .. L) = {}
                  /\ (k + 1 .. L) \ {k + 1} = k + 2 .. L /\ k + 1 \in k + 1 .. L
                  BY SMTT(30), <1>2, <2>1
            <3>2. IsFiniteSet(1 .. k) /\ IsFiniteSet(k + 1 .. L)
                  <4>1. k + 1 \in Int  BY <1>7
                  <4> QED  BY <1>6, <1>7, <4>1
            <3>3. F((1 .. k) \cup (k + 1 .. L)) = F(1 .. k) + F(k + 1 .. L)
                  BY ZenonT(30), <1>3, <3>1, <3>2, SumUnion
            <3>4. F(k + 1 .. L) = f[k + 1] + F((k + 1 .. L) \ {k + 1})
                  BY <1>3, <3>1, <3>2, SumRemove
            <3>5. f[k + 1] = x * w /\ f[k + 1] \in Int  BY <1>3, <2>1
            <3>6. F(1 .. k) \in Int /\ F(k + 2 .. L) \in Int
                  <4>1. k + 2 .. L \subseteq 1 .. L /\ 1 .. k \subseteq 1 .. L /\ k + 2 \in Int  BY <1>7
                  <4> QED  BY <1>7, <1>8, <4>1
            <3>7. x * w \in Int  BY <3>5
            <3>8. F(k + 1 .. L) = x * w + F(k + 2 .. L)  BY <3>1, <3>4, <3>5
            <3>9. F(1 .. L) = F(1 .. k) + F(k + 1 .. L)  BY <3>1, <3>3
            <3> DEFINE y == x * w
            <3> HIDE DEF F, y
            <3>10. F(1 .. L) = F(1 .. k) + y + F(k + 2 .. L)  BY <3>6, <3>7, <3>8, <3>9 DEF y
            <3> QED  BY <3>10 DEF y
      <2>4. G(1 .. L - k) = (b + x - amt) * w + G(2 .. L - k)
            <3>1. (1 .. L - k) \ {1} = 2 .. L - k  BY SMTT(30), <1>2, <2>1
            <3>2. IsFiniteSet(1 .. L - k)
                  <4>1. L - k \in Int  BY <1>7
                  <4> QED  BY <1>6, <1>7, <4>1
            <3>3. G(1 .. L - k) = g[1] + G((1 .. L - k) \ {1})
                  <4>1. \A i \in 1 .. L - k : g[i] \in Int  BY <1>5
                  <4> QED  BY <2>1, <3>2, <4>1, SumRemove
            <3>4. g[1] = (b + x - amt) * w
                  <4>1. g[1] = rs[1].amt * v[1] /\ v[1] = u[k + 1] /\ rs[1].amt = Before(ls, k + 2) - amt
                        BY <1>5, <2>1
                  <4>2. b \in Nat /\ x \in Nat  BY <1>12, <2>1
                  <4> HIDE DEF b, x
                  <4>3. rs[1].amt = b + x - amt  BY <4>1, <4>2, <2>2
                  <4> QED  BY <4>1, <4>3
            <3> HIDE DEF b, x, w
            <3> QED  BY <3>1, <3>3, <3>4
      <2>5. G(2 .. L - k) = F(k + 2 .. L)
            <3> DEFINE h == [i \in 2 .. L - k |-> k + i]
            <3>1. \A i, j \in 2 .. L - k : h[i] = h[j] => i = j  BY <1>2, <2>1
            <3>2. {h[i] : i \in 2 .. L - k} = k + 2 .. L
                  <4>1. ASSUME NEW j \in k + 2 .. L PROVE j - k \in 2 .. L - k /\ h[j - k] = j
                        BY <1>2, <2>1
                  <4>2. ASSUME NEW i \in 2 .. L - k PROVE h[i] \in k + 2 .. L
                        BY SMTT(30), <1>2, <2>1
                  <4> HIDE DEF h
                  <4> QED  BY <4>1, <4>2
            <3>3. ASSUME NEW i \in 2 .. L - k PROVE g[i] \in Int /\ f[h[i]] = g[i]
                  <4>1. i \in 1 .. L - k /\ i # 1 /\ k + i \in 1 .. L  BY <1>2, <2>1
                  <4>2. f[k + i] = ls[k + i].amt * u[k + i]  BY <1>3, <4>1
                  <4>3. g[i] = ls[k + i].amt * u[k + i] /\ g[i] \in Int  BY <1>5, <4>1
                  <4> QED  BY <4>2, <4>3
            <3>4. IsFiniteSet(2 .. L - k)
                  <4>1. L - k \in Int /\ 2 \in Int  BY <1>7
                  <4> QED  BY <1>6, <4>1
            <3> HIDE DEF h
            <3> DEFINE S == 2 .. L - k
            <3>5. /\ IsFiniteSet(S) /\ \A i, j \in S : h[i] = h[j] => i = j
                  /\ \A i \in S : g[i] \in Int /\ f[h[i]] = g[i]
                  BY <3>1, <3>3, <3>4
            <3> HIDE DEF S
            <3>6. SumFunctionOnSet(f, {h[i] : i \in S}) = SumFunctionOnSet(g, S)  BY <3>5, SumRenamed
            <3> QED  BY <3>2, <3>6 DEF S
      <2>6. F(1 .. k) \in Int /\ F(k + 2 .. L) \in Int
            <3>1. k + 2 .. L \subseteq 1 .. L /\ 1 .. k \subseteq 1 .. L /\ k + 2 \in Int  BY <1>7
            <3> QED  BY <1>7, <1>8, <3>1
      <2>7. b \in Nat /\ b <= amt  BY <1>1, <1>12
      <2> HIDE DEF F, G, b, x, w
      <2>8. \A p, q \in Int : \A r, s, y \in Nat : r <= amt /\ y <= c /\ p <= c * r =>
                p + s * y + q - c * amt <= (r + s - amt) * y + q
            <3> SUFFICES ASSUME NEW p \in Int, NEW q \in Int, NEW r \in Nat, NEW s \in Nat, NEW y \in Nat,
                                r <= amt, y <= c, p <= c * r
                         PROVE  p + s * y + q - c * amt <= (r + s - amt) * y + q
                OBVIOUS
            <3>1. (amt - r) * y <= (amt - r) * c
                  <4>1. \A i, j \in Nat : \A d \in Nat : i <= j => d * i <= d * j  OBVIOUS
                  <4>2. amt - r \in Nat  OBVIOUS
                  <4> QED  BY <4>1, <4>2
            <3>2. (amt - r) * y = amt * y - r * y /\ (amt - r) * c = c * amt - c * r  OBVIOUS
            <3>3. (r + s - amt) * y = r * y + s * y - amt * y  OBVIOUS
            <3>4. amt * y \in Int /\ r * y \in Int /\ s * y \in Int /\ c * amt \in Int /\ c * r \in Int
                  OBVIOUS
            <3> QED  BY <3>1, <3>2, <3>3, <3>4
      <2>9. F(1 .. k) <= c * b  BY <1>10 DEF b
      <2>10. F(1 .. k) + x * w + F(k + 2 .. L) - c * amt <= (b + x - amt) * w + F(k + 2 .. L)
             BY <2>1, <2>6, <2>7, <2>8, <2>9
      <2>11. F(1 .. L) - c * amt <= G(1 .. L - k)
             <3>1. F(1 .. k) + x * w + F(k + 2 .. L) = F(1 .. L)
                   /\ (b + x - amt) * w + F(k + 2 .. L) = G(1 .. L - k)
                   BY <2>3, <2>4, <2>5
             <3>2. x * w \in Int /\ (b + x - amt) * w \in Int  BY <2>1, <2>7
             <3> QED  BY <2>6, <2>10, <3>1, <3>2
      <2> QED  BY <1>11, <2>11 DEF F, G, k, rs, v
<1> QED  BY <1>13, <1>14

(* The amount of all layers, and their weight. *)
Ones(ls)    == [i \in 1 .. Len(ls) |-> 1]
Weights(ls) == [i \in 1 .. Len(ls) |-> ls[i].weight]
Amount(ls)  == Worth(ls, Ones(ls))

(* Layered and Amount are sums of that form, with the weights and with ones. *)
LEMMA LayersHaveWorth ==
    ASSUME NEW ls \in Seq(Layers)
    PROVE  /\ Layered(ls) = Worth(ls, Weights(ls))
           /\ Layered(ls) \in Nat /\ Amount(ls) \in Nat
           /\ ls = <<>> => Layered(ls) = 0 /\ Amount(ls) = 0
<1> DEFINE f == [i \in DOMAIN ls |-> ls[i].amt * Weights(ls)[i]]
           a == [i \in DOMAIN ls |-> ls[i].amt * Ones(ls)[i]]
           g == [i \in DOMAIN ls |-> ls[i].amt * ls[i].weight]
           S == 1 .. Len(ls)
<1>1. /\ DOMAIN ls = S /\ Len(ls) \in Nat
      /\ \A i \in S : f[i] = g[i] /\ f[i] \in Nat /\ a[i] \in Nat
      <2>1. \A i \in S : ls[i].amt \in Nat /\ ls[i].weight \in Nat  BY LayerAmounts
      <2>2. \A x, y \in Nat : x * y \in Nat  OBVIOUS
      <2> QED  BY <2>1, <2>2, LayerAmounts DEF Weights, Ones
<1>2. IsFiniteSet(S)  BY <1>1, FS_Interval
<1>3. Layered(ls) = SumFunctionOnSet(g, S)
      <2>1. DOMAIN g = S  BY <1>1
      <2> HIDE DEF g
      <2>2. SumFunction(g) = SumFunctionOnSet(g, S)  BY <2>1, TotalIs
      <2> QED  BY <2>2 DEF Layered, g
<1>4. Worth(ls, Weights(ls)) = SumFunctionOnSet(f, S) /\ Amount(ls) = SumFunctionOnSet(a, S)
      BY DEF Worth, Amount
<1> HIDE DEF f, a, g
<1>5. SumFunctionOnSet(f, S) = SumFunctionOnSet(g, S)  BY <1>1, <1>2, SumSame
<1>6. SumFunctionOnSet(f, S) \in Nat /\ SumFunctionOnSet(a, S) \in Nat  BY <1>1, <1>2, SumIsNat
<1>7. ls = <<>> => SumFunctionOnSet(f, S) = 0 /\ SumFunctionOnSet(a, S) = 0
      <2>1. ls = <<>> => S = {}  OBVIOUS
      <2> QED  BY <2>1, SumEmpty
<1> QED  BY <1>3, <1>4, <1>5, <1>6, <1>7

(* A new layer takes nothing from the old ones. *)
LEMMA AppendedLayers ==
    ASSUME NEW ls \in Seq(Layers), NEW l \in Layers
    PROVE  /\ Layered(Append(ls, l)) >= Layered(ls)
           /\ Amount(Append(ls, l)) = Amount(ls) + l.amt
<1> DEFINE ks == Append(ls, l)
           n == Len(ls)
           f(u) == [i \in DOMAIN ks |-> ks[i].amt * u[i]]
           g(u) == [i \in DOMAIN ls |-> ls[i].amt * u[i]]
<1>1. /\ ks \in Seq(Layers) /\ n \in Nat /\ Len(ks) = n + 1 /\ DOMAIN ks = 1 .. n + 1
      /\ DOMAIN ls = 1 .. n /\ ks[n + 1] = l /\ \A i \in 1 .. n : ks[i] = ls[i]
      OBVIOUS
<1>2. (1 .. n + 1) \ {n + 1} = 1 .. n /\ n + 1 \in 1 .. n + 1 /\ 1 .. n \subseteq 1 .. n + 1
      /\ IsFiniteSet(1 .. n) /\ IsFiniteSet(1 .. n + 1)
      <2>1. n + 1 \in Int /\ n \in Int /\ 1 \in Int /\ 0 <= n  BY <1>1
      <2> HIDE DEF n
      <2>2. IsFiniteSet(1 .. n) /\ IsFiniteSet(1 .. n + 1)  BY <2>1, FS_Interval
      <2> QED  BY <2>1, <2>2
<1>3. ASSUME NEW u \in [1 .. n + 1 -> 0 .. 10], NEW w \in [1 .. n -> 0 .. 10],
             \A i \in 1 .. n : w[i] = u[i]
      PROVE  Worth(ks, u) = Worth(ls, w) + l.amt * u[n + 1]
      <2>1. Worth(ks, u) = SumFunctionOnSet(f(u), 1 .. n + 1) /\ Worth(ls, w) = SumFunctionOnSet(g(w), 1 .. n)
            BY <1>1 DEF Worth
      <2>2. \A i \in 1 .. n + 1 : f(u)[i] \in Int /\ f(u)[i] = ks[i].amt * u[i]
            <3>1. \A i \in 1 .. n + 1 : ks[i].amt \in Nat
                  <4> HIDE DEF ks, n
                  <4> QED  BY <1>1, LayerAmounts
            <3>2. \A i \in 1 .. n + 1 : u[i] \in Nat  OBVIOUS
            <3>3. \A x, y \in Nat : x * y \in Int  OBVIOUS
            <3> HIDE DEF ks, n
            <3> QED  BY <1>1, <3>1, <3>2, <3>3
      <2>3. \A i \in 1 .. n : g(w)[i] = f(u)[i] /\ f(u)[i] \in Int
            BY <1>1, <1>2, <1>3, <2>2
      <2>4. f(u)[n + 1] = l.amt * u[n + 1] /\ f(u)[n + 1] \in Int  BY <1>1, <1>2, <2>2
      <2> HIDE DEF f, g, n, ks
      <2>5. SumFunctionOnSet(f(u), 1 .. n + 1)
              = f(u)[n + 1] + SumFunctionOnSet(f(u), (1 .. n + 1) \ {n + 1})
            BY <1>2, <2>2, SumRemove
      <2>6. SumFunctionOnSet(f(u), 1 .. n) = SumFunctionOnSet(g(w), 1 .. n)
            BY <1>2, <2>3, SumSame
      <2>7. SumFunctionOnSet(f(u), 1 .. n) \in Int  BY <1>2, <2>3, SumIsInt
      <2>8. Worth(ks, u) = f(u)[n + 1] + SumFunctionOnSet(f(u), 1 .. n)  BY <1>2, <2>1, <2>5
      <2>9. Worth(ls, w) = SumFunctionOnSet(f(u), 1 .. n)  BY <2>1, <2>6
      <2> QED  BY <2>4, <2>7, <2>8, <2>9
<1>4. /\ Weights(ks) \in [1 .. n + 1 -> 0 .. 10] /\ Weights(ls) \in [1 .. n -> 0 .. 10]
      /\ \A i \in 1 .. n : Weights(ls)[i] = Weights(ks)[i]
      /\ Weights(ks)[n + 1] \in Nat
      <2>1. /\ \A i \in 1 .. n + 1 : ks[i].weight \in 0 .. 10
            /\ \A i \in 1 .. n : ls[i].weight \in 0 .. 10
            <3> HIDE DEF ks
            <3> QED  BY <1>1, LayerAmounts
      <2> HIDE DEF ks
      <2> QED  BY <1>1, <1>2, <2>1 DEF Weights
<1>5. /\ Ones(ks) \in [1 .. n + 1 -> 0 .. 10] /\ Ones(ls) \in [1 .. n -> 0 .. 10]
      /\ \A i \in 1 .. n : Ones(ls)[i] = Ones(ks)[i]
      /\ Ones(ks)[n + 1] = 1
      <2> HIDE DEF ks
      <2> QED  BY <1>1, <1>2 DEF Ones
<1>6. l.amt \in Nat  BY DEF Layers
<1> HIDE DEF ks, n
<1>7. Worth(ks, Weights(ks)) = Worth(ls, Weights(ls)) + l.amt * Weights(ks)[n + 1]
      BY <1>3, <1>4
<1>8. Worth(ks, Ones(ks)) = Worth(ls, Ones(ls)) + l.amt * 1
      BY <1>3, <1>5
<1>9. l.amt * Weights(ks)[n + 1] \in Nat /\ l.amt * 1 = l.amt
      <2>1. \A x, y \in Nat : x * y \in Nat /\ x * 1 = x  OBVIOUS
      <2> QED  BY <1>4, <1>6, <2>1
<1>10. /\ Layered(ks) = Worth(ks, Weights(ks)) /\ Layered(ls) = Worth(ls, Weights(ls))
       /\ Layered(ls) \in Nat
       BY <1>1, LayersHaveWorth
<1>11. Layered(ks) >= Layered(ls)  BY <1>7, <1>9, <1>10
<1>12. Amount(ks) = Amount(ls) + l.amt  BY <1>8, <1>9 DEF Amount
<1> QED  BY <1>11, <1>12 DEF ks

(* Unstaking amt takes at most ten per unit from the layered weight, ten
   being the largest weight a layer has. *)
LEMMA ReducedLayers ==
    ASSUME NEW ls \in Seq(Layers), NEW amt \in Nat
    PROVE  /\ Layered(Reduced(ls, amt)) >= Layered(ls) - 10 * amt
           /\ Amount(Reduced(ls, amt)) >= Amount(ls) - amt
<1> DEFINE k == Covered(ls, amt)
           rs == Reduced(ls, amt)
           cut(u) == [i \in 1 .. Len(ls) - k |-> u[k + i]]
<1>1. k \in 0 .. Len(ls) /\ rs \in Seq(Layers)  BY CoveredLayers, ReducedType
<1>2. Len(rs) = Len(ls) - k
      <2>1. DOMAIN rs = 1 .. Len(ls) - k  BY DEF Reduced
      <2>2. Len(ls) - k \in Nat  BY <1>1
      <2> HIDE DEF rs, k
      <2> QED  BY <1>1, <2>1, <2>2
<1>3. \A i \in 1 .. Len(ls) - k : rs[i].weight = ls[k + i].weight /\ k + i \in 1 .. Len(ls)
      <2> SUFFICES ASSUME NEW i \in 1 .. Len(ls) - k
                   PROVE  rs[i].weight = ls[k + i].weight /\ k + i \in 1 .. Len(ls)
          OBVIOUS
      <2>1. k + i \in 1 .. Len(ls)  BY <1>1
      <2>2. ls[k + i] \in Layers
            <3> HIDE DEF k
            <3> QED  BY <2>1
      <2> DEFINE new == IF i = 1 THEN Before(ls, k + 2) - amt ELSE ls[k + i].amt
      <2>3. rs[i] = [ls[k + i] EXCEPT !.amt = new]  BY DEF Reduced
      <2> HIDE DEF new, rs, k
      <2> QED  BY <2>1, <2>2, <2>3 DEF Layers
<1>4. /\ Weights(ls) \in [1 .. Len(ls) -> 0 .. 10] /\ Ones(ls) \in [1 .. Len(ls) -> 0 .. 1]
      BY LayerAmounts DEF Weights, Ones
<1> HIDE DEF k, rs
<1>5. cut(Weights(ls)) = Weights(rs) /\ cut(Ones(ls)) = Ones(rs)
      BY <1>2, <1>3 DEF Weights, Ones
<1>6. /\ Worth(ls, Weights(ls)) - 10 * amt <= Worth(rs, cut(Weights(ls)))
      /\ Worth(ls, Ones(ls)) - 1 * amt <= Worth(rs, cut(Ones(ls)))
      BY <1>4, ReducedWorth DEF k, rs
<1> HIDE DEF cut
<1>7. /\ Layered(rs) = Worth(rs, Weights(rs)) /\ Layered(ls) = Worth(ls, Weights(ls))
      /\ Layered(rs) \in Nat /\ Layered(ls) \in Nat /\ Amount(rs) \in Nat /\ Amount(ls) \in Nat
      BY <1>1, LayersHaveWorth
<1>8. Amount(rs) = Worth(rs, Ones(rs)) /\ Amount(ls) = Worth(ls, Ones(ls))  BY DEF Amount
<1> QED  BY <1>5, <1>6, <1>7, <1>8 DEF rs

(* The weight of an account with layers ls and stake s. *)
Weight(ls, s) ==
    IF ls = <<>> THEN 10 * Smaller(s, MaxStake)
    ELSE Smaller(Layered(ls), 10 * Smaller(s, MaxStake))

(* An effective weight falls by at most ten per unit of stake, also where
   part of the stake is in no layer. *)
LEMMA WeightKept ==
    ASSUME NEW ls \in Seq(Layers), NEW ks \in Seq(Layers), NEW s \in Nat, NEW t \in Nat,
           s <= Amount(ls), Layered(ks) >= Layered(ls) - 10 * Larger(0, s - t)
    PROVE  Weight(ks, t) >= Weight(ls, s) - 10 * Larger(0, s - t)
<1>1. /\ Layered(ls) \in Nat /\ Layered(ks) \in Nat
      /\ ls = <<>> => Layered(ls) = 0 /\ Amount(ls) = 0
      /\ ks = <<>> => Layered(ks) = 0
      BY LayersHaveWorth
<1>2. MaxStake \in Nat  BY StakingAssumption
<1>3. Weight(ls, s) = Smaller(Layered(ls), 10 * Smaller(s, MaxStake))
      BY <1>1, <1>2 DEF Weight, Smaller
<1>4. Weight(ks, t) >= Smaller(Layered(ks), 10 * Smaller(t, MaxStake))
      BY <1>1, <1>2 DEF Weight, Smaller
<1>5. Weight(ks, t) \in Nat  BY <1>1, <1>2 DEF Weight, Smaller
<1> DEFINE d == Larger(0, s - t)
<1>6. d \in Nat /\ Smaller(s, MaxStake) \in Nat /\ Smaller(t, MaxStake) \in Nat
      /\ Smaller(t, MaxStake) >= Smaller(s, MaxStake) - d
      BY <1>2 DEF Smaller, Larger
<1>7. \A a, b, x, y \in Nat : b >= a - 10 * d /\ y >= x - d
          => Smaller(b, 10 * y) >= Smaller(a, 10 * x) - 10 * d
      <2> HIDE DEF d
      <2> QED  BY <1>6 DEF Smaller
<1>8. \A i, j \in Nat : Smaller(i, 10 * j) \in Nat  BY DEF Smaller
<1> HIDE DEF d
<1>9. Smaller(Layered(ks), 10 * Smaller(t, MaxStake))
        >= Smaller(Layered(ls), 10 * Smaller(s, MaxStake)) - 10 * d
      BY <1>1, <1>6, <1>7 DEF d
<1>10. /\ Smaller(Layered(ks), 10 * Smaller(t, MaxStake)) \in Nat
       /\ Smaller(Layered(ls), 10 * Smaller(s, MaxStake)) \in Nat
       BY <1>1, <1>6, <1>8
<1> DEFINE new == Smaller(Layered(ks), 10 * Smaller(t, MaxStake))
           old == Smaller(Layered(ls), 10 * Smaller(s, MaxStake))
<1>11. /\ Weight(ls, s) = old /\ Weight(ks, t) >= new /\ new >= old - 10 * d
       /\ new \in Nat /\ old \in Nat
       BY <1>3, <1>4, <1>9, <1>10
<1> HIDE DEF new, old
<1>12. \A i, j, a, b \in Int : i >= j /\ j >= a - b => i >= a - b  OBVIOUS
<1>13. d \in Nat /\ 10 * d \in Int /\ Weight(ks, t) \in Int  BY <1>5, <1>6
<1>14. Weight(ks, t) >= Weight(ls, s) - 10 * d
      <2>1. Weight(ks, t) >= new /\ new >= old - 10 * d /\ new \in Int /\ old \in Int  BY <1>11
      <2>2. Weight(ks, t) >= old - 10 * d  BY <1>12, <1>13, <2>1
      <2> QED  BY <1>11, <2>2
<1> QED  BY <1>14 DEF d

(* What was staked for lies in layers, unless by a quota upgrade.           *)
Backed == \A n \in Nodes \ upgraded : stake[n] <= Amount(layers[n])
Kept   == Books /\ Backed

(* What a step may do to one account for its weight to be kept. *)
LayerKept(n) ==
    Layered(layers'[n]) >= Layered(layers[n]) - 10 * Larger(0, stake[n] - stake'[n])
BackingKept(n) == n \notin upgraded' /\ stake[n] <= Amount(layers[n]) => stake'[n] <= Amount(layers'[n])

(* The types of one node's stake and layers. *)
LEMMA AccountTypes ==
    ASSUME TypeOK, NEW n \in Nodes
    PROVE  stake[n] \in Nat /\ layers[n] \in Seq(Layers) /\ Layered(layers[n]) \in Nat
           /\ Amount(layers[n]) \in Nat
<1>1. stake[n] \in Nat /\ layers[n] \in Seq(Layers)  BY DEF TypeOK, Layers
<1> QED  BY <1>1, LayersHaveWorth

(* A step that leaves a node's layers alone and does not raise its stake. *)
LEMMA OthersKept ==
    ASSUME TypeOK, NEW n \in Nodes, stake'[n] \in Nat, layers'[n] = layers[n], stake'[n] <= stake[n]
    PROVE  LayerKept(n) /\ BackingKept(n)
<1>1. stake[n] \in Nat /\ Layered(layers[n]) \in Nat /\ Amount(layers[n]) \in Nat  BY AccountTypes
<1>2. Layered(layers'[n]) = Layered(layers[n]) /\ Amount(layers'[n]) = Amount(layers[n])  OBVIOUS
<1> QED  BY <1>1, <1>2 DEF LayerKept, BackingKept, Larger

(* A stake adds a layer of the same amount. *)
LEMMA StakeLayers ==
    ASSUME Books, NEW n \in Nodes, NEW amt \in StakeAmounts, Stake(n, amt), NEW k \in Nodes
    PROVE  LayerKept(k) /\ BackingKept(k)
<1> DEFINE l == [amt |-> amt, weight |-> TierWeight(TotalStake + amt)]
<1>1. amt \in Nat /\ l \in Layers  BY StakingAssumption DEF TierWeight, Layers
<1>2. /\ stake' = [stake EXCEPT ![n] = stake[n] + amt]
      /\ layers' = [layers EXCEPT ![n] = Append(layers[n], l)]
      BY DEF Stake
<1>3. l.amt = amt  OBVIOUS
<1> HIDE DEF l
<1>4. /\ stake[k] \in Nat /\ layers[k] \in Seq(Layers) /\ Layered(layers[k]) \in Nat
      /\ Amount(layers[k]) \in Nat
      BY AccountTypes DEF Books
<1>5. CASE k # n
      <2>1. stake'[k] = stake[k] /\ layers'[k] = layers[k]  BY <1>2, <1>5 DEF Books, TypeOK
      <2> QED  BY <1>4, <2>1, OthersKept DEF Books
<1>6. CASE k = n
      <2>1. stake'[k] = stake[k] + amt /\ layers'[k] = Append(layers[k], l)
            BY <1>2, <1>6 DEF Books, TypeOK
      <2>2. /\ Append(layers[k], l) \in Seq(Layers)
            /\ Layered(Append(layers[k], l)) >= Layered(layers[k])
            /\ Amount(Append(layers[k], l)) = Amount(layers[k]) + amt
            BY <1>1, <1>3, <1>4, AppendedLayers
      <2>3. Layered(Append(layers[k], l)) \in Nat  BY <2>2, LayersHaveWorth
      <2>4. Larger(0, stake[k] - stake'[k]) = 0  BY <1>1, <1>4, <2>1 DEF Larger
      <2>5. LayerKept(k)  BY <1>4, <2>1, <2>2, <2>3, <2>4 DEF LayerKept
      <2>6. BackingKept(k)
            <3>1. Amount(layers'[k]) = Amount(layers[k]) + amt  BY <2>1, <2>2
            <3> QED  BY <1>1, <1>4, <2>1, <3>1 DEF BackingKept
      <2> QED  BY <2>5, <2>6
<1> QED  BY <1>5, <1>6

(* An unstake takes as much from the layers as from the stake, or what there
   is. *)
LEMMA UnstakeLayers ==
    ASSUME Books, NEW n \in Nodes, NEW amt \in UnstakeAmounts, Unstake(n, amt), NEW k \in Nodes
    PROVE  LayerKept(k) /\ BackingKept(k)
<1>1. amt \in Nat /\ stake[n] - amt \in Nat
      <2>1. amt \in Nat /\ stake[n] \in Nat  BY StakingAssumption DEF Books, TypeOK
      <2>2. amt <= stake[n]  BY DEF Unstake, MayUnstake
      <2> QED  BY <2>1, <2>2
<1>2. /\ stake' = [stake EXCEPT ![n] = stake[n] - amt]
      /\ layers' = [layers EXCEPT ![n] = Reduced(layers[n], amt)]
      BY DEF Unstake, Moved
<1>3. /\ stake[k] \in Nat /\ layers[k] \in Seq(Layers) /\ Layered(layers[k]) \in Nat
      /\ Amount(layers[k]) \in Nat
      BY AccountTypes DEF Books
<1>4. CASE k # n
      <2>1. stake'[k] = stake[k] /\ layers'[k] = layers[k]  BY <1>2, <1>4 DEF Books, TypeOK
      <2> QED  BY <1>3, <2>1, OthersKept DEF Books
<1>5. CASE k = n
      <2>1. stake'[k] = stake[k] - amt /\ layers'[k] = Reduced(layers[k], amt) /\ stake[k] - amt \in Nat
            BY <1>1, <1>2, <1>5 DEF Books, TypeOK
      <2>2. /\ Reduced(layers[k], amt) \in Seq(Layers)
            /\ Layered(Reduced(layers[k], amt)) >= Layered(layers[k]) - 10 * amt
            /\ Amount(Reduced(layers[k], amt)) >= Amount(layers[k]) - amt
            BY <1>1, <1>3, ReducedType, ReducedLayers
      <2>3. Layered(Reduced(layers[k], amt)) \in Nat /\ Amount(Reduced(layers[k], amt)) \in Nat
            BY <2>2, LayersHaveWorth
      <2>4. stake[k] - stake'[k] = amt /\ Larger(0, amt) = amt  BY <1>1, <1>3, <2>1 DEF Larger
      <2>5. LayerKept(k)  BY <2>1, <2>2, <2>4 DEF LayerKept
      <2>6. BackingKept(k)
            <3>1. Amount(layers'[k]) >= Amount(layers[k]) - amt /\ Amount(layers'[k]) \in Nat
                  BY <2>1, <2>2, <2>3
            <3> QED  BY <1>1, <1>3, <2>1, <3>1 DEF BackingKept
      <2> QED  BY <2>5, <2>6
<1> QED  BY <1>4, <1>5

(* A fine or an exit leaves the layers. *)
LEMMA LessStake ==
    ASSUME Books, NEW n \in Nodes, NEW amount \in Nat, amount <= stake[n],
           stake' = [stake EXCEPT ![n] = stake[n] - amount], layers' = layers, NEW k \in Nodes
    PROVE  LayerKept(k) /\ BackingKept(k)
<1>1. stake[k] \in Nat /\ stake[n] \in Nat  BY AccountTypes DEF Books
<1>2. stake'[k] = IF k = n THEN stake[n] - amount ELSE stake[k]  BY DEF Books, TypeOK
<1>3. stake'[k] \in Nat /\ stake'[k] <= stake[k]
      <2>1. CASE k = n  BY <1>1, <1>2, <2>1
      <2>2. CASE k # n  BY <1>1, <1>2, <2>2
      <2> QED  BY <2>1, <2>2
<1> QED  BY <1>3, OthersKept DEF Books

(* A quota upgrade touches stake and layers of the node that upgrades. *)
LEMMA UpgradeLayers ==
    ASSUME Books, NEW n \in Nodes, NEW amt \in UpgradeAmounts, UpgradeQuota(n, amt), NEW k \in Nodes
    PROVE  LayerKept(k) /\ BackingKept(k)
<1>1. /\ stake' = [stake EXCEPT ![n] = stake[n] + amt] /\ layers' = layers
      /\ upgraded' = upgraded \cup {n} /\ amt \in Nat
      BY StakingAssumption DEF UpgradeQuota
<1>2. stake[k] \in Nat /\ Layered(layers[k]) \in Nat  BY AccountTypes DEF Books
<1>3. CASE k = n
      <2>1. BackingKept(k)  BY <1>1, <1>3 DEF BackingKept
      <2>2. stake'[k] = stake[k] + amt /\ layers'[k] = layers[k]  BY <1>1, <1>3 DEF Books, TypeOK
      <2>3. Larger(0, stake[k] - stake'[k]) = 0  BY <1>1, <1>2, <2>2 DEF Larger
      <2>4. LayerKept(k)  BY <1>2, <2>2, <2>3 DEF LayerKept
      <2> QED  BY <2>1, <2>4
<1>4. CASE k # n
      <2>1. stake'[k] = stake[k] /\ layers'[k] = layers[k]  BY <1>1, <1>4 DEF Books, TypeOK
      <2> QED  BY <1>2, <2>1, OthersKept DEF Books
<1> QED  BY <1>3, <1>4

(* Every step keeps both facts of every node. *)
LEMMA StepKeepsLayers ==
    ASSUME Books, [Next]_vars, NEW k \in Nodes
    PROVE  LayerKept(k) /\ BackingKept(k)
<1>1. stake[k] \in Nat  BY AccountTypes DEF Books
<1>2. ASSUME UNCHANGED <<stake, layers>> PROVE LayerKept(k) /\ BackingKept(k)
      <2>1. stake'[k] = stake[k] /\ layers'[k] = layers[k]  BY <1>2
      <2> QED  BY <1>1, <2>1, OthersKept DEF Books
<1>3. CASE NodeStep
      <2>1. ASSUME NEW n \in Nodes, Claim(n) PROVE UNCHANGED <<stake, layers>>  BY <2>1 DEF Claim
      <2>2. ASSUME NEW n \in Nodes, NEW m \in Nodes, NEW amt \in TransferAmounts, Transfer(n, m, amt)
            PROVE  UNCHANGED <<stake, layers>>
            BY <2>2 DEF Transfer, bonded
      <2> QED  BY <1>2, <1>3, <2>1, <2>2, StakeLayers, UnstakeLayers DEF NodeStep
<1>4. CASE OtherStep
      <2>1. ASSUME NEW n \in Nodes, NEW pct \in {1, 5}, Penalise(n, pct)
            PROVE  LayerKept(k) /\ BackingKept(k)
            <3> DEFINE amount == Smaller(stake[n], Larger(1, (stake[n] * pct) \div 100))
            <3>1. stake[n] \in Nat  BY DEF Books, TypeOK
            <3>2. amount \in Nat /\ amount <= stake[n]  BY <3>1 DEF Smaller, Larger
            <3>3. stake' = [stake EXCEPT ![n] = stake[n] - amount] /\ layers' = layers
                  BY <2>1 DEF Penalise
            <3> HIDE DEF amount
            <3> QED  BY <3>2, <3>3, LessStake
      <2>2. ASSUME NEW n \in Nodes, StorageSlash(n) PROVE LayerKept(k) /\ BackingKept(k)
            <3> DEFINE amount == stake[n] \div 10
            <3>1. stake[n] \in Nat  BY DEF Books, TypeOK
            <3>2. amount \in Nat /\ amount <= stake[n]  BY <3>1
            <3>3. stake' = [stake EXCEPT ![n] = stake[n] - amount] /\ layers' = layers
                  BY <2>2 DEF StorageSlash
            <3> HIDE DEF amount
            <3> QED  BY <3>2, <3>3, LessStake
      <2>3. ASSUME NEW n \in Nodes, StorageExit(n) PROVE LayerKept(k) /\ BackingKept(k)
            <3>1. stake[n] \in Nat /\ stake[n] <= stake[n]  BY DEF Books, TypeOK
            <3>2. stake' = [stake EXCEPT ![n] = stake[n] - stake[n]] /\ layers' = layers
                  BY <2>3 DEF StorageExit, Moved
            <3> QED  BY <3>1, <3>2, LessStake
      <2> QED  BY <1>4, <2>1, <2>2, <2>3, UpgradeLayers DEF OtherStep
<1>5. CASE ReserveStep \/ NextDay
      <2>1. UNCHANGED <<stake, layers>>
            BY <1>5 DEF ReserveStep, NodeGuard, PauseEnds, Freeze, Thaw, NextDay, bonded
      <2> QED  BY <1>2, <2>1
<1>6. CASE UNCHANGED vars
      <2>1. UNCHANGED <<stake, layers>>  BY <1>6 DEF vars, bonded
      <2> QED  BY <1>2, <2>1
<1> QED  BY <1>3, <1>4, <1>5, <1>6 DEF Next

(* A node that has upgraded is remembered. *)
LEMMA UpgradedStays == ASSUME [Next]_vars PROVE upgraded \subseteq upgraded'
BY DEF Next, NodeStep, Stake, Unstake, Claim, Transfer, OtherStep, Penalise, StorageSlash,
       StorageExit, UpgradeQuota, ReserveStep, NodeGuard, PauseEnds, Freeze, Thaw, NextDay,
       vars, history

(* At genesis nobody has stake outside the layers. *)
LEMMA FirstKept == Init => Kept
<1> SUFFICES ASSUME Init PROVE Kept  OBVIOUS
<1>1. Books  BY FirstBooks
<1>2. ASSUME NEW n \in Nodes PROVE stake[n] <= Amount(layers[n])
      <2>1. stake[n] = 0  BY DEF Init
      <2>2. Amount(layers[n]) \in Nat  BY <1>1, AccountTypes DEF Books
      <2> QED  BY <2>1, <2>2
<1> QED  BY <1>1, <1>2 DEF Kept, Backed

(* Kept is inductive. *)
LEMMA KeptInductive == Kept /\ [Next]_vars => Kept'
<1> SUFFICES ASSUME Kept, [Next]_vars PROVE Kept'  OBVIOUS
<1>1. Books'  BY BooksInductive DEF Kept
<1>2. ASSUME NEW n \in Nodes \ upgraded' PROVE stake'[n] <= Amount(layers'[n])
      <2>1. BackingKept(n)  BY StepKeepsLayers DEF Kept
      <2>2. n \notin upgraded  BY UpgradedStays
      <2>3. stake[n] <= Amount(layers[n])  BY <2>2 DEF Kept, Backed
      <2> QED  BY <2>1, <2>3 DEF BackingKept
<1> QED  BY <1>1, <1>2 DEF Kept, Backed

(* What a step may take from the effective weight of a node that never
   upgraded. *)
LEMMA OldWeightKept ==
    ASSUME Kept, [Next]_vars, NEW n \in Nodes \ upgraded
    PROVE  Effective(n)' >= Effective(n) - 10 * Larger(0, stake[n] - stake'[n])
<1>1. stake[n] \in Nat /\ layers[n] \in Seq(Layers)  BY AccountTypes DEF Kept, Books
<1>2. stake'[n] \in Nat /\ layers'[n] \in Seq(Layers)
      <2>1. TypeOK'  BY BooksInductive DEF Kept, Books
      <2> QED  BY <2>1 DEF TypeOK, Layers
<1>3. stake[n] <= Amount(layers[n])  BY DEF Kept, Backed
<1>4. Layered(layers'[n]) >= Layered(layers[n]) - 10 * Larger(0, stake[n] - stake'[n])
      BY StepKeepsLayers DEF Kept, LayerKept
<1>5. Weight(layers'[n], stake'[n]) >= Weight(layers[n], stake[n]) - 10 * Larger(0, stake[n] - stake'[n])
      BY <1>1, <1>2, <1>3, <1>4, WeightKept
<1>6. Effective(n) = Weight(layers[n], stake[n]) /\ Effective(n)' = Weight(layers'[n], stake'[n])
      BY DEF Effective, Weight
<1> QED  BY <1>5, <1>6

\* An old stake is never discounted: whatever its owner and others stake or unstake, in
\* whatever tier, and whatever is fined, the weight of an account without quota upgrades
\* falls by no more than the stake that leaves it (economy.py 252).
THEOREM OldStakeKeptHolds == Spec => OldStakeKept
<1>1. Kept /\ [Next]_vars
        => [\A n \in Nodes \ upgraded :
               Effective(n)' >= Effective(n) - 10 * Larger(0, stake[n] - stake'[n])]_vars
      BY OldWeightKept
<1> QED  BY FirstKept, KeptInductive, <1>1, PTL DEF Spec, OldStakeKept
=============================================================================
