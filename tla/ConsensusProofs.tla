--------------------------- MODULE ConsensusProofs ---------------------------
(*****************************************************************************)
(* The safety of module Consensus, for any number of validators, stakes,     *)
(* draws, blocks and crashes.  1. ConsInv: every chain is a hash chain (each *)
(* block names the one below by height and prev_hash) that seals nothing     *)
(* twice; every block ever signed ends one (Rooted), and since the tip       *)
(* determines the whole chain (TipDetermines), a block is adopted only on    *)
(* the chain it was made on.  ChainsAreSound and MissesAreWitnessed follow.  *)
(* 2. EquivocatorsArePenalised is a statement on steps, proved from ConsInv. *)
(* 3. Agreement needs more: while all elect by the same weights, and no      *)
(* block outlives the timeout, there is one block per height, made by the    *)
(* elected proposer, who holds every block it made (CalmInv).                *)
(* At the end, the checkpoint mode of the same nodes, module NodeSync:       *)
(* SealedOnceHolds and NothingTwiceHolds.                                    *)
(*****************************************************************************)
EXTENDS Consensus, Sums

HashChainIn(m, c) ==
    /\ c \in Seq(1..MaxBlocks)
    /\ \A i \in DOMAIN c :
         /\ c[i] \in DOMAIN m
         /\ m[c[i]].height = i - 1
         /\ m[c[i]].prev = IF i = 1 THEN None ELSE c[i - 1]
HashChain(c) == HashChainIn(made, c)
SealsOnce(c) ==
    \A i, j \in DOMAIN c : i < j => made[c[i]].txids \cap made[c[j]].txids = {}
Sound(c) == HashChain(c) /\ SealsOnce(c)

LateIn(m, c, v) == {i \in DOMAIN c : m[c[i]].late /\ m[c[i]].proposer # v}
LateByOthers(c, v) == LateIn(made, c, v)
Witnessed(s) == \A v \in Nodes : s.missed[v] <= Cardinality(LateByOthers(s.chain, v))

GoodState(s) == s \in NodeStates /\ Sound(s.chain) /\ Witnessed(s)

\* every block ever signed ends a sound chain
Rooted(k) == \E c : Sound(c) /\ c # <<>> /\ c[Len(c)] = k

MadeOK == made \in Seq(Blocks) /\ Len(made) <= MaxBlocks

ConsInv ==
    /\ MadeOK /\ expired \in 0..Len(made)
    /\ up \subseteq Nodes /\ crashes \in 0..MaxCrashes
    /\ net \subseteq [to : Nodes, from : Nodes, id : DOMAIN made]
    /\ mem \in [Nodes -> NodeStates] /\ disk \in [Nodes -> NodeStates]
    /\ \A n \in Nodes : GoodState(mem[n]) /\ GoodState(disk[n])
    /\ \A k \in DOMAIN made : Rooted(k)

-----------------------------------------------------------------------------
(* The election.  A validator's interval of the draw is as long as its
   weight: some validator is elected when anybody has weight, and only one
   that has. *)
LEMMA ElectedHasWeight ==
    ASSUME NEW epoch \in [Nodes -> Nat], NEW draw \in Nat
    PROVE  /\ ElectProposer(epoch, draw) \in Nodes \cup {None}
           /\ SumFunction(epoch) # 0 => /\ ElectProposer(epoch, draw) \in Nodes
                                        /\ epoch[ElectProposer(epoch, draw)] > 0
<1> DEFINE total == SumFunction(epoch)
           upto(v) == SumFunctionOnSet(epoch, 1..v)
           x == draw % total
           Mine(v) == upto(v - 1) <= x /\ x < upto(v)
<1>1. total \in Nat /\ upto(N) = total /\ upto(0) = 0
      <2>1. IsFiniteSet(Nodes)  BY ConsensusAssumption, FS_Interval DEF Nodes
      <2>2. 1..0 = {} /\ DOMAIN epoch = 1..N  BY DEF Nodes
      <2> QED  BY <2>1, <2>2, TotalInt, TotalIs, SumEmpty
<1>2. SUFFICES ASSUME total # 0
      PROVE ElectProposer(epoch, draw) \in Nodes /\ epoch[ElectProposer(epoch, draw)] > 0
      <2>1. total = 0 => ElectProposer(epoch, draw) = None  BY DEF ElectProposer
      <2> QED  BY <2>1
<1>3. x \in Nat /\ x < total  BY <1>1, <1>2
<1>4. \A v \in 0..N : upto(v) \in Nat
      <2> TAKE v \in 0..N
      <2>1. IsFiniteSet(1..v)  BY FS_Interval, ConsensusAssumption
      <2>2. \A k \in 1..v : epoch[k] \in Nat
            <3>1. 1..v \subseteq Nodes  BY ConsensusAssumption DEF Nodes
            <3> QED  BY <3>1
      <2> QED  BY <2>1, <2>2, SumIsNat
<1>5. \E v \in Nodes : Mine(v)
      <2> DEFINE C == {v \in 0..N : x < upto(v)}
      <2>1. N \in C  BY <1>1, <1>3, ConsensusAssumption
      <2>2. C \subseteq Nat  OBVIOUS
      <2> HIDE DEF x, upto
      <2>3. PICK v \in C : \A j \in C : v <= j
            <3> HIDE DEF C
            <3> QED  BY <2>1, <2>2, SmallestNat
      <2>4. v # 0  BY <1>1, <1>3, <2>3
      <2>5. v \in Nodes /\ v - 1 \in 0..N /\ ~ (v <= v - 1)  BY <2>3, <2>4, ConsensusAssumption DEF Nodes
      <2>6. v - 1 \notin C  BY <2>3, <2>5
      <2>7. upto(v - 1) <= x  BY <1>3, <1>4, <2>5, <2>6
      <2> QED  BY <2>3, <2>5, <2>7
<1>6. ElectProposer(epoch, draw) = CHOOSE v \in Nodes : Mine(v)  BY <1>2 DEF ElectProposer
<1> DEFINE e == ElectProposer(epoch, draw)
<1>7. e \in Nodes /\ Mine(e)
      <2> HIDE DEF Mine
      <2> QED  BY <1>5, <1>6
<1>8. upto(e) = epoch[e] + upto(e - 1)
      <2> HIDE DEF e
      <2>1. e \in 1..N /\ N \in Nat  BY <1>7, ConsensusAssumption DEF Nodes
      <2>2. IsFiniteSet(1..e) /\ e \in 1..e /\ 1..e \ {e} = 1..(e - 1)  BY <2>1, FS_Interval
      <2>3. \A k \in 1..e : epoch[k] \in Int
            <3>1. 1..e \subseteq Nodes  BY <2>1 DEF Nodes
            <3> QED  BY <3>1
      <2> QED  BY <2>2, <2>3, SumRemove
<1>9. e - 1 \in 0..N /\ e \in 0..N  BY SMTT(30), <1>7, ConsensusAssumption DEF Nodes
<1>10. epoch[e] \in Nat /\ upto(e) \in Nat /\ upto(e - 1) \in Nat  BY <1>4, <1>7, <1>9
<1> HIDE DEF e, upto, x
<1> QED  BY <1>3, <1>7, <1>8, <1>10 DEF e

-----------------------------------------------------------------------------
(* Hash chains. *)

(* The tip determines the chain. *)
LEMMA TipDetermines ==
    ASSUME NEW c, HashChain(c), NEW d, HashChain(d),
           c # <<>>, Len(c) = Len(d), c[Len(c)] = d[Len(d)]
    PROVE  c = d
<1> DEFINE l == Len(c)
           C == {k \in 0..l - 1 : c[l - k] # d[l - k]}
<1>1. /\ c \in Seq(1..MaxBlocks) /\ d \in Seq(1..MaxBlocks)
      /\ l \in Nat \ {0} /\ DOMAIN c = 1..l /\ DOMAIN d = 1..l
      BY DEF HashChain, HashChainIn
<1>2. ASSUME C # {} PROVE FALSE
      <2>1. C \subseteq Nat  OBVIOUS
      <2>2. PICK k \in C : \A j \in C : k <= j
            <3> HIDE DEF C
            <3> QED  BY <1>2, <2>1, SmallestNat
      <2>3. k # 0  BY <1>1
      <2> DEFINE i == l - k + 1
      <2>4. /\ k - 1 \in 0..l - 1 /\ i \in 1..l /\ i # 1 /\ i = l - (k - 1) /\ i - 1 = l - k
            /\ ~ (k <= k - 1)
            BY <1>1, <2>3
      <2>5. c[i] = d[i]  BY <2>2, <2>4
      <2>6. made[c[i]].prev = c[i - 1] /\ made[d[i]].prev = d[i - 1]
            <3> HIDE DEF i, l
            <3> QED  BY <1>1, <2>4 DEF HashChain, HashChainIn
      <2>7. c[l - k] # d[l - k]  OBVIOUS
      <2> QED  BY <2>4, <2>5, <2>6, <2>7
<1>3. ASSUME NEW i \in 1..l PROVE c[i] = d[i]
      <2>1. l - i \in 0..l - 1 /\ l - (l - i) = i  BY <1>1
      <2>2. l - i \notin C  BY <1>2
      <2> QED  BY <2>1, <2>2
<1> QED  BY <1>1, <1>3

(* What appending a block does to a chain. *)
LEMMA AppendIs ==
    ASSUME NEW c, c \in Seq(1..MaxBlocks), NEW id \in 1..MaxBlocks
    PROVE  /\ Append(c, id) \in Seq(1..MaxBlocks) /\ Len(Append(c, id)) = Len(c) + 1
           /\ Len(c) \in Nat /\ DOMAIN c = 1..Len(c) /\ DOMAIN Append(c, id) = 1..Len(c) + 1
           /\ \A i \in 1..Len(c) : Append(c, id)[i] = c[i]
           /\ Append(c, id)[Len(c) + 1] = id
OBVIOUS

(* A block made on a chain's tip extends that hash chain. *)
LEMMA ChainGrows ==
    ASSUME NEW m, NEW s, s.chain \in Seq(1..MaxBlocks), HashChainIn(m, s.chain), NEW id \in 1..MaxBlocks,
           id \in DOMAIN m, m[id].height = Height(s), m[id].prev = TipOf(s)
    PROVE  HashChainIn(m, Append(s.chain, id))
<1> DEFINE c == s.chain
           d == Append(c, id)
           l == Len(c)
<1>1. /\ d \in Seq(1..MaxBlocks) /\ l \in Nat /\ DOMAIN c = 1..l /\ DOMAIN d = 1..l + 1
      /\ \A i \in 1..l : d[i] = c[i]
      /\ d[l + 1] = id
      BY AppendIs
<1>2. m[id].height = l /\ m[id].prev = IF l = 0 THEN None ELSE c[l]
      BY <1>1 DEF Height, TipOf, Last
<1> HIDE DEF d
<1>3. ASSUME NEW i \in 1..l + 1
      PROVE  /\ d[i] \in DOMAIN m
             /\ m[d[i]].height = i - 1
             /\ m[d[i]].prev = IF i = 1 THEN None ELSE d[i - 1]
      <2>1. CASE i = l + 1  BY <1>1, <1>2, <2>1
      <2>2. CASE i \in 1..l
            <3>1. d[i] = c[i] /\ (i # 1 => d[i - 1] = c[i - 1])  BY SMTT(30), <1>1, <2>2
            <3> QED  BY <1>1, <2>2, <3>1 DEF HashChainIn
      <2> QED  BY <1>1, <2>1, <2>2
<1> QED  BY <1>1, <1>3 DEF HashChainIn, d

(* A block that names the tip as its predecessor ends a sound chain with it:
   the chain its producer had is the chain of the node that adopts it. *)
LEMMA AdoptedIsSound ==
    ASSUME NEW s, Sound(s.chain), MadeOK, NEW id \in DOMAIN made, Rooted(id),
           made[id].height = Height(s), made[id].prev = TipOf(s)
    PROVE  Sound(Append(s.chain, id))
<1> DEFINE c == s.chain
           l == Len(c)
<1>1. id \in 1..MaxBlocks /\ c \in Seq(1..MaxBlocks)
      BY ConsensusAssumption DEF Sound, HashChain, HashChainIn, MadeOK
<1>2. HashChain(Append(c, id))  BY <1>1, ChainGrows DEF Sound, HashChain
<1>3. PICK e : Sound(e) /\ e # <<>> /\ e[Len(e)] = id  BY DEF Rooted
<1>4. l \in Nat /\ DOMAIN c = 1..l  BY <1>1
<1>5. Len(e) = l + 1 /\ e \in Seq(1..MaxBlocks)
      BY <1>3, <1>4 DEF Sound, HashChain, HashChainIn, Height
<1>6. e = Append(c, id)
      <2>1. Append(c, id) # <<>> /\ Len(Append(c, id)) = l + 1 /\ Append(c, id)[l + 1] = id  BY <1>1, AppendIs
      <2> QED  BY <1>2, <1>3, <1>5, <2>1, TipDetermines DEF Sound
<1> QED  BY <1>3, <1>6

-----------------------------------------------------------------------------
(* What the handlers do to a node's state. *)

(* Epoch settlement (_refresh_epoch_stakes) changes the weights in use and
   nothing of the chain or the jail. *)
LEMMA BoundaryKeeps ==
    ASSUME NEW s \in NodeStates, NEW h \in Nat
    PROVE  /\ AtBoundary(s, h) \in NodeStates
           /\ AtBoundary(s, h).chain = s.chain /\ AtBoundary(s, h).dag = s.dag
           /\ AtBoundary(s, h).stakes = s.stakes /\ AtBoundary(s, h).jailed = s.jailed
           /\ AtBoundary(s, h).missed = s.missed
<1> DEFINE f == [v \in Nodes |-> IF s.jailed[v] > h THEN 0 ELSE MinOf(s.stakes[v], MaxStake)]
<1>1. s.stakes \in [Nodes -> Nat] /\ MaxStake \in Nat  BY ConsensusAssumption DEF NodeStates
<1>2. f \in [Nodes -> 0..MaxStake]  BY <1>1 DEF MinOf
<1>3. RefreshEpochStakes(s, h) = [s EXCEPT !.epoch = f]  BY DEF RefreshEpochStakes
<1> HIDE DEF f
<1> QED  BY <1>2, <1>3 DEF AtBoundary, NodeStates

(* r is s after a penalty of v at height h, or s itself. *)
Slashed(s, r, v, h) ==
    /\ r \in NodeStates
    /\ r.chain = s.chain /\ r.dag = s.dag /\ r.missed = s.missed /\ r.epoch = s.epoch
    /\ \A u \in Nodes :
         /\ r.stakes[u] <= s.stakes[u]
         /\ r.stakes[u] # s.stakes[u] => u = v /\ r.jailed[v] >= h + EpochLen * JailEpochs

(* A penalty (_slash) cuts one validator's stake and jails it, and leaves the
   chain alone. *)
LEMMA SlashKeeps ==
    ASSUME NEW s \in NodeStates, NEW v \in Nodes, NEW pct \in Nat, NEW h \in Nat
    PROVE  Slashed(s, Slash(s, v, pct, h), v, h)
<1> DEFINE r == Slash(s, v, pct, h)
           a == MinOf(s.stakes[v], MaxOf(1, (s.stakes[v] * pct) \div 100))
           j == MaxOf(s.jailed[v], h + EpochLen * JailEpochs)
           S == [s.stakes EXCEPT ![v] = @ - a]
           J == [s.jailed EXCEPT ![v] = j]
<1>1. s.stakes \in [Nodes -> Nat] /\ s.jailed \in [Nodes -> Nat]  BY DEF NodeStates
<1>2. EpochLen * JailEpochs \in Nat  BY ConsensusAssumption
<1>3. s.stakes[v] - a \in Nat /\ s.stakes[v] - a <= s.stakes[v]
      <2> DEFINE q == (s.stakes[v] * pct) \div 100
      <2>1. q \in Int  BY <1>1
      <2> HIDE DEF q
      <2>2. MaxOf(1, q) \in Nat  BY <2>1 DEF MaxOf
      <2>3. a = MinOf(s.stakes[v], MaxOf(1, q))  BY DEF q
      <2> QED  BY <1>1, <2>2, <2>3 DEF MinOf
<1>4. j \in Nat /\ j >= h + EpochLen * JailEpochs  BY <1>1, <1>2 DEF MaxOf
<1> HIDE DEF a, j
<1>5. S \in [Nodes -> Nat] /\ J \in [Nodes -> Nat]  BY <1>1, <1>3, <1>4
<1>6. /\ \A u \in Nodes : S[u] <= s.stakes[u] /\ (u # v => S[u] = s.stakes[u])
      /\ J[v] = j
      BY <1>1, <1>3
<1>7. r = s \/ r = [s EXCEPT !.stakes = S, !.jailed = J]  BY DEF Slash, a, j
<1> HIDE DEF S, J, r
<1>8. CASE r = s
      <2>1. \A u \in Nodes : s.stakes[u] <= s.stakes[u]  BY <1>1
      <2> QED  BY <1>8, <2>1 DEF r, Slashed
<1>9. CASE r = [s EXCEPT !.stakes = S, !.jailed = J]
      <2>1. /\ r.chain = s.chain /\ r.dag = s.dag /\ r.missed = s.missed /\ r.epoch = s.epoch
            /\ r.stakes = S /\ r.jailed = J /\ r \in NodeStates
            BY <1>5, <1>9 DEF NodeStates
      <2> QED  BY <1>4, <1>6, <2>1 DEF r, Slashed
<1> QED  BY <1>7, <1>8, <1>9

(* A missed slot adds one at most to one validator's count. *)
LEMMA CountMissKeeps ==
    ASSUME NEW s \in NodeStates, NEW v \in Nodes, NEW h \in Nat,
           NEW r, r = CountMiss(s, v, h)
    PROVE      /\ r \in NodeStates
               /\ r.chain = s.chain /\ r.dag = s.dag
               /\ \A u \in Nodes : u # v => r.missed[u] <= s.missed[u]
               /\ r.missed[v] <= s.missed[v] + 1
<1>1. InactivityPct \in Nat  BY ConsensusAssumption
<1>2. s.missed \in [Nodes -> 0..MissThreshold - 1] /\ MissThreshold \in Nat \ {0}
      BY ConsensusAssumption DEF NodeStates
<1> DEFINE z == Slash(s, v, InactivityPct, h)
           M == [s.missed EXCEPT ![v] = 0]
           P == [s.missed EXCEPT ![v] = @ + 1]
<1>3. Slashed(s, z, v, h)  BY <1>1, SlashKeeps
<1> HIDE DEF z
<1>4. z \in NodeStates /\ z.chain = s.chain /\ z.dag = s.dag /\ z.missed = s.missed
      BY <1>3 DEF Slashed
<1>5. CASE s.missed[v] + 1 >= MissThreshold
      <2>1. r = [z EXCEPT !.missed = M]  BY <1>4, <1>5 DEF CountMiss, z
      <2>2. M \in [Nodes -> 0..MissThreshold - 1]  BY <1>2
      <2>3. \A u \in Nodes : M[u] <= s.missed[u]  BY <1>2
      <2> HIDE DEF z, M
      <2>4. M[v] <= s.missed[v] + 1  BY <1>2, <2>2, <2>3
      <2>5. r \in NodeStates /\ r.chain = z.chain /\ r.dag = z.dag /\ r.missed = M
            BY <1>4, <2>1, <2>2 DEF NodeStates
      <2> QED  BY <1>4, <2>3, <2>4, <2>5
<1>6. CASE ~ (s.missed[v] + 1 >= MissThreshold)
      <2>1. r = [s EXCEPT !.missed = P]  BY <1>6 DEF CountMiss
      <2>2. P \in [Nodes -> 0..MissThreshold - 1]  BY <1>2, <1>6
      <2>3. (\A u \in Nodes : u # v => P[u] <= s.missed[u]) /\ P[v] <= s.missed[v] + 1  BY <1>2
      <2> HIDE DEF P
      <2> QED  BY <1>2, <2>1, <2>2, <2>3 DEF NodeStates
<1> QED  BY <1>5, <1>6

(* The fields of a signed block. *)
LEMMA Fields ==
    ASSUME MadeOK, NEW id \in DOMAIN made
    PROVE  /\ id \in 1..MaxBlocks /\ made[id] \in Blocks
           /\ made[id].height \in Nat /\ made[id].proposer \in Nodes
           /\ made[id].late \in BOOLEAN /\ made[id].draw \in Nat
           /\ made[id].txids \subseteq Txs
<1>1. made[id] \in Blocks /\ Len(made) \in Nat /\ DOMAIN made = 1..Len(made) /\ Len(made) <= MaxBlocks
      BY DEF MadeOK
<1>2. MaxBlocks \in Nat /\ Draws \subseteq Nat  BY ConsensusAssumption
<1>3. \A b \in Blocks : /\ b.height \in Nat /\ b.proposer \in Nodes /\ b.late \in BOOLEAN
                        /\ b.draw \in Draws /\ b.txids \subseteq Txs
      BY DEF Blocks
<1>4. id \in 1..MaxBlocks  BY <1>1, <1>2
<1>5. made[id].draw \in Nat  BY <1>1, <1>2, <1>3
<1> QED  BY <1>1, <1>3, <1>4, <1>5

(* Judging a block that fits the tip: it is appended, or it leaves nothing
   but a refreshed snapshot.  Only a late block by somebody else adds to a
   miss count. *)
LEMMA VerifyKeeps ==
    ASSUME NEW s \in NodeStates, MadeOK, NEW id \in DOMAIN made, HashChain(s.chain),
           made[id].height = Height(s), made[id].prev = TipOf(s)
    PROVE  LET r == VerifyAndAdopt(s, id)
           IN  /\ r.state \in NodeStates /\ r.took \in BOOLEAN
               /\ r.state.dag = s.dag
               /\ r.took => /\ r.state.chain = Append(s.chain, id)
                            /\ \A v \in Nodes :
                                 \/ r.state.missed[v] <= s.missed[v]
                                 \/ /\ made[id].late /\ made[id].proposer # v
                                    /\ r.state.missed[v] <= s.missed[v] + 1
               /\ ~r.took => r.state.chain = s.chain /\ r.state.stakes = s.stakes
                             /\ r.state.missed = s.missed
<1> DEFINE b == made[id]
           r == AtBoundary(s, b.height)
           elected == ElectProposer(r.epoch, Draw(b.prev))
           grown == [r EXCEPT !.chain = Append(@, id)]
           res == VerifyAndAdopt(s, id)
<1>1. b.height \in Nat /\ b \in Blocks /\ id \in 1..MaxBlocks
      BY Fields
<1>2. /\ r \in NodeStates /\ r.chain = s.chain /\ r.dag = s.dag /\ r.stakes = s.stakes
      /\ r.missed = s.missed
      BY <1>1, BoundaryKeeps
<1>3. s.missed \in [Nodes -> 0..MissThreshold - 1] /\ s.chain \in Seq(1..MaxBlocks)
      BY DEF NodeStates
<1>4. Append(s.chain, id) \in Seq(1..MaxBlocks)  BY <1>1, <1>3, AppendIs
<1>5. /\ grown \in NodeStates /\ grown.chain = Append(s.chain, id) /\ grown.dag = s.dag
      /\ grown.missed = s.missed
      <2> HIDE DEF r
      <2> QED  BY <1>2, <1>4 DEF NodeStates
<1>6. elected \in Nodes \cup {None}
      <2>1. Draw(b.prev) \in Nat
            <3>1. b.prev = None \/ b.prev \in DOMAIN made
                  <4>1. s.chain # <<>> => Len(s.chain) \in DOMAIN s.chain  BY <1>3
                  <4> QED  BY <4>1 DEF TipOf, HashChain, HashChainIn, Last
            <3>2. \A k \in DOMAIN made : made[k].draw \in Nat
                  BY Fields
            <3> QED  BY <3>1, <3>2, ConsensusAssumption DEF Draw
      <2>2. r.epoch \in [Nodes -> Nat]  BY <1>2, ConsensusAssumption DEF NodeStates
      <2> QED  BY <2>1, <2>2, ElectedHasWeight
<1>7. \A v \in Nodes : s.missed[v] \in Nat /\ s.missed[v] <= s.missed[v]  BY <1>3, ConsensusAssumption
<1> HIDE DEF r, grown, elected
<1>8. CASE elected = None
      <2>1. elected # b.proposer  BY <1>8, Fields, ConsensusAssumption DEF Nodes, None
      <2>2. res = [took |-> TRUE, state |-> grown]
            BY <1>8, <2>1 DEF VerifyAndAdopt, elected, grown, r
      <2> QED  BY <1>5, <1>7, <2>2
<1>9. CASE elected # None /\ elected = b.proposer
      <2> DEFINE M == [grown.missed EXCEPT ![elected] = 0]
                 y == [grown EXCEPT !.missed = M]
      <2>1. res = [took |-> TRUE, state |-> y]
            BY <1>9 DEF VerifyAndAdopt, elected, grown, r
      <2>2. M \in [Nodes -> 0..MissThreshold - 1] /\ \A v \in Nodes : M[v] <= s.missed[v]
            BY SMTT(30), <1>3, <1>5, <1>6, <1>9, ConsensusAssumption
      <2> HIDE DEF M
      <2>3. y \in NodeStates /\ y.missed = M /\ y.chain = grown.chain /\ y.dag = grown.dag
            BY <1>5, <2>2 DEF NodeStates
      <2> HIDE DEF y, res
      <2>4. \A v \in Nodes : y.missed[v] <= s.missed[v]  BY <2>2, <2>3
      <2>5. /\ res.took /\ res.took \in BOOLEAN /\ res.state \in NodeStates
            /\ res.state.dag = s.dag /\ res.state.chain = Append(s.chain, id)
            /\ \A v \in Nodes : res.state.missed[v] <= s.missed[v]
            BY <1>5, <2>1, <2>3, <2>4
      <2> QED  BY <2>5 DEF res
<1>10. CASE elected \notin {None, b.proposer}
      <2> DEFINE x == CountMiss(grown, elected, b.height)
      <2>1. \/ res = [took |-> FALSE, state |-> r]
            \/ b.late /\ res = [took |-> TRUE, state |-> x]
            BY <1>10 DEF VerifyAndAdopt, elected, grown, r
      <2>2. elected \in Nodes  BY <1>6, <1>10
      <2>3. /\ x \in NodeStates /\ x.chain = grown.chain /\ x.dag = grown.dag
            /\ \A u \in Nodes : u # elected => x.missed[u] <= grown.missed[u]
            /\ x.missed[elected] <= grown.missed[elected] + 1
            BY ZenonT(30), <1>1, <1>5, <2>2, CountMissKeeps
      <2> HIDE DEF x
      <2>4. CASE res = [took |-> FALSE, state |-> r]  BY <1>2, <2>4
      <2>5. CASE b.late /\ res = [took |-> TRUE, state |-> x]  BY <1>5, <1>10, <2>3, <2>5
      <2> QED  BY <2>1, <2>4, <2>5
<1> QED  BY <1>8, <1>9, <1>10

(* An equivocation penalty needs two blocks of one height and one proposer. *)
LEMMA DetectKeeps ==
    ASSUME NEW s \in NodeStates, MadeOK, HashChain(s.chain),
           NEW id \in DOMAIN made, made[id].height < Height(s)
    PROVE  LET r == DetectEquivocation(s, id)
           IN  /\ r \in NodeStates
               /\ r.chain = s.chain /\ r.dag = s.dag /\ r.missed = s.missed /\ r.epoch = s.epoch
               /\ \A v \in Nodes :
                    /\ r.stakes[v] <= s.stakes[v]
                    /\ r.stakes[v] # s.stakes[v] =>
                         /\ DoubleSigned(v)
                         /\ r.jailed[v] >= Height(s) + EpochLen * JailEpochs
<1> DEFINE held == s.chain[made[id].height + 1]
           z == Slash(s, made[id].proposer, EquivocationPct, Height(s))
           r == DetectEquivocation(s, id)
<1>1. made[id] \in Blocks /\ s.chain \in Seq(1..MaxBlocks)  BY DEF MadeOK, NodeStates
<1>2. made[id].proposer \in Nodes /\ made[id].height \in Nat /\ Height(s) \in Nat
      BY <1>1, Fields DEF Height
<1>3. held \in DOMAIN made /\ made[held].height = made[id].height
      <2>1. made[id].height + 1 \in DOMAIN s.chain  BY <1>1, <1>2 DEF Height
      <2> DEFINE k == made[id].height + 1
      <2> HIDE DEF k
      <2>2. made[s.chain[k]].height = k - 1  BY <2>1 DEF HashChain, HashChainIn, k
      <2> QED  BY <1>2, <2>1, <2>2 DEF HashChain, HashChainIn, k
<1>4. CASE made[held].proposer = made[id].proposer /\ held # id
      <2>1. r = z  BY <1>4 DEF DetectEquivocation
      <2>2. EquivocationPct \in Nat  BY ConsensusAssumption
      <2>3. Slashed(s, z, made[id].proposer, Height(s))  BY <1>2, <2>2, SlashKeeps
      <2>4. DoubleSigned(made[id].proposer)  BY <1>3, <1>4 DEF DoubleSigned
      <2> HIDE DEF z, r
      <2> QED  BY <2>1, <2>3, <2>4 DEF r, Slashed
<1>5. CASE ~ (made[held].proposer = made[id].proposer /\ held # id)
      <2>1. r = s  BY <1>5 DEF DetectEquivocation
      <2>2. \A v \in Nodes : s.stakes[v] <= s.stakes[v]  BY DEF NodeStates
      <2> QED  BY <2>1, <2>2
<1> QED  BY <1>4, <1>5


(* The late blocks of others that a chain gains with one more block. *)
LEMMA LateGrows ==
    ASSUME NEW m, NEW c, c \in Seq(1..MaxBlocks), NEW id \in 1..MaxBlocks, NEW v
    PROVE  /\ Cardinality(LateIn(m, c, v)) \in Nat
           /\ Cardinality(LateIn(m, Append(c, id), v)) \in Nat
           /\ Cardinality(LateIn(m, c, v)) <= Cardinality(LateIn(m, Append(c, id), v))
           /\ m[id].late /\ m[id].proposer # v =>
                Cardinality(LateIn(m, Append(c, id), v)) = Cardinality(LateIn(m, c, v)) + 1
<1> DEFINE d == Append(c, id)
           l == Len(c)
           A == LateIn(m, c, v)
           B == LateIn(m, d, v)
<1>1. /\ l \in Nat /\ DOMAIN c = 1..l /\ DOMAIN d = 1..l + 1
      /\ \A i \in 1..l : d[i] = c[i]
      /\ d[l + 1] = id
      BY AppendIs
<1> HIDE DEF d
<1>2. IsFiniteSet(A) /\ IsFiniteSet(B)
      <2>1. IsFiniteSet(1..l) /\ IsFiniteSet(1..l + 1)  BY <1>1, FS_Interval
      <2>2. A \subseteq 1..l /\ B \subseteq 1..l + 1  BY <1>1 DEF LateIn
      <2> QED  BY <2>1, <2>2, FS_Subset
<1>3. A \subseteq B /\ l + 1 \notin A  BY <1>1 DEF LateIn
<1>4. m[id].late /\ m[id].proposer # v => B = A \cup {l + 1}  BY <1>1 DEF LateIn
<1> HIDE DEF A, B
<1>5. Cardinality(A) \in Nat /\ Cardinality(B) \in Nat /\ Cardinality(A) <= Cardinality(B)
      BY <1>2, <1>3, FS_CardinalityType, FS_Subset
<1>6. m[id].late /\ m[id].proposer # v => Cardinality(B) = Cardinality(A) + 1
      BY <1>2, <1>3, <1>4, FS_AddElement
<1> QED  BY <1>5, <1>6 DEF A, B, d

(* What is said of chains and states stays true while blocks are made. *)
LEMMA StaysGood ==
    ASSUME \A k \in DOMAIN made : k \in DOMAIN made' /\ made'[k] = made[k]
    PROVE  /\ \A s : GoodState(s) => GoodState(s)'
           /\ \A k : Rooted(k) => Rooted(k)'
<1>1. ASSUME NEW c, HashChain(c)
      PROVE  /\ HashChain(c)'
             /\ SealsOnce(c) => SealsOnce(c)'
             /\ \A v : LateByOthers(c, v)' = LateByOthers(c, v)
      <2>1. \A i \in DOMAIN c : c[i] \in DOMAIN made /\ c[i] \in DOMAIN made' /\ made'[c[i]] = made[c[i]]
            BY <1>1 DEF HashChain, HashChainIn
      <2>2. HashChain(c)'  BY <1>1, <2>1 DEF HashChain, HashChainIn
      <2>3. SealsOnce(c) => SealsOnce(c)'  BY <2>1 DEF SealsOnce
      <2>4. \A v : LateByOthers(c, v)' = LateByOthers(c, v)  BY <2>1 DEF LateByOthers, LateIn
      <2> QED  BY <2>2, <2>3, <2>4
<1>2. ASSUME NEW s, GoodState(s) PROVE GoodState(s)'
      BY <1>1, <1>2 DEF GoodState, Sound, Witnessed
<1>3. ASSUME NEW k, Rooted(k) PROVE Rooted(k)'
      BY <1>1, <1>3 DEF Rooted, Sound
<1> QED  BY <1>2, <1>3

(* A block reaches a node: its state stays good, and when the chain does not
   change, only a proven equivocation costs stake. *)
LEMMA AdoptKeeps ==
    ASSUME NEW s, GoodState(s), MadeOK, NEW id \in DOMAIN made, Rooted(id)
    PROVE  LET r == AdoptBlock(s, id)
           IN  /\ r.took \in BOOLEAN /\ r.state \in NodeStates /\ GoodState(r.state)
               /\ r.state.chain = s.chain =>
                    \A v \in Nodes : r.state.stakes[v] < s.stakes[v] =>
                      /\ DoubleSigned(v)
                      /\ r.state.jailed[v] >= Height(s) + EpochLen * JailEpochs
<1> DEFINE res == AdoptBlock(s, id)
           t == res.state
<1>1. s \in NodeStates /\ Sound(s.chain) /\ HashChain(s.chain) /\ Witnessed(s)  BY DEF GoodState, Sound
<1>2. /\ made[id].height \in Nat /\ Height(s) \in Nat /\ id \in 1..MaxBlocks
      /\ s.chain \in Seq(1..MaxBlocks)
      /\ s.stakes \in [Nodes -> Nat] /\ s.missed \in [Nodes -> 0..MissThreshold - 1]
      BY <1>1, Fields DEF NodeStates, Height
<1>3. \A v \in Nodes : ~ (s.stakes[v] < s.stakes[v])  BY <1>2
<1>4. CASE made[id].height < Height(s)
      <2> DEFINE y == DetectEquivocation(s, id)
      <2>1. res = [took |-> FALSE, state |-> y]  BY <1>2, <1>4 DEF AdoptBlock
      <2>2. /\ y \in NodeStates
            /\ y.chain = s.chain /\ y.missed = s.missed
            /\ \A v \in Nodes :
                 /\ y.stakes[v] <= s.stakes[v]
                 /\ y.stakes[v] # s.stakes[v] =>
                      /\ DoubleSigned(v)
                      /\ y.jailed[v] >= Height(s) + EpochLen * JailEpochs
            BY <1>1, <1>4, DetectKeeps
      <2> HIDE DEF y
      <2>3. GoodState(y)  BY <1>1, <2>2 DEF GoodState, Witnessed
      <2>4. y.stakes \in [Nodes -> Nat]  BY <2>2 DEF NodeStates
      <2>5. \A v \in Nodes : y.stakes[v] < s.stakes[v] => y.stakes[v] # s.stakes[v]  BY <1>2, <2>4
      <2> HIDE DEF res
      <2> QED  BY <2>1, <2>2, <2>3, <2>5 DEF res
<1>5. CASE made[id].height = Height(s) /\ made[id].prev = TipOf(s)
      <2> DEFINE y == VerifyAndAdopt(s, id)
      <2>1. res = y  BY <1>2, <1>5 DEF AdoptBlock
      <2>2. /\ y.state \in NodeStates /\ y.took \in BOOLEAN
            /\ y.took => /\ y.state.chain = Append(s.chain, id)
                         /\ \A v \in Nodes :
                              \/ y.state.missed[v] <= s.missed[v]
                              \/ /\ made[id].late /\ made[id].proposer # v
                                 /\ y.state.missed[v] <= s.missed[v] + 1
            /\ ~y.took => y.state.chain = s.chain /\ y.state.stakes = s.stakes
                          /\ y.state.missed = s.missed
            BY <1>1, <1>5, VerifyKeeps
      <2> HIDE DEF y
      <2>3. CASE y.took
            <3>1. Sound(y.state.chain)  BY <1>1, <1>5, <2>2, <2>3, AdoptedIsSound
            <3>2. y.state.missed \in [Nodes -> 0..MissThreshold - 1]  BY <2>2 DEF NodeStates
            <3>3. ASSUME NEW v \in Nodes
                  PROVE  y.state.missed[v] <= Cardinality(LateByOthers(y.state.chain, v))
                  <4> DEFINE a == Cardinality(LateIn(made, s.chain, v))
                             b == Cardinality(LateIn(made, Append(s.chain, id), v))
                  <4>1. /\ a \in Nat /\ b \in Nat /\ a <= b
                        /\ made[id].late /\ made[id].proposer # v => b = a + 1
                        BY <1>2, LateGrows
                  <4>2. s.missed[v] <= a  BY <1>1 DEF Witnessed, LateByOthers
                  <4> HIDE DEF a, b
                  <4>3. s.missed[v] \in Nat /\ y.state.missed[v] \in Nat  BY SMTT(30), <1>2, <3>2, ConsensusAssumption
                  <4>4. y.state.missed[v] <= b  BY <2>2, <2>3, <4>1, <4>2, <4>3
                  <4> QED  BY <2>2, <2>3, <4>4 DEF b, LateByOthers
            <3>4. y.state.chain # s.chain  BY <1>2, <2>2, <2>3, AppendIs
            <3>5. GoodState(y.state)  BY <2>2, <3>1, <3>3 DEF GoodState, Witnessed
            <3> QED  BY <2>1, <2>2, <3>4, <3>5
      <2>4. CASE ~y.took
            <3>1. GoodState(y.state)  BY <1>1, <2>2, <2>4 DEF GoodState, Witnessed
            <3> QED  BY <1>3, <2>1, <2>2, <2>4, <3>1
      <2> QED  BY <2>3, <2>4
<1>6. CASE ~ (made[id].height < Height(s)) /\ ~ (made[id].height = Height(s) /\ made[id].prev = TipOf(s))
      <2>1. res = [took |-> FALSE, state |-> s]  BY <1>2, <1>6 DEF AdoptBlock
      <2> QED  BY <1>1, <1>3, <2>1
<1> QED  BY <1>4, <1>5, <1>6

-----------------------------------------------------------------------------
(* Every chain is empty at the start. *)
LEMMA InitCons == Init => ConsInv
<1> SUFFICES ASSUME Init PROVE ConsInv  OBVIOUS
<1> USE DEF Init
<1>1. made = <<>> /\ DOMAIN made = {} /\ Len(made) = 0 /\ <<>> \in Seq(1..MaxBlocks) /\ DOMAIN <<>> = {}
      OBVIOUS
<1>2. /\ 0 \in 0..MaxStake /\ 0 \in 0..MissThreshold - 1 /\ 0 \in Nat /\ MaxBlocks \in Nat /\ MaxCrashes \in Nat
      /\ GenesisStake \in [Nodes -> Nat]
      BY ConsensusAssumption
<1>3. Blank \in NodeStates /\ Blank.chain = <<>> /\ \A v \in Nodes : Blank.missed[v] = 0
      BY <1>1, <1>2 DEF Blank, NodeStates
<1>4. HashChain(<<>>) /\ SealsOnce(<<>>) /\ \A v : LateByOthers(<<>>, v) = {}
      BY <1>1 DEF HashChain, HashChainIn, SealsOnce, LateByOthers, LateIn
<1>5. GoodState(Blank)
      BY <1>3, <1>4, FS_EmptySet DEF GoodState, Sound, Witnessed
<1> QED  BY <1>1, <1>2, <1>3, <1>5 DEF ConsInv, MadeOK

(* The block a node produces extends its own chain by what it has not sealed. *)
LEMMA ProducedIsGood ==
    ASSUME NEW n \in Nodes, ConsInv, ProduceBlock(n)
    PROVE  /\ \A k \in DOMAIN made : k \in DOMAIN made' /\ made'[k] = made[k]
           /\ MadeOK' /\ Len(made') = Len(made) + 1 /\ DOMAIN made' = 1..Len(made) + 1
           /\ Rooted(Len(made))'
           /\ \E t : /\ mem' = [mem EXCEPT ![n] = t]
                     /\ t \in NodeStates /\ GoodState(t)'
<1> DEFINE h == Height(mem[n])
           s == AtBoundary(mem[n], h)
           c == mem[n].chain
           id == Len(made) + 1
           t == [s EXCEPT !.chain = Append(@, id)]
           d == Append(c, id)
<1>1. GoodState(mem[n]) /\ mem[n] \in NodeStates /\ MadeOK  BY DEF ConsInv
<1>2. c \in Seq(1..MaxBlocks) /\ h \in Nat /\ h = Len(c)  BY <1>1 DEF NodeStates, Height
<1>3. /\ s \in NodeStates /\ s.chain = c /\ s.dag = mem[n].dag /\ s.missed = mem[n].missed
      BY <1>1, <1>2, BoundaryKeeps
<1> HIDE DEF s
<1>4. PICK b : /\ \E x \in Draws :
                     b = [height |-> Height(s), prev |-> TipOf(s), proposer |-> n,
                          txids |-> Pending(s), late |-> TimedOut(TipOf(s)), draw |-> x]
               /\ made' = Append(made, b) /\ Len(made) < MaxBlocks
      BY DEF ProduceBlock, s
<1>5. mem' = [mem EXCEPT ![n] = t]  BY DEF ProduceBlock, s
<1>6. Height(s) = Len(c) /\ TipOf(s) = TipOf(mem[n])  BY <1>3 DEF Height, TipOf
<1>7. /\ b.height = Len(c) /\ b.prev = TipOf(mem[n]) /\ b.proposer = n
      /\ b.txids = Pending(s)
      BY <1>4, <1>6
<1>8. Len(made) \in Nat /\ DOMAIN made = 1..Len(made) /\ id \in 1..MaxBlocks
      BY <1>1, <1>4, ConsensusAssumption DEF MadeOK
<1>9. TipOf(mem[n]) = None \/ TipOf(mem[n]) \in DOMAIN made
      <2>1. c # <<>> => Len(c) \in DOMAIN c  BY <1>2
      <2> QED  BY <1>1, <2>1 DEF GoodState, Sound, HashChain, HashChainIn, TipOf, Last
<1>10. b \in Blocks
      <2>1. TipOf(s) \in 0..MaxBlocks  BY <1>1, <1>6, <1>8, <1>9, ConsensusAssumption DEF MadeOK, None
      <2>2. Pending(s) \subseteq Txs  BY <1>1, <1>3 DEF Pending, NodeStates
      <2>3. Height(s) \in Nat /\ TimedOut(TipOf(s)) \in BOOLEAN  BY <1>2, <1>6 DEF TimedOut
      <2> QED  BY <1>4, <2>1, <2>2, <2>3 DEF Blocks
<1>11. /\ MadeOK' /\ Len(made') = Len(made) + 1 /\ DOMAIN made' = 1..Len(made) + 1
       /\ made'[id] = b
       /\ \A k \in DOMAIN made : k \in DOMAIN made' /\ made'[k] = made[k]
      BY <1>1, <1>4, <1>8, <1>10 DEF MadeOK
<1>12. PICK e : e = d  OBVIOUS
<1>13. PICK u : u = t  OBVIOUS
<1>14. PICK f : f = c  OBVIOUS
<1>15. /\ e \in Seq(1..MaxBlocks) /\ Len(e) = Len(c) + 1 /\ DOMAIN e = 1..Len(c) + 1 /\ DOMAIN c = 1..Len(c)
       /\ \A i \in 1..Len(c) : e[i] = f[i]
       /\ e[Len(c) + 1] = id /\ e = Append(f, id) /\ Len(c) \in Nat
       BY <1>2, <1>8, <1>12, <1>14, AppendIs
<1>16. u.chain = e /\ u.missed = mem[n].missed /\ u \in NodeStates
       BY <1>3, <1>12, <1>13, <1>15 DEF NodeStates
<1>17. HashChain(f)'
       BY <1>1, <1>11, <1>14 DEF GoodState, Sound, HashChain, HashChainIn
<1>18. HashChain(e)'
       <2>1. made'[id].height = Len(f) /\ made'[id].prev = TipOf(mem[n]) /\ id \in DOMAIN made'
             BY <1>7, <1>8, <1>11, <1>14
       <2>2. PICK g : g = mem[n]  OBVIOUS
       <2>3. PICK i : i = id  OBVIOUS
       <2>4. HashChainIn(made', g.chain) /\ Height(g) = Len(f) /\ made'[i].prev = TipOf(g)
             BY <1>14, <1>17, <2>1, <2>2, <2>3 DEF HashChain, Height
       <2>5. HashChainIn(made', Append(g.chain, i))
             BY <1>2, <1>8, <2>1, <2>2, <2>3, <2>4, ChainGrows DEF HashChain
       <2> QED  BY <1>14, <1>15, <2>2, <2>3, <2>5 DEF HashChain
<1>19. SealsOnce(e)'
       <2>1. \A i \in DOMAIN c : f[i] \in DOMAIN made /\ made'[f[i]] = made[f[i]]
             BY <1>1, <1>11, <1>14 DEF GoodState, Sound, HashChain, HashChainIn
       <2>2. \A i \in DOMAIN c : made[f[i]].txids \cap b.txids = {}
             <3>1. b.txids \cap SealedTxs(s) = {}  BY <1>7 DEF Pending
             <3>2. \A i \in DOMAIN c : made[c[i]].txids \subseteq SealedTxs(s)  BY <1>3 DEF SealedTxs
             <3> QED  BY <1>14, <3>1, <3>2
       <2>3. \A i, j \in DOMAIN c : i < j => made[f[i]].txids \cap made[f[j]].txids = {}
             BY <1>1, <1>14 DEF GoodState, Sound, SealsOnce
       <2>4. ASSUME NEW i \in 1..Len(c) + 1, NEW j \in 1..Len(c) + 1, i < j
             PROVE  made'[e[i]].txids \cap made'[e[j]].txids = {}
             <3>1. i \in 1..Len(c)  BY <1>15, <2>4
             <3>2. CASE j = Len(c) + 1
                   <4>1. i \in DOMAIN c /\ e[i] = f[i] /\ e[j] = id  BY <1>15, <3>1, <3>2
                   <4>2. made'[f[i]] = made[f[i]] /\ made[f[i]].txids \cap b.txids = {}  BY <2>1, <2>2, <4>1
                   <4>3. made'[id] = b  BY <1>11
                   <4> QED  BY <4>1, <4>2, <4>3
             <3>3. CASE j \in 1..Len(c)  BY ZenonT(30), <1>15, <2>1, <2>3, <2>4, <3>1, <3>3
             <3>4. j = Len(c) + 1 \/ j \in 1..Len(c)  BY <1>15
             <3> QED  BY <3>2, <3>3, <3>4
       <2> QED  BY <1>15, <2>4 DEF SealsOnce
<1>20. Witnessed(u)'
       <2> SUFFICES ASSUME NEW v \in Nodes PROVE u.missed[v] <= Cardinality(LateIn(made', e, v))
             BY <1>16 DEF Witnessed, LateByOthers
       <2>1. LateIn(made', c, v) = LateIn(made, c, v)
             BY SMTT(30), <1>1, <1>11 DEF GoodState, Sound, HashChain, HashChainIn, LateIn
       <2>2. u.missed[v] <= Cardinality(LateIn(made, c, v))
             BY <1>1, <1>16 DEF GoodState, Witnessed, LateByOthers
       <2>3. /\ Cardinality(LateIn(made', c, v)) <= Cardinality(LateIn(made', e, v))
             /\ Cardinality(LateIn(made', c, v)) \in Nat /\ Cardinality(LateIn(made', e, v)) \in Nat
             BY <1>2, <1>8, <1>14, <1>15, LateGrows
       <2>4. u.missed[v] \in Nat  BY SMTT(30), <1>16, ConsensusAssumption DEF NodeStates
       <2> QED  BY <2>1, <2>2, <2>3, <2>4
<1>21. GoodState(u)'  BY <1>16, <1>18, <1>19, <1>20 DEF GoodState, Sound
<1>22. Rooted(Len(made))'
       <2>1. e # <<>> /\ e[Len(e)] = Len(made')  BY <1>11, <1>15
       <2> QED  BY <1>18, <1>19, <2>1 DEF Rooted, Sound
<1> QED  BY <1>5, <1>11, <1>13, <1>16, <1>21, <1>22


(* ConsInv is inductive: proposals and receipts append one block, the rest
   leaves chains alone. *)
LEMMA NextCons == ConsInv /\ [Next]_vars => ConsInv'
<1> SUFFICES ASSUME ConsInv, [Next]_vars PROVE ConsInv'  OBVIOUS
<1>1. /\ MadeOK /\ mem \in [Nodes -> NodeStates] /\ disk \in [Nodes -> NodeStates]
      /\ \A n \in Nodes : GoodState(mem[n]) /\ GoodState(disk[n])
      /\ \A k \in DOMAIN made : Rooted(k)
      /\ net \subseteq [to : Nodes, from : Nodes, id : DOMAIN made]
      /\ up \subseteq Nodes /\ expired \in 0..Len(made) /\ crashes \in 0..MaxCrashes
      BY DEF ConsInv
\* what a step that signs no block has to show
<1>2. ASSUME UNCHANGED <<made>>, expired' \in 0..Len(made), up' \subseteq Nodes, crashes' \in 0..MaxCrashes,
             net' \subseteq [to : Nodes, from : Nodes, id : DOMAIN made],
             \A n \in Nodes : mem'[n] \in NodeStates /\ disk'[n] \in NodeStates,
             \A n \in Nodes : GoodState(mem'[n]) /\ GoodState(disk'[n]),
             mem' = [n \in Nodes |-> mem'[n]], disk' = [n \in Nodes |-> disk'[n]]
      PROVE  ConsInv'
      <2>1. \A s : GoodState(s) => GoodState(s)'  BY <1>2, StaysGood
      <2>2. \A k : Rooted(k) => Rooted(k)'  BY <1>2, StaysGood
      <2>3. MadeOK'  BY <1>1, <1>2 DEF MadeOK
      <2>4. ASSUME NEW n \in Nodes PROVE GoodState(mem[n])' /\ GoodState(disk[n])'
            <3>1. PICK a : a = mem'[n]  OBVIOUS
            <3>2. PICK b : b = disk'[n]  OBVIOUS
            <3>3. GoodState(a)' /\ GoodState(b)'  BY <1>2, <2>1, <3>1, <3>2
            <3> QED  BY <3>1, <3>2, <3>3 DEF GoodState, Sound, HashChain, SealsOnce, Witnessed, LateByOthers
      <2>5. mem' \in [Nodes -> NodeStates] /\ disk' \in [Nodes -> NodeStates]  BY <1>2
      <2> QED  BY <1>1, <1>2, <2>2, <2>3, <2>4, <2>5 DEF ConsInv
<1>3. ASSUME UNCHANGED <<made, expired, disk, up, crashes>>,
             net' \subseteq [to : Nodes, from : Nodes, id : DOMAIN made],
             NEW n \in Nodes, NEW s \in NodeStates, GoodState(s), mem' = [mem EXCEPT ![n] = s]
      PROVE  ConsInv'
      <2>1. \A k \in Nodes : mem'[k] = IF k = n THEN s ELSE mem[k]  BY <1>1, <1>3
      <2>2. mem' = [k \in Nodes |-> mem'[k]] /\ disk' = [k \in Nodes |-> disk'[k]]  BY <1>1, <1>3
      <2>3. \A k \in Nodes : GoodState(mem'[k]) /\ mem'[k] \in NodeStates
            BY <1>1, <1>3, <2>1
      <2>4. \A k \in Nodes : GoodState(disk'[k]) /\ disk'[k] \in NodeStates  BY <1>1, <1>3
      <2> QED  BY <1>1, <1>2, <1>3, <2>2, <2>3, <2>4
<1>4. ASSUME NEW n \in Nodes, NEW t \in Txs, ReceiveTx(n, t) PROVE ConsInv'
      <2> DEFINE a == StakeBy[t].addr
                 S == [mem[n].stakes EXCEPT ![a] = MaxOf(0, @ + StakeBy[t].delta)]
                 s == [mem[n] EXCEPT !.dag = @ \cup {t}, !.stakes = S]
      <2>1. mem[n] \in NodeStates /\ mem[n].stakes \in [Nodes -> Nat]  BY <1>1 DEF NodeStates
      <2>2. mem' = [mem EXCEPT ![n] = s]  BY <1>1, <1>4, <2>1 DEF ReceiveTx, NodeStates
      <2>3. a \in Nodes /\ StakeBy[t].delta \in Int
            <3>1. StakeBy \in [Txs -> [addr : Nodes, delta : Int]]  BY ConsensusAssumption
            <3> QED  BY <3>1
      <2>4. MaxOf(0, mem[n].stakes[a] + StakeBy[t].delta) \in Nat
            <3> DEFINE x == mem[n].stakes[a] + StakeBy[t].delta
            <3>1. x \in Int  BY <2>1, <2>3
            <3> HIDE DEF x
            <3>2. MaxOf(0, x) \in Nat  BY <3>1 DEF MaxOf
            <3> QED  BY <3>2 DEF x
      <2>5. S \in [Nodes -> Nat]  BY <2>1, <2>3, <2>4
      <2> HIDE DEF S
      <2>6. s \in NodeStates /\ s.chain = mem[n].chain /\ s.missed = mem[n].missed
            BY <2>1, <2>5 DEF NodeStates
      <2> HIDE DEF s
      <2>7. GoodState(s)  BY <1>1, <2>6 DEF GoodState, Witnessed
      <2> QED  BY <1>1, <1>3, <1>4, <2>2, <2>6, <2>7 DEF ReceiveTx
<1>5. ASSUME NEW n \in Nodes, AwaitTurn(n) PROVE ConsInv'
      <2> DEFINE s == AtBoundary(mem[n], Height(mem[n]))
      <2>1. mem' = [mem EXCEPT ![n] = s]  BY <1>5 DEF AwaitTurn
      <2>2. Height(mem[n]) \in Nat  BY <1>1 DEF Height, NodeStates
      <2>3. s \in NodeStates /\ s.chain = mem[n].chain /\ s.missed = mem[n].missed
            BY <1>1, <2>2, BoundaryKeeps
      <2> HIDE DEF s
      <2>4. GoodState(s)  BY <1>1, <2>3 DEF GoodState, Witnessed
      <2> QED  BY <1>1, <1>3, <1>5, <2>1, <2>3, <2>4 DEF AwaitTurn
<1>6. ASSUME NEW n \in Nodes, ProduceBlock(n) PROVE ConsInv'
      <2>1. /\ \A k \in DOMAIN made : k \in DOMAIN made' /\ made'[k] = made[k]
            /\ MadeOK' /\ Len(made') = Len(made) + 1 /\ DOMAIN made' = 1..Len(made) + 1
            /\ Rooted(Len(made))'
            BY <1>6, ProducedIsGood
      <2>2. PICK t : mem' = [mem EXCEPT ![n] = t] /\ t \in NodeStates /\ GoodState(t)'
            BY <1>6, ProducedIsGood
      <2>3. \A s : GoodState(s) => GoodState(s)'  BY <2>1, StaysGood
      <2>4. \A k : Rooted(k) => Rooted(k)'  BY <2>1, StaysGood
      <2>5. UNCHANGED <<expired, disk, up, crashes>> /\ net' = net \cup Gossip(n, Len(made) + 1)
            BY <1>6 DEF ProduceBlock
      <2>6. Len(made) \in Nat /\ DOMAIN made = 1..Len(made)  BY <1>1 DEF MadeOK
      <2>7. net' \subseteq [to : Nodes, from : Nodes, id : DOMAIN made']
            <3>1. Gossip(n, Len(made) + 1) \subseteq [to : Nodes, from : Nodes, id : DOMAIN made']
                  BY <1>1, <2>1, <2>6 DEF Gossip
            <3>2. net \subseteq [to : Nodes, from : Nodes, id : DOMAIN made']
                  <4>1. DOMAIN made \subseteq DOMAIN made'  BY <2>1
                  <4> QED  BY <1>1, <4>1
            <3> QED  BY <2>5, <3>1, <3>2
      <2>8. \A k \in Nodes : mem'[k] = IF k = n THEN t ELSE mem[k]  BY <1>1, <2>2
      <2>9. ASSUME NEW k \in Nodes PROVE GoodState(mem[k])' /\ GoodState(disk[k])'
            <3>1. PICK a : a = mem'[k]  OBVIOUS
            <3>2. PICK b : b = disk'[k]  OBVIOUS
            <3>3. GoodState(a)'  BY <1>1, <2>2, <2>3, <2>8, <3>1
            <3>4. GoodState(b)'  BY <1>1, <2>3, <2>5, <3>2
            <3> QED  BY <3>1, <3>2, <3>3, <3>4
                DEF GoodState, Sound, HashChain, SealsOnce, Witnessed, LateByOthers
      <2>10. \A k \in DOMAIN made' : Rooted(k)'
            <3>1. \A k \in DOMAIN made : Rooted(k)'  BY <1>1, <2>4
            <3>2. \A k \in DOMAIN made' : k \in DOMAIN made \/ k = Len(made')  BY <2>1, <2>6
            <3>3. PICK l : l = Len(made')  OBVIOUS
            <3>4. Rooted(l)'  BY <2>1, <3>3 DEF Rooted
            <3> QED  BY <3>1, <3>2, <3>3, <3>4
      <2>11. mem' \in [Nodes -> NodeStates] /\ disk' \in [Nodes -> NodeStates]
            <3>1. \A k \in Nodes : mem'[k] \in NodeStates  BY <1>1, <2>2, <2>8
            <3>2. mem' = [k \in Nodes |-> mem'[k]]  BY <1>1, <2>2
            <3> QED  BY <1>1, <2>5, <3>1, <3>2
      <2>12. expired' \in 0..Len(made')  BY <1>1, <2>1, <2>5, <2>6
      <2> QED  BY <1>1, <2>1, <2>5, <2>7, <2>9, <2>10, <2>11, <2>12 DEF ConsInv
<1>7. ASSUME NEW m \in net, DeliverBlock(m) PROVE ConsInv'
      <2> DEFINE r == AdoptBlock(mem[m.to], m.id)
                 s == r.state
      <2>1. m.to \in Nodes /\ m.id \in DOMAIN made  BY <1>1
      <2>2. r.took \in BOOLEAN /\ s \in NodeStates /\ GoodState(s)  BY <1>1, <2>1, AdoptKeeps
      <2>3. /\ mem' = [mem EXCEPT ![m.to] = s]
            /\ net' = (net \ {m}) \cup IF r.took THEN Gossip(m.to, m.id) ELSE {}
            /\ UNCHANGED <<made, expired, disk, up, crashes>>
            BY <1>7 DEF DeliverBlock
      <2> HIDE DEF r
      <2>4. net' \subseteq [to : Nodes, from : Nodes, id : DOMAIN made]
            <3>1. Gossip(m.to, m.id) \subseteq [to : Nodes, from : Nodes, id : DOMAIN made]
                  BY <1>1, <2>1 DEF Gossip
            <3> QED  BY <1>1, <2>3, <3>1
      <2> QED  BY <1>3, <2>1, <2>2, <2>3, <2>4
<1>8. ASSUME Elapse PROVE ConsInv'
      <2>1. mem = [n \in Nodes |-> mem[n]] /\ disk = [n \in Nodes |-> disk[n]]  BY <1>1
      <2>2. expired' \in 0..Len(made)  BY <1>1, <1>8 DEF Elapse, MadeOK
      <2> QED  BY <1>1, <1>2, <1>8, <2>1, <2>2 DEF Elapse
<1>9. ASSUME NEW n \in Nodes, Autosave(n) PROVE ConsInv'
      <2>1. mem = [k \in Nodes |-> mem[k]] /\ disk' = [k \in Nodes |-> disk'[k]]
            BY <1>1, <1>9 DEF Autosave
      <2>2. \A k \in Nodes : disk'[k] = IF k = n THEN mem[k] ELSE disk[k]
            BY <1>1, <1>9 DEF Autosave
      <2>3. \A k \in Nodes : GoodState(disk'[k]) /\ disk'[k] \in NodeStates  BY <1>1, <2>2
      <2> QED  BY <1>1, <1>2, <1>9, <2>1, <2>3 DEF Autosave
<1>10. ASSUME NEW n \in Nodes, Crash(n) PROVE ConsInv'
      <2>1. mem' = [k \in Nodes |-> mem'[k]] /\ disk = [k \in Nodes |-> disk[k]]
            BY <1>1, <1>10 DEF Crash
      <2>2. \A k \in Nodes : mem'[k] = IF k = n THEN disk[k] ELSE mem[k]
            BY <1>1, <1>10 DEF Crash
      <2>3. \A k \in Nodes : GoodState(mem'[k]) /\ mem'[k] \in NodeStates  BY <1>1, <2>2
      <2>4. crashes' \in 0..MaxCrashes  BY <1>1, <1>10, ConsensusAssumption DEF Crash
      <2>5. net' \subseteq [to : Nodes, from : Nodes, id : DOMAIN made]  BY <1>1, <1>10 DEF Crash
      <2>6. up' \subseteq Nodes  BY <1>1, <1>10 DEF Crash
      <2> QED  BY <1>1, <1>2, <1>10, <2>1, <2>3, <2>4, <2>5, <2>6 DEF Crash
<1>11. ASSUME NEW n \in Nodes, Restart(n) PROVE ConsInv'
      <2>1. mem = [k \in Nodes |-> mem[k]] /\ disk = [k \in Nodes |-> disk[k]]  BY <1>1
      <2>2. up' \subseteq Nodes  BY <1>1, <1>11 DEF Restart
      <2> QED  BY <1>1, <1>2, <1>11, <2>1, <2>2 DEF Restart
<1>12. ASSUME UNCHANGED vars PROVE ConsInv'
      <2>1. mem = [k \in Nodes |-> mem[k]] /\ disk = [k \in Nodes |-> disk[k]]  BY <1>1
      <2> QED  BY <1>1, <1>2, <1>12, <2>1 DEF vars
<1> QED  BY <1>4, <1>5, <1>6, <1>7, <1>8, <1>9, <1>10, <1>11, <1>12 DEF Next

(* The inductive invariant: every chain is a hash chain without a transaction
   sealed twice, every count of missed slots is covered by late blocks of
   others on the chain, and every block ever signed ends such a chain. *)
THEOREM ConsInvHolds == Spec => []ConsInv
BY InitCons, NextCons, PTL DEF Spec

(* It implies the two invariants the runs check. *)
LEMMA ConsInvImplies == ConsInv => ChainsAreSound /\ MissesAreWitnessed
<1> SUFFICES ASSUME ConsInv PROVE ChainsAreSound /\ MissesAreWitnessed  OBVIOUS
<1>1. \A n \in Nodes : ChainOf(mem[n]) /\ ChainOf(disk[n])
      BY DEF ConsInv, GoodState, Sound, HashChain, HashChainIn, ChainOf
<1>2. TypeOK  BY <1>1 DEF ConsInv, MadeOK, TypeOK
<1>3. SealedOnce  BY DEF ConsInv, GoodState, Sound, SealsOnce, SealedOnce
<1>4. MissesAreWitnessed
      BY DEF ConsInv, GoodState, Witnessed, MissesAreWitnessed, LateByOthers, LateIn
<1> QED  BY <1>2, <1>3, <1>4 DEF ChainsAreSound

(* No chain, in memory or on disk, of any node contains a break of hashes or
   heights or a transaction twice, however proposals, fill-ins, late blocks,
   restarts and lost messages interleave (_produce_block_pos, _verify_pos_block,
   adopt_block, restore). *)
THEOREM ChainsAreSoundHold == Spec => []ChainsAreSound
BY ConsInvHolds, ConsInvImplies, PTL

(* No validator is counted more missed slots than there are late blocks by
   others on the counting node's chain: adopt_block counts a miss once per
   block, also over a crash. *)
THEOREM MissesAreWitnessedHolds == Spec => []MissesAreWitnessed
BY ConsInvHolds, ConsInvImplies, PTL

-----------------------------------------------------------------------------
(* A release from jail is at an epoch boundary less than the jail term away. *)
LEMMA BoundaryIsNear ==
    ASSUME NEW h \in Nat
    PROVE  NextBoundary(h) \in Nat /\ NextBoundary(h) < h + EpochLen * JailEpochs
<1> DEFINE E == EpochLen
           J == JailEpochs
<1>1. E \in Nat \ {0} /\ J \in Nat \ {0}  BY ConsensusAssumption
<1> HIDE DEF E, J
<1>2. E * J \in Nat /\ E * J >= E
      <2>1. J - 1 \in Nat /\ E * (J - 1) \in Nat /\ E * J = E + E * (J - 1)  BY <1>1
      <2> QED  BY <1>1, <2>1
<1>3. /\ h % E \in Nat /\ h \div E \in Nat /\ (h \div E) * E \in Nat
      /\ h = (h \div E) * E + (h % E) /\ (h \div E + 1) * E = (h \div E) * E + E
      BY <1>1
<1>4. NextBoundary(h) = IF h % E = 0 THEN h ELSE (h \div E + 1) * E  BY DEF NextBoundary, E
<1>5. CASE h % E = 0  BY <1>1, <1>2, <1>4, <1>5 DEF E, J
<1>6. CASE h % E # 0
      <2> DEFINE a == (h \div E) * E
                 b == h % E
                 ej == E * J
      <2>1. NextBoundary(h) = a + E /\ h = a + b /\ a \in Nat /\ b \in Nat /\ b # 0 /\ ej \in Nat /\ ej >= E
            BY <1>2, <1>3, <1>4, <1>6
      <2> HIDE DEF a, b, ej
      <2>2. NextBoundary(h) \in Nat /\ NextBoundary(h) < h + ej  BY <1>1, <2>1
      <2> QED  BY <2>2 DEF ej, E, J
<1> QED  BY <1>5, <1>6

\* what EquivocatorsArePenalised says of one step
CutsAreEarned ==
    \A n \in up \cap up', v \in Nodes :
         /\ mem'[n].stakes[v] < mem[n].stakes[v]
         /\ mem'[n].chain = mem[n].chain /\ mem'[n].dag = mem[n].dag
         => DoubleSigned(v) /\ mem'[n].jailed[v] > NextBoundary(Height(mem[n]))

(* Every step keeps to it: without a new block or a transaction only an
   equivocation penalty cuts a stake, on two blocks of one height with one
   signer. *)
LEMMA NextCuts == ConsInv /\ [Next]_vars => CutsAreEarned
<1> SUFFICES ASSUME ConsInv, [Next]_vars,
                    NEW n \in up \cap up', NEW v \in Nodes,
                    mem'[n].stakes[v] < mem[n].stakes[v],
                    mem'[n].chain = mem[n].chain, mem'[n].dag = mem[n].dag
             PROVE  DoubleSigned(v) /\ mem'[n].jailed[v] > NextBoundary(Height(mem[n]))
      BY DEF CutsAreEarned
<1>1. /\ MadeOK /\ mem \in [Nodes -> NodeStates]
      /\ \A k \in Nodes : GoodState(mem[k])
      /\ \A k \in DOMAIN made : Rooted(k)
      /\ net \subseteq [to : Nodes, from : Nodes, id : DOMAIN made]
      /\ n \in Nodes /\ mem[n] \in NodeStates
      BY DEF ConsInv
<1>2. ASSUME NEW k \in Nodes PROVE mem[k] \in NodeStates /\ Height(mem[k]) \in Nat
      <2>1. mem[k] \in NodeStates  BY <1>1
      <2> QED  BY SMTT(30), <2>1 DEF Height, NodeStates
<1>3. mem[n].stakes \in [Nodes -> Nat] /\ mem[n].chain \in Seq(1..MaxBlocks) /\ Height(mem[n]) \in Nat
      BY SMTT(30), <1>1 DEF NodeStates, Height
<1>4. ~ (mem[n].stakes[v] < mem[n].stakes[v])  BY <1>3
<1>5. mem'[n].stakes # mem[n].stakes  BY <1>4
<1>6. ASSUME NEW k \in Nodes, NEW t \in Txs, ReceiveTx(k, t) PROVE FALSE
      <2>1. k = n  BY <1>1, <1>5, <1>6 DEF ReceiveTx
      <2>2. mem'[n].dag = mem[n].dag \cup {t}  BY <1>1, <1>6, <2>1 DEF ReceiveTx, NodeStates
      <2> QED  BY <1>6, <2>1, <2>2 DEF ReceiveTx
<1>7. ASSUME NEW k \in Nodes, AwaitTurn(k) PROVE FALSE
      <2> DEFINE s == AtBoundary(mem[k], Height(mem[k]))
      <2>1. mem' = [mem EXCEPT ![k] = s]  BY <1>7 DEF AwaitTurn
      <2>2. mem[k] \in NodeStates /\ Height(mem[k]) \in Nat  BY <1>2
      <2>3. s.stakes = mem[k].stakes  BY <2>2, BoundaryKeeps
      <2> HIDE DEF s
      <2>4. mem'[n].stakes = mem[n].stakes  BY <1>1, <2>1, <2>3
      <2> QED  BY <1>5, <2>4
<1>8. ASSUME NEW k \in Nodes, ProduceBlock(k) PROVE FALSE
      <2> DEFINE s == AtBoundary(mem[k], Height(mem[k]))
                 c == Append(s.chain, Len(made) + 1)
                 t == [s EXCEPT !.chain = c]
      <2>1. mem' = [mem EXCEPT ![k] = t]  BY <1>8 DEF ProduceBlock
      <2>2. mem[k] \in NodeStates /\ Height(mem[k]) \in Nat  BY <1>2
      <2>3. s \in NodeStates /\ s.chain = mem[k].chain /\ s.stakes = mem[k].stakes  BY <2>2, BoundaryKeeps
      <2> HIDE DEF s
      <2>4. t.stakes = mem[k].stakes  BY <2>3 DEF NodeStates
      <2> HIDE DEF t
      <2>5. mem'[n].stakes = mem[n].stakes  BY <1>1, <2>1, <2>4
      <2> QED  BY <1>5, <2>5
<1>9. ASSUME NEW m \in net, DeliverBlock(m)
      PROVE  DoubleSigned(v) /\ mem'[n].jailed[v] > NextBoundary(Height(mem[n]))
      <2> DEFINE r == AdoptBlock(mem[m.to], m.id)
      <2>1. m.to \in Nodes /\ m.id \in DOMAIN made  BY <1>1
      <2>2. mem' = [mem EXCEPT ![m.to] = r.state]  BY <1>9 DEF DeliverBlock
      <2>3. m.to = n
            <3> HIDE DEF r
            <3> QED  BY <1>1, <1>5, <2>1, <2>2
      <2>4. mem'[n] = r.state
            <3> HIDE DEF r
            <3> QED  BY <1>1, <2>2, <2>3
      <2>5. /\ r.state \in NodeStates
            /\ r.state.chain = mem[n].chain =>
                    \A u \in Nodes : r.state.stakes[u] < mem[n].stakes[u] =>
                      /\ DoubleSigned(u)
                      /\ r.state.jailed[u] >= Height(mem[n]) + EpochLen * JailEpochs
            BY <1>1, <2>1, <2>3, AdoptKeeps
      <2> DEFINE j == mem'[n].jailed[v]
                 ej == EpochLen * JailEpochs
      <2>6. DoubleSigned(v) /\ j >= Height(mem[n]) + ej
            <3> HIDE DEF r
            <3> QED  BY <2>4, <2>5
      <2>7. j \in Nat /\ ej \in Nat
            <3> HIDE DEF r
            <3>1. r.state.jailed \in [Nodes -> Nat]  BY <2>5 DEF NodeStates
            <3>2. EpochLen \in Nat /\ JailEpochs \in Nat  BY ConsensusAssumption
            <3> QED  BY <2>4, <3>1, <3>2
      <2>8. NextBoundary(Height(mem[n])) \in Nat /\ NextBoundary(Height(mem[n])) < Height(mem[n]) + ej
            BY <1>3, BoundaryIsNear
      <2> HIDE DEF j, ej
      <2>9. j > NextBoundary(Height(mem[n]))  BY <1>3, <2>6, <2>7, <2>8
      <2> QED  BY <2>6, <2>9 DEF j
<1>10. ASSUME NEW k \in Nodes, Crash(k) PROVE FALSE
      <2>1. k # n  BY <1>10 DEF Crash
      <2>2. mem'[n] = mem[n]  BY <1>1, <1>10, <2>1 DEF Crash
      <2> QED  BY <1>5, <2>2
<1>11. Elapse \/ UNCHANGED vars \/ (\E k \in Nodes : Autosave(k) \/ Restart(k)) => mem' = mem
      BY DEF Elapse, Autosave, Restart, vars
<1> QED  BY <1>5, <1>6, <1>7, <1>8, <1>9, <1>10, <1>11 DEF Next

(* A stake cut that comes with neither a block nor a transaction hits a
   validator that did sign two blocks of one height, and jails it past the
   next epoch boundary (_detect_equivocation, _slash), whatever the node
   missed or forgot before. *)
THEOREM EquivocatorsArePenalisedHolds == Spec => EquivocatorsArePenalised
<1>1. ConsInv /\ [Next]_vars => [CutsAreEarned]_vars  BY NextCuts
<1>2. Spec => [][CutsAreEarned]_vars  BY <1>1, ConsInvHolds, PTL DEF Spec
<1> QED  BY <1>2 DEF EquivocatorsArePenalised, CutsAreEarned

-----------------------------------------------------------------------------
(* Agreement.  With one stake ledger, one weight vector decides every
   election, so there is one proposer per height, who signs it once. *)

\* no transaction moves stake, and somebody has some
OneLedger ==
    /\ \A t \in Txs : StakeBy[t].delta = 0
    /\ \E v \in Nodes : GenesisStake[v] > 0

Weights == [v \in Nodes |-> MinOf(GenesisStake[v], MaxStake)]
ElectedAfter(m, prev) ==
    ElectProposer(Weights, IF prev = None THEN GenesisDraw ELSE m[prev].draw)

Untouched(s) ==
    /\ s.stakes = GenesisStake /\ s.jailed = [v \in Nodes |-> 0]
    /\ s.chain # <<>> => s.epoch = Weights

OnePerHeight == \A j, k \in DOMAIN made : made[j].height = made[k].height => j = k
BlocksAreElected == \A k \in DOMAIN made : made[k].proposer = ElectedAfter(made, made[k].prev)
ProposersHoldThem ==
    \A k \in DOMAIN made :
        LET c == mem[made[k].proposer].chain
        IN  made[k].height + 1 \in DOMAIN c /\ c[made[k].height + 1] = k

CalmInv ==
    expired = 0 /\ crashes = 0 =>
        /\ \A n \in Nodes : Untouched(mem[n])
        /\ OnePerHeight /\ BlocksAreElected /\ ProposersHoldThem

(* While somebody has genesis stake the election has a winner. *)
LEMMA SomebodyIsElected ==
    ASSUME OneLedger, NEW draw \in Nat
    PROVE  ElectProposer(Weights, draw) \in Nodes /\ ElectProposer(Weights, draw) # None
<1>1. Weights \in [Nodes -> Nat] /\ \E v \in Nodes : Weights[v] > 0
      <2>1. \A v \in Nodes : GenesisStake[v] \in Nat  BY ConsensusAssumption
      <2>2. MaxStake \in Nat \ {0}  BY ConsensusAssumption
      <2> QED  BY <2>1, <2>2 DEF Weights, MinOf, OneLedger
<1>2. IsFiniteSet(Nodes) /\ DOMAIN Weights = Nodes
      BY ConsensusAssumption, FS_Interval DEF Nodes, Weights
<1>3. SumFunction(Weights) # 0
      <2> PICK v \in Nodes : Weights[v] > 0  BY <1>1
      <2> HIDE DEF Weights
      <2>1. \A x \in Nodes : Weights[x] \in Int /\ Weights[x] \in Nat  BY <1>1
      <2>2. SumFunctionOnSet(Weights, Nodes)
              = Weights[v] + SumFunctionOnSet(Weights, Nodes \ {v})
            BY <1>2, <2>1, SumRemove
      <2>3. SumFunctionOnSet(Weights, Nodes \ {v}) \in Nat
            <3>1. IsFiniteSet(Nodes \ {v})  BY <1>2, FS_Subset
            <3> QED  BY <2>1, <3>1, SumIsNat
      <2>4. SumFunction(Weights) = SumFunctionOnSet(Weights, Nodes)  BY <1>2, TotalIs
      <2> QED  BY <2>1, <2>2, <2>3, <2>4
<1>4. ElectProposer(Weights, draw) \in Nodes  BY <1>1, <1>3, ElectedHasWeight
<1>5. None \notin Nodes  BY ConsensusAssumption DEF None, Nodes
<1> QED  BY <1>4, <1>5

(* The draw that decides the height after prev. *)
LEMMA DrawIsNat ==
    ASSUME MadeOK, NEW prev, prev = None \/ prev \in DOMAIN made
    PROVE  /\ Draw(prev) \in Nat
           /\ ElectedAfter(made, prev) = ElectProposer(Weights, Draw(prev))
<1>1. \A k \in DOMAIN made : made[k].draw \in Nat  BY Fields
<1> QED  BY <1>1, ConsensusAssumption DEF Draw, ElectedAfter

(* The boundary refresh gives an untouched node the genesis weights. *)
LEMMA BoundaryIsCalm ==
    ASSUME NEW s \in NodeStates, Untouched(s), NEW h \in Nat, h = Len(s.chain)
    PROVE  /\ AtBoundary(s, h).epoch = Weights
           /\ AtBoundary(s, h).stakes = GenesisStake
           /\ AtBoundary(s, h).jailed = [v \in Nodes |-> 0]
           /\ AtBoundary(s, h).chain = s.chain /\ AtBoundary(s, h) \in NodeStates
<1>1. s.stakes = GenesisStake /\ s.jailed = [v \in Nodes |-> 0]  BY DEF Untouched
<1> DEFINE f == [v \in Nodes |-> IF s.jailed[v] > h THEN 0 ELSE MinOf(s.stakes[v], MaxStake)]
<1>2. f = Weights
      <2>1. \A v \in Nodes : ~ (s.jailed[v] > h)  BY <1>1
      <2>2. \A v \in Nodes : (IF s.jailed[v] > h THEN 0 ELSE MinOf(s.stakes[v], MaxStake))
                               = MinOf(GenesisStake[v], MaxStake)
            BY <1>1, <2>1
      <2> QED  BY <2>2 DEF Weights
<1>3. RefreshEpochStakes(s, h) = [s EXCEPT !.epoch = f]  BY DEF RefreshEpochStakes
<1>4. h = 0 \/ s.epoch = Weights
      <2>1. s.chain \in Seq(1..MaxBlocks)  BY DEF NodeStates
      <2> QED  BY <2>1 DEF Untouched
<1>5. h = 0 => h % EpochLen = 0
      <2>1. EpochLen \in Nat \ {0}  BY ConsensusAssumption
      <2> QED  BY <2>1
<1>6. RefreshEpochStakes(s, h).epoch = Weights
      <2> HIDE DEF f
      <2> QED  BY <1>2, <1>3 DEF NodeStates
<1>7. AtBoundary(s, h).epoch = Weights  BY <1>4, <1>5, <1>6 DEF AtBoundary
<1> QED  BY <1>1, <1>7, BoundaryKeeps

(* A calm node takes every block that fits, penalises nobody and appends
   nothing else. *)
LEMMA CalmAdopt ==
    ASSUME OneLedger, NEW s, GoodState(s), Untouched(s), MadeOK,
           NEW id \in DOMAIN made, OnePerHeight, BlocksAreElected
    PROVE  LET r == AdoptBlock(s, id)
           IN  /\ Untouched(r.state)
               /\ r.state.chain = s.chain \/ r.state.chain = Append(s.chain, id)
<1> DEFINE b == made[id]
           res == AdoptBlock(s, id)
<1>1. s \in NodeStates /\ HashChain(s.chain)  BY DEF GoodState, Sound
<1>2. b.height \in Nat /\ Height(s) \in Nat /\ id \in 1..MaxBlocks /\ s.chain \in Seq(1..MaxBlocks)
      /\ b.proposer \in Nodes
      BY <1>1, Fields DEF NodeStates, Height
<1>3. CASE b.height < Height(s)
      <2> DEFINE k == b.height + 1
      <2>1. res.state = DetectEquivocation(s, id)  BY <1>2, <1>3 DEF AdoptBlock
      <2>2. k \in DOMAIN s.chain /\ k - 1 = b.height  BY <1>2, <1>3 DEF Height
      <2> HIDE DEF k
      <2>3. s.chain[k] \in DOMAIN made /\ made[s.chain[k]].height = b.height
            BY <1>1, <2>2 DEF HashChain, HashChainIn
      <2>4. s.chain[k] = id  BY <2>3 DEF OnePerHeight
      <2>5. DetectEquivocation(s, id) = s  BY <2>4 DEF DetectEquivocation, k
      <2> QED  BY <2>1, <2>5
<1>4. CASE b.height = Height(s) /\ b.prev = TipOf(s)
      <2> DEFINE r == AtBoundary(s, b.height)
                 elected == ElectProposer(r.epoch, Draw(b.prev))
                 grown == [r EXCEPT !.chain = Append(@, id)]
                 M == [grown.missed EXCEPT ![elected] = 0]
                 y == [grown EXCEPT !.missed = M]
      <2>1. res = VerifyAndAdopt(s, id)  BY <1>2, <1>4 DEF AdoptBlock
      <2>2. /\ r.epoch = Weights /\ r.stakes = GenesisStake /\ r.jailed = [v \in Nodes |-> 0]
            /\ r.chain = s.chain /\ r \in NodeStates
            BY <1>1, <1>2, <1>4, BoundaryIsCalm DEF Height
      <2>3. b.prev = None \/ b.prev \in DOMAIN made
            <3>1. s.chain # <<>> => Len(s.chain) \in DOMAIN s.chain  BY <1>2
            <3> QED  BY <1>1, <1>4, <3>1 DEF TipOf, HashChain, HashChainIn, Last
      <2>4. elected = b.proposer /\ elected # None
            <3>1. elected = ElectedAfter(made, b.prev)  BY <2>2, <2>3, DrawIsNat
            <3>2. elected # None  BY <2>2, <2>3, DrawIsNat, SomebodyIsElected
            <3> QED  BY <3>1, <3>2 DEF BlocksAreElected
      <2> HIDE DEF r
      <2>5. VerifyAndAdopt(s, id) = [took |-> TRUE, state |-> y]
            <3> HIDE DEF elected
            <3> QED  BY <2>4 DEF VerifyAndAdopt, elected, r
      <2>6. /\ y.stakes = r.stakes /\ y.jailed = r.jailed /\ y.epoch = r.epoch
            /\ y.chain = Append(r.chain, id)
            <3> HIDE DEF M
            <3> QED  BY <2>2 DEF NodeStates
      <2> HIDE DEF y
      <2> QED  BY <2>1, <2>2, <2>5, <2>6 DEF Untouched
<1>5. CASE ~ (b.height < Height(s)) /\ ~ (b.height = Height(s) /\ b.prev = TipOf(s))
      <2>1. res = [took |-> FALSE, state |-> s]  BY <1>2, <1>5 DEF AdoptBlock
      <2> QED  BY <2>1
<1> QED  BY <1>3, <1>4, <1>5


(* Before the first block there is nothing to disagree about. *)
LEMMA InitCalm == Init => CalmInv
<1> SUFFICES ASSUME Init PROVE CalmInv  OBVIOUS
<1>1. DOMAIN made = {} /\ \A n \in Nodes : mem[n] = Blank  BY DEF Init
<1>2. Untouched(Blank)  BY DEF Blank, Untouched
<1> QED  BY <1>1, <1>2 DEF CalmInv, OnePerHeight, BlocksAreElected, ProposersHoldThem

(* When the elected proposer may sign, nobody has signed that height yet. *)
LEMMA HeightIsFree ==
    ASSUME OneLedger, ConsInv, CalmInv, expired = 0, crashes = 0,
           NEW n \in Nodes, NEW k \in DOMAIN made, made[k].height = Height(mem[n]),
           ElectedAfter(made, TipOf(mem[n])) = n
    PROVE  FALSE
<1> DEFINE c == mem[n].chain
           h == Len(c)
<1>1. /\ OnePerHeight /\ BlocksAreElected /\ ProposersHoldThem /\ MadeOK
      /\ HashChain(c) /\ mem[n] \in NodeStates /\ Rooted(k)
      BY DEF CalmInv, ConsInv, GoodState, Sound
<1>2. c \in Seq(1..MaxBlocks) /\ h \in Nat /\ DOMAIN c = 1..h /\ made[k].height = h
      BY <1>1 DEF NodeStates, Height
<1>3. PICK d : HashChain(d) /\ d # <<>> /\ d[Len(d)] = k  BY <1>1 DEF Rooted, Sound
<1>4. d \in Seq(1..MaxBlocks) /\ Len(d) \in Nat /\ DOMAIN d = 1..Len(d) /\ Len(d) = h + 1
      <2>1. d \in Seq(1..MaxBlocks) /\ Len(d) \in Nat /\ Len(d) # 0  BY <1>3 DEF HashChain, HashChainIn
      <2>2. made[d[Len(d)]].height = Len(d) - 1  BY <1>3, <2>1 DEF HashChain, HashChainIn
      <2> QED  BY <1>2, <1>3, <2>1, <2>2
<1>5. made[k].prev = TipOf(mem[n])
      <2>1. made[k].prev = IF h + 1 = 1 THEN None ELSE d[h]
            <3>1. h + 1 \in DOMAIN d /\ h + 1 - 1 = h  BY <1>2, <1>4
            <3> QED  BY <1>2, <1>3, <1>4, <3>1 DEF HashChain, HashChainIn
      <2>2. CASE h = 0  BY <1>2, <2>1, <2>2 DEF TipOf
      <2>3. CASE h # 0
            <3>1. h \in DOMAIN c /\ h \in DOMAIN d  BY <1>2, <1>4, <2>3
            <3>2. /\ c[h] \in DOMAIN made /\ made[c[h]].height = h - 1
                  /\ d[h] \in DOMAIN made /\ made[d[h]].height = h - 1
                  <4> HIDE DEF h
                  <4> QED  BY <1>1, <1>3, <3>1 DEF HashChain, HashChainIn
            <3>3. c[h] = d[h]  BY <1>1, <3>2 DEF OnePerHeight
            <3>4. TipOf(mem[n]) = c[h]  BY <1>2, <2>3 DEF TipOf, Last
            <3> QED  BY <1>2, <2>1, <2>3, <3>3, <3>4
      <2> QED  BY <2>2, <2>3
<1>6. made[k].proposer = n  BY <1>1, <1>5 DEF BlocksAreElected
<1>7. h + 1 \in DOMAIN c  BY <1>1, <1>2, <1>6 DEF ProposersHoldThem
<1> QED  BY <1>2, <1>7

(* CalmInv is inductive: whoever makes a block at a height is the elected one
   and holds every block it made, so it cannot make another. *)
LEMMA NextCalm == OneLedger /\ ConsInv /\ CalmInv /\ [Next]_vars => CalmInv'
<1> SUFFICES ASSUME OneLedger, ConsInv, CalmInv, [Next]_vars, expired' = 0, crashes' = 0
             PROVE  /\ \A n \in Nodes : Untouched(mem'[n])
                    /\ OnePerHeight' /\ BlocksAreElected' /\ ProposersHoldThem'
      BY DEF CalmInv, Untouched
<1>1. /\ MadeOK /\ mem \in [Nodes -> NodeStates]
      /\ \A n \in Nodes : GoodState(mem[n])
      /\ \A k \in DOMAIN made : Rooted(k)
      /\ net \subseteq [to : Nodes, from : Nodes, id : DOMAIN made]
      /\ expired \in Nat /\ crashes \in Nat
      BY DEF ConsInv, MadeOK
<1>2. ASSUME NEW n \in Nodes PROVE mem[n] \in NodeStates /\ mem[n].chain \in Seq(1..MaxBlocks)
      <2>1. mem[n] \in NodeStates  BY <1>1
      <2> QED  BY <2>1 DEF NodeStates
<1>3. ASSUME NEW n \in Nodes, Crash(n) PROVE FALSE
      BY <1>1, <1>3 DEF Crash
<1>4. ASSUME Elapse PROVE FALSE
      BY <1>1, <1>4 DEF Elapse
<1>5. expired = 0 /\ crashes = 0
      BY <1>3, <1>4 DEF Next, ReceiveTx, AwaitTurn, ProduceBlock, DeliverBlock, Autosave, Restart, vars
<1>6. /\ \A n \in Nodes : Untouched(mem[n])
      /\ OnePerHeight /\ BlocksAreElected /\ ProposersHoldThem
      BY <1>5 DEF CalmInv
<1>7. ASSUME NEW n \in Nodes, NEW s, mem' = [mem EXCEPT ![n] = s], UNCHANGED made,
             Untouched(s),
             s.chain = mem[n].chain \/ \E id \in 1..MaxBlocks : s.chain = Append(mem[n].chain, id)
      PROVE  /\ \A k \in Nodes : Untouched(mem'[k])
             /\ OnePerHeight' /\ BlocksAreElected' /\ ProposersHoldThem'
      <2>1. \A k \in Nodes : mem'[k] = IF k = n THEN s ELSE mem[k]  BY <1>1, <1>7
      <2>2. OnePerHeight' /\ BlocksAreElected'  BY <1>6, <1>7 DEF OnePerHeight, BlocksAreElected
      <2>3. \A i \in DOMAIN mem[n].chain : i \in DOMAIN s.chain /\ s.chain[i] = mem[n].chain[i]
            <3>1. CASE s.chain = mem[n].chain  BY <3>1
            <3>2. ASSUME NEW id \in 1..MaxBlocks, s.chain = Append(mem[n].chain, id)
                  PROVE  \A i \in DOMAIN mem[n].chain : i \in DOMAIN s.chain /\ s.chain[i] = mem[n].chain[i]
                  BY <1>2, <3>2, AppendIs
            <3> QED  BY <1>7, <3>1, <3>2
      <2>4. \A k \in Nodes : \A i \in DOMAIN mem[k].chain :
                i \in DOMAIN mem'[k].chain /\ mem'[k].chain[i] = mem[k].chain[i]
            BY <2>1, <2>3
      <2>5. ProposersHoldThem'
            <3>1. \A k \in DOMAIN made : made[k].proposer \in Nodes  BY <1>1, Fields
            <3> QED  BY <1>6, <1>7, <2>4, <3>1 DEF ProposersHoldThem
      <2> QED  BY <1>6, <1>7, <2>1, <2>2, <2>5
<1>8. ASSUME UNCHANGED <<made, mem>>
      PROVE  /\ \A k \in Nodes : Untouched(mem'[k])
             /\ OnePerHeight' /\ BlocksAreElected' /\ ProposersHoldThem'
      BY <1>6, <1>8 DEF OnePerHeight, BlocksAreElected, ProposersHoldThem
<1>9. ASSUME NEW n \in Nodes, NEW t \in Txs, ReceiveTx(n, t)
      PROVE  /\ \A k \in Nodes : Untouched(mem'[k])
             /\ OnePerHeight' /\ BlocksAreElected' /\ ProposersHoldThem'
      <2> DEFINE a == StakeBy[t].addr
                 S == [mem[n].stakes EXCEPT ![a] = MaxOf(0, @ + StakeBy[t].delta)]
                 s == [mem[n] EXCEPT !.dag = @ \cup {t}, !.stakes = S]
      <2>1. mem[n] \in NodeStates /\ mem[n].stakes \in [Nodes -> Nat]  BY <1>2 DEF NodeStates
      <2>2. mem' = [mem EXCEPT ![n] = s]  BY <1>1, <1>9, <2>1 DEF ReceiveTx, NodeStates
      <2>3. a \in Nodes /\ StakeBy[t].delta = 0
            <3>1. StakeBy \in [Txs -> [addr : Nodes, delta : Int]]  BY ConsensusAssumption
            <3> QED  BY <3>1 DEF OneLedger
      <2>4. MaxOf(0, mem[n].stakes[a] + StakeBy[t].delta) = mem[n].stakes[a]
            BY <2>1, <2>3 DEF MaxOf
      <2>5. S = mem[n].stakes  BY <2>1, <2>3, <2>4
      <2> HIDE DEF S
      <2>6. /\ s.stakes = S /\ s.jailed = mem[n].jailed /\ s.epoch = mem[n].epoch
            /\ s.chain = mem[n].chain
            BY <2>1 DEF NodeStates
      <2> HIDE DEF s
      <2>7. Untouched(s)  BY <1>6, <2>5, <2>6 DEF Untouched
      <2>8. UNCHANGED made  BY <1>9 DEF ReceiveTx
      <2> QED  BY <1>7, <2>2, <2>6, <2>7, <2>8
<1>10. ASSUME NEW n \in Nodes, AwaitTurn(n)
      PROVE  /\ \A k \in Nodes : Untouched(mem'[k])
             /\ OnePerHeight' /\ BlocksAreElected' /\ ProposersHoldThem'
      <2> DEFINE s == AtBoundary(mem[n], Height(mem[n]))
      <2>1. mem' = [mem EXCEPT ![n] = s] /\ UNCHANGED made  BY <1>10 DEF AwaitTurn
      <2>2. Height(mem[n]) \in Nat /\ Height(mem[n]) = Len(mem[n].chain)  BY <1>2 DEF Height
      <2>3. /\ s.stakes = GenesisStake /\ s.jailed = [v \in Nodes |-> 0] /\ s.epoch = Weights
            /\ s.chain = mem[n].chain
            BY <1>2, <1>6, <2>2, BoundaryIsCalm
      <2> HIDE DEF s
      <2>4. Untouched(s)  BY <2>3 DEF Untouched
      <2> QED  BY <1>7, <2>1, <2>3, <2>4
<1>11. ASSUME NEW m \in net, DeliverBlock(m)
       PROVE  /\ \A k \in Nodes : Untouched(mem'[k])
              /\ OnePerHeight' /\ BlocksAreElected' /\ ProposersHoldThem'
      <2> DEFINE r == AdoptBlock(mem[m.to], m.id)
      <2>1. m.to \in Nodes /\ m.id \in DOMAIN made  BY <1>1
      <2>2. mem' = [mem EXCEPT ![m.to] = r.state] /\ UNCHANGED made  BY <1>11 DEF DeliverBlock
      <2>3. /\ Untouched(r.state)
            /\ r.state.chain = mem[m.to].chain \/ r.state.chain = Append(mem[m.to].chain, m.id)
            BY <1>1, <1>6, <2>1, CalmAdopt
      <2>4. m.id \in 1..MaxBlocks  BY <1>1, <2>1, Fields
      <2> HIDE DEF r
      <2> QED  BY <1>7, <2>1, <2>2, <2>3, <2>4
<1>12. ASSUME NEW n \in Nodes, ProduceBlock(n)
       PROVE  /\ \A k \in Nodes : Untouched(mem'[k])
              /\ OnePerHeight' /\ BlocksAreElected' /\ ProposersHoldThem'
      <2> DEFINE h == Height(mem[n])
                 s == AtBoundary(mem[n], h)
                 c == mem[n].chain
                 id == Len(made) + 1
                 t == [s EXCEPT !.chain = Append(@, id)]
      <2>1. h \in Nat /\ h = Len(c) /\ c \in Seq(1..MaxBlocks)  BY <1>2 DEF Height
      <2>2. /\ s.stakes = GenesisStake /\ s.jailed = [v \in Nodes |-> 0] /\ s.epoch = Weights
            /\ s.chain = c /\ s \in NodeStates
            BY <1>2, <1>6, <2>1, BoundaryIsCalm
      <2> HIDE DEF s
      <2>3. PICK b : /\ b.height = Height(s) /\ b.prev = TipOf(s) /\ b.proposer = n
                     /\ made' = Append(made, b) /\ Len(made) < MaxBlocks
            <3>1. PICK x \in Draws :
                     made' = Append(made, [height |-> Height(s), prev |-> TipOf(s), proposer |-> n,
                          txids |-> Pending(s), late |-> TimedOut(TipOf(s)), draw |-> x])
                  BY <1>12 DEF ProduceBlock, s
            <3>2. Len(made) < MaxBlocks  BY <1>12 DEF ProduceBlock
            <3> QED  BY <3>1, <3>2
      <2>4. mem' = [mem EXCEPT ![n] = t] /\ MayProduce(s, n)  BY <1>12 DEF ProduceBlock, s
      <2>5. Height(s) = h /\ TipOf(s) = TipOf(mem[n])  BY <2>2 DEF Height, TipOf
      <2>6. TipOf(mem[n]) = None \/ TipOf(mem[n]) \in DOMAIN made
            <3>1. c # <<>> => Len(c) \in DOMAIN c  BY <2>1
            <3> QED  BY <1>1, <3>1 DEF GoodState, Sound, HashChain, HashChainIn, TipOf, Last
      <2>7. Len(made) \in Nat /\ DOMAIN made = 1..Len(made) /\ id \in 1..MaxBlocks
            BY <1>1, <2>3, ConsensusAssumption DEF MadeOK
      <2>8. ~ TimedOut(TipOf(s))
            BY <1>5, <2>5, <2>6, <2>7 DEF TimedOut, None
      <2>9. ElectedAfter(made, TipOf(mem[n])) = n
            <3>1. /\ ElectedAfter(made, TipOf(mem[n])) = ElectProposer(Weights, Draw(TipOf(mem[n])))
                  /\ Draw(TipOf(mem[n])) \in Nat
                  BY <1>1, <2>6, DrawIsNat
            <3>2. ElectProposer(Weights, Draw(TipOf(mem[n]))) # None  BY <3>1, SomebodyIsElected
            <3>3. ElectProposer(Weights, Draw(TipOf(mem[n]))) \in {None, n}
                  BY <2>2, <2>4, <2>5, <2>8 DEF MayProduce
            <3> QED  BY <3>1, <3>2, <3>3
      <2>10. \A k \in DOMAIN made : made[k].height # h
            BY <1>5, <2>9, HeightIsFree
      <2>11. /\ DOMAIN made' = 1..Len(made) + 1 /\ made'[id] = b
             /\ \A k \in DOMAIN made : k \in DOMAIN made' /\ made'[k] = made[k]
             /\ \A k \in DOMAIN made' : k \in DOMAIN made \/ k = id
            <3>1. made \in Seq(Blocks)  BY <1>1 DEF MadeOK
            <3> QED  BY <2>3, <2>7, <3>1
      <2>12. OnePerHeight'
            BY <1>6, <2>3, <2>5, <2>10, <2>11 DEF OnePerHeight
      <2>13. BlocksAreElected'
            <3>1. \A k \in DOMAIN made : made[k].prev = None \/ made[k].prev \in DOMAIN made
                  <4> TAKE k \in DOMAIN made
                  <4>1. PICK d : HashChain(d) /\ d # <<>> /\ d[Len(d)] = k  BY <1>1 DEF Rooted, Sound
                  <4>2. d \in Seq(1..MaxBlocks) /\ Len(d) \in Nat /\ Len(d) # 0 /\ DOMAIN d = 1..Len(d)
                        BY <4>1 DEF HashChain, HashChainIn
                  <4>3. Len(d) \in DOMAIN d /\ (Len(d) # 1 => Len(d) - 1 \in DOMAIN d)  BY <4>2
                  <4> QED  BY <4>1, <4>3 DEF HashChain, HashChainIn
            <3>2. \A p : p = None \/ p \in DOMAIN made => ElectedAfter(made', p) = ElectedAfter(made, p)
                  BY <2>11 DEF ElectedAfter
            <3>3. \A k \in DOMAIN made : made'[k].proposer = ElectedAfter(made', made'[k].prev)
                  BY <1>6, <2>11, <3>1, <3>2 DEF BlocksAreElected
            <3>4. made'[id].proposer = ElectedAfter(made', made'[id].prev)
                  BY <2>3, <2>5, <2>6, <2>9, <2>11, <3>2
            <3> QED  BY <2>11, <3>3, <3>4 DEF BlocksAreElected
      <2>14. /\ t.chain = Append(c, id) /\ t.stakes = s.stakes /\ t.jailed = s.jailed /\ t.epoch = s.epoch
            BY <2>2 DEF NodeStates
      <2>15. Untouched(t)  BY <2>2, <2>14 DEF Untouched
      <2> HIDE DEF t
      <2>16. \A k \in Nodes : mem'[k] = IF k = n THEN t ELSE mem[k]  BY <1>1, <2>4
      <2>17. ProposersHoldThem'
            <3>1. \A k \in DOMAIN made : made[k].proposer \in Nodes  BY <1>1, Fields
            <3>2. \A i \in DOMAIN c : i \in DOMAIN t.chain /\ t.chain[i] = c[i]
                  BY <2>1, <2>7, <2>14, AppendIs
            <3>3. \A k \in Nodes : \A i \in DOMAIN mem[k].chain :
                     i \in DOMAIN mem'[k].chain /\ mem'[k].chain[i] = mem[k].chain[i]
                  BY <2>16, <3>2
            <3>4. h + 1 \in DOMAIN t.chain /\ t.chain[h + 1] = id
                  BY <2>1, <2>7, <2>14, AppendIs
            <3>5. \A k \in DOMAIN made :
                     LET x == mem'[made'[k].proposer].chain
                     IN  made'[k].height + 1 \in DOMAIN x /\ x[made'[k].height + 1] = k
                  BY <1>6, <2>11, <3>1, <3>3 DEF ProposersHoldThem
            <3>6. LET x == mem'[made'[id].proposer].chain
                  IN  made'[id].height + 1 \in DOMAIN x /\ x[made'[id].height + 1] = id
                  BY <2>3, <2>5, <2>11, <2>16, <3>4
            <3> QED  BY <2>11, <3>5, <3>6 DEF ProposersHoldThem
      <2>18. \A k \in Nodes : Untouched(mem'[k])  BY <1>6, <2>15, <2>16
      <2> QED  BY <2>12, <2>13, <2>17, <2>18
<1>13. ASSUME NEW n \in Nodes, Autosave(n) \/ Restart(n) PROVE UNCHANGED <<made, mem>>
      BY <1>13 DEF Autosave, Restart
<1>14. UNCHANGED vars => UNCHANGED <<made, mem>>  BY DEF vars
<1> QED  BY <1>3, <1>4, <1>8, <1>9, <1>10, <1>11, <1>12, <1>13, <1>14 DEF Next

(* With one block per height and each chain hashed back to genesis, chains
   agree. *)
LEMMA CalmImplies == ConsInv /\ CalmInv => Agreement
<1> SUFFICES ASSUME ConsInv, CalmInv, expired = 0, crashes = 0,
                    NEW m \in Nodes, NEW n \in Nodes,
                    NEW i \in DOMAIN mem[m].chain \cap DOMAIN mem[n].chain
             PROVE  mem[m].chain[i] = mem[n].chain[i]
      BY DEF Agreement
<1>1. HashChain(mem[m].chain) /\ HashChain(mem[n].chain)  BY DEF ConsInv, GoodState, Sound
<1>2. OnePerHeight  BY DEF CalmInv
<1>3. \A c : HashChain(c) => \A j \in DOMAIN c : c[j] \in DOMAIN made /\ made[c[j]].height = j - 1
      BY DEF HashChain, HashChainIn
<1> DEFINE a == mem[m].chain[i]
           b == mem[n].chain[i]
<1>4. a \in DOMAIN made /\ b \in DOMAIN made /\ made[a].height = i - 1 /\ made[b].height = i - 1
      BY <1>1, <1>3
<1> HIDE DEF a, b
<1>5. a = b  BY <1>2, <1>4 DEF OnePerHeight
<1> QED  BY <1>5 DEF a, b

(* Where no transaction moves stake and somebody has stake at genesis, no two
   nodes hold different blocks at a height until a block outlives the timeout
   or a node crashes: all elect by the same weights, and the elected
   proposer's own chain keeps it from signing a height twice (elect_proposer,
   produce_block, _verify_pos_block). *)
THEOREM AgreementHolds == ASSUME OneLedger PROVE Spec => []Agreement
<1>1. Init => ConsInv /\ CalmInv  BY InitCons, InitCalm
<1>2. (ConsInv /\ CalmInv) /\ [Next]_vars => (ConsInv /\ CalmInv)'  BY OneLedger, NextCons, NextCalm
<1>3. ConsInv /\ CalmInv => Agreement  BY CalmImplies
<1> QED  BY <1>1, <1>2, <1>3, PTL DEF Spec

-----------------------------------------------------------------------------
(*****************************************************************************)
(* The checkpoint half of the node, module NodeSync, for any nodes,          *)
(* transactions and number of blocks and crashes.  The invariant speaks of   *)
(* every copy of a state there is: in memory, on disk and in a snapshot on   *)
(* the wire.  Ledger, replay guard and chain of one copy come from one       *)
(* moment (Agrees) as long as reading a copy is all or nothing; a            *)
(* transaction that leaves an entry of bridge usage makes it stop half way,  *)
(* which is why NothingTwice is proved for BridgeTxs = {} and violated       *)
(* without.  That no chain seals a transaction twice needs no such           *)
(* assumption.  The nodes, and the variables that Consensus has under the    *)
(* same name, go by other names here; transactions and bounds are shared.    *)
(*****************************************************************************)
CONSTANTS Peers, Payers, Payer, Cost, Funds, BridgeTxs, Seeds, SyncFromSeeds
VARIABLES st, saved, running, sent, stale, blocks, wire, stops

Sync == INSTANCE NodeSync
        WITH Nodes <- Peers, disk <- saved, up <- running, expired <- stale, crashes <- stops

SyncBlocks == [txs : SUBSET Txs, id : 0..MaxBlocks]

SyncChainOK(c) ==
    /\ c \in Seq(SyncBlocks)
    /\ \A i, j \in DOMAIN c : i # j => c[i].txs \cap c[j].txs = {}

\* the ledger holds exactly the transactions the replay guard knows, once each
Agrees(s) ==
    /\ ~s.usage
    /\ \A t \in Txs : s.times[t] \in {0, 1} /\ (t \in s.seen <=> s.times[t] = 1)

StateAmong(s, bs) ==
    /\ s \in Sync!States /\ SyncChainOK(s.chain) /\ s.chain \in bs \cup {<<>>}
    /\ BridgeTxs = {} => Agrees(s)
StateOK(s) == StateAmong(s, blocks)

MessageOK(m) ==
    /\ m.from \in Peers /\ m.to \in Peers
    /\ m.type = "state_snapshot" => StateOK(m.snap)

SyncInv ==
    /\ st \in [Peers -> Sync!States] /\ saved \in [Peers -> Sync!States]
    /\ \A n \in Peers : StateOK(st[n]) /\ StateOK(saved[n])
    /\ \A m \in wire : MessageOK(m)
    /\ IsFiniteSet(blocks) /\ \A c \in blocks : SyncChainOK(c)
    /\ running \subseteq Peers /\ sent \subseteq Txs /\ stale \subseteq Txs
    /\ stops \in 0..MaxCrashes

-----------------------------------------------------------------------------
(* A fresh node's state is in order. *)
LEMMA BlankOK == Sync!Blank \in Sync!States /\ StateOK(Sync!Blank)
<1>1. <<>> \in Seq(SyncBlocks) /\ DOMAIN <<>> = {}  OBVIOUS
<1>2. Sync!Blank \in Sync!States  BY <1>1 DEF Sync!Blank, Sync!States, SyncBlocks
<1>3. Sync!Blank.chain = <<>> /\ Sync!Blank.seen = {} /\ Sync!Blank.usage = FALSE /\ \A t \in Txs : Sync!Blank.times[t] = 0
      BY DEF Sync!Blank
<1> QED  BY <1>1, <1>2, <1>3 DEF StateOK, StateAmong, SyncChainOK, Agrees

(* Executing a transaction the guard does not know. *)
LEMMA ApplyOK ==
    ASSUME NEW s, StateOK(s), NEW t \in Txs, Sync!Valid(s, t)
    PROVE  Sync!Apply(s, t) \in Sync!States /\ StateOK(Sync!Apply(s, t))
<1> DEFINE a == Sync!Apply(s, t)
           u == s.usage \/ t \in BridgeTxs
           f == [s.times EXCEPT ![t] = @ + 1]
<1>1. s \in Sync!States /\ s.times \in [Txs -> Nat] /\ t \notin s.seen  BY DEF StateOK, StateAmong, Sync!States, Sync!Valid
<1>2. a = [s EXCEPT !.seen = @ \cup {t}, !.dag = @ \cup {t}, !.times = f, !.usage = u]
      BY DEF Sync!Apply
<1>3. f \in [Txs -> Nat] /\ \A x \in Txs : f[x] = IF x = t THEN s.times[x] + 1 ELSE s.times[x]
      BY <1>1
<1>4. u \in BOOLEAN  OBVIOUS
<1> HIDE DEF a, f, u
<1>5. a.chain = s.chain /\ a.seen = s.seen \cup {t} /\ a.usage = u /\ a.times = f
      BY <1>1, <1>2 DEF Sync!States
<1>6. a \in Sync!States  BY <1>1, <1>2, <1>3, <1>4 DEF Sync!States
<1>7. BridgeTxs = {} => Agrees(a)
      <2> SUFFICES ASSUME BridgeTxs = {} PROVE Agrees(a)  OBVIOUS
      <2>1. ~s.usage /\ \A x \in Txs : s.times[x] \in {0, 1} /\ (x \in s.seen <=> s.times[x] = 1)
            BY DEF StateOK, StateAmong, Agrees
      <2>2. ~a.usage  BY <1>5, <2>1 DEF u
      <2>3. s.times[t] = 0  BY <1>1, <2>1
      <2>4. \A x \in Txs : a.times[x] \in {0, 1} /\ (x \in a.seen <=> a.times[x] = 1)
            BY <1>3, <1>5, <2>1, <2>3
      <2> QED  BY <2>2, <2>4 DEF Agrees
<1> QED  BY <1>5, <1>6, <1>7 DEF StateOK, StateAmong, a

(* Reading a file or a snapshot keeps ledger and guard in step, as long as no
   entry of bridge usage makes it stop half way. *)
LEMMA TakeOK ==
    ASSUME NEW old, StateOK(old), NEW s, StateOK(s)
    PROVE  /\ Sync!TakeSnapshot(old, s) \in Sync!States /\ StateOK(Sync!TakeSnapshot(old, s))
           /\ Sync!Restored(s) \in Sync!States /\ StateOK(Sync!Restored(s))
<1>1. ASSUME NEW o, StateOK(o), s.usage
      PROVE  LET r == [o EXCEPT !.times = s.times, !.dag = s.dag] IN r \in Sync!States /\ StateOK(r)
      <2> DEFINE r == [o EXCEPT !.times = s.times, !.dag = s.dag]
      <2>1. r \in Sync!States /\ r.chain = o.chain  BY <1>1 DEF StateOK, StateAmong, Sync!States
      <2>2. BridgeTxs # {}  BY <1>1 DEF StateOK, StateAmong, Agrees
      <2> QED  BY <1>1, <2>1, <2>2 DEF StateOK, StateAmong
<1>2. s \in Sync!States  BY DEF StateOK, StateAmong
<1> QED  BY <1>1, <1>2, BlankOK DEF Sync!TakeSnapshot, Sync!Restored

(* A block seals what no earlier block of the chain has sealed. *)
LEMMA AppendOK ==
    ASSUME NEW c, SyncChainOK(c), NEW b \in SyncBlocks, b.txs \cap Sync!Sealed(c) = {}
    PROVE  SyncChainOK(Append(c, b))
<1>1. c \in Seq(SyncBlocks)  BY DEF SyncChainOK
<1>2. /\ Append(c, b) \in Seq(SyncBlocks) /\ DOMAIN Append(c, b) = 1..Len(c) + 1 /\ DOMAIN c = 1..Len(c)
      /\ Len(c) \in Nat /\ \A i \in 1..Len(c) : Append(c, b)[i] = c[i]
      /\ Append(c, b)[Len(c) + 1] = b
      BY <1>1
<1>3. \A i \in DOMAIN c : c[i].txs \cap b.txs = {}  BY DEF Sync!Sealed
<1>4. \A i, j \in 1..Len(c) : i # j => c[i].txs \cap c[j].txs = {}  BY <1>2 DEF SyncChainOK
<1> DEFINE d == Append(c, b)
<1> HIDE DEF d
<1>5. ASSUME NEW i \in 1..Len(c) + 1, NEW j \in 1..Len(c) + 1, i # j
      PROVE  d[i].txs \cap d[j].txs = {}
      <2>1. \A k \in 1..Len(c) + 1 : k \in 1..Len(c) \/ k = Len(c) + 1  BY <1>2
      <2>2. /\ \A k \in 1..Len(c) : d[k] = c[k]
            /\ d[Len(c) + 1] = b
            BY <1>2 DEF d
      <2>3. CASE i \in 1..Len(c) /\ j \in 1..Len(c)  BY <1>4, <1>5, <2>2, <2>3
      <2>4. CASE i = Len(c) + 1 /\ j \in 1..Len(c)  BY <1>2, <1>3, <2>2, <2>4
      <2>5. CASE j = Len(c) + 1 /\ i \in 1..Len(c)  BY <1>2, <1>3, <2>2, <2>5
      <2> QED  BY <1>5, <2>1, <2>3, <2>4, <2>5
<1> QED  BY <1>2, <1>5 DEF SyncChainOK, d

(* Every node starts blank. *)
LEMMA InitSync ==
    ASSUME Sync!NodeSyncAssumption
    PROVE  Sync!Init => SyncInv
BY BlankOK, FS_EmptySet DEF Sync!Init, SyncInv, Sync!NodeSyncAssumption

(* States stay good while the blocks stay. *)
LEMMA SameBlocks ==
    ASSUME UNCHANGED blocks
    PROVE  /\ \A s : StateOK(s) => StateOK(s)'
           /\ \A m : MessageOK(m) => MessageOK(m)'
BY DEF StateOK, StateAmong, MessageOK

(* SyncInv is inductive: one step per action. *)
LEMMA NextSync ==
    ASSUME Sync!NodeSyncAssumption
    PROVE  SyncInv /\ [Sync!Next]_Sync!vars => SyncInv'
<1> SUFFICES ASSUME SyncInv, [Sync!Next]_Sync!vars PROVE SyncInv'  OBVIOUS
<1> USE DEF SyncInv
<1>1. ASSUME UNCHANGED <<saved, running, blocks, wire, stops>>,
             sent' \subseteq Txs, stale' \subseteq Txs,
             NEW n \in Peers, NEW s, s \in Sync!States, StateOK(s), st' = [st EXCEPT ![n] = s]
      PROVE  SyncInv'
      <2>1. st' \in [Peers -> Sync!States] /\ \A k \in Peers : StateOK(st'[k])  BY <1>1
      <2>2. \A x : StateOK(x) => StateOK(x)'  BY <1>1, SameBlocks
      <2>3. \A m \in wire : MessageOK(m)'  BY <1>1, SameBlocks
      <2> QED  BY <1>1, <2>1, <2>2, <2>3
<1>2. ASSUME NEW n \in Peers, NEW t \in Txs, Sync!Submit(n, t) PROVE SyncInv'
      <2>1. Sync!Valid(st[n], t) /\ StateOK(st[n]) /\ sent' = sent \cup {t}  BY <1>2 DEF Sync!Submit
      <2>2. Sync!Apply(st[n], t) \in Sync!States /\ StateOK(Sync!Apply(st[n], t))  BY <2>1, ApplyOK
      <2> QED  BY <1>1, <1>2, <2>1, <2>2 DEF Sync!Submit
<1>3. ASSUME NEW n \in Peers, NEW t \in Txs, Sync!DeliverTx(n, t) PROVE SyncInv'
      <2>1. Sync!Valid(st[n], t) /\ StateOK(st[n])  BY <1>3 DEF Sync!DeliverTx
      <2>2. Sync!Apply(st[n], t) \in Sync!States /\ StateOK(Sync!Apply(st[n], t))  BY <2>1, ApplyOK
      <2> QED  BY <1>1, <1>3, <2>2 DEF Sync!DeliverTx
<1>4. ASSUME NEW n \in Peers, Sync!Produce(n) PROVE SyncInv'
      <2> DEFINE pending == st[n].dag \ Sync!Sealed(st[n].chain)
                 b == [txs |-> pending, id |-> Cardinality(blocks)]
                 c == Append(st[n].chain, b)
                 s == [st[n] EXCEPT !.chain = c]
      <2>1. /\ Cardinality(blocks) < MaxBlocks /\ st' = [st EXCEPT ![n] = s] /\ st'[n] = s
            /\ blocks' = blocks \cup {st'[n].chain}
            /\ UNCHANGED <<saved, running, sent, stale, wire, stops>>
            <3>1. Sync!Cardinality(blocks) = Cardinality(blocks)
                  BY DEF Sync!Cardinality, Cardinality
            <3> QED  BY <1>4, <3>1 DEF Sync!Produce, Sync!Sealed
      <2>2. st[n] \in Sync!States /\ StateOK(st[n]) /\ SyncChainOK(st[n].chain)  BY DEF StateOK, StateAmong
      <2>3. b \in SyncBlocks
            <3>1. Cardinality(blocks) \in 0..MaxBlocks
                  <4>1. Cardinality(blocks) \in Nat  BY FS_CardinalityType
                  <4> QED  BY <2>1, <4>1 DEF Sync!NodeSyncAssumption
            <3>2. pending \in SUBSET Txs  BY <2>2 DEF Sync!States
            <3> HIDE DEF pending
            <3> QED  BY <3>1, <3>2 DEF SyncBlocks
      <2>4. b.txs \cap Sync!Sealed(st[n].chain) = {}  OBVIOUS
      <2> HIDE DEF b
      <2>5. SyncChainOK(c)  BY <2>2, <2>3, <2>4, AppendOK
      <2> HIDE DEF c
      <2>6. s \in Sync!States /\ s.chain = c /\ s.usage = st[n].usage /\ s.seen = st[n].seen /\ s.times = st[n].times
            BY <2>2, <2>5 DEF Sync!States, SyncChainOK, SyncBlocks
      <2> HIDE DEF s
      <2>7. blocks' = blocks \cup {c}  BY <2>1, <2>6
      <2>8. \A x : StateOK(x) => StateAmong(x, blocks')  BY <2>7 DEF StateOK, StateAmong
      <2>9. StateAmong(s, blocks')
            <3>1. BridgeTxs = {} => Agrees(s)  BY <2>2, <2>6 DEF StateOK, StateAmong, Agrees
            <3>2. s \in Sync!States /\ SyncChainOK(s.chain) /\ s.chain \in blocks' \cup {<<>>}  BY <2>5, <2>6, <2>7
            <3> QED  BY <3>1, <3>2 DEF StateAmong
      <2>10. st' \in [Peers -> Sync!States] /\ \A k \in Peers : StateAmong(st'[k], blocks')
            BY <2>1, <2>6, <2>8, <2>9
      <2>11. IsFiniteSet(blocks') /\ \A d \in blocks' : SyncChainOK(d)
            <3>1. IsFiniteSet(blocks')  BY <2>7, FS_AddElement
            <3> QED  BY <2>5, <2>7, <3>1
      <2>12. \A m \in wire' : /\ m.from \in Peers /\ m.to \in Peers
                               /\ m.type = "state_snapshot" => StateAmong(m.snap, blocks')
             BY <2>1, <2>8 DEF MessageOK
      <2> QED  BY <2>1, <2>8, <2>10, <2>11, <2>12 DEF StateOK, MessageOK
<1>5. ASSUME NEW n \in Peers, NEW c \in blocks, Sync!DeliverBlock(n, c) PROVE SyncInv'
      <2> DEFINE s == [st[n] EXCEPT !.chain = c]
      <2>1. st[n] \in Sync!States /\ StateOK(st[n]) /\ SyncChainOK(c)  BY DEF StateOK, StateAmong
      <2>2. s \in Sync!States /\ s.chain = c /\ s.usage = st[n].usage /\ s.seen = st[n].seen /\ s.times = st[n].times
            BY <2>1 DEF Sync!States, SyncChainOK, SyncBlocks
      <2>3. st' = [st EXCEPT ![n] = s] /\ UNCHANGED <<saved, running, sent, stale, blocks, wire, stops>>
            BY <1>5 DEF Sync!DeliverBlock
      <2> HIDE DEF s
      <2>4. BridgeTxs = {} => Agrees(s)  BY <2>1, <2>2 DEF StateOK, StateAmong, Agrees
      <2>5. StateOK(s)  BY <2>1, <2>2, <2>4 DEF StateOK, StateAmong
      <2> QED  BY <1>1, <2>2, <2>3, <2>5
<1>6. ASSUME NEW n \in Peers, NEW m \in wire, Sync!ReadLine(n, m) PROVE SyncInv'
      <2> DEFINE s == Sync!StateAfter(n, m)
      <2>1. st' = [st EXCEPT ![n] = s] /\ wire' = (wire \ {m}) \cup Sync!Replies(n, m)
            /\ UNCHANGED <<saved, running, sent, stale, blocks, stops>>
            BY <1>6 DEF Sync!ReadLine
      <2>2. s \in Sync!States /\ StateOK(s)
            <3>1. CASE m.type = "state_snapshot"
                  <4>1. StateOK(m.snap) /\ StateOK(st[n]) /\ st[n] \in Sync!States  BY <3>1 DEF MessageOK
                  <4> QED  BY <4>1, TakeOK DEF Sync!StateAfter
            <3>2. CASE m.type # "state_snapshot"  BY <3>2 DEF Sync!StateAfter
            <3> QED  BY <3>1, <3>2
      <2> HIDE DEF s
      <2>3. \A x \in Sync!Replies(n, m) : MessageOK(x)
            <3>1. m.from \in Peers /\ StateOK(st[n])  BY DEF MessageOK
            <3>2. \A h, t, e : MessageOK(Sync!Msg("hello", n, m.from, h, t, e))
                               /\ MessageOK(Sync!Msg("state_request", n, m.from, h, t, e))
                  BY <3>1 DEF MessageOK, Sync!Msg
            <3>3. \A h, e : MessageOK(Sync!Msg("state_snapshot", n, m.from, h, st[n], e))
                  BY <3>1 DEF MessageOK, Sync!Msg
            <3> HIDE DEF SyncInv
            <3>4. CASE m.type = "greet"  BY <3>2, <3>4 DEF Sync!Replies
            <3>5. CASE m.type = "hello"
                  <4>1. \A x \in Sync!Replies(n, m) :
                          x = Sync!Msg("state_request", n, m.from, 0, <<>>, FALSE)
                        BY <3>5 DEF Sync!Replies
                  <4>2. MessageOK(Sync!Msg("state_request", n, m.from, 0, <<>>, FALSE))  BY <3>2
                  <4>3. \A x \in Sync!Replies(n, m) : MessageOK(x)
                        <5> DEFINE y == Sync!Msg("state_request", n, m.from, 0, <<>>, FALSE)
                        <5> HIDE DEF y
                        <5> QED  BY <4>1, <4>2 DEF y
                  <4> QED  BY <4>3
            <3>6. CASE m.type = "state_request"  BY <3>3, <3>6 DEF Sync!Replies
            <3>7. CASE m.type \notin {"greet", "hello", "state_request"}
                  BY <3>7 DEF Sync!Replies
            <3> QED  BY <3>4, <3>5, <3>6, <3>7
      <2>4. \A x : (StateOK(x) => StateOK(x)') /\ (MessageOK(x) => MessageOK(x)')  BY <2>1, SameBlocks
      <2>5. \A x \in wire' : MessageOK(x)'  BY <2>1, <2>3, <2>4
      <2>6. st' \in [Peers -> Sync!States] /\ \A k \in Peers : StateOK(st'[k])  BY <2>1, <2>2
      <2> QED  BY <2>1, <2>4, <2>5, <2>6
<1>7. ASSUME NEW n \in Peers, Sync!Autosave(n) PROVE SyncInv'
      <2>1. saved' = [saved EXCEPT ![n] = st[n]] /\ UNCHANGED <<st, running, sent, stale, blocks, wire, stops>>
            BY <1>7 DEF Sync!Autosave
      <2>2. \A x : (StateOK(x) => StateOK(x)') /\ (MessageOK(x) => MessageOK(x)')  BY <2>1, SameBlocks
      <2>3. saved' \in [Peers -> Sync!States] /\ \A k \in Peers : StateOK(saved'[k])  BY <2>1
      <2> QED  BY <2>1, <2>2, <2>3
<1>8. ASSUME NEW n \in Peers, Sync!Stop(n) PROVE SyncInv'
      <2>1. /\ saved' \in {saved, [saved EXCEPT ![n] = st[n]]} /\ running' = running \ {n}
            /\ stops < MaxCrashes /\ stops' = stops + 1
            /\ wire' \subseteq wire /\ st' = [st EXCEPT ![n] = Sync!Blank] /\ UNCHANGED <<sent, stale, blocks>>
            BY <1>8 DEF Sync!Stop
      <2>2. \A x : (StateOK(x) => StateOK(x)') /\ (MessageOK(x) => MessageOK(x)')  BY <2>1, SameBlocks
      <2>3. saved' \in [Peers -> Sync!States] /\ \A k \in Peers : StateOK(saved'[k])  BY <2>1
      <2>4. st' \in [Peers -> Sync!States] /\ \A k \in Peers : StateOK(st'[k])  BY <2>1, BlankOK
      <2>5. stops' \in 0..MaxCrashes  BY <2>1 DEF Sync!NodeSyncAssumption
      <2> QED  BY <2>1, <2>2, <2>3, <2>4, <2>5
<1>9. ASSUME NEW n \in Peers, Sync!Start(n) PROVE SyncInv'
      <2> DEFINE s == Sync!Restored(saved[n])
      <2>1. /\ st' = [st EXCEPT ![n] = s] /\ saved' = [saved EXCEPT ![n] = s] /\ running' = running \cup {n}
            /\ wire' = wire \cup {Sync!Msg("greet", n, m, Len(st'[n].chain), <<>>, TRUE) : m \in (Seeds \cap running) \ {n}}
            /\ UNCHANGED <<sent, stale, blocks, stops>>
            BY <1>9 DEF Sync!Start
      <2>2. s \in Sync!States /\ StateOK(s)  BY TakeOK
      <2> HIDE DEF s
      <2>3. \A x : (StateOK(x) => StateOK(x)') /\ (MessageOK(x) => MessageOK(x)')  BY <2>1, SameBlocks
      <2>4. st' \in [Peers -> Sync!States] /\ saved' \in [Peers -> Sync!States]
            /\ \A k \in Peers : StateOK(st'[k]) /\ StateOK(saved'[k])
            BY <2>1, <2>2
      <2>5. \A h, e : \A m \in Peers : MessageOK(Sync!Msg("greet", n, m, h, <<>>, e))  BY DEF MessageOK, Sync!Msg
      <2>6. \A x \in wire' : MessageOK(x)
            <3>1. ASSUME NEW x \in wire', x \notin wire PROVE MessageOK(x)
                  <4>1. PICK m \in Peers : x = Sync!Msg("greet", n, m, Len(st'[n].chain), <<>>, TRUE)
                        BY <2>1, <3>1
                  <4> QED  BY <2>5, <4>1
            <3> QED  BY <3>1
      <2> QED  BY <2>1, <2>3, <2>4, <2>6
<1>10. ASSUME NEW t \in Txs, Sync!Expire(t) PROVE SyncInv'
      <2>1. stale' = stale \cup {t} /\ UNCHANGED <<st, saved, running, sent, blocks, wire, stops>>
            BY <1>10 DEF Sync!Expire
      <2>2. \A x : (StateOK(x) => StateOK(x)') /\ (MessageOK(x) => MessageOK(x)')  BY <2>1, SameBlocks
      <2> QED  BY <2>1, <2>2
<1>11. ASSUME UNCHANGED Sync!vars PROVE SyncInv'
      <2>1. UNCHANGED <<st, saved, running, sent, stale, blocks, wire, stops>>  BY <1>11 DEF Sync!vars
      <2>2. \A x : (StateOK(x) => StateOK(x)') /\ (MessageOK(x) => MessageOK(x)')  BY <2>1, SameBlocks
      <2> QED  BY <2>1, <2>2
<1> QED  BY <1>2, <1>3, <1>4, <1>5, <1>6, <1>7, <1>8, <1>9, <1>10, <1>11 DEF Sync!Next

(* Every state in memory, on disk or on the wire is well formed, has one of
   the chains ever made, each sealing a transaction once; and, where no
   transaction leaves an entry of bridge usage, its ledger holds what its
   replay guard knows. *)
THEOREM SyncInvHolds ==
    ASSUME Sync!NodeSyncAssumption
    PROVE  Sync!Spec => []SyncInv
BY InitSync, NextSync, PTL DEF Sync!Spec

(* No chain of any node names a transaction twice, through every order of
   blocks, crashes, old files and snapshots. *)
THEOREM SealedOnceHolds ==
    ASSUME Sync!NodeSyncAssumption
    PROVE  Sync!Spec => []Sync!SealedOnce
<1>1. SyncInv => Sync!SealedOnce  BY DEF SyncInv, StateOK, StateAmong, SyncChainOK, Sync!SealedOnce
<1> QED  BY SyncInvHolds, <1>1, PTL

(* As long as no transaction leaves an entry of bridge usage (the entries on
   which apply_snapshot stops half way), ledger, replay guard and chain of
   every node come from one moment and no transaction is executed twice. *)
THEOREM NothingTwiceHolds ==
    ASSUME Sync!NodeSyncAssumption, BridgeTxs = {}
    PROVE  Sync!Spec => []Sync!NothingTwice
<1>1. ASSUME SyncInv PROVE Sync!NothingTwice
      <2>1. Sync!TypeOK  BY <1>1 DEF SyncInv, Sync!TypeOK, StateOK, StateAmong, MessageOK
      <2>2. Sync!ExecutedOnce  BY <1>1 DEF SyncInv, StateOK, StateAmong, Agrees, Sync!ExecutedOnce
      <2>3. Sync!SealedOnce  BY <1>1 DEF SyncInv, StateOK, StateAmong, SyncChainOK, Sync!SealedOnce
      <2> QED  BY <2>1, <2>2, <2>3 DEF Sync!NothingTwice
<1> QED  BY SyncInvHolds, <1>1, PTL
=============================================================================
