----------------------------- MODULE Consensus -----------------------------
(***************************************************************************)
(* The PoS consensus engine (core/consensus.py) of a network of validator  *)
(* nodes: every node elects, produces, verifies, adopts and penalises      *)
(* from its own chain and its own stake ledger, transactions take effect   *)
(* when they arrive, blocks travel by lossy unordered gossip, and a node   *)
(* that stops comes back with its last autosaved snapshot.                 *)
(*                                                                         *)
(* Abstractions.  A block's hash is its index in `made` (two productions   *)
(* never collide: the timestamp is hashed).  The draw of the election,     *)
(* sha3(prev_hash + height), is a number chosen when prev is made.  Clocks *)
(* agree; a block's age only matters as "proposer_timeout has passed       *)
(* since it", so time is the number of blocks that are that old.           *)
(***************************************************************************)
EXTENDS Integers, Sequences, FiniteSets, Functions, SequencesExt

CONSTANTS
    N,              \* validators are 1..N, in address order
    Txs,            \* transaction ids
    StakeBy,        \* StakeBy[t] = [addr, delta]: what t does to the stakes
    GenesisStake,   \* stakes all nodes start from
    GenesisDraw,    \* draw of height 0
    Draws,          \* draws a new block may give its successor
    MaxStake, EpochLen, JailEpochs, MissThreshold,
    InactivityPct, EquivocationPct,   \* slash ratios, in percent
    MaxBlocks,      \* bound: blocks ever produced
    MaxTimeouts,    \* bound: blocks that get older than proposer_timeout
    MaxCrashes      \* bound: crashes of all nodes together

Nodes == 1..N
None  == 0

ASSUME ConsensusAssumption ==
    /\ N \in Nat \ {0}
    /\ StakeBy \in [Txs -> [addr : Nodes, delta : Int]]
    /\ GenesisStake \in [Nodes -> Nat]
    /\ GenesisDraw \in Nat /\ Draws \subseteq Nat /\ Draws # {}
    /\ {MaxStake, EpochLen, JailEpochs, MissThreshold} \subseteq Nat \ {0}
    /\ {InactivityPct, EquivocationPct} \subseteq 0..100
    /\ {MaxBlocks, MaxTimeouts, MaxCrashes} \subseteq Nat

VARIABLES
    made,     \* every block ever signed, in order of timestamp
    expired,  \* blocks 1..expired are at least proposer_timeout old
    mem,      \* mem[n]: chain, dag, stakes, jailed, missed, epoch of node n
    disk,     \* disk[n]: the snapshot in n's state file
    up,       \* running nodes
    net,      \* new_block messages under way: [to, from, id]
    crashes

vars == <<made, expired, mem, disk, up, net, crashes>>

Blank == [chain  |-> <<>>, dag |-> {}, stakes |-> GenesisStake,
          jailed |-> [v \in Nodes |-> 0], missed |-> [v \in Nodes |-> 0],
          epoch  |-> [v \in Nodes |-> 0]]

Init ==
    /\ made = <<>> /\ expired = 0 /\ net = {} /\ crashes = 0
    /\ up = Nodes
    /\ mem = [n \in Nodes |-> Blank] /\ disk = mem

-----------------------------------------------------------------------------
(* Chain, election and penalties, as functions of one node's state s.      *)

Height(s) == Len(s.chain)
TipOf(s)  == IF s.chain = <<>> THEN None ELSE Last(s.chain)
SealedTxs(s) == UNION {made[s.chain[i]].txids : i \in DOMAIN s.chain}
Pending(s) == s.dag \ SealedTxs(s)

MinOf(a, b) == IF a < b THEN a ELSE b
MaxOf(a, b) == IF a > b THEN a ELSE b

RefreshEpochStakes(s, height) ==
    [s EXCEPT !.epoch = [v \in Nodes |-> IF s.jailed[v] > height THEN 0
                                         ELSE MinOf(s.stakes[v], MaxStake)]]

AtBoundary(s, height) ==
    IF height % EpochLen = 0 THEN RefreshEpochStakes(s, height) ELSE s

Draw(prev) == IF prev = None THEN GenesisDraw ELSE made[prev].draw

ElectProposer(epoch, draw) ==
    LET total   == SumFunction(epoch)
        upto(v) == SumFunctionOnSet(epoch, 1..v)
    IN  IF total = 0 THEN None
        ELSE CHOOSE v \in Nodes : /\ upto(v - 1) <= draw % total
                                  /\ draw % total < upto(v)

IsStaked(s, v) == s.epoch[v] > 0

Slash(s, v, pct, height) ==
    LET amount == MinOf(s.stakes[v], MaxOf(1, (s.stakes[v] * pct) \div 100))
    IN  IF s.stakes[v] <= 0 THEN s
        ELSE [s EXCEPT !.stakes[v] = @ - amount,
                       !.jailed[v] = MaxOf(@, height + EpochLen * JailEpochs)]

CountMiss(s, v, height) ==
    IF s.missed[v] + 1 >= MissThreshold
    THEN [Slash(s, v, InactivityPct, height) EXCEPT !.missed[v] = 0]
    ELSE [s EXCEPT !.missed[v] = @ + 1]

BugBlamesAnyFork(s, id) ==
    IF s.chain[made[id].height + 1] # id
    THEN Slash(s, made[id].proposer, EquivocationPct, Height(s)) ELSE s
DetectEquivocation(s, id) ==
    LET held == s.chain[made[id].height + 1]
    IN  IF made[held].proposer = made[id].proposer /\ held # id
        THEN Slash(s, made[id].proposer, EquivocationPct, Height(s))
        ELSE s

TimedOut(prev) == prev # None /\ prev <= expired

(* Whether node n with state s (already refreshed) may produce the next
   block: it is elected, nobody is, or the tip is older than the timeout. *)
BugEverybodyProduces(s, n) == TRUE
BugNoFallback(s, n) == ElectProposer(s.epoch, Draw(TipOf(s))) \in {None, n}
MayProduce(s, n) ==
    \/ ElectProposer(s.epoch, Draw(TipOf(s))) \in {None, n}
    \/ TimedOut(TipOf(s))

BugElectedCountsAsMiss(s, id) ==
    LET r       == AtBoundary(s, made[id].height)
        elected == ElectProposer(r.epoch, Draw(made[id].prev))
        grown   == [r EXCEPT !.chain = Append(@, id)]
    IN  [took  |-> TRUE,
         state |-> IF elected = None THEN grown
                   ELSE CountMiss(grown, elected, made[id].height)]

(* adopt_block with _verify_pos_block: the node's state after a block that
   fits its tip, and whether the block was taken.  The boundary refresh
   happens before the proposer is judged and stays when it is rejected. *)
VerifyAndAdopt(s, id) ==
    LET b       == made[id]
        r       == AtBoundary(s, b.height)
        elected == ElectProposer(r.epoch, Draw(b.prev))
        grown   == [r EXCEPT !.chain = Append(@, id)]
    IN  CASE elected = None       -> [took |-> TRUE, state |-> grown]
          [] elected = b.proposer -> [took  |-> TRUE,
                                      state |-> [grown EXCEPT !.missed[elected] = 0]]
          [] elected \notin {None, b.proposer} /\ b.late /\ IsStaked(r, b.proposer)
                                  -> [took |-> TRUE,
                                      state |-> CountMiss(grown, elected, b.height)]
          [] OTHER                -> [took |-> FALSE, state |-> r]

BugPrevNotCompared(s, id) ==
    CASE made[id].height < Height(s) ->
           [took |-> FALSE, state |-> DetectEquivocation(s, id)]
      [] made[id].height = Height(s) -> VerifyAndAdopt(s, id)
      [] OTHER -> [took |-> FALSE, state |-> s]

AdoptBlock(s, id) ==
    CASE made[id].height < Height(s) ->
           [took |-> FALSE, state |-> DetectEquivocation(s, id)]
      [] made[id].height = Height(s) /\ made[id].prev = TipOf(s) ->
           VerifyAndAdopt(s, id)
      [] OTHER -> [took |-> FALSE, state |-> s]

\* gossip: one copy to every peer that can be reached
Gossip(n, id) == {[to |-> p, from |-> n, id |-> id] : p \in up \ {n}}

-----------------------------------------------------------------------------
(* A transaction reaches node n (submitted or gossiped): it is applied and
   enters the dag at once, in the order of arrival at this node. *)
ReceiveTx(n, t) ==
    /\ n \in up /\ t \notin mem[n].dag
    /\ mem' = [mem EXCEPT ![n].dag = @ \cup {t},
                          ![n].stakes[StakeBy[t].addr] = MaxOf(0, @ + StakeBy[t].delta)]
    /\ UNCHANGED <<made, expired, disk, up, net, crashes>>

(* checkpoint_loop, when the election says it is another's turn. *)
AwaitTurn(n) ==
    LET s == AtBoundary(mem[n], Height(mem[n]))
    IN  /\ n \in up /\ Pending(mem[n]) # {} /\ ~MayProduce(s, n)
        /\ mem' = [mem EXCEPT ![n] = s]
        /\ UNCHANGED <<made, expired, disk, up, net, crashes>>

(* checkpoint_loop, when this node may produce: it signs a block of all its
   pending transactions, appends it and gossips it. *)
ProduceBlock(n) ==
    LET s    == AtBoundary(mem[n], Height(mem[n]))
        prev == TipOf(s)
        id   == Len(made) + 1
    IN  /\ n \in up /\ Pending(mem[n]) # {} /\ MayProduce(s, n)
        /\ Len(made) < MaxBlocks
        /\ \E d \in Draws :
             made' = Append(made, [height |-> Height(s), prev |-> prev, proposer |-> n,
                                   txids |-> Pending(s), late |-> TimedOut(prev), draw |-> d])
        /\ mem' = [mem EXCEPT ![n] = [s EXCEPT !.chain = Append(@, id)]]
        /\ net' = net \cup Gossip(n, id)
        /\ UNCHANGED <<expired, disk, up, crashes>>

(* process_message of a new_block; only an adopted block is passed on, to
   every peer, the one it came from included (gossip opens a connection of
   its own, so the receiver does not know the sender as a peer). *)
DeliverBlock(m) ==
    LET r == AdoptBlock(mem[m.to], m.id)
    IN  /\ m \in net
        /\ mem' = [mem EXCEPT ![m.to] = r.state]
        /\ net' = (net \ {m}) \cup IF r.took THEN Gossip(m.to, m.id) ELSE {}
        /\ UNCHANGED <<made, expired, disk, up, crashes>>

(* proposer_timeout passes for the oldest young block. *)
Elapse ==
    /\ expired < Len(made) /\ expired < MaxTimeouts
    /\ expired' = expired + 1
    /\ UNCHANGED <<made, mem, disk, up, net, crashes>>

(* _autosave_loop (what is saved matters only while a crash is possible). *)
Autosave(n) ==
    /\ n \in up /\ disk[n] # mem[n] /\ crashes < MaxCrashes
    /\ disk' = [disk EXCEPT ![n] = mem[n]]
    /\ UNCHANGED <<made, expired, mem, up, net, crashes>>

(* The process dies without the cleanup save: what is left of it is its state
   file, and the connections to it die with it. *)
Crash(n) ==
    /\ n \in up /\ crashes < MaxCrashes
    /\ crashes' = crashes + 1 /\ up' = up \ {n}
    /\ mem' = [mem EXCEPT ![n] = disk[n]]
    /\ net' = {m \in net : m.to # n}
    /\ UNCHANGED <<made, expired, disk>>

(* A new process, which has loaded the state file. *)
Restart(n) ==
    /\ n \notin up
    /\ up' = up \cup {n}
    /\ UNCHANGED <<made, expired, mem, disk, net, crashes>>

Next ==
    \/ \E n \in Nodes, t \in Txs : ReceiveTx(n, t)
    \/ \E n \in Nodes : AwaitTurn(n) \/ ProduceBlock(n)
    \/ \E m \in net : DeliverBlock(m)
    \/ Elapse
    \/ \E n \in Nodes : Autosave(n) \/ Crash(n) \/ Restart(n)

Spec == Init /\ [][Next]_vars

(* The loops keep running on a live node, time passes, and, for the runs
   that need it, transactions and blocks that can arrive do. *)
FairSpec ==
    /\ Spec
    /\ WF_vars(Elapse)
    /\ \A n \in Nodes : WF_vars(ProduceBlock(n))
    /\ \A n \in Nodes, t \in Txs : WF_vars(ReceiveTx(n, t))
    /\ WF_vars(\E m \in net : DeliverBlock(m))

-----------------------------------------------------------------------------
NodeStates ==
    [chain : Seq(1..MaxBlocks), dag : SUBSET Txs, stakes : [Nodes -> Nat],
     jailed : [Nodes -> Nat], missed : [Nodes -> 0..MissThreshold - 1],
     epoch : [Nodes -> 0..MaxStake]]

Blocks == [height : Nat, prev : 0..MaxBlocks, proposer : Nodes, txids : SUBSET Txs,
           late : BOOLEAN, draw : Draws]

(* Types, and the bookkeeping a node relies on: every block of its chain
   exists and names its predecessor and its height, so the chain really is a
   hash chain. *)
ChainOf(s) == \A i \in DOMAIN s.chain :
                /\ s.chain[i] \in DOMAIN made
                /\ made[s.chain[i]].height = i - 1
                /\ made[s.chain[i]].prev = IF i = 1 THEN None ELSE s.chain[i - 1]

TypeOK ==
    /\ made \in Seq(Blocks) /\ Len(made) <= MaxBlocks /\ expired \in 0..Len(made)
    /\ mem \in [Nodes -> NodeStates] /\ disk \in [Nodes -> NodeStates]
    /\ up \subseteq Nodes /\ crashes \in 0..MaxCrashes
    /\ net \subseteq [to : Nodes, from : Nodes, id : DOMAIN made]
    /\ \A n \in Nodes : ChainOf(mem[n]) /\ ChainOf(disk[n])

(* No transaction is sealed by two blocks of one chain, although adopt_block
   never compares a block's txids with what is sealed already: the check on
   prev_hash is all that protects this. *)
SealedOnce ==
    \A n \in Nodes : \A i, j \in DOMAIN mem[n].chain :
        i < j => made[mem[n].chain[i]].txids \cap made[mem[n].chain[j]].txids = {}

(* The chains of the nodes, in memory and on disk, are hash chains of typed
   records that seal no transaction twice. *)
ChainsAreSound == TypeOK /\ SealedOnce

DoubleSigned(v) ==
    \E i, j \in DOMAIN made : /\ i # j /\ made[i].height = made[j].height
                              /\ made[i].proposer = v /\ made[j].proposer = v

NextBoundary(h) == IF h % EpochLen = 0 THEN h ELSE (h \div EpochLen + 1) * EpochLen

(* A stake cut that comes with neither a block nor a transaction is an
   equivocation penalty.  It only ever hits a validator that really signed
   two blocks of one height, whatever forks, crashes and late messages the
   node has seen, and it jails it past the next epoch boundary, so that the
   first snapshot after the penalty leaves it out. *)
EquivocatorsArePenalised ==
    [][\A n \in up \cap up', v \in Nodes :
         /\ mem'[n].stakes[v] < mem[n].stakes[v]
         /\ mem'[n].chain = mem[n].chain /\ mem'[n].dag = mem[n].dag
         => DoubleSigned(v) /\ mem'[n].jailed[v] > NextBoundary(Height(mem[n]))]_vars

(* A node's miss count of a validator never exceeds the late blocks by
   others in that node's own chain: a miss is always witnessed by a block,
   even when chains fork and nodes restart from old snapshots. *)
MissesAreWitnessed ==
    \A n \in Nodes, v \in Nodes :
        mem[n].missed[v] <=
            Cardinality({i \in DOMAIN mem[n].chain :
                           LET b == made[mem[n].chain[i]] IN b.late /\ b.proposer # v})

(* Until a block outlives the timeout or a node crashes, and with one stake
   ledger, no two nodes hold different blocks at a height. *)
Agreement ==
    expired = 0 /\ crashes = 0 =>
        \A m, n \in Nodes : \A i \in DOMAIN mem[m].chain \cap DOMAIN mem[n].chain :
            mem[m].chain[i] = mem[n].chain[i]

(* A transaction in the dag of a live node is sealed in that node's chain
   sooner or later: the chain does not stall. *)
PendingIsSealed ==
    \A n \in Nodes, t \in Txs :
        t \in mem[n].dag ~> (t \in SealedTxs(mem[n]) \/ n \notin up)

-----------------------------------------------------------------------------
(* Claims of the documentation that the code does not keep (see README).   *)

(* README.md:131, a timeout penalty "takes effect with the chain, the same
   on the whole network": equal chains give equal counts and stakes. *)
PenaltiesFollowTheChain ==
    \A m, n \in Nodes :
        /\ mem[m].chain = mem[n].chain /\ mem[m].dag = mem[n].dag
        => /\ mem[m].missed = mem[n].missed
           /\ mem[m].stakes = mem[n].stakes

(* README.md:134, a penalised address is left out of the snapshot of the
   next epoch. *)
InactiveSitsOut ==
    [][\A n \in up \cap up', v \in Nodes :
         /\ mem'[n].jailed[v] > mem[n].jailed[v]
         /\ mem'[n].chain # mem[n].chain
         => mem'[n].jailed[v] > (Height(mem[n]) \div EpochLen + 1) * EpochLen]_vars

(* README.md:122, only a node with stake fills in for an absent proposer. *)
FillInNeedsStake ==
    [][\A n \in up' :
         /\ Len(made') > Len(made) /\ made'[Len(made')].proposer = n
         => \/ ElectProposer(mem'[n].epoch, Draw(TipOf(mem[n]))) \in {None, n}
            \/ IsStaked(mem'[n], n)]_vars

(* consensus.py:135, the elected proposer is only penalised for windows it
   missed in a row: an own timely block clears its count everywhere. *)
TimelyBlockClearsMisses ==
    \A n \in Nodes : mem[n].chain # <<>> =>
        LET b == made[Last(mem[n].chain)]
        IN  ~b.late /\ SumFunction(mem[n].epoch) > 0 => mem[n].missed[b.proposer] = 0
=============================================================================
