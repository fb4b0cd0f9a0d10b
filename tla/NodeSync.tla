------------------------------ MODULE NodeSync ------------------------------
(***************************************************************************)
(* A NovaNode and its peers in the default (checkpoint) mode               *)
(* (nova_node.py, network/p2p.py, network/security.py, the checkpoint half *)
(* of core/consensus.py): transactions are executed where and when they    *)
(* arrive, guarded by the set of processed ids; blocks only name them.     *)
(* The node saves store, replay guard and chain to one file, and reads     *)
(* them back in that order.                                                *)
(*                                                                         *)
(* A transaction t takes Cost[t] from Payer[t]; those in BridgeTxs claim   *)
(* bridge deposits, which stand ready on every node and in every file, and *)
(* leave an entry in bridge_daily_usage.  Gossip is lossy, repeats and     *)
(* reorders: whatever was sent may reach anybody, any number of times, a   *)
(* transaction until it is 300 s old.                                      *)
(***************************************************************************)
EXTENDS Integers, FiniteSets, Sequences, SequencesExt

CONSTANTS Nodes, Txs, Payers, Payer, Cost, Funds,
          BridgeTxs,       \* transactions that record bridge usage
          Seeds,           \* --seed of every node
          SyncFromSeeds,   \* --sync-from-seeds
          MaxBlocks, MaxCrashes

ASSUME NodeSyncAssumption ==
    /\ Payer \in [Txs -> Payers] /\ Cost \in [Txs -> Nat \ {0}] /\ Funds \in Nat
    /\ BridgeTxs \subseteq Txs /\ Seeds \subseteq Nodes /\ SyncFromSeeds \in BOOLEAN
    /\ MaxBlocks \in Nat /\ MaxCrashes \in Nat

VARIABLES
    st,       \* the state in memory: see Blank
    disk,     \* the state file
    up,
    sent,     \* transactions gossiped so far
    expired,  \* transactions older than 300 s
    blocks,   \* blocks gossiped so far, as the chain each one ends
    wire,     \* messages on connections made at start
    crashes

vars == <<st, disk, up, sent, expired, blocks, wire, crashes>>

\* times: how often the ledger holds t; dag; seen: processed_txids;
\* usage: bridge_daily_usage is not empty
Blank == [times |-> [t \in Txs |-> 0], dag |-> {}, usage |-> FALSE,
          seen |-> {}, chain |-> <<>>]

Init ==
    /\ st = [n \in Nodes |-> Blank] /\ disk = [n \in Nodes |-> Blank]
    /\ up = Nodes /\ sent = {} /\ expired = {} /\ blocks = {} /\ wire = {} /\ crashes = 0

-----------------------------------------------------------------------------
Spent(s, p) == SumFunction([t \in {x \in Txs : Payer[x] = p} |-> s.times[t] * Cost[t]])

\* a claim is refused, guard or not, once its deposit is minted; deposits are
\* restored together with the ledger
Valid(s, t) ==
    /\ t \notin s.seen /\ t \notin expired
    /\ t \in BridgeTxs => s.times[t] = 0
    /\ Spent(s, Payer[t]) + Cost[t] <= Funds

Apply(s, t) ==
    [s EXCEPT !.seen = @ \cup {t}, !.dag = @ \cup {t}, !.times[t] = @ + 1,
              !.usage = @ \/ t \in BridgeTxs]

Sealed(chain) == UNION {chain[i].txs : i \in DOMAIN chain}

\* apply_snapshot on a fresh node: balances, dag, ..., then bridge_daily_usage,
\* whose entries are not numbers: the rest of the store, the replay guard and
\* the chain are then left as they were (empty)
BugGuardNotSaved(s) == [Blank EXCEPT !.times = s.times, !.dag = s.dag, !.chain = s.chain]
Restored(s) ==
    IF s.usage THEN [Blank EXCEPT !.times = s.times, !.dag = s.dag] ELSE s

\* the same over a node's present state
TakeSnapshot(old, s) ==
    IF s.usage THEN [old EXCEPT !.times = s.times, !.dag = s.dag] ELSE s

-----------------------------------------------------------------------------
(* broadcast_tx, from the node's RPC interface. *)
Submit(n, t) ==
    /\ n \in up /\ t \notin sent /\ Valid(st[n], t)
    /\ st' = [st EXCEPT ![n] = Apply(@, t)]
    /\ sent' = sent \cup {t}
    /\ UNCHANGED <<disk, up, expired, blocks, wire, crashes>>

(* new_tx from a peer; a node that executes it passes it on. *)
DeliverTx(n, t) ==
    /\ n \in up /\ t \in sent /\ Valid(st[n], t)
    /\ st' = [st EXCEPT ![n] = Apply(@, t)]
    /\ UNCHANGED <<disk, up, sent, expired, blocks, wire, crashes>>

Expire(t) ==
    /\ t \in sent \ expired
    /\ expired' = expired \cup {t}
    /\ UNCHANGED <<st, disk, up, sent, blocks, wire, crashes>>

(* checkpoint_loop: seal what the chain does not name yet.  The id stands
   for the hash: no two blocks share one. *)
BugSealedElsewhere(n) ==
    LET pending == st[n].dag \ UNION {Sealed(c) : c \in blocks}
        b == [txs |-> pending, id |-> Cardinality(blocks)]
    IN  /\ n \in up /\ pending # {} /\ Cardinality(blocks) < MaxBlocks
        /\ st' = [st EXCEPT ![n].chain = Append(@, b)]
        /\ blocks' = blocks \cup {st'[n].chain}
        /\ UNCHANGED <<disk, up, sent, expired, wire, crashes>>
Produce(n) ==
    LET pending == st[n].dag \ Sealed(st[n].chain)
        b == [txs |-> pending, id |-> Cardinality(blocks)]
    IN  /\ n \in up /\ pending # {} /\ Cardinality(blocks) < MaxBlocks
        /\ st' = [st EXCEPT ![n].chain = Append(@, b)]
        /\ blocks' = blocks \cup {st'[n].chain}
        /\ UNCHANGED <<disk, up, sent, expired, wire, crashes>>

(* new_block: taken if it extends the node's own chain by one; its
   transactions are not executed. *)
DeliverBlock(n, c) ==
    /\ n \in up /\ c \in blocks
    /\ Len(c) = Len(st[n].chain) + 1 /\ IsPrefix(st[n].chain, c)
    /\ st' = [st EXCEPT ![n].chain = c]
    /\ UNCHANGED <<disk, up, sent, expired, blocks, wire, crashes>>

-----------------------------------------------------------------------------
\* a message on a connection; a reader hands over whole lines only
Msg(type, from, to, height, snap, eol) ==
    [type |-> type, from |-> from, to |-> to, height |-> height, snap |-> snap, eol |-> eol]

\* what the handler writes back; process_message sends the request for state
\* without the newline that ends a line
Replies(n, m) ==
    LET height == Len(st[n].chain)
    IN  CASE m.type = "greet"   -> {Msg("hello", n, m.from, height, <<>>, TRUE)}
          [] m.type = "hello"   -> IF m.height > height
                                   THEN {Msg("state_request", n, m.from, 0, <<>>, FALSE)} ELSE {}
          [] m.type = "state_request" -> {Msg("state_snapshot", n, m.from, 0, st[n], TRUE)}
          [] OTHER -> {}

StateAfter(n, m) ==
    IF /\ m.type = "state_snapshot" /\ SyncFromSeeds /\ m.from \in Seeds
       /\ Len(m.snap.chain) >= Len(st[n].chain)
    THEN TakeSnapshot(st[n], m.snap) ELSE st[n]

ReadLine(n, m) ==
    /\ n \in up /\ m \in wire /\ m.to = n /\ m.eol
    /\ st' = [st EXCEPT ![n] = StateAfter(n, m)]
    /\ wire' = (wire \ {m}) \cup Replies(n, m)
    /\ UNCHANGED <<disk, up, sent, expired, blocks, crashes>>

-----------------------------------------------------------------------------
(* save_state writes a new file and renames it over the old one. *)
Autosave(n) ==
    /\ n \in up /\ disk[n] # st[n]
    /\ disk' = [disk EXCEPT ![n] = st[n]]
    /\ UNCHANGED <<st, up, sent, expired, blocks, wire, crashes>>

(* The process is killed (the file is as last saved) or exits (it saves). *)
Stop(n) ==
    /\ n \in up /\ crashes < MaxCrashes
    /\ disk' \in {disk, [disk EXCEPT ![n] = st[n]]}
    /\ up' = up \ {n} /\ crashes' = crashes + 1
    /\ wire' = {m \in wire : n \notin {m.from, m.to}}
    /\ st' = [st EXCEPT ![n] = Blank]
    /\ UNCHANGED <<sent, expired, blocks>>

(* A node loads its file, saves, and greets the seeds it can reach. *)
Start(n) ==
    /\ n \notin up
    /\ up' = up \cup {n}
    /\ st' = [st EXCEPT ![n] = Restored(disk[n])]
    /\ disk' = [disk EXCEPT ![n] = Restored(disk[n])]
    /\ wire' = wire \cup {Msg("greet", n, m, Len(st'[n].chain), <<>>, TRUE)
                            : m \in (Seeds \cap up) \ {n}}
    /\ UNCHANGED <<sent, expired, blocks, crashes>>

Next ==
    \/ \E n \in Nodes : \/ \E t \in Txs : Submit(n, t) \/ DeliverTx(n, t)
                        \/ Produce(n) \/ Autosave(n) \/ Stop(n) \/ Start(n)
                        \/ \E c \in blocks : DeliverBlock(n, c)
                        \/ \E m \in wire : ReadLine(n, m)
    \/ \E t \in Txs : Expire(t)

Spec == Init /\ [][Next]_vars

(* The loops of a running node, the reading of connections and an operator
   who restarts nodes; no fairness of gossip. *)
FairSpec ==
    /\ Spec
    /\ \A n \in Nodes : /\ WF_vars(Produce(n)) /\ WF_vars(Start(n)) /\ WF_vars(Autosave(n))
                        /\ WF_vars(\E m \in wire : ReadLine(n, m))

-----------------------------------------------------------------------------
States == [times : [Txs -> Nat], dag : SUBSET Txs, usage : BOOLEAN, seen : SUBSET Txs,
           chain : Seq([txs : SUBSET Txs, id : 0..MaxBlocks])]

TypeOK ==
    /\ st \in [Nodes -> States] /\ disk \in [Nodes -> States]
    /\ up \subseteq Nodes /\ sent \subseteq Txs /\ expired \subseteq Txs
    /\ \A n \in Nodes : {st[n].chain, disk[n].chain} \subseteq blocks \cup {<<>>}
    /\ \A m \in wire : m.from \in Nodes /\ m.to \in Nodes
    /\ crashes \in 0..MaxCrashes

(* The ledger and the replay guard agree through every crash and restart: a
   transaction is executed at most once, and what the guard has forgotten
   the ledger has forgotten too. *)
ExecutedOnce ==
    \A n \in up : \A t \in Txs :
        /\ st[n].times[t] \in {0, 1}
        /\ t \in st[n].seen <=> st[n].times[t] = 1

(* No chain names a transaction twice, though nodes build on each other's
   blocks and start over from old files. *)
SealedOnce ==
    \A n \in Nodes : \A i, j \in DOMAIN st[n].chain :
        i # j => st[n].chain[i].txs \cap st[n].chain[j].txs = {}

(* Ledger, replay guard and chain of every node come from one moment: nothing
   is executed or sealed a second time. *)
NothingTwice == TypeOK /\ ExecutedOnce /\ SealedOnce

(* Every transaction a node has executed ends up in its chain, unless the
   node dies first (or the bound on blocks is reached). *)
ExecutedIsSealed ==
    \A n \in Nodes : \A t \in Txs :
        (t \in st[n].dag)
          ~> \/ t \in Sealed(st[n].chain) \/ t \notin st[n].dag
             \/ Cardinality(blocks) = MaxBlocks

-----------------------------------------------------------------------------
(* Claims of the documentation that the code does not keep (see README).   *)

(* README.md:106, balances, DAG, stakes, check-ins and the replay guard are
   saved and come back: no transaction is executed twice. *)
NeverTwice == \A n \in up : \A t \in Txs : st[n].times[t] <= 1

(* README.md:124, operations take effect on all nodes alike once sealed in a
   block: what a node's chain names, it has executed. *)
SealedIsExecuted ==
    \A n \in up : \A t \in Sealed(st[n].chain) : st[n].times[t] = 1

(* README.md:112, on the handshake a node that is behind asks its peer for a
   snapshot and restores it. *)
LateNodeCatchesUp ==
    \A n \in Nodes : \A m \in Seeds : \A h \in 1..MaxBlocks :
        (n \notin up /\ m \in up /\ Len(st[m].chain) >= h)
          ~> (Len(st[n].chain) >= h \/ m \notin up)
=============================================================================
