----------------------------- MODULE EvmBridge ------------------------------
(***************************************************************************)
(* The bridge between the native assets and the EVM (core/evm_bridge.py)   *)
(* with the binding of accounts and the migration of a balance             *)
(* (NovaNode._apply_evm_op), and the transactions of EVM addresses that    *)
(* pay or burn a wrapped asset (EvmRpc._execute_evm_tx).  A native asset   *)
(* is taken from its holder and recorded as wrapped; whoever may redeem    *)
(* the record gives it back.                                               *)
(*                                                                         *)
(* Assets are a divisible one (kind "ft") and shares of a work ("nft",     *)
(* one at a time).  The record is kept by asset alone.  A transaction of   *)
(* an EVM address has the next nonce; what contracts do is left out.       *)
(***************************************************************************)
EXTENDS Ledger

CONSTANTS
    Kind,               \* the native assets and their kinds
    Holdings,           \* who holds how much to begin with
    EvmAddrs,           \* addresses on the side of the EVM
    AmountFee, UnitFee, \* fee of one divisible unit, NFT_BRIDGE_FEE
    PayGas, BurnGas,    \* gas of a payment, TX_GAS, and of a call of the bridge
    EvmAmounts,         \* bound: amounts of a divisible asset converted at once
    EvmSums             \* bound: amounts that EVM addresses pay

EvmAssets == DOMAIN Kind

ASSUME EvmBridgeAssumption ==
    /\ IsFiniteSet(EvmAssets) /\ IsFiniteSet(EvmAddrs) /\ Nobody \notin EvmAddrs
    /\ \A a \in EvmAssets : Kind[a] \in {"ft", "nft"}
    /\ Holdings \in [EvmAssets -> [Users -> Nat]]
    /\ AmountFee \in Nat /\ UnitFee \in Nat /\ EvmAmounts \subseteq Nat \ {0}
    /\ PayGas \in Nat \ {0} /\ BurnGas \in Nat /\ PayGas < BurnGas /\ EvmSums \subseteq Nat \ {0}

VARIABLES
    hold,       \* holders of fan_tokens, fractions
    wrap,       \* evm_wrapped
    account,    \* evm_accounts: owner, migrated
    bound,      \* evm_bindings
    evmBal,     \* balances of EVM addresses
    twice       \* history: how much of an asset was given back and is still wrapped

evmVars == <<hold, wrap, account, bound, evmBal, twice>>

NoWrap == [amount |-> 0, owner |-> Nobody, evm |-> Nobody]

EvmInit ==
    /\ hold = Holdings
    /\ wrap = [a \in EvmAssets |-> NoWrap]
    /\ account = [e \in EvmAddrs |-> [owner |-> Nobody, migrated |-> "no"]]
    /\ bound = [u \in Users |-> Nobody]
    /\ evmBal = [e \in EvmAddrs |-> 0]
    /\ twice = [a \in EvmAssets |-> 0]

EvmTx(u) == Tx("evm", u, 0)

\* an address is bound once; a user may bind further ones, of which the last counts
EvmBind(u, e) ==
    /\ EvmTx(u) /\ account[e].owner = Nobody
    /\ account' = [account EXCEPT ![e].owner = u]
    /\ bound' = [bound EXCEPT ![u] = e]
    /\ UNCHANGED <<bal, hold, wrap, evmBal, twice>>

\* all the NOVA of u moves to the other side, once per address
EvmMigrate(u, e) ==
    /\ EvmTx(u) /\ account[e] = [owner |-> u, migrated |-> "no"]
    /\ account' = [account EXCEPT ![e].migrated = "yes"]
    /\ evmBal' = [evmBal EXCEPT ![e] = @ + bal[u]]
    /\ bal' = [bal EXCEPT ![u] = 0]
    /\ UNCHANGED <<hold, wrap, bound, twice>>

EvmFee(a, n) == IF Kind[a] = "nft" THEN UnitFee ELSE n * AmountFee

\* Mutant: a second conversion replaces the record instead of adding to it.
BugWrapped(u, a, n) == [amount |-> n, owner |-> u, evm |-> bound[u]]
Wrapped(u, a, n) ==
    IF wrap[a] # NoWrap THEN [wrap[a] EXCEPT !.amount = @ + n]
    ELSE [amount |-> n, owner |-> u, evm |-> bound[u]]

\* u turns n of the asset into its wrapped form.  For a share the validation does not ask
\* whether u has one: then the application fails and is rolled back, while the transaction
\* counts as done.
EvmConvert(u, a, n) ==
    /\ EvmTx(u) /\ bound[u] # Nobody
    /\ Kind[a] = "nft" \/ hold[a][u] >= n
    /\ bal[u] >= EvmFee(a, n)
    /\ UNCHANGED <<account, bound, evmBal, twice>>
    /\ IF hold[a][u] < n THEN UNCHANGED <<bal, hold, wrap>>
       ELSE /\ hold' = [hold EXCEPT ![a][u] = @ - n]
            /\ bal' = Move(bal, u, ValPool, EvmFee(a, n))
            /\ wrap' = [wrap EXCEPT ![a] = Wrapped(u, a, n)]

\* the owner of the record, or whoever is bound to its EVM address, has the whole of it
\* given back to its owner
EvmRevert(u, a) ==
    LET fee == EvmFee(a, wrap[a].amount) IN
    /\ EvmTx(u) /\ wrap[a] # NoWrap
    /\ u = wrap[a].owner \/ bound[u] = wrap[a].evm
    /\ bal[u] >= fee
    /\ bal' = Move(bal, u, ValPool, fee)
    /\ hold' = [hold EXCEPT ![a][wrap[a].owner] = @ + wrap[a].amount]
    /\ wrap' = [wrap EXCEPT ![a] = NoWrap]
    /\ UNCHANGED <<account, bound, evmBal, twice>>

\* a transaction of an EVM address, which has what it sends and the gas of a payment
EthTx(e, n) ==
    /\ part = "evm" /\ ops < MaxOps[part] /\ ops' = ops + 1 /\ evmBal[e] >= n + PayGas
    /\ UNCHANGED <<day, part>>

EvmPay(e, x, n) ==
    /\ EthTx(e, n) /\ x # e
    /\ evmBal' = [a \in EvmAddrs |-> evmBal[a] + (IF a = x THEN n ELSE 0) - (IF a = e THEN n + PayGas ELSE 0)]
    /\ bal' = Give(IF x \in Users THEN Give(bal, x, n) ELSE bal, ValPool, PayGas)
    /\ UNCHANGED <<hold, wrap, account, bound, twice>>

\* The EVM owner of the record burns it, the asset goes back to its owner; gas is due also
\* when it may not.  If then the gas is not there the balances and the record are put back,
\* and the holders of the asset are not.
MayBurn(e, a) == wrap[a] # NoWrap /\ wrap[a].evm = e /\ evmBal[e] >= EvmFee(a, wrap[a].amount)
EvmBurn(e, a) ==
    LET ok  == MayBurn(e, a)
        fee == IF ok THEN EvmFee(a, wrap[a].amount) ELSE 0
        due == fee + BurnGas
    IN  /\ EthTx(e, 0) /\ (ok \/ evmBal[e] >= BurnGas)
        /\ hold' = IF ok THEN [hold EXCEPT ![a][wrap[a].owner] = @ + wrap[a].amount] ELSE hold
        /\ UNCHANGED <<account, bound>>
        /\ IF evmBal[e] >= due
           THEN /\ bal' = Give(bal, ValPool, due) /\ evmBal' = Give(evmBal, e, -due)
                /\ wrap' = IF ok THEN [wrap EXCEPT ![a] = NoWrap] ELSE wrap
                /\ UNCHANGED twice
           ELSE twice' = [twice EXCEPT ![a] = @ + wrap[a].amount] /\ UNCHANGED <<bal, evmBal, wrap>>

EvmNext ==
    \/ \E e \in EvmAddrs : \/ \E a \in EvmAssets : EvmBurn(e, a)
                            \/ \E n \in EvmSums, x \in EvmAddrs \cup Users : EvmPay(e, x, n)
    \/ \E u \in Users :
        \/ \E e \in EvmAddrs : EvmBind(u, e) \/ EvmMigrate(u, e)
        \/ \E a \in EvmAssets : \/ EvmRevert(u, a)
                                \/ \E n \in IF Kind[a] = "nft" THEN {1} ELSE EvmAmounts : EvmConvert(u, a, n)

-----------------------------------------------------------------------------
(* Properties *)

EvmType ==
    /\ \A a \in EvmAssets : wrap[a].amount \in Nat /\ \A u \in Users : hold[a][u] \in Nat
    /\ \A u \in Users : bound[u] # Nobody => account[bound[u]].owner = u

\* Whatever is converted, given back or fails half-way: an asset is either with its holders
\* or in the record, which belongs to somebody who is bound.  Only a burn whose gas is not
\* there leaves it with both (GivenBackOnce).
AssetsAreKept ==
    \A a \in EvmAssets :
        /\ Total(hold[a]) + wrap[a].amount = Total(Holdings[a]) + twice[a]
        /\ wrap[a] # NoWrap => wrap[a].amount > 0 /\ account[wrap[a].evm].owner = wrap[a].owner

\* Not so in the code (section 4 of the README):
\* "what fails is put back as a whole": no asset is with its holder and wrapped.
GivenBackOnce == \A a \in EvmAssets : twice[a] = 0
\* "wrapped assets can be turned back": who converts is the one who gets it back.
ConverterIsOwner == [][\A a \in EvmAssets, u \in Users : hold'[a][u] < hold[a][u] => wrap'[a].owner = u]_evmVars
=============================================================================
