------------------------------ MODULE EvmCalls ------------------------------
(***************************************************************************)
(* Calls of contracts and deployments (EvmRpc._execute_evm_tx, _read_call  *)
(* of core/evm_rpc.py) and the frames that they open (Evm.run of           *)
(* core/evm.py): what a frame writes, transfers and creates, and what of   *)
(* it stays when a frame fails or the gas cannot be paid in the end.       *)
(*                                                                         *)
(* Bytecode is arbitrary: a frame may do anything in any order, and fail   *)
(* at any moment (REVERT, out of gas, a limit).  A contract has one slot;  *)
(* arithmetic, memory and logs are left out.  The value of the transaction *)
(* itself goes nowhere.  A node executes one transaction at a time.        *)
(***************************************************************************)
EXTENDS Ledger

CONSTANTS
    Contracts, Deployed,    \* addresses of contracts, those deployed to begin with
    Born,                   \* addresses of which CREATE and deployment use one
    Callers,                \* users that send and receive
    LeastGas, GasCosts,     \* TX_GAS; what a call may have used in the end
    SlotValues, CallValues, \* bounds: what is written, what a call carries
    MaxDepth, MaxSteps      \* bounds: frames at once, steps of a transaction

ASSUME EvmCallsAssumption ==
    /\ IsFiniteSet(Contracts) /\ Contracts \cap Users = {} /\ Callers \subseteq Users
    /\ Deployed \subseteq Contracts /\ Born \subseteq Contracts
    /\ LeastGas \in Nat /\ GasCosts \subseteq Nat /\ CallValues \subseteq Nat \ {0}
    /\ SlotValues \subseteq Nat \ {0} /\ MaxDepth \in Nat /\ MaxSteps \in Nat

VARIABLES
    world,      \* evm_contracts, evm_storage, balances of contracts; how much NOVA was made
    evmTx,      \* the transaction under way, with the copies made for it
    frames,     \* calls of Evm.run that have not returned, the innermost last
    left        \* history: the world after the last transaction that was accepted
callVars == <<world, evmTx, frames, left>>

Unwritten == 0
Idle == [kind |-> "none"]

CallsInit ==
    /\ world = [code |-> Deployed, slot |-> [c \in Contracts |-> Unwritten],
                bal |-> [c \in Contracts |-> 0], made |-> 0]
    /\ evmTx = Idle /\ frames = <<>> /\ left = world

Frame(c, kind, had) == [at |-> c, kind |-> kind, had |-> had, delta |-> Unwritten, fails |-> "no"]
Top     == Last(frames)
Callees == Front(frames)
Running == frames # <<>> /\ Top.fails = "no"
Step ==
    /\ Running /\ evmTx.steps < MaxSteps /\ evmTx' = [evmTx EXCEPT !.steps = @ + 1]
    /\ UNCHANGED <<day, ops, part, left>>
NoStep == UNCHANGED <<day, ops, part, evmTx, left>>

Began(kind, u) == [kind |-> kind, from |-> u, steps |-> 0, bal |-> bal, world |-> world]
CallBegins(u, c) ==
    /\ evmTx = Idle /\ Tx("call", u, LeastGas) /\ c \in world.code
    /\ evmTx' = Began("call", u) /\ frames' = <<Frame(c, "call", "yes")>>
    /\ UNCHANGED <<bal, world, left>>
Deploy(u, c) ==
    /\ evmTx = Idle /\ Tx("call", u, LeastGas) /\ c \in Born \ world.code
    /\ evmTx' = Began("call", u) /\ frames' = <<Frame(c, "init", "no")>>
    /\ world' = [world EXCEPT !.code = @ \cup {c}]
    /\ UNCHANGED <<bal, left>>
\* eth_call: nobody's transaction, counted with the others as a bound
ReadBegins(c) ==
    /\ part = "call" /\ evmTx = Idle /\ c \in world.code
    /\ ops < MaxOps[part] /\ ops' = ops + 1
    /\ evmTx' = Began("read", Nobody) /\ frames' = <<Frame(c, "call", "yes")>>
    /\ UNCHANGED <<bal, day, part, world, left>>

-----------------------------------------------------------------------------
\* what the innermost frame does

\* it sees what it has written, the storage gets it when the frame ends
Write(x) ==
    /\ Step /\ frames' = [frames EXCEPT ![Len(frames)].delta = x]
    /\ UNCHANGED <<bal, world>>

\* a balance that would be less than nothing is nothing
Sent(w, n) ==
    [w EXCEPT !.bal[Top.at] = Greater(0, @ - n), !.made = @ + Greater(0, n - w.bal[Top.at])]
Call(c, n) ==
    /\ Step /\ Len(frames) < MaxDepth /\ c \in world.code
    /\ world' = [Sent(world, n) EXCEPT !.bal[c] = @ + n]
    /\ frames' = Append(frames, Frame(c, "call", "yes"))
    /\ UNCHANGED bal
Send(u, n) ==
    /\ Step /\ world' = Sent(world, n) /\ bal' = Give(bal, u, n)
    /\ UNCHANGED frames
\* nobody pays what a new contract is given
Create(c, n) ==
    /\ Step /\ Len(frames) < MaxDepth
    /\ world' = [world EXCEPT !.bal[c] = @ + n, !.made = @ + n, !.code = @ \cup {c}]
    /\ frames' = Append(frames, Frame(c, "init", IF c \in world.code THEN "yes" ELSE "no"))
    /\ UNCHANGED bal

Stored(w, f) == IF f.delta = Unwritten THEN w ELSE [w EXCEPT !.slot[f.at] = f.delta]
Return ==
    /\ Running /\ world' = Stored(world, Top) /\ frames' = Callees
    /\ UNCHANGED bal /\ NoStep
\* SELFDESTRUCT: what it has goes to a user or a contract, and is lost if that is itself
Destruct(x) ==
    LET n == world.bal[Top.at]
        w == [world EXCEPT !.bal[Top.at] = 0]
    IN  /\ Running /\ frames' = Callees /\ NoStep
        /\ world' = Stored(IF x = Top.at THEN [w EXCEPT !.made = @ - n]
                           ELSE IF x \in Contracts THEN [w EXCEPT !.bal[x] = @ + n] ELSE w, Top)
        /\ bal' = IF x \in Users THEN Give(bal, x, n) ELSE bal

\* its writes are dropped, and what its own calls have done is not; a creation that fails
\* takes its creator with it, a call that fails does not
Fail ==
    LET byInit == Len(frames) > 1 /\ Top.kind = "init" IN
    /\ frames # <<>> /\ NoStep
    /\ world' = IF Top.kind = "init" /\ Top.had = "no" THEN [world EXCEPT !.code = @ \ {Top.at}] ELSE world
    /\ frames' = IF byInit THEN [Callees EXCEPT ![Len(Callees)].fails = "yes"] ELSE Callees
    /\ UNCHANGED bal

-----------------------------------------------------------------------------
\* Mutant: the balances are put back and the storage is forgotten.
BugPutBack(w, old) == [old EXCEPT !.slot = w.slot]
\* what a transaction that is refused in the end puts back
PutBack(w, old) == old

\* the outermost frame has ended, well or not: the gas is paid, or all of it is put back
Settle(gas) ==
    LET u == evmTx.from
        paid == bal[u] >= gas
    IN  /\ evmTx.kind = "call" /\ frames = <<>>
        /\ bal' = IF paid THEN Move(bal, u, ValPool, gas) ELSE evmTx.bal
        /\ world' = IF paid THEN world ELSE PutBack(world, evmTx.world)
        /\ left' = IF paid THEN world ELSE left
        /\ evmTx' = Idle /\ UNCHANGED <<day, ops, part, frames>>
\* a read puts everything back but the contracts
Answer ==
    /\ evmTx.kind = "read" /\ frames = <<>>
    /\ bal' = evmTx.bal /\ world' = [evmTx.world EXCEPT !.code = world.code]
    /\ evmTx' = Idle /\ UNCHANGED <<day, ops, part, frames, left>>

CallsNext ==
    \/ Return \/ Fail \/ Answer
    \/ \E x \in SlotValues : Write(x)
    \/ \E x \in Contracts \cup Callers : Destruct(x)
    \/ \E gas \in GasCosts : Settle(gas)
    \/ \E n \in CallValues \cup {0} : \/ \E c \in Contracts : Call(c, n)
                                   \/ \E c \in Born : Create(c, n)
    \/ \E n \in CallValues, u \in Callers : Send(u, n)
    \/ \E c \in Contracts : ReadBegins(c) \/ \E u \in Callers : CallBegins(u, c) \/ Deploy(u, c)

-----------------------------------------------------------------------------
(* Properties *)

CallsType ==
    /\ world.code \subseteq Contracts /\ \A c \in Contracts : world.slot[c] \in Nat /\ world.bal[c] \in Nat
    /\ Len(frames) <= MaxDepth /\ (frames # <<>> => evmTx # Idle)

\* Whatever the frames of a transaction that is refused or of a read have written, sent and
\* called: then storage and balances are as the last accepted transaction has left them.
RefusedIsPutBack ==
    evmTx = Idle => /\ world.slot = left.slot /\ world.bal = left.bal /\ world.made = left.made
                    /\ left.code \subseteq world.code

\* Not so in the code (section 4 of the README):
\* "out of gas: it fails, is rolled back and changes no state": a frame that fails leaves
\* the contracts and balances as they were when the transaction began.
FailedLeavesNothing ==
    [][Fail /\ Len(frames) = 1 => world'.slot = evmTx.world.slot /\ world'.bal = evmTx.world.bal]_callVars
\* "eth_call only reads".
ReadLeavesNothing == [][Answer => world' = evmTx.world]_callVars
=============================================================================
