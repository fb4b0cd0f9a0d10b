--------------------------- MODULE SocialFiProofs ---------------------------
(***************************************************************************)
(* BooksBalance, NothingCountsTwice, RedeemingHurtsNobody and              *)
(* EscrowHoldsDeposits of module SocialFi, for any people, wealth, prices, *)
(* rates and terms.                                                        *)
(*                                                                         *)
(* IInv gives every object its type and says of each what its next step    *)
(* needs: a proposal counts at most the tokens of its voters (FanSound), a *)
(* revenue share has paid nobody more than their part of all that came in  *)
(* (RevSound, the reason why the pool covers the claims), fractions sold   *)
(* and held are within the supply (FracSound), a text that is gone has no  *)
(* deposit (TextSound).  Each such part is stated again of a record (FanOK,*)
(* RevOK, ...), so that the lemmas about one object know no action.        *)
(*                                                                         *)
(* Every action has a lemma with the conclusion Good: IInv is kept and the *)
(* two action properties hold.  Assembled puts together what an action     *)
(* changes, and the one equation that makes NovaAddsUp: what the accounts  *)
(* lose the games gain.                                                    *)
(***************************************************************************)
EXTENDS SocialFi, Sums

-----------------------------------------------------------------------------
(* The state. *)

Accounts    == [Addr -> Int]
Solvent(b)  == b \in Accounts /\ \A a \in People \cup {Eco} : b[a] >= 0
Shares      == [Users -> Nat]

PollRecords  == [st : {"none", "open"}, count : [Options -> Nat], closes : Nat, voted : SUBSET Users]
FanRecords   == [st : {"none", "issued"}, sold : Nat, holders : Shares, poll : [Users -> PollRecords]]
RevRecords   == [st : {"none", "open"}, investors : Shares, paid : Shares, pool : Nat, pooled : Nat,
                 late : {"no", "yes"}]
MktRecords   == [st : {"none", "open", "settled"}, closes : Nat, bets : [Options -> Shares],
                 outcome : Options \cup {""}, paid : Nat]
BoxRecords   == [st : {"none", "listed", "revealed"}, creator : Users \cup {Creator, Nobody}, reserve : Nat]
BondRecords  == [st : {"none", "issued", "settled"}, sold : Shares, pool : Nat, matures : Nat]
FracRecords  == [st : {"none", "split"}, hold : Nat, fractions : [Users \cup {Creator} -> Nat]]
Sides        == {"", "buyer", "seller", "abstain"}
TrialRecords == [st : {"none", "open", "buyer", "seller"}, by : Users \cup {Nobody},
                 votes : [Jury -> Sides], started : Nat, escalated : {"no", "yes"}]
TextRecords  == [st : {"none", "listed", "unlisted", "destroyed"}, deposit : Nat, released : {"no", "yes"},
                 buyers : SUBSET Users, at : Nat, trial : TrialRecords]
AiRecords    == [st : {"none", "active", "paused"}, budget : Nat, spent : Nat]
Reputations  == [People -> 0 .. 100]

ClockTyped == ai \in AiRecords /\ now \in 1 .. MaxDay /\ ops \in 0 .. MaxOps /\ game \in Games

Typed ==
    /\ Solvent(bal) /\ fan \in FanRecords /\ rev \in RevRecords /\ mkt \in MktRecords
    /\ box \in BoxRecords /\ bond \in BondRecords /\ frac \in FracRecords /\ text \in TextRecords
    /\ rep \in Reputations /\ ClockTyped

FanSound == fan.sold = Sum(fan.holders) /\ fan.sold <= Supply /\ PollWithinSupply
RevSound ==
    /\ rev.pool + Sum(rev.paid) = rev.pooled
    /\ rev.late = "no" => \A u \in Users : Sum(rev.investors) > 0 =>
                             rev.paid[u] * Sum(rev.investors) <= rev.investors[u] * rev.pooled
MktSound == mkt.paid <= Total /\ (mkt.st # "settled" => mkt.paid = 0)
BoxSound ==
    /\ box.st # "none" => box.creator \in Users \cup {Creator}
    /\ box.st = "none" => box.reserve = 0
FracSound ==
    /\ frac.hold <= Supply /\ frac.fractions[Creator] <= Supply
    /\ \A u \in Users : frac.fractions[u] + frac.hold <= Supply
    /\ frac.st = "none" => \A u \in Users : frac.fractions[u] = 0
TextSound ==
    /\ text.st \in {"none", "destroyed"} => text.released = "yes"
    /\ InDispute(text) => text.trial.by \in Users

IInv == Typed /\ FanSound /\ RevSound /\ MktSound /\ BoxSound /\ FracSound /\ TextSound /\ NovaAddsUp

-----------------------------------------------------------------------------
(* Numbers. *)

(* A share of a stock is rounded down: what it stands for is never more than there is. *)
LEMMA RoundedDown ==
    ASSUME NEW a \in Nat, NEW b \in Nat, b > 0
    PROVE  a \div b \in Nat /\ b * (a \div b) <= a /\ a < b * (a \div b) + b
OBVIOUS

(* Rounding down what is within a bound stays within it. *)
LEMMA RoundedWithin ==
    ASSUME NEW a \in Nat, NEW b \in Nat, b > 0, NEW c \in Nat, a <= b * c
    PROVE  a \div b \in Nat /\ a \div b <= c
<1> DEFINE q == a \div b
<1>1. q \in Nat /\ b * q <= a  BY RoundedDown
<1> HIDE DEF q
<1>2. ASSUME q > c PROVE FALSE
      <2>1. b * (q - c) >= b  BY <1>1, <1>2
      <2>2. b * q = b * c + b * (q - c)  BY <1>1
      <2> QED  BY <1>1, <2>1, <2>2
<1> QED  BY <1>1, <1>2 DEF q

(* Products of amounts are amounts. *)
LEMMA Product == ASSUME NEW a \in Nat, NEW b \in Nat PROVE a * b \in Nat
OBVIOUS

-----------------------------------------------------------------------------
(* Accounts. *)

(* Finitely many accounts. *)
LEMMA AddrFinite == /\ IsFiniteSet(Addr) /\ IsFiniteSet(People) /\ IsFiniteSet(Users) /\ IsFiniteSet(Jury)
                    /\ Users \subseteq Addr /\ Jury \subseteq Addr /\ People \subseteq Addr
                    /\ Eco \in Addr /\ Escrow \in Addr /\ Creator \in Addr
                    /\ Users \subseteq People /\ Jury \subseteq People /\ Creator \in People
                    /\ Eco # Escrow /\ Eco \notin People /\ Escrow \notin People
<1>1. IsFiniteSet(Users) /\ IsFiniteSet(Jury) /\ Eco \notin People /\ Escrow \notin People
      BY SocialFiAssumption
<1>2. IsFiniteSet({Creator, Owner}) /\ IsFiniteSet({Eco, Escrow})
      <2>1. IsFiniteSet({Owner}) /\ IsFiniteSet({Escrow})  BY FS_Singleton
      <2>2. {Creator, Owner} = {Owner} \cup {Creator} /\ {Eco, Escrow} = {Escrow} \cup {Eco}  OBVIOUS
      <2> QED  BY <2>1, <2>2, FS_AddElement
<1>3. IsFiniteSet(People)  BY <1>1, <1>2, FS_Union DEF People
<1>4. IsFiniteSet(Addr)  BY <1>2, <1>3, FS_Union DEF Addr
<1>5. Eco # Escrow  BY DEF Eco, Escrow
<1> QED  BY <1>1, <1>3, <1>4, <1>5 DEF Addr, People

(* A payment out of or into the books: one account changes. *)
LEMMA Gives ==
    ASSUME NEW b \in Accounts, NEW a \in Addr, NEW n \in Int
    PROVE  /\ Give(b, a, n) \in Accounts /\ Sum(Give(b, a, n)) = Sum(b) + n
           /\ Give(b, a, n)[a] = b[a] + n
           /\ \A c \in Addr : c # a => Give(b, a, n)[c] = b[c]
           /\ Sum(b) \in Int
<1>1. b \in [Addr -> Int] /\ b[a] \in Int /\ b[a] + n \in Int  BY DEF Accounts
<1>2. Give(b, a, n) = [b EXCEPT ![a] = b[a] + n]  BY DEF Give
<1>3. Sum([b EXCEPT ![a] = b[a] + n]) = Sum(b) - b[a] + (b[a] + n)
      <2> DEFINE v == b[a] + n
      <2>1. IsFiniteSet(Addr) /\ v \in Int  BY <1>1, AddrFinite
      <2> HIDE DEF v
      <2>2. SumFunction([b EXCEPT ![a] = v]) = SumFunction(b) - b[a] + v  BY <1>1, <2>1, TotalPut
      <2> QED  BY <2>2 DEF v, Sum
<1>4. Sum(b) \in Int  BY <1>1, TotalInt, AddrFinite DEF Sum
<1>5. Sum(b) - b[a] + (b[a] + n) = Sum(b) + n  BY <1>1, <1>4
<1> QED  BY <1>1, <1>2, <1>3, <1>4, <1>5 DEF Accounts

(* A payment out of one account. *)
LEMMA Takes ==
    ASSUME NEW b \in Accounts, NEW a \in Addr, NEW n \in Int
    PROVE  /\ [b EXCEPT ![a] = @ - n] \in Accounts /\ Sum([b EXCEPT ![a] = @ - n]) = Sum(b) - n
           /\ [b EXCEPT ![a] = @ - n][a] = b[a] - n
           /\ \A c \in Addr : c # a => [b EXCEPT ![a] = @ - n][c] = b[c]
<1>1. b[a] \in Int  BY DEF Accounts
<1>2. Give(b, a, 0 - n) = [b EXCEPT ![a] = @ - n]
      <2>1. b[a] + (0 - n) = b[a] - n  BY <1>1
      <2> QED  BY <2>1 DEF Give
<1>3. 0 - n \in Int  OBVIOUS
<1>4. Sum(b) \in Int /\ Sum(b) + (0 - n) = Sum(b) - n  BY <1>3, Gives
<1> DEFINE d == Give(b, a, 0 - n)
<1>5. /\ d \in Accounts /\ Sum(d) = Sum(b) - n /\ d[a] = b[a] + (0 - n)
      /\ \A c \in Addr : c # a => d[c] = b[c]
      BY <1>3, <1>4, Gives
<1>6. d[a] = b[a] - n  BY <1>1, <1>5
<1>7. d = [b EXCEPT ![a] = @ - n]  BY <1>2
<1> HIDE DEF d
<1> QED  BY <1>5, <1>6, <1>7

(* A payment between two accounts changes nothing in all. *)
LEMMA Moves ==
    ASSUME NEW b \in Accounts, NEW from \in Addr, NEW to \in Addr, NEW n \in Int
    PROVE  /\ Move(b, from, to, n) \in Accounts /\ Sum(Move(b, from, to, n)) = Sum(b)
           /\ \A c \in Addr : Move(b, from, to, n)[c]
                = b[c] - (IF c = from THEN n ELSE 0) + (IF c = to THEN n ELSE 0)
<1> DEFINE d == [b EXCEPT ![from] = @ - n]
<1>1. /\ d \in Accounts /\ Sum(d) = Sum(b) - n /\ d[from] = b[from] - n
      /\ \A c \in Addr : c # from => d[c] = b[c]
      BY Takes
<1>2. Move(b, from, to, n) = Give(d, to, n)  BY DEF Move, Give
<1> HIDE DEF d
<1>3. /\ Give(d, to, n) \in Accounts /\ Sum(Give(d, to, n)) = Sum(d) + n
      /\ Give(d, to, n)[to] = d[to] + n
      /\ \A c \in Addr : c # to => Give(d, to, n)[c] = d[c]
      BY <1>1, Gives
<1>4. Sum(b) \in Int /\ Sum(b) - n + n = Sum(b)  BY Gives
<1>5. \A c \in Addr : b[c] \in Int  BY DEF Accounts
<1>6. ASSUME NEW c \in Addr
      PROVE  Give(d, to, n)[c] = b[c] - (IF c = from THEN n ELSE 0) + (IF c = to THEN n ELSE 0)
      BY <1>1, <1>3, <1>5
<1> QED  BY <1>1, <1>2, <1>3, <1>4, <1>6

(* Who is paid stays solvent. *)
LEMMA SolventGives ==
    ASSUME NEW b, Solvent(b), NEW a \in Addr, NEW n \in Nat
    PROVE  /\ Solvent(Give(b, a, n)) /\ Sum(Give(b, a, n)) = Sum(b) + n /\ Sum(b) \in Int
           /\ a # Escrow => Give(b, a, n)[Escrow] = b[Escrow]
<1>1. b \in Accounts /\ n \in Int  BY DEF Solvent
<1>2. \A c \in People \cup {Eco} : c \in Addr  BY AddrFinite
<1>3. \A c \in Addr : b[c] \in Int  BY <1>1 DEF Accounts
<1> DEFINE d == Give(b, a, n)
<1>4. /\ d \in Accounts /\ Sum(d) = Sum(b) + n /\ d[a] = b[a] + n /\ Sum(b) \in Int
      /\ \A c \in Addr : c # a => d[c] = b[c]
      BY <1>1, Gives
<1> HIDE DEF d
<1>5. ASSUME NEW c \in People \cup {Eco} PROVE d[c] >= 0
      <2>1. b[c] >= 0 /\ b[c] \in Int  BY <1>2, <1>3 DEF Solvent
      <2> QED  BY <1>2, <1>4, <2>1
<1> QED  BY <1>4, <1>5, AddrFinite DEF d, Solvent

(* Who pays what they have stays solvent. *)
LEMMA SolventTakes ==
    ASSUME NEW b, Solvent(b), NEW a \in People, NEW n \in Nat, b[a] >= n
    PROVE  /\ Solvent([b EXCEPT ![a] = @ - n]) /\ Sum([b EXCEPT ![a] = @ - n]) = Sum(b) - n
           /\ Sum(b) \in Int /\ [b EXCEPT ![a] = @ - n][Escrow] = b[Escrow]
<1>1. b \in Accounts /\ n \in Int /\ a \in Addr  BY AddrFinite DEF Solvent
<1>2. \A c \in People \cup {Eco} : c \in Addr  BY AddrFinite
<1>3. \A c \in Addr : b[c] \in Int  BY <1>1 DEF Accounts
<1>4. Sum(b) \in Int  BY <1>1, Gives
<1>5. Escrow \in Addr /\ a # Escrow  BY AddrFinite
<1> QED  BY <1>1, <1>2, <1>3, <1>4, <1>5, Takes DEF Solvent

(* A payment between two accounts out of what the first one has, or out of the escrow. *)
LEMMA SolventMoves ==
    ASSUME NEW b, Solvent(b), NEW from \in Addr, NEW to \in Addr, NEW n \in Nat,
           from = Escrow \/ b[from] >= n
    PROVE  /\ Solvent(Move(b, from, to, n)) /\ Sum(Move(b, from, to, n)) = Sum(b)
           /\ Sum(b) \in Int /\ b[Escrow] \in Int
           /\ Move(b, from, to, n)[Escrow]
                = b[Escrow] - (IF Escrow = from THEN n ELSE 0) + (IF Escrow = to THEN n ELSE 0)
<1>1. b \in Accounts /\ n \in Int  BY DEF Solvent
<1>2. \A c \in People \cup {Eco} : c \in Addr /\ c # Escrow  BY AddrFinite
<1>3. \A c \in Addr : b[c] \in Int  BY <1>1 DEF Accounts
<1>4. Sum(b) \in Int  BY <1>1, Gives
<1>5. ASSUME NEW c \in People \cup {Eco} PROVE Move(b, from, to, n)[c] >= 0
      <2>1. Move(b, from, to, n)[c] = b[c] - (IF c = from THEN n ELSE 0) + (IF c = to THEN n ELSE 0)
            BY <1>1, <1>2, Moves
      <2>2. b[c] >= 0 /\ b[c] \in Int  BY <1>2, <1>3 DEF Solvent
      <2> QED  BY <1>2, <2>1, <2>2
<1>6. Escrow \in Addr /\ b[Escrow] \in Int  BY <1>3, AddrFinite
<1> DEFINE d == Move(b, from, to, n)
<1>7. /\ d \in Accounts /\ Sum(d) = Sum(b)
      /\ \A c \in Addr : d[c] = b[c] - (IF c = from THEN n ELSE 0) + (IF c = to THEN n ELSE 0)
      BY <1>1, Moves
<1>8. \A c \in People \cup {Eco} : d[c] >= 0  BY <1>5
<1> HIDE DEF d
<1>9. Solvent(d)  BY <1>7, <1>8 DEF Solvent
<1> QED  BY <1>4, <1>6, <1>7, <1>9 DEF d

(* A payment from one to another does not touch the escrow. *)
LEMMA SolventPays ==
    ASSUME NEW b, Solvent(b), NEW u \in People, NEW a \in People, NEW n \in Nat, b[u] >= n
    PROVE  /\ Solvent(Move(b, u, a, n)) /\ Sum(Move(b, u, a, n)) = Sum(b)
           /\ Move(b, u, a, n)[Escrow] = b[Escrow]
<1> DEFINE d == Move(b, u, a, n)
<1>1. u \in Addr /\ a \in Addr /\ u # Escrow /\ a # Escrow  BY AddrFinite
<1>2. /\ Solvent(d) /\ Sum(d) = Sum(b) /\ b[Escrow] \in Int
      /\ d[Escrow] = b[Escrow] - (IF Escrow = u THEN n ELSE 0) + (IF Escrow = a THEN n ELSE 0)
      BY <1>1, SolventMoves
<1> HIDE DEF d
<1>3. d[Escrow] = b[Escrow]  BY <1>1, <1>2
<1> QED  BY <1>2, <1>3 DEF d

(* A sale pays the author and the ecosystem fund out of the buyer's balance. *)
LEMMA SolventSold ==
    ASSUME NEW b, Solvent(b), NEW u \in People, NEW a \in People, NEW p \in Nat, b[u] >= p
    PROVE  /\ Solvent(Sold(b, u, a, p)) /\ Sum(Sold(b, u, a, p)) = Sum(b)
           /\ Sold(b, u, a, p)[Escrow] = b[Escrow]
<1> DEFINE s == (p * 90) \div 100
           d == Move(b, u, a, s)
<1>1. s \in Nat /\ s <= p  OBVIOUS
<1> HIDE DEF s
<1>2. u \in Addr /\ a \in Addr /\ Eco \in Addr /\ u # Escrow /\ a # Escrow /\ Eco # Escrow /\ u # Eco /\ a # Eco
      BY AddrFinite
<1>3. b \in Accounts /\ b[u] \in Int /\ b[Escrow] \in Int  BY <1>2, AddrFinite DEF Solvent, Accounts
<1>4. Solvent(d) /\ Sum(d) = Sum(b)
      <2>1. b[u] >= s  BY <1>1, <1>3
      <2> QED  BY <1>1, <1>2, <2>1, SolventMoves
<1>5. d[u] >= p - s /\ d[Escrow] = b[Escrow]
      <2>1. \A c \in Addr : d[c] = b[c] - (IF c = u THEN s ELSE 0) + (IF c = a THEN s ELSE 0)
            BY <1>1, <1>2, <1>3, Moves
      <2>2. d[u] = b[u] - s + (IF u = a THEN s ELSE 0)  BY <1>2, <2>1
      <2>3. d[Escrow] = b[Escrow] - 0 + 0  BY <1>2, <2>1, AddrFinite
      <2> QED  BY <1>1, <1>3, <2>2, <2>3
<1> HIDE DEF d
<1>6. p - s \in Nat /\ p - s \in Int  BY <1>1
<1>7. Solvent(Move(d, u, Eco, p - s)) /\ Sum(Move(d, u, Eco, p - s)) = Sum(b)
      BY <1>2, <1>4, <1>5, <1>6, SolventMoves
<1>8. Move(d, u, Eco, p - s)[Escrow] = b[Escrow]
      <2>1. d \in Accounts  BY <1>4 DEF Solvent
      <2> DEFINE n == p - s
      <2> HIDE DEF n
      <2>2. n \in Int  BY <1>6 DEF n
      <2>3. \A c \in Addr : Move(d, u, Eco, n)[c] = d[c] - (IF c = u THEN n ELSE 0) + (IF c = Eco THEN n ELSE 0)
            BY <1>2, <2>1, <2>2, Moves
      <2>4. Move(d, u, Eco, n)[Escrow] = d[Escrow] - 0 + 0  BY <1>2, <2>3, AddrFinite
      <2> QED  BY <1>3, <1>5, <2>4 DEF n
<1> QED  BY <1>7, <1>8 DEF Sold, d, s

-----------------------------------------------------------------------------
(* What a step leaves alone. *)

(* Betting pools are amounts. *)
LEMMA PoolsTyped ==
    ASSUME NEW m \in MktRecords
    PROVE  Sum(m.bets["yes"]) \in Nat /\ Sum(m.bets["no"]) \in Nat
<1>1. m.bets["yes"] \in [Users -> Nat] /\ m.bets["no"] \in [Users -> Nat]
      BY DEF MktRecords, Shares, Options
<1> QED  BY <1>1, TotalInt, AddrFinite DEF Sum

(* A transaction records what it spends and counts itself. *)
LEMMA TxTyped ==
    ASSUME Typed, NEW g, NEW u \in People, NEW n \in Nat, Tx(g, u, n)
    PROVE  ClockTyped' /\ now' = now /\ now \in Nat /\ bal[u] \in Nat /\ bal[u] >= n
<1>1. ai \in AiRecords /\ ops \in 0 .. MaxOps /\ now \in 1 .. MaxDay /\ game \in Games /\ Solvent(bal)
      BY DEF Typed, ClockTyped
<1>2. Recorded(u, n) \in AiRecords  BY <1>1 DEF Recorded, AiRecords
<1>3. ops < MaxOps /\ MaxOps \in Nat  BY SocialFiAssumption DEF Tx
<1>4. bal[u] \in Int /\ bal[u] >= 0  BY <1>1, AddrFinite DEF Solvent, Accounts
<1>5. ai' \in AiRecords /\ now' = now /\ game' = game /\ ops' = ops + 1  BY <1>2 DEF Tx
<1> QED  BY <1>1, <1>3, <1>4, <1>5 DEF Tx, MaySpend, ClockTyped

(* An object that does not change stays sound. *)
LEMMA Frames ==
    ASSUME IInv
    PROVE  /\ UNCHANGED fan => FanSound' /\ fan' \in FanRecords
           /\ UNCHANGED rev => RevSound' /\ rev' \in RevRecords
           /\ UNCHANGED mkt => MktSound' /\ mkt' \in MktRecords /\ Total' = Total
           /\ UNCHANGED box => BoxSound' /\ box' \in BoxRecords
           /\ UNCHANGED bond => bond' \in BondRecords
           /\ UNCHANGED frac => FracSound' /\ frac' \in FracRecords
           /\ UNCHANGED text => TextSound' /\ text' \in TextRecords
           /\ UNCHANGED rep => rep' \in Reputations
<1>1. IInv  OBVIOUS
<1>2. UNCHANGED fan => FanSound' /\ fan' \in FanRecords
      BY <1>1 DEF IInv, Typed, FanSound, PollWithinSupply
<1>3. UNCHANGED rev => RevSound' /\ rev' \in RevRecords  BY <1>1 DEF IInv, Typed, RevSound
<1>4. UNCHANGED mkt => MktSound' /\ mkt' \in MktRecords /\ Total' = Total
      BY <1>1 DEF IInv, Typed, MktSound, Total, Pool
<1>5. UNCHANGED box => BoxSound' /\ box' \in BoxRecords  BY <1>1 DEF IInv, Typed, BoxSound
<1>6. UNCHANGED frac => FracSound' /\ frac' \in FracRecords  BY <1>1 DEF IInv, Typed, FracSound
<1>7. UNCHANGED text => TextSound' /\ text' \in TextRecords
      BY <1>1 DEF IInv, Typed, TextSound, InDispute
<1> QED  BY <1>1, <1>2, <1>3, <1>4, <1>5, <1>6, <1>7 DEF IInv, Typed

(* What the games hold, and all there is. *)
InGames == rev.pool + (Total - mkt.paid) + box.reserve + bond.pool

(* The stakes of the games are numbers. *)
LEMMA InGamesTyped == ASSUME IInv PROVE InGames \in Int /\ Sum(bal) \in Int /\ Sum(bal) + InGames = Sum(Wealth)
<1>1. /\ rev \in RevRecords /\ mkt \in MktRecords /\ box \in BoxRecords /\ bond \in BondRecords
      /\ Solvent(bal) /\ NovaAddsUp
      BY DEF IInv, Typed
<1>2. rev.pool \in Nat /\ mkt.paid \in Nat /\ box.reserve \in Nat /\ bond.pool \in Nat
      BY <1>1 DEF RevRecords, MktRecords, BoxRecords, BondRecords
<1>3. Total \in Nat  BY <1>1, PoolsTyped DEF Total, Pool
<1>4. Sum(bal) \in Int  BY <1>1, Gives, AddrFinite DEF Solvent
<1> QED  BY <1>1, <1>2, <1>3, <1>4 DEF InGames, NovaAddsUp

(* NOVA adds up after a step that takes from the accounts what it puts into the games. *)
LEMMA BooksKept ==
    ASSUME IInv, InGames' \in Int, Sum(bal') \in Int, Sum(bal') + InGames' = Sum(bal) + InGames,
           rev' \in RevRecords, mkt' \in MktRecords, box' \in BoxRecords, bond' \in BondRecords
    PROVE  NovaAddsUp'
<1>1. rev'.pool \in Nat /\ mkt'.paid \in Nat /\ box'.reserve \in Nat /\ bond'.pool \in Nat
      BY DEF RevRecords, MktRecords, BoxRecords, BondRecords
<1>2. Total' \in Nat  BY PoolsTyped DEF Total, Pool
<1>3. Sum(bal') + InGames' = Sum(Wealth)  BY InGamesTyped
<1> QED  BY <1>1, <1>2, <1>3 DEF InGames, NovaAddsUp

-----------------------------------------------------------------------------
(* Fan tokens. *)

(* The tokens of those who have voted. *)
Backing(h, V) == Sum([u \in Users |-> IF u \in V THEN h[u] ELSE 0])

(* It is an amount, it grows with the holdings, and a voter more adds what they hold. *)
LEMMA BackingGrows ==
    ASSUME NEW h \in Shares, NEW k \in Shares, \A u \in Users : h[u] <= k[u], NEW V \in SUBSET Users
    PROVE  /\ Backing(h, V) \in Nat /\ Backing(k, V) \in Nat /\ Backing(h, V) <= Backing(k, V)
           /\ \A u \in Users \ V : Backing(h, V \cup {u}) = Backing(h, V) + h[u]
<1> DEFINE f == [u \in Users |-> IF u \in V THEN h[u] ELSE 0]
           g == [u \in Users |-> IF u \in V THEN k[u] ELSE 0]
<1>1. f \in [Users -> Nat] /\ g \in [Users -> Nat] /\ \A u \in Users : f[u] <= g[u]  BY DEF Shares
<1>2. Backing(h, V) = SumFunction(f) /\ Backing(k, V) = SumFunction(g)  BY DEF Backing, Sum
<1>3. ASSUME NEW u \in Users \ V PROVE Backing(h, V \cup {u}) = Backing(h, V) + h[u]
      <2> DEFINE e == [v \in Users |-> IF v \in V \cup {u} THEN h[v] ELSE 0]
      <2>1. e = [f EXCEPT ![u] = h[u]] /\ f[u] = 0 /\ h[u] \in Int
            <3>1. f[u] = 0 /\ h[u] \in Int  BY DEF Shares
            <3>2. \A v \in Users : e[v] = [f EXCEPT ![u] = h[u]][v]  OBVIOUS
            <3> QED  BY <3>1, <3>2
      <2>2. Backing(h, V \cup {u}) = SumFunction(e)  BY DEF Backing, Sum
      <2>3. f \in [Users -> Int] /\ IsFiniteSet(Users)  BY <1>1, AddrFinite
      <2> HIDE DEF e, f
      <2>4. SumFunction(e) = SumFunction(f) - f[u] + h[u]  BY <2>1, <2>3, TotalPut
      <2>5. SumFunction(f) \in Int  BY <2>3, TotalInt
      <2> QED  BY <1>2, <2>1, <2>2, <2>4, <2>5
<1> HIDE DEF f, g
<1>4. SumFunction(f) \in Nat /\ SumFunction(g) \in Nat  BY <1>1, TotalInt, AddrFinite
<1>5. SumFunctionOnSet(f, Users) <= SumFunctionOnSet(g, Users)
      <2>1. \A u \in Users : f[u] \in Int /\ g[u] \in Int /\ f[u] <= g[u]  BY <1>1
      <2> QED  BY <2>1, SumGrows, AddrFinite
<1>6. SumFunction(f) <= SumFunction(g)  BY <1>1, <1>5, TotalIs
<1> QED  BY <1>2, <1>3, <1>4, <1>6

(* The same with everything of FanSound as one formula about a record. *)
FanOK(f) == /\ f \in FanRecords /\ f.sold = Sum(f.holders) /\ f.sold <= Supply
            /\ \A p \in Users : Sum(f.poll[p].count) <= Backing(f.holders, f.poll[p].voted)

(* FanSound is FanOK of the record. *)
LEMMA FanIsOK == /\ fan \in FanRecords /\ FanSound <=> FanOK(fan)
                 /\ fan' \in FanRecords /\ FanSound' <=> FanOK(fan')
BY DEF FanOK, FanSound, PollWithinSupply, Backing

(* Two options. *)
LEMMA OptionsFinite == IsFiniteSet(Options)
<1>1. IsFiniteSet({"no"})  BY FS_Singleton
<1>2. Options = {"no"} \cup {"yes"}  BY DEF Options
<1> QED  BY <1>1, <1>2, FS_AddElement

(* The votes of a poll add up; a vote adds its tokens. *)
LEMMA CountTyped ==
    ASSUME NEW p \in PollRecords
    PROVE  /\ p.count \in [Options -> Nat] /\ Sum(p.count) \in Nat
           /\ \A o \in Options, n \in Nat : Sum([p.count EXCEPT ![o] = @ + n]) = Sum(p.count) + n
<1>1. IsFiniteSet(Options)  BY OptionsFinite
<1>2. p.count \in [Options -> Nat] /\ p.count \in [Options -> Int]  BY DEF PollRecords
<1>3. SumFunction(p.count) \in Nat  BY <1>1, <1>2, TotalInt
<1>4. ASSUME NEW o \in Options, NEW n \in Nat
      PROVE  Sum([p.count EXCEPT ![o] = @ + n]) = Sum(p.count) + n
      <2> DEFINE v == p.count[o] + n
                 c == p.count
      <2>1. v \in Int /\ c[o] \in Int /\ c \in [Options -> Int]  BY <1>2
      <2> HIDE DEF v, c
      <2>2. SumFunction([c EXCEPT ![o] = v]) = SumFunction(c) - c[o] + v  BY <1>1, <2>1, TotalPut
      <2> QED  BY <1>3, <2>1, <2>2 DEF Sum, v, c
<1> QED  BY <1>2, <1>3, <1>4 DEF Sum

(* Tokens sold go to a holder. *)
LEMMA FanBought ==
    ASSUME NEW f, FanOK(f), NEW u \in Users, NEW q \in Nat, f.sold + q <= Supply
    PROVE  FanOK([f EXCEPT !.sold = @ + q, !.holders[u] = @ + q])
<1> DEFINE h == [f.holders EXCEPT ![u] = @ + q]
           k == [f EXCEPT !.sold = @ + q, !.holders[u] = @ + q]
<1>1. /\ f.holders \in Shares /\ f.holders[u] \in Nat /\ f.sold \in Nat /\ f.sold = Sum(f.holders)
      /\ f.poll \in [Users -> PollRecords]
      BY DEF FanOK, FanRecords, Shares
<1>2. h \in Shares /\ \A v \in Users : f.holders[v] <= h[v]  BY <1>1 DEF Shares
<1>3. k \in FanRecords /\ k.holders = h /\ k.sold = f.sold + q /\ k.poll = f.poll
      <2>1. k = [f EXCEPT !.sold = f.sold + q, !.holders = h]  BY <1>1 DEF FanOK, FanRecords
      <2>2. f \in FanRecords /\ f.sold + q \in Nat  BY <1>1 DEF FanOK
      <2> HIDE DEF h, k
      <2> QED  BY <1>2, <2>1, <2>2 DEF FanRecords
<1>4. Sum(h) = Sum(f.holders) + q
      <2> DEFINE v == f.holders[u] + q
      <2>1. v \in Int /\ IsFiniteSet(Users) /\ f.holders \in [Users -> Int]  BY <1>1, AddrFinite DEF Shares
      <2>2. h = [f.holders EXCEPT ![u] = v]  OBVIOUS
      <2> HIDE DEF v, h
      <2>3. SumFunction(h) = SumFunction(f.holders) - f.holders[u] + v  BY <2>1, <2>2, TotalPut
      <2>4. SumFunction(f.holders) \in Int  BY <2>1, TotalInt
      <2> QED  BY <1>1, <2>3, <2>4 DEF Sum, v
<1> HIDE DEF h, k
<1>5. ASSUME NEW p \in Users
      PROVE  Sum(k.poll[p].count) <= Backing(k.holders, k.poll[p].voted)
      <2>1. /\ f.poll[p].voted \in SUBSET Users /\ Sum(f.poll[p].count) \in Nat
            /\ Sum(f.poll[p].count) <= Backing(f.holders, f.poll[p].voted)
            BY <1>1, CountTyped DEF PollRecords, FanOK
      <2> DEFINE V == f.poll[p].voted
      <2> HIDE DEF V
      <2>2. V \in SUBSET Users  BY <2>1 DEF V
      <2>3. Backing(f.holders, V) \in Nat /\ Backing(h, V) \in Nat /\ Backing(f.holders, V) <= Backing(h, V)
            BY <1>1, <1>2, <2>2, BackingGrows
      <2> QED  BY <1>3, <2>1, <2>3 DEF V
<1>6. FanOK(k)  BY <1>1, <1>3, <1>4, <1>5 DEF FanOK
<1> QED  BY <1>6 DEF k

(* A proposal begins with no votes. *)
LEMMA FanProposed ==
    ASSUME NEW f, FanOK(f), NEW u \in Users, NEW n \in Nat
    PROVE  FanOK([f EXCEPT !.poll[u] = [NoPoll EXCEPT !.st = "open", !.closes = n]])
<1> DEFINE new == [NoPoll EXCEPT !.st = "open", !.closes = n]
           k == [f EXCEPT !.poll[u] = new]
<1>1. new \in PollRecords /\ Sum(new.count) = 0 /\ new.voted = {}
      <2>1. None(Options) \in [Options -> Nat]  BY DEF None
      <2>2. IsFiniteSet(Options)  BY OptionsFinite
      <2>3. Sum(None(Options)) = 0  BY <2>2, TotalZero DEF None, Sum
      <2> QED  BY <2>1, <2>3 DEF NoPoll, PollRecords
<1>2. f.holders \in Shares /\ f.poll \in [Users -> PollRecords]  BY DEF FanOK, FanRecords
<1>3. /\ k \in FanRecords /\ k.holders = f.holders /\ k.sold = f.sold
      /\ k.poll[u] = new /\ \A p \in Users : p # u => k.poll[p] = f.poll[p]
      <2> HIDE DEF new
      <2> QED  BY <1>1, <1>2 DEF FanOK, FanRecords
<1> HIDE DEF new, k
<1>4. Backing(f.holders, {}) \in Nat
      <2>1. {} \in SUBSET Users /\ \A v \in Users : f.holders[v] <= f.holders[v]  BY <1>2 DEF Shares
      <2> QED  BY <1>2, <2>1, BackingGrows
<1>5. ASSUME NEW p \in Users
      PROVE  Sum(k.poll[p].count) <= Backing(k.holders, k.poll[p].voted)
      <2>1. CASE p = u  BY <1>1, <1>3, <1>4, <2>1
      <2>2. CASE p # u  BY <1>3, <2>2 DEF FanOK
      <2> QED  BY <2>1, <2>2
<1>6. FanOK(k)  BY <1>3, <1>5 DEF FanOK
<1> QED  BY <1>6 DEF k, new

(* A vote counts the tokens of somebody who has not voted. *)
LEMMA FanVoted ==
    ASSUME NEW f, FanOK(f), NEW u \in Users, NEW p \in Users, NEW option \in Options,
           u \notin f.poll[p].voted
    PROVE  FanOK([f EXCEPT !.poll[p].count[option] = @ + f.holders[u], !.poll[p].voted = @ \cup {u}])
<1> DEFINE old == f.poll[p]
           new == [old EXCEPT !.count[option] = @ + f.holders[u], !.voted = @ \cup {u}]
           k == [f EXCEPT !.poll[p].count[option] = @ + f.holders[u], !.poll[p].voted = @ \cup {u}]
<1>1. /\ f.holders \in Shares /\ f.poll \in [Users -> PollRecords] /\ old \in PollRecords
      /\ f.holders[u] \in Nat
      BY DEF FanOK, FanRecords, Shares
<1>2. /\ new \in PollRecords /\ new.voted = old.voted \cup {u}
      /\ Sum(new.count) = Sum(old.count) + f.holders[u]
      <2>1. new.count = [old.count EXCEPT ![option] = @ + f.holders[u]]  BY <1>1 DEF PollRecords
      <2>2. old.count \in [Options -> Nat] /\ old.voted \in SUBSET Users  BY <1>1 DEF PollRecords
      <2>3. new \in PollRecords /\ new.voted = old.voted \cup {u}
            <3> DEFINE c == [old.count EXCEPT ![option] = @ + f.holders[u]]
            <3>1. c \in [Options -> Nat]  BY <1>1, <2>2
            <3>2. new = [old EXCEPT !.count = c, !.voted = old.voted \cup {u}]  BY <1>1 DEF PollRecords
            <3> HIDE DEF c, new, old
            <3> QED  BY <1>1, <2>2, <3>1, <3>2 DEF PollRecords
      <2>4. Sum([old.count EXCEPT ![option] = @ + f.holders[u]]) = Sum(old.count) + f.holders[u]
            BY <1>1, CountTyped
      <2> QED  BY <2>1, <2>3, <2>4
<1>3. /\ k \in FanRecords /\ k.holders = f.holders /\ k.sold = f.sold
      /\ k.poll[p] = new /\ \A v \in Users : v # p => k.poll[v] = f.poll[v]
      <2>1. k = [f EXCEPT !.poll = [f.poll EXCEPT ![p] = new]]  BY <1>1 DEF FanOK, FanRecords
      <2> HIDE DEF new, k
      <2> QED  BY <1>1, <1>2, <2>1 DEF FanOK, FanRecords
<1> HIDE DEF new, k
<1>4. Backing(f.holders, new.voted) = Backing(f.holders, old.voted) + f.holders[u]
      <2> DEFINE V == old.voted
      <2>1. V \in SUBSET Users /\ u \in Users \ V  BY <1>1 DEF PollRecords
      <2>2. \A v \in Users : f.holders[v] <= f.holders[v]  BY <1>1 DEF Shares
      <2> HIDE DEF V, old
      <2>3. Backing(f.holders, V \cup {u}) = Backing(f.holders, V) + f.holders[u]
            BY <1>1, <2>1, <2>2, BackingGrows
      <2> QED  BY <1>2, <2>3 DEF V
<1>5. ASSUME NEW v \in Users
      PROVE  Sum(k.poll[v].count) <= Backing(k.holders, k.poll[v].voted)
      <2>1. CASE v = p
            <3>1. Sum(old.count) <= Backing(f.holders, old.voted) /\ Sum(old.count) \in Nat
                  BY <1>1, CountTyped DEF FanOK
            <3>2. Backing(f.holders, old.voted) \in Nat
                  <4> DEFINE V == old.voted
                  <4>1. V \in SUBSET Users  BY <1>1 DEF PollRecords
                  <4>2. \A w \in Users : f.holders[w] <= f.holders[w]  BY <1>1 DEF Shares
                  <4> HIDE DEF V, old
                  <4>3. Backing(f.holders, V) \in Nat  BY <1>1, <4>1, <4>2, BackingGrows
                  <4> QED  BY <4>3 DEF V
            <3>3. k.poll[v] = new /\ k.holders = f.holders  BY <1>3, <2>1
            <3>4. f.holders[u] \in Nat  BY <1>1
            <3>5. Sum(new.count) = Sum(old.count) + f.holders[u]  BY <1>2
            <3> HIDE DEF old
            <3>6. Sum(new.count) <= Backing(f.holders, new.voted)  BY <1>4, <3>1, <3>2, <3>4, <3>5
            <3> QED  BY <3>3, <3>6
      <2>2. CASE v # p  BY <1>3, <2>2 DEF FanOK
      <2> QED  BY <2>1, <2>2
<1>6. FanOK(k)  BY <1>3, <1>5 DEF FanOK
<1> QED  BY <1>6 DEF k
-----------------------------------------------------------------------------
(* Revenue shares. *)

(* An amount is part of the total. *)
LEMMA PartOfTotal ==
    ASSUME NEW f \in Shares, NEW u \in Users
    PROVE  f[u] \in Nat /\ Sum(f) \in Nat /\ f[u] <= Sum(f)
<1>1. IsFiniteSet(Users) /\ IsFiniteSet(Users \ {u})  BY AddrFinite, FS_Subset
<1>2. (\A x \in Users : f[x] \in Nat /\ f[x] \in Int) /\ DOMAIN f = Users  BY DEF Shares
<1>3. SumFunctionOnSet(f, Users) = f[u] + SumFunctionOnSet(f, Users \ {u})  BY <1>1, <1>2, SumRemove
<1>4. SumFunctionOnSet(f, Users \ {u}) \in Nat  BY <1>1, <1>2, SumIsNat
<1>5. Sum(f) = SumFunctionOnSet(f, Users)  BY <1>2, TotalIs DEF Sum
<1> QED  BY <1>2, <1>3, <1>4, <1>5

(* One share more. *)
LEMMA ShareAdded ==
    ASSUME NEW f \in Shares, NEW u \in Users, NEW n \in Int, f[u] + n \in Nat
    PROVE  [f EXCEPT ![u] = @ + n] \in Shares /\ Sum([f EXCEPT ![u] = @ + n]) = Sum(f) + n
<1> DEFINE v == f[u] + n
<1>1. f[u] \in Nat /\ Sum(f) \in Nat  BY PartOfTotal
<1>2. f \in [Users -> Int] /\ v \in Int /\ v \in Nat /\ IsFiniteSet(Users)  BY AddrFinite DEF Shares
<1> HIDE DEF v
<1>3. SumFunction([f EXCEPT ![u] = v]) = SumFunction(f) - f[u] + v  BY <1>2, TotalPut
<1>4. [f EXCEPT ![u] = v] \in Shares  BY <1>2 DEF Shares
<1> QED  BY <1>1, <1>3, <1>4 DEF v, Sum

(* A stock divided by weights and rounded down is not exceeded by the parts. *)
LEMMA PartsWithin ==
    ASSUME NEW w \in Shares, Sum(w) > 0, NEW stock \in Nat
    PROVE  LET part == [u \in Users |-> (w[u] * stock) \div Sum(w)]
           IN  part \in Shares /\ Sum(part) \in Nat /\ Sum(part) <= stock
<1> DEFINE T == Sum(w)
           part == [u \in Users |-> (w[u] * stock) \div T]
           up == [u \in Users |-> T * part[u]]
           all == [u \in Users |-> stock * w[u]]
<1>1. T \in Nat /\ T > 0 /\ IsFiniteSet(Users) /\ \A u \in Users : w[u] \in Nat
      <2>1. w \in [Users -> Nat]  BY DEF Shares
      <2> QED  BY <2>1, TotalInt, AddrFinite DEF Sum
<1> HIDE DEF T
<1>2. ASSUME NEW u \in Users PROVE part[u] \in Nat /\ T * part[u] <= stock * w[u] /\ stock * w[u] \in Nat
      <2> DEFINE a == w[u] * stock
      <2>1. a \in Nat /\ a = stock * w[u]  BY <1>1
      <2> HIDE DEF a
      <2>2. a \div T \in Nat /\ T * (a \div T) <= a  BY <1>1, <2>1, RoundedDown
      <2>3. part[u] = a \div T  BY DEF a
      <2> QED  BY <2>1, <2>2, <2>3
<1>3. part \in Shares  BY <1>2 DEF Shares
<1>4. DOMAIN part = Users  OBVIOUS
<1>5. \A u \in Users : up[u] = T * part[u] /\ all[u] = stock * w[u]  OBVIOUS
<1> HIDE DEF part, up, all
<1>6. \A u \in Users : part[u] \in Int /\ T * part[u] \in Int /\ w[u] \in Int  BY <1>1, <1>2
<1>7. SumFunctionOnSet(up, Users) = T * SumFunctionOnSet(part, Users)
      BY <1>1, <1>5, <1>6, SumTimes
<1>8. SumFunctionOnSet(all, Users) = stock * SumFunctionOnSet(w, Users)
      BY <1>1, <1>5, <1>6, SumTimes
<1>9. SumFunctionOnSet(up, Users) <= SumFunctionOnSet(all, Users)
      <2>1. \A u \in Users : up[u] \in Int /\ all[u] \in Int /\ up[u] <= all[u]  BY <1>1, <1>2, <1>5, <1>6
      <2> QED  BY <1>1, <2>1, SumGrows
<1>10. SumFunctionOnSet(w, Users) = T /\ SumFunctionOnSet(part, Users) = Sum(part)
      BY <1>4, TotalIs DEF Sum, T, Shares
<1>11. Sum(part) \in Nat  BY <1>1, <1>3, TotalInt DEF Sum, Shares
<1>12. T * Sum(part) <= stock * T  BY <1>7, <1>8, <1>9, <1>10
<1>13. ASSUME NEW x \in Nat, NEW t \in Nat, t > 0, NEW y \in Nat, t * x <= y * t PROVE x <= y
      <2>1. ASSUME x > y PROVE FALSE
            <3>1. t * (x - y) >= t  BY <1>13, <2>1
            <3>2. t * x = t * y + t * (x - y)  OBVIOUS
            <3> QED  BY <1>13, <3>1, <3>2
      <2> QED  BY <2>1
<1>14. Sum(part) <= stock
      <2> DEFINE x == Sum(part)
      <2>1. x \in Nat /\ T * x <= stock * T  BY <1>11, <1>12
      <2> HIDE DEF x
      <2>2. x <= stock  BY <1>1, <1>13, <2>1
      <2> QED  BY <2>2 DEF x
<1> QED  BY <1>3, <1>11, <1>14 DEF part, T

(* RevSound as a formula about the record. *)
RevOK(r) ==
    /\ r \in RevRecords /\ r.pool + Sum(r.paid) = r.pooled
    /\ r.late = "no" => \A u \in Users : Sum(r.investors) > 0 =>
                           r.paid[u] * Sum(r.investors) <= r.investors[u] * r.pooled

(* The one is the other. *)
LEMMA RevIsOK == /\ rev \in RevRecords /\ RevSound <=> RevOK(rev)
                 /\ rev' \in RevRecords /\ RevSound' <=> RevOK(rev')
BY DEF RevOK, RevSound

(* An investment after a royalty is a late one; one before it finds nothing paid. *)
LEMMA RevInvested ==
    ASSUME NEW r, RevOK(r), NEW u \in Users, NEW n \in Nat
    PROVE  RevOK([r EXCEPT !.investors[u] = @ + n, !.late = IF r.pooled > 0 THEN "yes" ELSE @])
<1> DEFINE i == [r.investors EXCEPT ![u] = @ + n]
           l == IF r.pooled > 0 THEN "yes" ELSE r.late
           k == [r EXCEPT !.investors[u] = @ + n, !.late = IF r.pooled > 0 THEN "yes" ELSE @]
<1>1. /\ r \in RevRecords /\ r.investors \in Shares /\ r.paid \in Shares /\ r.pooled \in Nat /\ r.pool \in Nat
      /\ l \in {"no", "yes"} /\ r.pool + Sum(r.paid) = r.pooled
      BY DEF RevOK, RevRecords
<1>2. i \in Shares
      <2>1. r.investors[u] \in Nat  BY <1>1, PartOfTotal
      <2> QED  BY <1>1, <2>1, ShareAdded
<1>3. k = [r EXCEPT !.investors = i, !.late = l]  BY <1>1 DEF RevRecords
<1> HIDE DEF i, k
<1>4. /\ k \in RevRecords /\ k.paid = r.paid /\ k.pool = r.pool /\ k.pooled = r.pooled /\ k.late = l
      /\ k.investors = i
      <2> HIDE DEF l
      <2> QED  BY <1>1, <1>2, <1>3 DEF RevRecords
<1>5. ASSUME k.late = "no", NEW v \in Users, Sum(k.investors) > 0
      PROVE  k.paid[v] * Sum(k.investors) <= k.investors[v] * k.pooled
      <2>1. r.pooled = 0  BY <1>1, <1>4, <1>5
      <2>2. r.paid[v] \in Nat /\ r.paid[v] <= Sum(r.paid) /\ Sum(r.paid) \in Nat  BY <1>1, PartOfTotal
      <2>3. r.paid[v] = 0  BY <1>1, <2>1, <2>2
      <2>4. i[v] \in Nat /\ Sum(i) \in Nat  BY <1>2, PartOfTotal
      <2> DEFINE s == Sum(i)
                 j == i[v]
      <2>5. s \in Nat /\ j \in Nat  BY <2>4
      <2> HIDE DEF s, j
      <2>6. 0 * s <= j * 0  BY <2>5
      <2> QED  BY <1>4, <2>1, <2>3, <2>6 DEF s, j
<1>6. RevOK(k)  BY <1>1, <1>4, <1>5 DEF RevOK
<1> QED  BY <1>6 DEF k

(* A royalty raises what everybody may have. *)
LEMMA RevRoyaltied ==
    ASSUME NEW r, RevOK(r), NEW n \in Nat
    PROVE  RevOK([r EXCEPT !.pool = @ + n, !.pooled = @ + n])
<1> DEFINE k == [r EXCEPT !.pool = @ + n, !.pooled = @ + n]
<1>1. /\ r \in RevRecords /\ r.investors \in Shares /\ r.paid \in Shares /\ r.pooled \in Nat /\ r.pool \in Nat
      /\ r.pool + Sum(r.paid) = r.pooled
      BY DEF RevOK, RevRecords
<1>2. /\ k \in RevRecords /\ k.paid = r.paid /\ k.pool = r.pool + n /\ k.pooled = r.pooled + n
      /\ k.late = r.late /\ k.investors = r.investors
      <2>1. r.pool + n \in Nat /\ r.pooled + n \in Nat  BY <1>1
      <2>2. k = [r EXCEPT !.pool = r.pool + n, !.pooled = r.pooled + n]  BY <1>1 DEF RevRecords
      <2> HIDE DEF k
      <2> QED  BY <1>1, <2>1, <2>2 DEF RevRecords
<1> HIDE DEF k
<1>3. Sum(r.paid) \in Int  BY <1>1, TotalInt, AddrFinite DEF Sum, Shares
<1>4. ASSUME k.late = "no", NEW v \in Users, Sum(k.investors) > 0
      PROVE  k.paid[v] * Sum(k.investors) <= k.investors[v] * k.pooled
      <2> DEFINE j == r.investors[v]
                 p == r.paid[v] * Sum(r.investors)
      <2>1. j \in Nat /\ r.paid[v] \in Nat /\ Sum(r.investors) \in Nat  BY <1>1, PartOfTotal
      <2>2. p \in Nat  BY <2>1, Product
      <2>3. p <= j * r.pooled  BY <1>2, <1>4 DEF RevOK
      <2> HIDE DEF j, p
      <2>4. j * (r.pooled + n) = j * r.pooled + j * n  BY <1>1, <2>1
      <2>5. j * n \in Nat /\ j * r.pooled \in Nat  BY <1>1, <2>1, Product
      <2>6. p <= j * (r.pooled + n)  BY <2>2, <2>3, <2>4, <2>5
      <2> QED  BY <1>2, <2>6 DEF j, p
<1>5. RevOK(k)  BY <1>1, <1>2, <1>3, <1>4 DEF RevOK
<1> QED  BY <1>5 DEF k

(* A claim is within the pool and within the share of the royalties. *)
LEMMA RevClaimed ==
    ASSUME NEW r, RevOK(r), NEW u \in Users, NEW p \in Nat, p <= r.pool, Sum(r.investors) > 0,
           p <= (r.investors[u] * r.pooled) \div Sum(r.investors) - r.paid[u]
    PROVE  RevOK([r EXCEPT !.pool = @ - p, !.paid[u] = @ + p])
<1> DEFINE d == [r.paid EXCEPT ![u] = @ + p]
           k == [r EXCEPT !.pool = @ - p, !.paid[u] = @ + p]
<1>1. /\ r \in RevRecords /\ r.investors \in Shares /\ r.paid \in Shares /\ r.pooled \in Nat /\ r.pool \in Nat
      /\ r.pool + Sum(r.paid) = r.pooled
      BY DEF RevOK, RevRecords
<1>2. /\ r.paid[u] \in Nat /\ r.investors[u] \in Nat /\ Sum(r.investors) \in Nat /\ Sum(r.paid) \in Nat
      BY <1>1, PartOfTotal
<1>3. d \in Shares /\ Sum(d) = Sum(r.paid) + p /\ d[u] = r.paid[u] + p /\ \A v \in Users : v # u => d[v] = r.paid[v]
      <2>1. r.paid[u] + p \in Nat /\ p \in Int  BY <1>2
      <2>2. d \in Shares /\ Sum(d) = Sum(r.paid) + p  BY <1>1, <2>1, ShareAdded
      <2> QED  BY <1>1, <2>2 DEF Shares
<1>4. k = [r EXCEPT !.pool = r.pool - p, !.paid = d]  BY <1>1 DEF RevRecords
<1>5. r.pool - p \in Nat  BY <1>1
<1> HIDE DEF d, k
<1>6. /\ k \in RevRecords /\ k.paid = d /\ k.pool = r.pool - p /\ k.pooled = r.pooled
      /\ k.late = r.late /\ k.investors = r.investors
      BY <1>1, <1>3, <1>4, <1>5 DEF RevRecords
<1>7. ASSUME k.late = "no", NEW v \in Users, Sum(k.investors) > 0
      PROVE  k.paid[v] * Sum(k.investors) <= k.investors[v] * k.pooled
      <2>1. CASE v # u  BY <1>3, <1>6, <1>7, <2>1 DEF RevOK
      <2>2. CASE v = u
            <3> DEFINE T == Sum(r.investors)
                       a == r.investors[u] * r.pooled
                       c == r.paid[u] + p
            <3>1. T \in Nat /\ T > 0 /\ a \in Nat /\ c \in Nat  BY <1>1, <1>2, Product
            <3>2. p <= a \div T - r.paid[u]  OBVIOUS
            <3> HIDE DEF T, a
            <3>3. a \div T \in Nat /\ T * (a \div T) <= a  BY <3>1, RoundedDown
            <3>4. c <= a \div T  BY <1>2, <3>2, <3>3
            <3> HIDE DEF c
            <3> DEFINE q == a \div T
            <3>5. q \in Nat /\ T * q <= a /\ c <= q  BY <3>3, <3>4
            <3> HIDE DEF q
            <3>6. c * T <= a
                  <4>1. T * q = c * T + T * (q - c)  BY <3>1, <3>5
                  <4>2. T * (q - c) \in Nat /\ c * T \in Nat  BY <3>1, <3>5, Product
                  <4> QED  BY <3>1, <3>5, <4>1, <4>2
            <3> QED  BY <1>3, <1>6, <2>2, <3>6 DEF T, a, c
      <2> QED  BY <2>1, <2>2
<1>8. k.pool + Sum(k.paid) = k.pooled  BY <1>1, <1>2, <1>3, <1>6
<1>9. RevOK(k)  BY <1>6, <1>7, <1>8 DEF RevOK
<1> QED  BY <1>9 DEF k

(* The claims of all together are within the pool while nobody came late: their paid parts
   are within their shares, and the shares are within the royalties. *)
LEMMA ClaimsCovered == RevOK(rev) => PoolCoversClaims
<1> SUFFICES ASSUME RevOK(rev), rev.late = "no" PROVE RoyaltyForAll  BY DEF PoolCoversClaims
<1> DEFINE T == Sum(rev.investors)
           part == [u \in Users |-> (rev.investors[u] * rev.pooled) \div T]
           due == [u \in Users |-> IF T = 0 THEN 0
                        ELSE Larger(0, (rev.investors[u] * rev.pooled) \div T - rev.paid[u])]
<1>1. /\ rev.investors \in Shares /\ rev.paid \in Shares /\ rev.pooled \in Nat /\ rev.pool \in Nat
      /\ rev.pool + Sum(rev.paid) = rev.pooled
      BY DEF RevOK, RevRecords
<1>2. T \in Nat /\ Sum(rev.paid) \in Nat  BY <1>1, TotalInt, AddrFinite DEF Sum, Shares
<1>3. CASE T = 0
      <2>1. due = [u \in Users |-> 0]  BY <1>3
      <2>2. Sum(due) = 0  BY <2>1, TotalZero, AddrFinite DEF Sum
      <2> QED  BY <1>1, <2>2 DEF RoyaltyForAll
<1>4. CASE T # 0
      <2>1. T > 0  BY <1>2, <1>4
      <2>2. part \in Shares /\ Sum(part) \in Nat /\ Sum(part) <= rev.pooled  BY <1>1, <2>1, PartsWithin
      <2>3. ASSUME NEW u \in Users
            PROVE  /\ due[u] \in Int /\ part[u] \in Int /\ rev.paid[u] \in Int
                   /\ part[u] = due[u] + rev.paid[u]
            <3> DEFINE a == rev.investors[u] * rev.pooled
                       q == a \div T
            <3>1. rev.investors[u] \in Nat /\ rev.paid[u] \in Nat  BY <1>1, PartOfTotal
            <3>2. a \in Nat  BY <1>1, <3>1, Product
            <3>3. rev.paid[u] * T <= a  BY <2>1 DEF RevOK
            <3>4. part[u] = q /\ due[u] = Larger(0, q - rev.paid[u])  BY <1>4
            <3> HIDE DEF T, a, part, due
            <3>5. q \in Nat /\ a < T * q + T  BY <1>2, <2>1, <3>2, RoundedDown
            <3> HIDE DEF q
            <3>6. rev.paid[u] <= q
                  <4> DEFINE c == rev.paid[u]
                  <4>1. c \in Nat /\ c * T <= a  BY <3>1, <3>3
                  <4> HIDE DEF c
                  <4>2. ASSUME c > q PROVE FALSE
                        <5>1. c * T = T * q + T + T * (c - q - 1)  BY <1>2, <3>5, <4>1
                        <5>2. T * (c - q - 1) \in Nat  BY <1>2, <3>5, <4>1, <4>2, Product
                        <5>3. T * q \in Nat  BY <1>2, <3>5, Product
                        <5> QED  BY <1>2, <3>2, <3>5, <4>1, <5>1, <5>2, <5>3
                  <4> QED  BY <3>5, <4>1, <4>2 DEF c
            <3> QED  BY <3>1, <3>4, <3>5, <3>6 DEF Larger
      <2>4. due \in [Users -> Int] /\ part \in [Users -> Int] /\ rev.paid \in [Users -> Int]
            <3>1. \A u \in Users : due[u] \in Int /\ part[u] \in Int  BY <2>3
            <3> QED  BY <1>1, <3>1 DEF Shares
      <2> HIDE DEF due, part
      <2>5. SumFunction(part) = SumFunction(due) + SumFunction(rev.paid)
            BY <2>3, <2>4, TotalPlus, AddrFinite
      <2>6. SumFunction(due) \in Int  BY <2>4, TotalInt, AddrFinite
      <2>7. Sum(due) <= rev.pool  BY <1>1, <1>2, <2>2, <2>5, <2>6 DEF Sum
      <2> QED  BY <2>7 DEF RoyaltyForAll, due
<1> QED  BY <1>3, <1>4
-----------------------------------------------------------------------------
(* Prediction markets. *)

(* All bets, and MktSound as a formula about the record. *)
Staked(m) == Sum(m.bets["yes"]) + Sum(m.bets["no"])
MktOK(m)  == m \in MktRecords /\ m.paid <= Staked(m) /\ (m.st # "settled" => m.paid = 0)

(* The one is the other. *)
LEMMA MktIsOK == /\ mkt \in MktRecords /\ MktSound <=> MktOK(mkt)
                 /\ mkt' \in MktRecords /\ MktSound' <=> MktOK(mkt')
                 /\ Total = Staked(mkt) /\ Total' = Staked(mkt')
BY DEF MktOK, MktSound, Total, Pool, Staked

(* A bet adds to the stakes. *)
LEMMA MktBet ==
    ASSUME NEW m, MktOK(m), m.st = "open", NEW u \in Users, NEW option \in Options, NEW n \in Nat
    PROVE  LET k == [m EXCEPT !.bets[option][u] = @ + n]
           IN  MktOK(k) /\ Staked(k) = Staked(m) + n /\ k.paid = m.paid
<1> DEFINE b == [m.bets[option] EXCEPT ![u] = @ + n]
           bets == [m.bets EXCEPT ![option] = b]
           k == [m EXCEPT !.bets[option][u] = @ + n]
<1>1. m \in MktRecords /\ m.bets \in [Options -> Shares] /\ m.bets[option] \in Shares /\ m.paid = 0
      BY DEF MktOK, MktRecords
<1>2. b \in Shares /\ Sum(b) = Sum(m.bets[option]) + n
      <2>1. m.bets[option][u] \in Nat  BY <1>1, PartOfTotal
      <2>2. m.bets[option][u] + n \in Nat /\ n \in Int  BY <2>1
      <2> QED  BY <1>1, <2>2, ShareAdded
<1> HIDE DEF b
<1>3. bets \in [Options -> Shares] /\ bets[option] = b /\ \A o \in Options : o # option => bets[o] = m.bets[o]
      BY <1>1, <1>2
<1>4. k = [m EXCEPT !.bets = bets]  BY <1>1 DEF MktRecords, b
<1> HIDE DEF bets, k
<1>5. k \in MktRecords /\ k.bets = bets /\ k.paid = m.paid /\ k.st = m.st  BY <1>1, <1>3, <1>4 DEF MktRecords
<1>6. /\ Sum(m.bets["yes"]) \in Nat /\ Sum(m.bets["no"]) \in Nat  BY <1>1, PoolsTyped
<1>7. Staked(k) = Staked(m) + n
      <2>1. CASE option = "yes"
            <3>1. bets["yes"] = b /\ bets["no"] = m.bets["no"]  BY <1>3, <2>1 DEF Options
            <3> QED  BY <1>2, <1>5, <1>6, <2>1, <3>1 DEF Staked
      <2>2. CASE option = "no"
            <3>1. bets["no"] = b /\ bets["yes"] = m.bets["yes"]  BY <1>3, <2>2 DEF Options
            <3> QED  BY <1>2, <1>5, <1>6, <2>2, <3>1 DEF Staked
      <2> QED  BY <2>1, <2>2 DEF Options
<1>8. Staked(m) \in Nat  BY <1>6 DEF Staked
<1>9. MktOK(k)  BY <1>1, <1>5, <1>7, <1>8 DEF MktOK
<1> QED  BY <1>5, <1>7, <1>9 DEF k

(* The prizes and the fee are within the stakes. *)
LEMMA MktPrizes ==
    ASSUME NEW m, MktOK(m), NEW outcome \in Options, Sum(m.bets[outcome]) > 0
    PROVE  LET fee == (Staked(m) * 2) \div 100
               prizes == [u \in Users |-> (m.bets[outcome][u] * (Staked(m) - fee)) \div Sum(m.bets[outcome])]
           IN  /\ fee \in Nat /\ prizes \in Shares /\ Sum(prizes) \in Nat
               /\ fee + Sum(prizes) <= Staked(m) /\ Staked(m) \in Nat
<1> DEFINE T == Staked(m)
           fee == (T * 2) \div 100
           w == m.bets[outcome]
<1>1. w \in Shares /\ m \in MktRecords  BY DEF MktOK, MktRecords
<1>2. T \in Nat  BY <1>1, PoolsTyped DEF Staked
<1> HIDE DEF T
<1>3. fee \in Nat /\ fee <= T  BY <1>2
<1> HIDE DEF fee
<1> DEFINE rest == T - fee
           prizes == [u \in Users |-> (w[u] * rest) \div Sum(w)]
<1>4. rest \in Nat /\ Sum(w) > 0  BY <1>2, <1>3
<1> HIDE DEF rest, w
<1>5. prizes \in Shares /\ Sum(prizes) \in Nat /\ Sum(prizes) <= rest  BY <1>1, <1>4, PartsWithin
<1> HIDE DEF prizes
<1>6. fee + Sum(prizes) <= T  BY <1>2, <1>3, <1>5 DEF rest
<1> QED  BY <1>2, <1>3, <1>5, <1>6 DEF T, fee, w, rest, prizes

-----------------------------------------------------------------------------
(* Creator bonds. *)

(* What is owed is at least what was paid, and is owed in part to each. *)
LEMMA OwedInParts ==
    ASSUME NEW a \in Nat, NEW b \in Nat
    PROVE  /\ OwedTo(a) \in Nat /\ OwedTo(a) >= a /\ OwedTo(a + b) \in Nat
           /\ OwedTo(a) + OwedTo(b) <= OwedTo(a + b)
<1>1. Rate \in Nat  BY SocialFiAssumption
<1> DEFINE R == 100 + Rate
           x == a * R
           y == b * R
<1>2. R \in Nat /\ R >= 100  BY <1>1
<1> HIDE DEF R
<1>3. x \in Nat /\ y \in Nat /\ x + y = (a + b) * R  BY <1>2, Product
<1>4. x >= a * 100
      <2>1. x = a * 100 + a * (R - 100)  BY <1>2
      <2>2. a * (R - 100) \in Nat  BY <1>2, Product
      <2> QED  BY <1>3, <2>1, <2>2
<1>5. OwedTo(a) = x \div 100 /\ OwedTo(b) = y \div 100 /\ OwedTo(a + b) = (x + y) \div 100
      BY <1>3 DEF OwedTo, R
<1> HIDE DEF x, y
<1> QED  BY <1>3, <1>4, <1>5

(* A payout is within the pool, and what it leaves is for the others no smaller a share. *)
LEMMA BondPaid ==
    ASSUME bond \in BondRecords, NEW u \in Users, bond.sold[u] > 0
    PROVE  LET paid == BondPayout(u)
           IN  /\ paid \in Nat /\ paid <= bond.pool
               /\ (bond.pool - paid) * BondOwed >= bond.pool * OwedTo(Sum([bond.sold EXCEPT ![u] = 0]))
<1> DEFINE s == bond.sold[u]
           p == bond.pool
           S == Sum(bond.sold)
           rest == S - s
           O == OwedTo(S)
           o == OwedTo(s)
           q == OwedTo(rest)
           paid == BondPayout(u)
<1>1. bond.sold \in Shares /\ p \in Nat  BY DEF BondRecords
<1>2. s \in Nat /\ S \in Nat /\ s <= S /\ s > 0  BY <1>1, PartOfTotal
<1>3. Sum([bond.sold EXCEPT ![u] = 0]) = rest
      <2>1. bond.sold \in [Users -> Int] /\ 0 \in Int /\ IsFiniteSet(Users)  BY <1>1, AddrFinite DEF Shares
      <2>2. SumFunction([bond.sold EXCEPT ![u] = 0]) = SumFunction(bond.sold) - bond.sold[u] + 0
            BY <2>1, TotalPut
      <2> QED  BY <1>2, <2>2 DEF Sum
<1>4. /\ O \in Nat /\ o \in Nat /\ q \in Nat /\ o + q <= O /\ o > 0
      <2>1. rest \in Nat /\ s + rest = S  BY <1>2
      <2> HIDE DEF s, S, rest
      <2>2. /\ OwedTo(s) \in Nat /\ OwedTo(s) >= s /\ OwedTo(s + rest) \in Nat
            /\ OwedTo(s) + OwedTo(rest) <= OwedTo(s + rest)
            BY <1>2, <2>1, OwedInParts
      <2>3. OwedTo(rest) \in Nat  BY <2>1, OwedInParts
      <2> QED  BY <1>2, <2>1, <2>2, <2>3
<1>5. paid = IF p >= O THEN o ELSE (o * p) \div O  BY DEF BondPayout, BondOwed
<1>6. BondOwed = O  BY DEF BondOwed
<1> HIDE DEF s, p, S, rest, O, o, q, paid
<1>7. paid \in Nat /\ paid <= p /\ paid * O <= o * p
      <2>1. CASE p >= O
            <3>1. paid = o  BY <1>5, <2>1
            <3>2. o * p = o * O + o * (p - O)  BY <1>1, <1>4
            <3>3. o * (p - O) \in Nat /\ o * O \in Nat  BY <1>1, <1>4, <2>1, Product
            <3> QED  BY <1>1, <1>4, <2>1, <3>1, <3>2, <3>3
      <2>2. CASE p < O
            <3>1. paid = (o * p) \div O  BY <1>1, <1>4, <1>5, <2>2
            <3> DEFINE a == o * p
            <3>2. a \in Nat /\ O > 0  BY <1>1, <1>4, <2>2, Product
            <3>3. a <= O * p
                  <4>1. O * p = o * p + (O - o) * p  BY <1>1, <1>4
                  <4>2. (O - o) * p \in Nat  BY <1>1, <1>4, Product
                  <4> QED  BY <3>2, <4>1, <4>2
            <3> HIDE DEF a
            <3>4. a \div O \in Nat /\ a \div O <= p  BY <1>1, <1>4, <3>2, <3>3, RoundedWithin
            <3>5. O * (a \div O) <= a  BY <1>4, <3>2, RoundedDown
            <3> DEFINE d == a \div O
            <3>6. d \in Nat /\ d <= p /\ O * d <= a /\ paid = d  BY <3>1, <3>4, <3>5 DEF a
            <3> HIDE DEF d
            <3>7. d * O = O * d  BY <1>4, <3>6
            <3> QED  BY <3>6, <3>7 DEF a
      <2> QED  BY <1>1, <1>4, <2>1, <2>2
<1>8. (p - paid) * O >= p * q
      <2>1. (p - paid) * O = p * O - paid * O  BY <1>1, <1>4, <1>7
      <2>2. p * O = p * (o + q) + p * (O - o - q)  BY <1>1, <1>4
      <2>3. p * (o + q) = o * p + p * q  BY <1>1, <1>4
      <2>4. p * (O - o - q) \in Nat  BY <1>1, <1>4, Product
      <2>5. p * O \in Nat /\ paid * O \in Nat /\ o * p \in Nat /\ p * q \in Nat  BY <1>1, <1>4, <1>7, Product
      <2>6. p * O >= o * p + p * q  BY <2>2, <2>3, <2>4, <2>5
      <2> QED  BY <1>7, <2>1, <2>5, <2>6
<1> QED  BY <1>3, <1>6, <1>7, <1>8 DEF p, q, paid, rest
-----------------------------------------------------------------------------
(* Sealed texts. *)

(* TextSound as a formula about the record, and what the escrow owes for a text. *)
TextOK(t) ==
    /\ t \in TextRecords
    /\ t.st \in {"none", "destroyed"} => t.released = "yes"
    /\ t.trial.st = "open" => t.trial.by \in Users
HeldFor(t) == IF t.released = "no" THEN t.deposit ELSE 0

(* The one is the other. *)
LEMMA TextIsOK == /\ text \in TextRecords /\ TextSound <=> TextOK(text)
                  /\ text' \in TextRecords /\ TextSound' <=> TextOK(text')
                  /\ Held = HeldFor(text) /\ Held' = HeldFor(text')
BY DEF TextOK, TextSound, InDispute, Held, HeldFor

(* A trial that has not begun. *)
LEMMA NoTrialTyped == NoTrial \in TrialRecords /\ NoTrial.st = "none"
BY DEF NoTrial, TrialRecords, Sides

(* A reputation stays between 0 and 100. *)
LEMMA Bumped ==
    ASSUME NEW r \in Reputations, NEW u \in People, NEW n \in Int
    PROVE  Bump(r, u, n) \in Reputations
<1> DEFINE v == Smaller(100, Larger(0, r[u] + n))
<1>1. r[u] \in 0 .. 100  BY DEF Reputations
<1>2. v \in 0 .. 100
      <2> DEFINE y == r[u] + n
      <2>1. y \in Int  BY <1>1
      <2> HIDE DEF y
      <2>2. Smaller(100, Larger(0, y)) \in 0 .. 100  BY <2>1 DEF Smaller, Larger
      <2> QED  BY <2>2 DEF y
<1>3. Bump(r, u, n) = [r EXCEPT ![u] = v]  BY DEF Bump
<1> HIDE DEF v
<1> QED  BY <1>2, <1>3 DEF Reputations

(* What a settlement leaves: a sound text, the same NOVA in all, reputations in range; either
   nothing is paid, or the trial is over and the escrow has paid the deposit. *)
SettledFrom(t, b, x) ==
    /\ TextOK(x.text) /\ Solvent(x.bal) /\ Sum(x.bal) = Sum(b) /\ x.rep \in Reputations
    /\ \/ x.bal = b /\ x.text.released = t.released /\ x.text.deposit = t.deposit
       \/ /\ x.text.released = "yes" /\ x.bal[Escrow] = b[Escrow] - t.deposit
          /\ ~InDispute(x.text) /\ x.text.trial # NoTrial

(* A verdict pays the deposit: to the buyer and the fund, or back to the author. *)
LEMMA Executed ==
    ASSUME NEW t, TextOK(t), InDispute(t), NEW b, Solvent(b), NEW r \in Reputations,
           NEW winner \in {"buyer", "seller"}
    PROVE  SettledFrom(t, b, TextExecute([text |-> t, bal |-> b, rep |-> r], winner))
<1> DEFINE w == [text |-> t, bal |-> b, rep |-> r]
           half == t.deposit \div 2
           left == t.deposit - half
           side == {j \in Jury : t.trial.votes[j] = winner}
           won == [a \in People |-> IF a \in side THEN Smaller(100, r[a] + 3) ELSE r[a]]
           by == t.trial.by
           done == [t EXCEPT !.trial.st = winner, !.released = "yes"]
           paid == IF winner = "buyer" THEN Move(Move(b, Escrow, by, half), Escrow, Eco, left)
                   ELSE Move(b, Escrow, Creator, t.deposit)
           heard == IF winner = "buyer" THEN Bump(Bump(won, Creator, -20), by, 5) ELSE won
           x == TextExecute(w, winner)
<1>1. x = [text |-> done, bal |-> paid, rep |-> heard]  BY DEF TextExecute
<1>2. /\ t \in TextRecords /\ t.trial \in TrialRecords /\ t.deposit \in Nat /\ by \in Users
      BY DEF TextOK, TextRecords, TrialRecords, InDispute
<1>3. half \in Nat /\ left \in Nat /\ half + left = t.deposit  BY <1>2
<1>4. /\ done \in TextRecords /\ done.released = "yes" /\ done.trial.st = winner
      /\ done.trial.st # "open" /\ done.trial # NoTrial
      <2> DEFINE tr == [t.trial EXCEPT !.st = winner]
      <2>1. tr \in TrialRecords /\ tr.st = winner /\ tr.st # "open" /\ tr.st # "none"
            BY <1>2 DEF TrialRecords
      <2>2. done = [t EXCEPT !.trial = tr, !.released = "yes"]  BY <1>2 DEF TextRecords
      <2> HIDE DEF tr, done
      <2>3. done \in TextRecords /\ done.trial = tr /\ done.released = "yes"
            BY <1>2, <2>1, <2>2 DEF TextRecords
      <2> QED  BY <2>1, <2>3, NoTrialTyped
<1>5. by \in Addr /\ by \in People /\ by # Escrow /\ Creator # Escrow  BY <1>2, AddrFinite
<1>6. b \in Accounts /\ b[Escrow] \in Int  BY AddrFinite DEF Solvent, Accounts
<1> HIDE DEF half, left, by, done
<1>7. Solvent(paid) /\ Sum(paid) = Sum(b) /\ paid[Escrow] = b[Escrow] - t.deposit
      <2>1. CASE winner = "buyer"
            <3> DEFINE d == Move(b, Escrow, by, half)
                       e == Move(d, Escrow, Eco, left)
            <3>1. Solvent(d) /\ Sum(d) = Sum(b)  BY <1>3, <1>5, AddrFinite, SolventMoves
            <3>2. d[Escrow] = b[Escrow] - half
                  <4>1. \A c \in Addr : d[c] = b[c] - (IF c = Escrow THEN half ELSE 0) + (IF c = by THEN half ELSE 0)
                        BY <1>3, <1>5, <1>6, AddrFinite, Moves
                  <4>2. d[Escrow] = b[Escrow] - half + 0  BY <1>5, <4>1, AddrFinite
                  <4> QED  BY <1>3, <1>6, <4>2
            <3> HIDE DEF d
            <3>3. Solvent(e) /\ Sum(e) = Sum(d)  BY <1>3, <3>1, AddrFinite, SolventMoves
            <3>4. e[Escrow] = d[Escrow] - left
                  <4>1. d \in Accounts /\ d[Escrow] \in Int  BY <3>1, AddrFinite DEF Solvent, Accounts
                  <4>2. \A c \in Addr : e[c] = d[c] - (IF c = Escrow THEN left ELSE 0) + (IF c = Eco THEN left ELSE 0)
                        BY <1>3, <4>1, AddrFinite, Moves
                  <4>3. e[Escrow] = d[Escrow] - left + 0  BY <4>2, AddrFinite
                  <4> QED  BY <1>3, <4>1, <4>3
            <3>5. paid = e  BY <2>1 DEF d
            <3> HIDE DEF e, paid
            <3> QED  BY <1>2, <1>3, <1>6, <3>1, <3>2, <3>3, <3>4, <3>5
      <2>2. CASE winner = "seller"
            <3> DEFINE e == Move(b, Escrow, Creator, t.deposit)
            <3>1. Solvent(e) /\ Sum(e) = Sum(b)  BY <1>2, AddrFinite, SolventMoves
            <3>2. e[Escrow] = b[Escrow] - t.deposit + 0
                  <4> DEFINE n == t.deposit
                  <4>1. n \in Int /\ Escrow \in Addr /\ Creator \in Addr  BY <1>2, AddrFinite
                  <4> HIDE DEF n
                  <4>2. \A c \in Addr : Move(b, Escrow, Creator, n)[c]
                          = b[c] - (IF c = Escrow THEN n ELSE 0) + (IF c = Creator THEN n ELSE 0)
                        BY <1>6, <4>1, Moves
                  <4> QED  BY <1>5, <4>1, <4>2 DEF n
            <3>3. paid = e  BY <2>2
            <3> HIDE DEF e, paid
            <3> QED  BY <1>2, <1>6, <3>1, <3>2, <3>3
      <2> QED  BY <2>1, <2>2
<1>8. heard \in Reputations
      <2>1. won \in Reputations
            <3>1. ASSUME NEW a \in People PROVE won[a] \in 0 .. 100
                  <4>1. r[a] \in 0 .. 100  BY DEF Reputations
                  <4>2. Smaller(100, r[a] + 3) \in 0 .. 100  BY <4>1 DEF Smaller
                  <4> QED  BY <4>1, <4>2
            <3> QED  BY <3>1 DEF Reputations
      <2> HIDE DEF won
      <2>2. Bump(won, Creator, -20) \in Reputations  BY <2>1, Bumped, AddrFinite
      <2>3. Bump(Bump(won, Creator, -20), by, 5) \in Reputations  BY <1>5, <2>2, Bumped
      <2> QED  BY <2>1, <2>3
<1> HIDE DEF paid, heard, x
<1>9. x.text = done /\ x.bal = paid /\ x.rep = heard  BY <1>1
<1>10. TextOK(done)  BY <1>4 DEF TextOK
<1>11. SettledFrom(t, b, x)  BY <1>4, <1>7, <1>8, <1>9, <1>10 DEF SettledFrom, InDispute
<1> QED  BY <1>11 DEF x

(* A settlement executes a verdict, or sends the case to the larger jury, or does nothing. *)
LEMMA Settles ==
    ASSUME NEW t, TextOK(t), InDispute(t), NEW b, Solvent(b), NEW r \in Reputations
    PROVE  SettledFrom(t, b, TextSettle([text |-> t, bal |-> b, rep |-> r]))
<1> DEFINE w == [text |-> t, bal |-> b, rep |-> r]
           x == TextSettle(w)
           up == [w EXCEPT !.text.trial.escalated = "yes"]
<1>1. \/ x = w \/ x = up
      \/ \E winner \in {"buyer", "seller"} : x = TextExecute(w, winner)
      <2> DEFINE winner == IF Votes(t, "buyer") > Votes(t, "seller") THEN "buyer" ELSE "seller"
      <2>1. w.text = t /\ winner \in {"buyer", "seller"}  OBVIOUS
      <2>2. x \in {w, up, TextExecute(w, "seller"), TextExecute(w, winner)}  BY <2>1 DEF TextSettle
      <2> HIDE DEF winner, x, up, w
      <2> QED  BY <2>1, <2>2
<1>2. SettledFrom(t, b, w)
      <2>1. w.text = t /\ w.bal = b /\ w.rep = r  OBVIOUS
      <2> HIDE DEF w
      <2> QED  BY <2>1 DEF SettledFrom
<1>3. SettledFrom(t, b, up)
      <2> DEFINE tr == [t.trial EXCEPT !.escalated = "yes"]
                 k == [t EXCEPT !.trial = tr]
      <2>1. t \in TextRecords /\ t.trial \in TrialRecords  BY DEF TextOK, TextRecords
      <2>2. tr \in TrialRecords /\ tr.st = t.trial.st /\ tr.by = t.trial.by  BY <2>1 DEF TrialRecords
      <2>3. up = [text |-> k, bal |-> b, rep |-> r]  OBVIOUS
      <2> HIDE DEF tr
      <2>4. k \in TextRecords /\ k.trial = tr /\ k.st = t.st /\ k.released = t.released /\ k.deposit = t.deposit
            BY <2>1, <2>2 DEF TextRecords
      <2> HIDE DEF k, up
      <2>5. TextOK(k)  BY <2>2, <2>4 DEF TextOK
      <2>6. up.text = k /\ up.bal = b /\ up.rep = r  BY <2>3
      <2> QED  BY <2>4, <2>5, <2>6 DEF SettledFrom
<1>4. \A winner \in {"buyer", "seller"} : SettledFrom(t, b, TextExecute(w, winner))  BY Executed
<1> HIDE DEF w, x, up
<1>5. SettledFrom(t, b, x)  BY <1>1, <1>2, <1>3, <1>4
<1> QED  BY <1>5 DEF x, w
-----------------------------------------------------------------------------
(* Steps. *)

BoxOK(b)  ==
    /\ b \in BoxRecords
    /\ b.st # "none" => b.creator \in Users \cup {Creator}
    /\ b.st = "none" => b.reserve = 0
FracOK(f) ==
    /\ f \in FracRecords /\ f.hold <= Supply /\ f.fractions[Creator] <= Supply
    /\ \A u \in Users : f.fractions[u] + f.hold <= Supply
    /\ f.st = "none" => \A u \in Users : f.fractions[u] = 0

\* the actions of the two action properties
RedeemStep == bond'.sold # bond.sold /\ bond'.pool < bond.pool
              => bond'.pool * BondOwed >= bond.pool * BondOwed'
EscrowStep ==
    \/ text.released = "yes" /\ InDispute(text) /\ ~InDispute(text') /\ text'.trial # NoTrial
    \/ bal'[Escrow] - bal[Escrow] = Held' - Held

\* what is shown of every step
Good == IInv' /\ RedeemStep /\ EscrowStep

(* What the invariant says of each object, and the numbers that are added up. *)
LEMMA Parts ==
    ASSUME IInv
    PROVE  /\ Solvent(bal) /\ FanOK(fan) /\ RevOK(rev) /\ MktOK(mkt) /\ BoxOK(box) /\ bond \in BondRecords
           /\ FracOK(frac) /\ TextOK(text) /\ rep \in Reputations /\ ClockTyped /\ Typed
           /\ rev.pool \in Nat /\ mkt.paid \in Nat /\ Staked(mkt) \in Nat /\ box.reserve \in Nat
           /\ bond.pool \in Nat /\ Sum(bal) \in Int /\ bal[Escrow] \in Int
           /\ InGames = rev.pool + (Staked(mkt) - mkt.paid) + box.reserve + bond.pool
<1>1. /\ Solvent(bal) /\ fan \in FanRecords /\ rev \in RevRecords /\ mkt \in MktRecords
      /\ box \in BoxRecords /\ bond \in BondRecords /\ frac \in FracRecords /\ text \in TextRecords
      /\ rep \in Reputations /\ ClockTyped /\ Typed
      BY DEF IInv, Typed
<1>2. FanOK(fan) /\ RevOK(rev) /\ MktOK(mkt) /\ TextOK(text)
      <2>1. FanSound /\ RevSound /\ MktSound /\ TextSound  BY DEF IInv
      <2> QED  BY <1>1, <2>1, FanIsOK, RevIsOK, MktIsOK, TextIsOK
<1>3. BoxOK(box) /\ FracOK(frac)  BY <1>1 DEF IInv, BoxSound, FracSound, BoxOK, FracOK
<1>4. rev.pool \in Nat /\ mkt.paid \in Nat /\ box.reserve \in Nat /\ bond.pool \in Nat
      BY <1>1 DEF RevRecords, MktRecords, BoxRecords, BondRecords
<1>5. Staked(mkt) \in Nat  BY <1>1, PoolsTyped DEF Staked
<1>6. Sum(bal) \in Int  BY InGamesTyped
<1>7. InGames = rev.pool + (Staked(mkt) - mkt.paid) + box.reserve + bond.pool  BY MktIsOK DEF InGames
<1>8. bal[Escrow] \in Int  BY <1>1, AddrFinite DEF Solvent, Accounts
<1> QED  BY <1>1, <1>2, <1>3, <1>4, <1>5, <1>6, <1>7, <1>8

(* A step is good when what it changes stays sound and no NOVA is made or lost. *)
LEMMA Assembled ==
    ASSUME IInv, ClockTyped', Solvent(bal'), rep' \in Reputations,
           UNCHANGED fan \/ FanOK(fan'), UNCHANGED rev \/ RevOK(rev'), UNCHANGED mkt \/ MktOK(mkt'),
           UNCHANGED box \/ BoxOK(box'), UNCHANGED bond \/ (bond' \in BondRecords /\ RedeemStep),
           UNCHANGED frac \/ FracOK(frac'),
           (UNCHANGED text /\ bal'[Escrow] = bal[Escrow]) \/ (TextOK(text') /\ EscrowStep),
           Sum(bal') + (rev'.pool + (Staked(mkt') - mkt'.paid) + box'.reserve + bond'.pool) = Sum(bal) + InGames
    PROVE  Good
<1>1. FanSound' /\ fan' \in FanRecords  BY Frames, FanIsOK DEF FanOK
<1>2. RevSound' /\ rev' \in RevRecords  BY Frames, RevIsOK DEF RevOK
<1>3. MktSound' /\ mkt' \in MktRecords  BY Frames, MktIsOK DEF MktOK
<1>4. BoxSound' /\ box' \in BoxRecords  BY Frames DEF BoxOK, BoxSound
<1>5. bond' \in BondRecords  BY Frames
<1>6. FracSound' /\ frac' \in FracRecords  BY Frames DEF FracOK, FracSound
<1>7. TextSound' /\ text' \in TextRecords  BY Frames, TextIsOK DEF TextOK
<1>8. NovaAddsUp'
      <2>1. Sum(bal') + InGames' = Sum(bal) + InGames  BY MktIsOK DEF InGames
      <2>2. Sum(bal') \in Int  BY Gives, AddrFinite DEF Solvent
      <2>3. InGames' \in Int
            <3>1. rev'.pool \in Nat /\ mkt'.paid \in Nat /\ box'.reserve \in Nat /\ bond'.pool \in Nat
                  BY <1>2, <1>3, <1>4, <1>5 DEF RevRecords, MktRecords, BoxRecords, BondRecords
            <3>2. Total' \in Nat  BY <1>3, PoolsTyped DEF Total, Pool
            <3> QED  BY <3>1, <3>2 DEF InGames
      <2> QED  BY <1>2, <1>3, <1>4, <1>5, <2>1, <2>2, <2>3, BooksKept
<1>9. Typed'  BY <1>1, <1>2, <1>3, <1>4, <1>5, <1>6, <1>7 DEF Typed
<1>10. RedeemStep
       <2>1. CASE UNCHANGED bond  BY <2>1 DEF RedeemStep
       <2> QED  BY <2>1
<1>11. EscrowStep
       <2>1. CASE UNCHANGED text /\ bal'[Escrow] = bal[Escrow]
             <3>1. Held' = Held  BY <2>1 DEF Held
             <3>2. Held \in Int
                   <4>1. text.deposit \in Nat  BY Parts DEF TextOK, TextRecords
                   <4> QED  BY <4>1 DEF Held
             <3>3. bal[Escrow] \in Int  BY Parts
             <3> QED  BY <2>1, <3>1, <3>2, <3>3 DEF EscrowStep
       <2> QED  BY <2>1
<1> QED  BY <1>1, <1>2, <1>3, <1>4, <1>6, <1>7, <1>8, <1>9, <1>10, <1>11 DEF Good, IInv

(* A payment among the people in a step that leaves the pools alone. *)
LEMMA PoolsAlone ==
    ASSUME IInv, UNCHANGED <<rev, mkt, box, bond>>, Sum(bal') = Sum(bal)
    PROVE  Sum(bal') + (rev'.pool + (Staked(mkt') - mkt'.paid) + box'.reserve + bond'.pool) = Sum(bal) + InGames
<1>1. Staked(mkt') = Staked(mkt)  OBVIOUS
<1> QED  BY <1>1, Parts

(* Who acts. *)
LEMMA Actors == \A u \in Users : u \in People /\ u \in Addr /\ u # Creator /\ u # Escrow
<1>1. Creator \notin Users  BY SocialFiAssumption
<1> QED  BY <1>1, AddrFinite

(* A purchase of fan tokens or fractions, a proposal and a vote. *)
LEMMA FanIssueGood == ASSUME IInv, FanIssue PROVE Good
<1>1. ClockTyped'  BY Parts, TxTyped, AddrFinite DEF FanIssue
<1>2. FanOK(fan')
      <2>1. FanOK(fan) /\ fan' = [fan EXCEPT !.st = "issued"]  BY Parts DEF FanIssue
      <2> DEFINE k == [fan EXCEPT !.st = "issued"]
      <2>2. fan \in FanRecords  BY <2>1 DEF FanOK
      <2>3. k \in FanRecords /\ k.sold = fan.sold /\ k.holders = fan.holders /\ k.poll = fan.poll
            BY <2>2 DEF FanRecords
      <2> HIDE DEF k
      <2>4. FanOK(k)  BY <2>1, <2>3 DEF FanOK
      <2> QED  BY <2>1, <2>4 DEF k
<1>3. UNCHANGED <<bal, rev, mkt, box, cur, bond, frac, text, rep>>  BY DEF FanIssue
<1>4. Sum(bal') + (rev'.pool + (Staked(mkt') - mkt'.paid) + box'.reserve + bond'.pool) = Sum(bal) + InGames
      BY <1>3, PoolsAlone
<1> QED  BY <1>1, <1>2, <1>3, <1>4, Parts, Assembled

(* The price of fan tokens is an amount. *)
LEMMA FanPriceTyped == ASSUME FanOK(fan), NEW q \in Nat PROVE FanPriceAt(q) \in Nat
<1>1. FanPrice \in Nat /\ Supply \in Nat /\ Supply > 0  BY SocialFiAssumption
<1>2. fan.sold \in Nat  BY DEF FanOK, FanRecords
<1> DEFINE x == FanPrice * q
           y == Supply + fan.sold
           a == x * y
<1>3. x \in Nat /\ y \in Nat  BY <1>1, <1>2, Product
<1> HIDE DEF x, y
<1>4. a \in Nat  BY <1>3, Product
<1> HIDE DEF a
<1>5. a \div Supply \in Nat  BY <1>1, <1>4, RoundedDown
<1> QED  BY <1>5 DEF FanPriceAt, a, x, y

(* Tokens are sold while the supply lasts. *)
LEMMA FanBuyGood == ASSUME IInv, NEW u \in Users, NEW q \in 1 .. Supply, FanBuy(u, q) PROVE Good
<1> DEFINE price == FanPriceAt(q)
<1>1. q \in Nat /\ Supply \in Nat  BY SocialFiAssumption
<1>2. price \in Nat  BY <1>1, Parts, FanPriceTyped
<1>3. ClockTyped' /\ bal[u] >= price
      <2>1. Tx("fan", u, price)  BY DEF FanBuy
      <2> HIDE DEF price
      <2> QED  BY <1>2, <2>1, Parts, TxTyped, Actors
<1>4. bal' = Move(bal, u, Creator, price)  BY DEF FanBuy
<1>5. FanOK(fan')
      <2>1. fan' = [fan EXCEPT !.sold = @ + q, !.holders[u] = @ + q] /\ fan.sold + q <= Supply  BY DEF FanBuy
      <2> QED  BY <1>1, <2>1, Parts, FanBought
<1>6. UNCHANGED <<rev, mkt, box, cur, bond, frac, text, rep>>  BY DEF FanBuy
<1> HIDE DEF price
<1>7. Solvent(bal') /\ Sum(bal') = Sum(bal) /\ bal'[Escrow] = bal[Escrow]
      <2>1. Solvent(bal) /\ u \in People /\ Creator \in People  BY Parts, Actors, AddrFinite
      <2> QED  BY <1>2, <1>3, <1>4, <2>1, SolventPays
<1>8. Sum(bal') + (rev'.pool + (Staked(mkt') - mkt'.paid) + box'.reserve + bond'.pool) = Sum(bal) + InGames
      BY <1>6, <1>7, PoolsAlone
<1> QED  BY <1>3, <1>5, <1>6, <1>7, <1>8, Parts, Assembled

(* A proposal of a holder. *)
LEMMA FanProposeGood == ASSUME IInv, NEW u \in Users, FanPropose(u) PROVE Good
<1>1. Tx("fan", u, 0)  BY DEF FanPropose
<1>2. ClockTyped' /\ now \in Nat  BY <1>1, Parts, TxTyped, Actors
<1>3. FanOK(fan')
      <2>1. fan' = [fan EXCEPT !.poll[u] = [NoPoll EXCEPT !.st = "open", !.closes = now + 1]]  BY DEF FanPropose
      <2>2. now + 1 \in Nat  BY <1>2
      <2> QED  BY <2>1, <2>2, Parts, FanProposed
<1>4. UNCHANGED <<bal, rev, mkt, box, cur, bond, frac, text, rep>>  BY DEF FanPropose
<1>5. Sum(bal') + (rev'.pool + (Staked(mkt') - mkt'.paid) + box'.reserve + bond'.pool) = Sum(bal) + InGames
      BY <1>4, PoolsAlone
<1> QED  BY <1>2, <1>3, <1>4, <1>5, Parts, Assembled

(* A vote of a holder who has not voted. *)
LEMMA FanVoteGood ==
    ASSUME IInv, NEW u \in Users, NEW p \in Users, NEW o \in Options, FanVote(u, p, o)
    PROVE  Good
<1>1. Tx("fan", u, 0)  BY DEF FanVote
<1>2. ClockTyped'  BY <1>1, Parts, TxTyped, Actors
<1>3. FanOK(fan')
      <2>1. /\ fan' = [fan EXCEPT !.poll[p].count[o] = @ + fan.holders[u], !.poll[p].voted = @ \cup {u}]
            /\ u \notin fan.poll[p].voted
            BY DEF FanVote
      <2> QED  BY <2>1, Parts, FanVoted
<1>4. UNCHANGED <<bal, rev, mkt, box, cur, bond, frac, text, rep>>  BY DEF FanVote
<1>5. Sum(bal') + (rev'.pool + (Staked(mkt') - mkt'.paid) + box'.reserve + bond'.pool) = Sum(bal) + InGames
      BY <1>4, PoolsAlone
<1> QED  BY <1>2, <1>3, <1>4, <1>5, Parts, Assembled

(* Revenue shares open. *)
LEMMA RevCreateGood == ASSUME IInv, RevCreate PROVE Good
<1>1. ClockTyped'  BY Parts, TxTyped, AddrFinite DEF RevCreate
<1>2. RevOK(rev') /\ rev'.pool = rev.pool
      <2> DEFINE k == [rev EXCEPT !.st = "open"]
      <2>1. RevOK(rev) /\ rev' = k  BY Parts DEF RevCreate
      <2>2. rev \in RevRecords  BY <2>1 DEF RevOK
      <2>3. /\ k \in RevRecords /\ k.pool = rev.pool /\ k.pooled = rev.pooled /\ k.paid = rev.paid
            /\ k.investors = rev.investors /\ k.late = rev.late
            BY <2>2 DEF RevRecords
      <2> HIDE DEF k
      <2>4. RevOK(k)  BY <2>1, <2>3 DEF RevOK
      <2> QED  BY <2>1, <2>3, <2>4
<1>3. UNCHANGED <<bal, fan, mkt, box, cur, bond, frac, text, rep>>  BY DEF RevCreate
<1>4. Sum(bal') + (rev'.pool + (Staked(mkt') - mkt'.paid) + box'.reserve + bond'.pool) = Sum(bal) + InGames
      <2>1. bal' = bal /\ mkt' = mkt /\ box' = box /\ bond' = bond  BY <1>3
      <2> QED  BY <1>2, <2>1, Parts
<1> QED  BY <1>1, <1>2, <1>3, <1>4, Parts, Assembled

(* The creator is paid by an investor. *)
LEMMA RevInvestGood == ASSUME IInv, NEW u \in Users, NEW n \in Nat, RevInvest(u, n) PROVE Good
<1>1. Tx("rev", u, n)  BY DEF RevInvest
<1>2. ClockTyped' /\ bal[u] >= n  BY <1>1, Parts, TxTyped, Actors
<1>3. RevOK(rev') /\ rev'.pool = rev.pool
      <2> DEFINE k == [rev EXCEPT !.investors[u] = @ + n, !.late = IF rev.pooled > 0 THEN "yes" ELSE @]
      <2>1. rev' = k /\ RevOK(rev)  BY Parts DEF RevInvest
      <2>2. RevOK(k)  BY <2>1, RevInvested
      <2>3. rev \in RevRecords  BY <2>1 DEF RevOK
      <2>4. k.pool = rev.pool  BY <2>3 DEF RevRecords
      <2> QED  BY <2>1, <2>2, <2>4
<1>4. UNCHANGED <<fan, mkt, box, cur, bond, frac, text, rep>> /\ bal' = Move(bal, u, Creator, n)
      BY DEF RevInvest
<1>5. Solvent(bal') /\ Sum(bal') = Sum(bal) /\ bal'[Escrow] = bal[Escrow]
      <2>1. Solvent(bal) /\ u \in People /\ Creator \in People  BY Parts, Actors, AddrFinite
      <2> QED  BY <1>2, <1>4, <2>1, SolventPays
<1>6. Sum(bal') + (rev'.pool + (Staked(mkt') - mkt'.paid) + box'.reserve + bond'.pool) = Sum(bal) + InGames
      <2>1. mkt' = mkt /\ box' = box /\ bond' = bond  BY <1>4
      <2> QED  BY <1>3, <1>5, <2>1, Parts
<1> QED  BY <1>2, <1>3, <1>4, <1>5, <1>6, Parts, Assembled

(* A royalty moves NOVA of the creator into the pool. *)
LEMMA RevRoyaltyGood == ASSUME IInv, NEW n \in Nat, RevRoyalty(n) PROVE Good
<1>1. Tx("rev", Creator, n)  BY DEF RevRoyalty
<1>2. ClockTyped' /\ bal[Creator] >= n  BY <1>1, Parts, TxTyped, AddrFinite
<1>3. RevOK(rev') /\ rev'.pool = rev.pool + n
      <2> DEFINE k == [rev EXCEPT !.pool = @ + n, !.pooled = @ + n]
      <2>1. rev' = k /\ RevOK(rev)  BY Parts DEF RevRoyalty
      <2>2. RevOK(k)  BY <2>1, RevRoyaltied
      <2>3. rev \in RevRecords  BY <2>1 DEF RevOK
      <2>4. k.pool = rev.pool + n  BY <2>3 DEF RevRecords
      <2> QED  BY <2>1, <2>2, <2>4
<1>4. UNCHANGED <<fan, mkt, box, cur, bond, frac, text, rep>> /\ bal' = [bal EXCEPT ![Creator] = @ - n]
      BY DEF RevRoyalty
<1>5. Solvent(bal') /\ Sum(bal') = Sum(bal) - n /\ bal'[Escrow] = bal[Escrow]
      BY <1>2, <1>4, Parts, SolventTakes, AddrFinite
<1>6. Sum(bal') + (rev'.pool + (Staked(mkt') - mkt'.paid) + box'.reserve + bond'.pool) = Sum(bal) + InGames
      <2>1. mkt' = mkt /\ box' = box /\ bond' = bond  BY <1>4
      <2> QED  BY <1>3, <1>5, <2>1, Parts
<1> QED  BY <1>2, <1>3, <1>4, <1>5, <1>6, Parts, Assembled

(* A claim takes out of the pool what it pays. *)
LEMMA RevClaimGood == ASSUME IInv, NEW u \in Users, RevClaim(u) PROVE Good
<1> DEFINE p == PendingClaim(u)
           due == (rev.investors[u] * rev.pooled) \div Sum(rev.investors) - rev.paid[u]
<1>1. Tx("rev", u, 0) /\ p > 0  BY DEF RevClaim
<1>2. ClockTyped'  BY <1>1, Parts, TxTyped, Actors
<1>3. /\ RevOK(rev) /\ rev.investors \in Shares /\ rev.paid \in Shares /\ rev.pooled \in Nat
      /\ rev.pool \in Nat /\ rev \in RevRecords
      BY Parts DEF RevOK, RevRecords
<1>4. /\ rev.investors[u] \in Nat /\ rev.paid[u] \in Nat /\ Sum(rev.investors) \in Nat
      BY <1>3, PartOfTotal
<1>5. Sum(rev.investors) > 0 /\ due \in Int /\ p = Larger(0, Smaller(due, rev.pool))
      <2> DEFINE T == Sum(rev.investors)
                 a == rev.investors[u] * rev.pooled
      <2>1. p = IF rev.pool = 0 \/ T = 0 THEN 0 ELSE Larger(0, Smaller(due, rev.pool))  BY DEF PendingClaim
      <2>2. a \in Nat /\ T \in Nat  BY <1>3, <1>4, Product
      <2> HIDE DEF p
      <2>3. T # 0 /\ p = Larger(0, Smaller(due, rev.pool))  BY <1>1, <2>1
      <2> HIDE DEF T, a
      <2>4. a \div T \in Nat  BY <2>2, <2>3, RoundedDown
      <2>5. a \div T - rev.paid[u] \in Int  BY <1>4, <2>4
      <2> QED  BY <2>2, <2>3, <2>5 DEF T, a
<1> HIDE DEF p, due
<1>6. p \in Nat /\ p <= due /\ p <= rev.pool  BY <1>1, <1>3, <1>5 DEF Larger, Smaller
<1>7. /\ bal' = Give(bal, u, p) /\ rev' = [rev EXCEPT !.pool = @ - p, !.paid[u] = @ + p]
      /\ UNCHANGED <<fan, mkt, box, cur, bond, frac, text, rep>>
      BY DEF RevClaim, p
<1>8. RevOK(rev')  BY <1>3, <1>5, <1>6, <1>7, RevClaimed DEF due
<1>9. rev'.pool = rev.pool - p  BY <1>3, <1>7 DEF RevRecords
<1>10. Solvent(bal') /\ Sum(bal') = Sum(bal) + p /\ bal'[Escrow] = bal[Escrow]
       <2>1. Solvent(bal) /\ u \in Addr /\ u # Escrow  BY Parts, Actors
       <2> QED  BY <1>6, <1>7, <2>1, SolventGives
<1>11. Sum(bal') + (rev'.pool + (Staked(mkt') - mkt'.paid) + box'.reserve + bond'.pool) = Sum(bal) + InGames
       <2>1. mkt' = mkt /\ box' = box /\ bond' = bond  BY <1>7
       <2> QED  BY <1>6, <1>9, <1>10, <2>1, Parts
<1> QED  BY <1>2, <1>7, <1>8, <1>10, <1>11, Parts, Assembled

(* A market opens. *)
LEMMA MarketCreateGood == ASSUME IInv, MarketCreate PROVE Good
<1>1. Tx("mkt", Creator, 0)  BY DEF MarketCreate
<1>2. ClockTyped' /\ now \in Nat  BY <1>1, Parts, TxTyped, AddrFinite
<1>3. MktOK(mkt') /\ Staked(mkt') = Staked(mkt) /\ mkt'.paid = mkt.paid
      <2> DEFINE k == [mkt EXCEPT !.st = "open", !.closes = now + 1]
      <2>1. mkt' = k /\ mkt.st = "none" /\ MktOK(mkt)  BY Parts DEF MarketCreate
      <2>2. mkt \in MktRecords /\ mkt.paid = 0 /\ now + 1 \in Nat  BY <1>2, <2>1 DEF MktOK
      <2>3. k \in MktRecords /\ k.bets = mkt.bets /\ k.paid = mkt.paid /\ k.st = "open"
            BY <2>2 DEF MktRecords
      <2> HIDE DEF k
      <2>4. Staked(k) = Staked(mkt)  BY <2>3 DEF Staked
      <2>5. MktOK(k)  BY <2>1, <2>2, <2>3, <2>4 DEF MktOK
      <2> QED  BY <2>1, <2>3, <2>4, <2>5
<1>4. UNCHANGED <<bal, fan, rev, box, cur, bond, frac, text, rep>>  BY DEF MarketCreate
<1>5. Sum(bal') + (rev'.pool + (Staked(mkt') - mkt'.paid) + box'.reserve + bond'.pool) = Sum(bal) + InGames
      <2>1. bal' = bal /\ rev' = rev /\ box' = box /\ bond' = bond  BY <1>4
      <2> QED  BY <1>3, <2>1, Parts
<1> QED  BY <1>2, <1>3, <1>4, <1>5, Parts, Assembled

(* A bet moves NOVA of the user into the stakes. *)
LEMMA MarketBetGood ==
    ASSUME IInv, NEW u \in Users, NEW o \in Options, NEW n \in Nat, MarketBet(u, o, n)
    PROVE  Good
<1>1. Tx("mkt", u, n)  BY DEF MarketBet
<1>2. ClockTyped' /\ bal[u] >= n  BY <1>1, Parts, TxTyped, Actors
<1>3. MktOK(mkt') /\ Staked(mkt') = Staked(mkt) + n /\ mkt'.paid = mkt.paid
      <2>1. mkt' = [mkt EXCEPT !.bets[o][u] = @ + n] /\ mkt.st = "open" /\ MktOK(mkt)  BY Parts DEF MarketBet
      <2> QED  BY <2>1, MktBet
<1>4. UNCHANGED <<fan, rev, box, cur, bond, frac, text, rep>> /\ bal' = [bal EXCEPT ![u] = @ - n]
      BY DEF MarketBet
<1>5. Solvent(bal') /\ Sum(bal') = Sum(bal) - n /\ bal'[Escrow] = bal[Escrow]
      BY <1>2, <1>4, Parts, SolventTakes, Actors
<1>6. Sum(bal') + (rev'.pool + (Staked(mkt') - mkt'.paid) + box'.reserve + bond'.pool) = Sum(bal) + InGames
      <2>1. rev' = rev /\ box' = box /\ bond' = bond  BY <1>4
      <2> QED  BY <1>3, <1>5, <2>1, Parts
<1> QED  BY <1>2, <1>3, <1>4, <1>5, <1>6, Parts, Assembled

(* A settlement pays the fee and the prizes out of the stakes. *)
LEMMA MarketSettleGood == ASSUME IInv, NEW o \in Options, MarketSettle(o) PROVE Good
<1> DEFINE fee == (Staked(mkt) * 2) \div 100
           prizes == [u \in Users |-> (mkt.bets[o][u] * (Staked(mkt) - fee)) \div Sum(mkt.bets[o])]
           n == IF Sum(mkt.bets[o]) = 0 THEN 0 ELSE fee + Sum(prizes)
           spread == [a \in Addr |-> bal[a] + (IF a = Eco THEN fee ELSE 0)
                                            + (IF a \in Users THEN prizes[a] ELSE 0)]
<1>1. /\ Tx("mkt", Creator, 0) /\ mkt.st = "open"
      /\ mkt' = [mkt EXCEPT !.st = "settled", !.outcome = o, !.paid = n]
      /\ bal' = IF Sum(mkt.bets[o]) = 0 THEN bal ELSE spread
      /\ UNCHANGED <<fan, rev, box, cur, bond, frac, text, rep>>
      BY MktIsOK DEF MarketSettle, Pool
<1>2. ClockTyped'  BY <1>1, Parts, TxTyped, AddrFinite
<1>3. MktOK(mkt) /\ mkt.paid = 0 /\ mkt \in MktRecords  BY <1>1, Parts DEF MktOK
<1>4. Sum(mkt.bets[o]) \in Nat
      <2>1. mkt.bets[o] \in [Users -> Nat]  BY <1>3 DEF MktRecords, Shares
      <2> QED  BY <2>1, TotalInt, AddrFinite DEF Sum
<1> HIDE DEF spread
<1>5. n \in Nat /\ n <= Staked(mkt) /\ Solvent(bal') /\ Sum(bal') = Sum(bal) + n /\ bal'[Escrow] = bal[Escrow]
      <2>1. CASE Sum(mkt.bets[o]) = 0
            <3>1. n = 0 /\ bal' = bal  BY <1>1, <2>1
            <3> HIDE DEF n
            <3> QED  BY <3>1, Parts
      <2>2. CASE Sum(mkt.bets[o]) > 0
            <3>1. /\ fee \in Nat /\ prizes \in Shares /\ Sum(prizes) \in Nat
                  /\ fee + Sum(prizes) <= Staked(mkt) /\ Staked(mkt) \in Nat
                  BY <1>3, <2>2, MktPrizes
            <3>2. n = fee + Sum(prizes) /\ bal' = spread  BY <1>1, <2>2
            <3> HIDE DEF n, fee, prizes
            <3> DEFINE d == Give(bal, Eco, fee)
            <3>3. Solvent(d) /\ Sum(d) = Sum(bal) + fee /\ d[Escrow] = bal[Escrow] /\ Sum(bal) \in Int
                  BY <3>1, Parts, SolventGives, AddrFinite
            <3>4. d \in [Addr -> Int] /\ \A a \in Addr : d[a] = bal[a] + (IF a = Eco THEN fee ELSE 0)
                  <4>1. bal \in [Addr -> Int]  BY Parts DEF Solvent, Accounts
                  <4>2. d[Eco] = bal[Eco] + fee /\ \A a \in Addr : a # Eco => d[a] = bal[a]
                        <5>1. bal \in Accounts /\ fee \in Int  BY <3>1, <4>1 DEF Accounts
                        <5> QED  BY <5>1, Gives, AddrFinite
                  <4>3. \A a \in Addr : bal[a] \in Int  BY <4>1
                  <4> QED  BY <3>3, <4>2, <4>3 DEF Solvent, Accounts
            <3> HIDE DEF d
            <3>5. spread = [a \in Addr |-> d[a] + (IF a \in Users THEN prizes[a] ELSE 0)]  BY <3>4 DEF spread
            <3>6. DOMAIN prizes = Users /\ \A u \in Users : prizes[u] \in Nat /\ prizes[u] \in Int
                  BY <3>1 DEF Shares
            <3>7. Sum(spread) = Sum(d) + Sum(prizes)
                  <4>1. IsFiniteSet(Addr) /\ Users \in SUBSET Addr  BY AddrFinite
                  <4> QED  BY <3>4, <3>5, <3>6, <4>1, TotalSpread DEF Sum
            <3>8. Solvent(spread) /\ spread[Escrow] = d[Escrow]
                  <4>1. \A a \in Addr : spread[a] = d[a] + (IF a \in Users THEN prizes[a] ELSE 0)  BY <3>5
                  <4>2. \A a \in Addr : spread[a] \in Int /\ spread[a] >= d[a]  BY <3>4, <3>6, <4>1
                  <4>3. spread \in Accounts
                        <5>1. DOMAIN spread = Addr /\ spread = [a \in Addr |-> spread[a]]  BY <3>5
                        <5> QED  BY <4>2, <5>1 DEF Accounts
                  <4>4. \A a \in People \cup {Eco} : a \in Addr /\ d[a] >= 0  BY <3>3, AddrFinite DEF Solvent
                  <4>5. \A a \in Addr : d[a] \in Int  BY <3>4
                  <4>6. \A a \in People \cup {Eco} : spread[a] >= 0  BY <4>2, <4>4, <4>5
                  <4>7. Escrow \in Addr /\ Escrow \notin Users  BY AddrFinite, Actors
                  <4>8. spread[Escrow] = d[Escrow]  BY <4>1, <4>5, <4>7
                  <4> QED  BY <4>3, <4>6, <4>8 DEF Solvent
            <3> QED  BY <3>1, <3>2, <3>3, <3>7, <3>8
      <2> QED  BY <1>4, <2>1, <2>2
<1> HIDE DEF n
<1>6. MktOK(mkt') /\ Staked(mkt') = Staked(mkt) /\ mkt'.paid = n
      <2>1. mkt' = [mkt EXCEPT !.st = "settled", !.outcome = o, !.paid = n]  BY <1>1
      <2>2. mkt' \in MktRecords /\ mkt'.bets = mkt.bets /\ mkt'.paid = n /\ mkt'.st = "settled"
            BY <1>3, <1>5, <2>1 DEF MktRecords
      <2>3. Staked(mkt') = Staked(mkt)  BY <2>2 DEF Staked
      <2>4. MktOK(mkt')  BY <1>5, <2>2, <2>3 DEF MktOK
      <2> QED  BY <2>2, <2>3, <2>4
<1>7. Sum(bal') + (rev'.pool + (Staked(mkt') - mkt'.paid) + box'.reserve + bond'.pool) = Sum(bal) + InGames
      <2>1. rev' = rev /\ box' = box /\ bond' = bond  BY <1>1
      <2> QED  BY <1>3, <1>5, <1>6, <2>1, Parts
<1> QED  BY <1>1, <1>2, <1>5, <1>6, <1>7, Parts, Assembled

(* A blind box is listed with a reserve out of its creator's balance. *)
LEMMA BoxCreateGood ==
    ASSUME IInv, NEW u \in Users \cup {Creator}, NEW n \in Nat, BoxCreate(u, n)
    PROVE  Good
<1>1. Tx("box", u, 0) /\ bal[u] >= n /\ u \in People  BY AddrFinite DEF BoxCreate
<1>2. ClockTyped'  BY <1>1, Parts, TxTyped
<1>3. BoxOK(box') /\ box'.reserve = n
      <2>1. box \in BoxRecords /\ box' = [box EXCEPT !.st = "listed", !.creator = u, !.reserve = n]
            BY Parts DEF BoxCreate, BoxOK
      <2> QED  BY <2>1 DEF BoxOK, BoxRecords
<1>4. box.reserve = 0  BY Parts DEF BoxCreate, BoxOK
<1>5. UNCHANGED <<fan, rev, mkt, cur, bond, frac, text, rep>> /\ bal' = [bal EXCEPT ![u] = @ - n]
      BY DEF BoxCreate
<1>6. Solvent(bal') /\ Sum(bal') = Sum(bal) - n /\ bal'[Escrow] = bal[Escrow]
      BY <1>1, <1>5, Parts, SolventTakes
<1>7. Sum(bal') + (rev'.pool + (Staked(mkt') - mkt'.paid) + box'.reserve + bond'.pool) = Sum(bal) + InGames
      <2>1. rev' = rev /\ mkt' = mkt /\ bond' = bond  BY <1>5
      <2> QED  BY <1>3, <1>4, <1>6, <2>1, Parts
<1> QED  BY <1>2, <1>3, <1>5, <1>6, <1>7, Parts, Assembled

(* The creator of a box is somebody. *)
LEMMA BoxSomebody == ASSUME BoxOK(box), box.st # "none" PROVE box.creator \in People /\ box.reserve \in Nat
<1>1. box.creator \in Users \cup {Creator} /\ box.reserve \in Nat  BY DEF BoxOK, BoxRecords
<1> QED  BY <1>1, AddrFinite

(* The seed of a box is revealed. *)
LEMMA BoxRevealGood == ASSUME IInv, BoxReveal PROVE Good
<1>1. Tx("box", box.creator, 0) /\ box.st = "listed"  BY DEF BoxReveal
<1>2. box.creator \in People  BY <1>1, Parts, BoxSomebody
<1>3. ClockTyped'  BY <1>1, <1>2, Parts, TxTyped
<1>4. BoxOK(box') /\ box'.reserve = box.reserve
      <2>1. BoxOK(box) /\ box' = [box EXCEPT !.st = "revealed"]  BY Parts DEF BoxReveal
      <2> QED  BY <1>1, <2>1 DEF BoxOK, BoxRecords
<1>5. UNCHANGED <<bal, fan, rev, mkt, cur, bond, frac, text, rep>>  BY DEF BoxReveal
<1>6. Sum(bal') + (rev'.pool + (Staked(mkt') - mkt'.paid) + box'.reserve + bond'.pool) = Sum(bal) + InGames
      <2>1. bal' = bal /\ rev' = rev /\ mkt' = mkt /\ bond' = bond  BY <1>5
      <2> QED  BY <1>4, <2>1, Parts
<1> QED  BY <1>3, <1>4, <1>5, <1>6, Parts, Assembled

(* A box is opened: its price to the creator, a prize out of what is left of the reserve. *)
LEMMA BoxOpenGood == ASSUME IInv, NEW u \in Users, NEW n \in Nat, BoxOpen(u, n) PROVE Good
<1> DEFINE paid == Smaller(n, box.reserve)
           d == Move(bal, u, box.creator, BoxPrice)
<1>1. Tx("box", u, BoxPrice) /\ box.st = "revealed"  BY DEF BoxOpen
<1>2. BoxPrice \in Nat  BY SocialFiAssumption
<1>3. ClockTyped' /\ bal[u] >= BoxPrice  BY <1>1, <1>2, Parts, TxTyped, Actors
<1>4. box.creator \in People /\ box.reserve \in Nat  BY <1>1, Parts, BoxSomebody
<1>5. paid \in Nat /\ paid <= box.reserve  BY <1>4 DEF Smaller
<1>6. /\ bal' = Give(d, u, paid) /\ box' = [box EXCEPT !.reserve = @ - paid]
      /\ UNCHANGED <<fan, rev, mkt, cur, bond, frac, text, rep>>
      BY DEF BoxOpen
<1> HIDE DEF paid
<1>7. BoxOK(box') /\ box'.reserve = box.reserve - paid
      <2> DEFINE m == box.reserve - paid
      <2>1. BoxOK(box) /\ m \in Nat  BY <1>4, <1>5, Parts
      <2>2. box' = [box EXCEPT !.reserve = m]  BY <1>6
      <2> HIDE DEF m
      <2>3. box' \in BoxRecords /\ box'.reserve = m /\ box'.creator = box.creator /\ box'.st = box.st
            BY <2>1, <2>2 DEF BoxOK, BoxRecords
      <2> QED  BY <1>1, <2>1, <2>3 DEF BoxOK, m
<1>8. Solvent(d) /\ Sum(d) = Sum(bal) /\ d[Escrow] = bal[Escrow]
      <2>1. u \in People /\ Solvent(bal)  BY Actors, Parts
      <2> QED  BY <1>2, <1>3, <1>4, <2>1, SolventPays
<1> HIDE DEF d
<1>9. Solvent(bal') /\ Sum(bal') = Sum(bal) + paid /\ bal'[Escrow] = bal[Escrow]
      <2>1. u \in Addr /\ u # Escrow  BY Actors
      <2> QED  BY <1>5, <1>6, <1>8, <2>1, SolventGives
<1>10. Sum(bal') + (rev'.pool + (Staked(mkt') - mkt'.paid) + box'.reserve + bond'.pool) = Sum(bal) + InGames
       <2>1. rev' = rev /\ mkt' = mkt /\ bond' = bond  BY <1>6
       <2> QED  BY <1>4, <1>5, <1>7, <1>9, <2>1, Parts
<1> QED  BY <1>3, <1>6, <1>7, <1>9, <1>10, Parts, Assembled

(* Curations move NOVA only from a buyer to the author and the fund. *)
LEMMA CurateGood ==
    ASSUME IInv, CurateCreate \/ \E u \in Users : CurateBuy(u)
    PROVE  Good
<1>1. ClockTyped' /\ Solvent(bal') /\ Sum(bal') = Sum(bal) /\ bal'[Escrow] = bal[Escrow]
      <2>1. CASE CurateCreate
            <3>1. Tx("cur", Creator, 0) /\ bal' = bal  BY <2>1 DEF CurateCreate
            <3> QED  BY <3>1, Parts, TxTyped, AddrFinite
      <2>2. ASSUME NEW u \in Users, CurateBuy(u)
            PROVE  ClockTyped' /\ Solvent(bal') /\ Sum(bal') = Sum(bal) /\ bal'[Escrow] = bal[Escrow]
            <3>1. CuratePrice \in Nat  BY SocialFiAssumption
            <3>2. Tx("cur", u, CuratePrice) /\ bal' = Sold(bal, u, Creator, CuratePrice)  BY <2>2 DEF CurateBuy
            <3>3. ClockTyped' /\ bal[u] >= CuratePrice  BY <3>1, <3>2, Parts, TxTyped, Actors
            <3>4. Solvent(bal) /\ u \in People /\ Creator \in People  BY Parts, Actors, AddrFinite
            <3> QED  BY <3>1, <3>2, <3>3, <3>4, SolventSold
      <2> QED  BY <2>1, <2>2
<1>2. UNCHANGED <<fan, rev, mkt, box, bond, frac, text, rep>>  BY DEF CurateCreate, CurateBuy
<1>3. Sum(bal') + (rev'.pool + (Staked(mkt') - mkt'.paid) + box'.reserve + bond'.pool) = Sum(bal) + InGames
      BY <1>1, <1>2, PoolsAlone
<1> QED  BY <1>1, <1>2, <1>3, Parts, Assembled

(* An NFT is split: all of it is its owner's. *)
LEMMA FractionSplitGood == ASSUME IInv, FractionSplit PROVE Good
<1>1. Tx("frac", Creator, 0)  BY DEF FractionSplit
<1>2. ClockTyped'  BY <1>1, Parts, TxTyped, AddrFinite
<1>3. FracOK(frac')
      <2> DEFINE h == [frac.fractions EXCEPT ![Creator] = Supply]
      <2>1. FracOK(frac) /\ frac.st = "none" /\ Supply \in Nat
            /\ frac' = [st |-> "split", hold |-> Supply, fractions |-> h]
            BY Parts, SocialFiAssumption DEF FractionSplit
      <2>2. frac.fractions \in [Users \cup {Creator} -> Nat] /\ \A u \in Users : frac.fractions[u] = 0
            BY <2>1 DEF FracOK, FracRecords
      <2>3. /\ h \in [Users \cup {Creator} -> Nat] /\ h[Creator] = Supply
            /\ \A u \in Users : h[u] = 0
            BY <2>1, <2>2, Actors
      <2> HIDE DEF h
      <2>4. frac' \in FracRecords /\ frac'.hold = Supply /\ frac'.fractions = h /\ frac'.st = "split"
            BY <2>1, <2>3 DEF FracRecords
      <2> QED  BY <2>1, <2>3, <2>4 DEF FracOK
<1>4. UNCHANGED <<bal, fan, rev, mkt, box, cur, bond, text, rep>>  BY DEF FractionSplit
<1>5. Sum(bal') + (rev'.pool + (Staked(mkt') - mkt'.paid) + box'.reserve + bond'.pool) = Sum(bal) + InGames
      BY <1>4, PoolsAlone
<1> QED  BY <1>2, <1>3, <1>4, <1>5, Parts, Assembled

(* Fractions are sold while the owner holds some. *)
LEMMA FractionBuyGood ==
    ASSUME IInv, NEW u \in Users, NEW q \in 1 .. Supply, FractionBuy(u, q)
    PROVE  Good
<1> DEFINE price == q * FractionPrice
<1>1. q \in Nat /\ Supply \in Nat /\ FractionPrice \in Nat  BY SocialFiAssumption
<1>2. price \in Nat  BY <1>1, Product
<1>3. /\ Tx("frac", u, price) /\ frac.st = "split" /\ q <= frac.hold /\ bal' = Move(bal, u, Creator, price)
      /\ frac' = [frac EXCEPT !.hold = @ - q, !.fractions[u] = @ + q]
      /\ UNCHANGED <<rev, mkt, box, cur, bond, text, rep, fan>>
      BY DEF FractionBuy
<1> HIDE DEF price
<1>4. ClockTyped' /\ bal[u] >= price  BY <1>2, <1>3, Parts, TxTyped, Actors
<1>5. Solvent(bal') /\ Sum(bal') = Sum(bal) /\ bal'[Escrow] = bal[Escrow]
      <2>1. Solvent(bal) /\ u \in People /\ Creator \in People  BY Parts, Actors, AddrFinite
      <2> QED  BY <1>2, <1>3, <1>4, <2>1, SolventPays
<1>6. FracOK(frac')
      <2> DEFINE h == [frac.fractions EXCEPT ![u] = @ + q]
                 k == [frac EXCEPT !.hold = frac.hold - q, !.fractions = h]
      <2>1. /\ FracOK(frac) /\ frac \in FracRecords /\ frac.hold \in Nat /\ frac.hold <= Supply
            /\ frac.fractions \in [Users \cup {Creator} -> Nat]
            BY Parts DEF FracOK, FracRecords
      <2>2. h \in [Users \cup {Creator} -> Nat] /\ h[Creator] = frac.fractions[Creator]
            BY <1>1, <2>1, Actors
      <2>3. \A v \in Users : h[v] <= frac.fractions[v] + q /\ h[v] \in Nat /\ frac.fractions[v] \in Nat
            BY <1>1, <2>1
      <2>4. frac' = k  BY <1>3, <2>1 DEF FracRecords
      <2>5. frac.hold - q \in Nat  BY <1>1, <1>3, <2>1
      <2> HIDE DEF h
      <2>6. k \in FracRecords /\ k.hold = frac.hold - q /\ k.fractions = h /\ k.st = "split"
            BY <1>3, <2>1, <2>2, <2>5 DEF FracRecords
      <2> HIDE DEF k
      <2>7. ASSUME NEW v \in Users PROVE k.fractions[v] + k.hold <= Supply
            <3>1. frac.fractions[v] + frac.hold <= Supply  BY <2>1 DEF FracOK
            <3> QED  BY <1>1, <2>1, <2>3, <2>6, <3>1
      <2>8. k.hold <= Supply /\ k.fractions[Creator] <= Supply
            <3>1. frac.fractions[Creator] <= Supply  BY <2>1 DEF FracOK
            <3> QED  BY <1>1, <2>1, <2>2, <2>6, <3>1
      <2> QED  BY <2>4, <2>6, <2>7, <2>8 DEF FracOK
<1>7. Sum(bal') + (rev'.pool + (Staked(mkt') - mkt'.paid) + box'.reserve + bond'.pool) = Sum(bal) + InGames
      BY <1>3, <1>5, PoolsAlone
<1> QED  BY <1>3, <1>4, <1>5, <1>6, <1>7, Parts, Assembled

(* Bonds are issued. *)
LEMMA BondIssueGood == ASSUME IInv, BondIssue PROVE Good
<1>1. Tx("bond", Creator, 0)  BY DEF BondIssue
<1>2. ClockTyped' /\ now \in Nat  BY <1>1, Parts, TxTyped, AddrFinite
<1>3. bond' \in BondRecords /\ bond'.pool = bond.pool
      <2>1. bond \in BondRecords /\ Term \in Nat  BY Parts, SocialFiAssumption
      <2>2. bond' = [bond EXCEPT !.st = "issued", !.matures = now + Term] /\ now + Term \in Nat
            BY <1>2, <2>1 DEF BondIssue
      <2> QED  BY <2>1, <2>2 DEF BondRecords
<1>4. RedeemStep  BY <1>3, Parts DEF RedeemStep
<1>5. UNCHANGED <<bal, fan, rev, mkt, box, cur, frac, text, rep>>  BY DEF BondIssue
<1>6. Sum(bal') + (rev'.pool + (Staked(mkt') - mkt'.paid) + box'.reserve + bond'.pool) = Sum(bal) + InGames
      <2>1. bal' = bal /\ rev' = rev /\ mkt' = mkt /\ box' = box  BY <1>5
      <2> QED  BY <1>3, <2>1, Parts
<1> QED  BY <1>2, <1>3, <1>4, <1>5, <1>6, Parts, Assembled

(* A bond is bought from the creator. *)
LEMMA BondBuyGood == ASSUME IInv, NEW u \in Users, NEW n \in Nat, BondBuy(u, n) PROVE Good
<1>1. Tx("bond", u, n)  BY DEF BondBuy
<1>2. ClockTyped' /\ bal[u] >= n  BY <1>1, Parts, TxTyped, Actors
<1>3. bond' \in BondRecords /\ bond'.pool = bond.pool
      <2> DEFINE s == [bond.sold EXCEPT ![u] = @ + n]
      <2>1. bond \in BondRecords /\ bond.sold \in Shares  BY Parts DEF BondRecords
      <2>2. s \in Shares
            <3>1. bond.sold[u] \in Nat  BY <2>1, PartOfTotal
            <3>2. bond.sold[u] + n \in Nat /\ n \in Int  BY <3>1
            <3> QED  BY <2>1, <3>2, ShareAdded
      <2>3. bond' = [bond EXCEPT !.sold = s]  BY <2>1 DEF BondBuy, BondRecords
      <2> HIDE DEF s
      <2> QED  BY <2>1, <2>2, <2>3 DEF BondRecords
<1>4. RedeemStep  BY <1>3, Parts DEF RedeemStep
<1>5. UNCHANGED <<fan, rev, mkt, box, cur, frac, text, rep>> /\ bal' = Move(bal, u, Creator, n)  BY DEF BondBuy
<1>6. Solvent(bal') /\ Sum(bal') = Sum(bal) /\ bal'[Escrow] = bal[Escrow]
      <2>1. Solvent(bal) /\ u \in People /\ Creator \in People  BY Parts, Actors, AddrFinite
      <2> QED  BY <1>2, <1>5, <2>1, SolventPays
<1>7. Sum(bal') + (rev'.pool + (Staked(mkt') - mkt'.paid) + box'.reserve + bond'.pool) = Sum(bal) + InGames
      <2>1. rev' = rev /\ mkt' = mkt /\ box' = box  BY <1>5
      <2> QED  BY <1>3, <1>6, <2>1, Parts
<1> QED  BY <1>2, <1>3, <1>4, <1>5, <1>6, <1>7, Parts, Assembled

(* The creator funds the redemption. *)
LEMMA BondFundGood == ASSUME IInv, NEW n \in Nat, BondFund(n) PROVE Good
<1>1. Tx("bond", Creator, n)  BY DEF BondFund
<1>2. ClockTyped' /\ bal[Creator] >= n  BY <1>1, Parts, TxTyped, AddrFinite
<1>3. bond' \in BondRecords /\ bond'.pool = bond.pool + n
      <2>1. bond \in BondRecords /\ bond.pool + n \in Nat  BY Parts
      <2>2. bond' = [bond EXCEPT !.pool = bond.pool + n]  BY DEF BondFund
      <2> QED  BY <2>1, <2>2 DEF BondRecords
<1>4. RedeemStep  BY <1>3, Parts DEF RedeemStep
<1>5. UNCHANGED <<fan, rev, mkt, box, cur, frac, text, rep>> /\ bal' = [bal EXCEPT ![Creator] = @ - n]
      BY DEF BondFund
<1>6. Solvent(bal') /\ Sum(bal') = Sum(bal) - n /\ bal'[Escrow] = bal[Escrow]
      BY <1>2, <1>5, Parts, SolventTakes, AddrFinite
<1>7. Sum(bal') + (rev'.pool + (Staked(mkt') - mkt'.paid) + box'.reserve + bond'.pool) = Sum(bal) + InGames
      <2>1. rev' = rev /\ mkt' = mkt /\ box' = box  BY <1>5
      <2> QED  BY <1>3, <1>6, <2>1, Parts
<1> QED  BY <1>2, <1>3, <1>4, <1>5, <1>6, <1>7, Parts, Assembled

(* A redemption pays at most the pool, and leaves to the others no smaller a share. *)
LEMMA BondRedeemGood == ASSUME IInv, NEW u \in Users, BondRedeem(u) PROVE Good
<1> DEFINE paid == BondPayout(u)
           zero == [bond.sold EXCEPT ![u] = 0]
           sold == IF paid > 0 THEN zero ELSE bond.sold
           done == (\A v \in Users : sold[v] = 0) \/ bond.pool = paid
           st == IF done THEN "settled" ELSE bond.st
<1>1. /\ Tx("bond", u, 0) /\ bond.sold[u] > 0 /\ bal' = Give(bal, u, paid)
      /\ bond' = [bond EXCEPT !.sold = sold, !.pool = @ - paid, !.st = IF done THEN "settled" ELSE @]
      /\ UNCHANGED <<fan, rev, mkt, box, cur, frac, text, rep>>
      BY DEF BondRedeem
<1>2. ClockTyped'  BY <1>1, Parts, TxTyped, Actors
<1>3. bond \in BondRecords /\ bond.sold \in Shares /\ bond.pool \in Nat  BY Parts DEF BondRecords
<1>4. paid \in Nat /\ paid <= bond.pool /\ (bond.pool - paid) * BondOwed >= bond.pool * OwedTo(Sum(zero))
      BY <1>1, <1>3, BondPaid
<1>5. sold \in Shares /\ st \in {"none", "issued", "settled"}
      <2>1. zero \in Shares  BY <1>3 DEF Shares
      <2>2. bond.st \in {"none", "issued", "settled"}  BY <1>3 DEF BondRecords
      <2> HIDE DEF zero, paid, done
      <2> QED  BY <1>3, <2>1, <2>2
<1>6. bond' = [bond EXCEPT !.sold = sold, !.pool = bond.pool - paid, !.st = st]  BY <1>1
<1>7. paid = 0 => sold = bond.sold  OBVIOUS
<1>8. paid > 0 => sold = zero  OBVIOUS
<1> HIDE DEF paid, sold, st, zero, done
<1>9. bond' \in BondRecords /\ bond'.pool = bond.pool - paid /\ bond'.sold = sold
      <2>1. bond.pool - paid \in Nat  BY <1>3, <1>4
      <2> QED  BY <1>3, <1>5, <1>6, <2>1 DEF BondRecords
<1>10. RedeemStep
       <2>1. CASE paid = 0  BY <1>3, <1>9, <2>1 DEF RedeemStep
       <2>2. CASE paid > 0
             <3>1. BondOwed' = OwedTo(Sum(zero))  BY <1>8, <1>9, <2>2 DEF BondOwed
             <3> QED  BY <1>4, <1>9, <3>1 DEF RedeemStep
       <2> QED  BY <1>4, <2>1, <2>2
<1>11. Solvent(bal') /\ Sum(bal') = Sum(bal) + paid /\ bal'[Escrow] = bal[Escrow]
       <2>1. Solvent(bal) /\ u \in Addr /\ u # Escrow  BY Parts, Actors
       <2> QED  BY <1>1, <1>4, <2>1, SolventGives
<1>12. Sum(bal') + (rev'.pool + (Staked(mkt') - mkt'.paid) + box'.reserve + bond'.pool) = Sum(bal) + InGames
       <2>1. rev' = rev /\ mkt' = mkt /\ box' = box  BY <1>1
       <2> QED  BY <1>4, <1>9, <1>11, <2>1, Parts
<1> QED  BY <1>1, <1>2, <1>9, <1>10, <1>11, <1>12, Parts, Assembled

(* The deposit of a text is an amount. *)
LEMMA DepositTyped == ASSUME rep \in Reputations PROVE DepositRequired \in Nat
<1>1. rep[Creator] \in 0 .. 100  BY AddrFinite DEF Reputations
<1> QED  BY <1>1 DEF DepositRequired, Smaller

(* A text is listed with its deposit in the escrow. *)
LEMMA TextCreateGood == ASSUME IInv, TextCreate PROVE Good
<1> DEFINE n == DepositRequired
           k == [NoText EXCEPT !.st = "listed", !.deposit = n, !.released = "no"]
<1>1. /\ Tx("text", Creator, n) /\ text.st \in {"none", "destroyed"} /\ bal' = Move(bal, Creator, Escrow, n)
      /\ text' = k /\ UNCHANGED <<fan, rev, mkt, box, cur, bond, frac, rep>>
      BY DEF TextCreate
<1>2. n \in Nat  BY Parts, DepositTyped
<1> HIDE DEF n
<1>3. ClockTyped' /\ bal[Creator] >= n  BY <1>1, <1>2, Parts, TxTyped, AddrFinite
<1>4. TextOK(text') /\ Held' = n
      <2>1. NoText = [st |-> "none", deposit |-> 0, released |-> "yes", buyers |-> {}, at |-> 0, trial |-> NoTrial]
            BY DEF NoText
      <2>2. NoTrial \in TrialRecords /\ NoTrial.st = "none"  BY NoTrialTyped
      <2>3. NoText \in TextRecords /\ NoText.trial = NoTrial  BY <2>1, <2>2 DEF TextRecords
      <2>4. /\ k \in TextRecords /\ k.released = "no" /\ k.deposit = n /\ k.trial = NoTrial /\ k.st = "listed"
            BY <1>2, <2>3 DEF TextRecords
      <2> HIDE DEF k
      <2>5. TextOK(k)  BY <2>2, <2>4 DEF TextOK
      <2>6. HeldFor(k) = n  BY <2>4 DEF HeldFor
      <2> QED  BY <1>1, <2>5, <2>6, TextIsOK
<1> HIDE DEF k
<1>5. Solvent(bal') /\ Sum(bal') = Sum(bal) /\ bal'[Escrow] = bal[Escrow] + n /\ bal[Escrow] \in Int
      <2>1. Solvent(bal) /\ Creator \in Addr /\ Escrow \in Addr /\ Creator # Escrow  BY Parts, AddrFinite
      <2> DEFINE d == Move(bal, Creator, Escrow, n)
      <2>2. /\ Solvent(d) /\ Sum(d) = Sum(bal) /\ bal[Escrow] \in Int
            /\ d[Escrow] = bal[Escrow] - (IF Escrow = Creator THEN n ELSE 0) + (IF Escrow = Escrow THEN n ELSE 0)
            BY <1>2, <1>3, <2>1, SolventMoves
      <2> HIDE DEF d
      <2>3. d[Escrow] = bal[Escrow] + n  BY <1>2, <2>1, <2>2
      <2> QED  BY <1>1, <2>2, <2>3 DEF d
<1>6. EscrowStep
      <2>1. text.released = "yes"  BY <1>1, Parts DEF TextOK
      <2>2. Held = 0  BY <2>1 DEF Held
      <2> QED  BY <1>2, <1>4, <1>5, <2>2 DEF EscrowStep
<1>7. Sum(bal') + (rev'.pool + (Staked(mkt') - mkt'.paid) + box'.reserve + bond'.pool) = Sum(bal) + InGames
      BY <1>1, <1>5, PoolsAlone
<1> QED  BY <1>1, <1>3, <1>4, <1>5, <1>6, <1>7, Parts, Assembled

(* A step that leaves the deposit and the escrow alone. *)
LEMMA HeldFrame ==
    ASSUME IInv, TextOK(text'), text'.released = text.released, text'.deposit = text.deposit,
           bal'[Escrow] = bal[Escrow]
    PROVE  EscrowStep
<1>1. text.deposit \in Nat  BY Parts DEF TextOK, TextRecords
<1>2. Held' = Held /\ Held \in Int  BY <1>1 DEF Held
<1>3. bal[Escrow] \in Int  BY Parts
<1> QED  BY <1>2, <1>3 DEF EscrowStep

(* A text is bought: the author and the fund are paid, reputations rise. *)
LEMMA TextBuyGood == ASSUME IInv, NEW u \in Users, TextBuy(u) PROVE Good
<1>1. /\ Tx("text", u, TextPrice) /\ bal' = Sold(bal, u, Creator, TextPrice) /\ text.st = "listed"
      /\ text' = [text EXCEPT !.buyers = @ \cup {u}] /\ rep' = Bump(Bump(rep, Creator, 2), u, 1)
      /\ UNCHANGED <<fan, rev, mkt, box, cur, bond, frac>>
      BY DEF TextBuy, MayBuyText
<1>2. TextPrice \in Nat  BY SocialFiAssumption
<1>3. ClockTyped' /\ bal[u] >= TextPrice  BY <1>1, <1>2, Parts, TxTyped, Actors
<1>4. Solvent(bal') /\ Sum(bal') = Sum(bal) /\ bal'[Escrow] = bal[Escrow]
      <2>1. Solvent(bal) /\ u \in People /\ Creator \in People  BY Parts, Actors, AddrFinite
      <2> QED  BY <1>1, <1>2, <1>3, <2>1, SolventSold
<1>5. TextOK(text') /\ text'.released = text.released /\ text'.deposit = text.deposit
      <2>1. TextOK(text) /\ text \in TextRecords /\ text.buyers \in SUBSET Users  BY Parts DEF TextOK, TextRecords
      <2>2. /\ text' \in TextRecords /\ text'.released = text.released /\ text'.deposit = text.deposit
            /\ text'.st = text.st /\ text'.trial = text.trial
            BY <1>1, <2>1 DEF TextRecords
      <2> QED  BY <2>1, <2>2 DEF TextOK
<1>6. rep' \in Reputations
      <2>1. rep \in Reputations /\ u \in People /\ Creator \in People  BY Parts, Actors, AddrFinite
      <2>2. Bump(rep, Creator, 2) \in Reputations  BY <2>1, Bumped
      <2> QED  BY <1>1, <2>1, <2>2, Bumped
<1>7. EscrowStep  BY <1>4, <1>5, HeldFrame
<1>8. Sum(bal') + (rev'.pool + (Staked(mkt') - mkt'.paid) + box'.reserve + bond'.pool) = Sum(bal) + InGames
      BY <1>1, <1>4, PoolsAlone
<1> QED  BY <1>1, <1>3, <1>4, <1>5, <1>6, <1>7, <1>8, Assembled

(* A text is taken off the list. *)
LEMMA TextUnlistGood == ASSUME IInv, TextUnlist PROVE Good
<1>1. /\ Tx("text", Creator, 0) /\ text.st = "listed"
      /\ text' = [text EXCEPT !.st = "unlisted", !.at = now + Release]
      /\ UNCHANGED <<bal, fan, rev, mkt, box, cur, bond, frac, rep>>
      BY DEF TextUnlist
<1>2. ClockTyped' /\ now \in Nat  BY <1>1, Parts, TxTyped, AddrFinite
<1>3. TextOK(text') /\ text'.released = text.released /\ text'.deposit = text.deposit
      <2>1. TextOK(text) /\ text \in TextRecords  BY Parts DEF TextOK
      <2>2. now + Release \in Nat  BY <1>2, SocialFiAssumption
      <2>3. /\ text' \in TextRecords /\ text'.released = text.released /\ text'.deposit = text.deposit
            /\ text'.st = "unlisted" /\ text'.trial = text.trial
            BY <1>1, <2>1, <2>2 DEF TextRecords
      <2> QED  BY <2>1, <2>3 DEF TextOK
<1>4. EscrowStep  BY <1>1, <1>3, HeldFrame
<1>5. Sum(bal') + (rev'.pool + (Staked(mkt') - mkt'.paid) + box'.reserve + bond'.pool) = Sum(bal) + InGames
      BY <1>1, PoolsAlone
<1> QED  BY <1>1, <1>2, <1>3, <1>4, <1>5, Parts, Assembled

(* The escrow pays a deposit back. *)
LEMMA EscrowPays ==
    ASSUME IInv, bal' = Move(bal, Escrow, Creator, text.deposit)
    PROVE  /\ Solvent(bal') /\ Sum(bal') = Sum(bal) /\ bal'[Escrow] = bal[Escrow] - text.deposit
           /\ text.deposit \in Nat
<1> DEFINE n == text.deposit
           d == Move(bal, Escrow, Creator, n)
<1>1. n \in Nat  BY Parts DEF TextOK, TextRecords
<1>2. Solvent(bal) /\ Creator \in Addr /\ Escrow \in Addr /\ Creator # Escrow  BY Parts, AddrFinite
<1> HIDE DEF n
<1>3. /\ Solvent(d) /\ Sum(d) = Sum(bal) /\ bal[Escrow] \in Int
      /\ d[Escrow] = bal[Escrow] - (IF Escrow = Escrow THEN n ELSE 0) + (IF Escrow = Creator THEN n ELSE 0)
      BY <1>1, <1>2, SolventMoves
<1>4. bal' = d  BY DEF n
<1> HIDE DEF d
<1>5. d[Escrow] = bal[Escrow] - n  BY <1>1, <1>2, <1>3
<1> QED  BY <1>1, <1>3, <1>4, <1>5 DEF n

(* A text is destroyed: a deposit that is still held is returned. *)
LEMMA TextDestroyGood == ASSUME IInv, TextDestroy PROVE Good
<1>1. /\ Tx("text", Creator, 0)
      /\ bal' = IF text.released = "yes" THEN bal ELSE Move(bal, Escrow, Creator, text.deposit)
      /\ text' = [text EXCEPT !.st = "destroyed", !.at = now, !.released = "yes"]
      /\ UNCHANGED <<fan, rev, mkt, box, cur, bond, frac, rep>>
      BY DEF TextDestroy
<1>2. ClockTyped' /\ now \in Nat  BY <1>1, Parts, TxTyped, AddrFinite
<1>3. TextOK(text') /\ text'.released = "yes"
      <2>1. TextOK(text) /\ text \in TextRecords  BY Parts DEF TextOK
      <2>2. /\ text' \in TextRecords /\ text'.released = "yes" /\ text'.trial = text.trial
            BY <1>1, <1>2, <2>1 DEF TextRecords
      <2> QED  BY <2>1, <2>2 DEF TextOK
<1>4. Held' = 0  BY <1>3 DEF Held
<1>5. Solvent(bal') /\ Sum(bal') = Sum(bal) /\ EscrowStep
      <2>1. CASE text.released = "yes"
            <3>1. bal' = bal /\ Held = 0  BY <1>1, <2>1 DEF Held
            <3> QED  BY <1>4, <3>1, Parts DEF EscrowStep
      <2>2. CASE text.released # "yes"
            <3>1. bal' = Move(bal, Escrow, Creator, text.deposit)  BY <1>1, <2>2
            <3>2. /\ Solvent(bal') /\ Sum(bal') = Sum(bal) /\ bal'[Escrow] = bal[Escrow] - text.deposit
                  /\ text.deposit \in Nat
                  BY <3>1, EscrowPays
            <3>3. text.released = "no"  BY <2>2, Parts DEF TextOK, TextRecords
            <3>4. Held = text.deposit  BY <3>3 DEF Held
            <3> QED  BY <1>4, <3>2, <3>4, Parts DEF EscrowStep
      <2> QED  BY <2>1, <2>2
<1>6. Sum(bal') + (rev'.pool + (Staked(mkt') - mkt'.paid) + box'.reserve + bond'.pool) = Sum(bal) + InGames
      BY <1>1, <1>5, PoolsAlone
<1> QED  BY <1>1, <1>2, <1>3, <1>5, <1>6, Parts, Assembled

(* The deposit of a text off the list is released after its time. *)
LEMMA ReleaseDepositGood == ASSUME IInv, ReleaseDeposit PROVE Good
<1>1. /\ Tx("text", Creator, 0) /\ text.released = "no" /\ bal' = Move(bal, Escrow, Creator, text.deposit)
      /\ text' = [text EXCEPT !.released = "yes"]
      /\ UNCHANGED <<fan, rev, mkt, box, cur, bond, frac, rep>>
      BY DEF ReleaseDeposit, MayRelease
<1>2. ClockTyped'  BY <1>1, Parts, TxTyped, AddrFinite
<1>3. TextOK(text') /\ text'.released = "yes"
      <2>1. TextOK(text) /\ text \in TextRecords  BY Parts DEF TextOK
      <2>2. /\ text' \in TextRecords /\ text'.released = "yes" /\ text'.trial = text.trial
            BY <1>1, <2>1 DEF TextRecords
      <2> QED  BY <2>1, <2>2 DEF TextOK
<1>4. /\ Solvent(bal') /\ Sum(bal') = Sum(bal) /\ bal'[Escrow] = bal[Escrow] - text.deposit
      /\ text.deposit \in Nat
      BY <1>1, EscrowPays
<1>5. Held' = 0 /\ Held = text.deposit  BY <1>1, <1>3 DEF Held
<1>6. EscrowStep  BY <1>4, <1>5, Parts DEF EscrowStep
<1>7. Sum(bal') + (rev'.pool + (Staked(mkt') - mkt'.paid) + box'.reserve + bond'.pool) = Sum(bal) + InGames
      BY <1>1, <1>4, PoolsAlone
<1> QED  BY <1>1, <1>2, <1>3, <1>4, <1>6, <1>7, Parts, Assembled

(* A buyer complains: a new trial. *)
LEMMA TextComplainGood == ASSUME IInv, NEW u \in Users, TextComplain(u) PROVE Good
<1> DEFINE tr == [NoTrial EXCEPT !.st = "open", !.by = u, !.started = now]
<1>1. /\ Tx("text", u, 0) /\ text.st \in {"listed", "unlisted"} /\ text' = [text EXCEPT !.trial = tr]
      /\ UNCHANGED <<bal, fan, rev, mkt, box, cur, bond, frac, rep>>
      BY DEF TextComplain, MayComplain
<1>2. ClockTyped' /\ now \in Nat  BY <1>1, Parts, TxTyped, Actors
<1>3. tr \in TrialRecords /\ tr.by = u
      <2>1. NoTrial \in TrialRecords  BY NoTrialTyped
      <2> QED  BY <1>2, <2>1 DEF TrialRecords
<1> HIDE DEF tr
<1>4. TextOK(text') /\ text'.released = text.released /\ text'.deposit = text.deposit
      <2>1. TextOK(text) /\ text \in TextRecords  BY Parts DEF TextOK
      <2>2. /\ text' \in TextRecords /\ text'.released = text.released /\ text'.deposit = text.deposit
            /\ text'.st = text.st /\ text'.trial = tr
            BY <1>1, <1>3, <2>1 DEF TextRecords
      <2> QED  BY <1>3, <2>1, <2>2 DEF TextOK
<1>5. EscrowStep  BY <1>1, <1>4, HeldFrame
<1>6. Sum(bal') + (rev'.pool + (Staked(mkt') - mkt'.paid) + box'.reserve + bond'.pool) = Sum(bal) + InGames
      BY <1>1, PoolsAlone
<1> QED  BY <1>1, <1>2, <1>4, <1>5, <1>6, Parts, Assembled

(* A settlement by a vote or by the maintenance: t is the text with the vote. *)
LEMMA SettlingGood ==
    ASSUME IInv, ClockTyped', NEW t, TextOK(t), InDispute(t), InDispute(text),
           t.released = text.released, t.deposit = text.deposit,
           TextBecomes(TextSettle([text |-> t, bal |-> bal, rep |-> rep])),
           UNCHANGED <<fan, rev, mkt, box, cur, bond, frac>>
    PROVE  Good
<1> DEFINE x == TextSettle([text |-> t, bal |-> bal, rep |-> rep])
<1>1. SettledFrom(t, bal, x)  BY Parts, Settles
<1>2. text' = x.text /\ bal' = x.bal /\ rep' = x.rep  BY DEF TextBecomes
<1> HIDE DEF x
<1>3. TextOK(text') /\ Solvent(bal') /\ Sum(bal') = Sum(bal) /\ rep' \in Reputations
      BY <1>1, <1>2 DEF SettledFrom
<1>4. EscrowStep
      <2>1. CASE x.bal = bal /\ x.text.released = t.released /\ x.text.deposit = t.deposit
            <3>1. bal'[Escrow] = bal[Escrow]  BY <1>2, <2>1
            <3> QED  BY <1>2, <1>3, <2>1, <3>1, HeldFrame
      <2>2. CASE /\ x.text.released = "yes" /\ x.bal[Escrow] = bal[Escrow] - t.deposit
                 /\ ~InDispute(x.text) /\ x.text.trial # NoTrial
            <3>1. Held' = 0  BY <1>2, <2>2 DEF Held
            <3>2. CASE text.released = "yes"  BY <1>2, <2>2, <3>2 DEF EscrowStep, InDispute
            <3>3. CASE text.released # "yes"
                  <4>1. text.released = "no" /\ text.deposit \in Nat  BY <3>3, Parts DEF TextOK, TextRecords
                  <4>2. Held = text.deposit  BY <4>1 DEF Held
                  <4>3. bal'[Escrow] = bal[Escrow] - text.deposit  BY <1>2, <2>2
                  <4> QED  BY <3>1, <4>1, <4>2, <4>3, Parts DEF EscrowStep
            <3> QED  BY <3>2, <3>3
      <2> QED  BY <1>1, <2>1, <2>2 DEF SettledFrom
<1>5. Sum(bal') + (rev'.pool + (Staked(mkt') - mkt'.paid) + box'.reserve + bond'.pool) = Sum(bal) + InGames
      BY <1>3, PoolsAlone
<1> QED  BY <1>3, <1>4, <1>5, Assembled

(* A vote of the jury. *)
LEMMA TextVoteGood ==
    ASSUME IInv, NEW j \in Jury, NEW side \in {"buyer", "seller", "abstain"}, TextVote(j, side)
    PROVE  Good
<1> DEFINE t == [text EXCEPT !.trial.votes[j] = side]
           v == [text.trial.votes EXCEPT ![j] = side]
           tr == [text.trial EXCEPT !.votes = v]
<1>1. /\ Tx("text", j, 0) /\ InDispute(text) /\ UNCHANGED <<fan, rev, mkt, box, cur, bond, frac>>
      /\ TextBecomes(TextSettle([text |-> t, bal |-> bal, rep |-> rep]))
      BY DEF TextVote, MayVote
<1>2. ClockTyped'
      <2>1. j \in People  BY AddrFinite
      <2> QED  BY <1>1, <2>1, Parts, TxTyped
<1>3. TextOK(text) /\ text \in TextRecords /\ text.trial \in TrialRecords /\ text.trial.votes \in [Jury -> Sides]
      BY Parts DEF TextOK, TextRecords, TrialRecords
<1>4. v \in [Jury -> Sides]  BY <1>3 DEF Sides
<1>5. t = [text EXCEPT !.trial = tr]  BY <1>3 DEF TextRecords, TrialRecords
<1> HIDE DEF v, t
<1>6. tr \in TrialRecords /\ tr.st = text.trial.st /\ tr.by = text.trial.by  BY <1>3, <1>4 DEF TrialRecords
<1> HIDE DEF tr
<1>7. /\ t \in TextRecords /\ t.released = text.released /\ t.deposit = text.deposit /\ t.st = text.st
      /\ t.trial = tr
      BY <1>3, <1>5, <1>6 DEF TextRecords
<1>8. TextOK(t) /\ InDispute(t)  BY <1>1, <1>3, <1>6, <1>7 DEF TextOK, InDispute
<1> QED  BY <1>1, <1>2, <1>7, <1>8, SettlingGood

(* The daily maintenance. *)
LEMMA MaintainGood == ASSUME IInv, Maintain PROVE Good
<1>1. /\ InDispute(text) /\ TextBecomes(TextSettle([text |-> text, bal |-> bal, rep |-> rep]))
      /\ UNCHANGED <<fan, rev, mkt, box, cur, bond, frac>> /\ UNCHANGED <<ai, now, ops, game>>
      BY DEF Maintain
<1>2. ClockTyped'  BY <1>1, Parts DEF ClockTyped
<1>3. TextOK(text)  BY Parts
<1> QED  BY <1>1, <1>2, <1>3, SettlingGood

(* Steps that move nothing: an AI identity is registered or changed, a day passes. *)
LEMMA QuietGood ==
    ASSUME IInv, UNCHANGED <<bal, objects, rep>>, ClockTyped'
    PROVE  Good
<1>1. UNCHANGED <<bal, fan, rev, mkt, box, bond, frac, text, rep>>  BY DEF objects
<1>2. Sum(bal') + (rev'.pool + (Staked(mkt') - mkt'.paid) + box'.reserve + bond'.pool) = Sum(bal) + InGames
      BY <1>1, PoolsAlone
<1> QED  BY <1>1, <1>2, Parts, Assembled

(* They keep the clock and the budget typed. *)
LEMMA AiGood ==
    ASSUME IInv, (\E b \in Budgets : AiRegister(b)) \/ (\E change \in AiChanges : AiConfig(change)) \/ Day
    PROVE  Good
<1>1. Budgets \subseteq Nat /\ MaxOps \in Nat /\ MaxDay \in Nat  BY SocialFiAssumption
<1>2. ClockTyped  BY Parts
<1>3. ASSUME NEW b \in Budgets, AiRegister(b) PROVE ClockTyped' /\ UNCHANGED <<bal, objects, rep>>
      <2>1. ai \in AiRecords /\ b \in Nat  BY <1>1, <1>2 DEF ClockTyped
      <2>2. ai' \in AiRecords  BY <1>3, <2>1 DEF AiRegister, AiRecords
      <2>3. ops' \in 0 .. MaxOps /\ now' = now /\ game' = game
            <3>1. ops < MaxOps /\ ops' = ops + 1 /\ now' = now /\ game' = game  BY <1>3 DEF AiRegister
            <3>2. ops \in 0 .. MaxOps  BY <1>2 DEF ClockTyped
            <3>3. ops' \in 0 .. MaxOps  BY <1>1, <3>1, <3>2
            <3> QED  BY <3>1, <3>3
      <2>4. ClockTyped'  BY <1>2, <2>2, <2>3 DEF ClockTyped
      <2> QED  BY <1>3, <2>4 DEF AiRegister
<1>4. ASSUME NEW change \in AiChanges, AiConfig(change) PROVE ClockTyped' /\ UNCHANGED <<bal, objects, rep>>
      <2>1. ai \in AiRecords  BY <1>2 DEF ClockTyped
      <2>2. AiChanges \subseteq AiRecords  BY <1>1, <2>1 DEF AiChanges, AiRecords
      <2>3. ai' \in AiRecords  BY <1>4, <2>2 DEF AiConfig
      <2> QED  BY <1>1, <1>2, <1>4, <2>3 DEF AiConfig, ClockTyped
<1>5. CASE Day
      <2>1. ai \in AiRecords  BY <1>2 DEF ClockTyped
      <2>2. ai' \in AiRecords  BY <1>5, <2>1 DEF Day, AiRecords
      <2>3. ClockTyped' /\ UNCHANGED <<bal, objects, rep>>  BY <1>1, <1>2, <1>5, <2>2 DEF Day, ClockTyped
      <2> QED  BY <2>3, QuietGood
<1> QED  BY <1>3, <1>4, <1>5, QuietGood

-----------------------------------------------------------------------------
(* The theorems. *)

(* The first state: every account has its wealth and every game is empty. *)
LEMMA InitGood == Init => IInv
<1> SUFFICES ASSUME Init PROVE IInv  OBVIOUS
<1>1. /\ bal = [a \in Addr |-> IF a \in People THEN Wealth[a] ELSE 0]
      /\ fan  = [st |-> "none", sold |-> 0, holders |-> None(Users), poll |-> [u \in Users |-> NoPoll]]
      /\ rev  = [st |-> "none", investors |-> None(Users), paid |-> None(Users), pool |-> 0,
                 pooled |-> 0, late |-> "no"]
      /\ mkt  = [st |-> "none", closes |-> 0, bets |-> [o \in Options |-> None(Users)],
                 outcome |-> "", paid |-> 0]
      /\ box  = [st |-> "none", creator |-> Nobody, reserve |-> 0]
      /\ bond = [st |-> "none", sold |-> None(Users), pool |-> 0, matures |-> 0]
      /\ frac = [st |-> "none", hold |-> 0, fractions |-> None(Users \cup {Creator})]
      /\ text = NoText
      /\ ai   = [st |-> "none", budget |-> 0, spent |-> 0]
      /\ rep  = None(People)
      /\ now = 1 /\ ops = 0 /\ game \in Games
      BY DEF Init
<1>2. None(Users) \in Shares /\ Sum(None(Users)) = 0 /\ \A u \in Users : None(Users)[u] = 0
      <2>1. Sum(None(Users)) = 0  BY TotalZero, AddrFinite DEF None, Sum
      <2> QED  BY <2>1 DEF None, Shares
<1> DEFINE z == None(Users)
<1> HIDE DEF z
<1>3. z \in Shares /\ Sum(z) = 0 /\ \A u \in Users : z[u] = 0  BY <1>2 DEF z
<1>4. Solvent(bal) /\ Sum(bal) = Sum(Wealth)
      <2>1. Wealth \in [People -> Nat]  BY SocialFiAssumption
      <2>2. ASSUME NEW a \in Addr PROVE bal[a] \in Int /\ bal[a] >= 0
            <3>1. bal[a] = IF a \in People THEN Wealth[a] ELSE 0  BY <1>1
            <3>2. CASE a \in People  BY <2>1, <3>1, <3>2
            <3>3. CASE a \notin People  BY <3>1, <3>3
            <3> QED  BY <3>2, <3>3
      <2>3. bal \in [Addr -> Int]
            <3>1. bal = [a \in Addr |-> bal[a]]  BY <1>1
            <3> QED  BY <2>2, <3>1
      <2>4. \A a \in People : bal[a] = Wealth[a] /\ a \in Addr  BY <1>1, AddrFinite
      <2>5. \A a \in Addr \ People : bal[a] = 0  BY <1>1
      <2>6. People \in SUBSET Addr /\ IsFiniteSet(Addr) /\ Wealth \in [People -> Int]  BY <2>1, AddrFinite
      <2>7. Sum(bal) = Sum(Wealth)  BY <2>3, <2>4, <2>5, <2>6, TotalOfPart DEF Sum
      <2>8. \A a \in People \cup {Eco} : a \in Addr  BY AddrFinite
      <2> QED  BY <2>2, <2>3, <2>7, <2>8 DEF Solvent, Accounts
<1>5. FanOK(fan)
      <2>1. NoPoll \in PollRecords /\ Sum(NoPoll.count) = 0 /\ NoPoll.voted = {}
            <3>1. None(Options) \in [Options -> Nat]  BY DEF None
            <3>2. Sum(None(Options)) = 0  BY OptionsFinite, TotalZero DEF None, Sum
            <3> QED  BY <3>1, <3>2 DEF NoPoll, PollRecords
      <2> DEFINE polls == [u \in Users |-> NoPoll]
      <2>2. polls \in [Users -> PollRecords] /\ \A u \in Users : polls[u] = NoPoll  BY <2>1
      <2>3. fan = [st |-> "none", sold |-> 0, holders |-> z, poll |-> polls]  BY <1>1 DEF z
      <2> HIDE DEF polls
      <2>4. fan \in FanRecords /\ fan.sold = 0 /\ fan.holders = z /\ fan.poll = polls
            BY <1>3, <2>2, <2>3 DEF FanRecords
      <2>5. Backing(z, {}) \in Nat
            <3>1. {} \in SUBSET Users /\ \A v \in Users : z[v] <= z[v]  BY <1>3
            <3> QED  BY <1>3, <3>1, BackingGrows
      <2>6. Supply \in Nat  BY SocialFiAssumption
      <2> QED  BY <1>3, <2>1, <2>2, <2>4, <2>5, <2>6 DEF FanOK
<1>6. RevOK(rev) /\ rev.pool = 0
      <2>1. rev = [st |-> "none", investors |-> z, paid |-> z, pool |-> 0, pooled |-> 0, late |-> "no"]
            BY <1>1 DEF z
      <2>2. /\ rev \in RevRecords /\ rev.pool = 0 /\ rev.pooled = 0 /\ rev.paid = z /\ rev.investors = z
            BY <1>3, <2>1 DEF RevRecords
      <2> QED  BY <1>3, <2>2 DEF RevOK
<1>7. MktOK(mkt) /\ Staked(mkt) = 0 /\ mkt.paid = 0
      <2> DEFINE bets == [o \in Options |-> z]
      <2>1. bets \in [Options -> Shares] /\ bets["yes"] = z /\ bets["no"] = z  BY <1>3 DEF Options
      <2>2. mkt = [st |-> "none", closes |-> 0, bets |-> bets, outcome |-> "", paid |-> 0]  BY <1>1 DEF z
      <2> HIDE DEF bets
      <2>3. mkt \in MktRecords /\ mkt.bets = bets /\ mkt.paid = 0  BY <2>1, <2>2 DEF MktRecords
      <2>4. Staked(mkt) = 0  BY <1>3, <2>1, <2>3 DEF Staked
      <2> QED  BY <2>3, <2>4 DEF MktOK
<1>8. BoxOK(box) /\ box.reserve = 0  BY <1>1 DEF BoxOK, BoxRecords
<1>9. bond \in BondRecords /\ bond.pool = 0
      <2>1. bond = [st |-> "none", sold |-> z, pool |-> 0, matures |-> 0]  BY <1>1 DEF z
      <2> QED  BY <1>3, <2>1 DEF BondRecords
<1>10. FracOK(frac)
       <2> DEFINE y == None(Users \cup {Creator})
       <2>1. y \in [Users \cup {Creator} -> Nat] /\ \A u \in Users \cup {Creator} : y[u] = 0  BY DEF None
       <2>2. frac = [st |-> "none", hold |-> 0, fractions |-> y]  BY <1>1
       <2> HIDE DEF y
       <2>3. frac \in FracRecords /\ frac.hold = 0 /\ frac.fractions = y  BY <2>1, <2>2 DEF FracRecords
       <2>4. Supply \in Nat  BY SocialFiAssumption
       <2> QED  BY <2>1, <2>3, <2>4 DEF FracOK
<1>11. TextOK(text)
       <2>1. NoTrial \in TrialRecords /\ NoTrial.st = "none"  BY NoTrialTyped
       <2>2. text = [st |-> "none", deposit |-> 0, released |-> "yes", buyers |-> {}, at |-> 0, trial |-> NoTrial]
             BY <1>1 DEF NoText
       <2>3. text \in TextRecords /\ text.trial = NoTrial /\ text.released = "yes"  BY <2>1, <2>2 DEF TextRecords
       <2> QED  BY <2>1, <2>3 DEF TextOK
<1>12. ClockTyped /\ rep \in Reputations
       <2>1. MaxDay \in Nat /\ MaxDay # 0 /\ MaxOps \in Nat  BY SocialFiAssumption
       <2>2. ai \in AiRecords  BY <1>1 DEF AiRecords
       <2>3. ClockTyped
             <3>1. now = 1 /\ ops = 0 /\ game \in Games  BY <1>1
             <3>2. 1 \in 1 .. MaxDay /\ 0 \in 0 .. MaxOps  BY <2>1
             <3> QED  BY <2>2, <3>1, <3>2 DEF ClockTyped
       <2>4. rep \in Reputations
             <3>1. rep = [p \in People |-> 0]  BY <1>1 DEF None
             <3>2. 0 \in 0 .. 100  OBVIOUS
             <3> QED  BY <3>1, <3>2 DEF Reputations
       <2> QED  BY <2>3, <2>4
<1>13. NovaAddsUp
       <2>1. Total = 0  BY <1>7, MktIsOK
       <2>2. Sum(bal) \in Int  BY <1>4, Gives, AddrFinite DEF Solvent
       <2> QED  BY <1>4, <1>6, <1>7, <1>8, <1>9, <2>1, <2>2 DEF NovaAddsUp
<1>14. Typed  BY <1>4, <1>5, <1>6, <1>7, <1>8, <1>9, <1>10, <1>11, <1>12
          DEF Typed, FanOK, RevOK, MktOK, BoxOK, FracOK, TextOK
<1>15. FanSound /\ RevSound /\ MktSound /\ TextSound
       BY <1>5, <1>6, <1>7, <1>11, <1>14, FanIsOK, RevIsOK, MktIsOK, TextIsOK DEF Typed
<1>16. BoxSound /\ FracSound  BY <1>8, <1>10 DEF BoxSound, FracSound, BoxOK, FracOK
<1> QED  BY <1>13, <1>14, <1>15, <1>16 DEF IInv

(* Every step is good. *)
LEMMA NextGood == ASSUME IInv, Next PROVE Good
<1>1. /\ Stakes \subseteq Nat /\ BondAmounts \subseteq Nat /\ FundAmounts \subseteq Nat
      /\ Royalties \subseteq Nat /\ Reserves \subseteq Nat /\ Prizes \subseteq Nat
      BY SocialFiAssumption
<1>2. CASE \/ FanIssue \/ RevCreate \/ MarketCreate \/ BoxReveal \/ CurateCreate \/ FractionSplit \/ BondIssue
           \/ TextCreate \/ TextUnlist \/ TextDestroy \/ ReleaseDeposit \/ Day \/ Maintain
      BY <1>2, FanIssueGood, RevCreateGood, MarketCreateGood, BoxRevealGood, CurateGood, FractionSplitGood,
         BondIssueGood, TextCreateGood, TextUnlistGood, TextDestroyGood, ReleaseDepositGood, AiGood, MaintainGood
<1>3. ASSUME NEW u \in Users,
             \/ FanPropose(u) \/ RevClaim(u) \/ CurateBuy(u) \/ BondRedeem(u)
             \/ TextBuy(u) \/ TextComplain(u)
      PROVE  Good
      BY <1>3, FanProposeGood, RevClaimGood, CurateGood, BondRedeemGood, TextBuyGood, TextComplainGood
<1>4. ASSUME NEW u \in Users, NEW q \in 1 .. Supply, FanBuy(u, q) \/ FractionBuy(u, q)
      PROVE  Good
      BY <1>4, FanBuyGood, FractionBuyGood
<1>5. ASSUME NEW u \in Users, NEW p \in Users, NEW o \in Options, FanVote(u, p, o)
      PROVE  Good
      BY <1>5, FanVoteGood
<1>6. ASSUME NEW u \in Users,
             \/ \E n \in Stakes : RevInvest(u, n)
             \/ \E o \in Options, n \in Stakes : MarketBet(u, o, n)
             \/ \E n \in BondAmounts : BondBuy(u, n)
             \/ \E n \in Prizes : BoxOpen(u, n)
      PROVE  Good
      <2>1. ASSUME NEW n \in Stakes, RevInvest(u, n) PROVE Good  BY <1>1, <2>1, RevInvestGood
      <2>2. ASSUME NEW o \in Options, NEW n \in Stakes, MarketBet(u, o, n) PROVE Good
            BY <1>1, <2>2, MarketBetGood
      <2>3. ASSUME NEW n \in BondAmounts, BondBuy(u, n) PROVE Good  BY <1>1, <2>3, BondBuyGood
      <2>4. ASSUME NEW n \in Prizes, BoxOpen(u, n) PROVE Good  BY <1>1, <2>4, BoxOpenGood
      <2> QED  BY <1>6, <2>1, <2>2, <2>3, <2>4
<1>7. CASE \/ \E n \in Royalties : RevRoyalty(n)
           \/ \E n \in FundAmounts : BondFund(n)
           \/ \E o \in Options : MarketSettle(o)
           \/ \E u \in Users \cup {Creator}, r \in Reserves : BoxCreate(u, r)
      <2>1. ASSUME NEW n \in Royalties, RevRoyalty(n) PROVE Good  BY <1>1, <2>1, RevRoyaltyGood
      <2>2. ASSUME NEW n \in FundAmounts, BondFund(n) PROVE Good  BY <1>1, <2>2, BondFundGood
      <2>3. ASSUME NEW o \in Options, MarketSettle(o) PROVE Good  BY <2>3, MarketSettleGood
      <2>4. ASSUME NEW u \in Users \cup {Creator}, NEW n \in Reserves, BoxCreate(u, n) PROVE Good
            BY <1>1, <2>4, BoxCreateGood
      <2> QED  BY <1>7, <2>1, <2>2, <2>3, <2>4
<1>8. ASSUME NEW j \in Jury, NEW side \in {"buyer", "seller", "abstain"}, TextVote(j, side)
      PROVE  Good
      BY <1>8, TextVoteGood
<1>9. CASE (\E b \in Budgets : AiRegister(b)) \/ (\E change \in AiChanges : AiConfig(change))
      BY <1>9, AiGood
<1> QED  BY <1>2, <1>3, <1>4, <1>5, <1>6, <1>7, <1>8, <1>9 DEF Next

(* So is a stutter, for the invariant. *)
LEMMA StutterGood == ASSUME IInv, UNCHANGED vars PROVE IInv'
<1>1. UNCHANGED <<bal, objects, rep>> /\ UNCHANGED <<ai, now, ops, game>>  BY DEF vars
<1>2. ClockTyped'  BY <1>1, Parts DEF ClockTyped
<1> QED  BY <1>1, <1>2, QuietGood DEF Good

(* IInv is inductive: it holds at first and every action keeps it. *)
THEOREM Invariance == Spec => []IInv
<1>1. Init => IInv  BY InitGood
<1>2. IInv /\ [Next]_vars => IInv'  BY NextGood, StutterGood DEF Good
<1> QED  BY <1>1, <1>2, PTL DEF Spec

(* The type of the state is part of what the invariant says. *)
LEMMA TypeFollows == IInv => TypeOK
<1> SUFFICES ASSUME IInv PROVE TypeOK  OBVIOUS
<1>1. /\ Solvent(bal) /\ fan \in FanRecords /\ rev \in RevRecords /\ mkt \in MktRecords
      /\ box \in BoxRecords /\ bond \in BondRecords /\ frac \in FracRecords /\ text \in TextRecords
      /\ rep \in Reputations /\ ClockTyped
      BY DEF IInv, Typed
<1>2. /\ \A p \in People : bal[p] \in Nat /\ rep[p] \in 0 .. 100
      /\ bal[Eco] \in Nat /\ bal[Escrow] \in Int
      <2>1. bal \in [Addr -> Int] /\ rep \in [People -> 0 .. 100]  BY <1>1 DEF Solvent, Accounts, Reputations
      <2>2. \A a \in People \cup {Eco} : bal[a] >= 0 /\ a \in Addr  BY <1>1, AddrFinite DEF Solvent
      <2>3. \A a \in People \cup {Eco} : bal[a] \in Nat  BY <2>1, <2>2
      <2> QED  BY <2>1, <2>3, AddrFinite
<1>3. fan.sold \in 0 .. Supply /\ fan.sold = Sum(fan.holders)
      <2>1. fan.sold \in Nat /\ Supply \in Nat  BY <1>1, SocialFiAssumption DEF FanRecords
      <2> QED  BY <2>1 DEF IInv, FanSound
<1>4. rev.pool \in 0 .. rev.pooled /\ rev.paid \in [Users -> Nat]
      <2>1. rev.pool \in Nat /\ rev.pooled \in Nat /\ rev.paid \in [Users -> Nat]  BY <1>1 DEF RevRecords, Shares
      <2>2. Sum(rev.paid) \in Nat  BY <2>1, TotalInt, AddrFinite DEF Sum
      <2>3. rev.pool + Sum(rev.paid) = rev.pooled  BY DEF IInv, RevSound
      <2> QED  BY <2>1, <2>2, <2>3
<1>5. mkt.paid \in 0 .. Total /\ box.reserve \in Nat /\ bond.pool \in Nat
      <2>1. mkt.paid \in Nat  BY <1>1 DEF MktRecords
      <2>2. Sum(mkt.bets["yes"]) \in Nat /\ Sum(mkt.bets["no"]) \in Nat  BY <1>1, PoolsTyped
      <2>3. Total = Sum(mkt.bets["yes"]) + Sum(mkt.bets["no"])  BY DEF Total, Pool
      <2>4. Total \in Nat  BY <2>2, <2>3
      <2>5. mkt.paid \in 0 .. Total
            <3>1. mkt.paid <= Total  BY DEF IInv, MktSound
            <3> QED  BY <2>1, <2>4, <3>1
      <2> QED  BY <1>1, <2>5 DEF BoxRecords, BondRecords
<1>6. frac.hold \in 0 .. Supply /\ frac.fractions \in [Users \cup {Creator} -> 0 .. Supply]
      <2>1. /\ frac.hold \in Nat /\ frac.fractions \in [Users \cup {Creator} -> Nat] /\ Supply \in Nat
            BY <1>1, SocialFiAssumption DEF FracRecords
      <2>2. /\ frac.hold <= Supply /\ frac.fractions[Creator] <= Supply
            /\ \A u \in Users : frac.fractions[u] + frac.hold <= Supply
            BY DEF IInv, FracSound
      <2>3. ASSUME NEW u \in Users \cup {Creator} PROVE frac.fractions[u] \in 0 .. Supply
            <3>1. frac.fractions[u] \in Nat  BY <2>1
            <3> QED  BY <2>1, <2>2, <3>1
      <2> QED  BY <2>1, <2>2, <2>3
<1>7. /\ text.deposit \in Nat /\ text.buyers \subseteq Users
      /\ text.trial.votes \in [Jury -> {"", "buyer", "seller", "abstain"}]
      <2>1. text.deposit \in Nat /\ text.buyers \in SUBSET Users /\ text.trial \in TrialRecords
            BY <1>1 DEF TextRecords
      <2> QED  BY <2>1 DEF TrialRecords, Sides
<1>8. /\ ai.st \in {"none", "active", "paused"} /\ ai.spent \in Nat
      /\ now \in 1 .. MaxDay /\ ops \in 0 .. MaxOps /\ game \in Games
      BY <1>1 DEF ClockTyped, AiRecords
<1> QED  BY <1>2, <1>3, <1>4, <1>5, <1>6, <1>7, <1>8 DEF TypeOK

(* BooksBalance: no stock of a game and no account is overdrawn, and the accounts and what
   the games hold are together the wealth there was, whatever is bought, claimed, redeemed,
   settled or judged. *)
THEOREM BooksBalanceHolds == Spec => []BooksBalance
<1>1. IInv => BooksBalance  BY TypeFollows DEF IInv, BooksBalance
<1> QED  BY <1>1, Invariance, PTL

(* NothingCountsTwice: while nobody came in after a royalty the pool of a revenue share
   covers all open claims together, and the votes of a proposal are at most the tokens of
   those who have voted. *)
THEOREM NothingCountsTwiceHolds == Spec => []NothingCountsTwice
<1>1. IInv => NothingCountsTwice
      <2> SUFFICES ASSUME IInv PROVE NothingCountsTwice  OBVIOUS
      <2>1. RevOK(rev)  BY Parts
      <2>2. PollWithinSupply  BY DEF IInv, FanSound
      <2> QED  BY <2>1, <2>2, ClaimsCovered DEF NothingCountsTwice
<1> QED  BY <1>1, Invariance, PTL

(* RedeemingHurtsNobody: the pool left by a redemption covers of what is still owed at least
   the share that it covered before. *)
THEOREM RedeemingHurtsNobodyHolds == Spec => RedeemingHurtsNobody
<1>1. IInv /\ [Next]_vars
      => [bond'.sold # bond.sold /\ bond'.pool < bond.pool
          => bond'.pool * BondOwed >= bond.pool * BondOwed']_vars
      BY NextGood DEF Good, RedeemStep
<1> QED  BY <1>1, Invariance, PTL DEF Spec, RedeemingHurtsNobody

(* EscrowHoldsDeposits: the common escrow of the texts moves by what becomes or ceases to be
   a deposit, but for the verdict on a text whose deposit is gone. *)
THEOREM EscrowHoldsDepositsHold == Spec => EscrowHoldsDeposits
<1>1. IInv /\ [Next]_vars
      => [\/ text.released = "yes" /\ InDispute(text) /\ ~InDispute(text') /\ text'.trial # NoTrial
          \/ bal'[Escrow] - bal[Escrow] = Held' - Held]_vars
      BY NextGood DEF Good, EscrowStep
<1> QED  BY <1>1, Invariance, PTL DEF Spec, EscrowHoldsDeposits
=============================================================================
