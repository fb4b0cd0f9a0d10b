-------------------------- MODULE GovernanceProofs --------------------------
(*****************************************************************************)
(* ProposalsAreSound and NovaAddsUp of module Governance, for any people,    *)
(* amounts and lengths of the phases.  Every step moves each proposal by one *)
(* of a few moves (ProposalMove); ProposalOK keeps its age together with     *)
(* what is left of its phase, so an executed proposal has served all of      *)
(* them, and is inductive.  That no token votes twice comes from the shape   *)
(* of delegation alone: each address delegates once, so what stands behind   *)
(* two voters who have not delegated is disjoint (BehindOK).  For the money, *)
(* balances and what victims are owed are one map (Wealth) whose total every *)
(* action is shown to keep, together with the two funds.                     *)
(*****************************************************************************)
EXTENDS Governance, Sums

-----------------------------------------------------------------------------
(* The voters behind an address.  reach of Behind(p), as a function: who is
   at most n delegations away from p. *)
Reaches(f, p, N) ==
    f = [n \in 0..N |-> IF n = 0 THEN {p} ELSE f[n-1] \cup {q \in People : delegate[q] \in f[n-1]}]

(* The recursion of Behind has a solution: one more step can always be added. *)
LEMMA ReachExists ==
    ASSUME NEW p
    PROVE  \A N \in Nat : \E f : Reaches(f, p, N)
<1> DEFINE C == {N \in Nat : ~\E f : Reaches(f, p, N)}
<1> SUFFICES ASSUME C # {} PROVE FALSE  OBVIOUS
<1>1. C \subseteq Nat  OBVIOUS
<1>2. PICK N \in C : \A j \in C : N <= j
      <2> HIDE DEF C
      <2> QED  BY <1>1, SmallestNat
<1>3. N \in Nat /\ ~\E f : Reaches(f, p, N)  OBVIOUS
<1>4. CASE N = 0
      <2> DEFINE f == [n \in 0..0 |-> {p}]
      <2>1. Reaches(f, p, 0)  BY DEF Reaches
      <2> QED  BY <1>3, <1>4, <2>1
<1>5. CASE N # 0
      <2>1. N - 1 \in Nat /\ N - 1 \notin C  BY <1>2, <1>3, <1>5
      <2>2. PICK f : Reaches(f, p, N - 1)  BY <2>1
      <2> DEFINE g == [n \in 0..N |-> IF n = N THEN f[N-1] \cup {q \in People : delegate[q] \in f[N-1]}
                                              ELSE f[n]]
      <2>3. \A n \in 0..N-1 : g[n] = f[n]  BY <1>3
      <2>4. \A n \in 0..N-1 :
               f[n] = IF n = 0 THEN {p} ELSE f[n-1] \cup {q \in People : delegate[q] \in f[n-1]}
            BY <2>2 DEF Reaches
      <2>5. ASSUME NEW n \in 0..N
            PROVE  g[n] = IF n = 0 THEN {p} ELSE g[n-1] \cup {q \in People : delegate[q] \in g[n-1]}
            <3>1. CASE n = N
                  <4>1. g[n] = f[N-1] \cup {q \in People : delegate[q] \in f[N-1]}  BY <3>1, <1>3
                  <4>2. g[N-1] = f[N-1] /\ n # 0  BY <2>3, <1>3, <1>5, <3>1
                  <4> QED  BY <4>1, <4>2, <3>1
            <3>2. CASE n # N
                  <4>1. n \in 0..N-1 /\ (n # 0 => n - 1 \in 0..N-1)  BY <3>2, <1>3
                  <4>2. g[n] = f[n] /\ (n # 0 => g[n-1] = f[n-1])  BY <2>3, <4>1
                  <4> HIDE DEF g
                  <4> QED  BY <2>4, <4>1, <4>2
            <3> QED  BY <3>1, <3>2
      <2>6. DOMAIN g = 0..N /\ g = [n \in 0..N |-> g[n]]  OBVIOUS
      <2> HIDE DEF g
      <2>7. Reaches(g, p, N)  BY <2>5, <2>6 DEF Reaches
      <2> QED  BY <1>3, <2>7
<1> QED  BY <1>4, <1>5

(* Its equations. *)
LEMMA ReachAt ==
    ASSUME NEW p, NEW N \in Nat, NEW f, Reaches(f, p, N)
    PROVE  /\ f[0] = {p}
           /\ \A n \in 1..N : f[n] = f[n-1] \cup {q \in People : delegate[q] \in f[n-1]}
<1>1. \A n \in 0..N : f[n] = IF n = 0 THEN {p} ELSE f[n-1] \cup {q \in People : delegate[q] \in f[n-1]}
      BY DEF Reaches
<1>2. 0 \in 0..N /\ \A n \in 1..N : n \in 0..N /\ n # 0  OBVIOUS
<1> QED  BY <1>1, <1>2

(* The set only grows, within the people there are. *)
LEMMA ReachIn ==
    ASSUME NEW p \in People, NEW N \in Nat, NEW f, Reaches(f, p, N)
    PROVE  \A n \in 0..N : p \in f[n] /\ f[n] \subseteq People
<1> DEFINE C == {n \in 0..N : ~(p \in f[n] /\ f[n] \subseteq People)}
<1> SUFFICES ASSUME C # {} PROVE FALSE  OBVIOUS
<1>1. C \subseteq Nat  OBVIOUS
<1>2. PICK n \in C : \A j \in C : n <= j
      <2> HIDE DEF C
      <2> QED  BY <1>1, SmallestNat
<1>3. n # 0
      <2>1. f[0] = {p}  BY ReachAt
      <2> QED  BY <2>1
<1>4. n \in 1..N /\ n - 1 \in 0..N /\ n - 1 \notin C  BY <1>2, <1>3
<1>5. p \in f[n-1] /\ f[n-1] \subseteq People  BY <1>4
<1>6. f[n] = f[n-1] \cup {q \in People : delegate[q] \in f[n-1]}  BY <1>4, ReachAt
<1> QED  BY <1>5, <1>6

(* Somebody leads, by his delegations, to one address only that has not
   delegated its own vote. *)
LEMMA ReachIsOne ==
    ASSUME NEW p \in People, NEW q \in People, p # q, delegate[p] = None, delegate[q] = None,
           NEW N \in Nat, NEW f, Reaches(f, p, N), NEW g, Reaches(g, q, N)
    PROVE  \A n, m \in 0..N : f[n] \cap g[m] = {}
<1> DEFINE Meet(k) == \E n, m \in 0..N : n + m = k /\ f[n] \cap g[m] # {}
           C == {k \in Nat : Meet(k)}
<1> SUFFICES ASSUME NEW n0 \in 0..N, NEW m0 \in 0..N, f[n0] \cap g[m0] # {} PROVE FALSE  OBVIOUS
<1>1. C \subseteq Nat /\ C # {}
      <2>1. n0 + m0 \in Nat  OBVIOUS
      <2>2. n0 + m0 \in C  BY <2>1
      <2> QED  BY <2>2
<1>2. PICK k \in C : \A j \in C : k <= j
      <2> HIDE DEF C
      <2> QED  BY <1>1, SmallestNat
<1>3. PICK n \in 0..N, m \in 0..N : n + m = k /\ f[n] \cap g[m] # {}  OBVIOUS
<1>4. PICK x \in f[n] : x \in g[m]  BY <1>3
<1>5. ASSUME NEW i \in 0..N, NEW j \in 0..N, i + j < k PROVE f[i] \cap g[j] = {}
      <2>1. i + j \in Nat /\ k \in Nat  OBVIOUS
      <2>2. i + j \notin C
            <3> HIDE DEF C
            <3> QED  BY <1>2, <1>5, <2>1
      <2> QED  BY <2>1, <2>2
<1>6. /\ \A i \in 0..N : f[i] \subseteq People /\ g[i] \subseteq People
      /\ None \notin People
      BY ReachIn, GovernanceAssumption
<1>7. ASSUME n # 0 PROVE delegate[x] \in f[n-1]
      <2>1. n \in 1..N /\ n - 1 \in 0..N /\ (n - 1) + m < k  BY <1>3, <1>7
      <2>2. f[n] = f[n-1] \cup {y \in People : delegate[y] \in f[n-1]}  BY <2>1, ReachAt
      <2>3. x \notin f[n-1]  BY <1>4, <1>5, <2>1
      <2> QED  BY <1>4, <2>2, <2>3
<1>8. ASSUME m # 0 PROVE delegate[x] \in g[m-1]
      <2>1. m \in 1..N /\ m - 1 \in 0..N /\ n + (m - 1) < k  BY <1>3, <1>8
      <2>2. g[m] = g[m-1] \cup {y \in People : delegate[y] \in g[m-1]}  BY <2>1, ReachAt
      <2>3. x \notin g[m-1]  BY <1>4, <1>5, <2>1
      <2> QED  BY <1>4, <2>2, <2>3
<1>9. /\ f[0] = {p} /\ g[0] = {q}
      /\ n # 0 => n - 1 \in 0..N
      /\ m # 0 => m - 1 \in 0..N
      /\ n # 0 /\ m # 0 => (n - 1) + (m - 1) < k
      <2>1. f[0] = {p} /\ g[0] = {q}  BY ReachAt
      <2>2. (n # 0 => n - 1 \in 0..N) /\ (m # 0 => m - 1 \in 0..N)  OBVIOUS
      <2>3. (n - 1) + (m - 1) < n + m  OBVIOUS
      <2> QED  BY <1>3, <2>1, <2>2, <2>3
<1>10. CASE n = 0 /\ m = 0  BY <1>4, <1>9, <1>10
<1>11. CASE n = 0 /\ m # 0
       <2>1. x = p  BY <1>4, <1>9, <1>11
       <2>2. None \in g[m-1]  BY <1>8, <1>11, <2>1
       <2> QED  BY <1>6, <1>9, <1>11, <2>2
<1>12. CASE n # 0 /\ m = 0
       <2>1. x = q  BY <1>4, <1>9, <1>12
       <2>2. None \in f[n-1]  BY <1>7, <1>12, <2>1
       <2> QED  BY <1>6, <1>9, <1>12, <2>2
<1>13. CASE n # 0 /\ m # 0
       <2>1. f[n-1] \cap g[m-1] # {}  BY <1>7, <1>8, <1>13
       <2> QED  BY <1>5, <1>9, <1>13, <2>1
<1> QED  BY <1>10, <1>11, <1>12, <1>13

(* There are finitely many people. *)
LEMMA PeopleCount == Cardinality(People) \in Nat
BY FS_CardinalityType, GovernanceAssumption

(* Behind is the last member of that sequence of sets. *)
LEMMA BehindReaches ==
    ASSUME NEW p
    PROVE  \E f : Reaches(f, p, Cardinality(People)) /\ Behind(p) = f[Cardinality(People)]
<1> DEFINE N == Cardinality(People)
           f == CHOOSE g : Reaches(g, p, N)
<1>1. Behind(p) = f[N]  BY DEF Behind, Reaches
<1>2. \E g : Reaches(g, p, N)  BY PeopleCount, ReachExists
<1>3. Reaches(f, p, N)  BY <1>2
<1> QED  BY <1>1, <1>3

(* Two people who have not delegated have no voter in common behind them:
   each address delegates once, so it leads to one of them. *)
LEMMA BehindOK ==
    /\ \A p \in People : p \in Behind(p) /\ Behind(p) \subseteq People
    /\ \A p, q \in People : p # q /\ delegate[p] = None /\ delegate[q] = None
                              => Behind(p) \cap Behind(q) = {}
<1> DEFINE N == Cardinality(People)
<1>1. N \in Nat /\ N \in 0..N  BY PeopleCount
<1> HIDE DEF N
<1>2. \A p : \E f : Reaches(f, p, N) /\ Behind(p) = f[N]  BY BehindReaches DEF N
<1>3. ASSUME NEW p \in People PROVE p \in Behind(p) /\ Behind(p) \subseteq People
      BY <1>1, <1>2, ReachIn
<1>4. ASSUME NEW p \in People, NEW q \in People, p # q, delegate[p] = None, delegate[q] = None
      PROVE  Behind(p) \cap Behind(q) = {}
      <2>1. PICK f : Reaches(f, p, N) /\ Behind(p) = f[N]  BY <1>2
      <2>2. PICK g : Reaches(g, q, N) /\ Behind(q) = g[N]  BY <1>2
      <2>3. \A n, m \in 0..N : f[n] \cap g[m] = {}  BY <1>1, <1>4, <2>1, <2>2, ReachIsOne
      <2> QED  BY <1>1, <2>1, <2>2, <2>3
<1> QED  BY <1>3, <1>4

-----------------------------------------------------------------------------
(* The powers of all addresses are sums over disjoint groups of voters. *)
Owns == [q \in People |-> Own(q)]
Funds == balance \in [People -> Nat]

(* What a person owns, and any sum of that, is an amount. *)
LEMMA OwnsType ==
    ASSUME Funds
    PROVE  /\ Owns \in [People -> Nat] /\ IsFiniteSet(People)
           /\ \A T \in SUBSET People : IsFiniteSet(T) /\ SumFunctionOnSet(Owns, T) \in Nat
<1>1. Owns \in [People -> Nat] /\ IsFiniteSet(People)
      BY GovernanceAssumption DEF Owns, Own, Funds
<1>2. ASSUME NEW T \in SUBSET People PROVE IsFiniteSet(T) /\ SumFunctionOnSet(Owns, T) \in Nat
      <2>1. IsFiniteSet(T)  BY <1>1, FS_Subset
      <2>2. \A x \in T : Owns[x] \in Nat  BY <1>1
      <2> QED  BY <2>1, <2>2, SumIsNat
<1> QED  BY <1>1, <1>2

(* So is a voting power. *)
LEMMA PowerIsNat ==
    ASSUME Funds, NEW p \in People
    PROVE  Power(p) \in Nat
BY OwnsType, BehindOK DEF Power, Owns

(* Two voters who have not delegated share no token: their powers add up to
   at most what everybody owns. *)
LEMMA PowersShared ==
    ASSUME Funds
    PROVE  PowerIsShared
<1> DEFINE R == {p \in People : delegate[p] = None}
           All(T) == UNION {Behind(p) : p \in T}
           pow == [p \in People |-> Power(p)]
           Good == {T \in SUBSET R : SumFunctionOnSet(pow, T) = SumFunctionOnSet(Owns, All(T))}
<1>1. /\ IsFiniteSet(People) /\ R \in SUBSET People /\ IsFiniteSet(R)
      /\ Owns \in [People -> Nat] /\ pow \in [People -> Nat]
      BY OwnsType, PowerIsNat, FS_Subset
<1>2. \A T \in SUBSET R : All(T) \in SUBSET People  BY BehindOK
<1>3. \A p \in R : pow[p] = SumFunctionOnSet(Owns, Behind(p))  BY DEF Power, Owns
<1>4. \A p \in People \ R : pow[p] = 0  BY DEF Power
<1>5. \A p \in R : \A T \in SUBSET R : p \notin T => Behind(p) \cap All(T) = {}
      BY BehindOK
<1>6. \A T \in SUBSET R : \A p \in T : All(T) = Behind(p) \cup All(T \ {p})  OBVIOUS
<1>7. All({}) = {}  OBVIOUS
<1>8. {} \in Good  BY <1>7, SumEmpty
<1> HIDE DEF All, pow
<1>9. ASSUME NEW T \in SUBSET R, T # {}, \A x \in T : T \ {x} \in Good PROVE T \in Good
      <2> PICK p \in T : TRUE  BY <1>9
      <2> DEFINE r == T \ {p}
      <2>1. r \in SUBSET R /\ p \in R /\ p \notin r /\ IsFiniteSet(T)  BY <1>1, FS_Subset
      <2>2. \A x \in T : pow[x] \in Int  BY <1>1
      <2>3. SumFunctionOnSet(pow, T) = pow[p] + SumFunctionOnSet(pow, r)  BY <2>1, <2>2, SumRemove
      <2>4. SumFunctionOnSet(pow, r) = SumFunctionOnSet(Owns, All(r))  BY <1>9
      <2>5. Behind(p) \cap All(r) = {} /\ All(T) = Behind(p) \cup All(r)  BY <1>5, <1>6, <2>1
      <2>6. /\ IsFiniteSet(Behind(p)) /\ IsFiniteSet(All(r))
            /\ \A x \in Behind(p) \cup All(r) : Owns[x] \in Int
            BY <1>1, <1>2, <2>1, OwnsType, BehindOK
      <2>7. SumFunctionOnSet(Owns, Behind(p) \cup All(r))
              = SumFunctionOnSet(Owns, Behind(p)) + SumFunctionOnSet(Owns, All(r))
            BY <2>5, <2>6, SumUnion
      <2> QED  BY <1>3, <2>1, <2>3, <2>4, <2>5, <2>7
<1> HIDE DEF Good, R
<1>10. R \in Good  BY <1>1, <1>8, <1>9, SetInduction
<1>11. SumFunctionOnSet(pow, R) = SumFunctionOnSet(Owns, All(R))  BY <1>10 DEF Good
<1>12. SumFunctionOnSet(Owns, All(R)) <= SumFunctionOnSet(Owns, People)
       <2>1. All(R) \in SUBSET People  BY <1>2
       <2>2. \A x \in People : Owns[x] \in Nat  BY <1>1
       <2> QED  BY <1>1, <2>1, <2>2, TotalOnSubset
<1>13. SumFunctionOnSet(pow, R) = SumFunctionOnSet(pow, People)
       <2>1. \A x \in R : pow[x] \in Int /\ pow[x] = pow[x]  BY <1>1
       <2> QED  BY <1>1, <1>4, <2>1, SumOfPart
<1>14. /\ SumFunction(pow) = SumFunctionOnSet(pow, People)
       /\ SumFunction(Owns) = SumFunctionOnSet(Owns, People)
       BY <1>1, TotalIs
<1>15. SumFunction(pow) <= SumFunction(Owns)  BY <1>11, <1>12, <1>13, <1>14
<1> QED  BY <1>15 DEF PowerIsShared, Owns, pow

-----------------------------------------------------------------------------
(* What a step does to one proposal.  Ticking and waiting apart, the steps
   differ in what they do to its status and to what decides on it. *)
Proposals ==
    [type : Kinds, proposer : People \cup {None}, status : Statuses,
     left : Nat, ok : {"yes", "no"}, endorsers : SUBSET People, for : Nat,
     against : Nat, voters : SUBSET People, multisig : SUBSET People,
     who : People \cup {None}, amount : Nat, target : Targets \cup {None}, age : Nat]
Payouts == [status : {"none", "pending", "confirmed"}, victim : People \cup {None}, amount : Nat]

Aged(r) == [r EXCEPT !.left = Less(@),
                     !.age = IF r.status # "none" THEN Smaller(@ + 1, Lifetime) ELSE @]

\* s is r with other support or votes
Argued(r, s) ==
    /\ s.type = r.type /\ s.status = r.status /\ s.left = r.left /\ s.age = r.age
    /\ s.who = r.who /\ s.amount = r.amount /\ s.target = r.target
    /\ s.multisig = r.multisig \/ r.status = "passed"

Made(s) ==
    /\ s.status = "discussion" /\ s.left = Discussion /\ s.age = 0
    /\ s.type \in {"fund", "payout"} => s.who \in People

ProposalMove(r, s) ==
    \/ s = r
    \/ s = Aged(r)
    \/ Argued(Moved(r), s)
    \/ r.status = "none" /\ Made(s)
    \/ r.status = "discussion" /\ s = [Moved(r) EXCEPT !.status = "cancelled"]
    \/ Due(r) /\ s = [Moved(r) EXCEPT !.status = "executed"]

\* how long a proposal of r's type and status has been under way when left has run out
Course(r) ==
    CASE r.status = "discussion"            -> Discussion
      [] r.status = "voting"                -> Smaller(Discussion + VoteLength(r), Lifetime)
      [] r.status \in {"passed", "executed"} ->
            Smaller(Discussion + VoteLength(r) + LockLength(r), Lifetime)
      [] OTHER                              -> 0

ProposalOK(r) ==
    /\ r.age + (IF r.status = "executed" THEN 0 ELSE r.left) >= Course(r)
    /\ r.status = "executed" /\ r.type = "fund" => Cardinality(r.multisig) >= Confirmations
    /\ r.status # "none" /\ r.type \in {"fund", "payout"} => r.who \in People

(* The phases have lengths, and the discussion ends within the lifetime of a
   proposal. *)
LEMMA Lengths ==
    /\ Discussion \in Nat /\ Voting \in Nat /\ FreezeVoting \in Nat /\ TimeLock \in Nat
    /\ Freeze \in Nat /\ Lifetime \in Nat /\ Discussion <= Lifetime
    /\ \A r \in Proposals : VoteLength(r) \in Nat /\ LockLength(r) \in Nat
BY GovernanceAssumption DEF Lifetime, VoteLength, LockLength

(* A proposal moved on is a proposal. *)
LEMMA MovedType ==
    ASSUME NEW r \in Proposals
    PROVE  Moved(r) \in Proposals
<1>1. ASSUME NEW st \in Statuses, NEW l \in Nat
      PROVE  [r EXCEPT !.status = st, !.left = l] \in Proposals
      BY DEF Proposals
<1>2. [r EXCEPT !.status = "rejected"] \in Proposals  BY DEF Proposals, Statuses, Final
<1>3. VoteLength(r) \in Nat /\ LockLength(r) \in Nat  BY Lengths
<1>4. {"voting", "passed"} \subseteq Statuses  BY DEF Statuses
<1> QED  BY <1>1, <1>2, <1>3, <1>4 DEF Moved

(* What tick does to a proposal: one phase at most, and only when the phase
   is over. *)
LEMMA MovedFacts ==
    ASSUME NEW r \in Proposals
    PROVE  LET s == Moved(r) IN
           /\ s.type = r.type /\ s.age = r.age /\ s.who = r.who /\ s.multisig = r.multisig
           /\ s.amount = r.amount /\ s.target = r.target
           /\ \/ s = r
              \/ r.status = "discussion" /\ r.left = 0 /\ s.status = "voting" /\ s.left = VoteLength(r)
              \/ r.status = "voting" /\ r.left = 0 /\ s.status = "passed" /\ s.left = LockLength(r)
              \/ r.status \in {"discussion", "voting"} /\ s.status = "rejected" /\ s.left = r.left
<1>1. CASE r.status = "discussion" /\ Ended(r)
      <2>1. Moved(r) = IF Supported(r) THEN [r EXCEPT !.status = "voting", !.left = VoteLength(r)]
                                       ELSE [r EXCEPT !.status = "rejected"]
            BY <1>1 DEF Moved
      <2> QED  BY <1>1, <2>1 DEF Proposals, Ended
<1>2. CASE r.status = "voting" /\ Ended(r)
      <2>1. Moved(r) = IF Wins(r) THEN [r EXCEPT !.status = "passed", !.left = LockLength(r)]
                                  ELSE [r EXCEPT !.status = "rejected"]
            BY <1>2 DEF Moved
      <2> QED  BY <1>2, <2>1 DEF Proposals, Ended
<1>3. CASE ~(r.status = "discussion" /\ Ended(r)) /\ ~(r.status = "voting" /\ Ended(r))
      BY <1>3 DEF Moved
<1> QED  BY <1>1, <1>2, <1>3

(* It keeps the record of the vote and of its phases consistent. *)
LEMMA MovedOK ==
    ASSUME NEW r \in Proposals, ProposalOK(r)
    PROVE  ProposalOK(Moved(r))
<1> DEFINE s == Moved(r)
<1>1. /\ s.type = r.type /\ s.age = r.age /\ s.who = r.who /\ s.multisig = r.multisig
      /\ \/ s = r
         \/ r.status = "discussion" /\ r.left = 0 /\ s.status = "voting" /\ s.left = VoteLength(r)
         \/ r.status = "voting" /\ r.left = 0 /\ s.status = "passed" /\ s.left = LockLength(r)
         \/ r.status \in {"discussion", "voting"} /\ s.status = "rejected" /\ s.left = r.left
      BY MovedFacts
<1>2. s \in Proposals  BY MovedType
<1> HIDE DEF s
<1>3. r.left \in Nat /\ r.age \in Nat /\ s.left \in Nat /\ s.age \in Nat  BY <1>2 DEF Proposals
<1>4. VoteLength(s) = VoteLength(r) /\ LockLength(s) = LockLength(r)  BY <1>1 DEF VoteLength, LockLength
<1>5. VoteLength(r) \in Nat /\ LockLength(r) \in Nat /\ Discussion \in Nat /\ Lifetime \in Nat  BY Lengths
<1>6. CASE s = r  BY <1>6 DEF s
<1>7. CASE r.status = "discussion" /\ r.left = 0 /\ s.status = "voting" /\ s.left = VoteLength(r)
      <2>1. r.age >= Discussion  BY <1>3, <1>7 DEF ProposalOK, Course
      <2>2. s.age + s.left >= Smaller(Discussion + VoteLength(r), Lifetime)
            BY <1>1, <1>3, <1>5, <1>7, <2>1 DEF Smaller
      <2> QED  BY <1>1, <1>4, <1>7, <2>2 DEF ProposalOK, Course, s
<1>8. CASE r.status = "voting" /\ r.left = 0 /\ s.status = "passed" /\ s.left = LockLength(r)
      <2>1. r.age >= Smaller(Discussion + VoteLength(r), Lifetime)  BY <1>3, <1>8 DEF ProposalOK, Course
      <2>2. s.age + s.left >= Smaller(Discussion + VoteLength(r) + LockLength(r), Lifetime)
            BY <1>1, <1>3, <1>5, <1>8, <2>1 DEF Smaller
      <2> QED  BY <1>1, <1>4, <1>8, <2>2 DEF ProposalOK, Course, s
<1>9. CASE r.status \in {"discussion", "voting"} /\ s.status = "rejected" /\ s.left = r.left
      <2>1. Course(s) = 0  BY <1>9 DEF Course
      <2> QED  BY <1>1, <1>3, <1>9, <2>1 DEF ProposalOK, s
<1> QED  BY <1>1, <1>6, <1>7, <1>8, <1>9

(* So does the passage of time. *)
LEMMA AgedOK ==
    ASSUME NEW r \in Proposals
    PROVE  Aged(r) \in Proposals /\ (ProposalOK(r) => ProposalOK(Aged(r)))
<1> DEFINE s == Aged(r)
           l == Less(r.left)
           a == IF r.status # "none" THEN Smaller(r.age + 1, Lifetime) ELSE r.age
<1>1. r.left \in Nat /\ r.age \in Nat /\ Lifetime \in Nat /\ Discussion \in Nat /\ Discussion <= Lifetime
      BY Lengths DEF Proposals
<1>2. l \in Nat /\ a \in Nat  BY <1>1 DEF Less, Smaller
<1>3. s = [r EXCEPT !.left = l, !.age = a]  BY DEF Aged
<1>4. /\ r.status # "none" => a + l >= Lifetime \/ a + l >= r.age + r.left
      /\ r.status # "none" => a >= Lifetime \/ a >= r.age
      BY <1>1 DEF Less, Smaller
<1> HIDE DEF s, l, a
<1>5. s \in Proposals  BY <1>2, <1>3 DEF Proposals
<1>6. s.type = r.type /\ s.status = r.status /\ s.who = r.who /\ s.multisig = r.multisig
      /\ s.left = l /\ s.age = a
      BY <1>3 DEF Proposals
<1>7. Course(s) = Course(r) /\ VoteLength(r) \in Nat /\ LockLength(r) \in Nat
      BY <1>6, Lengths DEF Course, VoteLength, LockLength
<1>8. Course(r) \in Nat /\ Course(r) <= Lifetime /\ (r.status = "none" => Course(r) = 0)
      BY <1>1, <1>7 DEF Course, Smaller
<1>9. ASSUME ProposalOK(r) PROVE s.age + (IF s.status = "executed" THEN 0 ELSE s.left) >= Course(s)
      <2>1. r.age + (IF r.status = "executed" THEN 0 ELSE r.left) >= Course(r)  BY <1>9 DEF ProposalOK
      <2>2. CASE r.status = "none"  BY <1>2, <1>6, <1>7, <1>8, <2>2
      <2>3. CASE r.status = "executed"
            BY <1>1, <1>2, <1>4, <1>6, <1>7, <1>8, <2>1, <2>3
      <2>4. CASE r.status \notin {"none", "executed"}
            BY <1>1, <1>2, <1>4, <1>6, <1>7, <1>8, <2>1, <2>4
      <2> QED  BY <2>2, <2>3, <2>4
<1> QED  BY <1>5, <1>6, <1>9 DEF ProposalOK, s

(* So does every move of a proposal; an executed one stays executed. *)
LEMMA ProposalMoveOK ==
    ASSUME NEW r \in Proposals, NEW s \in Proposals, ProposalMove(r, s), ProposalOK(r)
    PROVE  /\ ProposalOK(s)
           /\ r.status = "executed" => s.status = "executed"
<1> DEFINE m == Moved(r)
<1>1. /\ m \in Proposals /\ ProposalOK(m)
      /\ r.status \notin {"discussion", "voting"} => m = r
      /\ m.type = r.type
      BY MovedType, MovedOK, MovedFacts
<1> HIDE DEF m
<1>2. CASE s = r  BY <1>2
<1>3. CASE s = Aged(r)
      <2>1. Aged(r).status = r.status  BY DEF Aged, Proposals
      <2> QED  BY <1>3, <2>1, AgedOK
<1>4. CASE Argued(m, s)
      <2>1. Course(s) = Course(m)  BY <1>4 DEF Argued, Course, VoteLength, LockLength
      <2> QED  BY <1>1, <1>4, <2>1 DEF Argued, ProposalOK
<1>5. CASE r.status = "none" /\ Made(s)
      <2>1. Course(s) = Discussion  BY <1>5 DEF Made, Course
      <2> QED  BY <1>5, <2>1, Lengths DEF Made, ProposalOK
<1>6. CASE r.status = "discussion" /\ s = [m EXCEPT !.status = "cancelled"]
      <2>1. /\ s.status = "cancelled" /\ s.left \in Nat /\ s.age \in Nat
            /\ s.type = m.type /\ s.who = m.who
            BY <1>1, <1>6 DEF Proposals
      <2>2. Course(s) = 0  BY <2>1 DEF Course
      <2>3. r.type \in {"fund", "payout"} => m.who \in People
            BY <1>6, MovedFacts DEF ProposalOK, m
      <2> QED  BY <1>1, <1>6, <2>1, <2>2, <2>3 DEF ProposalOK
<1>7. CASE Due(r) /\ s = [m EXCEPT !.status = "executed"]
      <2>1. m = r /\ r.status = "passed" /\ r.left = 0  BY <1>1, <1>7 DEF Due
      <2>2. /\ s.status = "executed" /\ s.age = r.age /\ s.type = r.type /\ s.who = r.who
            /\ s.multisig = r.multisig
            BY <1>7, <2>1 DEF Proposals
      <2>3. Course(s) = Course(r)  BY <2>1, <2>2 DEF Course, VoteLength, LockLength
      <2>4. s.age + 0 >= Course(s)  BY <2>1, <2>2, <2>3 DEF ProposalOK
      <2> QED  BY <1>7, <2>1, <2>2, <2>4 DEF ProposalOK, Due
<1> QED  BY <1>2, <1>3, <1>4, <1>5, <1>6, <1>7 DEF ProposalMove, m

-----------------------------------------------------------------------------
ProposalsMove ==
    /\ prop' \in [Ids -> Proposals]
    /\ \A i \in Ids : ProposalMove(prop[i], prop'[i])

(* The proposals after a tick. *)
LEMMA TickedType ==
    ASSUME TypeOK
    PROVE  /\ prop \in [Ids -> Proposals] /\ Ticked \in [Ids -> Proposals]
           /\ \A i \in Ids : Ticked[i] = Moved(prop[i])
BY MovedType DEF TypeOK, Proposals, Ticked

(* One proposal is set to s, the others only tick. *)
LEMMA OneMoves ==
    ASSUME TypeOK, NEW i \in Ids, NEW s \in Proposals, prop' = [Ticked EXCEPT ![i] = s],
           ProposalMove(prop[i], s)
    PROVE  ProposalsMove
<1>1. /\ prop \in [Ids -> Proposals] /\ Ticked \in [Ids -> Proposals]
      /\ \A j \in Ids : Ticked[j] = Moved(prop[j])
      BY TickedType
<1>2. \A j \in Ids : Argued(Moved(prop[j]), Moved(prop[j]))  BY DEF Argued
<1>3. prop' \in [Ids -> Proposals] /\ \A j \in Ids : prop'[j] = IF j = i THEN s ELSE Ticked[j]
      BY <1>1
<1> QED  BY <1>1, <1>2, <1>3 DEF ProposalsMove, ProposalMove

(* A tick is a move of every proposal. *)
LEMMA AllTick ==
    ASSUME TypeOK, prop' = Ticked
    PROVE  ProposalsMove
<1>1. \A j \in Ids : Argued(Moved(prop[j]), Moved(prop[j]))  BY DEF Argued
<1> QED  BY <1>1, TickedType DEF ProposalsMove, ProposalMove

(* Every step moves each proposal by one of the moves. *)
LEMMA ProposalsStep ==
    ASSUME TypeOK, [Next]_vars
    PROVE  ProposalsMove
<1> DEFINE m(i) == Moved(prop[i])
<1>1. /\ \A i \in Ids : prop[i] \in Proposals /\ m(i) \in Proposals /\ Ticked[i] = m(i)
      /\ Ticked \in [Ids -> Proposals] /\ prop \in [Ids -> Proposals]
      BY TickedType, MovedType
<1>2. ASSUME NEW p \in People, NEW i \in Ids, NEW type \in Types, NEW who \in People \cup {None},
             NEW amt \in Amounts \cup {0}, NEW t \in Targets \cup {None}, Propose(p, i, type, who, amt, t)
      PROVE  ProposalsMove
      <2> DEFINE ok == IF Power(p) >= MinPower THEN "yes" ELSE "no"
                 s == [NoProposal EXCEPT !.type = type, !.proposer = p, !.status = "discussion",
                          !.left = Discussion, !.ok = ok, !.who = who, !.amount = amt, !.target = t]
      <2>1. ok \in {"yes", "no"} /\ type \in Kinds /\ amt \in Nat /\ Discussion \in Nat
            BY GovernanceAssumption
      <2>2. prop' = [Ticked EXCEPT ![i] = s] /\ prop[i].status = "none" /\ Subject(type, who, amt, t)
            BY <1>2 DEF Propose
      <2> HIDE DEF ok
      <2>3. s \in Proposals  BY <2>1 DEF NoProposal, Proposals, Statuses
      <2>4. Made(s)  BY <2>2 DEF Made, NoProposal, Subject
      <2> HIDE DEF s
      <2> QED  BY <2>2, <2>3, <2>4, OneMoves DEF ProposalMove
<1>3. ASSUME NEW p \in People, NEW i \in Ids, Endorse(p, i) PROVE ProposalsMove
      <2> DEFINE s == [m(i) EXCEPT !.endorsers = @ \cup {p}]
      <2>1. prop' = [Ticked EXCEPT ![i] = s]  BY <1>1, <1>3 DEF Endorse
      <2>2. s \in Proposals  BY SMTT(30), <1>1 DEF Proposals
      <2>3. Argued(m(i), s)  BY <1>1 DEF Argued, Proposals
      <2> HIDE DEF s
      <2> QED  BY <2>1, <2>2, <2>3, OneMoves DEF ProposalMove
<1>4. ASSUME NEW i \in Ids, Cancel(i) PROVE ProposalsMove
      <2> DEFINE s == [m(i) EXCEPT !.status = "cancelled"]
      <2>1. prop' = [Ticked EXCEPT ![i] = s] /\ prop[i].status = "discussion"
            BY <1>1, <1>4 DEF Cancel, MayCancel
      <2>2. s \in Proposals  BY SMTT(30), <1>1 DEF Proposals, Statuses, Final
      <2> HIDE DEF s
      <2>3. ProposalMove(prop[i], s)  BY <2>1 DEF ProposalMove, s
      <2> QED  BY <2>1, <2>2, <2>3, OneMoves
<1>5. ASSUME NEW p \in People, NEW i \in Ids, NEW support \in BOOLEAN, Vote(p, i, support)
      PROVE  ProposalsMove
      <2> DEFINE f == IF support THEN m(i).for + Power(p) ELSE m(i).for
                 g == IF support THEN m(i).against ELSE m(i).against + Power(p)
                 s == [m(i) EXCEPT !.voters = @ \cup {p}, !.for = f, !.against = g]
      <2>1. prop' = Ticked \/ prop' = [Ticked EXCEPT ![i] = s]  BY <1>1, <1>5 DEF Vote
      <2>2. Power(p) \in Nat  BY PowerIsNat DEF TypeOK, Funds
      <2>3. f \in Nat /\ g \in Nat  BY <1>1, <2>2 DEF Proposals
      <2> HIDE DEF f, g
      <2>4. \A r \in Proposals, j, k \in Nat :
               [r EXCEPT !.voters = @ \cup {p}, !.for = j, !.against = k] \in Proposals
            BY DEF Proposals
      <2>5. s \in Proposals  BY <1>1, <2>3, <2>4
      <2>6. Argued(m(i), s)  BY <1>1 DEF Argued, Proposals
      <2> HIDE DEF s
      <2> QED  BY <2>1, <2>5, <2>6, OneMoves, AllTick DEF ProposalMove
<1>6. ASSUME NEW n \in People, NEW i \in Ids, Confirm(n, i) PROVE ProposalsMove
      <2> DEFINE s == [m(i) EXCEPT !.multisig = @ \cup {n}]
      <2>1. prop' = [Ticked EXCEPT ![i] = s] /\ prop[i].status = "passed"  BY <1>1, <1>6 DEF Confirm
      <2>2. s \in Proposals  BY SMTT(30), <1>1 DEF Proposals
      <2>3. m(i).status = "passed"  BY <1>1, <2>1, MovedFacts
      <2>4. Argued(m(i), s)  BY <1>1, <2>3 DEF Argued, Proposals
      <2> HIDE DEF s
      <2> QED  BY <2>1, <2>2, <2>4, OneMoves DEF ProposalMove
<1>7. ASSUME NEW i \in Ids, Execute(i) PROVE ProposalsMove
      <2> DEFINE s == [m(i) EXCEPT !.status = "executed"]
      <2>1. prop' = [Ticked EXCEPT ![i] = s] /\ Due(prop[i])  BY <1>1, <1>7 DEF Execute
      <2>2. s \in Proposals  BY <1>1 DEF Proposals, Statuses, Final
      <2> HIDE DEF s
      <2>3. ProposalMove(prop[i], s)  BY <2>1 DEF ProposalMove, s
      <2> QED  BY <2>1, <2>2, <2>3, OneMoves
<1>8. ASSUME Hour PROVE ProposalsMove
      <2>1. prop' = [i \in Ids |-> Aged(prop[i])]  BY <1>8 DEF Hour, Aged
      <2>2. \A i \in Ids : Aged(prop[i]) \in Proposals  BY <1>1, AgedOK
      <2> QED  BY <2>1, <2>2 DEF ProposalsMove, ProposalMove
<1>9. ASSUME UNCHANGED prop PROVE ProposalsMove
      BY <1>1, <1>9 DEF ProposalsMove, ProposalMove
<1>10. ASSUME NEW i \in Ids, AcceptPayout(i) PROVE ProposalsMove
      BY <1>10, AllTick DEF AcceptPayout
<1>11. ASSUME NEW p \in People, NEW q \in People, Delegate(p, q) PROVE ProposalsMove
      BY <1>11, AllTick DEF Delegate
<1>12. ASSUME Maintain PROVE ProposalsMove  BY <1>12, AllTick DEF Maintain
<1>13. ASSUME Restart \/ TransferStep \/ UNCHANGED vars PROVE UNCHANGED prop
      BY <1>13 DEF Restart, TransferStep, Transfer, vars
<1> QED  BY <1>2, <1>3, <1>4, <1>5, <1>6, <1>7, <1>8, <1>9, <1>10, <1>11, <1>12, <1>13
         DEF Next, ProposalStep, VoteStep, ExecuteStep

-----------------------------------------------------------------------------
(* The money: what is owed to victims counts as long as it is pending. *)
Owed == [i \in Ids |-> IF payout[i].status = "pending" THEN payout[i].amount ELSE 0]

PayoutsOK == \A i \in Ids :
    payout[i].status # "none" => prop[i].status = "executed" /\ payout[i].victim \in People

MoneyType ==
    /\ balance \in [People -> Nat] /\ fund \in Nat /\ payoutFund \in Nat
    /\ payout \in [Ids -> Payouts]

GovInv ==
    /\ TypeOK
    /\ \A i \in Ids : ProposalOK(prop[i])
    /\ PayoutsOK
    /\ NovaAddsUp

(* The type invariant in the parts the proofs need. *)
LEMMA TypeParts ==
    TypeOK <=> /\ prop \in [Ids -> Proposals] /\ MoneyType
               /\ delegate \in [People -> People \cup {None}]
               /\ frozen \in [Targets -> Nat] /\ economy \in 0..MaxProposals
BY DEF TypeOK, MoneyType, Proposals, Payouts

(* Delegations, freezes and economy parameters keep their types. *)
LEMMA OtherTypes ==
    ASSUME TypeOK, [Next]_vars
    PROVE  /\ delegate' \in [People -> People \cup {None}]
           /\ frozen' \in [Targets -> Nat] /\ economy' \in 0..MaxProposals
<1>1. /\ delegate \in [People -> People \cup {None}] /\ frozen \in [Targets -> Nat]
      /\ economy \in 0..MaxProposals
      BY DEF TypeOK
<1>2. ASSUME NEW i \in Ids, Execute(i)
      PROVE  UNCHANGED delegate /\ frozen' \in [Targets -> Nat] /\ economy' \in 0..MaxProposals
      <2>1. i \in 0..MaxProposals  BY GovernanceAssumption DEF Ids
      <2>2. economy' = i \/ economy' = economy  BY <1>2 DEF Execute
      <2>3. frozen' = frozen \/ frozen' = [frozen EXCEPT ![prop[i].target] = Freeze]  BY <1>2 DEF Execute
      <2>4. UNCHANGED delegate  BY <1>2 DEF Execute
      <2> QED  BY <1>1, <2>1, <2>2, <2>3, <2>4, Lengths
<1>3. ASSUME Restart PROVE UNCHANGED <<delegate, frozen>> /\ economy' \in 0..MaxProposals
      BY <1>3, GovernanceAssumption DEF Restart
<1>4. ASSUME Hour PROVE UNCHANGED <<delegate, economy>> /\ frozen' \in [Targets -> Nat]
      <2>1. \A t \in Targets : Less(frozen[t]) \in Nat  BY <1>1 DEF Less
      <2> QED  BY <1>4, <2>1 DEF Hour
<1>5. ASSUME NEW p \in People, NEW q \in People, Delegate(p, q)
      PROVE  UNCHANGED <<frozen, economy>> /\ delegate' \in [People -> People \cup {None}]
      BY <1>1, <1>5 DEF Delegate
<1>6. ASSUME ProposalStep PROVE UNCHANGED <<delegate, frozen, economy>>
      BY ZenonT(30), <1>6 DEF ProposalStep, Propose, Endorse, Cancel
<1>7. ASSUME NEW p \in People, NEW i \in Ids, NEW support \in BOOLEAN, Vote(p, i, support)
      PROVE  UNCHANGED <<delegate, frozen, economy>>
      BY <1>7 DEF Vote
<1>8. ASSUME NEW i \in Ids, AcceptPayout(i) \/ \E n \in People : Confirm(n, i)
      PROVE  UNCHANGED <<delegate, frozen, economy>>
      BY <1>8 DEF AcceptPayout, Confirm
<1>9. ASSUME TransferStep \/ Maintain \/ UNCHANGED vars PROVE UNCHANGED <<delegate, frozen, economy>>
      BY <1>9 DEF TransferStep, Transfer, Maintain, vars
<1> QED  BY <1>1, <1>2, <1>3, <1>4, <1>5, <1>6, <1>7, <1>8, <1>9 DEF Next, VoteStep, ExecuteStep

(* Changing one account changes the total by the difference. *)
LEMMA BalanceChanges ==
    ASSUME NEW f \in [People -> Nat], NEW p \in People, NEW v \in Int, f[p] + v >= 0
    PROVE  /\ [f EXCEPT ![p] = @ + v] \in [People -> Nat]
           /\ SumFunction([f EXCEPT ![p] = @ + v]) = SumFunction(f) + v
           /\ SumFunction(f) \in Nat
<1> DEFINE x == f[p] + v
<1>1. x \in Nat /\ x \in Int /\ f[p] \in Int /\ IsFiniteSet(People) /\ f \in [People -> Int]
      BY GovernanceAssumption
<1>2. SumFunction(f) \in Nat  BY <1>1, TotalInt
<1>3. x = f[p] + v  OBVIOUS
<1> HIDE DEF x
<1>4. SumFunction([f EXCEPT ![p] = x]) = SumFunction(f) - f[p] + x  BY <1>1, TotalPut
<1>5. SumFunction(f) - f[p] + x = SumFunction(f) + v  BY <1>1, <1>2, <1>3
<1>6. [f EXCEPT ![p] = x] \in [People -> Nat]  BY <1>1
<1> QED  BY <1>2, <1>3, <1>4, <1>5, <1>6

(* What victims are owed is an amount. *)
LEMMA OwedType ==
    ASSUME MoneyType
    PROVE  Owed \in [Ids -> Nat] /\ SumFunction(Owed) \in Nat /\ IsFiniteSet(Ids)
<1>1. IsFiniteSet(Ids)
      <2>1. 1 \in Int /\ MaxProposals \in Int  BY GovernanceAssumption
      <2> QED  BY <2>1, FS_Interval DEF Ids
<1>2. Owed \in [Ids -> Nat]  BY DEF MoneyType, Payouts, Owed
<1> QED  BY <1>1, <1>2, TotalInt

\* payout i is recorded or confirmed: what is owed on its account changes by v
LEMMA OwedChanges ==
    ASSUME MoneyType, MoneyType', NEW i \in Ids, NEW v \in Int,
           Owed'[i] = Owed[i] + v, \A j \in Ids \ {i} : payout'[j] = payout[j]
    PROVE  SumFunction(Owed') = SumFunction(Owed) + v
<1> DEFINE f == Owed
           g == Owed'
           x == f[i] + v
<1>1. f \in [Ids -> Nat] /\ g \in [Ids -> Nat] /\ SumFunction(f) \in Nat /\ IsFiniteSet(Ids)
      <2>1. Owed' \in [Ids -> Nat]  BY DEF MoneyType, Payouts, Owed
      <2> QED  BY <2>1, OwedType
<1>2. \A j \in Ids \ {i} : g[j] = f[j]  BY DEF Owed
<1>3. g[i] = x  OBVIOUS
<1> HIDE DEF f, g
<1>4. x \in Int /\ f[i] \in Int /\ f \in [Ids -> Int] /\ x = f[i] + v  BY <1>1
<1> HIDE DEF x
<1>5. g = [f EXCEPT ![i] = x]  BY <1>1, <1>2, <1>3
<1>6. SumFunction([f EXCEPT ![i] = x]) = SumFunction(f) - f[i] + x  BY <1>1, <1>4, TotalPut
<1>7. SumFunction(f) - f[i] + x = SumFunction(f) + v  BY <1>1, <1>4
<1> QED  BY <1>5, <1>6, <1>7 DEF f, g

(* Native coins after a step: the balances, the two funds and what is owed. *)
Coins == SumFunction(balance) + fund + payoutFund + SumFunction(Owed)

(* Conservation, with the two funds, the balances and what is owed as one
   total. *)
LEMMA CoinsAddUp == NovaAddsUp <=> Coins = SumFunction(Wealth) + FundGenesis + PayoutGenesis
BY DEF NovaAddsUp, Coins, Owed

(* An executed spend moves coins from the fund to its receiver, or nothing. *)
LEMMA SpendCoins ==
    ASSUME MoneyType, NEW r \in Proposals, r.who \in People, Spend(r)
    PROVE  MoneyType' /\ Coins' = Coins /\ UNCHANGED payout
<1> DEFINE pay == Smaller(r.amount, fund)
<1>1. r.amount \in Nat /\ fund \in Nat /\ balance \in [People -> Nat] /\ payoutFund \in Nat
      BY DEF MoneyType, Proposals
<1>2. pay \in Nat /\ pay <= fund /\ pay \in Int  BY <1>1 DEF Smaller
<1>3. /\ fund' = fund - pay /\ balance' = [balance EXCEPT ![r.who] = @ + pay]
      /\ UNCHANGED <<payoutFund, payout>>
      BY DEF Spend
<1> HIDE DEF pay
<1>4. balance[r.who] + pay >= 0  BY <1>1, <1>2
<1>5. /\ balance' \in [People -> Nat] /\ SumFunction(balance') = SumFunction(balance) + pay
      /\ SumFunction(balance) \in Nat
      BY <1>1, <1>2, <1>3, <1>4, BalanceChanges
<1>6. MoneyType'  BY <1>1, <1>2, <1>3, <1>5 DEF MoneyType
<1>7. SumFunction(Owed') = SumFunction(Owed) /\ SumFunction(Owed) \in Nat
      BY <1>3, OwedType DEF Owed
<1>8. Coins' = SumFunction(balance') + fund' + payoutFund' + SumFunction(Owed')  BY DEF Coins
<1>9. Coins' = Coins  BY <1>1, <1>2, <1>3, <1>5, <1>7, <1>8 DEF Coins
<1> QED  BY <1>3, <1>6, <1>9

(* An executed compensation sets coins of the payout fund aside for a victim. *)
LEMMA CompensateCoins ==
    ASSUME MoneyType, NEW r \in Proposals, r.who \in People, NEW i \in Ids,
           payout[i].status = "none", Compensate(i, r)
    PROVE  /\ MoneyType' /\ Coins' = Coins
           /\ \A j \in Ids : \/ payout'[j] = payout[j]
                             \/ j = i /\ payout'[j].victim \in People
<1> DEFINE loss == (8 * r.amount) \div 10
           amt == Smaller(loss, payoutFund)
           po == [status |-> "pending", victim |-> r.who, amount |-> amt]
<1>1. /\ r.amount \in Nat /\ fund \in Nat /\ balance \in [People -> Nat] /\ payoutFund \in Nat
      /\ payout \in [Ids -> Payouts]
      BY DEF MoneyType, Proposals
<1>2. amt \in Nat /\ amt <= payoutFund
      <2>1. loss \in Nat  BY <1>1
      <2> HIDE DEF loss
      <2> QED  BY <1>1, <2>1 DEF Smaller
<1>3. /\ payoutFund' = payoutFund - amt /\ UNCHANGED <<balance, fund>>
      /\ payout' = IF amt = 0 THEN payout ELSE [payout EXCEPT ![i] = po]
      BY DEF Compensate
<1> HIDE DEF amt
<1>4. po \in Payouts  BY <1>2 DEF Payouts
<1>5. MoneyType'  BY <1>1, <1>2, <1>3, <1>4 DEF MoneyType
<1>6. \A j \in Ids \ {i} : payout'[j] = payout[j]  BY <1>1, <1>3
<1>7. Owed[i] = 0 /\ Owed'[i] = amt
      BY <1>1, <1>2, <1>3 DEF Owed
<1>8. SumFunction(Owed') = SumFunction(Owed) + amt
      <2>1. amt \in Int /\ Owed'[i] = Owed[i] + amt  BY <1>2, <1>7
      <2> QED  BY <1>5, <1>6, <2>1, OwedChanges
<1>9. SumFunction(Owed) \in Nat /\ SumFunction(balance) \in Nat
      BY <1>1, OwedType, TotalInt, GovernanceAssumption
<1>10. Coins' = SumFunction(balance') + fund' + payoutFund' + SumFunction(Owed')  BY DEF Coins
<1>11. Coins' = Coins  BY <1>1, <1>2, <1>3, <1>8, <1>9, <1>10 DEF Coins
<1>12. payout'[i] = payout[i] \/ payout'[i].victim \in People  BY <1>1, <1>3
<1> QED  BY <1>5, <1>6, <1>11, <1>12

(* An accepted payout hands them over. *)
LEMMA AcceptCoins ==
    ASSUME MoneyType, NEW i \in Ids, payout[i].victim \in People, AcceptPayout(i)
    PROVE  /\ MoneyType' /\ Coins' = Coins
           /\ \A j \in Ids : payout'[j].victim = payout[j].victim
                             /\ (payout'[j].status # "none" => payout[j].status # "none")
<1> DEFINE amt == payout[i].amount
           po == [payout[i] EXCEPT !.status = "confirmed"]
<1>1. /\ fund \in Nat /\ balance \in [People -> Nat] /\ payoutFund \in Nat
      /\ payout \in [Ids -> Payouts] /\ payout[i] \in Payouts
      BY DEF MoneyType
<1>2. amt \in Nat /\ po \in Payouts  BY <1>1 DEF Payouts
<1>3. /\ payout[i].status = "pending" /\ payout' = [payout EXCEPT ![i] = po]
      /\ balance' = [balance EXCEPT ![payout[i].victim] = @ + amt] /\ UNCHANGED <<fund, payoutFund>>
      BY DEF AcceptPayout, Signed
<1>4. po.status = "confirmed" /\ po.victim = payout[i].victim  BY <1>1 DEF Payouts
<1>5. Owed[i] = amt /\ Owed'[i] = 0  BY <1>1, <1>3, <1>4 DEF Owed
<1> HIDE DEF amt, po
<1>6. amt \in Int /\ balance[payout[i].victim] + amt >= 0  BY <1>1, <1>2
<1>7. /\ balance' \in [People -> Nat] /\ SumFunction(balance') = SumFunction(balance) + amt
      /\ SumFunction(balance) \in Nat
      BY <1>1, <1>3, <1>6, BalanceChanges
<1>8. MoneyType'  BY <1>1, <1>2, <1>3, <1>7 DEF MoneyType
<1>9. \A j \in Ids \ {i} : payout'[j] = payout[j]  BY <1>1, <1>3
<1>10. SumFunction(Owed') = SumFunction(Owed) - amt
      <2> DEFINE v == 0 - amt
      <2>1. v \in Int /\ Owed'[i] = Owed[i] + v  BY <1>5, <1>6
      <2> HIDE DEF v
      <2>2. SumFunction(Owed') = SumFunction(Owed) + v  BY <1>8, <1>9, <2>1, OwedChanges
      <2>3. SumFunction(Owed) \in Nat  BY OwedType
      <2> QED  BY <1>6, <2>2, <2>3 DEF v
<1>11. SumFunction(Owed) \in Nat  BY OwedType
<1>12. Coins' = SumFunction(balance') + fund' + payoutFund' + SumFunction(Owed')  BY DEF Coins
<1>13. Coins' = Coins  BY <1>1, <1>2, <1>3, <1>7, <1>10, <1>11, <1>12 DEF Coins
<1>14. \A j \in Ids : payout'[j] = IF j = i THEN po ELSE payout[j]  BY <1>1, <1>3
<1> QED  BY <1>3, <1>4, <1>8, <1>13, <1>14

(* A transfer moves them between two people. *)
LEMMA TransferCoins ==
    ASSUME MoneyType, NEW p \in People, NEW q \in People, NEW amt \in Amounts, Transfer(p, q, amt)
    PROVE  MoneyType' /\ Coins' = Coins /\ UNCHANGED payout
<1> DEFINE v == 0 - amt
           b == [balance EXCEPT ![p] = @ + v]
<1>1. /\ fund \in Nat /\ balance \in [People -> Nat] /\ payoutFund \in Nat
      /\ amt \in Nat /\ balance[p] >= amt /\ p # q
      BY GovernanceAssumption DEF MoneyType, Transfer
<1>2. v \in Int /\ balance[p] + v >= 0 /\ balance[p] + v = balance[p] - amt  BY <1>1
<1>3. UNCHANGED <<fund, payoutFund, payout>>  BY DEF Transfer
<1>4. balance' = [b EXCEPT ![q] = @ + amt]
      <2>1. balance' = [balance EXCEPT ![p] = @ - amt, ![q] = @ + amt]  BY DEF Transfer
      <2> HIDE DEF v
      <2> QED  BY <1>1, <1>2, <2>1
<1> HIDE DEF v, b
<1>5. b \in [People -> Nat] /\ SumFunction(b) = SumFunction(balance) + v /\ SumFunction(balance) \in Nat
      BY ZenonT(30), <1>1, <1>2, BalanceChanges DEF b
<1>6. amt \in Int /\ b[q] + amt >= 0  BY <1>1, <1>5
<1>7. balance' \in [People -> Nat] /\ SumFunction(balance') = SumFunction(b) + amt
      BY ZenonT(30), <1>4, <1>5, <1>6, BalanceChanges
<1>8. SumFunction(balance') = SumFunction(balance)  BY <1>1, <1>5, <1>7 DEF v
<1>9. MoneyType'  BY <1>1, <1>3, <1>7 DEF MoneyType
<1>10. Owed' = Owed  BY <1>3 DEF Owed
<1>11. Coins' = SumFunction(balance') + fund' + payoutFund' + SumFunction(Owed')  BY DEF Coins
<1> QED  BY <1>3, <1>8, <1>9, <1>10, <1>11 DEF Coins

-----------------------------------------------------------------------------
(* The invariant holds at the start. *)
LEMMA InitGov == Init => GovInv
<1> SUFFICES ASSUME Init PROVE GovInv  OBVIOUS
<1>1. NoProposal \in Proposals /\ NoProposal.status = "none" /\ NoProposal.age = 0 /\ NoProposal.left = 0
      BY DEF NoProposal, Proposals, Statuses, Kinds
<1>2. /\ \A i \in Ids : prop[i] = NoProposal /\ payout[i] = [status |-> "none", victim |-> None, amount |-> 0]
      /\ prop \in [Ids -> Proposals] /\ payout \in [Ids -> Payouts]
      BY <1>1 DEF Init, Payouts
<1>3. MoneyType  BY <1>2, GovernanceAssumption DEF Init, MoneyType
<1>4. TypeOK
      <2>1. /\ delegate \in [People -> People \cup {None}] /\ frozen \in [Targets -> Nat]
            /\ economy \in 0..MaxProposals
            BY GovernanceAssumption DEF Init
      <2> QED  BY <1>2, <1>3, <2>1, TypeParts
<1>5. \A i \in Ids : ProposalOK(prop[i])
      <2>1. Course(NoProposal) = 0  BY <1>1 DEF Course
      <2>2. ProposalOK(NoProposal)  BY <1>1, <2>1 DEF ProposalOK
      <2> QED  BY <1>2, <2>2
<1>6. PayoutsOK  BY <1>2 DEF PayoutsOK
<1>7. NovaAddsUp
      <2>1. Owed = [i \in Ids |-> 0]  BY <1>2 DEF Owed
      <2>2. SumFunction(Owed) = 0
            <3>1. IsFiniteSet(Ids)  BY <1>3, OwedType
            <3> QED  BY <2>1, <3>1, TotalZero
      <2>3. SumFunction(Wealth) \in Nat
            BY GovernanceAssumption, TotalInt
      <2>4. balance = Wealth /\ fund = FundGenesis /\ payoutFund = PayoutGenesis  BY DEF Init
      <2>5. Coins = SumFunction(Wealth) + FundGenesis + PayoutGenesis
            BY <2>2, <2>3, <2>4, GovernanceAssumption DEF Coins
      <2> QED  BY <2>5, CoinsAddUp
<1> QED  BY <1>4, <1>5, <1>6, <1>7 DEF GovInv

(* GovInv is inductive: one step per action for the money, ProposalsStep for
   the proposals. *)
LEMMA NextGov == GovInv /\ [Next]_vars => GovInv'
<1> SUFFICES ASSUME GovInv, [Next]_vars PROVE GovInv'  OBVIOUS
<1>1. TypeOK /\ MoneyType /\ prop \in [Ids -> Proposals]  BY TypeParts DEF GovInv
<1>2. prop' \in [Ids -> Proposals] /\ \A i \in Ids : ProposalMove(prop[i], prop'[i])
      BY <1>1, ProposalsStep DEF ProposalsMove
<1>3. \A i \in Ids : ProposalOK(prop'[i]) /\ (prop[i].status = "executed" => prop'[i].status = "executed")
      BY <1>1, <1>2, ProposalMoveOK DEF GovInv
<1>4. ASSUME MoneyType', Coins' = Coins, PayoutsOK' PROVE GovInv'
      <2>1. TypeOK'
            BY <1>1, <1>2, <1>4, OtherTypes DEF TypeOK, MoneyType, Proposals, Payouts
      <2>2. NovaAddsUp'
            <3>1. Coins = SumFunction(Wealth) + FundGenesis + PayoutGenesis  BY CoinsAddUp DEF GovInv
            <3> QED  BY <1>4, <3>1 DEF NovaAddsUp, Coins, Owed
      <2> QED  BY <1>3, <1>4, <2>1, <2>2 DEF GovInv
<1>5. ASSUME UNCHANGED money PROVE GovInv'
      <2>1. MoneyType'  BY <1>1, <1>5 DEF MoneyType, money
      <2>2. Coins' = Coins  BY <1>5 DEF Coins, Owed, money
      <2>3. PayoutsOK'  BY <1>3, <1>5 DEF PayoutsOK, GovInv, money
      <2> QED  BY <1>4, <2>1, <2>2, <2>3
<1>6. ASSUME NEW i \in Ids, Execute(i) PROVE GovInv'
      <2> DEFINE r == prop[i]
      <2>1. /\ r \in Proposals /\ r.status = "passed" /\ payout[i].status = "none"
            /\ r.type \in {"fund", "payout"} => r.who \in People
            <3>1. r.status = "passed"  BY <1>6 DEF Execute, Due
            <3> QED  BY <1>1, <3>1 DEF GovInv, ProposalOK, PayoutsOK
      <2>2. prop'[i].status = "executed"
            <3>1. prop' = [Ticked EXCEPT ![i].status = "executed"]  BY <1>6 DEF Execute
            <3>2. Ticked \in [Ids -> Proposals]  BY <1>1, TickedType
            <3> QED  BY <3>1, <3>2 DEF Proposals
      <2>3. CASE r.type = "fund"
            <3>1. Spend(r)  BY <1>6, <2>3 DEF Execute
            <3>2. MoneyType' /\ Coins' = Coins /\ UNCHANGED payout
                  BY <1>1, <2>1, <2>3, <3>1, SpendCoins
            <3>3. PayoutsOK'  BY <1>3, <3>2 DEF PayoutsOK, GovInv
            <3> QED  BY <1>4, <3>2, <3>3
      <2>4. CASE r.type = "payout"
            <3>1. Compensate(i, r)  BY <1>6, <2>4 DEF Execute
            <3>2. /\ MoneyType' /\ Coins' = Coins
                  /\ \A j \in Ids : \/ payout'[j] = payout[j]
                                    \/ j = i /\ payout'[j].victim \in People
                  BY <1>1, <2>1, <2>4, <3>1, CompensateCoins
            <3>3. PayoutsOK'  BY <1>3, <2>2, <3>2 DEF PayoutsOK, GovInv
            <3> QED  BY <1>4, <3>2, <3>3
      <2>5. CASE r.type \notin {"fund", "payout"}
            <3>1. UNCHANGED money  BY <1>6, <2>5 DEF Execute
            <3> QED  BY <1>5, <3>1
      <2> QED  BY <2>3, <2>4, <2>5
<1>7. ASSUME NEW i \in Ids, AcceptPayout(i) PROVE GovInv'
      <2>1. payout[i].victim \in People  BY <1>7 DEF AcceptPayout, GovInv, PayoutsOK
      <2>2. /\ MoneyType' /\ Coins' = Coins
            /\ \A j \in Ids : payout'[j].victim = payout[j].victim
                              /\ (payout'[j].status # "none" => payout[j].status # "none")
            BY <1>1, <1>7, <2>1, AcceptCoins
      <2>3. PayoutsOK'  BY <1>3, <2>2 DEF PayoutsOK, GovInv
      <2> QED  BY <1>4, <2>2, <2>3
<1>8. ASSUME NEW p \in People, NEW q \in People, NEW amt \in Amounts, Transfer(p, q, amt)
      PROVE  GovInv'
      <2>1. MoneyType' /\ Coins' = Coins /\ UNCHANGED payout  BY <1>1, <1>8, TransferCoins
      <2>2. PayoutsOK'  BY <1>3, <2>1 DEF PayoutsOK, GovInv
      <2> QED  BY <1>4, <2>1, <2>2
<1>9. ASSUME ProposalStep PROVE UNCHANGED money
      BY ZenonT(30), <1>9 DEF ProposalStep, Propose, Endorse, Cancel
<1>10. ASSUME VoteStep PROVE UNCHANGED money
      <2>1. ASSUME NEW p \in People, NEW i \in Ids, NEW support \in BOOLEAN, Vote(p, i, support)
            PROVE  UNCHANGED money
            BY <2>1 DEF Vote
      <2> QED  BY <1>10, <2>1 DEF VoteStep, Delegate
<1>11. ASSUME Maintain \/ Restart \/ Hour \/ UNCHANGED vars PROVE UNCHANGED money
      BY <1>11 DEF Maintain, Restart, Hour, vars
<1>12. ASSUME NEW i \in Ids, NEW n \in People, Confirm(n, i) PROVE UNCHANGED money
      BY <1>12 DEF Confirm
<1> QED  BY <1>5, <1>6, <1>7, <1>8, <1>9, <1>12, <1>10, <1>11 DEF Next, ExecuteStep, TransferStep

(* The inductive invariant: the types, every proposal's record in order, and
   no coin made or lost by spends, compensations and payouts. *)
THEOREM GovInvHolds == Spec => []GovInv
BY InitGov, NextGov, PTL DEF Spec

(* An executed proposal has been discussed, voted on and locked for the full
   lengths and spends nothing without its confirmations, and the voting
   powers of all addresses, through every chain and cycle of delegations,
   never exceed what they own. *)
THEOREM ProposalsAreSoundHold == Spec => []ProposalsAreSound
<1>1. GovInv => EffectsAreEarned
      <2> SUFFICES ASSUME GovInv, NEW i \in Ids, prop[i].status = "executed"
                   PROVE  /\ prop[i].age >= IF prop[i].type = "freeze"
                                            THEN Smaller(Discussion + FreezeVoting, Lifetime)
                                            ELSE Lifetime
                          /\ prop[i].type = "fund" => Cardinality(prop[i].multisig) >= Confirmations
          BY DEF EffectsAreEarned
      <2> DEFINE r == prop[i]
      <2>1. r \in Proposals /\ ProposalOK(r)  BY TypeParts DEF GovInv
      <2>2. r.age \in Nat  BY <2>1 DEF Proposals
      <2>3. r.age >= Course(r)  BY <2>1, <2>2 DEF ProposalOK
      <2>4. Course(r) = IF r.type = "freeze" THEN Smaller(Discussion + FreezeVoting, Lifetime) ELSE Lifetime
            BY Lengths DEF Course, VoteLength, LockLength, Lifetime, Smaller
      <2> QED  BY <2>1, <2>3, <2>4 DEF ProposalOK
<1>2. GovInv => PowerIsShared
      <2>1. GovInv => Funds  BY DEF GovInv, TypeOK, Funds
      <2> QED  BY <2>1, PowersShared
<1>3. GovInv => ProposalsAreSound  BY <1>1, <1>2 DEF GovInv, ProposalsAreSound
<1> QED  BY GovInvHolds, <1>3, PTL

(* Executing fund spending and payouts, accepting a payout and paying moves
   native coins between the balances, the ecosystem fund, the payout fund and
   what is owed to victims; their sum stays what it was at genesis. *)
THEOREM NovaAddsUpHolds == Spec => []NovaAddsUp
<1>1. GovInv => NovaAddsUp  BY DEF GovInv
<1> QED  BY GovInvHolds, <1>1, PTL
=============================================================================
