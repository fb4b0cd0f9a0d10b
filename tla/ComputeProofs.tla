---------------------------- MODULE ComputeProofs ----------------------------
(*****************************************************************************)
(* PaymentsAreSound and NovaAddsUp of module ComputeMarket, for any people,  *)
(* tasks, bounties and windows.  MarketInv gives every record its type and   *)
(* says of each task who takes part (PartiesOK), that nothing is paid before *)
(* it is settled (UnsettledOK), that a refunded task is never settled        *)
(* (RefundOK: what is taken up again stays overdue) and that what is paid    *)
(* was confirmed (ConfirmedOK).  It has one lemma per action, named Keep...; *)
(* NovaAddsUp has another, named ...Coins, in which the money outside the    *)
(* market (Purse) and what the market holds for its tasks (Escrow) change by *)
(* opposite amounts, up to the unit that a settlement may lose to rounding.  *)
(*****************************************************************************)
EXTENDS ComputeMarket, Sums

Maps(R) == UNION {[S -> R] : S \in SUBSET People}

Records ==
    [kind : AllKinds, creator : People \cup {None}, bounty : Nat, status : Statuses,
     accepted : SUBSET People, assigned : SUBSET People, bids : SUBSET People,
     results : Maps(Hashes), arbiter : People \cup {None}, verdict : Hashes \cup {None},
     shares : Maps(Int), clawed : Maps(Int), votes : Maps({"uphold", "dismiss"}),
     left : 0..Expires, window : 0..Window,
     audit : {"none", "pending", "passed", "failed"}, auditor : People \cup {None},
     refunds : Nat]

\* who takes part
PartiesOK(r) ==
    /\ r.status # "none" => r.creator \in People
    /\ r.accepted \subseteq People \ {r.creator} /\ r.bids \subseteq People \ {r.creator}
    /\ r.assigned \subseteq r.accepted
    /\ DOMAIN r.results \subseteq r.accepted
    /\ r.kind = "bid" /\ r.status \in {"open", "bidding"} => DOMAIN r.results = {}

\* before it is settled nobody is paid, nobody votes, and no two results agree
UnsettledOK(r) ==
    /\ Paid(r) \subseteq DOMAIN r.results /\ DOMAIN r.votes \cap Paid(r) = {}
    /\ r.status \in Live \cup {"none", "expired"} =>
         /\ Paid(r) = {} /\ DOMAIN r.votes = {}
         /\ \A v, w \in DOMAIN r.results : r.results[v] = r.results[w] => v = w

\* a refunded task is never settled: if it is taken up again, it stays overdue
RefundOK(r) ==
    r.refunds > 0 =>
        /\ Paid(r) = {} /\ r.status \notin {"none", "submitted", "arbitrating"}
        /\ r.status \in Live => r.left = 0 /\ r.kind # "legacy"

ConfirmedOK(r) ==
    Paid(r) # {} =>
        /\ \A v, w \in Paid(r) : r.results[v] = r.results[w]
        /\ Cardinality(Paid(r)) >= 2 \/ \A w \in Paid(r) : r.verdict = r.results[w]

TaskOK(r) == r \in Records /\ PartiesOK(r) /\ UnsettledOK(r) /\ RefundOK(r) /\ ConfirmedOK(r)

TasksOK(f) == f = [t \in TaskIds |-> f[t]] /\ \A t \in TaskIds : TaskOK(f[t])

MarketInv ==
    /\ TasksOK(task)
    /\ balance \in [Accounts -> Int] /\ stake \in [People -> Nat] /\ rep \in [People -> Int]
    /\ unbonding \in [People -> [amount : Nat, left : 0..Unbond]]
    /\ known \in [People -> {"new", "seen", "registered"}]

-----------------------------------------------------------------------------
(* What a map over some of the people is. *)
LEMMA InMaps ==
    ASSUME NEW R, NEW f
    PROVE  f \in Maps(R) <=> DOMAIN f \subseteq People /\ f \in [DOMAIN f -> R]
BY DEF Maps

(* One entry more, or another value for one. *)
LEMMA PutMap ==
    ASSUME NEW R, NEW f \in Maps(R), NEW p \in People, NEW v \in R
    PROVE  Put(f, p, v) \in Maps(R)
<1>1. DOMAIN f \subseteq People /\ f \in [DOMAIN f -> R]  BY InMaps
<1> DEFINE g == Put(f, p, v)
<1>2. DOMAIN g = DOMAIN f \cup {p}  BY DEF Put
<1>3. g \in [DOMAIN g -> R]  BY <1>1 DEF Put
<1> HIDE DEF g
<1> QED  BY <1>1, <1>2, <1>3, InMaps DEF g

(* Expiry refunds a task nobody has been paid for, and leaves the rest of its
   record. *)
LEMMA ExpireOK == ASSUME NEW r, TaskOK(r) PROVE TaskOK(Expire(r))
<1> DEFINE s == [r EXCEPT !.status = "expired", !.refunds = @ + 1]
<1>1. CASE Overdue(r)
      <2>1. Expire(r) = s  BY <1>1 DEF Expire, Refunded
      <2>2. r \in Records /\ r.refunds + 1 \in Nat  BY DEF TaskOK, Records
      <2>3. s \in Records  BY <2>2 DEF Records, Statuses
      <2>4. /\ s.kind = r.kind /\ s.creator = r.creator /\ s.accepted = r.accepted /\ s.assigned = r.assigned
            /\ s.bids = r.bids /\ s.results = r.results /\ s.shares = r.shares /\ s.votes = r.votes
            /\ s.verdict = r.verdict /\ s.status = "expired"
            BY <2>2 DEF Records
      <2>5. r.status \in Live  BY <1>1 DEF Overdue, Live
      <2> HIDE DEF s
      <2>6. PartiesOK(s)  BY <2>4, <2>5 DEF TaskOK, PartiesOK, Live
      <2>7. UnsettledOK(s)  BY <2>4, <2>5 DEF TaskOK, UnsettledOK, Paid
      <2>8. RefundOK(s)  BY <2>4, <2>5 DEF TaskOK, UnsettledOK, RefundOK, Paid, Live
      <2>9. ConfirmedOK(s)  BY <2>4 DEF TaskOK, ConfirmedOK, Paid
      <2> QED  BY <2>1, <2>3, <2>6, <2>7, <2>8, <2>9 DEF TaskOK
<1>2. CASE ~Overdue(r)  BY <1>2 DEF Expire
<1> QED  BY <1>1, <1>2


\* what Expire leaves alone
LEMMA ExpiredFields ==
    ASSUME NEW r, TaskOK(r), NEW e, e = Expire(r)
    PROVE  /\ e.kind = r.kind /\ e.creator = r.creator /\ e.accepted = r.accepted
           /\ e.assigned = r.assigned /\ e.bids = r.bids /\ e.results = r.results
           /\ e.shares = r.shares /\ e.votes = r.votes /\ e.left = r.left
           /\ e.verdict = r.verdict /\ e.bounty = r.bounty
           /\ e.status = r.status \/ e.status = "expired"
           /\ r.status \in Live /\ e.refunds > 0 => r.left = 0 /\ e.status \notin {"submitted", "arbitrating"}
<1>1. r \in Records /\ RefundOK(r)  BY DEF TaskOK
<1>2. CASE Overdue(r)  BY <1>1, <1>2 DEF Expire, Refunded, Overdue, Records
<1>3. CASE ~Overdue(r)  BY <1>1, <1>3 DEF Expire, RefundOK
<1> QED  BY <1>2, <1>3

(* A task just published is in order. *)
LEMMA PublishOK ==
    ASSUME NEW p \in Publishers, NEW kind \in Kinds, NEW b \in Bounties
    PROVE  TaskOK([NoTask EXCEPT !.kind = kind, !.creator = p, !.bounty = b,
                                 !.status = "open", !.left = Expires])
<1> DEFINE s == [NoTask EXCEPT !.kind = kind, !.creator = p, !.bounty = b,
                               !.status = "open", !.left = Expires]
<1>1. /\ p \in People /\ kind \in AllKinds /\ b \in Nat /\ Expires \in 0..Expires /\ 0 \in 0..Window
      BY ComputeAssumption
<1>2. /\ NoTask.results \in Maps(Hashes) /\ NoTask.shares \in Maps(Int) /\ NoTask.clawed \in Maps(Int)
      /\ NoTask.votes \in Maps({"uphold", "dismiss"})
      BY InMaps DEF NoTask
<1>3. s \in Records  BY <1>1, <1>2 DEF NoTask, Records, Statuses, Live
<1>4. /\ s.creator = p /\ s.accepted = {} /\ s.bids = {} /\ s.assigned = {} /\ DOMAIN s.results = {}
      /\ DOMAIN s.shares = {} /\ DOMAIN s.votes = {} /\ s.refunds = 0
      BY DEF NoTask
<1> HIDE DEF s
<1>5. PartiesOK(s)  BY <1>1, <1>4 DEF PartiesOK
<1>6. UnsettledOK(s)  BY <1>4 DEF UnsettledOK, Paid
<1>7. RefundOK(s)  BY <1>4 DEF RefundOK
<1>8. ConfirmedOK(s)  BY <1>4 DEF ConfirmedOK, Paid
<1> QED  BY <1>3, <1>5, <1>6, <1>7, <1>8 DEF TaskOK, s

(* A worker takes an open task; an overdue one has been expired first. *)
LEMMA AcceptOK ==
    ASSUME NEW r, TaskOK(r), r.status = "open", NEW p \in People, p # r.creator,
           NEW e, e = Expire(r), NEW s,
           \/ e.kind = "legacy" /\ s = [e EXCEPT !.accepted = @ \cup {p}]
           \/ e.kind = "bid" /\ s = [e EXCEPT !.accepted = @ \cup {p}, !.status = "bidding"]
           \/ /\ e.kind = "grab"
              /\ \E st \in {"assigned", e.status} :
                   s = [e EXCEPT !.accepted = @ \cup {p}, !.assigned = e.assigned \cup {p}, !.status = st]
    PROVE  TaskOK(s)
<1>1. TaskOK(e) /\ e \in Records  BY ExpireOK DEF TaskOK
<1>2. /\ e.kind = r.kind /\ e.creator = r.creator /\ e.results = r.results /\ e.left = r.left
      /\ e.status = "open" \/ e.status = "expired"
      /\ e.refunds > 0 => r.left = 0 /\ e.status \notin {"submitted", "arbitrating"}
      BY ExpiredFields DEF Live
<1>3. PICK st \in {"open", "expired", "bidding", "assigned"}, a \in SUBSET People :
         /\ s = [e EXCEPT !.accepted = e.accepted \cup {p}, !.assigned = a, !.status = st]
         /\ a \subseteq e.assigned \cup {p}
         /\ e.kind = "legacy" => st = e.status
         /\ st = "bidding" => e.kind = "bid"
      <2>1. e.assigned \in SUBSET People /\ e.assigned \cup {p} \in SUBSET People  BY <1>1 DEF Records
      <2>2. CASE e.kind = "legacy" /\ s = [e EXCEPT !.accepted = @ \cup {p}]
            <3>1. s = [e EXCEPT !.accepted = e.accepted \cup {p}, !.assigned = e.assigned, !.status = e.status]
                  BY <1>1, <2>2 DEF Records
            <3> QED  BY <1>2, <2>1, <2>2, <3>1
      <2>3. CASE e.kind = "bid" /\ s = [e EXCEPT !.accepted = @ \cup {p}, !.status = "bidding"]
            <3>1. s = [e EXCEPT !.accepted = e.accepted \cup {p}, !.assigned = e.assigned, !.status = "bidding"]
                  BY <1>1, <2>3 DEF Records
            <3> QED  BY <1>2, <2>1, <2>3, <3>1
      <2>4. ASSUME e.kind = "grab", NEW x \in {"assigned", e.status},
                   s = [e EXCEPT !.accepted = @ \cup {p}, !.assigned = e.assigned \cup {p}, !.status = x]
            PROVE  \E st \in {"open", "expired", "bidding", "assigned"}, a \in SUBSET People :
                     /\ s = [e EXCEPT !.accepted = e.accepted \cup {p}, !.assigned = a, !.status = st]
                     /\ a \subseteq e.assigned \cup {p}
                     /\ e.kind = "legacy" => st = e.status
                     /\ st = "bidding" => e.kind = "bid"
            <3>1. x \in {"open", "expired", "bidding", "assigned"} /\ x # "bidding"  BY <1>2, <2>4
            <3> QED  BY ZenonT(30), <2>1, <2>4, <3>1
      <2> QED  BY <2>2, <2>3, <2>4
<1>4. s \in Records
      <2>1. e.accepted \cup {p} \in SUBSET People /\ a \in SUBSET People /\ st \in Statuses
            BY <1>1, <1>3 DEF Records, Statuses, Live
      <2> QED  BY ZenonT(30), <1>1, <1>3, <2>1 DEF Records
<1>5. /\ s.kind = e.kind /\ s.creator = e.creator /\ s.accepted = e.accepted \cup {p} /\ s.assigned = a
      /\ s.bids = e.bids /\ s.results = e.results /\ s.shares = e.shares /\ s.votes = e.votes
      /\ s.verdict = e.verdict /\ s.status = st /\ s.left = e.left /\ s.refunds = e.refunds
      BY <1>1, <1>3 DEF Records
<1>6. PartiesOK(s)
      <2>1. e.kind = "bid" => DOMAIN e.results = {}  BY <1>2 DEF TaskOK, PartiesOK
      <2>2. e.creator \in People  BY <1>2 DEF TaskOK, PartiesOK
      <2> QED  BY <1>1, <1>2, <1>3, <1>5, <2>1, <2>2 DEF TaskOK, PartiesOK
<1>7. UnsettledOK(s)  BY <1>1, <1>2, <1>3, <1>5 DEF TaskOK, UnsettledOK, Paid, Live
<1>8. RefundOK(s)  BY <1>1, <1>2, <1>3, <1>5 DEF TaskOK, RefundOK, Paid, Live
<1>9. ConfirmedOK(s)  BY <1>1, <1>5 DEF TaskOK, ConfirmedOK, Paid
<1> QED  BY <1>4, <1>6, <1>7, <1>8, <1>9 DEF TaskOK

(* So is one with one bid more. *)
LEMMA BidOK ==
    ASSUME NEW r, TaskOK(r), NEW p \in People, p # r.creator
    PROVE  TaskOK([r EXCEPT !.bids = @ \cup {p}])
<1> DEFINE s == [r EXCEPT !.bids = @ \cup {p}]
<1>1. r \in Records  BY DEF TaskOK
<1>2. s \in Records  BY <1>1 DEF Records
<1>3. /\ s.kind = r.kind /\ s.creator = r.creator /\ s.accepted = r.accepted /\ s.assigned = r.assigned
      /\ s.bids = r.bids \cup {p} /\ s.results = r.results /\ s.shares = r.shares /\ s.votes = r.votes
      /\ s.verdict = r.verdict /\ s.status = r.status /\ s.left = r.left /\ s.refunds = r.refunds
      BY <1>1 DEF Records
<1> HIDE DEF s
<1>4. PartiesOK(s)  BY <1>3 DEF TaskOK, PartiesOK
<1>5. UnsettledOK(s) /\ RefundOK(s) /\ ConfirmedOK(s)
      BY <1>3 DEF TaskOK, UnsettledOK, RefundOK, ConfirmedOK, Paid
<1> QED  BY <1>2, <1>4, <1>5 DEF TaskOK, s

(* So is one that was awarded among its bids. *)
LEMMA AwardOK ==
    ASSUME NEW r, TaskOK(r), r.kind = "bid", r.status \in {"open", "bidding"},
           NEW ws, ws \subseteq r.bids
    PROVE  TaskOK([r EXCEPT !.assigned = ws, !.accepted = ws, !.status = "assigned"])
<1> DEFINE s == [r EXCEPT !.assigned = ws, !.accepted = ws, !.status = "assigned"]
<1>1. r \in Records  BY DEF TaskOK
<1>2. ws \subseteq People \ {r.creator} /\ DOMAIN r.results = {}  BY DEF TaskOK, PartiesOK
<1>3. s \in Records  BY <1>1, <1>2 DEF Records, Statuses, Live
<1>4. /\ s.kind = r.kind /\ s.creator = r.creator /\ s.accepted = ws /\ s.assigned = ws
      /\ s.bids = r.bids /\ s.results = r.results /\ s.shares = r.shares /\ s.votes = r.votes
      /\ s.verdict = r.verdict /\ s.status = "assigned" /\ s.left = r.left /\ s.refunds = r.refunds
      BY <1>1 DEF Records
<1> HIDE DEF s
<1>5. PartiesOK(s)  BY <1>2, <1>4 DEF TaskOK, PartiesOK
<1>6. UnsettledOK(s)  BY <1>4 DEF TaskOK, UnsettledOK, Paid, Live
<1>7. RefundOK(s)  BY <1>4 DEF TaskOK, RefundOK, Paid, Live
<1>8. ConfirmedOK(s)  BY <1>4 DEF TaskOK, ConfirmedOK, Paid
<1> QED  BY <1>3, <1>5, <1>6, <1>7, <1>8 DEF TaskOK, s

\* fields that no part of TaskOK but the types speaks of
LEMMA FieldOK ==
    ASSUME NEW r, TaskOK(r), NEW s, s \in Records,
           s.kind = r.kind, s.creator = r.creator, s.accepted = r.accepted, s.assigned = r.assigned,
           s.bids = r.bids, s.results = r.results, s.shares = r.shares, s.votes = r.votes,
           s.verdict = r.verdict, s.status = r.status, s.refunds = r.refunds,
           s.left = r.left \/ (r.left = 0 => s.left = 0)
    PROVE  TaskOK(s)
BY DEF TaskOK, PartiesOK, UnsettledOK, RefundOK, ConfirmedOK, Paid

(* So is one an audit was asked of, or decided on. *)
LEMMA AuditOK ==
    ASSUME NEW r, TaskOK(r), NEW x \in {"none", "pending", "passed", "failed"}, NEW p \in People
    PROVE  TaskOK([r EXCEPT !.audit = x]) /\ TaskOK([r EXCEPT !.audit = x, !.auditor = p])
<1>1. r \in Records  BY DEF TaskOK
<1>2. TaskOK([r EXCEPT !.audit = x])  BY <1>1, FieldOK DEF Records
<1>3. TaskOK([r EXCEPT !.audit = x, !.auditor = p])  BY ZenonT(30), <1>1, FieldOK DEF Records
<1> QED  BY <1>2, <1>3

(* So is one whose windows ran down. *)
LEMMA TickOK ==
    ASSUME NEW r, TaskOK(r)
    PROVE  TaskOK([r EXCEPT !.left = Less(@), !.window = Less(@)])
<1> DEFINE s == [r EXCEPT !.left = Less(@), !.window = Less(@)]
<1>1. r \in Records  BY DEF TaskOK
<1>2. r.left \in 0..Expires /\ r.window \in 0..Window  BY <1>1 DEF Records
<1>3. Less(r.left) \in 0..Expires /\ Less(r.window) \in 0..Window /\ (r.left = 0 => Less(r.left) = 0)
      BY <1>2, ComputeAssumption DEF Less
<1>4. s \in Records  BY <1>1, <1>3 DEF Records
<1>5. s = [r EXCEPT !.left = Less(r.left), !.window = Less(r.window)]  OBVIOUS
<1>6. s.left = Less(r.left)  BY <1>1 DEF Records
<1> QED  BY <1>1, <1>3, <1>4, <1>6, FieldOK DEF Records


-----------------------------------------------------------------------------
(* Settlement. *)

(* The shares of a settlement are integers. *)
LEMMA SharesAre ==
    ASSUME NEW r, r.bounty \in Nat, NEW ws, ws \subseteq People, ws # {}
    PROVE  Shares(r, ws) \in [ws -> Int] /\ Half(r, ws) \in [ws -> Int]
<1> DEFINE pool == r.bounty - r.bounty \div 100
           weight == [w \in ws |-> 100 + Tier(w).bonus]
<1>1. pool \in Int /\ r.bounty \div 2 \in Int  OBVIOUS
<1>2. \A w \in ws : weight[w] \in Nat /\ weight[w] >= 100
      <2>1. \A w \in ws : Tier(w).bonus \in Nat  BY DEF Tier
      <2> QED  BY <2>1
<1>3. IsFiniteSet(ws) /\ DOMAIN weight = ws  BY ComputeAssumption, FS_Subset
<1> HIDE DEF weight, pool
<1>4. Total(weight) \in Nat /\ Total(weight) > 0
      <2> PICK w \in ws : TRUE  OBVIOUS
      <2>1. \A x \in ws : weight[x] \in Int  BY <1>2
      <2>2. Total(weight) = weight[w] + SumFunctionOnSet(weight, ws \ {w})
            BY <1>3, <2>1, SumRemove, TotalIs DEF Total
      <2>3. SumFunctionOnSet(weight, ws \ {w}) \in Nat
            <3>1. IsFiniteSet(ws \ {w})  BY <1>3, FS_Subset
            <3> QED  BY <1>2, <3>1, SumIsNat
      <2> QED  BY <1>2, <2>2, <2>3
<1>5. \A w \in ws : (pool * weight[w]) \div Total(weight) \in Int
      <2> TAKE w \in ws
      <2>1. pool * weight[w] \in Int  BY <1>1, <1>2
      <2> QED  BY <1>4, <2>1
<1>6. Shares(r, ws) = [w \in ws |-> (pool * weight[w]) \div Total(weight)]
      BY DEF Shares, pool, weight
<1> QED  BY <1>1, <1>5, <1>6 DEF Half

(* A settlement pays those who handed in the agreed result, and nobody twice. *)
LEMMA SettleOK ==
    ASSUME NEW r, TaskOK(r), r.status \in Live, r.refunds = 0,
           NEW ws, NEW h, NEW s, s \in Records,
           s.kind = r.kind, s.creator = r.creator, s.accepted = r.accepted, s.assigned = r.assigned,
           s.bids = r.bids, s.votes = r.votes, s.refunds = r.refunds, s.status = "completed",
           DOMAIN s.results \subseteq r.accepted, ws \subseteq DOMAIN s.results,
           DOMAIN s.shares = ws, \A w \in ws : s.results[w] = h,
           Cardinality(ws) >= 2 \/ s.verdict = h
    PROVE  TaskOK(s)
<1>1. PartiesOK(s)  BY DEF TaskOK, PartiesOK, Live
<1>2. UnsettledOK(s)  BY DEF TaskOK, UnsettledOK, Paid, Live
<1>3. RefundOK(s)  BY DEF RefundOK
<1>4. ConfirmedOK(s)  BY DEF ConfirmedOK, Paid
<1> QED  BY <1>1, <1>2, <1>3, <1>4 DEF TaskOK

\* a task for which a result arrives in time has not been refunded
LEMMA InTimeIs ==
    ASSUME NEW r, TaskOK(r), NEW w \in People, MaySubmit(r, w), InTime(r)
    PROVE  /\ r.status \in Live /\ r.refunds = 0 /\ w \in r.accepted /\ w \notin DOMAIN r.results
           /\ r.kind = "legacy" => r.status = "open"
           /\ r.kind # "legacy" => r.status \in {"assigned", "submitted", "arbitrating"}
<1>1. r \in Records /\ RefundOK(r) /\ PartiesOK(r)  BY DEF TaskOK
<1>2. r.refunds \in Nat  BY <1>1 DEF Records
<1>3. r.status \in Live  BY DEF MaySubmit, Live
<1>4. ~ (r.refunds > 0)  BY <1>1, <1>3 DEF RefundOK, InTime, Overdue, MaySubmit
<1> QED  BY <1>1, <1>2, <1>3, <1>4 DEF MaySubmit, PartiesOK

(* At most one earlier result agrees with a new one: two that agree settle
   the task at once. *)
LEMMA AgreeingIs ==
    ASSUME NEW r, TaskOK(r), r.status \in Live, NEW w \in People, w \notin DOMAIN r.results, NEW h
    PROVE  LET a == Agreeing(r, w, h)
           IN  /\ a \subseteq People /\ w \in a /\ IsFiniteSet(a) /\ Cardinality(a) \in Nat
               /\ \/ a = {w} /\ Cardinality(a) = 1 /\ \A v \in DOMAIN r.results : r.results[v] # h
                  \/ /\ Cardinality(a) = 2
                     /\ \E v \in DOMAIN r.results : v # w /\ a = {v, w} /\ r.results[v] = h
<1> DEFINE a == Agreeing(r, w, h)
<1>1. /\ DOMAIN r.results \subseteq People
      /\ \A v, x \in DOMAIN r.results : r.results[v] = r.results[x] => v = x
      BY DEF TaskOK, PartiesOK, UnsettledOK
<1>2. a \subseteq People /\ w \in a  BY <1>1 DEF Agreeing
<1>3. IsFiniteSet(a) /\ Cardinality(a) \in Nat  BY <1>2, ComputeAssumption, FS_Subset, FS_CardinalityType
<1>4. CASE \A v \in DOMAIN r.results : r.results[v] # h
      <2>1. a = {w}  BY <1>4 DEF Agreeing
      <2> QED  BY <1>2, <1>3, <1>4, <2>1, FS_Singleton
<1>5. ASSUME NEW v \in DOMAIN r.results, r.results[v] = h
      PROVE  Cardinality(a) = 2 /\ v # w /\ a = {v, w}
      <2>1. a = {v, w} /\ v # w  BY <1>1, <1>5 DEF Agreeing
      <2>2. Cardinality({w} \cup {v}) = Cardinality({w}) + 1 /\ Cardinality({w}) = 1
            BY <2>1, FS_Singleton, FS_AddElement
      <2>3. {w} \cup {v} = {v, w}  OBVIOUS
      <2> QED  BY <2>1, <2>2, <2>3
<1> QED  BY <1>2, <1>3, <1>4, <1>5

(* A result that settles nothing. *)
LEMMA RecordOK ==
    ASSUME NEW r, TaskOK(r), NEW w \in People, MaySubmit(r, w), InTime(r), NEW h \in Hashes,
           Cardinality(Agreeing(r, w, h)) = 1,
           NEW st, st = IF r.kind = "legacy" THEN r.status
                        ELSE IF DOMAIN r.results # {} THEN "arbitrating" ELSE "submitted"
    PROVE  TaskOK([[r EXCEPT !.results = Put(@, w, h)] EXCEPT !.status = st])
<1> DEFINE g == Put(r.results, w, h)
           s == [[r EXCEPT !.results = Put(@, w, h)] EXCEPT !.status = st]
<1>1. r \in Records /\ r.results \in Maps(Hashes)  BY DEF TaskOK, Records
<1>2. /\ r.status \in Live /\ r.refunds = 0 /\ w \in r.accepted /\ w \notin DOMAIN r.results
      /\ r.kind = "legacy" => r.status = "open"
      /\ r.kind # "legacy" => r.status \in {"assigned", "submitted", "arbitrating"}
      BY InTimeIs
<1>3. st \in Live /\ (r.kind # "legacy" => st \notin {"open", "bidding"})  BY <1>2 DEF Live
<1>4. /\ g \in Maps(Hashes) /\ DOMAIN g = DOMAIN r.results \cup {w} /\ g[w] = h
      /\ \A q \in DOMAIN r.results : q # w => g[q] = r.results[q]
      <2>1. g \in Maps(Hashes)  BY <1>1, PutMap
      <2> QED  BY <2>1 DEF Put
<1>5. \A v \in DOMAIN r.results : r.results[v] # h
      BY <1>2, AgreeingIs
<1> HIDE DEF g
<1>6. s \in Records
      <2>1. st \in Statuses  BY <1>3 DEF Statuses
      <2>2. s = [r EXCEPT !.results = g, !.status = st]  BY <1>1 DEF g, Records
      <2> HIDE DEF s
      <2> QED  BY ZenonT(30), <1>1, <1>4, <2>1, <2>2 DEF Records
<1>7. /\ s.kind = r.kind /\ s.creator = r.creator /\ s.accepted = r.accepted /\ s.assigned = r.assigned
      /\ s.bids = r.bids /\ s.results = g /\ s.shares = r.shares /\ s.votes = r.votes
      /\ s.verdict = r.verdict /\ s.status = st /\ s.left = r.left /\ s.refunds = 0
      BY <1>1, <1>2 DEF Records, g
<1> HIDE DEF s
<1>8. PartiesOK(s)  BY <1>2, <1>3, <1>4, <1>7 DEF TaskOK, PartiesOK, Live
<1>9. UnsettledOK(s)
      <2>1. /\ Paid(r) = {} /\ DOMAIN r.votes = {}
            /\ \A v, x \in DOMAIN r.results : r.results[v] = r.results[x] => v = x
            BY <1>2 DEF TaskOK, UnsettledOK
      <2>2. \A v, x \in DOMAIN g : g[v] = g[x] => v = x  BY <1>2, <1>4, <1>5, <2>1
      <2> QED  BY <1>7, <2>1, <2>2 DEF UnsettledOK, Paid
<1>10. RefundOK(s)  BY <1>7 DEF RefundOK
<1>11. ConfirmedOK(s)  BY <1>2, <1>7 DEF TaskOK, UnsettledOK, ConfirmedOK, Paid
<1> QED  BY <1>6, <1>8, <1>9, <1>10, <1>11 DEF TaskOK, s

(* A result that agrees with an earlier one settles the task. *)
LEMMA AgreementOK ==
    ASSUME NEW r, TaskOK(r), NEW w \in People, MaySubmit(r, w), InTime(r), NEW h \in Hashes,
           NEW a, a = Agreeing(r, w, h), Cardinality(a) # 1,
           NEW done, done = [r EXCEPT !.results = Put(@, w, h)]
    PROVE  /\ TaskOK([done EXCEPT !.status = "completed", !.shares = Half(r, a)])
           /\ TaskOK(Settled(done, a))
           /\ done.bounty = r.bounty /\ done.refunds = 0
<1> DEFINE g == Put(r.results, w, h)
<1>1. r \in Records /\ r.results \in Maps(Hashes) /\ r.bounty \in Nat /\ r.shares \in Maps(Int)
      BY DEF TaskOK, Records
<1>2. r.status \in Live /\ r.refunds = 0 /\ w \in r.accepted /\ w \notin DOMAIN r.results
      BY InTimeIs
<1>3. /\ g \in Maps(Hashes) /\ DOMAIN g = DOMAIN r.results \cup {w} /\ g[w] = h
      /\ \A q \in DOMAIN r.results : q # w => g[q] = r.results[q]
      <2>1. g \in Maps(Hashes)  BY <1>1, PutMap
      <2> QED  BY <2>1 DEF Put
<1>4. a \subseteq People /\ w \in a /\ Cardinality(a) = 2
      /\ \E v \in DOMAIN r.results : v # w /\ a = {v, w} /\ r.results[v] = h
      BY <1>2, AgreeingIs
<1>5. a \subseteq DOMAIN g /\ \A v \in a : g[v] = h  BY <1>3, <1>4
<1>6. DOMAIN g \subseteq r.accepted  BY <1>2, <1>3 DEF TaskOK, PartiesOK
<1> HIDE DEF g
<1>7. done \in Records /\ done = [r EXCEPT !.results = g]  BY <1>1, <1>3 DEF Records, g
<1>8. /\ done.bounty = r.bounty /\ done.refunds = r.refunds /\ done.kind = r.kind /\ done.creator = r.creator
      /\ done.accepted = r.accepted /\ done.assigned = r.assigned /\ done.bids = r.bids
      /\ done.votes = r.votes /\ done.results = g
      BY <1>1, <1>7 DEF Records
<1>9. ASSUME NEW f \in [a -> Int], NEW x \in 0..Window,
             NEW s, s = [done EXCEPT !.status = "completed", !.shares = f, !.window = x]
      PROVE  TaskOK(s)
      <2>1. f \in Maps(Int)  BY <1>4, InMaps
      <2>2. s \in Records  BY <1>7, <1>9, <2>1 DEF Records, Statuses
      <2>3. /\ s.kind = r.kind /\ s.creator = r.creator /\ s.accepted = r.accepted /\ s.assigned = r.assigned
            /\ s.bids = r.bids /\ s.votes = r.votes /\ s.refunds = r.refunds /\ s.status = "completed"
            /\ s.results = g /\ s.shares = f
            BY <1>7, <1>8, <1>9 DEF Records
      <2>4. Cardinality(a) >= 2  BY <1>4
      <2>5. DOMAIN s.shares = a  BY <2>3
      <2> QED  BY <1>2, <1>5, <1>6, <2>2, <2>3, <2>4, <2>5, SettleOK
<1>10. Shares(done, a) \in [a -> Int] /\ Half(r, a) \in [a -> Int]
      BY <1>1, <1>4, <1>8, SharesAre
<1>11. TaskOK([done EXCEPT !.status = "completed", !.shares = Half(r, a)])
      <2> DEFINE s == [done EXCEPT !.status = "completed", !.shares = Half(r, a)]
      <2>1. s = [done EXCEPT !.status = "completed", !.shares = Half(r, a), !.window = done.window]
            BY <1>7 DEF Records
      <2>2. done.window \in 0..Window  BY <1>7 DEF Records
      <2> HIDE DEF s
      <2> QED  BY <1>9, <1>10, <2>1, <2>2 DEF s
<1>12. TaskOK(Settled(done, a))
      <2>1. Settled(done, a) = [done EXCEPT !.status = "completed", !.shares = Shares(done, a), !.window = Window]
            BY DEF Settled
      <2>2. Window \in 0..Window  BY ComputeAssumption
      <2> QED  BY <1>9, <1>10, <2>1, <2>2
<1> QED  BY <1>2, <1>8, <1>11, <1>12


(* An arbiter's verdict: who gave its hash is paid, or nobody did. *)
LEMMA VerdictOK ==
    ASSUME NEW r, TaskOK(r), r.status = "arbitrating", NEW a \in People, NEW h \in Hashes,
           NEW c, c = {w \in DOMAIN r.results : r.results[w] = h},
           NEW judged, judged = [r EXCEPT !.arbiter = a, !.verdict = h]
    PROVE  /\ judged.bounty = r.bounty /\ judged.refunds = 0 /\ r.refunds = 0 /\ Paid(r) = {}
           /\ TaskOK(Refunded(judged, "failed"))
           /\ c # {} => TaskOK(Settled(judged, c)) /\ \E w \in People : c = {w}
<1>1. r \in Records /\ r.refunds \in Nat /\ r.bounty \in Nat /\ r.results \in Maps(Hashes)
      BY DEF TaskOK, Records
<1>2. r.status \in Live /\ r.refunds = 0  BY <1>1 DEF TaskOK, RefundOK, Live
<1>3. judged \in Records  BY <1>1 DEF Records
<1>4. /\ judged.bounty = r.bounty /\ judged.refunds = r.refunds /\ judged.kind = r.kind
      /\ judged.creator = r.creator /\ judged.accepted = r.accepted /\ judged.assigned = r.assigned
      /\ judged.bids = r.bids /\ judged.votes = r.votes /\ judged.results = r.results
      /\ judged.verdict = h /\ judged.shares = r.shares /\ judged.status = r.status
      BY <1>1 DEF Records
<1>5. TaskOK(Refunded(judged, "failed"))
      <2> DEFINE s == [judged EXCEPT !.status = "failed", !.refunds = @ + 1]
      <2>1. Refunded(judged, "failed") = s  BY DEF Refunded
      <2>2. judged.refunds + 1 \in Nat  BY <1>1, <1>4
      <2>3. s \in Records
            <3> DEFINE n == judged.refunds + 1
            <3>1. n \in Nat /\ "failed" \in Statuses  BY <2>2 DEF Statuses
            <3> HIDE DEF n
            <3>2. [judged EXCEPT !.status = "failed", !.refunds = n] \in Records  BY ZenonT(30), <1>3, <3>1 DEF Records
            <3> QED  BY <3>2 DEF n
      <2>4. /\ s.kind = r.kind /\ s.creator = r.creator /\ s.accepted = r.accepted /\ s.assigned = r.assigned
            /\ s.bids = r.bids /\ s.votes = r.votes /\ s.results = r.results /\ s.shares = r.shares
            /\ s.status = "failed"
            BY <1>3, <1>4 DEF Records
      <2> HIDE DEF s
      <2>5. PartiesOK(s)  BY <1>2, <2>4 DEF TaskOK, PartiesOK, Live
      <2>6. UnsettledOK(s)  BY <2>4 DEF TaskOK, UnsettledOK, Paid, Live
      <2>7. RefundOK(s)  BY <1>2, <2>4 DEF TaskOK, UnsettledOK, RefundOK, Paid, Live
      <2>8. ConfirmedOK(s)  BY <1>2, <2>4 DEF TaskOK, UnsettledOK, ConfirmedOK, Paid
      <2> QED  BY <2>1, <2>3, <2>5, <2>6, <2>7, <2>8 DEF TaskOK
<1>6. ASSUME c # {} PROVE TaskOK(Settled(judged, c)) /\ \E w \in People : c = {w}
      <2>1. c \subseteq People /\ c \subseteq DOMAIN r.results  BY DEF TaskOK, PartiesOK
      <2>2. Shares(judged, c) \in [c -> Int]  BY <1>1, <1>4, <1>6, <2>1, SharesAre
      <2> DEFINE f == Shares(judged, c)
                 s == [judged EXCEPT !.status = "completed", !.shares = f, !.window = Window]
      <2>3. Settled(judged, c) = s  BY DEF Settled
      <2> HIDE DEF f
      <2>4. f \in Maps(Int) /\ DOMAIN f = c  BY <2>1, <2>2, InMaps DEF f
      <2>5. Window \in 0..Window  BY ComputeAssumption
      <2>6. s \in Records
            <3> DEFINE x == [judged EXCEPT !.status = "completed"]
                       y == [x EXCEPT !.shares = f]
            <3>1. x \in Records
                  <4>1. "completed" \in Statuses  BY DEF Statuses
                  <4> QED  BY ZenonT(30), <1>3, <4>1 DEF Records
            <3>2. s = [y EXCEPT !.window = Window]  BY <1>3 DEF Records
            <3> HIDE DEF x, s
            <3>3. y \in Records  BY ZenonT(30), <2>4, <3>1 DEF Records
            <3> HIDE DEF y
            <3>4. [y EXCEPT !.window = Window] \in Records  BY ZenonT(30), <2>5, <3>3 DEF Records
            <3> QED  BY <3>2, <3>4
      <2>7. /\ s.kind = r.kind /\ s.creator = r.creator /\ s.accepted = r.accepted /\ s.assigned = r.assigned
            /\ s.bids = r.bids /\ s.votes = r.votes /\ s.refunds = r.refunds /\ s.status = "completed"
            /\ s.results = r.results /\ s.shares = f /\ s.verdict = h
            BY <1>3, <1>4 DEF Records
      <2> HIDE DEF s
      <2>8. DOMAIN s.results \subseteq r.accepted  BY <2>7 DEF TaskOK, PartiesOK
      <2>9. \A w \in c : s.results[w] = h  BY <2>7
      <2>10. TaskOK(s)  BY <1>2, <2>1, <2>4, <2>6, <2>7, <2>8, <2>9, SettleOK
      <2>11. \A v, w \in c : v = w  BY <1>2 DEF TaskOK, UnsettledOK
      <2>12. \E w \in People : c = {w}
            <3> PICK w \in c : TRUE  BY <1>6
            <3> QED  BY <2>1, <2>11
      <2> QED  BY <2>3, <2>10, <2>12
<1> QED  BY <1>2, <1>4, <1>5, <1>6 DEF TaskOK, UnsettledOK

(* A dispute opens the vote of a task that was paid. *)
LEMMA DisputeOK ==
    ASSUME NEW r, TaskOK(r), r.status = "completed", NEW f \in [Paid(r) -> Int],
           NEW s, s = [r EXCEPT !.status = "disputed", !.clawed = f, !.votes = [v \in {} |-> ""]]
    PROVE  TaskOK(s)
<1>1. r \in Records  BY DEF TaskOK
<1>2. Paid(r) \subseteq People  BY DEF TaskOK, UnsettledOK, PartiesOK
<1>3. f \in Maps(Int) /\ [v \in {} |-> ""] \in Maps({"uphold", "dismiss"})  BY <1>2, InMaps
<1>4. s \in Records  BY <1>1, <1>3 DEF Records, Statuses
<1>5. /\ s.kind = r.kind /\ s.creator = r.creator /\ s.accepted = r.accepted /\ s.assigned = r.assigned
      /\ s.bids = r.bids /\ DOMAIN s.votes = {} /\ s.results = r.results /\ s.shares = r.shares
      /\ s.verdict = r.verdict /\ s.status = "disputed" /\ s.refunds = r.refunds
      BY <1>1 DEF Records
<1>6. PartiesOK(s)  BY <1>5 DEF TaskOK, PartiesOK
<1>7. UnsettledOK(s)  BY <1>5 DEF TaskOK, UnsettledOK, Paid, Live
<1>8. RefundOK(s)  BY <1>5 DEF TaskOK, RefundOK, Paid, Live
<1>9. ConfirmedOK(s)  BY <1>5 DEF TaskOK, ConfirmedOK, Paid
<1> QED  BY <1>4, <1>6, <1>7, <1>8, <1>9 DEF TaskOK

(* A vote comes from somebody the task did not pay. *)
LEMMA VoteOK ==
    ASSUME NEW r, TaskOK(r), r.status = "disputed", NEW v \in People, MayVote(r, v),
           NEW choice \in {"uphold", "dismiss"}
    PROVE  TaskOK([r EXCEPT !.votes = Put(@, v, choice)])
<1> DEFINE g == Put(r.votes, v, choice)
           s == [r EXCEPT !.votes = g]
<1>1. r \in Records /\ r.votes \in Maps({"uphold", "dismiss"})  BY DEF TaskOK, Records
<1>2. g \in Maps({"uphold", "dismiss"})  BY <1>1, PutMap
<1>3. DOMAIN g = DOMAIN r.votes \cup {v}  BY DEF Put
<1> HIDE DEF g
<1>4. s \in Records  BY <1>1, <1>2 DEF Records
<1>5. /\ s.kind = r.kind /\ s.creator = r.creator /\ s.accepted = r.accepted /\ s.assigned = r.assigned
      /\ s.bids = r.bids /\ s.votes = g /\ s.results = r.results /\ s.shares = r.shares
      /\ s.verdict = r.verdict /\ s.status = r.status /\ s.refunds = r.refunds
      BY <1>1 DEF Records
<1> HIDE DEF s
<1>6. PartiesOK(s)  BY <1>5 DEF TaskOK, PartiesOK
<1>7. UnsettledOK(s)  BY <1>3, <1>5 DEF TaskOK, UnsettledOK, MayVote, Paid, Live
<1>8. RefundOK(s)  BY <1>5 DEF TaskOK, RefundOK, Paid, Live
<1>9. ConfirmedOK(s)  BY <1>5 DEF TaskOK, ConfirmedOK, Paid
<1> QED  BY <1>4, <1>6, <1>7, <1>8, <1>9 DEF TaskOK, s, g

(* The end of a vote closes the dispute either way. *)
LEMMA ResolvedOK == ASSUME NEW r, TaskOK(r) PROVE TaskOK(Resolved(r))
<1>1. CASE ~Decided(r)  BY <1>1, ExpireOK DEF Resolved
<1>2. CASE Decided(r)
      <2> DEFINE st == IF Upheld(r) THEN "failed" ELSE "completed"
                 s == [r EXCEPT !.status = st, !.clawed = [w \in {} |-> 0]]
      <2>1. Resolved(r) = s /\ r.status = "disputed"  BY <1>2 DEF Resolved, Decided
      <2>2. st \in {"failed", "completed"}  OBVIOUS
      <2> HIDE DEF st
      <2>3. r \in Records /\ [w \in {} |-> 0] \in Maps(Int)  BY InMaps DEF TaskOK
      <2>4. s \in Records  BY <2>2, <2>3 DEF Records, Statuses
      <2>5. /\ s.kind = r.kind /\ s.creator = r.creator /\ s.accepted = r.accepted /\ s.assigned = r.assigned
            /\ s.bids = r.bids /\ s.votes = r.votes /\ s.results = r.results /\ s.shares = r.shares
            /\ s.verdict = r.verdict /\ s.status = st /\ s.refunds = r.refunds
            BY <2>3 DEF Records
      <2> HIDE DEF s
      <2>6. PartiesOK(s)  BY <2>1, <2>2, <2>5 DEF TaskOK, PartiesOK
      <2>7. UnsettledOK(s)  BY <2>2, <2>5 DEF TaskOK, UnsettledOK, Paid, Live
      <2>8. RefundOK(s)  BY <2>2, <2>5 DEF TaskOK, RefundOK, Paid, Live
      <2>9. ConfirmedOK(s)  BY <2>5 DEF TaskOK, ConfirmedOK, Paid
      <2> QED  BY <2>1, <2>4, <2>6, <2>7, <2>8, <2>9 DEF TaskOK
<1> QED  BY <1>1, <1>2

-----------------------------------------------------------------------------
(* Balances. *)

(* A credited account. *)
LEMMA CreditIs ==
    ASSUME NEW b \in [Accounts -> Int], NEW a, NEW amt \in Int
    PROVE  Credit(b, a, amt) \in [Accounts -> Int]
<1>1. CASE a \in Accounts
      <2>1. b[a] + amt \in Int  BY <1>1
      <2> QED  BY <2>1 DEF Credit
<1>2. CASE a \notin Accounts
      <2>1. Credit(b, a, amt) = b  BY <1>2 DEF Credit
      <2> QED  BY <2>1
<1> QED  BY <1>1, <1>2

(* A map of amounts credited at once. *)
LEMMA CreditAllIs ==
    ASSUME NEW b \in [Accounts -> Int], NEW f, f \in [DOMAIN f -> Int]
    PROVE  CreditAll(b, f) \in [Accounts -> Int]
BY DEF CreditAll

(* The total of a map over some of the people. *)
LEMMA MapTotal ==
    ASSUME NEW S, S \subseteq People, NEW f, DOMAIN f = S
    PROVE  /\ (\A x \in S : f[x] \in Int) => Total(f) \in Int
           /\ (\A x \in S : f[x] \in Nat) => Total(f) \in Nat
           /\ IsFiniteSet(S)
<1>1. IsFiniteSet(S)  BY ComputeAssumption, FS_Subset
<1> QED  BY <1>1, SumIsInt, SumIsNat, TotalIs DEF Total

(* What slashed workers lose comes out of their stakes. *)
LEMMA ForfeitIs ==
    ASSUME stake \in [People -> Nat], NEW ws, ws \subseteq People
    PROVE  Forfeit(ws) \in Nat /\ Slashed(ws) \in [People -> Nat]
<1>1. IsFiniteSet(ws) /\ \A x \in ws : stake[x] \in Nat  BY ComputeAssumption, FS_Subset
<1>2. Forfeit(ws) \in Nat  BY <1>1, SumIsNat DEF Forfeit
<1> QED  BY <1>2 DEF Slashed

(* What a dismissed dispute gives back. *)
LEMMA UnfrozenIs ==
    ASSUME NEW r, TaskOK(r)
    PROVE  Unfrozen(r) \in [DOMAIN Unfrozen(r) -> Int] /\ Total(r.clawed) \in Int
<1>1. r.clawed \in Maps(Int)  BY DEF TaskOK, Records
<1>2. DOMAIN r.clawed \subseteq People /\ r.clawed \in [DOMAIN r.clawed -> Int]  BY <1>1, InMaps
<1>3. Total(r.clawed) \in Int  BY <1>2, MapTotal
<1> QED  BY <1>2, <1>3 DEF Unfrozen

(* What the sweep of resolved disputes pays one account. *)
LEMMA PaidBackIs == ASSUME MarketInv, NEW a PROVE PaidBack(a) \in Int
<1> DEFINE due(t) == LET r == task[t] IN
                (IF Overdue(r) /\ r.creator = a THEN r.bounty ELSE 0)
              + (IF Decided(r) /\ a \in DOMAIN Unfrozen(r) THEN Unfrozen(r)[a] ELSE 0)
           d == [t \in TaskIds |-> due(t)]
<1>1. PaidBack(a) = Total(d)  BY DEF PaidBack
<1>2. ASSUME NEW t \in TaskIds PROVE d[t] \in Int
      <2>1. TaskOK(task[t])  BY DEF MarketInv, TasksOK
      <2>2. task[t].bounty \in Nat  BY <2>1 DEF TaskOK, Records
      <2>3. a \in DOMAIN Unfrozen(task[t]) => Unfrozen(task[t])[a] \in Int  BY <2>1, UnfrozenIs
      <2> QED  BY <2>2, <2>3
<1>3. DOMAIN d = TaskIds  OBVIOUS
<1> HIDE DEF d
<1> QED  BY <1>1, <1>2, <1>3, ComputeAssumption, SumIsInt, TotalIs DEF Total

(* Everybody's part of the block incentive. *)
LEMMA IncentiveIs ==
    ASSUME NEW s \in [People -> Nat], NEW pool \in Int
    PROVE  Incentive(s, pool) \in [People -> Int] /\ Total(Incentive(s, pool)) \in Int
<1>1. Total(s) \in Nat  BY MapTotal
<1>2. ASSUME NEW p \in People
      PROVE  (IF Total(s) = 0 THEN 0 ELSE (((pool * 6) \div 10) * s[p]) \div Total(s)) \in Int
      <2>1. (pool * 6) \div 10 \in Int /\ s[p] \in Int  OBVIOUS
      <2>2. ((pool * 6) \div 10) * s[p] \in Int  BY <2>1
      <2> DEFINE x == ((pool * 6) \div 10) * s[p]
      <2> HIDE DEF x
      <2>3. x \in Int  BY <2>2 DEF x
      <2>4. Total(s) # 0 => x \div Total(s) \in Int  BY <1>1, <2>3
      <2> QED  BY <2>4 DEF x
<1>3. Incentive(s, pool) \in [People -> Int]  BY <1>2 DEF Incentive
<1> QED  BY <1>3, MapTotal

-----------------------------------------------------------------------------
(* The invariant. *)

(* Changing one task keeps the others in order. *)
LEMMA TaskSet ==
    ASSUME NEW f, TasksOK(f), NEW t \in TaskIds, NEW r, TaskOK(r)
    PROVE  TasksOK([f EXCEPT ![t] = r])
BY DEF TasksOK

(* A change of every task that keeps each in order. *)
LEMMA TaskMap ==
    ASSUME NEW f, f = [t \in TaskIds |-> f[t]], \A t \in TaskIds : TaskOK(f[t])
    PROVE  TasksOK(f)
BY DEF TasksOK

\* how an action that touches one task and the balances keeps the invariant
LEMMA OneTaskStep ==
    ASSUME MarketInv, NEW t \in TaskIds, NEW r, TaskOK(r), task' = [task EXCEPT ![t] = r],
           balance' \in [Accounts -> Int], stake' \in [People -> Nat], rep' \in [People -> Int],
           UNCHANGED <<unbonding, known>>
    PROVE  MarketInv'
<1>1. TasksOK(task')  BY TaskSet DEF MarketInv
<1> QED  BY <1>1 DEF MarketInv

(* There are no tasks at the start. *)
LEMMA InitMarket == ASSUME Init PROVE MarketInv
<1>1. /\ NoTask.results \in Maps(Hashes) /\ NoTask.shares \in Maps(Int) /\ NoTask.clawed \in Maps(Int)
      /\ NoTask.votes \in Maps({"uphold", "dismiss"})
      BY InMaps DEF NoTask
<1>2. NoTask \in Records
      <2>1. 0 \in 0..Expires /\ 0 \in 0..Window  BY ComputeAssumption
      <2> QED  BY <1>1, <2>1 DEF NoTask, Records, Statuses, AllKinds
<1>3. TaskOK(NoTask)
      <2>1. /\ NoTask.accepted = {} /\ NoTask.bids = {} /\ NoTask.assigned = {} /\ DOMAIN NoTask.results = {}
            /\ DOMAIN NoTask.shares = {} /\ DOMAIN NoTask.votes = {} /\ NoTask.refunds = 0
            /\ NoTask.status = "none"
            BY DEF NoTask
      <2>2. PartiesOK(NoTask)  BY <2>1 DEF PartiesOK
      <2>3. UnsettledOK(NoTask)  BY <2>1 DEF UnsettledOK, Paid
      <2>4. RefundOK(NoTask)  BY <2>1 DEF RefundOK
      <2>5. ConfirmedOK(NoTask)  BY <2>1 DEF ConfirmedOK, Paid
      <2> QED  BY <1>2, <2>2, <2>3, <2>4, <2>5 DEF TaskOK
<1>4. TasksOK(task)  BY <1>3 DEF Init, TasksOK
<1>5. balance \in [Accounts -> Int]
      <2>1. \A a \in Accounts : (IF a = Pool THEN 0 ELSE IF a = Fund THEN FundGenesis ELSE Wealth[a]) \in Int
            BY ComputeAssumption DEF Accounts
      <2> QED  BY <2>1 DEF Init
<1>6. stake \in [People -> Nat] /\ rep \in [People -> Int] /\ known \in [People -> {"new", "seen", "registered"}]
      BY ComputeAssumption DEF Init
<1>7. unbonding \in [People -> [amount : Nat, left : 0..Unbond]]
      <2>1. 0 \in 0..Unbond  BY ComputeAssumption
      <2> QED  BY <2>1 DEF Init
<1> QED  BY <1>4, <1>5, <1>6, <1>7 DEF MarketInv

(* Publishing keeps MarketInv. *)
LEMMA KeepPublish ==
    ASSUME MarketInv, NEW p \in Publishers, NEW t \in TaskIds, NEW kind \in Kinds, NEW b \in Bounties,
           Publish(p, t, kind, b)
    PROVE  MarketInv'
<1> DEFINE r == [NoTask EXCEPT !.kind = kind, !.creator = p, !.bounty = b, !.status = "open", !.left = Expires]
<1>1. TaskOK(r)  BY PublishOK
<1>2. task' = [task EXCEPT ![t] = r] /\ UNCHANGED <<unbonding, known, stake, rep>>  BY DEF Publish
<1> HIDE DEF r
<1>3. balance' \in [Accounts -> Int]
      <2>1. b \in Int /\ -b \in Int  BY ComputeAssumption
      <2> QED  BY <2>1, CreditIs DEF Publish, MarketInv
<1> QED  BY <1>1, <1>2, <1>3, OneTaskStep DEF MarketInv

(* The accounts after the expiry that other operations run first. *)
LEMMA AfterExpireIs ==
    ASSUME NEW r, TaskOK(r), NEW b \in [Accounts -> Int]
    PROVE  AfterExpire(r, b) \in [Accounts -> Int]
<1>1. r.bounty \in Int  BY DEF TaskOK, Records
<1> QED  BY <1>1, CreditIs DEF AfterExpire

(* So does accepting, which expires an overdue task first. *)
LEMMA KeepAccept ==
    ASSUME MarketInv, NEW p \in People, NEW t \in TaskIds, Accept(p, t)
    PROVE  MarketInv'
<1> DEFINE r == task[t]
           e == Expire(r)
           taken == [e EXCEPT !.accepted = @ \cup {p}]
           s == CASE e.kind = "legacy" -> taken
                  [] e.kind = "bid"    -> [taken EXCEPT !.status = "bidding"]
                  [] e.kind = "grab"   -> [taken EXCEPT !.assigned = e.assigned \cup {p},
                        !.status = IF Cardinality(e.assigned \cup {p}) >= MinNodes THEN "assigned" ELSE @]
<1>1. TaskOK(r) /\ r.status = "open" /\ p # r.creator  BY DEF Accept, MayAccept, MarketInv, TasksOK
<1>2. task' = [task EXCEPT ![t] = s]  BY DEF Accept
<1>3. TaskOK(e) /\ e \in Records /\ e.kind \in AllKinds  BY <1>1, ExpireOK DEF TaskOK, Records
<1>4. TaskOK(s)
      <2>1. CASE e.kind = "legacy"
            <3>1. s = [e EXCEPT !.accepted = @ \cup {p}]  BY <2>1
            <3> HIDE DEF s, e, r
            <3> QED  BY <1>1, <2>1, <3>1, AcceptOK DEF e
      <2>2. CASE e.kind = "bid"
            <3>1. s = [e EXCEPT !.accepted = @ \cup {p}, !.status = "bidding"]  BY <1>3, <2>2 DEF Records
            <3> HIDE DEF s, e, r
            <3> QED  BY <1>1, <2>2, <3>1, AcceptOK DEF e
      <2>3. CASE e.kind = "grab"
            <3> DEFINE st == IF Cardinality(e.assigned \cup {p}) >= MinNodes THEN "assigned" ELSE e.status
            <3>1. s = [e EXCEPT !.accepted = @ \cup {p}, !.assigned = e.assigned \cup {p}, !.status = st]
                  BY <1>3, <2>3 DEF Records
            <3>2. st \in {"assigned", e.status}  OBVIOUS
            <3> HIDE DEF s, e, r, st
            <3> QED  BY <1>1, <2>3, <3>1, <3>2, AcceptOK DEF e
      <2> QED  BY <1>3, <2>1, <2>2, <2>3 DEF AllKinds
<1>5. balance' \in [Accounts -> Int]  BY <1>1, AfterExpireIs DEF Accept, MarketInv
<1>6. UNCHANGED <<unbonding, known, stake, rep>>  BY DEF Accept
<1> HIDE DEF s
<1> QED  BY <1>2, <1>4, <1>5, <1>6, OneTaskStep DEF MarketInv

(* So does a bid. *)
LEMMA KeepBid ==
    ASSUME MarketInv, NEW p \in People, NEW t \in TaskIds, Bid(p, t)
    PROVE  MarketInv'
<1> DEFINE s == [task[t] EXCEPT !.bids = @ \cup {p}]
<1>1. TaskOK(task[t]) /\ p # task[t].creator  BY DEF Bid, MarketInv, TasksOK
<1>2. TaskOK(s)  BY <1>1, BidOK
<1>3. task' = [task EXCEPT ![t] = s] /\ UNCHANGED <<balance, unbonding, known, stake, rep>>
      BY DEF Bid, money
<1> HIDE DEF s
<1> QED  BY <1>2, <1>3, OneTaskStep DEF MarketInv

(* So does an award. *)
LEMMA KeepAward ==
    ASSUME MarketInv, NEW t \in TaskIds, NEW ws \in SUBSET People, Award(t, ws)
    PROVE  MarketInv'
<1> DEFINE s == [task[t] EXCEPT !.assigned = ws, !.accepted = ws, !.status = "assigned"]
<1>1. TaskOK(task[t])  BY DEF MarketInv, TasksOK
<1>2. TaskOK(s)  BY <1>1, AwardOK DEF Award
<1>3. task' = [task EXCEPT ![t] = s] /\ UNCHANGED <<balance, unbonding, known, stake, rep>>
      BY DEF Award, money
<1> HIDE DEF s
<1> QED  BY <1>2, <1>3, OneTaskStep DEF MarketInv

(* So does a result handed in late, which only refunds. *)
LEMMA KeepLate ==
    ASSUME MarketInv, NEW p \in People, NEW t \in TaskIds, SubmitLate(p, t)
    PROVE  MarketInv'
<1>1. TaskOK(task[t])  BY DEF MarketInv, TasksOK
<1>2. TaskOK(Expire(task[t]))  BY <1>1, ExpireOK
<1>3. task' = [task EXCEPT ![t] = Expire(task[t])] /\ UNCHANGED <<unbonding, known, stake, rep>>
      BY DEF SubmitLate
<1>4. balance' \in [Accounts -> Int]  BY <1>1, AfterExpireIs DEF SubmitLate, MarketInv
<1> QED  BY <1>2, <1>3, <1>4, OneTaskStep DEF MarketInv

(* The accounts after a settlement. *)
LEMMA AfterSettleIs ==
    ASSUME NEW r, r.bounty \in Nat, NEW ws, ws \subseteq People, ws # {}, NEW b \in [Accounts -> Int]
    PROVE  /\ AfterSettle(r, ws, b) \in [Accounts -> Int]
           /\ CreditAll(b, Half(r, ws)) \in [Accounts -> Int]
<1>1. Shares(r, ws) \in [ws -> Int] /\ Half(r, ws) \in [ws -> Int]  BY SharesAre
<1> DEFINE c == Credit(b, Pool, r.bounty \div 100)
<1>2. r.bounty \div 100 \in Int  OBVIOUS
<1>3. c \in [Accounts -> Int]  BY <1>2, CreditIs
<1>4. DOMAIN Shares(r, ws) = ws /\ DOMAIN Half(r, ws) = ws  BY <1>1
<1> HIDE DEF c
<1>5. CreditAll(c, Shares(r, ws)) \in [Accounts -> Int]  BY <1>1, <1>3, <1>4, CreditAllIs
<1>6. CreditAll(b, Half(r, ws)) \in [Accounts -> Int]  BY <1>1, <1>4, CreditAllIs
<1> QED  BY <1>5, <1>6 DEF AfterSettle, c

(* A result keeps it: it is one of its first in the task, or agrees with
   exactly one other and settles it. *)
LEMMA KeepSubmit ==
    ASSUME MarketInv, NEW w \in People, NEW t \in TaskIds, NEW h \in Hashes, Submit(w, t, h)
    PROVE  MarketInv'
<1> DEFINE r == task[t]
           done == [r EXCEPT !.results = Put(@, w, h)]
           a == Agreeing(r, w, h)
<1>1. TaskOK(r) /\ MaySubmit(r, w) /\ InTime(r) /\ r.bounty \in Nat
      BY DEF Submit, MarketInv, TasksOK, TaskOK, Records
<1>2. r.status \in Live /\ w \notin DOMAIN r.results  BY <1>1, InTimeIs
<1>3. a \subseteq People /\ w \in a  BY <1>1, <1>2, AgreeingIs
<1>4. UNCHANGED <<stake, unbonding, known>>  BY DEF Submit
<1>5. CASE Cardinality(a) = 1
      <2> DEFINE st == IF r.kind = "legacy" THEN r.status
                       ELSE IF DOMAIN r.results # {} THEN "arbitrating" ELSE "submitted"
                 s == [done EXCEPT !.status = st]
      <2>1. TaskOK(s)  BY <1>1, <1>5, RecordOK
      <2>2. r \in Records  BY <1>1 DEF TaskOK
      <2>3. task' = [task EXCEPT ![t] = s] /\ UNCHANGED <<balance, rep>>
            <3>1. done.status = r.status  BY <2>2 DEF Records
            <3> QED  BY <1>5, <3>1 DEF Submit
      <2> HIDE DEF s
      <2> QED  BY <1>4, <2>1, <2>3, OneTaskStep DEF MarketInv
<1>6. CASE Cardinality(a) # 1
      <2>1. /\ TaskOK([done EXCEPT !.status = "completed", !.shares = Half(r, a)])
            /\ TaskOK(Settled(done, a)) /\ done.bounty = r.bounty
            <3>1. a = Agreeing(r, w, h) /\ done = [r EXCEPT !.results = Put(@, w, h)]  OBVIOUS
            <3> HIDE DEF a, done, r
            <3>2. TaskOK([done EXCEPT !.status = "completed", !.shares = Half(r, a)])
                  BY <1>1, <1>6, <3>1, AgreementOK
            <3>3. TaskOK(Settled(done, a))  BY <1>1, <1>6, <3>1, AgreementOK
            <3>4. done.bounty = r.bounty  BY <1>1, <3>1 DEF TaskOK, Records
            <3> QED  BY <3>2, <3>3, <3>4
      <2>2. CASE r.kind = "legacy"
            <3>1. /\ task' = [task EXCEPT ![t] = [done EXCEPT !.status = "completed", !.shares = Half(r, a)]]
                  /\ balance' = CreditAll(balance, Half(r, a)) /\ UNCHANGED rep
                  BY <1>6, <2>2 DEF Submit
            <3> HIDE DEF a, done
            <3>2. balance' \in [Accounts -> Int]  BY <1>1, <1>3, <3>1, AfterSettleIs DEF MarketInv
            <3> QED  BY <1>4, <2>1, <3>1, <3>2, OneTaskStep DEF MarketInv
      <2>3. CASE r.kind # "legacy"
            <3>1. /\ task' = [task EXCEPT ![t] = Settled(done, a)]
                  /\ balance' = AfterSettle(done, a, balance)
                  /\ rep' = [p \in People |-> rep[p] + (IF p \in a THEN 3 ELSE 0)]
                  BY <1>6, <2>3 DEF Submit
            <3> HIDE DEF a, done
            <3>2. balance' \in [Accounts -> Int]  BY <1>1, <1>3, <2>1, <3>1, AfterSettleIs DEF MarketInv
            <3>3. rep' \in [People -> Int]  BY <3>1 DEF MarketInv
            <3> QED  BY <1>4, <2>1, <3>1, <3>2, <3>3, OneTaskStep DEF MarketInv
      <2> QED  BY <2>2, <2>3
<1> QED  BY <1>5, <1>6

(* An arbiter's verdict keeps it: the task is settled once, by the one who
   was called. *)
LEMMA KeepArbitrate ==
    ASSUME MarketInv, NEW a \in People, NEW t \in TaskIds, NEW h \in Hashes, Arbitrate(a, t, h)
    PROVE  MarketInv'
<1> DEFINE r == task[t]
           c == {w \in DOMAIN r.results : r.results[w] = h}
           wrong == DOMAIN r.results \ c
           judged == [r EXCEPT !.arbiter = a, !.verdict = h]
<1>1. TaskOK(r) /\ r.status = "arbitrating" /\ r.bounty \in Nat
      BY DEF Arbitrate, MarketInv, TasksOK, TaskOK, Records
<1>2. c \subseteq People /\ wrong \subseteq People  BY <1>1 DEF TaskOK, PartiesOK
<1>3. /\ judged.bounty = r.bounty /\ TaskOK(Refunded(judged, "failed"))
      /\ c # {} => TaskOK(Settled(judged, c))
      <2>1. c = {w \in DOMAIN r.results : r.results[w] = h} /\ judged = [r EXCEPT !.arbiter = a, !.verdict = h]
            OBVIOUS
      <2> HIDE DEF c, judged, r
      <2>2. judged.bounty = r.bounty  BY <1>1, <2>1 DEF TaskOK, Records
      <2>3. TaskOK(Refunded(judged, "failed"))  BY <1>1, <2>1, VerdictOK
      <2>4. c # {} => TaskOK(Settled(judged, c))  BY <1>1, <2>1, VerdictOK
      <2> QED  BY <2>2, <2>3, <2>4
<1>4. UNCHANGED <<unbonding, known>>  BY DEF Arbitrate
<1>5. CASE c = {}
      <2>1. /\ task' = [task EXCEPT ![t] = Refunded(judged, "failed")]
            /\ stake' = Slashed(wrong)
            /\ balance' = Credit(Credit(balance, Fund, Forfeit(wrong)), r.creator, r.bounty)
            /\ rep' = [p \in People |-> rep[p] - (IF p \in wrong THEN 110 ELSE 0)]
            BY <1>5 DEF Arbitrate
      <2> HIDE DEF c, wrong, judged
      <2>2. Forfeit(wrong) \in Nat /\ Slashed(wrong) \in [People -> Nat]  BY <1>2, ForfeitIs DEF MarketInv
      <2>3. Credit(balance, Fund, Forfeit(wrong)) \in [Accounts -> Int]  BY <2>2, CreditIs DEF MarketInv
      <2>4. balance' \in [Accounts -> Int]  BY <1>1, <2>1, <2>3, CreditIs
      <2>5. rep' \in [People -> Int]  BY <2>1 DEF MarketInv
      <2> QED  BY <1>3, <1>4, <2>1, <2>2, <2>4, <2>5, OneTaskStep
<1>6. CASE c # {}
      <2>1. /\ task' = [task EXCEPT ![t] = Settled(judged, c)]
            /\ balance' = AfterSettle(judged, c, balance) /\ UNCHANGED stake
            /\ rep' = [p \in People |-> rep[p] + (IF p \in c THEN 8 ELSE IF p \in wrong THEN -20 ELSE 0)]
            BY <1>6 DEF Arbitrate
      <2> HIDE DEF c, wrong, judged
      <2>2. balance' \in [Accounts -> Int]  BY <1>1, <1>2, <1>3, <1>6, <2>1, AfterSettleIs DEF MarketInv
      <2>3. rep' \in [People -> Int]  BY <2>1 DEF MarketInv
      <2> QED  BY <1>3, <1>4, <1>6, <2>1, <2>2, <2>3, OneTaskStep DEF MarketInv
<1> QED  BY <1>5, <1>6

(* A dispute keeps it: what it can of the workers' pay is frozen. *)
LEMMA KeepDispute ==
    ASSUME MarketInv, NEW t \in TaskIds, Dispute(t)
    PROVE  MarketInv'
<1> DEFINE r == task[t]
           claw == [w \in Paid(r) |-> IF balance[w] < r.shares[w] THEN balance[w] ELSE r.shares[w]]
           s == [r EXCEPT !.status = "disputed", !.clawed = claw, !.votes = [v \in {} |-> ""]]
<1>1. TaskOK(r) /\ r.status = "completed"  BY DEF Dispute, MarketInv, TasksOK
<1>2. Paid(r) \subseteq People  BY <1>1 DEF TaskOK, UnsettledOK, PartiesOK
<1>3. claw \in [Paid(r) -> Int]
      <2>1. r.shares \in Maps(Int)  BY <1>1 DEF TaskOK, Records
      <2>2. \A w \in Paid(r) : r.shares[w] \in Int  BY <2>1, InMaps DEF Paid
      <2>3. \A w \in Paid(r) : balance[w] \in Int  BY <1>2 DEF MarketInv, Accounts
      <2> QED  BY <2>2, <2>3
<1>4. TaskOK(s)
      <2> HIDE DEF claw, r
      <2> QED  BY <1>1, <1>3, DisputeOK
<1>5. task' = [task EXCEPT ![t] = s] /\ UNCHANGED <<stake, unbonding, rep, known>>  BY DEF Dispute
<1>6. balance' \in [Accounts -> Int]
      <2> DEFINE f == [w \in Paid(r) |-> -claw[w]]
      <2>1. balance' = CreditAll(balance, f)  BY DEF Dispute
      <2> HIDE DEF claw
      <2>2. f \in [DOMAIN f -> Int]  BY <1>3
      <2> HIDE DEF f
      <2> QED  BY <2>1, <2>2, CreditAllIs DEF MarketInv
<1> HIDE DEF s
<1> QED  BY <1>4, <1>5, <1>6, OneTaskStep DEF MarketInv

(* A vote keeps it. *)
LEMMA KeepVote ==
    ASSUME MarketInv, NEW v \in People, NEW t \in TaskIds, NEW choice \in {"uphold", "dismiss"},
           Vote(v, t, choice)
    PROVE  MarketInv'
<1> DEFINE s == [task[t] EXCEPT !.votes = Put(@, v, choice)]
<1>1. TaskOK(task[t])  BY DEF MarketInv, TasksOK
<1>2. TaskOK(s)  BY <1>1, VoteOK DEF Vote
<1>3. task' = [task EXCEPT ![t] = s] /\ UNCHANGED <<balance, unbonding, known, stake, rep>>
      BY DEF Vote, money
<1> HIDE DEF s
<1> QED  BY <1>2, <1>3, OneTaskStep DEF MarketInv

(* An audit that agrees keeps it. *)
LEMMA KeepAuditPass ==
    ASSUME MarketInv, NEW t \in TaskIds, task[t].auditor \in People, AuditPass(t)
    PROVE  MarketInv'
<1> DEFINE s == [task[t] EXCEPT !.audit = "passed"]
           paid == IF balance[Fund] >= AuditReward THEN AuditReward ELSE 0
<1>1. TaskOK(s)  BY AuditOK DEF MarketInv, TasksOK
<1>2. task' = [task EXCEPT ![t] = s] /\ UNCHANGED <<unbonding, known, stake>>
      BY DEF AuditPass
<1>3. balance' = Credit(Credit(balance, Fund, -paid), task[t].auditor, paid)  BY DEF AuditPass
<1>4. paid \in Int /\ -paid \in Int  BY ComputeAssumption
<1> HIDE DEF s, paid
<1>5. Credit(balance, Fund, -paid) \in [Accounts -> Int]  BY <1>4, CreditIs DEF MarketInv
<1>6. balance' \in [Accounts -> Int]  BY <1>3, <1>4, <1>5, CreditIs
<1>7. rep' \in [People -> Int]
      <2>1. rep[task[t].auditor] + 5 \in Int  BY DEF MarketInv
      <2> QED  BY <2>1 DEF MarketInv, AuditPass
<1> QED  BY <1>1, <1>2, <1>6, <1>7, OneTaskStep DEF MarketInv

(* One that fails keeps it: it takes stakes and balances, never more than
   there is of the stake. *)
LEMMA KeepAuditFail ==
    ASSUME MarketInv, NEW t \in TaskIds, AuditFail(t)
    PROVE  MarketInv'
<1> DEFINE r == task[t]
           s == [r EXCEPT !.audit = "failed"]
           own == [w \in Paid(r) |-> stake[w] + (IF balance[w] > 0 THEN balance[w] ELSE 0)]
           penalty == [w \in Paid(r) |-> IF 2 * stake[w] < own[w] THEN 2 * stake[w] ELSE own[w]]
           f == [w \in Paid(r) |-> stake[w] - penalty[w]]
<1>1. TaskOK(r)  BY DEF MarketInv, TasksOK
<1>2. Paid(r) \subseteq People  BY <1>1 DEF TaskOK, UnsettledOK, PartiesOK
<1>3. TaskOK(s)
      <2>1. \E p \in People \cup {None} : TRUE  OBVIOUS
      <2> QED  BY <1>1, FieldOK DEF TaskOK, Records
<1>4. task' = [task EXCEPT ![t] = s] /\ UNCHANGED <<unbonding, known>>  BY DEF AuditFail
<1>5. \A w \in Paid(r) : stake[w] \in Int /\ balance[w] \in Int  BY <1>2 DEF MarketInv, Accounts
<1>6. own \in [Paid(r) -> Int]  BY <1>5
<1>7. penalty \in [Paid(r) -> Int]
      <2> HIDE DEF own
      <2> QED  BY <1>5, <1>6
<1>8. f \in [Paid(r) -> Int]
      <2> HIDE DEF penalty
      <2> QED  BY <1>5, <1>7
<1>9. /\ balance' = Credit(CreditAll(balance, f), Fund, Total(penalty))
      /\ stake' = Slashed(Paid(r))
      /\ rep' = [p \in People |-> rep[p] - (IF p \in Paid(r) THEN 100 ELSE 0)]
      BY DEF AuditFail
<1> HIDE DEF s, own, penalty, f, r
<1>10. Total(penalty) \in Int
      <2>1. DOMAIN penalty = Paid(r) /\ \A w \in Paid(r) : penalty[w] \in Int  BY <1>7
      <2> QED  BY <1>2, <2>1, MapTotal
<1>11. CreditAll(balance, f) \in [Accounts -> Int]
      <2>1. f \in [DOMAIN f -> Int]  BY <1>8
      <2> QED  BY <2>1, CreditAllIs DEF MarketInv
<1>12. balance' \in [Accounts -> Int]  BY <1>9, <1>10, <1>11, CreditIs
<1>13. stake' \in [People -> Nat]  BY <1>2, <1>9, ForfeitIs DEF MarketInv
<1>14. rep' \in [People -> Int]  BY <1>9 DEF MarketInv
<1> QED  BY <1>3, <1>4, <1>12, <1>13, <1>14, OneTaskStep

(* Registering, staking, unstaking and claiming keep it. *)
LEMMA KeepNode ==
    ASSUME MarketInv, NodeStep
    PROVE  MarketInv'
<1>1. ASSUME NEW p \in People, Register(p) PROVE MarketInv'
      BY <1>1 DEF Register, MarketInv, money
<1>2. ASSUME NEW p \in People, Claim(p) PROVE MarketInv'
      <2>1. unbonding[p].amount \in Int /\ 0 \in 0..Unbond  BY ComputeAssumption DEF MarketInv
      <2>2. balance' \in [Accounts -> Int]  BY <1>2, <2>1, CreditIs DEF Claim, MarketInv
      <2>3. unbonding' \in [People -> [amount : Nat, left : 0..Unbond]]  BY <1>2, <2>1 DEF Claim, MarketInv
      <2> QED  BY <1>2, <2>2, <2>3 DEF Claim, MarketInv
<1>3. ASSUME NEW p \in Stakers, NEW amt \in StakeAmounts, Stake(p, amt) PROVE MarketInv'
      <2>1. p \in People /\ amt \in Nat /\ -amt \in Int  BY ComputeAssumption
      <2>2. balance' \in [Accounts -> Int]  BY <1>3, <2>1, CreditIs DEF Stake, MarketInv
      <2>3. stake' \in [People -> Nat]  BY <1>3, <2>1 DEF Stake, MarketInv
      <2>4. known' \in [People -> {"new", "seen", "registered"}]  BY <1>3, <2>1 DEF Stake, MarketInv
      <2> QED  BY <1>3, <2>2, <2>3, <2>4 DEF Stake, MarketInv
<1>4. ASSUME NEW p \in Stakers, NEW amt \in StakeAmounts, Unstake(p, amt) PROVE MarketInv'
      <2>1. p \in People /\ amt \in Nat /\ Unbond \in 0..Unbond  BY ComputeAssumption
      <2>2. stake[p] - amt \in Nat  BY <1>4, <2>1 DEF Unstake, MarketInv
      <2>3. stake' \in [People -> Nat]  BY <1>4, <2>1, <2>2 DEF Unstake, MarketInv
      <2>4. Unbonding(p, amt) \in [amount : Nat, left : 0..Unbond]  BY <2>1 DEF Unbonding, MarketInv
      <2>5. unbonding' \in [People -> [amount : Nat, left : 0..Unbond]]
            BY <1>4, <2>4 DEF Unstake, MarketInv
      <2> QED  BY <1>4, <2>3, <2>5 DEF Unstake, MarketInv
<1> QED  BY <1>1, <1>2, <1>3, <1>4 DEF NodeStep

(* So does the passage of time. *)
LEMMA KeepTick == ASSUME MarketInv, Tick PROVE MarketInv'
<1>1. TasksOK(task')
      <2>1. ASSUME NEW t \in TaskIds PROVE TaskOK(task'[t])
            <3>1. TaskOK(task[t])  BY DEF MarketInv, TasksOK
            <3> QED  BY <3>1, TickOK DEF Tick
      <2>2. task' = [t \in TaskIds |-> task'[t]]  BY DEF Tick
      <2> QED  BY <2>1, <2>2, TaskMap
<1>2. unbonding' \in [People -> [amount : Nat, left : 0..Unbond]]
      <2>1. ASSUME NEW p \in People
            PROVE  [unbonding[p] EXCEPT !.left = Less(@)] \in [amount : Nat, left : 0..Unbond]
            <3>1. unbonding[p] \in [amount : Nat, left : 0..Unbond]  BY DEF MarketInv
            <3>2. Less(unbonding[p].left) \in 0..Unbond  BY <3>1, ComputeAssumption DEF Less
            <3> QED  BY <3>1, <3>2
      <2> QED  BY <2>1 DEF Tick
<1> QED  BY <1>1, <1>2 DEF Tick, MarketInv

(* So does the sweep of a maintenance run: expiry, ends of disputes, audits
   asked and the incentive, all at once. *)
LEMMA KeepMaintain ==
    ASSUME MarketInv, NEW picked \in SUBSET TaskIds, NEW auditorOf \in [picked -> People],
           Maintain(picked, auditorOf)
    PROVE  MarketInv'
<1> DEFINE after == [t \in TaskIds |-> Resolved(task[t])]
           upheld == {t \in TaskIds : Upheld(task[t])}
           cheats == UNION {Paid(task[t]) : t \in upheld}
           paid == [a \in Accounts |-> balance[a] + PaidBack(a)]
           reward == Incentive(Slashed(cheats), balance[Pool])
<1>1. /\ task' = [t \in TaskIds |-> IF t \in picked
                    THEN [after[t] EXCEPT !.audit = "pending", !.auditor = auditorOf[t]]
                    ELSE after[t]]
      /\ stake' = Slashed(cheats)
      /\ balance' = Credit(Credit(CreditAll(paid, reward), Pool, -Total(reward)), Fund, Forfeit(cheats))
      /\ rep' = [p \in People |-> rep[p] - 110 * Cardinality({t \in upheld : p \in Paid(task[t])})]
      /\ UNCHANGED <<unbonding, known>>
      BY DEF Maintain
<1>2. \A t \in TaskIds : TaskOK(task[t])  BY DEF MarketInv, TasksOK
<1>3. TasksOK(task')
      <2>1. ASSUME NEW t \in TaskIds PROVE TaskOK(task'[t])
            <3>1. TaskOK(after[t])  BY <1>2, ResolvedOK
            <3>2. CASE t \in picked
                  <4>1. task'[t] = [after[t] EXCEPT !.audit = "pending", !.auditor = auditorOf[t]]
                        BY <1>1, <3>2
                  <4>2. auditorOf[t] \in People  BY <3>2
                  <4> DEFINE e == after[t]
                             u == auditorOf[t]
                  <4> HIDE DEF e, u
                  <4>3. TaskOK(e) /\ u \in People  BY <3>1, <4>2 DEF e, u
                  <4>4. TaskOK([e EXCEPT !.audit = "pending", !.auditor = u])  BY <4>3, AuditOK
                  <4> QED  BY <4>1, <4>4 DEF e, u
            <3>3. CASE t \notin picked  BY <1>1, <3>1, <3>3
            <3> QED  BY <3>2, <3>3
      <2>2. task' = [t \in TaskIds |-> task'[t]]  BY <1>1
      <2> QED  BY <2>1, <2>2, TaskMap
<1>4. cheats \subseteq People  BY <1>2 DEF TaskOK, UnsettledOK, PartiesOK
<1> HIDE DEF cheats
<1>5. Forfeit(cheats) \in Nat /\ Slashed(cheats) \in [People -> Nat]  BY <1>4, ForfeitIs DEF MarketInv
<1>6. reward \in [People -> Int] /\ Total(reward) \in Int
      <2>1. balance[Pool] \in Int  BY DEF MarketInv, Accounts
      <2> QED  BY <1>5, <2>1, IncentiveIs
<1>7. paid \in [Accounts -> Int]  BY PaidBackIs DEF MarketInv
<1> HIDE DEF reward, paid
<1>8. CreditAll(paid, reward) \in [Accounts -> Int]
      <2>1. reward \in [DOMAIN reward -> Int]  BY <1>6
      <2> QED  BY <1>7, <2>1, CreditAllIs
<1>9. Credit(CreditAll(paid, reward), Pool, -Total(reward)) \in [Accounts -> Int]
      <2>1. -Total(reward) \in Int  BY <1>6
      <2> QED  BY <1>8, <2>1, CreditIs
<1>10. balance' \in [Accounts -> Int]
      <2> DEFINE b == Credit(CreditAll(paid, reward), Pool, -Total(reward))
                 n == Forfeit(cheats)
      <2>1. b \in [Accounts -> Int]  BY <1>9
      <2>2. n \in Int  BY <1>5
      <2>3. balance' = Credit(b, Fund, n)  BY <1>1
      <2> HIDE DEF b, n
      <2> QED  BY <2>1, <2>2, <2>3, CreditIs
<1>11. rep' \in [People -> Int]
      <2>1. ASSUME NEW p \in People
            PROVE  rep[p] - 110 * Cardinality({t \in upheld : p \in Paid(task[t])}) \in Int
            <3> DEFINE T == {t \in upheld : p \in Paid(task[t])}
            <3>1. Cardinality(T) \in Nat
                  <4>1. T \subseteq TaskIds  OBVIOUS
                  <4> QED  BY <4>1, ComputeAssumption, FS_Subset, FS_CardinalityType
            <3>2. rep[p] \in Int  BY DEF MarketInv
            <3> HIDE DEF T
            <3>3. rep[p] - 110 * Cardinality(T) \in Int  BY <3>1, <3>2
            <3> QED  BY <3>3 DEF T
      <2> HIDE DEF upheld
      <2> QED  BY <1>1, <2>1
<1> QED  BY <1>1, <1>3, <1>5, <1>10, <1>11 DEF MarketInv

(* MarketInv is inductive: one lemma per action above. *)
LEMMA NextMarket == ASSUME MarketInv, Next PROVE MarketInv'
<1>1. CASE PublisherStep
      <2>1. ASSUME NEW p \in Publishers, NEW t \in TaskIds, NEW kind \in Kinds, NEW b \in Bounties,
                   Publish(p, t, kind, b)
            PROVE  MarketInv'
            BY <2>1, KeepPublish
      <2>2. ASSUME NEW t \in TaskIds, Dispute(t) PROVE MarketInv'  BY <2>2, KeepDispute
      <2>3. ASSUME NEW t \in TaskIds, NEW ws \in SUBSET People, Award(t, ws) PROVE MarketInv'
            BY <2>3, KeepAward
      <2> QED  BY <1>1, <2>1, <2>2, <2>3 DEF PublisherStep
<1>2. CASE WorkerStep
      <2> SUFFICES ASSUME NEW p \in People, NEW t \in TaskIds,
                          \/ Accept(p, t) \/ Bid(p, t) \/ SubmitLate(p, t)
                          \/ \E h \in Hashes : Submit(p, t, h) \/ Arbitrate(p, t, h)
                          \/ \E choice \in {"uphold", "dismiss"} : Vote(p, t, choice)
                          \/ task[t].auditor = p /\ (AuditPass(t) \/ AuditFail(t))
                   PROVE  MarketInv'
            BY <1>2 DEF WorkerStep
      <2>1. CASE Accept(p, t)  BY <2>1, KeepAccept
      <2>2. CASE Bid(p, t)  BY <2>2, KeepBid
      <2>3. CASE SubmitLate(p, t)  BY <2>3, KeepLate
      <2>4. ASSUME NEW h \in Hashes, Submit(p, t, h) PROVE MarketInv'  BY <2>4, KeepSubmit
      <2>5. ASSUME NEW h \in Hashes, Arbitrate(p, t, h) PROVE MarketInv'  BY <2>5, KeepArbitrate
      <2>6. ASSUME NEW choice \in {"uphold", "dismiss"}, Vote(p, t, choice) PROVE MarketInv'
            BY <2>6, KeepVote
      <2>7. CASE task[t].auditor = p /\ AuditPass(t)  BY <2>7, KeepAuditPass
      <2>8. CASE AuditFail(t)  BY <2>8, KeepAuditFail
      <2> QED  BY <2>1, <2>2, <2>3, <2>4, <2>5, <2>6, <2>7, <2>8
<1>3. CASE NodeStep  BY <1>3, KeepNode
<1>4. CASE Tick  BY <1>4, KeepTick
<1>5. CASE MaintainStep  BY <1>5, KeepMaintain DEF MaintainStep
<1> QED  BY <1>1, <1>2, <1>3, <1>4, <1>5 DEF Next

(* It implies what the runs check of payments. *)
LEMMA MarketImplies == ASSUME MarketInv PROVE PaymentsAreSound
<1>1. ASSUME NEW t \in TaskIds
      PROVE  LET r == task[t] IN
        /\ r.status \in Statuses /\ r.bounty \in Nat
        /\ r.left \in 0..Expires /\ r.window \in 0..Window
        /\ r.assigned \subseteq People /\ r.accepted \subseteq People \ {r.creator}
        /\ DOMAIN r.results \subseteq r.accepted /\ Paid(r) \subseteq DOMAIN r.results
        /\ DOMAIN r.votes \cap Paid(r) = {}
        /\ r.audit \in {"none", "pending", "passed", "failed"}
      <2>1. TaskOK(task[t])  BY DEF MarketInv, TasksOK
      <2>2. task[t] \in Records  BY <2>1 DEF TaskOK
      <2> QED  BY <2>1, <2>2 DEF TaskOK, PartiesOK, UnsettledOK, Records
<1>2. TypeOK  BY <1>1 DEF MarketInv, TypeOK
<1>3. PaidOrRefunded
      <2>1. \A t \in TaskIds : task[t].refunds \in Nat /\ RefundOK(task[t])
            BY DEF MarketInv, TasksOK, TaskOK, Records
      <2> QED  BY <2>1 DEF PaidOrRefunded, RefundOK
<1>4. PaidIsConfirmed  BY DEF MarketInv, TasksOK, TaskOK, ConfirmedOK, PaidIsConfirmed
<1> QED  BY <1>2, <1>3, <1>4 DEF PaymentsAreSound

(* The inductive invariant: every account holds an amount, and every task's
   record is in order. *)
THEOREM MarketInvHolds == Spec => []MarketInv
<1>1. Init => MarketInv  BY InitMarket
<1>2. MarketInv /\ [Next]_vars => MarketInv'
      <2>1. ASSUME MarketInv, UNCHANGED vars PROVE MarketInv'
            BY <2>1 DEF MarketInv, TasksOK, vars, money
      <2> QED  BY <2>1, NextMarket
<1> QED  BY <1>1, <1>2, PTL DEF Spec

(* A bounty is paid or refunded, never both, and only for a result that a
   second worker or the arbiter gave too, whatever the order of acceptance,
   expiry, submission, arbitration, disputes and audits (submit, arbitrate,
   expire, _refund, maintain). *)
THEOREM PaymentsAreSoundHold == Spec => []PaymentsAreSound
<1> QED  BY MarketInvHolds, MarketImplies, PTL

-----------------------------------------------------------------------------
(* The books. *)

\* what a task holds
Value(r) == Held(r) + Frozen(r) - Unowed(r)
Purse == Total(balance) + Total(stake) + Total([p \in People |-> unbonding[p].amount])
Escrow(f) == Total([t \in TaskIds |-> Value(f[t])])
Given == FundGenesis + Total(Wealth) + Total(InitStake)

(* There are finitely many accounts. *)
LEMMA AccountsFinite ==
    /\ IsFiniteSet(Accounts) /\ People \subseteq Accounts /\ Pool \in Accounts /\ Fund \in Accounts
<1>1. IsFiniteSet({Pool, Fund})
      <2>1. IsFiniteSet({Pool}) /\ IsFiniteSet({Pool} \cup {Fund})  BY FS_Singleton, FS_AddElement
      <2>2. {Pool} \cup {Fund} = {Pool, Fund}  OBVIOUS
      <2> QED  BY <2>1, <2>2
<1>2. IsFiniteSet(People \cup {Pool, Fund})  BY <1>1, ComputeAssumption, FS_Union
<1> QED  BY <1>2 DEF Accounts

(* A credit raises the total by its amount. *)
LEMMA CreditTotal ==
    ASSUME NEW b \in [Accounts -> Int], NEW a \in Accounts, NEW amt \in Int
    PROVE  Total(Credit(b, a, amt)) = Total(b) + amt
<1> DEFINE v == b[a] + amt
<1>1. v \in Int /\ Credit(b, a, amt) = [b EXCEPT ![a] = v] /\ b[a] \in Int  BY DEF Credit
<1>2. SumFunction(b) \in Int  BY AccountsFinite, TotalInt
<1>3. v = b[a] + amt  OBVIOUS
<1>4. IsFiniteSet(Accounts) /\ b \in [Accounts -> Int] /\ a \in Accounts /\ v \in Int  BY <1>1, AccountsFinite
<1> HIDE DEF v
<1>5. SumFunction([b EXCEPT ![a] = v]) = SumFunction(b) - b[a] + v  BY <1>4, TotalPut
<1> QED  BY <1>1, <1>2, <1>3, <1>5 DEF Total

(* Many credits raise it by their total. *)
LEMMA CreditAllTotal ==
    ASSUME NEW b \in [Accounts -> Int], NEW D \in SUBSET Accounts, NEW f, DOMAIN f = D, \A x \in D : f[x] \in Int
    PROVE  Total(CreditAll(b, f)) = Total(b) + Total(f)
BY AccountsFinite, TotalSpread DEF CreditAll, Total

(* What the market holds for a task is an amount. *)
LEMMA ValueIs ==
    ASSUME NEW r, TaskOK(r)
    PROVE  /\ Held(r) \in Nat /\ Frozen(r) \in Int /\ Unowed(r) \in Nat /\ Value(r) \in Int
           /\ r.bounty \in Nat /\ r.refunds \in Nat /\ Total(r.clawed) \in Int
<1>1. r.bounty \in Nat /\ r.refunds \in Nat  BY DEF TaskOK, Records
<1>2. Total(r.clawed) \in Int  BY UnfrozenIs
<1>3. Held(r) \in Nat  BY <1>1 DEF Held
<1>4. Frozen(r) \in Int  BY <1>2 DEF Frozen
<1>5. Unowed(r) \in Nat
      <2>1. r.refunds > 1 => r.refunds - 1 \in Nat /\ (r.refunds - 1) * r.bounty \in Nat  BY <1>1
      <2> QED  BY <2>1 DEF Unowed
<1>6. Value(r) \in Int  BY <1>3, <1>4, <1>5 DEF Value
<1> QED  BY <1>1, <1>2, <1>3, <1>4, <1>5, <1>6

(* So is what people, the pool and the fund hold. *)
LEMMA PurseIs ==
    ASSUME MarketInv
    PROVE  /\ Purse \in Int /\ Total(balance) \in Int /\ Total(stake) \in Int
           /\ Total([p \in People |-> unbonding[p].amount]) \in Int
<1> DEFINE u == [p \in People |-> unbonding[p].amount]
<1>1. u \in [People -> Int]  BY DEF MarketInv
<1>2. balance \in [Accounts -> Int] /\ stake \in [People -> Int]  BY DEF MarketInv
<1>3. IsFiniteSet(People) /\ IsFiniteSet(Accounts)  BY ComputeAssumption, AccountsFinite
<1> HIDE DEF u
<1>4. Total(u) \in Int  BY <1>1, <1>3, TotalInt DEF Total
<1>5. Total(stake) \in Int  BY <1>2, <1>3, TotalInt DEF Total
<1>6. Total(balance) \in Int  BY <1>2, <1>3, TotalInt DEF Total
<1> QED  BY <1>4, <1>5, <1>6 DEF u, Purse

(* So is what there was at genesis. *)
LEMMA GivenIs ==
    Given \in Int /\ Total(Wealth) \in Int /\ Total(InitStake) \in Int /\ FundGenesis \in Int
<1>1. Wealth \in [People -> Int] /\ InitStake \in [People -> Int] /\ IsFiniteSet(People) /\ FundGenesis \in Int
      BY ComputeAssumption
<1>2. Total(Wealth) \in Int /\ Total(InitStake) \in Int  BY <1>1, TotalInt DEF Total
<1> QED  BY <1>1, <1>2 DEF Given

(* The number of settled tasks is a natural number. *)
LEMMA SettlementsIs == Settlements \in Nat
<1> DEFINE S == {t \in TaskIds : Paid(task[t]) # {}}
<1>1. S \subseteq TaskIds  OBVIOUS
<1> HIDE DEF S
<1>2. Cardinality(S) \in Nat  BY <1>1, ComputeAssumption, FS_Subset, FS_CardinalityType
<1> QED  BY <1>2 DEF S, Settlements

(* What the market holds for all tasks is an amount. *)
LEMMA EscrowIs ==
    ASSUME NEW f, TasksOK(f)
    PROVE  /\ Escrow(f) \in Int /\ [t \in TaskIds |-> Value(f[t])] \in [TaskIds -> Int]
<1> DEFINE v == [t \in TaskIds |-> Value(f[t])]
<1>1. v \in [TaskIds -> Int]  BY ValueIs DEF TasksOK
<1> HIDE DEF v
<1>2. Total(v) \in Int  BY <1>1, ComputeAssumption, TotalInt DEF Total
<1> QED  BY <1>1, <1>2 DEF Escrow, v

(* Conservation, with what is outside the market and what it holds as two
   totals. *)
LEMMA NovaIs ==
    ASSUME MarketInv
    PROVE  NovaAddsUp <=> Given - (Purse + Escrow(task)) \in 0..Settlements
<1> DEFINE u == Total([p \in People |-> unbonding[p].amount])
           e == Total([t \in TaskIds |-> Held(task[t]) + Frozen(task[t]) - Unowed(task[t])])
           w == Total(Wealth)
           i == Total(InitStake)
<1>1. Escrow(task) = e /\ e \in Int  BY EscrowIs DEF MarketInv, Escrow, Value
<1>2. Purse = Total(balance) + Total(stake) + u  BY DEF Purse
<1>3. NovaAddsUp <=> FundGenesis + w + i - (Total(balance) + Total(stake) + u + e) \in 0..Settlements
      BY DEF NovaAddsUp
<1>4. Total(balance) \in Int /\ Total(stake) \in Int /\ u \in Int  BY PurseIs
<1>5. w \in Int /\ i \in Int /\ FundGenesis \in Int /\ Given = FundGenesis + w + i  BY GivenIs DEF Given
<1> HIDE DEF u, e, w, i
<1>6. Given - (Purse + Escrow(task)) = FundGenesis + w + i - (Total(balance) + Total(stake) + u + e)
      BY <1>1, <1>2, <1>4, <1>5
<1> QED  BY <1>3, <1>6

(* The same of the next state. *)
LEMMA NovaIsNext ==
    MarketInv' => (NovaAddsUp' <=> (Given - (Purse + Escrow(task)) \in 0..Settlements)')
<1>1. MarketInv => (NovaAddsUp <=> Given - (Purse + Escrow(task)) \in 0..Settlements)  BY NovaIs
<1> QED  BY <1>1, PTL

(* Changing one task changes what the market holds by the difference. *)
LEMMA EscrowPut ==
    ASSUME NEW f, TasksOK(f), NEW t \in TaskIds, NEW r, TaskOK(r), NEW g, g = [f EXCEPT ![t] = r]
    PROVE  Escrow(g) = Escrow(f) - Value(f[t]) + Value(r)
<1> DEFINE v == [x \in TaskIds |-> Value(f[x])]
           w == [x \in TaskIds |-> Value(g[x])]
           y == Value(r)
<1>1. v \in [TaskIds -> Int] /\ y \in Int /\ v[t] = Value(f[t])  BY EscrowIs, ValueIs
<1>2. w = [v EXCEPT ![t] = y]  BY DEF TasksOK
<1>3. Escrow(f) = SumFunction(v) /\ Escrow(g) = SumFunction(w)  BY DEF Escrow, Total
<1>4. IsFiniteSet(TaskIds)  BY ComputeAssumption
<1> HIDE DEF v, w, y
<1>5. SumFunction([v EXCEPT ![t] = y]) = SumFunction(v) - v[t] + y  BY <1>1, <1>4, TotalPut
<1> QED  BY <1>1, <1>2, <1>3, <1>5 DEF y

(* An action on one task keeps the books when what it takes from the task it
   adds to the purse, but for one unit that a settlement may lose. *)
LEMMA OneTaskCoins ==
    ASSUME MarketInv, MarketInv', NovaAddsUp,
           NEW t \in TaskIds, NEW r, TaskOK(r), task' = [task EXCEPT ![t] = r],
           Paid(task[t]) # {} => Paid(r) # {},
           NEW d \in {0, 1}, d = 1 => Paid(task[t]) = {} /\ Paid(r) # {},
           Purse' = Purse + Value(task[t]) - Value(r) - d
    PROVE  NovaAddsUp'
<1> DEFINE A == {x \in TaskIds : Paid(task[x]) # {}}
           B == {x \in TaskIds : Paid(task'[x]) # {}}
<1>1. TasksOK(task) /\ TaskOK(task[t])  BY DEF MarketInv, TasksOK
<1>2. Escrow(task') = Escrow(task) - Value(task[t]) + Value(r)  BY <1>1, EscrowPut
<1>3. /\ Value(task[t]) \in Int /\ Value(r) \in Int /\ Escrow(task) \in Int /\ Purse \in Int /\ Given \in Int
      BY <1>1, ValueIs, EscrowIs, PurseIs, GivenIs
<1>4. \A x \in TaskIds : task'[x] = IF x = t THEN r ELSE task[x]  BY <1>1 DEF TasksOK
<1>5. IsFiniteSet(A) /\ IsFiniteSet(B)
      <2>1. A \subseteq TaskIds /\ B \subseteq TaskIds  OBVIOUS
      <2> HIDE DEF A, B
      <2> QED  BY <2>1, ComputeAssumption, FS_Subset
<1>6. A \subseteq B  BY <1>4
<1>7. d = 1 => B = A \cup {t} /\ t \notin A  BY <1>4
<1>8. Settlements = Cardinality(A) /\ Settlements' = Cardinality(B)  BY DEF Settlements
<1> HIDE DEF A, B
<1>9. Cardinality(A) \in Nat /\ Cardinality(B) \in Nat /\ Cardinality(A) <= Cardinality(B)
      BY <1>5, <1>6, FS_Subset, FS_CardinalityType
<1>10. d = 1 => Cardinality(B) = Cardinality(A) + 1  BY <1>5, <1>7, FS_AddElement
<1>11. Given - (Purse + Escrow(task)) \in 0..Cardinality(A)  BY <1>8, NovaIs
<1>12. Purse' + Escrow(task') = Purse + Escrow(task) - d  BY <1>2, <1>3
<1>13. Given - (Purse' + Escrow(task')) \in 0..Cardinality(B)
       BY <1>3, <1>9, <1>10, <1>11, <1>12
<1>14. NovaAddsUp' <=> Given - (Purse' + Escrow(task')) \in 0..Settlements'
       <2>1. Escrow(task)' = Escrow(task')  BY DEF Escrow, Value, Held, Frozen, Unowed
       <2>2. NovaAddsUp' <=> (Given - (Purse + Escrow(task)) \in 0..Settlements)'  BY NovaIsNext
       <2> QED  BY <2>1, <2>2 DEF Given
<1> QED  BY <1>8, <1>13, <1>14

\* a task whose escrow, frozen shares and refunds stay as they were
LEMMA SameValue ==
    ASSUME NEW r, NEW s, s.bounty = r.bounty, s.refunds = r.refunds, s.clawed = r.clawed,
           \/ s.status = r.status
           \/ {s.status, r.status} \subseteq Live
           \/ r.refunds # 0 /\ "disputed" \notin {s.status, r.status}
    PROVE  Value(s) = Value(r)
BY DEF Value, Held, Frozen, Unowed, Live

(* A refund takes exactly the bounty out of what the market holds for the
   task. *)
LEMMA RefundValue ==
    ASSUME NEW r, TaskOK(r), r.status \in Live, NEW st \in {"expired", "failed"}
    PROVE  Value(Refunded(r, st)) = Value(r) - r.bounty
<1> DEFINE s == Refunded(r, st)
           n == r.refunds
           b == r.bounty
<1>1. r \in Records /\ n \in Nat /\ b \in Nat  BY DEF TaskOK, Records
<1>2. s.status = st /\ s.refunds = n + 1 /\ s.bounty = b  BY <1>1 DEF Refunded, Records
<1>3. Frozen(s) = 0 /\ Frozen(r) = 0 /\ Held(s) = 0  BY <1>2 DEF Frozen, Held, Live
<1>4. Unowed(s) = n * b
      <2>1. n + 1 - 1 = n  BY <1>1
      <2>2. n = 0 => n * b = 0  BY <1>1
      <2> HIDE DEF s
      <2> QED  BY <1>1, <1>2, <2>1, <2>2 DEF Unowed
<1>5. Held(r) - Unowed(r) = b - n * b
      <2>1. CASE n = 0
            <3>1. Held(r) = b /\ Unowed(r) = 0 /\ n * b = 0  BY <1>1, <2>1 DEF Held, Unowed
            <3> QED  BY <1>1, <3>1
      <2>2. CASE n = 1
            <3>1. Held(r) = 0 /\ Unowed(r) = 0 /\ n * b = b  BY <1>1, <2>2 DEF Held, Unowed
            <3> QED  BY <1>1, <3>1
      <2>3. CASE n > 1
            <3>1. Held(r) = 0 /\ Unowed(r) = (n - 1) * b  BY <1>1, <2>3 DEF Held, Unowed
            <3>2. (n - 1) * b = n * b - b /\ n * b \in Int  BY <1>1
            <3> QED  BY <1>1, <3>1, <3>2
      <2>4. n = 0 \/ n = 1 \/ n > 1  BY <1>1
      <2> QED  BY <2>1, <2>2, <2>3, <2>4
<1>6. Held(r) \in Int /\ Unowed(r) \in Int /\ n * b \in Int  BY <1>1, ValueIs
<1> HIDE DEF s, n
<1>7. Value(s) = 0 - n * b  BY <1>3, <1>4, <1>6 DEF Value
<1>8. Value(r) = b - n * b  BY <1>1, <1>3, <1>5, <1>6 DEF Value
<1> QED  BY <1>1, <1>6, <1>7, <1>8 DEF s

(* Splitting an amount between two by weight loses at most one unit. *)
LEMMA TwoQuotients ==
    ASSUME NEW P \in Nat, NEW x \in Nat, NEW y \in Nat, NEW W \in Nat, W = x + y, W > 0
    PROVE  \E d \in {0, 1} : (P * x) \div W + (P * y) \div W = P - d
<1> DEFINE i == P * x
           j == P * y
           q == i \div W
           k == j \div W
<1>1. i \in Nat /\ j \in Nat /\ i + j = W * P
      <2>1. P * (x + y) = P * x + P * y /\ P * (x + y) = (x + y) * P  OBVIOUS
      <2> QED  BY <2>1
<1>2. \A n \in Nat : \A d \in Nat \ {0} :
         n \div d \in Nat /\ d * (n \div d) <= n /\ n < d * (n \div d) + d
      OBVIOUS
<1>3. W \in Nat \ {0}  OBVIOUS
<1> HIDE DEF i, j
<1>4. /\ q \in Nat /\ W * q <= i /\ i < W * q + W
      /\ k \in Nat /\ W * k <= j /\ j < W * k + W
      BY <1>1, <1>2, <1>3
<1> HIDE DEF q, k
<1>5. W * q \in Nat /\ W * k \in Nat /\ W * P \in Nat  BY <1>4
<1>6. \A a, b \in Nat : W * a <= W * b => a <= b
      <2> TAKE a, b \in Nat
      <2>1. b < a => W * b < W * a
            <3>1. b < a => b + 1 <= a /\ W * (b + 1) <= W * a /\ W * (b + 1) = W * b + W  OBVIOUS
            <3>2. W * b \in Nat /\ W * a \in Nat  OBVIOUS
            <3> QED  BY <3>1, <3>2
      <2>2. W * b \in Nat /\ W * a \in Nat  OBVIOUS
      <2> QED  BY <2>1, <2>2
<1>7. q + k <= P
      <2>1. W * (q + k) = W * q + W * k  BY <1>4
      <2>2. W * (q + k) <= W * P  BY <1>1, <1>4, <1>5, <2>1
      <2>3. q + k \in Nat  BY <1>4
      <2> QED  BY <1>6, <2>2, <2>3
<1>8. P < q + k + 2
      <2>1. W * (q + k + 1) = W * q + W * k + W  BY <1>4
      <2>2. W * P < W * q + W * k + W + W  BY <1>1, <1>4, <1>5
      <2>3. W * (q + k + 2) = W * (q + k + 1) + W /\ q + k + 1 \in Nat /\ q + k + 2 \in Nat  BY <1>4
      <2>4. W * P < W * (q + k + 2)  BY <1>4, <1>5, <2>1, <2>2, <2>3
      <2>5. P >= q + k + 2 => W * P >= W * (q + k + 2)  BY <2>3
      <2>6. W * (q + k + 2) \in Nat  BY <2>3
      <2> QED  BY <1>5, <2>3, <2>4, <2>5, <2>6
<1>9. q + k = P - 0 \/ q + k = P - 1  BY <1>4, <1>7, <1>8
<1> QED  BY <1>9 DEF q, k, i, j

\* the total of a map over one or two people
LEMMA PairTotal ==
    ASSUME NEW v \in People, NEW w \in People, NEW f, DOMAIN f = {v, w}, f[v] \in Int, f[w] \in Int
    PROVE  Total(f) = IF v = w THEN f[v] ELSE f[v] + f[w]
<1> DEFINE D == {v, w}
<1>1. IsFiniteSet(D) /\ \A x \in D : f[x] \in Int
      <2>1. D \subseteq People  OBVIOUS
      <2> HIDE DEF D
      <2>2. IsFiniteSet(D)  BY <2>1, ComputeAssumption, FS_Subset
      <2> QED  BY <2>2 DEF D
<1>2. Total(f) = SumFunctionOnSet(f, D)  BY TotalIs DEF Total
<1>3. SumFunctionOnSet(f, D) = f[v] + SumFunctionOnSet(f, D \ {v})
      <2>1. v \in D  OBVIOUS
      <2> HIDE DEF D
      <2> QED  BY <1>1, <2>1, SumRemove
<1>4. CASE v = w
      <2>1. D \ {v} = {}  BY <1>4
      <2>2. SumFunctionOnSet(f, D \ {v}) = 0  BY <2>1, SumEmpty
      <2> HIDE DEF D
      <2> QED  BY <1>2, <1>3, <1>4, <2>2
<1>5. CASE v # w
      <2>1. D \ {v} = {w} /\ {w} \ {w} = {}  BY <1>5
      <2>2. IsFiniteSet({w}) /\ w \in {w} /\ \A x \in {w} : f[x] \in Int  BY FS_Singleton
      <2>3. SumFunctionOnSet(f, {w}) = f[w] + SumFunctionOnSet(f, {w} \ {w})  BY <2>2, SumRemove
      <2>4. SumFunctionOnSet(f, {w}) = f[w] + SumFunctionOnSet(f, {})  BY <2>1, <2>3
      <2>5. SumFunctionOnSet(f, {w}) = f[w] + 0  BY <2>4, SumEmpty
      <2>6. Total(f) = f[v] + SumFunctionOnSet(f, {w})  BY <1>2, <1>3, <2>1
      <2> HIDE DEF D
      <2> QED  BY <1>5, <2>5, <2>6
<1> QED  BY <1>4, <1>5

(* The shares of one or two payees fall short of what the fee leaves by one
   unit at most; so do the two halves of a legacy bounty. *)
LEMMA SharesTotal ==
    ASSUME NEW r, r.bounty \in Nat, NEW v \in People, NEW w \in People
    PROVE  /\ \E d \in {0, 1} : r.bounty \div 100 + Total(Shares(r, {v, w})) = r.bounty - d
           /\ v # w => \E d \in {0, 1} : Total(Half(r, {v, w})) = r.bounty - d
<1> DEFINE ws == {v, w}
           fee == r.bounty \div 100
           pool == r.bounty - fee
           weight == [p \in ws |-> 100 + Tier(p).bonus]
           W == Total(weight)
           f == Shares(r, ws)
           g == Half(r, ws)
<1>1. fee \in Nat /\ pool \in Nat /\ r.bounty = fee + pool
      <2>1. \A n \in Nat : n \div 100 \in Nat /\ n \div 100 <= n  OBVIOUS
      <2>2. fee \in Nat /\ fee <= r.bounty  BY <2>1
      <2> HIDE DEF fee
      <2> QED  BY <2>2
<1>2. weight[v] \in Nat /\ weight[w] \in Nat /\ weight[v] > 0 /\ weight[w] > 0 /\ DOMAIN weight = {v, w}
      <2>1. Tier(v).bonus \in Nat /\ Tier(w).bonus \in Nat  BY DEF Tier
      <2> QED  BY <2>1
<1>3. f = [p \in ws |-> (pool * weight[p]) \div W]  BY DEF Shares
<1>4. f \in [ws -> Int] /\ g \in [ws -> Int]
      <2>1. ws \subseteq People /\ ws # {}  OBVIOUS
      <2> HIDE DEF ws
      <2> QED  BY <2>1, SharesAre
<1>5. DOMAIN f = {v, w} /\ f[v] = (pool * weight[v]) \div W /\ f[w] = (pool * weight[w]) \div W  BY <1>3
<1>6. f[v] \in Int /\ f[w] \in Int  BY <1>4
<1> HIDE DEF weight, fee, pool, f
<1>7. W = IF v = w THEN weight[v] ELSE weight[v] + weight[w]  BY <1>2, PairTotal
<1>8. Total(f) = IF v = w THEN f[v] ELSE f[v] + f[w]  BY <1>5, <1>6, PairTotal
<1> HIDE DEF W
<1>9. \E d \in {0, 1} : Total(f) = pool - d
      <2>1. CASE v = w
            <3>1. W = weight[v] /\ Total(f) = (pool * W) \div W  BY <1>5, <1>7, <1>8, <2>1
            <3>2. W \in Nat /\ W > 0  BY <1>2, <3>1
            <3>3. (pool * W) \div W = pool
                  <4>1. pool * 0 = 0 /\ 0 \div W = 0 /\ W = W + 0  BY <1>1, <3>2
                  <4>2. PICK d \in {0, 1} : (pool * W) \div W + (pool * 0) \div W = pool - d
                        BY <1>1, <3>2, TwoQuotients
                  <4> DEFINE q == (pool * W) \div W
                  <4>3. /\ q \in Int /\ pool * W < W * q + W /\ pool * W \in Nat
                        <5>1. \A n \in Nat : \A e \in Nat \ {0} : n \div e \in Nat /\ n < e * (n \div e) + e  OBVIOUS
                        <5> DEFINE i == pool * W
                        <5>2. i \in Nat /\ W \in Nat \ {0}  BY <1>1, <3>2
                        <5> HIDE DEF i, q
                        <5>3. i \div W \in Nat /\ i < W * (i \div W) + W  BY <5>1, <5>2
                        <5>4. q = i \div W  BY DEF q, i
                        <5> QED  BY <5>2, <5>3, <5>4 DEF i
                  <4> HIDE DEF q
                  <4>4. q + 0 = pool - d  BY <4>1, <4>2 DEF q
                  <4>5. d # 1
                        <5>1. ASSUME d = 1 PROVE FALSE
                              <6>1. q + 1 = pool  BY <1>1, <4>3, <4>4, <5>1
                              <6>2. W * (q + 1) = W * q + W /\ W * pool = pool * W  BY <1>1, <3>2, <4>3
                              <6>3. W * q \in Int  BY <3>2, <4>3
                              <6> QED  BY <3>2, <4>3, <6>1, <6>2, <6>3
                        <5> QED  BY <5>1
                  <4>6. q = pool  BY <1>1, <4>3, <4>4, <4>5
                  <4> QED  BY <4>6 DEF q
            <3> QED  BY <1>1, <3>1, <3>3
      <2>2. CASE v # w
            <3>1. W = weight[v] + weight[w]  BY <1>7, <2>2
            <3>2. W \in Nat /\ W > 0  BY <1>2, <3>1
            <3>3. \E d \in {0, 1} : (pool * weight[v]) \div W + (pool * weight[w]) \div W = pool - d
                  <4> DEFINE x == weight[v]
                             y == weight[w]
                  <4>1. x \in Nat /\ y \in Nat /\ W = x + y  BY <1>2, <3>1
                  <4> HIDE DEF x, y
                  <4>2. \E d \in {0, 1} : (pool * x) \div W + (pool * y) \div W = pool - d
                        BY <1>1, <3>2, <4>1, TwoQuotients
                  <4> QED  BY <4>2 DEF x, y
            <3>4. Total(f) = (pool * weight[v]) \div W + (pool * weight[w]) \div W  BY <1>5, <1>8, <2>2
            <3> QED  BY <3>3, <3>4
      <2> QED  BY <2>1, <2>2
<1>10. \E d \in {0, 1} : fee + Total(f) = r.bounty - d
      <2> PICK d \in {0, 1} : Total(f) = pool - d  BY <1>9
      <2>1. fee + Total(f) = r.bounty - d  BY <1>1
      <2> QED  BY <2>1
<1>11. v # w => \E d \in {0, 1} : Total(g) = r.bounty - d
      <2> SUFFICES ASSUME v # w PROVE \E d \in {0, 1} : Total(g) = r.bounty - d
            OBVIOUS
      <2> DEFINE h == r.bounty \div 2
      <2>1. g = [p \in ws |-> h]  BY DEF Half
      <2>2. h \in Int /\ (r.bounty = h + h \/ r.bounty = h + h + 1)  OBVIOUS
      <2> HIDE DEF h, g
      <2>3. DOMAIN g = {v, w} /\ g[v] = h /\ g[w] = h /\ g[v] \in Int /\ g[w] \in Int  BY <2>1, <2>2
      <2>4. Total(g) = h + h
            <3>1. Total(g) = IF v = w THEN g[v] ELSE g[v] + g[w]  BY <2>3, PairTotal
            <3> QED  BY <2>3, <3>1
      <2>5. Total(g) = r.bounty - 0 \/ Total(g) = r.bounty - 1  BY <2>2, <2>4
      <2> QED  BY <2>5
<1> QED  BY <1>10, <1>11 DEF f, fee, g

Moved(d, r, t) ==
    /\ task' = [task EXCEPT ![t] = r] /\ UNCHANGED unbonding
    /\ Total(balance') + Total(stake') = Total(balance) + Total(stake) + Value(task[t]) - Value(r) - d

(* A step that moves coins between one task and the accounts, losing a unit
   at most, and that only where it settles the task, keeps NovaAddsUp. *)
LEMMA PlainCoins ==
    ASSUME MarketInv, MarketInv', NovaAddsUp, NEW t \in TaskIds, NEW r, TaskOK(r),
           Paid(task[t]) # {} => Paid(r) # {},
           NEW d \in {0, 1}, d = 1 => Paid(task[t]) = {} /\ Paid(r) # {}, Moved(d, r, t)
    PROVE  NovaAddsUp'
<1> DEFINE u == Total([p \in People |-> unbonding[p].amount])
<1>1. /\ Purse = Total(balance) + Total(stake) + u /\ Total(balance) \in Int /\ Total(stake) \in Int
      /\ u \in Int
      BY PurseIs DEF Purse
<1>2. Purse' = Total(balance') + Total(stake') + u
      <2>1. unbonding' = unbonding  BY DEF Moved
      <2> QED  BY <2>1 DEF Purse, Total
<1>3. TaskOK(task[t])  BY DEF MarketInv, TasksOK
<1>4. Value(task[t]) \in Int /\ Value(r) \in Int  BY <1>3, ValueIs
<1> HIDE DEF u
<1>5. Purse' = Purse + Value(task[t]) - Value(r) - d  BY <1>1, <1>2, <1>4 DEF Moved
<1> QED  BY <1>5, OneTaskCoins DEF Moved

(* Publishing moves the bounty into the market. *)
LEMMA PublishCoins ==
    ASSUME MarketInv, MarketInv', NovaAddsUp,
           NEW p \in Publishers, NEW t \in TaskIds, NEW kind \in Kinds, NEW b \in Bounties,
           Publish(p, t, kind, b)
    PROVE  NovaAddsUp'
<1> DEFINE r == [NoTask EXCEPT !.kind = kind, !.creator = p, !.bounty = b, !.status = "open", !.left = Expires]
<1>1. TaskOK(r) /\ TaskOK(task[t]) /\ task[t].status = "none"  BY PublishOK DEF Publish, MarketInv, TasksOK
<1>2. b \in Nat /\ p \in Accounts  BY ComputeAssumption DEF Accounts
<1>3. Value(task[t]) = 0 /\ Paid(task[t]) = {}
      <2>1. task[t].refunds = 0 /\ Paid(task[t]) = {}
            BY <1>1 DEF TaskOK, RefundOK, UnsettledOK, Records
      <2> QED  BY <1>1, <2>1 DEF Value, Held, Frozen, Unowed, Live
<1>4. Value(r) = b
      <2>1. r.status = "open" /\ r.refunds = 0 /\ r.bounty = b  BY DEF NoTask
      <2> HIDE DEF r
      <2> QED  BY <1>2, <2>1 DEF Value, Held, Frozen, Unowed, Live
<1>5. task' = [task EXCEPT ![t] = r] /\ balance' = Credit(balance, p, -b) /\ UNCHANGED <<stake, unbonding>>
      BY DEF Publish
<1>6. Total(balance') = Total(balance) + (-b)
      <2>1. -b \in Int  BY <1>2
      <2> QED  BY <1>2, <1>5, <2>1, CreditTotal DEF MarketInv
<1> HIDE DEF r
<1>7. Moved(0, r, t)  BY <1>2, <1>3, <1>4, <1>5, <1>6, PurseIs DEF Moved
<1> QED  BY <1>1, <1>3, <1>7, PlainCoins

\* Expiry hands the bounty back: what the task loses the publisher gets.
LEMMA ExpireCoins ==
    ASSUME NEW r, TaskOK(r), NEW b \in [Accounts -> Int]
    PROVE  Total(AfterExpire(r, b)) = Total(b) + Value(r) - Value(Expire(r))
<1>1. Value(r) \in Int /\ r.bounty \in Int  BY ValueIs
<1>2. Total(b) \in Int  BY AccountsFinite, TotalInt DEF Total
<1>3. CASE Overdue(r)
      <2>1. r.status \in Live  BY <1>3 DEF Overdue, Live
      <2>2. r.creator \in Accounts  BY <2>1 DEF TaskOK, PartiesOK, Accounts, Live
      <2>3. Value(Refunded(r, "expired")) = Value(r) - r.bounty  BY <2>1, RefundValue
      <2>4. Expire(r) = Refunded(r, "expired") /\ AfterExpire(r, b) = Credit(b, r.creator, r.bounty)
            BY <1>3 DEF Expire, AfterExpire
      <2>5. Total(AfterExpire(r, b)) = Total(b) + r.bounty  BY <1>1, <2>2, <2>4, CreditTotal
      <2> QED  BY <1>1, <1>2, <2>3, <2>4, <2>5
<1>4. CASE ~Overdue(r)  BY <1>1, <1>2, <1>4 DEF Expire, AfterExpire
<1> QED  BY <1>3, <1>4

(* A late result moves it back. *)
LEMMA LateCoins ==
    ASSUME MarketInv, MarketInv', NovaAddsUp, NEW p \in People, NEW t \in TaskIds, SubmitLate(p, t)
    PROVE  NovaAddsUp'
<1> DEFINE e == Expire(task[t])
<1>1. TaskOK(task[t]) /\ balance \in [Accounts -> Int]  BY DEF MarketInv, TasksOK
<1>2. TaskOK(e)  BY <1>1, ExpireOK
<1>3. e.shares = task[t].shares  BY <1>1, ExpiredFields
<1>4. /\ task' = [task EXCEPT ![t] = e] /\ UNCHANGED <<stake, unbonding>>
      /\ balance' = AfterExpire(task[t], balance)
      BY DEF SubmitLate
<1>5. Total(balance') = Total(balance) + Value(task[t]) - Value(e)  BY <1>1, <1>4, ExpireCoins
<1>6. Value(task[t]) \in Int /\ Value(e) \in Int  BY <1>1, <1>2, ValueIs
<1> HIDE DEF e
<1>7. Moved(0, e, t)  BY <1>4, <1>5, <1>6, PurseIs DEF Moved
<1> QED  BY <1>2, <1>3, <1>7, PlainCoins DEF Paid

(* So does accepting an overdue task; accepting another moves nothing. *)
LEMMA AcceptCoins ==
    ASSUME MarketInv, MarketInv', NovaAddsUp, NEW p \in People, NEW t \in TaskIds, Accept(p, t)
    PROVE  NovaAddsUp'
<1> DEFINE r == task[t]
           e == Expire(r)
           taken == [e EXCEPT !.accepted = @ \cup {p}]
           s == CASE e.kind = "legacy" -> taken
                  [] e.kind = "bid"    -> [taken EXCEPT !.status = "bidding"]
                  [] e.kind = "grab"   -> [taken EXCEPT !.assigned = e.assigned \cup {p},
                        !.status = IF Cardinality(e.assigned \cup {p}) >= MinNodes THEN "assigned" ELSE @]
<1>1. TaskOK(r) /\ r.status = "open" /\ balance \in [Accounts -> Int]  BY DEF Accept, MayAccept, MarketInv, TasksOK
<1>2. /\ task' = [task EXCEPT ![t] = s] /\ balance' = AfterExpire(r, balance) /\ UNCHANGED <<stake, unbonding>>
      BY DEF Accept
<1>3. TaskOK(e) /\ e \in Records /\ e.kind \in AllKinds  BY <1>1, ExpireOK DEF TaskOK, Records
<1>4. /\ s.bounty = e.bounty /\ s.refunds = e.refunds /\ s.clawed = e.clawed /\ s.shares = e.shares
      /\ s.status \in {e.status, "bidding", "assigned"}
      <2>1. CASE e.kind = "legacy"
            <3>1. s = [e EXCEPT !.accepted = @ \cup {p}]  BY <2>1
            <3> HIDE DEF s
            <3> QED  BY <1>3, <3>1 DEF Records
      <2>2. CASE e.kind = "bid"
            <3>1. s = [e EXCEPT !.accepted = @ \cup {p}, !.status = "bidding"]  BY <1>3, <2>2 DEF Records
            <3> HIDE DEF s
            <3> QED  BY <1>3, <3>1 DEF Records
      <2>3. CASE e.kind = "grab"
            <3> DEFINE st == IF Cardinality(e.assigned \cup {p}) >= MinNodes THEN "assigned" ELSE e.status
            <3>1. s = [e EXCEPT !.accepted = @ \cup {p}, !.assigned = e.assigned \cup {p}, !.status = st]
                  BY <1>3, <2>3 DEF Records
            <3>2. st \in {"assigned", e.status}  OBVIOUS
            <3> HIDE DEF s, st
            <3> QED  BY <1>3, <3>1, <3>2 DEF Records
      <2> QED  BY <1>3, <2>1, <2>2, <2>3 DEF AllKinds
<1>5. e.status = "open" \/ (e.status = "expired" /\ e.refunds # 0)
      <2>1. r.refunds \in Nat  BY <1>1 DEF TaskOK, Records
      <2>2. CASE Overdue(r)
            <3>1. e = [r EXCEPT !.status = "expired", !.refunds = @ + 1] /\ r \in Records
                  BY <1>1, <2>2 DEF Expire, Refunded, TaskOK
            <3>2. e.status = "expired" /\ e.refunds = r.refunds + 1
                  <4> HIDE DEF e, r
                  <4> QED  BY <3>1 DEF Records
            <3> HIDE DEF e, r
            <3> QED  BY <2>1, <3>2
      <2>3. CASE ~Overdue(r)  BY <1>1, <2>3 DEF Expire
      <2> QED  BY <2>2, <2>3
<1>6. e.shares = r.shares  BY <1>1, ExpiredFields
<1> HIDE DEF s
<1>7. TaskOK(s)
      <2>1. task'[t] = s  BY <1>2 DEF MarketInv, TasksOK
      <2>2. TaskOK(task'[t])  BY DEF MarketInv, TasksOK
      <2> QED  BY <2>1, <2>2
<1>8. Total(balance') = Total(balance) + Value(r) - Value(e)  BY <1>1, <1>2, ExpireCoins
<1> HIDE DEF e
<1>9. Value(s) = Value(e)  BY <1>4, <1>5, SameValue DEF Live
<1>10. Value(r) \in Int /\ Value(e) \in Int  BY <1>1, <1>3, ValueIs
<1>11. Moved(0, s, t)  BY <1>2, <1>8, <1>9, <1>10, PurseIs DEF Moved
<1> QED  BY <1>4, <1>6, <1>7, <1>11, PlainCoins DEF Paid

\* actions on one task that pay nobody
LEMMA QuietCoins ==
    ASSUME MarketInv, MarketInv', NovaAddsUp, NEW t \in TaskIds, NEW s,
           task' = [task EXCEPT ![t] = s], Value(s) = Value(task[t]), s.shares = task[t].shares,
           UNCHANGED unbonding, Total(balance') + Total(stake') = Total(balance) + Total(stake)
    PROVE  NovaAddsUp'
<1>1. TaskOK(task[t])  BY DEF MarketInv, TasksOK
<1>2. TaskOK(s)
      <2>1. task'[t] = s  BY DEF MarketInv, TasksOK
      <2>2. TaskOK(task'[t])  BY DEF MarketInv, TasksOK
      <2> QED  BY <2>1, <2>2
<1>3. Value(s) \in Int /\ Value(task[t]) \in Int  BY <1>1, <1>2, ValueIs
<1>4. Moved(0, s, t)  BY <1>3, PurseIs DEF Moved
<1> QED  BY <1>2, <1>4, PlainCoins DEF Paid

(* A bid moves nothing. *)
LEMMA BidCoins ==
    ASSUME MarketInv, MarketInv', NovaAddsUp, NEW p \in People, NEW t \in TaskIds, Bid(p, t)
    PROVE  NovaAddsUp'
<1> DEFINE r == task[t]
           s == [r EXCEPT !.bids = @ \cup {p}]
<1>1. r \in Records  BY DEF MarketInv, TasksOK, TaskOK
<1>2. /\ s.bounty = r.bounty /\ s.refunds = r.refunds /\ s.clawed = r.clawed /\ s.status = r.status
      /\ s.shares = r.shares
      BY <1>1 DEF Records
<1>3. task' = [task EXCEPT ![t] = s] /\ UNCHANGED <<balance, unbonding, stake>>  BY DEF Bid, money
<1> HIDE DEF s
<1>4. Value(s) = Value(r)  BY <1>2 DEF Value, Held, Frozen, Unowed
<1> QED  BY <1>2, <1>3, <1>4, QuietCoins

(* An award moves nothing. *)
LEMMA AwardCoins ==
    ASSUME MarketInv, MarketInv', NovaAddsUp, NEW t \in TaskIds, NEW ws \in SUBSET People, Award(t, ws)
    PROVE  NovaAddsUp'
<1> DEFINE r == task[t]
           s == [r EXCEPT !.assigned = ws, !.accepted = ws, !.status = "assigned"]
<1>1. r \in Records /\ r.status \in {"open", "bidding"}  BY DEF MarketInv, TasksOK, TaskOK, Award
<1>2. /\ s.bounty = r.bounty /\ s.refunds = r.refunds /\ s.clawed = r.clawed /\ s.status = "assigned"
      /\ s.shares = r.shares
      BY <1>1 DEF Records
<1>3. task' = [task EXCEPT ![t] = s] /\ UNCHANGED <<balance, unbonding, stake>>  BY DEF Award, money
<1> HIDE DEF s
<1>4. Value(s) = Value(r)
      <2>1. {s.status, r.status} \subseteq Live  BY <1>1, <1>2 DEF Live
      <2> HIDE DEF r
      <2> QED  BY <1>2, <2>1 DEF Value, Held, Frozen, Unowed, Live
<1> QED  BY <1>2, <1>3, <1>4, QuietCoins

(* A vote moves nothing. *)
LEMMA VoteCoins ==
    ASSUME MarketInv, MarketInv', NovaAddsUp, NEW p \in People, NEW t \in TaskIds, NEW choice,
           Vote(p, t, choice)
    PROVE  NovaAddsUp'
<1> DEFINE r == task[t]
           s == [r EXCEPT !.votes = Put(@, p, choice)]
<1>1. r \in Records  BY DEF MarketInv, TasksOK, TaskOK
<1>2. /\ s.bounty = r.bounty /\ s.refunds = r.refunds /\ s.clawed = r.clawed /\ s.status = r.status
      /\ s.shares = r.shares
      BY <1>1 DEF Records
<1>3. task' = [task EXCEPT ![t] = s] /\ UNCHANGED <<balance, unbonding, stake>>  BY DEF Vote, money
<1> HIDE DEF s
<1>4. Value(s) = Value(r)  BY <1>2 DEF Value, Held, Frozen, Unowed
<1> QED  BY <1>2, <1>3, <1>4, QuietCoins

\* A dispute freezes what it takes back.
LEMMA DisputeCoins ==
    ASSUME MarketInv, MarketInv', NovaAddsUp, NEW t \in TaskIds, Dispute(t)
    PROVE  NovaAddsUp'
<1> DEFINE r == task[t]
           D == Paid(r)
           claw == [w \in Paid(r) |-> IF balance[w] < r.shares[w] THEN balance[w] ELSE r.shares[w]]
           back == [w \in Paid(r) |-> -claw[w]]
           s == [r EXCEPT !.status = "disputed", !.clawed = claw, !.votes = [v \in {} |-> ""]]
<1>1. TaskOK(r) /\ r.status = "completed" /\ r \in Records  BY DEF Dispute, MarketInv, TasksOK, TaskOK
<1>2. D \subseteq People /\ D \subseteq Accounts /\ IsFiniteSet(D)
      <2>1. D \subseteq People  BY <1>1 DEF TaskOK, UnsettledOK, PartiesOK
      <2> HIDE DEF D
      <2> QED  BY <2>1, ComputeAssumption, FS_Subset, AccountsFinite
<1>3. \A w \in D : claw[w] \in Int
      <2>1. r.shares \in Maps(Int)  BY <1>1 DEF Records
      <2>2. \A w \in D : r.shares[w] \in Int  BY <2>1, InMaps DEF Paid
      <2>3. \A w \in D : balance[w] \in Int  BY <1>2 DEF MarketInv
      <2> QED  BY <2>2, <2>3
<1>4. /\ task' = [task EXCEPT ![t] = s] /\ UNCHANGED <<stake, unbonding>>
      /\ balance' = CreditAll(balance, back)
      BY DEF Dispute
<1>5. DOMAIN claw = D /\ DOMAIN back = D /\ \A w \in D : back[w] = -claw[w]  OBVIOUS
<1> HIDE DEF claw, back, D
<1>6. /\ s.bounty = r.bounty /\ s.refunds = r.refunds /\ s.clawed = claw /\ s.status = "disputed"
      /\ s.shares = r.shares
      BY <1>1 DEF Records
<1> HIDE DEF s
<1>7. Total(claw) + Total(back) = 0 /\ Total(claw) \in Int /\ Total(back) \in Int
      <2> DEFINE z == [w \in D |-> 0]
      <2>1. \A w \in D : claw[w] \in Int /\ back[w] \in Int /\ z[w] = claw[w] + back[w]  BY <1>3, <1>5
      <2>2. SumFunctionOnSet(z, D) = SumFunctionOnSet(claw, D) + SumFunctionOnSet(back, D)
            <3> HIDE DEF z
            <3> QED  BY <1>2, <2>1, SumPlus
      <2>3. SumFunction(z) = 0  BY <1>2, TotalZero
      <2>4. SumFunction(z) = SumFunctionOnSet(z, D)  BY TotalIs
      <2> HIDE DEF z
      <2>5. SumFunctionOnSet(claw, D) \in Int /\ SumFunctionOnSet(back, D) \in Int  BY <1>2, <2>1, SumIsInt
      <2>6. Total(claw) = SumFunctionOnSet(claw, D) /\ Total(back) = SumFunctionOnSet(back, D)
            BY <1>5, TotalIs DEF Total
      <2> QED  BY <2>2, <2>3, <2>4, <2>5, <2>6
<1>8. Total(balance') = Total(balance) + Total(back)
      <2>1. \A w \in D : back[w] \in Int  BY <1>3, <1>5
      <2>2. balance \in [Accounts -> Int] /\ D \in SUBSET Accounts  BY <1>2 DEF MarketInv
      <2>3. Total(CreditAll(balance, back)) = Total(balance) + Total(back)
            BY <1>5, <2>1, <2>2, CreditAllTotal
      <2> QED  BY <1>4, <2>3
<1>9. Value(s) = Value(r) + Total(claw)
      <2>1. Unowed(s) = Unowed(r) /\ Unowed(r) \in Int  BY <1>1, <1>6, ValueIs DEF Unowed
      <2>2. Held(s) = 0 /\ Held(r) = 0 /\ Frozen(r) = 0 /\ Frozen(s) = Total(claw)
            BY <1>1, <1>6 DEF Held, Frozen, Live
      <2> QED  BY <1>7, <2>1, <2>2 DEF Value
<1>10. TaskOK(s)
      <2>1. task'[t] = s  BY <1>4 DEF MarketInv, TasksOK
      <2>2. TaskOK(task'[t])  BY DEF MarketInv, TasksOK
      <2> QED  BY <2>1, <2>2
<1>11. Value(r) \in Int /\ Value(s) \in Int  BY <1>1, <1>10, ValueIs
<1>12. Moved(0, s, t)  BY <1>4, <1>7, <1>8, <1>9, <1>11, PurseIs DEF Moved
<1> QED  BY <1>6, <1>10, <1>12, PlainCoins DEF Paid

\* A settlement pays the bounty out, but for the rounding.
LEMMA SettledCoins ==
    ASSUME MarketInv, MarketInv', NovaAddsUp, NEW t \in TaskIds, NEW s,
           task[t].status \in Live, task[t].refunds = 0,
           task' = [task EXCEPT ![t] = s], s.status = "completed", s.refunds = 0, Paid(s) # {},
           NEW d \in {0, 1}, Total(balance') = Total(balance) + (task[t].bounty - d),
           UNCHANGED <<stake, unbonding>>
    PROVE  NovaAddsUp'
<1> DEFINE r == task[t]
<1>1. TaskOK(r)  BY DEF MarketInv, TasksOK
<1>2. TaskOK(s)
      <2>1. task'[t] = s  BY DEF MarketInv, TasksOK
      <2>2. TaskOK(task'[t])  BY DEF MarketInv, TasksOK
      <2> QED  BY <2>1, <2>2
<1>3. r.bounty \in Int  BY <1>1, ValueIs
<1>4. Value(r) = r.bounty
      <2>1. Held(r) = r.bounty /\ Frozen(r) = 0 /\ Unowed(r) = 0  BY DEF Held, Frozen, Unowed, Live
      <2> QED  BY <1>3, <2>1 DEF Value
<1>5. Value(s) = 0
      <2>1. Held(s) = 0 /\ Frozen(s) = 0 /\ Unowed(s) = 0  BY DEF Held, Frozen, Unowed, Live
      <2> QED  BY <2>1 DEF Value
<1>6. Paid(r) = {}  BY <1>1 DEF TaskOK, UnsettledOK
<1>7. Moved(d, s, t)  BY <1>3, <1>4, <1>5, PurseIs DEF Moved
<1> QED  BY <1>2, <1>6, <1>7, PlainCoins

(* A settlement between two workers pays the bounty, up to one unit. *)
LEMMA SettleTotal ==
    ASSUME NEW r, r.bounty \in Nat, NEW v \in People, NEW w \in People, NEW b \in [Accounts -> Int]
    PROVE  /\ \E d \in {0, 1} : Total(AfterSettle(r, {v, w}, b)) = Total(b) + (r.bounty - d)
           /\ v # w => \E d \in {0, 1} : Total(CreditAll(b, Half(r, {v, w}))) = Total(b) + (r.bounty - d)
<1> DEFINE ws == {v, w}
           f == Shares(r, ws)
           g == Half(r, ws)
           fee == r.bounty \div 100
           c == Credit(b, Pool, fee)
<1>1. ws \in SUBSET Accounts /\ ws \subseteq People /\ ws # {}  BY AccountsFinite
<1> HIDE DEF ws
<1>2. f \in [ws -> Int] /\ g \in [ws -> Int]  BY <1>1, SharesAre
<1>3. fee \in Int  OBVIOUS
<1>4. /\ \E d \in {0, 1} : fee + Total(f) = r.bounty - d
      /\ v # w => \E d \in {0, 1} : Total(g) = r.bounty - d
      BY SharesTotal DEF ws
<1> HIDE DEF f, g, fee
<1>5. Total(c) = Total(b) + fee /\ c \in [Accounts -> Int]  BY <1>3, AccountsFinite, CreditTotal, CreditIs
<1> HIDE DEF c
<1>6. DOMAIN f = ws /\ DOMAIN g = ws /\ \A x \in ws : f[x] \in Int /\ g[x] \in Int  BY <1>2
<1>7. Total(CreditAll(c, f)) = Total(c) + Total(f)  BY <1>1, <1>5, <1>6, CreditAllTotal
<1>8. Total(CreditAll(b, g)) = Total(b) + Total(g)  BY <1>1, <1>6, CreditAllTotal
<1>9. Total(b) \in Int /\ Total(f) \in Int  BY <1>1, <1>6, AccountsFinite, TotalInt, MapTotal DEF Total
<1>10. \E d \in {0, 1} : Total(CreditAll(c, f)) = Total(b) + (r.bounty - d)
      <2> PICK d \in {0, 1} : fee + Total(f) = r.bounty - d  BY <1>4
      <2>1. Total(CreditAll(c, f)) = Total(b) + (r.bounty - d)  BY <1>3, <1>5, <1>7, <1>9
      <2> QED  BY <2>1
<1>11. AfterSettle(r, ws, b) = CreditAll(c, f)  BY DEF AfterSettle, c, f, fee
<1> QED  BY <1>4, <1>8, <1>10, <1>11 DEF ws, g

(* A result that settles the task pays the bounty out of the market. *)
LEMMA SubmitCoins ==
    ASSUME MarketInv, MarketInv', NovaAddsUp,
           NEW w \in People, NEW t \in TaskIds, NEW h \in Hashes, Submit(w, t, h)
    PROVE  NovaAddsUp'
<1> DEFINE r == task[t]
           done == [r EXCEPT !.results = Put(@, w, h)]
           a == Agreeing(r, w, h)
<1>1. /\ TaskOK(r) /\ r \in Records /\ MaySubmit(r, w) /\ InTime(r) /\ r.bounty \in Nat
      /\ balance \in [Accounts -> Int]
      BY DEF Submit, MarketInv, TasksOK, TaskOK, Records
<1>2. r.status \in Live /\ w \notin DOMAIN r.results /\ r.refunds = 0  BY <1>1, InTimeIs
<1>3. UNCHANGED <<stake, unbonding>>  BY DEF Submit
<1>4. CASE Cardinality(a) = 1
      <2> DEFINE st == IF r.kind = "legacy" THEN done.status
                       ELSE IF DOMAIN r.results # {} THEN "arbitrating" ELSE "submitted"
                 s == [done EXCEPT !.status = st]
      <2>1. task' = [task EXCEPT ![t] = s] /\ UNCHANGED balance  BY <1>4 DEF Submit
      <2>2. st \in Live
            <3>1. done.status = r.status  BY <1>1 DEF Records
            <3> HIDE DEF done
            <3> QED  BY <1>2, <3>1 DEF Live
      <2> HIDE DEF st
      <2>3. /\ s.bounty = r.bounty /\ s.refunds = r.refunds /\ s.clawed = r.clawed /\ s.status = st
            /\ s.shares = r.shares
            BY <1>1 DEF Records
      <2> HIDE DEF s
      <2>4. Value(s) = Value(r)
            <3>1. {s.status, r.status} \subseteq Live  BY <1>2, <2>2, <2>3
            <3> HIDE DEF r
            <3> QED  BY <2>3, <3>1 DEF Value, Held, Frozen, Unowed, Live
      <2> QED  BY <1>3, <2>1, <2>3, <2>4, QuietCoins
<1>5. CASE Cardinality(a) # 1
      <2>1. PICK v \in People : v # w /\ a = {v, w}
            <3>1. DOMAIN r.results \subseteq People  BY <1>1 DEF TaskOK, PartiesOK
            <3>2. \E v \in DOMAIN r.results : v # w /\ a = {v, w}
                  <4>1. a = Agreeing(r, w, h)  OBVIOUS
                  <4> HIDE DEF a, r
                  <4> QED  BY <1>1, <1>2, <1>5, <4>1, AgreeingIs
            <3> QED  BY <3>1, <3>2
      <2>2. done.bounty = r.bounty /\ done.refunds = 0
            BY <1>1, <1>2 DEF Records
      <2>3. CASE r.kind = "legacy"
            <3> DEFINE s == [done EXCEPT !.status = "completed", !.shares = Half(r, a)]
            <3>1. task' = [task EXCEPT ![t] = s] /\ balance' = CreditAll(balance, Half(r, a))
                  BY <1>5, <2>3 DEF Submit
            <3>2. s.status = "completed" /\ s.refunds = 0 /\ s.shares = Half(r, a)
                  <4> HIDE DEF a
                  <4> QED  BY <1>1, <1>2 DEF Records
            <3>3. Paid(s) # {}
                  <4>1. DOMAIN Half(r, a) = a  BY DEF Half
                  <4> HIDE DEF s, a
                  <4> QED  BY <2>1, <3>2, <4>1 DEF Paid
            <3> HIDE DEF s, a, done
            <3>4. PICK d \in {0, 1} : Total(balance') = Total(balance) + (r.bounty - d)
                  BY <1>1, <2>1, <3>1, SettleTotal
            <3> QED  BY <1>2, <1>3, <3>1, <3>2, <3>3, <3>4, SettledCoins
      <2>4. CASE r.kind # "legacy"
            <3> DEFINE s == Settled(done, a)
            <3>1. task' = [task EXCEPT ![t] = s] /\ balance' = AfterSettle(done, a, balance)
                  BY <1>5, <2>4 DEF Submit
            <3>2. s.status = "completed" /\ s.refunds = 0 /\ s.shares = Shares(done, a)
                  <4>1. s = [done EXCEPT !.status = "completed", !.shares = Shares(done, a), !.window = Window]
                        BY DEF Settled
                  <4> DEFINE f == Shares(done, a)
                  <4> HIDE DEF a, f, s
                  <4> QED  BY <1>1, <1>2, <4>1 DEF Records, f
            <3>3. Paid(s) # {}
                  <4>1. DOMAIN Shares(done, a) = a  BY DEF Shares
                  <4> HIDE DEF s, a, done
                  <4> QED  BY <2>1, <3>2, <4>1 DEF Paid
            <3> HIDE DEF s, a, done
            <3>4. PICK d \in {0, 1} : Total(balance') = Total(balance) + (r.bounty - d)
                  <4>1. done.bounty \in Nat  BY <1>1, <2>2
                  <4>2. \E d \in {0, 1} : Total(AfterSettle(done, {v, w}, balance)) = Total(balance) + (done.bounty - d)
                        BY <1>1, <4>1, SettleTotal
                  <4> QED  BY <2>1, <2>2, <3>1, <4>2
            <3> QED  BY <1>2, <1>3, <3>1, <3>2, <3>3, <3>4, SettledCoins
      <2> QED  BY <2>3, <2>4
<1> QED  BY <1>4, <1>5

(* What slashed workers lose is what leaves the stakes. *)
LEMMA SlashedTotal ==
    ASSUME MarketInv, NEW ws, ws \subseteq People
    PROVE  Total(Slashed(ws)) = Total(stake) - Forfeit(ws) /\ Forfeit(ws) \in Int
<1>1. IsFiniteSet(People) /\ stake \in [People -> Int] /\ ws \in SUBSET People
      BY ComputeAssumption DEF MarketInv
<1> QED  BY <1>1, TotalCut DEF Slashed, Forfeit, Total

(* A verdict pays the bounty or refunds it, and then moves what the wrong
   ones forfeit to the fund. *)
LEMMA ArbitrateCoins ==
    ASSUME MarketInv, MarketInv', NovaAddsUp,
           NEW a \in People, NEW t \in TaskIds, NEW h \in Hashes, Arbitrate(a, t, h)
    PROVE  NovaAddsUp'
<1> DEFINE r == task[t]
           c == {w \in DOMAIN r.results : r.results[w] = h}
           wrong == DOMAIN r.results \ c
           judged == [r EXCEPT !.arbiter = a, !.verdict = h]
<1>1. /\ TaskOK(r) /\ r \in Records /\ r.status = "arbitrating" /\ r.bounty \in Nat
      /\ balance \in [Accounts -> Int]
      BY DEF Arbitrate, MarketInv, TasksOK, TaskOK, Records
<1>2. c \subseteq People /\ wrong \subseteq People  BY <1>1 DEF TaskOK, PartiesOK
<1>3. UNCHANGED unbonding  BY DEF Arbitrate
<1>4. r.status \in Live /\ r.refunds = 0 /\ r.creator \in Accounts
      BY <1>1 DEF TaskOK, RefundOK, PartiesOK, Records, Live, Accounts
<1>5. /\ judged.bounty = r.bounty /\ judged.refunds = r.refunds /\ judged.shares = r.shares
      /\ judged.status = r.status /\ judged.clawed = r.clawed /\ judged \in Records
      BY <1>1 DEF Records
<1>6. CASE c = {}
      <2> DEFINE s == Refunded(judged, "failed")
                 n == Forfeit(wrong)
                 b == Credit(balance, Fund, n)
      <2>1. task' = [task EXCEPT ![t] = s] /\ stake' = Slashed(wrong) /\ balance' = Credit(b, r.creator, r.bounty)
            BY <1>6 DEF Arbitrate
      <2>2. s.shares = r.shares /\ s.status = "failed" /\ s.refunds = 1 /\ s.bounty = r.bounty
            <3> HIDE DEF judged
            <3> QED  BY <1>4, <1>5 DEF Refunded, Records
      <2> HIDE DEF c, wrong, judged, s
      <2>3. Total(stake') = Total(stake) - n /\ n \in Int  BY <1>2, <2>1, SlashedTotal
      <2>4. b \in [Accounts -> Int] /\ Total(b) = Total(balance) + n
            BY <1>1, <2>3, AccountsFinite, CreditIs, CreditTotal
      <2> HIDE DEF b, n
      <2>5. Total(balance') = Total(b) + r.bounty  BY <1>1, <1>4, <2>1, <2>4, CreditTotal
      <2>6. Value(r) = r.bounty
            <3>1. Held(r) = r.bounty /\ Frozen(r) = 0 /\ Unowed(r) = 0  BY <1>1, <1>4 DEF Held, Frozen, Unowed
            <3> QED  BY <1>1, <3>1 DEF Value
      <2>7. Value(s) = 0
            <3>1. Held(s) = 0 /\ Frozen(s) = 0 /\ Unowed(s) = 0  BY <2>2 DEF Held, Frozen, Unowed, Live
            <3> QED  BY <3>1 DEF Value
      <2>8. TaskOK(s)
            <3>1. task'[t] = s  BY <2>1 DEF MarketInv, TasksOK
            <3>2. TaskOK(task'[t])  BY DEF MarketInv, TasksOK
            <3> QED  BY <3>1, <3>2
      <2>9. Moved(0, s, t)  BY <1>1, <1>3, <2>1, <2>3, <2>4, <2>5, <2>6, <2>7, PurseIs DEF Moved
      <2> QED  BY <2>2, <2>8, <2>9, PlainCoins DEF Paid
<1>7. CASE c # {}
      <2> DEFINE s == Settled(judged, c)
      <2>1. task' = [task EXCEPT ![t] = s] /\ balance' = AfterSettle(judged, c, balance) /\ UNCHANGED stake
            BY <1>7 DEF Arbitrate
      <2>2. s.status = "completed" /\ s.refunds = 0 /\ s.shares = Shares(judged, c)
            <3>1. s = [judged EXCEPT !.status = "completed", !.shares = Shares(judged, c), !.window = Window]
                  BY DEF Settled
            <3> DEFINE f == Shares(judged, c)
            <3> HIDE DEF c, f, s, judged
            <3> QED  BY <1>4, <1>5, <3>1 DEF Records, f
      <2>3. Paid(s) # {}
            <3>1. DOMAIN Shares(judged, c) = c  BY DEF Shares
            <3> HIDE DEF s, c, judged
            <3> QED  BY <1>7, <2>2, <3>1 DEF Paid
      <2>4. PICK w \in People : c = {w, w}
            <3>1. \A v, w \in c : v = w  BY <1>4 DEF TaskOK, UnsettledOK, MarketInv, TasksOK
            <3> HIDE DEF c
            <3> PICK w \in c : TRUE  BY <1>7
            <3>2. c = {w, w}  BY <3>1
            <3> QED  BY <1>2, <3>2
      <2> HIDE DEF s, c, judged
      <2>5. PICK d \in {0, 1} : Total(balance') = Total(balance) + (r.bounty - d)
            <3>1. judged.bounty \in Nat  BY <1>1, <1>5
            <3>2. \E d \in {0, 1} : Total(AfterSettle(judged, {w, w}, balance)) = Total(balance) + (judged.bounty - d)
                  BY <1>1, <3>1, SettleTotal
            <3> QED  BY <1>5, <2>1, <2>4, <3>2
      <2> QED  BY <1>3, <1>4, <2>1, <2>2, <2>3, <2>5, SettledCoins
<1> QED  BY <1>6, <1>7

(* An audit that agrees pays the auditor out of the fund. *)
LEMMA AuditPassCoins ==
    ASSUME MarketInv, MarketInv', NovaAddsUp, NEW t \in TaskIds, task[t].auditor \in People, AuditPass(t)
    PROVE  NovaAddsUp'
<1> DEFINE r == task[t]
           s == [r EXCEPT !.audit = "passed"]
           n == IF balance[Fund] >= AuditReward THEN AuditReward ELSE 0
           b == Credit(balance, Fund, -n)
<1>1. r \in Records /\ balance \in [Accounts -> Int]  BY DEF MarketInv, TasksOK, TaskOK
<1>2. /\ s.bounty = r.bounty /\ s.refunds = r.refunds /\ s.clawed = r.clawed /\ s.status = r.status
      /\ s.shares = r.shares
      BY <1>1 DEF Records
<1>3. task' = [task EXCEPT ![t] = s] /\ balance' = Credit(b, r.auditor, n) /\ UNCHANGED <<unbonding, stake>>
      BY DEF AuditPass
<1>4. n \in Int /\ -n \in Int  BY ComputeAssumption
<1> HIDE DEF s, n
<1>5. Value(s) = Value(r)  BY <1>2 DEF Value, Held, Frozen, Unowed
<1>6. b \in [Accounts -> Int] /\ Total(b) = Total(balance) + (-n)
      BY <1>1, <1>4, AccountsFinite, CreditIs, CreditTotal
<1> HIDE DEF b
<1>7. Total(balance') = Total(b) + n  BY <1>3, <1>4, <1>6, AccountsFinite, CreditTotal
<1>8. Total(balance') + Total(stake') = Total(balance) + Total(stake)
      BY <1>3, <1>4, <1>6, <1>7, PurseIs
<1> QED  BY <1>2, <1>3, <1>5, <1>8, QuietCoins

(* One that fails moves the penalty from the workers' stakes and balances to
   the fund. *)
LEMMA AuditFailCoins ==
    ASSUME MarketInv, MarketInv', NovaAddsUp, NEW t \in TaskIds, AuditFail(t)
    PROVE  NovaAddsUp'
<1> DEFINE r == task[t]
           D == Paid(r)
           s == [r EXCEPT !.audit = "failed"]
           own == [w \in Paid(r) |-> stake[w] + (IF balance[w] > 0 THEN balance[w] ELSE 0)]
           penalty == [w \in Paid(r) |-> IF 2 * stake[w] < own[w] THEN 2 * stake[w] ELSE own[w]]
           f == [w \in Paid(r) |-> stake[w] - penalty[w]]
           b == CreditAll(balance, f)
           n == Total(penalty)
<1>1. r \in Records /\ TaskOK(r) /\ balance \in [Accounts -> Int]  BY DEF MarketInv, TasksOK, TaskOK
<1>2. /\ s.bounty = r.bounty /\ s.refunds = r.refunds /\ s.clawed = r.clawed /\ s.status = r.status
      /\ s.shares = r.shares
      BY <1>1 DEF Records
<1>3. /\ task' = [task EXCEPT ![t] = s] /\ balance' = Credit(b, Fund, n) /\ UNCHANGED unbonding
      /\ stake' = Slashed(D)
      BY DEF AuditFail
<1>4. D \subseteq People /\ D \subseteq Accounts /\ IsFiniteSet(D)
      <2>1. D \subseteq People  BY <1>1 DEF TaskOK, UnsettledOK, PartiesOK
      <2> HIDE DEF D
      <2> QED  BY <2>1, ComputeAssumption, FS_Subset, AccountsFinite
<1>5. \A w \in D : penalty[w] \in Int /\ stake[w] \in Int
      <2>1. \A w \in D : stake[w] \in Int /\ balance[w] \in Int  BY <1>1, <1>4 DEF MarketInv
      <2>2. \A w \in D : own[w] \in Int  BY <2>1
      <2> HIDE DEF own
      <2> QED  BY <2>1, <2>2
<1>6. DOMAIN f = D /\ DOMAIN penalty = D /\ \A w \in D : f[w] = stake[w] - penalty[w]  OBVIOUS
<1> HIDE DEF penalty, f, D, s
<1>7. Total(f) + Total(penalty) = Forfeit(D) /\ Total(f) \in Int /\ Total(penalty) \in Int
      <2>1. \A w \in D : f[w] \in Int /\ penalty[w] \in Int /\ stake[w] = f[w] + penalty[w]  BY <1>5, <1>6
      <2>2. SumFunctionOnSet(stake, D) = SumFunctionOnSet(f, D) + SumFunctionOnSet(penalty, D)
            BY <1>4, <2>1, SumPlus
      <2>3. SumFunctionOnSet(f, D) \in Int /\ SumFunctionOnSet(penalty, D) \in Int  BY <1>4, <2>1, SumIsInt
      <2>4. Total(f) = SumFunctionOnSet(f, D) /\ Total(penalty) = SumFunctionOnSet(penalty, D)
            BY <1>6, TotalIs DEF Total
      <2> QED  BY <2>2, <2>3, <2>4 DEF Forfeit
<1>8. Total(b) = Total(balance) + Total(f) /\ b \in [Accounts -> Int]
      <2>1. \A w \in D : f[w] \in Int  BY <1>5, <1>6
      <2>2. D \in SUBSET Accounts  BY <1>4
      <2>3. Total(CreditAll(balance, f)) = Total(balance) + Total(f)  BY <1>1, <1>6, <2>1, <2>2, CreditAllTotal
      <2>4. f \in [DOMAIN f -> Int]
            <3>1. f = [w \in D |-> stake[w] - penalty[w]]  BY DEF f, D
            <3> QED  BY <1>5, <1>6, <3>1
      <2>5. CreditAll(balance, f) \in [Accounts -> Int]  BY <1>1, <2>4, CreditAllIs
      <2> QED  BY <2>3, <2>5
<1>9. n \in Int  BY <1>7
<1> HIDE DEF b, n
<1>10. Total(balance') = Total(b) + n  BY <1>3, <1>8, <1>9, AccountsFinite, CreditTotal
<1>11. Total(stake') = Total(stake) - Forfeit(D) /\ Forfeit(D) \in Int  BY <1>3, <1>4, SlashedTotal
<1>12. Value(s) = Value(r)  BY <1>2 DEF Value, Held, Frozen, Unowed
<1>13. Total(balance') + Total(stake') = Total(balance) + Total(stake)
       BY <1>7, <1>8, <1>10, <1>11, PurseIs DEF n
<1> QED  BY <1>2, <1>3, <1>12, <1>13, QuietCoins

\* an action that pays for no result and moves what it takes
LEMMA FlowCoins ==
    ASSUME MarketInv, MarketInv', NovaAddsUp,
           \A t \in TaskIds : task'[t].shares = task[t].shares,
           Purse' + Escrow(task') = Purse + Escrow(task)
    PROVE  NovaAddsUp'
<1>1. Settlements' = Settlements
      <2> DEFINE A == {t \in TaskIds : Paid(task[t]) # {}}
                 B == {t \in TaskIds : Paid(task'[t]) # {}}
      <2>1. A = B  BY DEF Paid
      <2>2. Settlements = Cardinality(A) /\ Settlements' = Cardinality(B)  BY DEF Settlements
      <2> QED  BY <2>1, <2>2
<1>2. Given - (Purse + Escrow(task)) \in 0..Settlements  BY NovaIs
<1>3. NovaAddsUp' <=> Given - (Purse' + Escrow(task')) \in 0..Settlements'
      <2>1. Escrow(task)' = Escrow(task')  BY DEF Escrow, Value, Held, Frozen, Unowed
      <2>2. NovaAddsUp' <=> (Given - (Purse + Escrow(task)) \in 0..Settlements)'  BY NovaIsNext
      <2> QED  BY <2>1, <2>2 DEF Given
<1> QED  BY <1>1, <1>2, <1>3

(* They move a stake between balance, stake and what waits. *)
LEMMA NodeCoins ==
    ASSUME MarketInv, MarketInv', NovaAddsUp, NodeStep
    PROVE  NovaAddsUp'
<1> DEFINE u == [p \in People |-> unbonding[p].amount]
<1>1. UNCHANGED task  BY DEF NodeStep, Register, Claim, Stake, Unstake
<1>2. /\ Purse = Total(balance) + Total(stake) + Total(u)
      /\ Total(balance) \in Int /\ Total(stake) \in Int /\ Total(u) \in Int
      /\ u \in [People -> Int] /\ stake \in [People -> Int] /\ IsFiniteSet(People)
      /\ balance \in [Accounts -> Int]
      BY PurseIs, ComputeAssumption DEF Purse, MarketInv
<1>3. Purse' = Total(balance') + Total(stake') + Total([p \in People |-> unbonding'[p].amount])
      BY DEF Purse, Total
<1>4. ASSUME NEW p \in People, Register(p) PROVE Purse' = Purse
      BY <1>4, <1>2, <1>3 DEF Register, money
<1>5. ASSUME NEW p \in People, Claim(p) PROVE Purse' = Purse
      <2> DEFINE n == unbonding[p].amount
      <2>1. n \in Int /\ p \in Accounts /\ u[p] = n  BY <1>2 DEF Accounts
      <2>2. Total(balance') = Total(balance) + n  BY <1>2, <1>5, <2>1, CreditTotal DEF Claim
      <2>3. [q \in People |-> unbonding'[q].amount] = [u EXCEPT ![p] = 0]  BY <1>5 DEF Claim, MarketInv
      <2> HIDE DEF u, n
      <2>4. u \in [People -> Int] /\ IsFiniteSet(People) /\ p \in People /\ 0 \in Int  BY <1>2
      <2>5. SumFunction([u EXCEPT ![p] = 0]) = SumFunction(u) - u[p] + 0  BY <2>4, TotalPut
      <2>6. UNCHANGED stake  BY <1>5 DEF Claim
      <2> QED  BY <1>2, <1>3, <2>1, <2>2, <2>3, <2>5, <2>6 DEF Total
<1>6. ASSUME NEW p \in Stakers, NEW amt \in StakeAmounts, Stake(p, amt) PROVE Purse' = Purse
      <2>1. p \in People /\ p \in Accounts /\ amt \in Int /\ -amt \in Int  BY ComputeAssumption DEF Accounts
      <2>2. Total(balance') = Total(balance) + (-amt)  BY <1>2, <1>6, <2>1, CreditTotal DEF Stake
      <2> DEFINE n == stake[p] + amt
      <2>3. stake' = [stake EXCEPT ![p] = n] /\ n \in Int /\ stake[p] \in Int  BY <1>2, <1>6, <2>1 DEF Stake
      <2> HIDE DEF n
      <2>4. SumFunction([stake EXCEPT ![p] = n]) = SumFunction(stake) - stake[p] + n  BY ZenonT(30), <1>2, <2>1, <2>3, TotalPut
      <2>5. Total(stake') = Total(stake) + amt  BY <1>2, <2>1, <2>3, <2>4 DEF Total, n
      <2>6. UNCHANGED unbonding  BY <1>6 DEF Stake
      <2> QED  BY <1>2, <1>3, <2>1, <2>2, <2>5, <2>6
<1>7. ASSUME NEW p \in Stakers, NEW amt \in StakeAmounts, Unstake(p, amt) PROVE Purse' = Purse
      <2>1. p \in People /\ amt \in Int /\ u[p] = unbonding[p].amount /\ u[p] \in Int
            BY <1>2, ComputeAssumption
      <2> DEFINE n == stake[p] - amt
                 k == u[p] + amt
      <2>2. stake' = [stake EXCEPT ![p] = n] /\ n \in Int /\ stake[p] \in Int  BY <1>2, <1>7, <2>1 DEF Unstake
      <2>3. [q \in People |-> unbonding'[q].amount] = [u EXCEPT ![p] = k]
            BY <1>7, <2>1 DEF Unstake, Unbonding, MarketInv
      <2>4. k \in Int  BY <2>1
      <2> HIDE DEF n, k, u
      <2>5. SumFunction([stake EXCEPT ![p] = n]) = SumFunction(stake) - stake[p] + n  BY ZenonT(30), <1>2, <2>1, <2>2, TotalPut
      <2>6. u \in [People -> Int] /\ IsFiniteSet(People) /\ p \in People /\ k \in Int  BY <1>2, <2>1, <2>4
      <2>7. SumFunction([u EXCEPT ![p] = k]) = SumFunction(u) - u[p] + k  BY <2>6, TotalPut
      <2>8. Total(stake') = Total(stake) - amt  BY <1>2, <2>1, <2>2, <2>5 DEF Total, n
      <2>9. Total([q \in People |-> unbonding'[q].amount]) = Total(u) + amt
            BY <1>2, <2>1, <2>3, <2>4, <2>7 DEF Total, k
      <2>10. UNCHANGED balance  BY <1>7 DEF Unstake
      <2> QED  BY <1>2, <1>3, <2>1, <2>8, <2>9, <2>10
<1>8. Purse' = Purse  BY <1>4, <1>5, <1>6, <1>7 DEF NodeStep
<1>9. Escrow(task') = Escrow(task)  BY <1>1
<1> QED  BY <1>1, <1>8, <1>9, FlowCoins

(* Time moves nothing. *)
LEMMA TickCoins ==
    ASSUME MarketInv, MarketInv', NovaAddsUp, Tick
    PROVE  NovaAddsUp'
<1>1. ASSUME NEW t \in TaskIds
      PROVE  Value(task'[t]) = Value(task[t]) /\ task'[t].shares = task[t].shares
      <2> DEFINE r == task[t]
                 s == [r EXCEPT !.left = Less(@), !.window = Less(@)]
      <2>1. r \in Records  BY DEF MarketInv, TasksOK, TaskOK
      <2>2. /\ s.bounty = r.bounty /\ s.refunds = r.refunds /\ s.clawed = r.clawed /\ s.status = r.status
            /\ s.shares = r.shares
            BY <2>1 DEF Records
      <2>3. task'[t] = s  BY DEF Tick
      <2> HIDE DEF s
      <2>4. Value(s) = Value(r)  BY <2>2 DEF Value, Held, Frozen, Unowed
      <2> QED  BY <2>2, <2>3, <2>4
<1>2. Escrow(task') = Escrow(task)
      <2>1. [t \in TaskIds |-> Value(task'[t])] = [t \in TaskIds |-> Value(task[t])]  BY <1>1
      <2> QED  BY <2>1 DEF Escrow
<1>3. Purse' = Purse
      <2>1. [p \in People |-> unbonding'[p].amount] = [p \in People |-> unbonding[p].amount]
            BY ZenonT(30) DEF Tick, MarketInv
      <2>2. UNCHANGED <<balance, stake>>  BY DEF Tick
      <2> QED  BY <2>1, <2>2 DEF Purse, Total
<1> QED  BY <1>1, <1>2, <1>3, FlowCoins

\* what the maintenance hands out of a task, and to whom
Handed(r) == IF Overdue(r) THEN [p \in {r.creator} |-> r.bounty]
             ELSE IF Decided(r) THEN Unfrozen(r) ELSE [p \in {} |-> 0]
Entry(f, a) == IF a \in DOMAIN f THEN f[a] ELSE 0

(* A map with one entry. *)
LEMMA OneTotal ==
    ASSUME NEW p \in People, NEW n \in Int
    PROVE  Total([q \in {p} |-> n]) = n
<1> DEFINE f == [q \in {p} |-> n]
<1>1. DOMAIN f = {p, p} /\ f[p] \in Int /\ f[p] = n  OBVIOUS
<1> HIDE DEF f
<1>2. Total(f) = IF p = p THEN f[p] ELSE f[p] + f[p]  BY <1>1, PairTotal
<1> QED  BY <1>1, <1>2 DEF f

(* What the end of a dispute hands out is what the market held of it. *)
LEMMA HandedIs ==
    ASSUME NEW r, TaskOK(r), NEW s, s = Resolved(r)
    PROVE  /\ DOMAIN Handed(r) \subseteq People /\ \A p \in DOMAIN Handed(r) : Handed(r)[p] \in Int
           /\ Total(Handed(r)) \in Int /\ Value(s) = Value(r) - Total(Handed(r)) /\ s.shares = r.shares
<1>1. /\ r \in Records /\ r.bounty \in Int /\ Value(r) \in Int /\ Held(r) \in Int /\ Unowed(r) \in Int
      /\ Total(r.clawed) \in Int
      BY ValueIs DEF TaskOK
<1>2. DOMAIN r.clawed \subseteq People /\ r.clawed \in [DOMAIN r.clawed -> Int]
      <2>1. r.clawed \in Maps(Int)  BY <1>1 DEF Records
      <2> QED  BY <2>1, InMaps
<1>3. CASE Overdue(r)
      <2>1. r.status \in Live /\ r.status # "disputed"  BY <1>3 DEF Overdue, Live
      <2>2. r.creator \in People  BY <2>1 DEF TaskOK, PartiesOK, Live
      <2>3. Handed(r) = [p \in {r.creator} |-> r.bounty]  BY <1>3 DEF Handed
      <2>4. Total(Handed(r)) = r.bounty  BY <1>1, <2>2, <2>3, OneTotal
      <2>5. s = Refunded(r, "expired")  BY <1>3, <2>1 DEF Resolved, Decided, Expire
      <2>6. Value(Refunded(r, "expired")) = Value(r) - r.bounty  BY <2>1, RefundValue
      <2>7. s.shares = r.shares  BY <1>1, <2>5 DEF Refunded, Records
      <2> QED  BY <1>1, <2>2, <2>3, <2>4, <2>5, <2>6, <2>7
<1>4. CASE ~Overdue(r) /\ Decided(r)
      <2> DEFINE st == IF Upheld(r) THEN "failed" ELSE "completed"
                 e == [w \in {} |-> 0]
      <2>1. Handed(r) = Unfrozen(r) /\ r.status = "disputed"  BY <1>4 DEF Handed, Decided
      <2>2. r.creator \in People  BY <2>1 DEF TaskOK, PartiesOK
      <2>3. DOMAIN Unfrozen(r) \subseteq People /\ \A p \in DOMAIN Unfrozen(r) : Unfrozen(r)[p] \in Int
            BY <1>1, <1>2, <2>2 DEF Unfrozen
      <2>4. Total(Unfrozen(r)) = Total(r.clawed)
            <3>1. CASE Upheld(r)  BY <1>1, <2>2, <3>1, OneTotal DEF Unfrozen
            <3>2. CASE ~Upheld(r)  BY <3>2 DEF Unfrozen
            <3> QED  BY <3>1, <3>2
      <2>5. s = [r EXCEPT !.status = st, !.clawed = e]  BY <1>4 DEF Resolved
      <2>6. st \in {"failed", "completed"}  OBVIOUS
      <2> HIDE DEF st, e
      <2>7. s.status = st /\ s.refunds = r.refunds /\ s.bounty = r.bounty /\ s.shares = r.shares
            BY <1>1, <2>5 DEF Records
      <2>8. Held(s) = 0 /\ Held(r) = 0 /\ Frozen(s) = 0 /\ Frozen(r) = Total(r.clawed) /\ Unowed(s) = Unowed(r)
            BY <2>1, <2>6, <2>7 DEF Held, Frozen, Unowed, Live
      <2>9. Value(s) = Value(r) - Total(r.clawed)  BY <1>1, <2>8 DEF Value
      <2> QED  BY <1>1, <2>1, <2>3, <2>4, <2>7, <2>9
<1>5. CASE ~Overdue(r) /\ ~Decided(r)
      <2> DEFINE e == [p \in {} |-> 0]
      <2>1. Handed(r) = e /\ s = r  BY <1>5 DEF Handed, Resolved, Expire
      <2>2. Total(e) = 0
            <3>1. DOMAIN e = {}  OBVIOUS
            <3> HIDE DEF e
            <3> QED  BY <3>1, TotalIs, SumEmpty DEF Total
      <2>3. DOMAIN e = {}  OBVIOUS
      <2> HIDE DEF e
      <2> QED  BY <1>1, <2>1, <2>2, <2>3
<1> QED  BY <1>3, <1>4, <1>5

\* what the maintenance pays an account is the sum of its entries
LEMMA PaidBackHanded ==
    ASSUME MarketInv, NEW a
    PROVE  PaidBack(a) = SumFunctionOnSet([t \in TaskIds |-> Entry(Handed(task[t]), a)], TaskIds)
<1> DEFINE due(t) == LET r == task[t] IN
                (IF Overdue(r) /\ r.creator = a THEN r.bounty ELSE 0)
              + (IF Decided(r) /\ a \in DOMAIN Unfrozen(r) THEN Unfrozen(r)[a] ELSE 0)
           d == [t \in TaskIds |-> due(t)]
           e == [t \in TaskIds |-> Entry(Handed(task[t]), a)]
<1>1. PaidBack(a) = SumFunctionOnSet(d, TaskIds)
      <2>1. PaidBack(a) = Total(d)  BY DEF PaidBack
      <2>2. DOMAIN d = TaskIds  OBVIOUS
      <2> HIDE DEF d
      <2> QED  BY <2>1, <2>2, TotalIs DEF Total
<1>2. ASSUME NEW t \in TaskIds PROVE d[t] = e[t]
      <2> DEFINE r == task[t]
      <2>1. TaskOK(r)  BY DEF MarketInv, TasksOK
      <2>2. r.bounty \in Int  BY <2>1, ValueIs
      <2>3. a \in DOMAIN Unfrozen(r) => Unfrozen(r)[a] \in Int  BY <2>1, UnfrozenIs
      <2>4. CASE Overdue(r)
            <3>1. ~Decided(r)  BY <2>4 DEF Overdue, Decided, Live
            <3>2. Handed(r) = [p \in {r.creator} |-> r.bounty]  BY <2>4 DEF Handed
            <3> QED  BY <2>2, <2>4, <3>1, <3>2 DEF Entry
      <2>5. CASE ~Overdue(r) /\ Decided(r)
            <3>1. Handed(r) = Unfrozen(r)  BY <2>5 DEF Handed
            <3> QED  BY <2>3, <2>5, <3>1 DEF Entry
      <2>6. CASE ~Overdue(r) /\ ~Decided(r)
            <3>1. Handed(r) = [p \in {} |-> 0]  BY <2>6 DEF Handed
            <3> QED  BY <2>6, <3>1 DEF Entry
      <2> QED  BY <2>4, <2>5, <2>6
<1> HIDE DEF d
<1>3. d = e
      <2>1. d = [t \in TaskIds |-> d[t]]  BY DEF d
      <2> QED  BY <1>2, <2>1
<1> QED  BY <1>1, <1>3

\* what it pays all accounts is what the tasks lose
LEMMA PaidBackTotal ==
    ASSUME MarketInv, NEW f, f = [t \in TaskIds |-> Resolved(task[t])]
    PROVE  /\ SumFunctionOnSet([a \in Accounts |-> PaidBack(a)], Accounts) \in Int
           /\ Escrow(task) = Escrow(f) + SumFunctionOnSet([a \in Accounts |-> PaidBack(a)], Accounts)
<1> DEFINE m == [t \in TaskIds |-> [a \in Accounts |-> Entry(Handed(task[t]), a)]]
           rows == [t \in TaskIds |-> SumFunctionOnSet(m[t], Accounts)]
           cols == [a \in Accounts |-> SumFunctionOnSet([t \in TaskIds |-> m[t][a]], TaskIds)]
           back == [a \in Accounts |-> PaidBack(a)]
           v == [t \in TaskIds |-> Value(task[t])]
           w == [t \in TaskIds |-> Value(f[t])]
<1>1. IsFiniteSet(TaskIds) /\ IsFiniteSet(Accounts)  BY ComputeAssumption, AccountsFinite
<1>2. ASSUME NEW t \in TaskIds
      PROVE  /\ \A a \in Accounts : m[t][a] \in Int
             /\ rows[t] = Total(Handed(task[t])) /\ rows[t] \in Int
             /\ v[t] = w[t] + rows[t] /\ w[t] \in Int /\ v[t] \in Int
      <2> DEFINE h == Handed(task[t])
                 D == DOMAIN h
                 g == m[t]
      <2>1. TaskOK(task[t])  BY DEF MarketInv, TasksOK
      <2>2. /\ D \subseteq People /\ \A p \in D : h[p] \in Int
            /\ Total(h) \in Int /\ Value(f[t]) = Value(task[t]) - Total(h)
            <3>1. f[t] = Resolved(task[t])  OBVIOUS
            <3>2. D \subseteq People /\ \A p \in D : h[p] \in Int  BY <2>1, <3>1, HandedIs
            <3>3. Total(h) \in Int  BY <2>1, <3>1, HandedIs
            <3>4. Value(f[t]) = Value(task[t]) - Total(h)  BY <2>1, <3>1, HandedIs
            <3> QED  BY <3>2, <3>3, <3>4
      <2>3. Value(task[t]) \in Int  BY <2>1, ValueIs
      <2>4. \A a \in Accounts : g[a] = IF a \in D THEN h[a] ELSE 0  BY DEF Entry
      <2>5. D \in SUBSET Accounts  BY <2>2, AccountsFinite
      <2>6. rows[t] = SumFunctionOnSet(g, Accounts) /\ v[t] = Value(task[t]) /\ w[t] = Value(f[t])  OBVIOUS
      <2>7. g = m[t]  OBVIOUS
      <2> HIDE DEF h, g, rows, v, w, m
      <2>8. SumFunctionOnSet(h, D) = SumFunctionOnSet(g, Accounts)  BY <1>1, <2>2, <2>4, <2>5, SumOfPart
      <2>9. Total(h) = SumFunctionOnSet(h, D)  BY TotalIs DEF Total
      <2>10. \A a \in Accounts : m[t][a] \in Int  BY <2>2, <2>4, <2>7
      <2> QED  BY <2>2, <2>3, <2>6, <2>8, <2>9, <2>10 DEF h
<1>3. \A t \in TaskIds : \A a \in Accounts : m[t][a] \in Int  BY <1>2
<1>4. SumFunctionOnSet(rows, TaskIds) = SumFunctionOnSet(cols, Accounts)
      <2> HIDE DEF m
      <2> QED  BY <1>1, <1>3, SumSwap
<1>5. cols = back
      <2>1. ASSUME NEW a \in Accounts PROVE cols[a] = back[a]
            <3>1. [t \in TaskIds |-> m[t][a]] = [t \in TaskIds |-> Entry(Handed(task[t]), a)]  OBVIOUS
            <3>2. cols[a] = SumFunctionOnSet([t \in TaskIds |-> Entry(Handed(task[t]), a)], TaskIds)  BY <3>1
            <3> QED  BY <3>2, PaidBackHanded
      <2>2. cols = [a \in Accounts |-> cols[a]] /\ back = [a \in Accounts |-> back[a]]  OBVIOUS
      <2> HIDE DEF cols, back
      <2> QED  BY <2>1, <2>2
<1>6. DOMAIN v = TaskIds /\ DOMAIN w = TaskIds /\ Escrow(task) = Total(v) /\ Escrow(f) = Total(w)  BY DEF Escrow
<1> HIDE DEF rows, v, w, cols, back, m
<1>7. SumFunctionOnSet(v, TaskIds) = SumFunctionOnSet(w, TaskIds) + SumFunctionOnSet(rows, TaskIds)
      BY <1>1, <1>2, SumPlus
<1>8. SumFunctionOnSet(rows, TaskIds) \in Int  BY <1>1, <1>2, SumIsInt
<1>9. Total(v) = SumFunctionOnSet(v, TaskIds) /\ Total(w) = SumFunctionOnSet(w, TaskIds)
      BY <1>6, TotalIs DEF Total
<1> QED  BY <1>4, <1>5, <1>6, <1>7, <1>8, <1>9 DEF back

(* The sweep of a maintenance run pays out what it takes: sums over tasks of
   what each pays and over accounts of what each gets are exchanged
   (SumSwap). *)
LEMMA MaintainCoins ==
    ASSUME MarketInv, MarketInv', NovaAddsUp,
           NEW picked \in SUBSET TaskIds, NEW auditorOf \in [picked -> People],
           Maintain(picked, auditorOf)
    PROVE  NovaAddsUp'
<1> DEFINE after == [t \in TaskIds |-> Resolved(task[t])]
           upheld == {t \in TaskIds : Upheld(task[t])}
           cheats == UNION {Paid(task[t]) : t \in upheld}
           back == [a \in Accounts |-> PaidBack(a)]
           paid == [a \in Accounts |-> balance[a] + PaidBack(a)]
           reward == Incentive(Slashed(cheats), balance[Pool])
           b == CreditAll(paid, reward)
           n == Total(reward)
           c == Credit(b, Pool, -n)
           k == Forfeit(cheats)
<1>1. /\ task' = [t \in TaskIds |-> IF t \in picked
                    THEN [after[t] EXCEPT !.audit = "pending", !.auditor = auditorOf[t]]
                    ELSE after[t]]
      /\ stake' = Slashed(cheats) /\ balance' = Credit(c, Fund, k) /\ UNCHANGED unbonding
      BY DEF Maintain
<1>2. \A t \in TaskIds : TaskOK(task[t])  BY DEF MarketInv, TasksOK
<1>3. ASSUME NEW t \in TaskIds
      PROVE  Value(task'[t]) = Value(after[t]) /\ task'[t].shares = task[t].shares
      <2> DEFINE r == after[t]
                 s == [r EXCEPT !.audit = "pending", !.auditor = auditorOf[t]]
      <2>1. r = Resolved(task[t])  OBVIOUS
      <2>2. task'[t] = s \/ task'[t] = r  BY <1>1
      <2> HIDE DEF after
      <2>3. TaskOK(r) /\ r \in Records /\ r.shares = task[t].shares
            <3>1. TaskOK(Resolved(task[t]))  BY <1>2, ResolvedOK
            <3>2. Resolved(task[t]).shares = task[t].shares  BY <1>2, HandedIs
            <3> QED  BY <2>1, <3>1, <3>2 DEF TaskOK
      <2>4. /\ s.bounty = r.bounty /\ s.refunds = r.refunds /\ s.clawed = r.clawed /\ s.status = r.status
            /\ s.shares = r.shares
            BY <2>3 DEF Records
      <2> HIDE DEF s
      <2>5. Value(s) = Value(r)  BY <2>4 DEF Value, Held, Frozen, Unowed
      <2> QED  BY <2>2, <2>3, <2>4, <2>5
<1>4. Escrow(task') = Escrow(after)
      <2>1. [t \in TaskIds |-> Value(task'[t])] = [t \in TaskIds |-> Value(after[t])]  BY <1>3
      <2> HIDE DEF after
      <2> QED  BY <2>1 DEF Escrow
<1> DEFINE all == SumFunctionOnSet(back, Accounts)
<1>5. all \in Int /\ Escrow(task) = Escrow(after) + all
      <2>1. after = [t \in TaskIds |-> Resolved(task[t])]  OBVIOUS
      <2> HIDE DEF after
      <2> QED  BY <2>1, PaidBackTotal
<1>6. cheats \subseteq People  BY <1>2 DEF TaskOK, UnsettledOK, PartiesOK
<1>7. /\ \A a \in Accounts : PaidBack(a) \in Int
      /\ balance \in [Accounts -> Int] /\ paid \in [Accounts -> Int] /\ IsFiniteSet(Accounts)
      BY PaidBackIs, AccountsFinite DEF MarketInv
<1>8. Total(paid) = Total(balance) + all
      <2>1. \A a \in Accounts : balance[a] \in Int /\ back[a] \in Int /\ paid[a] = balance[a] + back[a]  BY <1>7
      <2>2. DOMAIN paid = Accounts /\ DOMAIN balance = Accounts  BY <1>7
      <2> HIDE DEF back, paid
      <2>3. SumFunctionOnSet(paid, Accounts) = SumFunctionOnSet(balance, Accounts) + SumFunctionOnSet(back, Accounts)
            BY <1>7, <2>1, SumPlus
      <2> QED  BY <2>2, <2>3, TotalIs DEF Total
<1> HIDE DEF after, cheats, all, paid
<1>9. Slashed(cheats) \in [People -> Nat]  BY <1>6, ForfeitIs DEF MarketInv
<1>10. reward \in [People -> Int] /\ n \in Int
      <2>1. balance[Pool] \in Int  BY <1>7, AccountsFinite
      <2> QED  BY <1>9, <2>1, IncentiveIs
<1> HIDE DEF reward
<1>11. Total(b) = Total(paid) + n /\ b \in [Accounts -> Int]
      <2>1. DOMAIN reward = People /\ (\A p \in People : reward[p] \in Int) /\ People \in SUBSET Accounts
            BY <1>10, AccountsFinite
      <2>2. Total(CreditAll(paid, reward)) = Total(paid) + Total(reward)  BY <1>7, <2>1, CreditAllTotal
      <2>3. reward \in [DOMAIN reward -> Int]  BY <1>10
      <2>4. CreditAll(paid, reward) \in [Accounts -> Int]  BY <1>7, <2>3, CreditAllIs
      <2> QED  BY <2>2, <2>4
<1> HIDE DEF b, n
<1>12. Total(c) = Total(b) + (-n) /\ c \in [Accounts -> Int]
      <2>1. -n \in Int  BY <1>10
      <2> QED  BY <1>11, <2>1, AccountsFinite, CreditIs, CreditTotal
<1>13. Total(stake') = Total(stake) - k /\ k \in Int  BY <1>1, <1>6, SlashedTotal
<1> HIDE DEF c, k
<1>14. Total(balance') = Total(c) + k  BY <1>1, <1>12, <1>13, AccountsFinite, CreditTotal
<1> DEFINE u == Total([p \in People |-> unbonding[p].amount])
<1>15. /\ Purse = Total(balance) + Total(stake) + u /\ Total(balance) \in Int /\ Total(stake) \in Int
       /\ u \in Int
       BY PurseIs DEF Purse
<1>16. Purse' = Total(balance') + Total(stake') + u
      <2>1. unbonding' = unbonding  BY <1>1
      <2> QED  BY <2>1 DEF Purse, Total
<1> HIDE DEF u
<1>17. Total(balance') + Total(stake') = Total(balance) + Total(stake) + all
       BY <1>5, <1>8, <1>10, <1>11, <1>12, <1>13, <1>14, <1>15
<1>18. Escrow(after) \in Int
      <2>1. TasksOK(after)
            <3>1. \A t \in TaskIds : TaskOK(after[t])  BY <1>2, ResolvedOK DEF after
            <3>2. after = [t \in TaskIds |-> after[t]]  BY DEF after
            <3> QED  BY <3>1, <3>2 DEF TasksOK
      <2> QED  BY <2>1, EscrowIs
<1>19. Purse' + Escrow(task') = Purse + Escrow(task)
       BY <1>4, <1>5, <1>15, <1>16, <1>17, <1>18
<1> QED  BY <1>3, <1>19, FlowCoins

(* The accounts hold what was given out, and the market holds nothing. *)
LEMMA InitCoins == ASSUME Init PROVE NovaAddsUp
<1>1. MarketInv  BY InitMarket
<1> DEFINE u == [p \in People |-> unbonding[p].amount]
           v == [t \in TaskIds |-> Value(task[t])]
           w == [a \in Accounts |-> IF a = Fund THEN FundGenesis ELSE IF a = Pool THEN 0 ELSE Wealth[a]]
<1>2. Total(u) = 0
      <2>1. u = [p \in People |-> 0]  BY DEF Init
      <2> QED  BY <2>1, ComputeAssumption, TotalZero DEF Total
<1>3. Escrow(task) = 0
      <2>1. Value(NoTask) = 0  BY DEF Value, Held, Frozen, Unowed, NoTask, Live
      <2>2. v = [t \in TaskIds |-> 0]  BY <2>1 DEF Init
      <2>3. Escrow(task) = Total(v)  BY DEF Escrow
      <2> QED  BY <2>2, <2>3, ComputeAssumption, TotalZero DEF Total
<1>4. Total(stake) = Total(InitStake)  BY DEF Init
<1>5. Total(balance) = FundGenesis + Total(Wealth)
      <2> DEFINE z == [a \in Accounts |-> 0]
                 y == [a \in Accounts |-> z[a] + (IF a \in People THEN Wealth[a] ELSE 0)]
      <2>1. z \in [Accounts -> Int] /\ Total(z) = 0  BY AccountsFinite, TotalZero DEF Total
      <2>2. DOMAIN Wealth = People /\ (\A x \in People : Wealth[x] \in Int) /\ People \in SUBSET Accounts
            BY ComputeAssumption, AccountsFinite
      <2>3. y = CreditAll(z, Wealth)  BY <2>2 DEF CreditAll
      <2>4. y \in [Accounts -> Int] /\ Total(y) = Total(z) + Total(Wealth)
            <3> HIDE DEF z, y
            <3>1. Wealth \in [DOMAIN Wealth -> Int]  BY ComputeAssumption
            <3>2. CreditAll(z, Wealth) \in [Accounts -> Int]  BY <2>1, <3>1, CreditAllIs
            <3>3. Total(CreditAll(z, Wealth)) = Total(z) + Total(Wealth)  BY <2>1, <2>2, CreditAllTotal
            <3> QED  BY <2>3, <3>2, <3>3
      <2>5. balance = Credit(y, Fund, FundGenesis)
            <3>1. Pool # Fund /\ Pool \notin People /\ Fund \notin People  BY ComputeAssumption DEF Pool, Fund
            <3>2. \A a \in Accounts : y[a] = IF a \in People THEN Wealth[a] ELSE 0
                  BY ComputeAssumption
            <3>3. y = [a \in Accounts |-> IF a \in People THEN Wealth[a] ELSE 0]  BY <3>2
            <3>4. y[Fund] = 0  BY <3>1, <3>2, AccountsFinite
            <3>5. FundGenesis \in Nat  BY ComputeAssumption
            <3> HIDE DEF y
            <3>6. Credit(y, Fund, FundGenesis)
                    = [a \in Accounts |-> IF a = Fund THEN FundGenesis ELSE y[a]]
                  <4>1. Credit(y, Fund, FundGenesis) = [y EXCEPT ![Fund] = y[Fund] + FundGenesis]  BY DEF Credit
                  <4>2. y[Fund] + FundGenesis = FundGenesis  BY <3>4, <3>5
                  <4>3. Credit(y, Fund, FundGenesis) = [y EXCEPT ![Fund] = FundGenesis]  BY <4>1, <4>2
                  <4>4. y \in [Accounts -> Int]  BY <2>4
                  <4> QED  BY <4>3, <4>4
            <3> QED  BY <3>1, <3>2, <3>6 DEF Init, Accounts
      <2>6. FundGenesis \in Int  BY GivenIs
      <2> HIDE DEF y, z
      <2>7. Total(Credit(y, Fund, FundGenesis)) = Total(y) + FundGenesis
            BY <2>4, <2>6, AccountsFinite, CreditTotal
      <2> QED  BY <2>1, <2>4, <2>5, <2>6, <2>7, GivenIs
<1>6. Purse = Total(balance) + Total(stake) + Total(u)  BY DEF Purse
<1> HIDE DEF u
<1>7. Given - (Purse + Escrow(task)) = 0  BY <1>2, <1>3, <1>4, <1>5, <1>6, GivenIs DEF Given
<1> QED  BY <1>1, <1>7, NovaIs, SettlementsIs

(* NovaAddsUp is inductive relative to MarketInv: one lemma per action above. *)
LEMMA NextCoins == ASSUME MarketInv, MarketInv', NovaAddsUp, Next PROVE NovaAddsUp'
<1>1. CASE PublisherStep
      <2>1. ASSUME NEW p \in Publishers, NEW t \in TaskIds, NEW kind \in Kinds, NEW b \in Bounties,
                   Publish(p, t, kind, b)
            PROVE  NovaAddsUp'
            BY <2>1, PublishCoins
      <2>2. ASSUME NEW t \in TaskIds, Dispute(t) PROVE NovaAddsUp'  BY <2>2, DisputeCoins
      <2>3. ASSUME NEW t \in TaskIds, NEW ws \in SUBSET People, Award(t, ws) PROVE NovaAddsUp'
            BY <2>3, AwardCoins
      <2> QED  BY <1>1, <2>1, <2>2, <2>3 DEF PublisherStep
<1>2. CASE WorkerStep
      <2> SUFFICES ASSUME NEW p \in People, NEW t \in TaskIds,
                          \/ Accept(p, t) \/ Bid(p, t) \/ SubmitLate(p, t)
                          \/ \E h \in Hashes : Submit(p, t, h) \/ Arbitrate(p, t, h)
                          \/ \E choice \in {"uphold", "dismiss"} : Vote(p, t, choice)
                          \/ task[t].auditor = p /\ (AuditPass(t) \/ AuditFail(t))
                   PROVE  NovaAddsUp'
            BY <1>2 DEF WorkerStep
      <2>1. CASE Accept(p, t)  BY <2>1, AcceptCoins
      <2>2. CASE Bid(p, t)  BY <2>2, BidCoins
      <2>3. CASE SubmitLate(p, t)  BY <2>3, LateCoins
      <2>4. ASSUME NEW h \in Hashes, Submit(p, t, h) PROVE NovaAddsUp'  BY <2>4, SubmitCoins
      <2>5. ASSUME NEW h \in Hashes, Arbitrate(p, t, h) PROVE NovaAddsUp'  BY <2>5, ArbitrateCoins
      <2>6. ASSUME NEW choice \in {"uphold", "dismiss"}, Vote(p, t, choice) PROVE NovaAddsUp'
            BY <2>6, VoteCoins
      <2>7. CASE task[t].auditor = p /\ AuditPass(t)  BY <2>7, AuditPassCoins
      <2>8. CASE AuditFail(t)  BY <2>8, AuditFailCoins
      <2> QED  BY <2>1, <2>2, <2>3, <2>4, <2>5, <2>6, <2>7, <2>8
<1>3. CASE NodeStep  BY <1>3, NodeCoins
<1>4. CASE Tick  BY <1>4, TickCoins
<1>5. CASE MaintainStep  BY <1>5, MaintainCoins DEF MaintainStep
<1> QED  BY <1>1, <1>2, <1>3, <1>4, <1>5 DEF Next

(* No operation of the market makes or loses NOVA, but for at most one unit
   of rounding per settlement: accounts, stakes, what waits and what the
   market holds add up to genesis (publish, _settle, _refund, arbitrate,
   audit_submit, dispute, maintain). *)
THEOREM NovaAddsUpHolds == Spec => []NovaAddsUp
<1>1. Init => MarketInv /\ NovaAddsUp  BY InitMarket, InitCoins
<1>2. MarketInv /\ NovaAddsUp /\ [Next]_vars => (MarketInv /\ NovaAddsUp)'
      <2>1. ASSUME MarketInv, NovaAddsUp, UNCHANGED vars PROVE (MarketInv /\ NovaAddsUp)'
            <3>1. MarketInv'  BY <2>1 DEF MarketInv, TasksOK, vars, money
            <3>2. UNCHANGED <<task, balance, stake, unbonding>>  BY <2>1 DEF vars, money
            <3>3. Purse' = Purse  BY <3>2 DEF Purse, Total
            <3>4. Escrow(task') = Escrow(task)  BY <3>2
            <3>5. NovaAddsUp'  BY <2>1, <3>1, <3>2, <3>3, <3>4, FlowCoins
            <3> QED  BY <3>1, <3>5
      <2> QED  BY <2>1, NextMarket, NextCoins
<1> QED  BY <1>1, <1>2, PTL DEF Spec
=============================================================================
