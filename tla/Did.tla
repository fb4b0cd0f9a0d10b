-------------------------------- MODULE Did ---------------------------------
(***************************************************************************)
(* Identity (core/did.py): bindings of an account, the certification of    *)
(* creators by a vote of the community, and the score that is kept for an  *)
(* account until something computes it again.                              *)
(*                                                                         *)
(* Of the score the part of identity is modelled, in tenths: what works,   *)
(* likes, check-ins, coins and penalties add is shown by the node and      *)
(* decides nothing.  Whoever is able to vote has VoterMin at that moment.  *)
(***************************************************************************)
EXTENDS Ledger

CONSTANTS
    DidKinds,           \* KINDS
    Makers,             \* users with a contract or a text of their own
    DidStake,           \* what users have staked
    VoterMin, MinVotes, \* VOTER_MIN_POWER, APPLY_VOTES_MIN
    AppTerm,            \* 14 days
    Bound, DidSums      \* bounds: who binds and is asked for, amounts of transfers

ASSUME DidAssumption ==
    /\ Makers \subseteq Users /\ Bound \subseteq Users /\ DidStake \in [Users -> Nat] /\ IsFiniteSet(DidKinds)
    /\ {VoterMin, MinVotes, AppTerm} \subseteq Nat /\ DidSums \subseteq Nat

VARIABLES
    binding,    \* did_profiles
    app,        \* did_applications
    certified,  \* did_badges, soulbound
    score       \* did_reputation, Unknown where nothing is kept
didVars == <<binding, app, certified, score>>

NoApp   == [st |-> "none", yes |-> {}, no |-> {}, since |-> 0]
Unknown == -1
DidInit ==
    /\ binding = [u \in Users |-> {}] /\ app = [u \in Users |-> NoApp]
    /\ certified = {} /\ score = [u \in Users |-> Unknown]

DidTx(u) == Tx("did", u, 0)

Identity(kinds, badge) == Lesser(20 * Cardinality(kinds), 80) + IF badge THEN 20 ELSE 0
Recomputed(u) == score' = [score EXCEPT ![u] = Identity(binding'[u], u \in certified')]

DidBind(u, k) ==
    /\ DidTx(u) /\ k \notin binding[u]
    /\ binding' = [binding EXCEPT ![u] = @ \cup {k}] /\ UNCHANGED <<bal, app, certified>>
    /\ Recomputed(u)
DidUnbind(u, k) ==
    /\ DidTx(u) /\ k \in binding[u]
    /\ binding' = [binding EXCEPT ![u] = @ \ {k}] /\ UNCHANGED <<bal, app, certified>>
    /\ Recomputed(u)
DidUpdate(u) == DidTx(u) /\ UNCHANGED <<bal, binding, app, certified>> /\ Recomputed(u)

\* whoever asks a node for a score that it has not kept has it computed and kept
DidAsked(u) ==
    /\ part = "did" /\ score[u] = Unknown
    /\ UNCHANGED <<bal, day, ops, part, binding, app, certified>> /\ Recomputed(u)

\* an application, once made, is never removed
MayApply(u) == app[u].st = "none" /\ u \notin certified /\ u \in Makers
DidApply(u) ==
    /\ DidTx(u) /\ MayApply(u)
    /\ app' = [app EXCEPT ![u] = [NoApp EXCEPT !.st = "pending", !.since = day]]
    /\ UNCHANGED <<bal, binding, certified, score>>

Votes(a) == Cardinality(a.yes) + Cardinality(a.no)
\* Mutant: half of the votes is enough.
BugDecided(a) ==
    IF Votes(a) < MinVotes THEN a
    ELSE [a EXCEPT !.st = IF 2 * Cardinality(a.yes) >= Votes(a) THEN "approved" ELSE "rejected"]
Decided(a) ==
    IF Votes(a) < MinVotes THEN a
    ELSE [a EXCEPT !.st = IF 2 * Cardinality(a.yes) > Votes(a) THEN "approved" ELSE "rejected"]

DidVote(u, v, support) ==
    /\ DidTx(u) /\ app[v].st = "pending" /\ u \notin {v} \cup app[v].yes \cup app[v].no
    /\ bal[u] + DidStake[u] >= VoterMin
    /\ app' = [app EXCEPT ![v] = Decided(IF support = "yes" THEN [@ EXCEPT !.yes = @ \cup {u}]
                                                            ELSE [@ EXCEPT !.no = @ \cup {u}])]
    /\ certified' = IF app'[v].st = "approved" THEN certified \cup {v} ELSE certified
    /\ UNCHANGED <<bal, binding>>
    /\ IF app'[v].st = "approved" THEN Recomputed(v) ELSE UNCHANGED score

\* a plain transfer
DidPay(u, v, n) ==
    /\ Tx("did", u, n) /\ u # v
    /\ bal' = Move(bal, u, v, n) /\ UNCHANGED didVars

\* the part of the daily maintenance; a pending application has too few votes
DidMaintain ==
    /\ app' = [u \in Users |-> IF app[u].st = "pending" /\ day - app[u].since > AppTerm
                               THEN [app[u] EXCEPT !.st = "expired"] ELSE app[u]]
    /\ UNCHANGED <<binding, certified, score>>

DidNext ==
    \/ \E u \in Bound : \/ DidUpdate(u) \/ DidAsked(u)
                       \/ \E k \in DidKinds : DidBind(u, k) \/ DidUnbind(u, k)
    \/ \E u \in Users :
        \/ DidApply(u)
        \/ \E v \in Users : \/ \E support \in {"yes", "no"} : DidVote(u, v, support)
                            \/ \E n \in DidSums : DidPay(u, v, n)

-----------------------------------------------------------------------------
(* Properties *)

DidType ==
    /\ binding \in [Users -> SUBSET DidKinds] /\ certified \subseteq Makers
    /\ score \in [Users -> Nat \cup {Unknown}]
    /\ \A u \in Users : app[u].st \in {"none", "pending", "approved", "rejected", "expired"}

\* Whatever is voted, transferred and runs out in between: a badge stands on the majority of
\* enough accounts, the applicant not among them, who was refused or ran out has none, and
\* a score that is kept shows the badge and the bindings there are.
BadgesAreVoted ==
    \A u \in Users :
        /\ u \in certified <=> app[u].st = "approved"
        /\ u \notin app[u].yes \cup app[u].no /\ app[u].yes \cap app[u].no = {}
        /\ u \in certified => Votes(app[u]) >= MinVotes /\ Cardinality(app[u].yes) > Cardinality(app[u].no)
        /\ app[u].st = "expired" => Votes(app[u]) < MinVotes
        /\ score[u] \in {Unknown, Identity(binding[u], u \in certified)}

\* Not so in the code (section 4 of the README):
\* "at least half in favour": half is enough.
HalfCertifies == \A u \in Users : app[u].st = "rejected" => 2 * Cardinality(app[u].yes) < Votes(app[u])
\* "there is an application in progress" is what stands in the way of another.
DecidedMayApply == \A u \in Makers : app[u].st \in {"rejected", "expired"} => MayApply(u)
=============================================================================
