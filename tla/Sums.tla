------------------------------- MODULE Sums --------------------------------
(*****************************************************************************)
(* Finite sums.  The models add up accounts with SumFunctionOnSet and        *)
(* SumFunction of the community module Functions, which fold a set by        *)
(* choosing an element and going on with the rest.  What such a fold         *)
(* computes is shown here without an induction theorem: a statement that     *)
(* failed would fail for a smallest subset (MinimalSubset) or a smallest     *)
(* number (SmallestNat), and that one is refuted.  From that come the facts  *)
(* the other modules cite: a sum does not depend on the order of its terms,  *)
(* changing one term changes the sum by the difference, sums add, scale and  *)
(* can be exchanged.                                                         *)
(*****************************************************************************)
EXTENDS FiniteSetTheorems, TLAPS

(* A set of subsets of a finite set has a minimal member. *)
LEMMA MinimalSubset ==
    ASSUME NEW S, IsFiniteSet(S), NEW C, C \subseteq SUBSET S, C # {}
    PROVE  \E T \in C : \A U \in C : U \subseteq T => U = T
<1>1. FiniteSubsetsOf(S) = SUBSET S  BY FS_FiniteSubsetsOfFinite
<1>2. IsWellFoundedOn(StrictSubsetOrdering(S), SUBSET S)
      BY <1>1, FS_StrictSubsetOrderingWellFounded
<1>3. PICK T \in C : \A U \in C : ~ (<<U, T>> \in StrictSubsetOrdering(S))
      BY <1>2, WFMin
<1> QED  BY <1>3 DEF StrictSubsetOrdering

(* What SumFunctionOnSet computes: the sums over all subsets at once. *)
First(s) == CHOOSE x \in s : TRUE
Adds(g, f, S) == g = [s \in SUBSET S |-> IF s = {} THEN 0 ELSE f[First(s)] + g[s \ {First(s)}]]

(* The element the fold takes first is one of the set's. *)
LEMMA FirstIn == ASSUME NEW s, s # {} PROVE First(s) \in s
BY DEF First

(* The library's sum is the value at the whole set of a function defined by
   recursion on the subsets. *)
LEMMA SumIsChosen ==
    ASSUME NEW f, NEW S
    PROVE  SumFunctionOnSet(f, S) = (CHOOSE g : Adds(g, f, S))[S]
BY DEF SumFunctionOnSet, FoldFunctionOnSet, MapThenFoldSet, Adds, First

(* The two equations of that function: nothing to add, and one element more. *)
LEMMA AddsAt ==
    ASSUME NEW f, NEW S, NEW g, Adds(g, f, S)
    PROVE  /\ g[{}] = 0
           /\ \A s \in SUBSET S : s # {} =>
                 /\ g[s] = f[First(s)] + g[s \ {First(s)}]
                 /\ First(s) \in s /\ s \ {First(s)} \in SUBSET S
BY FirstIn DEF Adds

(* There is at most one such function (otherwise take a smallest subset where
   two of them differ). *)
LEMMA AddsUnique ==
    ASSUME NEW f, NEW S, IsFiniteSet(S), NEW g, Adds(g, f, S), NEW h, Adds(h, f, S)
    PROVE  g = h
<1> DEFINE C == {s \in SUBSET S : g[s] # h[s]}
<1>1. ASSUME C # {} PROVE FALSE
      <2>1. PICK T \in C : \A U \in C : U \subseteq T => U = T
            <3>1. C \subseteq SUBSET S  OBVIOUS
            <3> HIDE DEF C
            <3> QED  BY <3>1, <1>1, MinimalSubset
      <2> DEFINE r == T \ {First(T)}
      <2>2. CASE T = {}
            <3>1. g[T] = 0 /\ h[T] = 0  BY <2>2, AddsAt
            <3> QED  BY <3>1
      <2>3. CASE T # {}
            <3>1. r \in SUBSET S /\ r # T /\ r \subseteq T  BY <2>3, FirstIn
            <3>2. g[r] = h[r]  BY <3>1, <2>1
            <3>3. g[T] = f[First(T)] + g[r] /\ h[T] = f[First(T)] + h[r]  BY <2>3, AddsAt
            <3> QED  BY <3>2, <3>3, <2>1
      <2> QED  BY <2>2, <2>3
<1>2. \A s \in SUBSET S : g[s] = h[s]  BY <1>1
<1> QED  BY <1>2 DEF Adds

(* Cut down to the subsets of a part, it is the function of the part. *)
LEMMA AddsBelow ==
    ASSUME NEW f, NEW S, NEW g, Adds(g, f, S), NEW T \in SUBSET S
    PROVE  Adds([s \in SUBSET T |-> g[s]], f, T)
<1> DEFINE h == [s \in SUBSET T |-> g[s]]
<1>1. ASSUME NEW s \in SUBSET T
      PROVE  h[s] = IF s = {} THEN 0 ELSE f[First(s)] + h[s \ {First(s)}]
      <2>1. s \in SUBSET S /\ h[s] = g[s]  OBVIOUS
      <2>2. s # {} => h[s \ {First(s)}] = g[s \ {First(s)}]  OBVIOUS
      <2>3. s = {} => g[s] = 0  BY AddsAt
      <2>4. s # {} => g[s] = f[First(s)] + g[s \ {First(s)}]  BY <2>1, AddsAt
      <2> HIDE DEF h
      <2> QED  BY <2>1, <2>2, <2>3, <2>4
<1> QED  BY <1>1 DEF Adds

(* And there is one: a smallest subset without it could be given one. *)
LEMMA AddsExists ==
    ASSUME NEW f, NEW S, IsFiniteSet(S)
    PROVE  \E g : Adds(g, f, S)
<1> DEFINE C == {T \in SUBSET S : ~ \E g : Adds(g, f, T)}
<1>1. ASSUME C # {} PROVE FALSE
      <2>1. PICK T \in C : \A U \in C : U \subseteq T => U = T
            <3>1. C \subseteq SUBSET S  OBVIOUS
            <3> HIDE DEF C
            <3> QED  BY <3>1, <1>1, MinimalSubset
      <2> DEFINE G(U) == CHOOSE g : Adds(g, f, U)
                 R(s) == s \ {First(s)}
                 h == [s \in SUBSET T |-> IF s = {} THEN 0 ELSE f[First(s)] + G(R(s))[R(s)]]
      <2>2. ASSUME NEW U \in SUBSET T, U # T PROVE Adds(G(U), f, U)
            BY <2>1, <2>2
      <2>3. ASSUME NEW s \in SUBSET T, s # {} PROVE R(s) \in SUBSET T /\ R(s) # T /\ R(s) \in SUBSET s
            BY <2>3, FirstIn
      <2>4. ASSUME NEW r \in SUBSET T, r # T PROVE h[r] = G(r)[r]
            <3>1. Adds(G(r), f, r)  BY <2>2, <2>4
            <3>2. CASE r = {}
                  <4>1. G(r)[r] = 0  BY <3>1, <3>2, AddsAt
                  <4> QED  BY <4>1, <3>2
            <3>3. CASE r # {}
                  <4> DEFINE q == R(r)
                  <4>1. q \in SUBSET T /\ q # T /\ q \in SUBSET r  BY <2>3, <3>3
                  <4>2. Adds(G(q), f, q)  BY <4>1, <2>2
                  <4>3. Adds([s \in SUBSET q |-> G(r)[s]], f, q)  BY <3>1, <4>1, AddsBelow
                  <4>4. IsFiniteSet(q)  BY <4>1, FS_Subset
                  <4>5. G(q) = [s \in SUBSET q |-> G(r)[s]]  BY <4>2, <4>3, <4>4, AddsUnique
                  <4>6. G(q)[q] = G(r)[q]  BY <4>5
                  <4>7. G(r)[r] = f[First(r)] + G(r)[q]
                        <5>1. \A g : Adds(g, f, r) => g[r] = f[First(r)] + g[r \ {First(r)}]
                              BY <3>3, AddsAt
                        <5> QED  BY <5>1, <3>1
                  <4>8. h[r] = f[First(r)] + G(q)[q]  BY <3>3
                  <4> QED  BY <4>6, <4>7, <4>8
            <3> QED  BY <3>2, <3>3
      <2>5. ASSUME NEW s \in SUBSET T
            PROVE  h[s] = IF s = {} THEN 0 ELSE f[First(s)] + h[R(s)]
            <3>1. CASE s = {}  BY <3>1
            <3>2. CASE s # {}
                  <4>1. h[R(s)] = G(R(s))[R(s)]  BY <3>2, <2>3, <2>4
                  <4>2. h[s] = f[First(s)] + G(R(s))[R(s)]  BY <3>2
                  <4> HIDE DEF h, G
                  <4> QED  BY <4>1, <4>2, <3>2
            <3> QED  BY <3>1, <3>2
      <2>6. Adds(h, f, T)
            <3>1. h = [s \in SUBSET T |-> h[s]]  OBVIOUS
            <3>2. [s \in SUBSET T |-> h[s]] = [s \in SUBSET T |-> IF s = {} THEN 0 ELSE f[First(s)] + h[R(s)]]
                  <4> HIDE DEF h
                  <4> QED  BY <2>5
            <3> HIDE DEF h
            <3> QED  BY <3>1, <3>2 DEF Adds
      <2> QED  BY <2>1, <2>6
<1> QED  BY <1>1

(* The sums over all subsets of S obey the recursion. *)
LEMMA SumStep ==
    ASSUME NEW f, NEW S, IsFiniteSet(S)
    PROVE  /\ SumFunctionOnSet(f, {}) = 0
           /\ S # {} => /\ First(S) \in S
                        /\ SumFunctionOnSet(f, S)
                             = f[First(S)] + SumFunctionOnSet(f, S \ {First(S)})
<1> DEFINE G(T) == CHOOSE g : Adds(g, f, T)
           r == S \ {First(S)}
<1>1. ASSUME NEW T, IsFiniteSet(T) PROVE Adds(G(T), f, T) /\ SumFunctionOnSet(f, T) = G(T)[T]
      BY <1>1, AddsExists, SumIsChosen
<1>2. IsFiniteSet({})  BY FS_EmptySet
<1>3. G({})[{}] = 0  
      <2>1. \A g : Adds(g, f, {}) => g[{}] = 0  BY AddsAt
      <2> QED  BY <2>1, <1>1, <1>2
<1>4. ASSUME S # {}
      PROVE  /\ First(S) \in S
             /\ SumFunctionOnSet(f, S) = f[First(S)] + SumFunctionOnSet(f, r)
      <2>1. First(S) \in S  BY <1>4, FirstIn
      <2>2. r \in SUBSET S /\ IsFiniteSet(r)  BY FS_Subset
      <2>3. G(r) = [s \in SUBSET r |-> G(S)[s]]  
            <3>1. Adds(G(S), f, S) /\ Adds(G(r), f, r)  BY <1>1, <2>2
            <3> HIDE DEF G, r
            <3>2. Adds([s \in SUBSET r |-> G(S)[s]], f, r)  BY <3>1, <2>2, AddsBelow
            <3> QED  BY <3>1, <3>2, <2>2, AddsUnique
      <2>4. G(r)[r] = G(S)[r]  BY <2>3
      <2>5. G(S)[S] = f[First(S)] + G(S)[r]
            <3>1. \A g : Adds(g, f, S) => g[S] = f[First(S)] + g[S \ {First(S)}]  BY <1>4, AddsAt
            <3> QED  BY <3>1, <1>1
      <2> HIDE DEF G, r
      <2> QED  BY <2>1, <2>2, <2>4, <2>5, <1>1
<1> QED  BY <1>1, <1>2, <1>3, <1>4

(* A set of natural numbers has a smallest member. *)
LEMMA SmallestNat ==
    ASSUME NEW C, C \subseteq Nat, C # {}
    PROVE  \E k \in C : \A j \in C : k <= j
<1>1. PICK k \in C : \A j \in C : ~ (<<j, k>> \in OpToRel(<, Nat))
      BY NatLessThanWellFounded, WFMin
<1>2. \A j \in C : j < k => <<j, k>> \in OpToRel(<, Nat)  BY DEF OpToRel
<1>3. \A j \in C : ~ (j < k)  BY <1>1, <1>2
<1> QED  BY <1>3

-----------------------------------------------------------------------------
(* Induction over a finite set, for a property given as the set of its subsets that have it. *)
LEMMA SetInduction ==
    ASSUME NEW S, IsFiniteSet(S), NEW Good, {} \in Good,
           \A T \in SUBSET S : T # {} /\ (\A x \in T : T \ {x} \in Good) => T \in Good
    PROVE  S \in Good
<1> DEFINE C == {T \in SUBSET S : T \notin Good}
<1>1. ASSUME C # {} PROVE FALSE
      <2>1. PICK T \in C : \A U \in C : U \subseteq T => U = T
            <3>1. C \subseteq SUBSET S  OBVIOUS
            <3> HIDE DEF C
            <3> QED  BY <3>1, <1>1, MinimalSubset
      <2>2. \A x \in T : T \ {x} \in Good  BY <2>1
      <2> QED  BY <2>1, <2>2
<1> QED  BY <1>1

(* Nothing adds up to zero. *)
LEMMA SumEmpty == \A f : SumFunctionOnSet(f, {}) = 0
BY SumStep, FS_EmptySet

(* A sum of integers is an integer. *)
LEMMA SumIsInt ==
    ASSUME NEW S, IsFiniteSet(S), NEW f, \A x \in S : f[x] \in Int
    PROVE  SumFunctionOnSet(f, S) \in Int
<1> DEFINE Good == {T \in SUBSET S : SumFunctionOnSet(f, T) \in Int}
<1>1. {} \in Good  BY SumEmpty
<1>2. ASSUME NEW T \in SUBSET S, T # {}, \A x \in T : T \ {x} \in Good PROVE T \in Good
      <2>1. IsFiniteSet(T)  BY FS_Subset
      <2>2. /\ First(T) \in T
            /\ SumFunctionOnSet(f, T) = f[First(T)] + SumFunctionOnSet(f, T \ {First(T)})
            BY <1>2, <2>1, SumStep
      <2> QED  BY <1>2, <2>2
<1> HIDE DEF Good
<1>3. S \in Good  BY <1>1, <1>2, SetInduction
<1> QED  BY <1>3 DEF Good

(* A sum of naturals is a natural. *)
LEMMA SumIsNat ==
    ASSUME NEW S, IsFiniteSet(S), NEW f, \A x \in S : f[x] \in Nat
    PROVE  SumFunctionOnSet(f, S) \in Nat
<1> DEFINE Good == {T \in SUBSET S : SumFunctionOnSet(f, T) \in Nat}
<1>1. {} \in Good  BY SumEmpty
<1>2. ASSUME NEW T \in SUBSET S, T # {}, \A x \in T : T \ {x} \in Good PROVE T \in Good
      <2>1. IsFiniteSet(T)  BY FS_Subset
      <2>2. /\ First(T) \in T
            /\ SumFunctionOnSet(f, T) = f[First(T)] + SumFunctionOnSet(f, T \ {First(T)})
            BY <1>2, <2>1, SumStep
      <2> QED  BY <1>2, <2>2
<1> HIDE DEF Good
<1>3. S \in Good  BY <1>1, <1>2, SetInduction
<1> QED  BY <1>3 DEF Good

(* The sum depends on the values and not on the function. *)
LEMMA SumSame ==
    ASSUME NEW S, IsFiniteSet(S), NEW f, NEW h, \A x \in S : f[x] = h[x]
    PROVE  SumFunctionOnSet(f, S) = SumFunctionOnSet(h, S)
<1> DEFINE Good == {T \in SUBSET S : SumFunctionOnSet(f, T) = SumFunctionOnSet(h, T)}
<1>1. {} \in Good  BY SumEmpty
<1>2. ASSUME NEW T \in SUBSET S, T # {}, \A x \in T : T \ {x} \in Good PROVE T \in Good
      <2>1. IsFiniteSet(T)  BY FS_Subset
      <2>2. /\ First(T) \in T
            /\ SumFunctionOnSet(f, T) = f[First(T)] + SumFunctionOnSet(f, T \ {First(T)})
            /\ SumFunctionOnSet(h, T) = h[First(T)] + SumFunctionOnSet(h, T \ {First(T)})
            BY <1>2, <2>1, SumStep
      <2> QED  BY <1>2, <2>2
<1> HIDE DEF Good
<1>3. S \in Good  BY <1>1, <1>2, SetInduction
<1> QED  BY <1>3 DEF Good

(* The sum of the sums is the sum of two functions. *)
LEMMA SumPlus ==
    ASSUME NEW S, IsFiniteSet(S), NEW f, NEW g, NEW h,
           \A x \in S : f[x] \in Int /\ g[x] \in Int /\ h[x] = f[x] + g[x]
    PROVE  SumFunctionOnSet(h, S) = SumFunctionOnSet(f, S) + SumFunctionOnSet(g, S)
<1> DEFINE Good == {T \in SUBSET S : SumFunctionOnSet(h, T) = SumFunctionOnSet(f, T) + SumFunctionOnSet(g, T)}
<1>1. {} \in Good  BY SumEmpty
<1>2. ASSUME NEW T \in SUBSET S, T # {}, \A x \in T : T \ {x} \in Good PROVE T \in Good
      <2> DEFINE r == T \ {First(T)}
      <2>1. IsFiniteSet(T)  BY FS_Subset
      <2>2. /\ First(T) \in T
            /\ SumFunctionOnSet(f, T) = f[First(T)] + SumFunctionOnSet(f, r)
            /\ SumFunctionOnSet(g, T) = g[First(T)] + SumFunctionOnSet(g, r)
            /\ SumFunctionOnSet(h, T) = h[First(T)] + SumFunctionOnSet(h, r)
            BY <1>2, <2>1, SumStep
      <2>3. SumFunctionOnSet(f, r) \in Int /\ SumFunctionOnSet(g, r) \in Int
            <3>1. IsFiniteSet(r) /\ \A x \in r : f[x] \in Int /\ g[x] \in Int  BY <2>1, FS_Subset
            <3> HIDE DEF r
            <3> QED  BY <3>1, SumIsInt
      <2> QED  BY <1>2, <2>2, <2>3
<1> HIDE DEF Good
<1>3. S \in Good  BY <1>1, <1>2, SetInduction
<1> QED  BY <1>3 DEF Good

(* A sum grows with its terms. *)
LEMMA SumGrows ==
    ASSUME NEW S, IsFiniteSet(S), NEW f, NEW h,
           \A x \in S : f[x] \in Int /\ h[x] \in Int /\ f[x] <= h[x]
    PROVE  SumFunctionOnSet(f, S) <= SumFunctionOnSet(h, S)
<1> DEFINE d == [x \in S |-> h[x] - f[x]]
<1>1. SumFunctionOnSet(h, S) = SumFunctionOnSet(f, S) + SumFunctionOnSet(d, S)
      <2>1. \A x \in S : f[x] \in Int /\ d[x] \in Int /\ h[x] = f[x] + d[x]  OBVIOUS
      <2> HIDE DEF d
      <2> QED  BY <2>1, SumPlus
<1>2. SumFunctionOnSet(d, S) \in Nat
      <2>1. \A x \in S : d[x] \in Nat  OBVIOUS
      <2> HIDE DEF d
      <2> QED  BY <2>1, SumIsNat
<1> QED  BY <1>1, <1>2, SumIsInt

(* In whatever order the sum is taken, any element may come first. *)
LEMMA SumRemove ==
    ASSUME NEW S, IsFiniteSet(S), NEW f, \A x \in S : f[x] \in Int, NEW e \in S
    PROVE  SumFunctionOnSet(f, S) = f[e] + SumFunctionOnSet(f, S \ {e})
<1> DEFINE Sum(T) == SumFunctionOnSet(f, T)
           Good == {T \in SUBSET S : \A x \in T : Sum(T) = f[x] + Sum(T \ {x})}
<1>1. {} \in Good  OBVIOUS
<1>2. ASSUME NEW T \in SUBSET S, T # {}, \A x \in T : T \ {x} \in Good,
             NEW x \in T
      PROVE  Sum(T) = f[x] + Sum(T \ {x})
      <2> DEFINE y == First(T)
      <2>1. IsFiniteSet(T) /\ IsFiniteSet(T \ {x})  BY FS_Subset
      <2>2. y \in T /\ Sum(T) = f[y] + Sum(T \ {y})  BY <1>2, <2>1, SumStep
      <2>3. CASE x = y  BY <2>2, <2>3
      <2>4. CASE x # y
            <3> DEFINE r == T \ {x, y}
            <3>1. (T \ {y}) \ {x} = r /\ (T \ {x}) \ {y} = r  OBVIOUS
            <3>2. T \ {y} \in Good /\ T \ {x} \in Good  BY <1>2, <2>2
            <3>3. Sum(T \ {y}) = f[x] + Sum(r)  BY <2>4, <3>1, <3>2
            <3>4. Sum(T \ {x}) = f[y] + Sum(r)  BY <2>2, <2>4, <3>1, <3>2
            <3>5. Sum(r) \in Int
                  <4>1. IsFiniteSet(r) /\ \A z \in r : f[z] \in Int  BY <2>1, FS_Subset
                  <4> HIDE DEF r
                  <4> QED  BY <4>1, SumIsInt
            <3>6. f[x] \in Int /\ f[y] \in Int  BY <2>2
            <3> HIDE DEF Sum, r, y
            <3> QED  BY <2>2, <3>3, <3>4, <3>5, <3>6
      <2> QED  BY <2>3, <2>4
<1>3. ASSUME NEW T \in SUBSET S, T # {}, \A x \in T : T \ {x} \in Good PROVE T \in Good
      BY <1>2, <1>3
<1> HIDE DEF Good
<1>4. S \in Good  BY <1>1, <1>3, SetInduction
<1> QED  BY <1>4 DEF Good

-----------------------------------------------------------------------------
(* Sums of whole functions. *)
LEMMA TotalIs ==
    ASSUME NEW S, NEW f, DOMAIN f = S
    PROVE  SumFunction(f) = SumFunctionOnSet(f, S)
BY DEF SumFunction

(* The same of whole functions: the total of a map of amounts is an amount. *)
LEMMA TotalInt ==
    ASSUME NEW S, IsFiniteSet(S)
    PROVE  /\ \A f \in [S -> Int] : SumFunction(f) \in Int
           /\ \A f \in [S -> Nat] : SumFunction(f) \in Nat
<1>1. ASSUME NEW f \in [S -> Int] PROVE SumFunction(f) \in Int  BY SumIsInt, TotalIs
<1>2. ASSUME NEW f \in [S -> Nat] PROVE SumFunction(f) \in Nat
      <2>1. \A x \in S : f[x] \in Nat  OBVIOUS
      <2> QED  BY <2>1, SumIsNat, TotalIs
<1> QED  BY <1>1, <1>2

(* One value replaced: what a payment does to the sum of the accounts. *)
LEMMA TotalPut ==
    ASSUME NEW S, IsFiniteSet(S), NEW f \in [S -> Int], NEW e \in S, NEW v \in Int
    PROVE  SumFunction([f EXCEPT ![e] = v]) = SumFunction(f) - f[e] + v
<1> DEFINE h == [f EXCEPT ![e] = v]
           r == S \ {e}
<1>1. IsFiniteSet(r)  BY FS_Subset
<1>2. SumFunctionOnSet(f, r) = SumFunctionOnSet(h, r) /\ SumFunctionOnSet(f, r) \in Int
      <2>1. \A x \in r : f[x] = h[x] /\ f[x] \in Int  OBVIOUS
      <2> HIDE DEF h, r
      <2> QED  BY <1>1, <2>1, SumSame, SumIsInt
<1>3. SumFunction(f) = f[e] + SumFunctionOnSet(f, r)  BY SumRemove, TotalIs
<1>4. SumFunction(h) = v + SumFunctionOnSet(h, r)
      <2>1. (\A x \in S : h[x] \in Int) /\ h[e] = v /\ DOMAIN h = S  OBVIOUS
      <2> HIDE DEF h
      <2> QED  BY <2>1, SumRemove, TotalIs
<1> HIDE DEF h, r
<1> QED  BY <1>2, <1>3, <1>4 DEF h

(* Totals of two maps add up. *)
LEMMA TotalPlus ==
    ASSUME NEW S, IsFiniteSet(S), NEW f \in [S -> Int], NEW g \in [S -> Int], NEW h \in [S -> Int],
           \A x \in S : h[x] = f[x] + g[x]
    PROVE  SumFunction(h) = SumFunction(f) + SumFunction(g)
<1>1. \A x \in S : f[x] \in Int /\ g[x] \in Int /\ h[x] = f[x] + g[x]  OBVIOUS
<1> QED  BY <1>1, SumPlus, TotalIs

(* A map of zeros has total zero. *)
LEMMA TotalZero ==
    ASSUME NEW S, IsFiniteSet(S)
    PROVE  SumFunction([x \in S |-> 0]) = 0
<1> DEFINE z == [x \in S |-> 0]
<1>1. z \in [S -> Int] /\ \A x \in S : z[x] = z[x] + z[x]  OBVIOUS
<1>2. SumFunction(z) = 0
      <2> HIDE DEF z
      <2>1. SumFunction(z) = SumFunction(z) + SumFunction(z)  BY <1>1, TotalPlus
      <2>2. SumFunction(z) \in Int  BY <1>1, TotalInt
      <2>3. \A i \in Int : i = i + i => i = 0  OBVIOUS
      <2> QED  BY <2>1, <2>2, <2>3
<1> QED  BY <1>2

(* A part of the amounts adds up to no more than all of them. *)
LEMMA TotalOnSubset ==
    ASSUME NEW S, IsFiniteSet(S), NEW f, \A x \in S : f[x] \in Nat, NEW T \in SUBSET S
    PROVE  SumFunctionOnSet(f, T) <= SumFunctionOnSet(f, S)
<1> DEFINE Good == {U \in SUBSET S : SumFunctionOnSet(f, U \cap T) <= SumFunctionOnSet(f, U)}
<1>1. {} \in Good
      <2>1. {} \cap T = {}  OBVIOUS
      <2> QED  BY <2>1, SumEmpty
<1>2. ASSUME NEW U \in SUBSET S, U # {}, \A x \in U : U \ {x} \in Good PROVE U \in Good
      <2> PICK x \in U : TRUE  BY <1>2
      <2>1. IsFiniteSet(U) /\ IsFiniteSet(U \cap T) /\ IsFiniteSet(U \ {x}) /\ IsFiniteSet((U \ {x}) \cap T)
            BY FS_Subset
      <2>2. SumFunctionOnSet(f, U) = f[x] + SumFunctionOnSet(f, U \ {x})
            BY <2>1, SumRemove
      <2> DEFINE below == SumFunctionOnSet(f, (U \ {x}) \cap T)
                 rest  == SumFunctionOnSet(f, U \ {x})
      <2>5. below \in Int /\ rest \in Int /\ f[x] \in Nat  BY <2>1, SumIsInt
      <2>6. below <= rest  BY <1>2
      <2>3. CASE x \in T
            <3>1. (U \cap T) \ {x} = (U \ {x}) \cap T  OBVIOUS
            <3>2. SumFunctionOnSet(f, U \cap T) = f[x] + SumFunctionOnSet(f, (U \cap T) \ {x})
                  BY <2>1, <2>3, SumRemove
            <3>3. SumFunctionOnSet(f, U \cap T) = f[x] + below  BY <3>1, <3>2
            <3> HIDE DEF below, rest
            <3> QED  BY <2>2, <2>5, <2>6, <3>3 DEF rest
      <2>4. CASE x \notin T
            <3>1. U \cap T = (U \ {x}) \cap T  BY <2>4
            <3>2. SumFunctionOnSet(f, U \cap T) = below  BY <3>1
            <3> HIDE DEF below, rest
            <3> QED  BY <2>2, <2>5, <2>6, <3>2 DEF rest
      <2> QED  BY <2>3, <2>4
<1> HIDE DEF Good
<1>3. S \in Good  BY <1>1, <1>2, SetInduction
<1>4. S \cap T = T  OBVIOUS
<1> QED  BY <1>3, <1>4 DEF Good

(* A common factor can be taken out of a sum. *)
LEMMA SumTimes ==
    ASSUME NEW S, IsFiniteSet(S), NEW c \in Int, NEW f, NEW h,
           \A x \in S : f[x] \in Int /\ h[x] = c * f[x]
    PROVE  SumFunctionOnSet(h, S) = c * SumFunctionOnSet(f, S)
<1> DEFINE Good == {T \in SUBSET S : SumFunctionOnSet(h, T) = c * SumFunctionOnSet(f, T)}
<1>1. {} \in Good
      <2>1. c * 0 = 0  OBVIOUS
      <2> QED  BY <2>1, SumEmpty
<1>2. ASSUME NEW T \in SUBSET S, T # {}, \A x \in T : T \ {x} \in Good PROVE T \in Good
      <2> DEFINE r == T \ {First(T)}
      <2>1. IsFiniteSet(T) /\ IsFiniteSet(r)  BY FS_Subset
      <2>2. /\ First(T) \in T
            /\ SumFunctionOnSet(f, T) = f[First(T)] + SumFunctionOnSet(f, r)
            /\ SumFunctionOnSet(h, T) = h[First(T)] + SumFunctionOnSet(h, r)
            BY <1>2, <2>1, SumStep
      <2>3. SumFunctionOnSet(f, r) \in Int  BY <2>1, SumIsInt
      <2>4. SumFunctionOnSet(h, r) = c * SumFunctionOnSet(f, r)  BY <1>2, <2>2
      <2>5. \A i, j \in Int : c * (i + j) = c * i + c * j  OBVIOUS
      <2>6. f[First(T)] \in Int /\ h[First(T)] = c * f[First(T)]  BY <2>2
      <2> HIDE DEF r
      <2> QED  BY <2>2, <2>3, <2>4, <2>5, <2>6
<1> HIDE DEF Good
<1>3. S \in Good  BY <1>1, <1>2, SetInduction
<1> QED  BY <1>3 DEF Good

(* Equal terms add up to their number times one of them. *)
LEMMA SumConstant ==
    ASSUME NEW S, IsFiniteSet(S), NEW c \in Int, NEW f, \A x \in S : f[x] = c
    PROVE  SumFunctionOnSet(f, S) = c * Cardinality(S)
<1> DEFINE Good == {T \in SUBSET S : SumFunctionOnSet(f, T) = c * Cardinality(T)}
<1>1. {} \in Good
      <2>1. c * 0 = 0  OBVIOUS
      <2> QED  BY <2>1, SumEmpty, FS_EmptySet
<1>2. ASSUME NEW T \in SUBSET S, T # {}, \A x \in T : T \ {x} \in Good PROVE T \in Good
      <2> DEFINE r == T \ {First(T)}
      <2>1. IsFiniteSet(T) /\ IsFiniteSet(r)  BY FS_Subset
      <2>2. /\ First(T) \in T
            /\ SumFunctionOnSet(f, T) = c + SumFunctionOnSet(f, r)
            BY <1>2, <2>1, SumStep
      <2>3. Cardinality(r) \in Nat /\ Cardinality(r) = Cardinality(T) - 1 /\ Cardinality(T) \in Nat
            BY <2>1, <2>2, FS_RemoveElement, FS_CardinalityType
      <2>4. SumFunctionOnSet(f, r) = c * Cardinality(r)  BY <1>2, <2>2
      <2>5. \A i \in Int : c * (i - 1) = c * i - c  OBVIOUS
      <2> HIDE DEF r
      <2> QED  BY <2>2, <2>3, <2>4, <2>5
<1> HIDE DEF Good
<1>3. S \in Good  BY <1>1, <1>2, SetInduction
<1> QED  BY <1>3 DEF Good

(* Two parts without a common element. *)
LEMMA SumUnion ==
    ASSUME NEW A, IsFiniteSet(A), NEW B, IsFiniteSet(B), A \cap B = {},
           NEW f, \A x \in A \cup B : f[x] \in Int
    PROVE  SumFunctionOnSet(f, A \cup B) = SumFunctionOnSet(f, A) + SumFunctionOnSet(f, B)
<1> DEFINE Good == {T \in SUBSET A :
                       SumFunctionOnSet(f, T \cup B) = SumFunctionOnSet(f, T) + SumFunctionOnSet(f, B)}
<1>1. {} \in Good
      <2>1. {} \cup B = B /\ SumFunctionOnSet(f, B) \in Int  BY SumIsInt
      <2> QED  BY <2>1, SumEmpty
<1>2. ASSUME NEW T \in SUBSET A, T # {}, \A x \in T : T \ {x} \in Good PROVE T \in Good
      <2> PICK x \in T : TRUE  BY <1>2
      <2> DEFINE r == T \ {x}
      <2>1. /\ IsFiniteSet(T) /\ IsFiniteSet(r) /\ IsFiniteSet(T \cup B)
            BY FS_Subset, FS_Union
      <2>2. (T \cup B) \ {x} = r \cup B /\ x \in T \cup B  OBVIOUS
      <2>3. /\ SumFunctionOnSet(f, T) = f[x] + SumFunctionOnSet(f, r)
            /\ SumFunctionOnSet(f, T \cup B) = f[x] + SumFunctionOnSet(f, (T \cup B) \ {x})
            BY <2>1, <2>2, SumRemove
      <2>4. SumFunctionOnSet(f, r \cup B) = SumFunctionOnSet(f, r) + SumFunctionOnSet(f, B)
            BY <1>2
      <2>5. f[x] \in Int /\ SumFunctionOnSet(f, r) \in Int /\ SumFunctionOnSet(f, B) \in Int
            BY <2>1, SumIsInt
      <2>6. SumFunctionOnSet(f, T \cup B) = f[x] + SumFunctionOnSet(f, r \cup B)
            BY <2>2, <2>3
      <2> HIDE DEF r
      <2> QED  BY <2>3, <2>4, <2>5, <2>6
<1> HIDE DEF Good
<1>3. A \in Good  BY <1>1, <1>2, SetInduction
<1> QED  BY <1>3 DEF Good

(* The same values under other names: h gives each name its new one. *)
LEMMA SumRenamed ==
    ASSUME NEW S, IsFiniteSet(S), NEW h, NEW f, NEW g,
           \A x, y \in S : h[x] = h[y] => x = y,
           \A x \in S : g[x] \in Int /\ f[h[x]] = g[x]
    PROVE  SumFunctionOnSet(f, {h[x] : x \in S}) = SumFunctionOnSet(g, S)
<1> DEFINE To(T) == {h[x] : x \in T}
           Good == {T \in SUBSET S : SumFunctionOnSet(f, To(T)) = SumFunctionOnSet(g, T)}
<1>1. {} \in Good
      <2>1. To({}) = {}  OBVIOUS
      <2> HIDE DEF To
      <2> QED  BY <2>1, SumEmpty
<1>2. ASSUME NEW T \in SUBSET S, T # {}, \A x \in T : T \ {x} \in Good PROVE T \in Good
      <2> PICK x \in T : TRUE  BY <1>2
      <2>1. IsFiniteSet(T)  BY FS_Subset
      <2>2. To(T \ {x}) = To(T) \ {h[x]} /\ h[x] \in To(T) /\ \A y \in To(T) : f[y] \in Int
            OBVIOUS
      <2>3. IsFiniteSet(To(T))
            <3> DEFINE k == [y \in T |-> h[y]]
            <3>1. k \in Surjection(T, To(T))  BY DEF Surjection
            <3> HIDE DEF k, To
            <3> QED  BY <2>1, <3>1, FS_Surjection
      <2> HIDE DEF To
      <2>4. SumFunctionOnSet(f, To(T)) = f[h[x]] + SumFunctionOnSet(f, To(T) \ {h[x]})
            BY <2>2, <2>3, SumRemove
      <2>5. SumFunctionOnSet(g, T) = g[x] + SumFunctionOnSet(g, T \ {x})  BY <2>1, SumRemove
      <2>6. SumFunctionOnSet(f, To(T \ {x})) = SumFunctionOnSet(g, T \ {x})  BY <1>2
      <2> QED  BY <2>2, <2>4, <2>5, <2>6
<1> HIDE DEF Good
<1>3. S \in Good  BY <1>1, <1>2, SetInduction
<1> QED  BY <1>3 DEF Good

(* A sum over a part is the sum over everything of what counts there.       *)
LEMMA SumOfPart ==
    ASSUME NEW S, IsFiniteSet(S), NEW T \in SUBSET S, NEW f, NEW g,
           \A x \in T : f[x] \in Int /\ g[x] = f[x], \A x \in S \ T : g[x] = 0
    PROVE  SumFunctionOnSet(f, T) = SumFunctionOnSet(g, S)
<1> DEFINE R == S \ T
<1>1. IsFiniteSet(T) /\ IsFiniteSet(R) /\ T \cup R = S /\ T \cap R = {}  BY FS_Subset
<1>2. \A x \in T \cup R : g[x] \in Int  OBVIOUS
<1>3. \A x \in R : g[x] = 0  OBVIOUS
<1> HIDE DEF R
<1>4. SumFunctionOnSet(g, T \cup R) = SumFunctionOnSet(g, T) + SumFunctionOnSet(g, R)
      BY <1>1, <1>2, SumUnion
<1>5. SumFunctionOnSet(g, R) = 0
      <2>1. SumFunctionOnSet(g, R) = 0 * Cardinality(R)  BY <1>1, <1>3, SumConstant
      <2>2. Cardinality(R) \in Nat  BY <1>1, FS_CardinalityType
      <2> QED  BY <2>1, <2>2
<1>6. SumFunctionOnSet(g, T) = SumFunctionOnSet(f, T) /\ SumFunctionOnSet(f, T) \in Int
      BY <1>1, SumSame, SumIsInt
<1>7. SumFunctionOnSet(g, S) = SumFunctionOnSet(f, T) + 0  BY <1>1, <1>4, <1>5, <1>6
<1> QED  BY <1>6, <1>7

(* Entries of zero can be left out of a total. *)
LEMMA TotalOfPart ==
    ASSUME NEW S, IsFiniteSet(S), NEW T \in SUBSET S, NEW f \in [T -> Int], NEW g \in [S -> Int],
           \A x \in T : g[x] = f[x], \A x \in S \ T : g[x] = 0
    PROVE  SumFunction(f) = SumFunction(g)
<1>1. \A x \in T : f[x] \in Int /\ g[x] = f[x]  OBVIOUS
<1>2. DOMAIN f = T /\ DOMAIN g = S  OBVIOUS
<1> QED  BY <1>1, <1>2, SumOfPart, TotalIs

(* One number more at the end. *)
LEMMA TotalExtended ==
    ASSUME NEW n \in Nat, NEW f \in [1 .. n -> Int], NEW g \in [1 .. n + 1 -> Int],
           \A i \in 1 .. n : g[i] = f[i]
    PROVE  SumFunction(g) = SumFunction(f) + g[n + 1]
<1>1. /\ (1 .. n + 1) \ {n + 1} = 1 .. n /\ n + 1 \in 1 .. n + 1 /\ n + 1 \in Int /\ n \in Int
      /\ 1 \in Int /\ 1 .. n \subseteq 1 .. n + 1
      OBVIOUS
<1>2. IsFiniteSet(1 .. n) /\ IsFiniteSet(1 .. n + 1)  BY <1>1, FS_Interval
<1>3. DOMAIN f = 1 .. n /\ DOMAIN g = 1 .. n + 1 /\ \A i \in 1 .. n + 1 : g[i] \in Int  OBVIOUS
<1>4. SumFunctionOnSet(g, 1 .. n + 1) = g[n + 1] + SumFunctionOnSet(g, (1 .. n + 1) \ {n + 1})
      BY <1>1, <1>2, <1>3, SumRemove
<1>5. SumFunctionOnSet(g, 1 .. n) = SumFunctionOnSet(f, 1 .. n)  BY <1>2, SumSame
<1>6. SumFunctionOnSet(f, 1 .. n) \in Int
      <2>1. \A i \in 1 .. n : f[i] \in Int  OBVIOUS
      <2> QED  BY <1>2, <2>1, SumIsInt
<1>7. SumFunction(f) = SumFunctionOnSet(f, 1 .. n) /\ SumFunction(g) = SumFunctionOnSet(g, 1 .. n + 1)
      BY <1>3, TotalIs
<1>8. SumFunction(g) = g[n + 1] + SumFunctionOnSet(f, 1 .. n)  BY <1>1, <1>4, <1>5, <1>7
<1>9. g[n + 1] \in Int  BY <1>1, <1>3
<1> QED  BY <1>6, <1>7, <1>8, <1>9

\* Adding up a table by rows or by columns gives the same.
LEMMA SumSwap ==
    ASSUME NEW S, IsFiniteSet(S), NEW T, IsFiniteSet(T), NEW m,
           \A x \in S : \A y \in T : m[x][y] \in Int
    PROVE  SumFunctionOnSet([x \in S |-> SumFunctionOnSet(m[x], T)], S)
             = SumFunctionOnSet([y \in T |-> SumFunctionOnSet([x \in S |-> m[x][y]], S)], T)
<1> DEFINE row == [x \in S |-> SumFunctionOnSet(m[x], T)]
           col(y) == [x \in S |-> m[x][y]]
           cols(U) == [y \in T |-> SumFunctionOnSet(col(y), U)]
           Good == {U \in SUBSET S : SumFunctionOnSet(row, U) = SumFunctionOnSet(cols(U), T)}
<1>1. {} \in Good
      <2>1. \A y \in T : cols({})[y] = 0  BY SumEmpty
      <2> DEFINE z == cols({})
      <2>2. \A y \in T : z[y] = 0  BY <2>1
      <2> HIDE DEF z
      <2>3. SumFunctionOnSet(z, T) = 0 * Cardinality(T)  BY <2>2, SumConstant
      <2>4. Cardinality(T) \in Nat  BY FS_CardinalityType
      <2>5. SumFunctionOnSet(z, T) = 0  BY <2>3, <2>4
      <2>6. SumFunctionOnSet(row, {}) = 0  BY SumEmpty
      <2> QED  BY <2>5, <2>6 DEF z
<1>2. ASSUME NEW U \in SUBSET S, U # {}, \A x \in U : U \ {x} \in Good PROVE U \in Good
      <2> PICK e \in U : TRUE  BY <1>2
      <2> DEFINE r == U \ {e}
      <2>1. IsFiniteSet(U) /\ IsFiniteSet(r) /\ r \subseteq S  BY FS_Subset
      <2>2. \A x \in S : row[x] \in Int
            <3> TAKE x \in S
            <3>1. \A y \in T : m[x][y] \in Int  OBVIOUS
            <3> QED  BY <3>1, SumIsInt
      <2>3. SumFunctionOnSet(row, r) = SumFunctionOnSet(cols(r), T)  BY <1>2
      <2>4. SumFunctionOnSet(row, U) = row[e] + SumFunctionOnSet(row, r)
            <3>1. \A x \in U : row[x] \in Int  BY <2>2
            <3> HIDE DEF row
            <3> QED  BY <2>1, <3>1, SumRemove
      <2>5. ASSUME NEW y \in T
            PROVE  /\ m[e][y] \in Int /\ cols(r)[y] \in Int
                   /\ cols(U)[y] = m[e][y] + cols(r)[y]
            <3> DEFINE c == col(y)
            <3>1. \A x \in U : c[x] \in Int  OBVIOUS
            <3>2. c[e] = m[e][y]  OBVIOUS
            <3>3. cols(r)[y] = SumFunctionOnSet(c, r) /\ cols(U)[y] = SumFunctionOnSet(c, U)  OBVIOUS
            <3> HIDE DEF c
            <3>4. SumFunctionOnSet(c, U) = c[e] + SumFunctionOnSet(c, r)  BY <2>1, <3>1, SumRemove
            <3>5. SumFunctionOnSet(c, r) \in Int  BY <2>1, <3>1, SumIsInt
            <3> QED  BY <3>2, <3>3, <3>4, <3>5
      <2>6. SumFunctionOnSet(cols(U), T) = SumFunctionOnSet(m[e], T) + SumFunctionOnSet(cols(r), T)
            <3> DEFINE f == m[e]
                       g == cols(r)
                       h == cols(U)
            <3>1. \A y \in T : f[y] \in Int /\ g[y] \in Int /\ h[y] = f[y] + g[y]  BY <2>5
            <3> HIDE DEF f, g, h
            <3>2. SumFunctionOnSet(h, T) = SumFunctionOnSet(f, T) + SumFunctionOnSet(g, T)
                  BY <3>1, SumPlus
            <3> QED  BY <3>2 DEF f, g, h
      <2>7. row[e] = SumFunctionOnSet(m[e], T)  OBVIOUS
      <2> HIDE DEF row, cols, r
      <2>8. SumFunctionOnSet(row, U) = SumFunctionOnSet(cols(U), T)  BY <2>3, <2>4, <2>6, <2>7
      <2> QED  BY <2>8 DEF row, cols
<1> HIDE DEF Good
<1>3. S \in Good  BY <1>1, <1>2, SetInduction
<1> QED  BY <1>3 DEF Good

\* Adding a map on a part of the set to a function adds its total.
LEMMA TotalSpread ==
    ASSUME NEW S, IsFiniteSet(S), NEW b \in [S -> Int], NEW D \in SUBSET S, NEW f, DOMAIN f = D,
           \A x \in D : f[x] \in Int
    PROVE  SumFunction([a \in S |-> b[a] + (IF a \in D THEN f[a] ELSE 0)]) = SumFunction(b) + SumFunction(f)
<1> DEFINE g == [a \in S |-> IF a \in D THEN f[a] ELSE 0]
           h == [a \in S |-> b[a] + (IF a \in D THEN f[a] ELSE 0)]
<1>1. /\ DOMAIN g = S /\ DOMAIN h = S /\ DOMAIN b = S
      /\ \A x \in S : b[x] \in Int /\ g[x] \in Int /\ h[x] = b[x] + g[x]
      /\ \A x \in D : g[x] = f[x]
      /\ \A x \in S \ D : g[x] = 0
      OBVIOUS
<1> HIDE DEF g, h
<1>2. SumFunctionOnSet(f, D) = SumFunctionOnSet(g, S)  BY <1>1, SumOfPart
<1>3. SumFunctionOnSet(h, S) = SumFunctionOnSet(b, S) + SumFunctionOnSet(g, S)  BY <1>1, SumPlus
<1>4. SumFunction(h) = SumFunction(b) + SumFunction(f)  BY <1>1, <1>2, <1>3, TotalIs
<1> QED  BY <1>4 DEF h

\* Setting a part of a function to zero takes that part off its total.
LEMMA TotalCut ==
    ASSUME NEW S, IsFiniteSet(S), NEW f \in [S -> Int], NEW T \in SUBSET S
    PROVE  /\ SumFunction([a \in S |-> IF a \in T THEN 0 ELSE f[a]]) = SumFunction(f) - SumFunctionOnSet(f, T)
           /\ SumFunctionOnSet(f, T) \in Int
<1> DEFINE g == [a \in S |-> IF a \in T THEN f[a] ELSE 0]
           h == [a \in S |-> IF a \in T THEN 0 ELSE f[a]]
<1>1. /\ DOMAIN g = S /\ DOMAIN h = S /\ DOMAIN f = S
      /\ \A x \in S : h[x] \in Int /\ g[x] \in Int /\ f[x] = h[x] + g[x]
      /\ \A x \in T : f[x] \in Int /\ g[x] = f[x]
      /\ \A x \in S \ T : g[x] = 0
      OBVIOUS
<1> HIDE DEF g, h
<1>2. SumFunctionOnSet(f, T) = SumFunctionOnSet(g, S)  BY <1>1, SumOfPart
<1>3. SumFunctionOnSet(f, S) = SumFunctionOnSet(h, S) + SumFunctionOnSet(g, S)  BY <1>1, SumPlus
<1>4. SumFunctionOnSet(h, S) \in Int /\ SumFunctionOnSet(g, S) \in Int  BY <1>1, SumIsInt
<1>5. SumFunction(h) = SumFunction(f) - SumFunctionOnSet(f, T)  BY <1>1, <1>2, <1>3, <1>4, TotalIs
<1> QED  BY <1>2, <1>4, <1>5 DEF h
=============================================================================
